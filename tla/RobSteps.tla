------------------------------ MODULE RobSteps ------------------------------
(***************************************************************************)
(* The reorder buffer for every number of rows, columns and ports: what a  *)
(* clock edge does to the window, the irrevocable pointer, the registered  *)
(* first columns and the kill.  RobProofs adds the walk and the theorems.  *)
(*                                                                         *)
(* PointersExact, KillExact and WalkExact (Rob) are not inductive one by   *)
(* one: the window needs the kill (a release cuts it after the branch),    *)
(* the kill needs the window and its rows' columns, the walk needs both.   *)
(* RobInv is their conjunction, said of distances from the head, which a   *)
(* commit changes by at most one row.                                      *)
(*                                                                         *)
(* The facts about a window, a kill or a walk are lemmas about any set of  *)
(* slots V, head h, tail tl and first columns F (Win, Settled, Younger,    *)
(* WalkAt); the lemmas about an edge put the registers in their place.     *)
(***************************************************************************)
EXTENDS Rob, TLAPS

\* One clock edge, register by register: the commits, the settling and the group of
\* the cycle each computed once, and every register from them.
LEMMA Edge ==
  ASSUME NEW i, RobTick(i)
  PROVE  LET c == cv(i)
             st == irr_step(i)
             new == Alloc(i.d)
             hn == head_n(c)
             to == IF i.flush THEN flush_pos(hn) ELSE hn
             takesHead == i.flush \/ Behind(st, hn)
             live == IF i.flush THEN {}
                     ELSE ((v \cup new) \ {hsx(p) : p \in c}) \ (IF i.rel THEN kill.kd ELSE {})
         IN  /\ ent' = [x \in live |-> IF x \in new THEN DOp(i.d, x) ELSE ent[x]]
             /\ done' = ((done \ new) \cup {six(t) : t \in i.w}) \cap live
             /\ head' = to
             /\ irr' = IF takesHead THEN to ELSE st
             /\ tail' = IF i.flush THEN to.r ELSE tail_n(i)
             /\ fc' = IF DoAlloc(i.d) THEN [fc EXCEPT ![trow] = i.d.fc] ELSE fc
             /\ hfc' = hfc_n(i.d, to)
             /\ ifc' = IF takesHead THEN hfc_n(i.d, to) ELSE ifc_n(i.d, st)
             /\ wl' = wl_n(i)
             /\ k' = k_n(i)
             /\ kill' = kill_n(i)
             /\ walked' = IF Ends(i) THEN {} ELSE walked \cup WalkSlots
BY SMTT(30) DEF RobTick

\* Distances on the ring of rows with the wrap bit, and on the ring of rows: in range, and
\* zero only from a row to itself
LEMMA Rings ==
  /\ ROWS \in Nat /\ ROWS >= 2 /\ CAP \in Nat /\ CAP <= ROWS
  /\ \A a, b \in RRow : RSub(a, b) \in 0..2*ROWS-1 /\ (RSub(a, b) = 0 <=> a = b)
  /\ \A r, g \in Row : RowSub(r, g) \in 0..ROWS-1 /\ (RowSub(r, g) = 0 <=> r = g)
BY RobAssumption DEF RRow, Row, RSub, RowSub

\* The distance of two rows of the ring, from their distances to a third
LEMMA RSubDiff ==
  ASSUME NEW h \in RRow, NEW a \in RRow, NEW b \in RRow
  PROVE  RSub(a, b) = IF RSub(a, h) >= RSub(b, h) THEN RSub(a, h) - RSub(b, h)
                      ELSE RSub(a, h) - RSub(b, h) + 2 * ROWS
BY RobAssumption DEF RRow, RSub

\* A step of either end changes the distance by one, until it wraps
LEMMA RIncSub ==
  ASSUME NEW R \in RRow, NEW h \in RRow
  PROVE  /\ RSub(R, h) < 2 * ROWS - 1 => RSub(RInc(R), h) = RSub(R, h) + 1
         /\ R # h => RSub(R, RInc(h)) = RSub(R, h) - 1
BY RobAssumption DEF RRow, RSub, RInc

\* The same on the rows without the wrap bit
LEMMA RowIncSub ==
  ASSUME NEW r \in Row, NEW g \in Row
  PROVE  /\ RowSub(r, RowInc(g)) = IF r = g THEN ROWS - 1 ELSE RowSub(r, g) - 1
         /\ r # g => RowSub(RowDec(r), g) = RowSub(r, g) - 1
BY RobAssumption DEF Row, RowSub, RowInc, RowDec

\* The row before g is the farthest from it
LEMMA RowBefore ==
  ASSUME NEW g \in Row
  PROVE  RowSub(RowDec(g), g) = ROWS - 1
BY RobAssumption DEF Row, RowSub, RowDec

\* Two rows at the same distance from g are the same row
LEMMA RowSubInjective ==
  ASSUME NEW g \in Row, NEW r \in Row, NEW s \in Row
  PROVE  RowSub(r, g) = RowSub(s, g) <=> r = s
BY RobAssumption DEF Row, RowSub

\* A row below the wrap bit: it steps with the ring, and distances below ROWS agree
LEMMA RowOfRing ==
  ASSUME NEW R \in RRow, NEW h \in RRow
  PROVE  /\ RowOf(RInc(R)) = RowInc(RowOf(R))
         /\ RSub(R, h) < ROWS => RowSub(RowOf(R), RowOf(h)) = RSub(R, h)
         /\ RSub(R, h) = ROWS => RowOf(R) = RowOf(h)
BY RobAssumption DEF RRow, RSub, RInc, RowOf, RowInc, RowSub

\* Adding a distance on the ring leads to the row at that distance
LEMMA RAddRing ==
  ASSUME NEW h \in RRow, NEW n \in Row, NEW r \in Row
  PROVE  /\ RAdd(h, n) \in RRow /\ RSub(RAdd(h, n), h) = n
         /\ RowOf(RAdd(h, RowSub(r, RowOf(h)))) = r
         /\ RowSub(RowOf(RAdd(h, n)), RowOf(h)) = n
BY RobAssumption DEF RRow, Row, RSub, RAdd, RowOf, RowSub

\* Rotating by a row's first column and back is the identity, both ways (col_of, pos_of)
LEMMA Rotation ==
  ASSUME NEW f \in Col, NEW p \in Pos
  PROVE  /\ col_of(f, p) \in Col /\ pos_of(f, WrapCol(f, col_of(f, p))) = p
         /\ pos_of(f, WrapCol(f, p)) \in Pos /\ col_of(f, pos_of(f, WrapCol(f, p))) = p
BY WidthAssumption DEF Col, Pos, col_of, pos_of, WrapCol

-----------------------------------------------------------------------------
Ptr == [r : RRow, p : Pos]
\* r's distance from the head h's row; the slot at r's position p; a slot's position
Dst(h, r) == RowSub(r, RowOf(h.r))
At(F, r, p) == <<r, col_of(F[r], p)>>
PosIn(F, x) == pos_of(F[x[1]], WrapCol(F[x[1]], x[2]))
From(h, r) == IF r = RowOf(h.r) THEN h.p ELSE 0

\* V is the window from the head h to the tail row tl
IsRun(V, F, r, lo) ==
  \E m \in Pos : lo <= m /\ \A p \in Pos : At(F, r, p) \in V <=> lo <= p /\ p <= m
Win(V, h, tl, F) ==
  /\ RSub(tl, h.r) <= CAP
  /\ RSub(tl, h.r) = 0 => h.p = 0
  /\ \A x \in V : Dst(h, x[1]) < RSub(tl, h.r)
  /\ \A r \in Row : Dst(h, r) < RSub(tl, h.r) => IsRun(V, F, r, From(h, r))

\* A pointer's fields are in range, and positions are naturals
LEMMA Pointers ==
  /\ Pos \subseteq Nat
  /\ \A q \in Ptr : q.r \in RRow /\ q.p \in Pos /\ q.p \in Nat /\ RowOf(q.r) \in Row
<1>1. Pos \subseteq Nat
  BY WidthAssumption DEF Pos, Col
<1>2. \A R \in RRow : RowOf(R) \in Row
  BY RobAssumption DEF RowOf, RRow, Row
<1> QED BY <1>1, <1>2, Zenon DEF Ptr

\* A slot is at its position
LEMMA SlotAt ==
  ASSUME NEW F \in [Row -> Col], NEW x \in Slot
  PROVE  x[1] \in Row /\ PosIn(F, x) \in Pos /\ x = At(F, x[1], PosIn(F, x))
<1>1. x[1] \in Row /\ x[2] \in Col /\ x = <<x[1], x[2]>> /\ F[x[1]] \in Col
  BY DEF Slot
<1>2. x[2] \in Pos
  BY <1>1, Zenon DEF Pos
<1> QED
  BY <1>1, <1>2, Rotation, Zenon DEF At, PosIn

\* The slot at a position of a row is a slot of that row, at that position
LEMMA AtSlot ==
  ASSUME NEW F \in [Row -> Col], NEW r \in Row, NEW p \in Pos
  PROVE  At(F, r, p) \in Slot /\ At(F, r, p)[1] = r /\ PosIn(F, At(F, r, p)) = p
<1>1. F[r] \in Col /\ col_of(F[r], p) \in Col /\ pos_of(F[r], WrapCol(F[r], col_of(F[r], p))) = p
  BY Rotation, Zenon
<1> QED
  BY <1>1, Zenon DEF At, PosIn, Slot

\* Where the rows stand once the head has moved to the next row
LEMMA HeadMoves ==
  ASSUME NEW h \in Ptr, NEW hn \in Ptr, hn.r = RInc(h.r), NEW r \in Row
  PROVE  /\ RowOf(h.r) \in Row /\ Dst(h, r) \in 0..ROWS-1 /\ (Dst(h, r) = 0 <=> r = RowOf(h.r))
         /\ Dst(hn, r) = IF r = RowOf(h.r) THEN ROWS - 1 ELSE Dst(h, r) - 1
<1>1. RowOf(h.r) \in Row /\ h.r \in RRow
  BY RobAssumption DEF Ptr, RowOf, RRow, Row
<1>2. RowOf(hn.r) = RowInc(RowOf(h.r))
  BY <1>1, RowOfRing, Zenon
<1> QED
  BY <1>1, <1>2, RowIncSub, Rings DEF Dst

\* What committing the slots C does to the window: nothing, or the head moves
\* within its row, or the whole row goes
Commits(V, h, F, C, hn) ==
  \/ C = {} /\ hn = h
  \/ /\ hn.r = h.r /\ hn.p > h.p /\ At(F, RowOf(h.r), hn.p) \in V
     /\ C = {At(F, RowOf(h.r), p) : p \in h.p..hn.p-1}
  \/ /\ hn = [r |-> RInc(h.r), p |-> 0] /\ C # {} /\ C \subseteq V
     /\ \A x \in V : x \in C <=> x[1] = RowOf(h.r)

\* What is left when ops commit from the head is the window from the new head
LEMMA CommitWin ==
  ASSUME NEW V, V \subseteq Slot, NEW h \in Ptr, NEW tl \in RRow, NEW F \in [Row -> Col], NEW C, NEW hn \in Ptr,
         Win(V, h, tl, F), Commits(V, h, F, C, hn)
  PROVE  Win(V \ C, hn, tl, F) /\ RSub(tl, hn.r) <= RSub(tl, h.r)
<1>0. h.r \in RRow /\ h.p \in Pos /\ hn.p \in Pos /\ hn.r \in RRow
  BY Zenon DEF Ptr
<1>h. RowOf(h.r) \in Row
  BY <1>0, RobAssumption DEF RowOf, RRow, Row
<1>n. RSub(tl, h.r) \in Nat
  BY <1>0, Rings
<1>1. CASE C = {} /\ hn = h
  BY <1>n, <1>1
<1>2. CASE hn.r = h.r /\ hn.p > h.p /\ At(F, RowOf(h.r), hn.p) \in V /\ C = {At(F, RowOf(h.r), p) : p \in h.p..hn.p-1}
  <2>1. RSub(tl, hn.r) = RSub(tl, h.r) /\ \A r : Dst(hn, r) = Dst(h, r)
    BY <1>2, Zenon DEF Dst
  <2>2. RSub(tl, h.r) # 0
    <3>1. At(F, RowOf(h.r), hn.p)[1] = RowOf(h.r)
      BY Zenon DEF At
    <3>2. Dst(h, RowOf(h.r)) < RSub(tl, h.r) /\ Dst(h, RowOf(h.r)) = 0
      BY <1>2, <1>h, <3>1, Rings, Zenon DEF Win, Dst
    <3> QED BY <3>2
  <2>3. ASSUME NEW r \in Row, Dst(h, r) < RSub(tl, h.r) PROVE IsRun(V \ C, F, r, From(hn, r))
    <3>1. PICK m \in Pos : From(h, r) <= m /\ \A p \in Pos : At(F, r, p) \in V <=> From(h, r) <= p /\ p <= m
      BY <2>3, Zenon DEF Win, IsRun
    <3>2. CASE r # RowOf(h.r)
      <4>1. \A p \in Pos : At(F, r, p) \notin C
        BY <1>2, <3>2, Zenon DEF At
      <4> QED BY <1>2, <3>1, <3>2, <4>1, Zenon DEF IsRun, From
    <3>3. CASE r = RowOf(h.r)
      <4>1. From(h, r) = h.p /\ From(hn, r) = hn.p
        BY <1>2, <3>3, Zenon DEF From
      <4>2. hn.p <= m
        BY <1>0, <1>2, <3>1, <3>3, Zenon
      <4>3. \A p \in Pos : At(F, r, p) \in C <=> h.p <= p /\ p < hn.p
        <5>1. h.p \in Nat /\ hn.p \in Nat /\ hn.p < IW /\ IW \in Nat
          BY <1>0, WidthAssumption DEF Pos, Col
        <5>2. \A p \in h.p..hn.p-1 : p \in Pos
          BY <5>1 DEF Pos, Col
        <5>3. \A p, s \in Pos : At(F, r, p) = At(F, r, s) => p = s
          BY AtSlot
        <5> QED BY <1>2, <3>3, <5>1, <5>2, <5>3 DEF Pos, Col
      <4>4. \A p \in Pos : At(F, r, p) \in V \ C <=> hn.p <= p /\ p <= m
        <5>1. h.p \in Nat /\ hn.p \in Nat /\ m \in Nat /\ Pos \subseteq Nat
          BY <1>0, WidthAssumption DEF Pos, Col
        <5> QED BY <1>2, <3>1, <4>1, <4>3, <5>1
      <4> QED BY <4>1, <4>2, <4>4, Zenon DEF IsRun
    <3> QED BY <3>2, <3>3, Zenon
  <2>4. RSub(tl, hn.r) <= RSub(tl, h.r)
    BY <1>n, <2>1
  <2> QED BY <2>1, <2>2, <2>3, <2>4, Zenon DEF Win
<1>3. CASE /\ hn = [r |-> RInc(h.r), p |-> 0] /\ C # {} /\ C \subseteq V
           /\ \A x \in V : x \in C <=> x[1] = RowOf(h.r)
  <2>1. hn.r = RInc(h.r) /\ hn.p = 0
    BY <1>3, Zenon
  <2>2. PICK y \in V : y[1] = RowOf(h.r)
    BY <1>3, Zenon
  <2>3. RSub(tl, h.r) # 0
    BY <1>h, <2>2, Rings DEF Win, Dst
  <2>4. RSub(tl, hn.r) = RSub(tl, h.r) - 1 /\ RSub(tl, h.r) \in 0..2*ROWS-1
    BY <1>0, <2>1, <2>3, Rings, RIncSub
  <2>5. RSub(tl, h.r) <= CAP
    BY Zenon DEF Win
  <2>6. ASSUME NEW x \in V \ C PROVE Dst(hn, x[1]) < RSub(tl, hn.r)
    <3>1. x[1] \in Row /\ x[1] # RowOf(h.r) /\ Dst(h, x[1]) < RSub(tl, h.r)
      BY <1>3, <2>6, Zenon DEF Slot, Win
    <3> QED BY <2>1, <2>4, <3>1, HeadMoves
  <2>7. ASSUME NEW r \in Row, Dst(hn, r) < RSub(tl, hn.r) PROVE IsRun(V \ C, F, r, From(hn, r))
    <3>1. r # RowOf(h.r) /\ Dst(h, r) < RSub(tl, h.r)
      BY <2>1, <2>4, <2>5, <2>7, HeadMoves, Rings
    <3>2. PICK m \in Pos : 0 <= m /\ \A p \in Pos : At(F, r, p) \in V <=> 0 <= p /\ p <= m
      BY <3>1, Zenon DEF Win, IsRun, From
    <3>3. \A p \in Pos : At(F, r, p) \in V \ C <=> At(F, r, p) \in V
      BY <1>3, <3>1, Zenon DEF At
    <3>4. From(hn, r) = 0
      BY <2>1, Zenon DEF From
    <3> QED BY <3>2, <3>3, <3>4, Zenon DEF IsRun
  <2>8. RSub(tl, hn.r) <= CAP
    BY <2>4, <2>5, RobAssumption
  <2>9. RSub(tl, hn.r) <= RSub(tl, h.r)
    BY <1>n, <2>4
  <2> QED BY <2>1, <2>6, <2>7, <2>8, <2>9, Zenon DEF Win
<1> QED BY <1>1, <1>2, <1>3, Zenon DEF Commits

\* x is younger than the slot b
Younger(h, F, x, b) ==
  \/ Dst(h, x[1]) > Dst(h, b[1])
  \/ x[1] = b[1] /\ PosIn(F, x) > PosIn(F, b)

\* The tail's row is free while the window is not full
LEMMA TailRow ==
  ASSUME NEW h \in Ptr, NEW tl \in RRow, RSub(tl, h.r) < CAP
  PROVE  /\ RowOf(tl) \in Row /\ RowOf(h.r) \in Row /\ RSub(tl, h.r) \in Nat /\ RSub(tl, h.r) < ROWS
         /\ Dst(h, RowOf(tl)) = RSub(tl, h.r) /\ RSub(RInc(tl), h.r) = RSub(tl, h.r) + 1
<1>1. RowOf(tl) \in Row /\ RowOf(h.r) \in Row /\ h.r \in RRow
  BY RobAssumption DEF Ptr, RowOf, RRow, Row
<1>2. RSub(tl, h.r) \in Nat /\ RSub(tl, h.r) < ROWS /\ ROWS \in Nat /\ ROWS >= 2
  BY <1>1, Rings
<1>3. RSub(tl, h.r) < 2 * ROWS - 1
  BY <1>2
<1> QED
  BY <1>1, <1>2, <1>3, RowOfRing, RIncSub, Zenon DEF Dst

\* A group written from its first column on, in the tail's row, is the window's new last row
LEMMA AllocWin ==
  ASSUME NEW V, V \subseteq Slot, NEW h \in Ptr, NEW tl \in RRow, NEW F \in [Row -> Col],
         NEW f \in Col, NEW n \in 1..IW, Win(V, h, tl, F), RSub(tl, h.r) < CAP
  PROVE  Win(V \cup {<<RowOf(tl), col_of(f, p)>> : p \in 0..n-1}, h, RInc(tl), [F EXCEPT ![RowOf(tl)] = f])
<1> DEFINE N == {<<RowOf(tl), col_of(f, p)>> : p \in 0..n-1}
           G == [F EXCEPT ![RowOf(tl)] = f]
<1>1. /\ RowOf(tl) \in Row /\ RowOf(h.r) \in Row /\ RSub(tl, h.r) \in Nat /\ RSub(tl, h.r) < ROWS
      /\ Dst(h, RowOf(tl)) = RSub(tl, h.r) /\ RSub(RInc(tl), h.r) = RSub(tl, h.r) + 1
  BY TailRow, Zenon
<1>2. G \in [Row -> Col] /\ G[RowOf(tl)] = f /\ \A r \in Row : r # RowOf(tl) => G[r] = F[r]
  BY <1>1, Zenon
<1>3. \A x \in N : x[1] = RowOf(tl)
  OBVIOUS
<1>4. RSub(RInc(tl), h.r) <= CAP
  BY <1>1, RobAssumption
<1>5. RSub(RInc(tl), h.r) # 0
  BY <1>1
<1>6. \A x \in V \cup N : Dst(h, x[1]) < RSub(RInc(tl), h.r)
  <2>1. ASSUME NEW x \in V PROVE Dst(h, x[1]) < RSub(RInc(tl), h.r)
    <3>1. x[1] \in Row /\ Dst(h, x[1]) < RSub(tl, h.r)
      BY Zenon DEF Slot, Win
    <3>2. Dst(h, x[1]) \in Nat
      BY <3>1, <1>1, Rings DEF Dst
    <3> QED BY <1>1, <3>1, <3>2
  <2>2. ASSUME NEW x \in N PROVE Dst(h, x[1]) < RSub(RInc(tl), h.r)
    BY <1>1, <1>3
  <2> QED BY <2>1, <2>2, Zenon
<1>7. ASSUME NEW r \in Row, Dst(h, r) < RSub(RInc(tl), h.r) PROVE IsRun(V \cup N, G, r, From(h, r))
  <2>1. CASE r # RowOf(tl)
    <3>1. Dst(h, r) < RSub(tl, h.r)
      <4>1. Dst(h, r) \in Nat
        BY <1>1, Rings DEF Dst
      <4>2. Dst(h, r) # Dst(h, RowOf(tl))
        BY <1>1, <2>1, RowSubInjective, Zenon DEF Dst
      <4> QED BY <1>1, <1>7, <4>1, <4>2
    <3>2. PICK m \in Pos : From(h, r) <= m /\ \A p \in Pos : At(F, r, p) \in V <=> From(h, r) <= p /\ p <= m
      BY <3>1, Zenon DEF Win, IsRun
    <3>3. \A p \in Pos : At(G, r, p) = At(F, r, p) /\ At(F, r, p) \notin N
      BY <1>2, <1>3, <2>1, Zenon DEF At
    <3> HIDE DEF N, G
    <3> QED BY <3>2, <3>3, Zenon DEF IsRun
  <2>2. CASE r = RowOf(tl)
    <3>1. From(h, r) = 0
      <4>1. CASE r # RowOf(h.r)
        BY <4>1, Zenon DEF From
      <4>2. CASE r = RowOf(h.r)
        <5>1. RSub(tl, h.r) = 0
          BY <1>1, <2>2, <4>2, Rings, Zenon DEF Dst
        <5> QED BY <4>2, <5>1, Zenon DEF From, Win
      <4> QED BY <4>1, <4>2, Zenon
    <3>2. \A p \in Pos : At(G, r, p) \notin V
      <4>1. \A p \in Pos : At(G, r, p)[1] = r
        BY Zenon DEF At
      <4>2. \A x \in V : Dst(h, x[1]) < RSub(tl, h.r)
        BY Zenon DEF Win
      <4> HIDE DEF N, G
      <4>3. ~(RSub(tl, h.r) < RSub(tl, h.r))
        BY <1>1
      <4> QED BY <1>1, <2>2, <4>1, <4>2, <4>3, Zenon
    <3>3. n \in Nat /\ n >= 1 /\ n <= IW /\ IW \in Nat
      BY WidthAssumption
    <3>4. n - 1 \in Pos /\ \A p \in 0..n-1 : p \in Pos
      BY <3>3 DEF Pos, Col
    <3>5. \A p \in Pos : At(G, r, p) \in N <=> 0 <= p /\ p <= n - 1
      <4>1. \A p \in Pos : At(G, r, p) = <<RowOf(tl), col_of(f, p)>>
        BY <1>2, <2>2, Zenon DEF At
      <4>2. \A p, s \in Pos : At(G, r, p) = At(G, r, s) => p = s
        <5> HIDE DEF N, G
        <5> QED BY <1>2, AtSlot
      <4>3. \A p \in Pos : p \in Nat
        BY <3>3 DEF Pos, Col
      <4>4. N = {At(G, r, p) : p \in 0..n-1}
        BY <3>4, <4>1, Zenon
      <4> HIDE DEF N, G
      <4> QED BY <3>3, <3>4, <4>2, <4>3, <4>4
    <3> HIDE DEF N, G
    <3>6. \A p \in Pos : At(G, r, p) \in V \cup N <=> 0 <= p /\ p <= n - 1
      BY <3>2, <3>5, Zenon
    <3> QED BY <3>1, <3>3, <3>4, <3>6 DEF IsRun
  <2> QED BY <2>1, <2>2, Zenon
<1> HIDE DEF N, G
<1>8. Win(V \cup N, h, RInc(tl), G)
  BY <1>4, <1>5, <1>6, <1>7, Zenon DEF Win
<1> QED BY <1>8, Zenon DEF N, G

\* Without the ops younger than b, the window ends at the row after b's
LEMMA ReleaseWin ==
  ASSUME NEW V, V \subseteq Slot, NEW h \in Ptr, NEW tl \in RRow, NEW F \in [Row -> Col],
         NEW b \in V, NEW K, \A x \in V : x \in K <=> Younger(h, F, x, b), Win(V, h, tl, F),
         NEW tn \in RRow, RSub(tn, h.r) = Dst(h, b[1]) + 1
  PROVE  Win(V \ K, h, tn, F) /\ RSub(tn, h.r) <= RSub(tl, h.r)
<1>1. RowOf(h.r) \in Row /\ h.r \in RRow /\ \A x \in V : x[1] \in Row
  BY RobAssumption DEF Ptr, RowOf, RRow, Row, Slot
<1>2. /\ \A r \in Row : Dst(h, r) \in Nat /\ (Dst(h, r) = Dst(h, b[1]) <=> r = b[1])
      /\ RSub(tl, h.r) \in Nat /\ CAP \in Nat
  BY <1>1, Rings, RowSubInjective DEF Dst
<1>3. Dst(h, b[1]) < RSub(tl, h.r) /\ RSub(tl, h.r) <= CAP
  BY Zenon DEF Win
<1>4. RSub(tn, h.r) <= RSub(tl, h.r) /\ RSub(tn, h.r) <= CAP /\ RSub(tn, h.r) # 0
  BY <1>1, <1>2, <1>3
<1>5. ASSUME NEW x \in V \ K PROVE Dst(h, x[1]) < RSub(tn, h.r)
  BY <1>1, <1>2, <1>5 DEF Younger
<1>6. ASSUME NEW r \in Row, Dst(h, r) < RSub(tn, h.r) PROVE IsRun(V \ K, F, r, From(h, r))
  <2>1. Dst(h, r) < RSub(tl, h.r)
    BY <1>1, <1>2, <1>4, <1>6
  <2>2. PICK m \in Pos : From(h, r) <= m /\ \A p \in Pos : At(F, r, p) \in V <=> From(h, r) <= p /\ p <= m
    BY <2>1, Zenon DEF Win, IsRun
  <2>3. CASE r # b[1]
    <3>1. Dst(h, r) < Dst(h, b[1])
      BY <1>1, <1>2, <1>6, <2>3
    <3>2. \A p \in Pos : At(F, r, p) \in V => At(F, r, p) \notin K
      <4>1. \A p \in Pos : At(F, r, p)[1] = r
        BY Zenon DEF At
      <4> QED BY <1>1, <1>2, <2>3, <3>1, <4>1 DEF Younger
    <3> QED BY <2>2, <3>2, Zenon DEF IsRun
  <2>4. CASE r = b[1]
    <3> DEFINE pb == PosIn(F, b)
    <3>1. pb \in Pos /\ b = At(F, r, pb)
      BY <2>4, SlotAt, Zenon
    <3> HIDE DEF pb
    <3>2. From(h, r) <= pb /\ pb <= m
      BY <2>2, <3>1, Zenon
    <3>3. ASSUME NEW p \in Pos, At(F, r, p) \in V PROVE At(F, r, p) \in K <=> p > pb
      <4>1. At(F, r, p)[1] = r /\ PosIn(F, At(F, r, p)) = p /\ PosIn(F, b) = pb
        BY AtSlot, Zenon DEF pb
      <4> QED BY <1>2, <2>4, <3>3, <4>1 DEF Younger
    <3>4. \A p \in Pos : At(F, r, p) \in V \ K <=> From(h, r) <= p /\ p <= pb
      <4>1. Pos \subseteq Nat
        BY WidthAssumption DEF Pos, Col
      <4> QED BY <2>2, <3>1, <3>2, <3>3, <4>1
    <3> QED BY <3>1, <3>2, <3>4, Zenon DEF IsRun
  <2> QED BY <2>3, <2>4, Zenon
<1> QED BY <1>4, <1>5, <1>6, Zenon DEF Win

-----------------------------------------------------------------------------
\* q lies in the window, and the live slots before it are in D
Precedes(h, F, x, q) ==
  \/ Dst(h, x[1]) < RSub(q.r, h.r)
  \/ Dst(h, x[1]) = RSub(q.r, h.r) /\ PosIn(F, x) < q.p
Within(h, tl, q) ==
  /\ RSub(q.r, h.r) <= RSub(tl, h.r)
  /\ RSub(q.r, h.r) = RSub(tl, h.r) => q.p = 0
  /\ RSub(q.r, h.r) = 0 => q.p >= h.p
Settled(V, D, h, F, q) == \A x \in V : Precedes(h, F, x, q) => x \in D

\* A pointer inside the window: its row, by its distance from the head
LEMMA PointerRow ==
  ASSUME NEW h \in Ptr, NEW tl \in RRow, NEW q \in Ptr, Within(h, tl, q),
         RSub(tl, h.r) <= CAP, q.r # tl
  PROVE  /\ RSub(q.r, h.r) \in Nat /\ RSub(q.r, h.r) < RSub(tl, h.r) /\ RSub(tl, h.r) <= ROWS
         /\ RowOf(q.r) \in Row /\ Dst(h, RowOf(q.r)) = RSub(q.r, h.r)
         /\ RSub(RInc(q.r), h.r) = RSub(q.r, h.r) + 1
         /\ \A r \in Row : Dst(h, r) \in Nat /\ (Dst(h, r) = RSub(q.r, h.r) <=> r = RowOf(q.r))
<1>1. RowOf(q.r) \in Row /\ RowOf(h.r) \in Row /\ h.r \in RRow /\ q.r \in RRow
  BY RobAssumption DEF Ptr, RowOf, RRow, Row
<1>2. RSub(q.r, h.r) \in Nat /\ RSub(tl, h.r) \in Nat /\ RSub(tl, h.r) <= ROWS /\ ROWS \in Nat /\ ROWS >= 2
  BY <1>1, Rings
<1>3. RSub(q.r, h.r) # RSub(tl, h.r)
  BY <1>1, RobAssumption DEF RRow, RSub
<1>4. RSub(q.r, h.r) < RSub(tl, h.r)
  BY <1>2, <1>3 DEF Within
<1>5. RSub(q.r, h.r) < ROWS /\ RSub(q.r, h.r) < 2 * ROWS - 1
  BY <1>2, <1>4
<1>6. Dst(h, RowOf(q.r)) = RSub(q.r, h.r) /\ RSub(RInc(q.r), h.r) = RSub(q.r, h.r) + 1
  BY <1>1, <1>5, RowOfRing, RIncSub, Zenon DEF Dst
<1>7. \A r \in Row : Dst(h, r) \in Nat /\ (Dst(h, r) = Dst(h, RowOf(q.r)) <=> r = RowOf(q.r))
  BY <1>1, Rings, RowSubInjective DEF Dst
<1> QED
  BY <1>1, <1>2, <1>4, <1>6, <1>7, Zenon

\* The pointer moves within its row to p0, past slots of E only
LEMMA SettleRow ==
  ASSUME NEW V, V \subseteq Slot, NEW D, NEW E, D \subseteq E, NEW h \in Ptr, NEW tl \in RRow, NEW F \in [Row -> Col],
         NEW q \in Ptr, Win(V, h, tl, F), Within(h, tl, q), Settled(V, D, h, F, q), q.r # tl,
         NEW p0 \in Pos, p0 >= q.p,
         \A p \in Pos : q.p <= p /\ p < p0 /\ At(F, RowOf(q.r), p) \in V => At(F, RowOf(q.r), p) \in E
  PROVE  LET st == [r |-> q.r, p |-> p0] IN Within(h, tl, st) /\ Settled(V, E, h, F, st)
<1> DEFINE st == [r |-> q.r, p |-> p0]
<1>1. st.r = q.r /\ st.p = p0 /\ q.p \in Nat /\ h.p \in Nat /\ p0 \in Nat
  BY WidthAssumption DEF Ptr, Pos, Col
<1>2. /\ RSub(q.r, h.r) \in Nat /\ RSub(q.r, h.r) < RSub(tl, h.r)
      /\ \A r \in Row : Dst(h, r) \in Nat /\ (Dst(h, r) = RSub(q.r, h.r) <=> r = RowOf(q.r))
  BY PointerRow, Zenon DEF Win
<1> HIDE DEF st
<1>3. RSub(tl, h.r) \in Nat
  BY Rings DEF Ptr
<1>4. Within(h, tl, st)
  BY <1>1, <1>2, <1>3 DEF Within
<1>5. ASSUME NEW x \in V, Precedes(h, F, x, st) PROVE x \in E
  <2>1. x[1] \in Row /\ PosIn(F, x) \in Pos /\ x = At(F, x[1], PosIn(F, x))
    BY SlotAt, Zenon
  <2>2. CASE Precedes(h, F, x, q)
    BY <2>2, Zenon DEF Settled
  <2>3. CASE ~Precedes(h, F, x, q)
    <3>1. Dst(h, x[1]) = RSub(q.r, h.r) /\ PosIn(F, x) < p0 /\ ~(PosIn(F, x) < q.p)
      BY <1>1, <1>5, <2>3, Zenon DEF Precedes
    <3>2. x[1] = RowOf(q.r)
      BY <1>2, <2>1, <3>1, Zenon
    <3>3. q.p <= PosIn(F, x)
      BY <1>1, <2>1, <3>1, WidthAssumption DEF Pos, Col
    <3> QED BY <2>1, <3>1, <3>2, <3>3, Zenon
  <2> QED BY <2>2, <2>3, Zenon
<1>6. Settled(V, E, h, F, st)
  BY <1>5, Zenon DEF Settled
<1> QED BY <1>4, <1>6, Zenon DEF st

\* The pointer moves to the next row: every slot of its row from it on is in E
LEMMA SettleNext ==
  ASSUME NEW V, V \subseteq Slot, NEW D, NEW E, D \subseteq E, NEW h \in Ptr, NEW tl \in RRow, NEW F \in [Row -> Col],
         NEW q \in Ptr, Win(V, h, tl, F), Within(h, tl, q), Settled(V, D, h, F, q), q.r # tl,
         \A p \in Pos : q.p <= p /\ At(F, RowOf(q.r), p) \in V => At(F, RowOf(q.r), p) \in E
  PROVE  LET st == [r |-> RInc(q.r), p |-> 0] IN Within(h, tl, st) /\ Settled(V, E, h, F, st)
<1> DEFINE st == [r |-> RInc(q.r), p |-> 0]
<1>1. st.r = RInc(q.r) /\ st.p = 0 /\ q.p \in Nat
  BY WidthAssumption DEF Ptr, Pos, Col
<1>2. /\ RSub(q.r, h.r) \in Nat /\ RSub(q.r, h.r) < RSub(tl, h.r)
      /\ RSub(RInc(q.r), h.r) = RSub(q.r, h.r) + 1
      /\ \A r \in Row : Dst(h, r) \in Nat /\ (Dst(h, r) = RSub(q.r, h.r) <=> r = RowOf(q.r))
  BY PointerRow, Zenon DEF Win
<1> HIDE DEF st
<1>3. RSub(tl, h.r) \in Nat
  BY Rings DEF Ptr
<1>4. Within(h, tl, st)
  BY <1>1, <1>2, <1>3, SMTT(40) DEF Within
<1>5. ASSUME NEW x \in V, Precedes(h, F, x, st) PROVE x \in E
  <2>1. x[1] \in Row /\ PosIn(F, x) \in Nat /\ PosIn(F, x) \in Pos /\ x = At(F, x[1], PosIn(F, x))
    BY SlotAt, WidthAssumption DEF Pos, Col
  <2>2. CASE Precedes(h, F, x, q)
    BY <2>2, Zenon DEF Settled
  <2>3. CASE ~Precedes(h, F, x, q)
    <3>1. Dst(h, x[1]) < RSub(q.r, h.r) + 1
      BY <1>1, <1>2, <1>5, <2>1, SMTT(40) DEF Precedes
    <3>2. Dst(h, x[1]) = RSub(q.r, h.r) /\ q.p <= PosIn(F, x)
      BY <1>1, <1>2, <2>1, <2>3, <3>1, SMTT(40) DEF Precedes
    <3>3. x[1] = RowOf(q.r)
      BY <1>2, <2>1, <3>2, Zenon
    <3> QED BY <2>1, <3>2, <3>3, Zenon
  <2> QED BY <2>2, <2>3, Zenon
<1>6. Settled(V, E, h, F, st)
  BY <1>5, Zenon DEF Settled
<1> QED BY <1>4, <1>6, Zenon DEF st

\* The pointer when the head moves: it goes along if the head has passed it
LEMMA SettleCommit ==
  ASSUME NEW V, V \subseteq Slot, NEW E, NEW h \in Ptr, NEW tl \in RRow, NEW F \in [Row -> Col], NEW C, NEW hn \in Ptr,
         NEW q \in Ptr, Win(V, h, tl, F), Commits(V, h, F, C, hn), Within(h, tl, q), Settled(V, E, h, F, q)
  PROVE  /\ Within(hn, tl, hn) /\ Settled(V \ C, E, hn, F, hn)
         /\ ~Behind(q, hn) => Within(hn, tl, q) /\ Settled(V \ C, E, hn, F, q)
<1>0. /\ h.r \in RRow /\ h.p \in Nat /\ hn.p \in Nat /\ hn.r \in RRow /\ q.r \in RRow /\ q.p \in Nat
      /\ RowOf(h.r) \in Row /\ RowOf(hn.r) \in Row /\ Pos \subseteq Nat
  BY Pointers, Zenon
<1>w. Win(V \ C, hn, tl, F)
  BY CommitWin, Zenon
<1>1. Within(hn, tl, hn)
  <2>1. RSub(hn.r, hn.r) = 0 /\ RSub(tl, hn.r) \in Nat
    BY <1>0, Rings
  <2> QED BY <1>0, <1>w, <2>1, SMTT(40) DEF Within, Win
<1>2. ASSUME NEW x \in V \ C, Precedes(hn, F, x, hn) PROVE x \in E
  <2>1. x[1] \in Row /\ PosIn(F, x) \in Pos /\ x = At(F, x[1], PosIn(F, x))
    BY SlotAt, Zenon
  <2>2. RSub(hn.r, hn.r) = 0 /\ Dst(hn, x[1]) \in Nat /\ (Dst(hn, x[1]) = 0 <=> x[1] = RowOf(hn.r))
    BY <1>0, <2>1, Rings DEF Dst
  <2>3. x[1] = RowOf(hn.r) /\ PosIn(F, x) < hn.p
    BY <1>2, <2>2 DEF Precedes
  <2>4. IsRun(V \ C, F, x[1], hn.p)
    BY <1>w, <2>1, <2>3, Zenon DEF Win, From
  <2>5. hn.p <= PosIn(F, x)
    BY <1>2, <2>1, <2>4, Zenon DEF IsRun
  <2>6. PosIn(F, x) \in Nat
    BY <1>0, <2>1, Zenon
  <2> QED BY <1>0, <2>3, <2>5, <2>6
<1>3. Settled(V \ C, E, hn, F, hn)
  BY <1>2, Zenon DEF Settled
<1>4. ASSUME ~Behind(q, hn) PROVE Within(hn, tl, q) /\ Settled(V \ C, E, hn, F, q)
  <2>1. CASE C = {} /\ hn = h
    BY <2>1, Zenon
  <2>2. CASE hn.r = h.r /\ hn.p > h.p
    <3>1. RSub(q.r, h.r) = 0 => q.p >= hn.p
      <4>1. SUFFICES ASSUME RSub(q.r, h.r) = 0 PROVE q.p >= hn.p
        BY Zenon
      <4>2. RSub(hn.r, q.r) = 0
        BY <1>0, <2>2, <4>1, Rings, Zenon
      <4> QED BY <1>0, <1>4, <4>2 DEF Behind
    <3>2. Within(hn, tl, q)
      BY <2>2, <3>1, Zenon DEF Within
    <3>3. \A x : Precedes(hn, F, x, q) <=> Precedes(h, F, x, q)
      BY <2>2, Zenon DEF Precedes, Dst
    <3> QED BY <3>2, <3>3, Zenon DEF Settled
  <2>3. CASE /\ hn = [r |-> RInc(h.r), p |-> 0] /\ C # {} /\ C \subseteq V
             /\ \A x \in V : x \in C <=> x[1] = RowOf(h.r)
    <3>1. hn.r = RInc(h.r) /\ hn.p = 0 /\ RSub(hn.r, h.r) = 1
      <4>1. RSub(h.r, h.r) = 0
        BY <1>0, Rings, Zenon
      <4> QED BY <1>0, <2>3, <4>1, RIncSub, Rings
    <3>2. q.r # h.r
      <4>1. SUFFICES ASSUME q.r = h.r PROVE FALSE
        BY Zenon
      <4> QED BY <1>4, <3>1, <4>1, Rings DEF Behind
    <3>3. RSub(q.r, hn.r) = RSub(q.r, h.r) - 1 /\ RSub(q.r, h.r) \in Nat
      BY <1>0, <3>1, <3>2, RIncSub, Rings
    <3>4. tl # h.r
      <4>1. PICK y \in V : y[1] = RowOf(h.r)
        BY <2>3, Zenon
      <4>2. Dst(h, y[1]) < RSub(tl, h.r) /\ Dst(h, y[1]) = 0
        BY <1>0, <4>1, Rings, Zenon DEF Win, Dst
      <4> QED BY <1>0, <4>2, Rings
    <3>5. RSub(tl, hn.r) = RSub(tl, h.r) - 1 /\ RSub(tl, h.r) \in Nat
      BY <1>0, <3>1, <3>4, RIncSub, Rings
    <3>6. Within(hn, tl, q)
      BY <1>0, <3>1, <3>3, <3>5 DEF Within
    <3>7. ASSUME NEW x \in V \ C, Precedes(hn, F, x, q) PROVE Precedes(h, F, x, q)
      <4>1. x[1] \in Row /\ x[1] # RowOf(h.r)
        BY <2>3, <3>7, Zenon DEF Slot
      <4>2. Dst(hn, x[1]) = Dst(h, x[1]) - 1 /\ Dst(h, x[1]) \in Nat
        BY <3>1, <4>1, HeadMoves, Rings
      <4> QED BY <3>3, <3>7, <4>2 DEF Precedes
    <3> QED BY <3>6, <3>7, Zenon DEF Settled
  <2> QED BY <2>1, <2>2, <2>3, Zenon DEF Commits
<1> QED BY <1>1, <1>3, <1>4, Zenon

\* A new group is behind no settled op: the pointer is at its row's start or before
LEMMA SettleAlloc ==
  ASSUME NEW V, V \subseteq Slot, NEW E, NEW h \in Ptr, NEW tl \in RRow, NEW F \in [Row -> Col],
         NEW f \in Col, NEW N, \A x \in N : x[1] = RowOf(tl), NEW q \in Ptr,
         Win(V, h, tl, F), RSub(tl, h.r) < CAP, Within(h, tl, q), Settled(V, E, h, F, q),
         \A x \in N : PosIn([F EXCEPT ![RowOf(tl)] = f], x) \in Nat
  PROVE  Within(h, RInc(tl), q) /\ Settled(V \cup N, E, h, [F EXCEPT ![RowOf(tl)] = f], q)
<1> DEFINE G == [F EXCEPT ![RowOf(tl)] = f]
<1>1. /\ RowOf(tl) \in Row /\ RSub(tl, h.r) \in Nat /\ RSub(tl, h.r) < ROWS
      /\ Dst(h, RowOf(tl)) = RSub(tl, h.r) /\ RSub(RInc(tl), h.r) = RSub(tl, h.r) + 1
  BY TailRow, Zenon
<1>2. RSub(q.r, h.r) \in Nat
  BY Rings DEF Ptr
<1>3. Within(h, RInc(tl), q)
  BY <1>1, <1>2, SMTT(40) DEF Within
<1>4. \A r \in Row : r # RowOf(tl) => G[r] = F[r]
  BY <1>1, Zenon
<1> HIDE DEF G
<1>5. ASSUME NEW x \in V, Precedes(h, G, x, q) PROVE x \in E
  <2>1. x[1] \in Row /\ Dst(h, x[1]) < RSub(tl, h.r)
    BY Zenon DEF Slot, Win
  <2>2. x[1] # RowOf(tl)
    BY <1>1, <2>1
  <2>3. PosIn(G, x) = PosIn(F, x)
    BY <1>4, <2>1, <2>2, Zenon DEF PosIn
  <2>4. Precedes(h, F, x, q)
    BY <1>5, <2>3, Zenon DEF Precedes
  <2> QED BY <2>4, Zenon DEF Settled
<1>6. ASSUME NEW x \in N PROVE ~Precedes(h, G, x, q)
  <2>1. Dst(h, x[1]) = RSub(tl, h.r) /\ PosIn(G, x) \in Nat
    BY <1>1, Zenon DEF G
  <2> QED BY <1>1, <1>2, <2>1, SMTT(40) DEF Precedes, Within
<1>7. Settled(V \cup N, E, h, G, q)
  BY <1>5, <1>6, Zenon DEF Settled
<1> QED BY <1>3, <1>7, Zenon DEF G

\* Freeing the ops younger than one that is not done leaves the pointer inside the window
LEMMA SettleRelease ==
  ASSUME NEW V, V \subseteq Slot, NEW E, NEW h \in Ptr, NEW tl \in RRow, NEW F \in [Row -> Col],
         NEW b \in V, b \notin E, NEW K, NEW q \in Ptr, Win(V, h, tl, F), Within(h, tl, q), Settled(V, E, h, F, q),
         NEW tn \in RRow, RSub(tn, h.r) = Dst(h, b[1]) + 1
  PROVE  Within(h, tn, q) /\ Settled(V \ K, E, h, F, q) /\ q.r # tl /\ q.r # tn
<1>1. ~Precedes(h, F, b, q)
  BY Zenon DEF Settled
<1>2. b[1] \in Row /\ RowOf(h.r) \in Row /\ h.r \in RRow /\ q.r \in RRow
  BY RobAssumption DEF Slot, Ptr, RowOf, RRow, Row
<1>3. Dst(h, b[1]) \in Nat /\ RSub(q.r, h.r) \in Nat /\ RSub(tl, h.r) \in Nat
  BY <1>2, Rings DEF Dst
<1>4. RSub(q.r, h.r) <= Dst(h, b[1])
  BY <1>1, <1>3 DEF Precedes
<1>5. Dst(h, b[1]) < RSub(tl, h.r)
  BY Zenon DEF Win
<1>6. Within(h, tn, q)
  BY <1>3, <1>4 DEF Within
<1>7. q.r # tl /\ q.r # tn
  BY <1>3, <1>4, <1>5
<1> QED BY <1>6, <1>7, Zenon DEF Settled

-----------------------------------------------------------------------------
\* However far the head moves, the rows it leaves keep their order: each comes
\* closer by the same number of rows
LEMMA RowsMove ==
  ASSUME NEW V, V \subseteq Slot, NEW h \in Ptr, NEW tl \in RRow, NEW F \in [Row -> Col], NEW C, NEW hn \in Ptr,
         Win(V, h, tl, F), Commits(V, h, F, C, hn), NEW b \in V \ C
  PROVE  \E e \in {0, 1} :
           /\ RSub(tl, hn.r) = RSub(tl, h.r) - e
           /\ \A r \in Row : Dst(h, r) >= Dst(h, b[1]) => Dst(hn, r) = Dst(h, r) - e
           /\ \A x \in V \ C : Dst(hn, x[1]) = Dst(h, x[1]) - e
           /\ \A R \in RRow : RSub(R, h.r) > Dst(h, b[1]) => RSub(R, hn.r) = RSub(R, h.r) - e
<1>0. h.r \in RRow /\ hn.r \in RRow /\ RowOf(h.r) \in Row /\ b[1] \in Row
  BY Pointers, Zenon DEF Slot
<1>1. /\ \A r \in Row : Dst(h, r) \in Nat /\ (Dst(h, r) = 0 <=> r = RowOf(h.r))
      /\ \A R \in RRow : RSub(R, h.r) \in Nat /\ (RSub(R, h.r) = 0 <=> R = h.r)
  BY <1>0, Rings DEF Dst
<1>2. CASE hn.r = h.r
  <2>1. \A r \in Row : Dst(hn, r) = Dst(h, r) - 0
    BY <1>1, <1>2 DEF Dst
  <2>2. \A R \in RRow : RSub(R, hn.r) = RSub(R, h.r) - 0
    BY <1>1, <1>2
  <2>3. \A x \in V \ C : x[1] \in Row
    BY Zenon DEF Slot
  <2> QED BY <2>1, <2>2, <2>3, Zenon
<1>3. CASE hn.r # h.r
  <2>1. hn.r = RInc(h.r) /\ \A x \in V : x \in C <=> x[1] = RowOf(h.r)
    BY <1>3 DEF Commits
  <2>2. \A r \in Row : r # RowOf(h.r) => Dst(hn, r) = Dst(h, r) - 1
    BY <2>1, HeadMoves, Zenon
  <2>3. \A x \in V \ C : x[1] \in Row /\ x[1] # RowOf(h.r)
    BY <2>1, Zenon DEF Slot
  <2>4. \A r \in Row : Dst(h, r) >= Dst(h, b[1]) => r # RowOf(h.r)
    BY <1>0, <1>1, <2>3
  <2>5. \A R \in RRow : R # h.r => RSub(R, hn.r) = RSub(R, h.r) - 1
    BY <1>0, <2>1, RIncSub, Zenon
  <2>6. Dst(h, b[1]) < RSub(tl, h.r)
    BY Zenon DEF Win
  <2>7. \A R \in RRow : RSub(R, h.r) > Dst(h, b[1]) => R # h.r
    BY <1>0, <1>1
  <2>8. RSub(tl, hn.r) = RSub(tl, h.r) - 1
    BY <1>0, <1>1, <2>5, <2>6
  <2> QED BY <2>2, <2>3, <2>4, <2>5, <2>7, <2>8, Zenon
<1> QED BY <1>2, <1>3, Zenon

\* So the row after the one a live op is in stays the row after it when ops commit
LEMMA RowAfterMove ==
  ASSUME NEW V, V \subseteq Slot, NEW h \in Ptr, NEW tl \in RRow, NEW F \in [Row -> Col], NEW C, NEW hn \in Ptr,
         Win(V, h, tl, F), Commits(V, h, F, C, hn), NEW b \in V \ C,
         NEW R \in RRow, RSub(R, h.r) = Dst(h, b[1]) + 1
  PROVE  RSub(R, hn.r) = Dst(hn, b[1]) + 1
<1>1. PICK e \in {0, 1} :
        /\ \A x \in V \ C : Dst(hn, x[1]) = Dst(h, x[1]) - e
        /\ \A S \in RRow : RSub(S, h.r) > Dst(h, b[1]) => RSub(S, hn.r) = RSub(S, h.r) - e
  BY RowsMove
<1>2. Dst(h, b[1]) \in Nat
  BY Pointers, Rings DEF Dst, Slot
<1> QED BY <1>1, <1>2

\* An op that stays is older than nothing that commits
LEMMA CommitOlder ==
  ASSUME NEW V, V \subseteq Slot, NEW h \in Ptr, NEW tl \in RRow, NEW F \in [Row -> Col], NEW C, NEW hn \in Ptr,
         Win(V, h, tl, F), Commits(V, h, F, C, hn), NEW b \in V \ C, NEW x \in C
  PROVE  ~Younger(h, F, x, b)
<1>0. h.r \in RRow /\ hn.r \in RRow /\ RowOf(h.r) \in Row /\ b[1] \in Row /\ h.p \in Nat /\ hn.p \in Pos /\ Pos \subseteq Nat
  BY Pointers, Zenon DEF Slot
<1>1. \A r \in Row : Dst(h, r) \in Nat /\ (Dst(h, r) = 0 <=> r = RowOf(h.r))
  BY <1>0, Rings DEF Dst
<1>2. CASE hn.r = h.r /\ hn.p > h.p /\ C = {At(F, RowOf(h.r), p) : p \in h.p..hn.p-1}
  <2>1. PICK p \in h.p..hn.p-1 : x = At(F, RowOf(h.r), p)
    BY <1>2, Zenon
  <2>2. p \in Pos /\ p < hn.p
    BY <1>0, <2>1, WidthAssumption DEF Pos, Col
  <2>3. x[1] = RowOf(h.r) /\ PosIn(F, x) = p
    BY <1>0, <2>1, <2>2, AtSlot, Zenon
  <2>4. Dst(h, x[1]) = 0 /\ ~(Dst(h, x[1]) > Dst(h, b[1]))
    BY <1>0, <1>1, <2>3
  <2>5. ASSUME b[1] = RowOf(h.r), p > PosIn(F, b) PROVE FALSE
    <3>1. PosIn(F, b) \in Pos /\ b = At(F, RowOf(h.r), PosIn(F, b))
      BY <2>5, SlotAt, Zenon
    <3>2. Dst(h, RowOf(h.r)) < RSub(tl, h.r)
      BY <2>5, Zenon DEF Win
    <3>3. IsRun(V, F, RowOf(h.r), h.p)
      BY <1>0, <3>2, Zenon DEF Win, From
    <3>4. h.p <= PosIn(F, b)
      BY <3>1, <3>3, Zenon DEF IsRun
    <3>5. PosIn(F, b) \in h.p..hn.p-1
      <4>1. PosIn(F, b) \in Nat /\ p \in Nat /\ hn.p \in Nat /\ h.p \in Nat
        BY <1>0, <2>2, <3>1, Zenon
      <4>2. PosIn(F, b) < p /\ p < hn.p
        BY <2>2, <2>5, <4>1, Zenon
      <4> QED BY <3>4, <4>1, <4>2
    <3> QED BY <1>2, <3>1, <3>5, Zenon
  <2> QED BY <2>3, <2>4, <2>5, Zenon DEF Younger
<1>3. CASE \A y \in V : y \in C <=> y[1] = RowOf(h.r)
  <2>1. C = {} \/ C \subseteq V \/ hn.r = h.r
    BY Zenon DEF Commits
  <2>2. b[1] # RowOf(h.r)
    BY <1>3, Zenon
  <2>3. CASE C \subseteq V
    BY <1>0, <1>1, <1>3, <2>2, <2>3, SMTT(40) DEF Younger
  <2>4. CASE ~(C \subseteq V)
    BY <1>2, <2>4, Zenon DEF Commits
  <2> QED BY <2>3, <2>4, Zenon
<1> QED BY <1>2, <1>3, Zenon DEF Commits

\* A head that moves changes no op's age relative to one that stays
LEMMA YoungerKeeps ==
  ASSUME NEW V, V \subseteq Slot, NEW h \in Ptr, NEW tl \in RRow, NEW F \in [Row -> Col], NEW C, NEW hn \in Ptr,
         Win(V, h, tl, F), Commits(V, h, F, C, hn), NEW b \in V \ C, NEW x \in V \ C
  PROVE  Younger(hn, F, x, b) <=> Younger(h, F, x, b)
<1>1. PICK e \in {0, 1} : \A y \in V \ C : Dst(hn, y[1]) = Dst(h, y[1]) - e
  BY RowsMove, SMTT(40)
<1>2. Dst(h, x[1]) \in Nat /\ Dst(h, b[1]) \in Nat
  BY Pointers, Rings DEF Slot, Dst
<1>3. Dst(hn, x[1]) = Dst(h, x[1]) - e /\ Dst(hn, b[1]) = Dst(h, b[1]) - e
  BY <1>1, Zenon
<1> QED BY <1>1, <1>2, <1>3 DEF Younger

-----------------------------------------------------------------------------
\* The largest and the smallest of some positions of a row: what the step lemmas
\* take from the order of the naturals, which RobProofs proves
Extremes ==
  \A c \in SUBSET Pos : c # {} =>
    /\ Max(c) \in c /\ \A p \in c : p <= Max(c)
    /\ Min(c) \in c /\ \A p \in c : Min(c) <= p

\* The ring's arithmetic stays on the ring
LEMMA Ring ==
  /\ \A R \in RRow : RowOf(R) \in Row /\ RInc(R) \in RRow
  /\ \A r, s \in Row : RowInc(r) \in Row /\ RowDec(r) \in Row /\ RowSub(r, s) \in Row
  /\ \A R \in RRow, r \in Row : RAdd(R, r) \in RRow
  /\ \A f \in Col, p \in Pos : col_of(f, p) \in Col
BY RobAssumption, WidthAssumption
   DEF RRow, Row, Col, Pos, RowOf, RInc, RowInc, RowDec, RowSub, RAdd, col_of

\* A live entry's tag is a tag, and its distance from its row's first column a position
LEMMA Tags ==
  ASSUME NEW f \in Col, NEW c \in Col
  PROVE  WrapCol(f, c) \in 0..2*IW-2 /\ pos_of(f, WrapCol(f, c)) \in Pos
BY WidthAssumption DEF Col, Pos, WrapCol, pos_of

\* The column a position is in leads back to the position
LEMMA Unrotate ==
  ASSUME NEW f \in Col, NEW p \in Pos
  PROVE  (IF col_of(f, p) >= f THEN col_of(f, p) - f ELSE col_of(f, p) + IW - f) = p
<1> f \in Nat /\ p \in Nat /\ f < IW /\ p < IW /\ IW \in Nat
  BY WidthAssumption DEF Col, Pos
<1> QED
  BY DEF col_of

Walks == [run : BOOLEAN, fin : BOOLEAN, row : Row, fc : Col, lim : 0..IW]
Branches == [row : Row, p : Pos, wc : 0..2*IW-2]

\* The walk's registers keep their types at a start, a step and an end.
LEMMA WalkTypes ==
  ASSUME wl \in Walks, k \in Branches, fc \in [Row -> Col], NEW r \in Row
  PROVE  /\ NoWalk \in Walks /\ NoBranch \in Branches /\ WalkStep \in Walks
         /\ [run |-> TRUE, fin |-> FALSE, row |-> RowDec(r), fc |-> fc[RowDec(r)], lim |-> IW] \in Walks
<1>1. 0 \in Row /\ 0 \in Col /\ 0 \in Pos /\ 0 \in 0..2*IW-2 /\ 0 \in 0..IW /\ IW \in 0..IW
  BY RobAssumption, WidthAssumption DEF Row, Col, Pos
<1>2. k.p + 1 \in 0..IW
  BY WidthAssumption DEF Branches, Pos, Col
<1>3. RowDec(r) \in Row /\ fc[RowDec(r)] \in Col /\ RowDec(wl.row) \in Row /\ fc[RowDec(wl.row)] \in Col
  BY Ring, Zenon DEF Walks
<1>4. [wl EXCEPT !.run = FALSE, !.fin = TRUE, !.lim = k.p + 1] \in Walks
  BY <1>2, Zenon DEF Walks
<1>5. [wl EXCEPT !.row = RowDec(wl.row), !.fc = fc[RowDec(wl.row)], !.lim = IW] \in Walks
  BY <1>1, <1>3, Zenon DEF Walks
<1>6. WalkStep \in Walks
  BY <1>4, <1>5, Zenon DEF WalkStep
<1> QED
  BY <1>1, <1>3, <1>6, Zenon DEF NoWalk, NoBranch, Walks, Branches

\* What a cycle's inputs are, as far as types go
TickInput(i) ==
  /\ i.d = NoGroup \/ i.d \in Groups
  /\ i.k = {} \/ \E x \in v : i.k = {TagOf(x)}

\* A clock edge keeps the registers' types, for any inputs that are well formed.
LEMMA TickType ==
  ASSUME Extremes, RobType, NEW i, TickInput(i), RobTick(i)
  PROVE  RobType'
<1> DEFINE c == cv(i)
           st == irr_step(i)
           new == Alloc(i.d)
           hn == head_n(c)
           to == IF i.flush THEN flush_pos(hn) ELSE hn
           takesHead == i.flush \/ Behind(st, hn)
           live == IF i.flush THEN {}
                   ELSE ((v \cup new) \ {hsx(p) : p \in c}) \ (IF i.rel THEN kill.kd ELSE {})
<1>1. /\ ent' = [x \in live |-> IF x \in new THEN DOp(i.d, x) ELSE ent[x]]
      /\ done' = ((done \ new) \cup {six(t) : t \in i.w}) \cap live
      /\ head' = to
      /\ irr' = IF takesHead THEN to ELSE st
      /\ tail' = IF i.flush THEN to.r ELSE tail_n(i)
      /\ fc' = IF DoAlloc(i.d) THEN [fc EXCEPT ![trow] = i.d.fc] ELSE fc
      /\ hfc' = hfc_n(i.d, to)
      /\ ifc' = IF takesHead THEN hfc_n(i.d, to) ELSE ifc_n(i.d, st)
      /\ wl' = wl_n(i)
      /\ k' = k_n(i)
      /\ kill' = kill_n(i)
      /\ walked' = IF Ends(i) THEN {} ELSE walked \cup WalkSlots
  BY Edge, Zenon
<1> USE DEF RobType
<1>2. hrow \in Row /\ trow \in Row /\ irow \in Row
  BY Ring, Zenon DEF hrow, trow, irow
<1>3. head' \in [r : RRow, p : Pos]
  <2>1. c \subseteq Pos
    BY Zenon DEF cv
  <2>2. \A p \in Pos : next_pos(p) \in [r : RRow, p : Pos]
    BY Ring, WidthAssumption, <1>2 DEF next_pos, Pos, Col, RRow
  <2>3. hn \in [r : RRow, p : Pos]
    BY <2>1, <2>2, Zenon DEF Extremes, head_n
  <2>4. 0 \in Pos
    BY WidthAssumption DEF Pos, Col
  <2>5. flush_pos(hn) \in [r : RRow, p : Pos]
    BY <2>3, <2>4, Ring, Zenon DEF flush_pos
  <2> HIDE DEF hn
  <2> QED
    BY <1>1, <2>3, <2>5, Zenon
<1>4. st \in [r : RRow, p : Pos]
  <2>1. ir_wait(i) \subseteq Pos
    BY Zenon DEF ir_wait
  <2>2. 0 \in Pos
    BY WidthAssumption DEF Pos, Col
  <2> QED
    BY <2>1, <2>2, Ring, Zenon DEF Extremes, irr_step
<1>5. irr' \in [r : RRow, p : Pos]
  <2> HIDE DEF to, st, takesHead
  <2> QED
    BY <1>1, <1>3, <1>4, Zenon
\* a group
<1>6. ASSUME DoAlloc(i.d)
      PROVE  i.d.fc \in Col /\ Len(i.d.ops) \in 1..IW /\ i.d.ops \in [1..Len(i.d.ops) -> Ops]
  <2>1. i.d # NoGroup
    BY <1>6 DEF DoAlloc, NoGroup
  <2>2. i.d.fc \in Col /\ \E n \in 1..IW : i.d.ops \in [1..n -> Ops]
    <3>1. i.d \in Groups
      BY <2>1, Zenon DEF TickInput
    <3>2. i.d.fc \in Col /\ i.d.ops \in UNION {[1..n -> Ops] : n \in 1..IW}
      BY <3>1, Zenon DEF Groups
    <3> QED
      BY <3>2, Zenon
  <2>3. PICK n \in 1..IW : i.d.ops \in [1..n -> Ops]
    BY <2>2, Zenon
  <2>4. n \in Nat
    BY WidthAssumption
  <2>5. i.d.ops \in Seq(Ops) /\ Len(i.d.ops) = n
    BY <2>3, <2>4
  <2> QED
    BY <2>2, <2>3, <2>5, Zenon
<1>7. new \subseteq Slot /\ \A x \in new : DOp(i.d, x) \in Ops
  <2>1. CASE ~DoAlloc(i.d)
    BY <2>1, Zenon DEF Alloc
  <2>2. CASE DoAlloc(i.d)
    <3> DEFINE n == Len(i.d.ops)
    <3>1. SUFFICES ASSUME NEW p \in 0..n-1
                   PROVE  /\ <<trow, col_of(i.d.fc, p)>> \in Slot
                          /\ DOp(i.d, <<trow, col_of(i.d.fc, p)>>) \in Ops
      BY <2>2 DEF Alloc
    <3>2. n \in 1..IW /\ i.d.fc \in Col /\ p \in Pos
      BY <1>6, <2>2, <3>1, WidthAssumption DEF Pos, Col
    <3>3. col_of(i.d.fc, p) \in Col
      BY <3>2, Ring, Zenon
    <3>4. (IF col_of(i.d.fc, p) >= i.d.fc THEN col_of(i.d.fc, p) - i.d.fc
           ELSE col_of(i.d.fc, p) + IW - i.d.fc) = p
      BY <3>2, Unrotate, Zenon
    <3>5. DOp(i.d, <<trow, col_of(i.d.fc, p)>>) = i.d.ops[p + 1]
      BY <3>4, Zenon DEF DOp
    <3>6. p + 1 \in 1..n
      BY <3>1, <3>2
    <3>7. <<trow, col_of(i.d.fc, p)>> \in Slot
      BY <1>2, <3>3, Zenon DEF Slot
    <3>8. i.d.ops[p + 1] \in Ops
      BY <1>6, <2>2, <3>6, Zenon
    <3> QED
      BY <3>5, <3>7, <3>8, Zenon
  <2> QED
    BY <2>1, <2>2, Zenon
<1>8. live \subseteq Slot /\ (v \subseteq Slot)' /\ (ent \in [v -> Ops])' /\ (done \subseteq v)'
  <2>1. live \subseteq v \cup new
    BY Zenon
  <2>2. \A x \in live : (IF x \in new THEN DOp(i.d, x) ELSE ent[x]) \in Ops
    BY <2>1, <1>7, Zenon DEF v
  <2>3. DOMAIN ent' = live
    BY <1>1, Zenon
  <2> HIDE DEF live, new
  <2> QED
    BY <1>1, <1>7, <2>1, <2>2, <2>3, Zenon DEF v
<1>9. tail' \in RRow
  <2>1. tail_n(i) \in RRow
    BY <1>2, Ring, Zenon DEF tail_n
  <2>2. to.r \in RRow
    BY <1>1, <1>3, Zenon
  <2> HIDE DEF to
  <2> QED
    BY <1>1, <2>1, <2>2, Zenon
<1>10. fc' \in [Row -> Col]
  BY <1>1, <1>2, <1>6, Zenon
<1>11. hfc' \in Col /\ ifc' \in Col
  <2>1. \A row \in Row, old \in Col : FcAfter(i.d, row) \in Col /\ KeepFc(i.d, row, old) \in Col
    BY <1>6, Zenon DEF FcAfter, KeepFc
  <2>2. hfc_n(i.d, to) \in Col /\ ifc_n(i.d, st) \in Col
    BY <2>1, <1>2, Ring, Zenon DEF hfc_n, ifc_n
  <2> HIDE DEF to, st, takesHead
  <2> QED
    BY <1>1, <2>2, Zenon
\* a branch
<1>12. ASSUME i.k # {}
       PROVE  /\ NewBranch(i).row \in Row /\ NewBranch(i).wc \in 0..2*IW-2
              /\ pos_of(fc[NewBranch(i).row], NewBranch(i).wc) \in Pos
  <2>1. PICK x \in v : i.k = {TagOf(x)}
    BY <1>12, Zenon DEF TickInput
  <2>2. NewBranch(i) = TagOf(x)
    BY <2>1, Zenon DEF NewBranch
  <2>3. x[1] \in Row /\ x[2] \in Col /\ fc[x[1]] \in Col
    BY <2>1, Zenon DEF Slot
  <2>4. TagOf(x).row = x[1] /\ TagOf(x).wc = WrapCol(fc[x[1]], x[2])
    BY Zenon DEF TagOf
  <2>5. WrapCol(fc[x[1]], x[2]) \in 0..2*IW-2 /\ pos_of(fc[x[1]], WrapCol(fc[x[1]], x[2])) \in Pos
    BY <2>3, Tags, Zenon
  <2> QED
    BY <2>2, <2>3, <2>4, <2>5, Zenon
<1>13. wl \in Walks /\ k \in Branches /\ fc \in [Row -> Col]
  BY Zenon DEF Walks, Branches
<1>14. wl' \in Walks /\ k' \in Branches
  <2>1. [WalkStep EXCEPT !.run = TRUE] \in Walks
    BY <1>2, <1>13, WalkTypes, Zenon DEF Walks
  <2>2. wl_n(i) \in Walks
    BY <1>2, <1>13, <2>1, WalkTypes, Zenon DEF wl_n
  <2>3. k_n(i) \in Branches
    BY <1>2, <1>12, <1>13, WalkTypes, Zenon DEF k_n, Branches
  <2> QED
    BY <1>1, <2>2, <2>3, Zenon
<1>15. (kill.v \in BOOLEAN /\ kill.kd \subseteq Slot /\ kill.kh \in Nat /\ kill.kb \in Nat)'
  <2>1. ASSUME i.k # {}
        PROVE  /\ kd_n(NewBranch(i)) \subseteq Slot /\ hrow * 2 * IW \in Nat
               /\ RowSub(NewBranch(i).row, hrow) * 2 * IW + NewBranch(i).wc \in Nat
    <3>1. hrow \in Row /\ RowSub(NewBranch(i).row, hrow) \in Row
      BY <1>2, <1>12, <2>1, Ring, Zenon
    <3>2. Row \subseteq Nat
      BY RobAssumption DEF Row
    <3>3. NewBranch(i).wc \in Nat /\ IW \in Nat
      BY <1>12, <2>1, WidthAssumption
    <3>4. \A m, n \in Nat : m * n \in Nat /\ m + n \in Nat
      OBVIOUS
    <3>5. hrow * 2 * IW \in Nat /\ RowSub(NewBranch(i).row, hrow) * 2 * IW \in Nat
      BY <3>1, <3>2, <3>3, <3>4, Zenon
    <3>6. kd_n(NewBranch(i)) \subseteq Slot
      BY Zenon DEF kd_n
    <3> QED
      BY <3>3, <3>4, <3>5, <3>6, Zenon
  <2> QED
    BY <1>1, <2>1, Zenon DEF kill_n, NoKill
<1>16. (walked \subseteq Slot)'
  BY <1>1, Zenon DEF WalkSlots
<1> QED
  BY <1>3, <1>5, <1>8, <1>9, <1>10, <1>11, <1>14, <1>15, <1>16, Zenon
     DEF Walks, Branches

-----------------------------------------------------------------------------
\* The registers have their types at the start.
LEMMA InitType == RobInit => RobType
<1>1. 0 \in Row /\ 0 \in RRow /\ 0 \in Col /\ 0 \in Pos /\ 0 \in 0..2*IW-2 /\ 0 \in 0..IW
  BY RobAssumption, WidthAssumption DEF Row, RRow, Col, Pos
<1> QED
  BY <1>1, SMTT(40) DEF RobInit, RobType, NoWalk, NoBranch, NoKill, Zero, v

\* A reset keeps the registers' types.
LEMMA ResetType == RobType /\ RobReset => RobType'
<1>1. 0 \in Row /\ 0 \in RRow /\ 0 \in Col /\ 0 \in Pos /\ 0 \in 0..2*IW-2 /\ 0 \in 0..IW
  BY RobAssumption, WidthAssumption DEF Row, RRow, Col, Pos
<1> QED
  BY <1>1, SMTT(40) DEF RobReset, RobType, NoWalk, NoBranch, NoKill, Zero, v

-----------------------------------------------------------------------------
(* The kill.  Its registers are written once, from the head row hr and the   *)
(* branch b of that cycle, and no row's first column changes before the     *)
(* release: so the vector and the distance can be compared as they stood.   *)
KillFrom(hr, b) ==
  /\ kill.kh = hr * 2 * IW
  /\ kill.kb = RowSub(b.row, hr) * 2 * IW + b.wc
  /\ kill.kd = {x \in Slot : \/ RowSub(x[1], hr) > RowSub(b.row, hr)
                             \/ x[1] = b.row /\ WrapCol(fc[b.row], x[2]) > b.wc}
KillFormed == kill.v => \E hr \in Row, b \in Tag : KillFrom(hr, b)

\* Row numbers times the tags of a row grow with the row
LEMMA Scale ==
  ASSUME NEW a \in Nat, NEW b \in Nat, a < b
  PROVE  a * 2 * IW + 2 * IW <= b * 2 * IW
<1> DEFINE e == b - a - 1
<1>1. e \in Nat /\ b = a + e + 1 /\ IW \in Nat
  BY WidthAssumption
<1> HIDE DEF e
<1>2. e * 2 * IW >= 0
  BY <1>1
<1> QED
  BY <1>1, <1>2

\* A tag's distance from the start of row hr, on the ring of all tags
LEMMA Distance ==
  ASSUME NEW hr \in Row, NEW t \in Tag
  PROVE  (IF TagNum(t) >= hr * 2 * IW THEN TagNum(t) - hr * 2 * IW
                                      ELSE TagNum(t) + TagSpace - hr * 2 * IW)
         = RowSub(t.row, hr) * 2 * IW + t.wc
<1>1. hr \in Nat /\ t.row \in Nat /\ t.wc \in Nat /\ t.wc < 2 * IW /\ IW \in Nat /\ ROWS \in Nat
  BY RobAssumption, WidthAssumption DEF Row, Tag
<1>2. CASE t.row >= hr
  <2> DEFINE e == t.row - hr
  <2>1. e \in Nat /\ t.row = hr + e
    BY <1>1, <1>2
  <2>2. RowSub(t.row, hr) = e
    BY <1>1, <1>2, Zenon DEF RowSub
  <2> HIDE DEF e
  <2>3. t.row * 2 * IW = hr * 2 * IW + e * 2 * IW /\ e * 2 * IW \in Nat /\ hr * 2 * IW \in Nat
    BY <1>1, <2>1
  <2> QED
    BY <1>1, <2>2, <2>3 DEF TagNum
<1>3. CASE t.row < hr
  <2>1. t.row * 2 * IW + 2 * IW <= hr * 2 * IW
    BY <1>1, <1>3, Scale, Zenon
  <2>2. RowSub(t.row, hr) = t.row + ROWS - hr
    BY <1>1, <1>3 DEF RowSub
  <2>3. (t.row + ROWS - hr) * 2 * IW = t.row * 2 * IW + ROWS * 2 * IW - hr * 2 * IW
    BY <1>1
  <2>4. t.row * 2 * IW \in Nat /\ hr * 2 * IW \in Nat /\ ROWS * 2 * IW \in Nat
    BY <1>1
  <2> QED
    BY <1>1, <2>1, <2>2, <2>3, <2>4 DEF TagNum, TagSpace
<1> QED
  BY <1>1, <1>2, <1>3

\* Comparing distances compares the rows first, then the place in the row
LEMMA Lexicographic ==
  ASSUME NEW a \in Nat, NEW b \in Nat, NEW x \in 0..2*IW-2, NEW y \in 0..2*IW-2
  PROVE  a * 2 * IW + x > b * 2 * IW + y <=> (a > b \/ (a = b /\ x > y))
<1>1. IW \in Nat /\ x \in Nat /\ y \in Nat /\ x < 2 * IW /\ y < 2 * IW
  BY WidthAssumption
<1>2. a * 2 * IW \in Nat /\ b * 2 * IW \in Nat
  BY <1>1
<1>3. CASE a < b
  <2>1. a * 2 * IW + 2 * IW <= b * 2 * IW
    BY <1>3, Scale, Zenon
  <2> QED
    BY <1>1, <1>2, <1>3, <2>1
<1>4. CASE b < a
  <2>1. b * 2 * IW + 2 * IW <= a * 2 * IW
    BY <1>4, Scale, Zenon
  <2> QED
    BY <1>1, <1>2, <1>4, <2>1
<1>5. CASE a = b
  BY <1>1, <1>2, <1>5
<1> QED
  BY <1>3, <1>4, <1>5

\* A kill that was formed as the code forms it condemns the same entries in both its forms.
LEMMA FormedAgrees == RobType /\ KillFormed => KillAgrees
<1> SUFFICES ASSUME RobType, KillFormed, kill.v, NEW x \in Slot
             PROVE  x \in kill.kd <=> kdead(TagOf(x))
  BY Zenon DEF KillAgrees
<1>1. PICK hr \in Row, b \in Tag : KillFrom(hr, b)
  BY Zenon DEF KillFormed
<1>2. x[1] \in Row /\ x[2] \in Col /\ fc[x[1]] \in Col
  BY Zenon DEF Slot, RobType
<1>3. TagOf(x) \in Tag /\ TagOf(x).row = x[1] /\ TagOf(x).wc = WrapCol(fc[x[1]], x[2])
  BY <1>2, Tags, Zenon DEF TagOf, Tag
<1>4. b.row \in Row /\ b.wc \in 0..2*IW-2 /\ TagOf(x).wc \in 0..2*IW-2
  BY <1>3, Zenon DEF Tag
<1>5. RowSub(x[1], hr) \in Row /\ RowSub(b.row, hr) \in Row
  BY <1>2, <1>4, Ring, Zenon
<1>6. RowSub(x[1], hr) \in Nat /\ RowSub(b.row, hr) \in Nat
  BY <1>5, RobAssumption DEF Row
<1>7. kdead(TagOf(x)) <=> RowSub(x[1], hr) * 2 * IW + TagOf(x).wc > RowSub(b.row, hr) * 2 * IW + b.wc
  <2>1. (IF TagNum(TagOf(x)) >= kill.kh THEN TagNum(TagOf(x)) - kill.kh
         ELSE TagNum(TagOf(x)) + TagSpace - kill.kh) = RowSub(x[1], hr) * 2 * IW + TagOf(x).wc
    BY <1>1, <1>3, Distance, ZenonT(60) DEF KillFrom
  <2>2. kill.kb = RowSub(b.row, hr) * 2 * IW + b.wc
    BY <1>1, Zenon DEF KillFrom
  <2> QED
    BY <2>1, <2>2, Zenon DEF kdead
<1>8. kdead(TagOf(x)) <=> \/ RowSub(x[1], hr) > RowSub(b.row, hr)
                          \/ RowSub(x[1], hr) = RowSub(b.row, hr) /\ TagOf(x).wc > b.wc
  BY <1>4, <1>6, <1>7, Lexicographic, SMTT(40)
<1>9. RowSub(x[1], hr) = RowSub(b.row, hr) <=> x[1] = b.row
  BY <1>2, <1>4, RowSubInjective, Zenon
<1>10. x \in kill.kd <=> \/ RowSub(x[1], hr) > RowSub(b.row, hr)
                         \/ x[1] = b.row /\ WrapCol(fc[b.row], x[2]) > b.wc
  BY <1>1, Zenon DEF KillFrom
<1> QED
  BY <1>3, <1>8, <1>9, <1>10, Zenon


-----------------------------------------------------------------------------
(* The invariant.                                                           *)
BranchSlot == six(BranchTag)
FirstColumns ==
  /\ ~empty => hfc = fc[hrow]
  /\ irr_v => ifc = fc[irow]
\* The kill's branch is in flight, and the kill vector has the ops younger than it
KillInv ==
  kill.v => /\ BranchSlot \in v \ done
            /\ BranchTag = TagOf(BranchSlot) /\ k.p = PosIn(fc, BranchSlot)
            /\ \A x \in v : x \in kill.kd <=> Younger(head, fc, x, BranchSlot)
\* The walk w towards the branch b is in the window, not before b, and has passed the
\* slots W: those of the rows behind its own and of its own from lim on
WalkAt(V, h, tl, F, b, w, W) ==
  /\ w.fc = F[w.row]
  /\ Dst(h, w.row) < RSub(tl, h.r) /\ Dst(h, w.row) >= Dst(h, b[1])
  /\ w.row = b[1] => w.lim > PosIn(F, b)
  /\ W = {x \in V : Dst(h, x[1]) > Dst(h, w.row) \/ (x[1] = w.row /\ PosIn(F, x) >= w.lim)}
\* While a kill is in force the walk runs, or has stopped at the branch
WalkInv ==
  /\ wl.run \/ wl.fin <=> kill.v
  /\ ~kill.v => walked = {}
  /\ kill.v => /\ WalkAt(v, head, tail, fc, BranchSlot, wl, walked)
               /\ ~wl.run => wl.row = k.row /\ wl.lim = k.p + 1
RobInv ==
  /\ RobType /\ Win(v, head, tail, fc)
  /\ Within(head, tail, irr) /\ Settled(v, done, head, fc, irr)
  /\ FirstColumns /\ KillInv /\ WalkInv

\* The inputs every action chooses.  A group comes with no kill in force, no naming and no
\* release; a branch named, except in a flush, is in flight, older than the one pending and
\* does not complete; the pending branch completes only at its release.
Input(i) ==
  /\ \/ i.d = NoGroup
     \/ i.d \in Groups /\ ~kill.v /\ i.k = {} /\ ~i.rel
  /\ \/ i.k = {}
     \/ i.flush /\ \E x \in v : i.k = {TagOf(x)}
     \/ /\ ~Ends(i)
        /\ \E x \in v \ done : /\ i.k = {TagOf(x)} /\ TagOf(x) \notin i.w
                               /\ kill.v => Older(TagOf(x), BranchTag)
  /\ i.w \subseteq OpenTags \cup Held /\ i.fwd \subseteq i.w
  /\ kill.v /\ ~Ends(i) => BranchTag \notin i.w
  /\ i.rel => kill.v /\ i.fwd = {}
  /\ i.h_fin => i.flush

\* A tag leads back to its slot
LEMMA TagSlot ==
  ASSUME RobType, NEW x \in Slot
  PROVE  six(TagOf(x)) = x /\ TagOf(x).row = x[1]
<1>1. x[1] \in Row /\ x[2] \in Col /\ x = <<x[1], x[2]>> /\ fc[x[1]] \in Col
  BY DEF Slot, RobType
<1>2. WrapCol(fc[x[1]], x[2]) = IF x[2] < fc[x[1]] THEN IW + x[2] ELSE x[2]
  BY Zenon DEF WrapCol
<1>3. (IF WrapCol(fc[x[1]], x[2]) >= IW THEN WrapCol(fc[x[1]], x[2]) - IW ELSE WrapCol(fc[x[1]], x[2])) = x[2]
  BY <1>1, <1>2, WidthAssumption DEF Col
<1> QED BY <1>1, <1>3, Zenon DEF six, TagOf

\* The order of tags is the order of positions
LEMMA OlderYounger ==
  ASSUME RobType, NEW x \in Slot, NEW y \in Slot
  PROVE  Older(TagOf(x), TagOf(y)) <=> Younger(head, fc, y, x)
<1>1. x[1] \in Row /\ x[2] \in Col /\ y[1] \in Row /\ y[2] \in Col /\ fc[x[1]] \in Col /\ fc[y[1]] \in Col
  BY Zenon DEF Slot, RobType
<1>2. hrow \in Row
  BY Ring, Zenon DEF RobType, hrow
<1>3. TagOf(x).row = x[1] /\ TagOf(x).wc = WrapCol(fc[x[1]], x[2]) /\ TagOf(y).row = y[1] /\ TagOf(y).wc = WrapCol(fc[y[1]], y[2])
  BY Zenon DEF TagOf
<1>4. Dst(head, x[1]) = RowSub(x[1], hrow) /\ Dst(head, y[1]) = RowSub(y[1], hrow)
  BY Zenon DEF Dst, hrow
<1>5. RowSub(x[1], hrow) = RowSub(y[1], hrow) <=> x[1] = y[1]
  BY <1>1, <1>2, RowSubInjective, ZenonT(60)
<1>6. RowSub(x[1], hrow) \in Nat /\ RowSub(y[1], hrow) \in Nat
  BY <1>1, <1>2, Rings
<1>7. WrapCol(fc[x[1]], x[2]) \in Nat /\ WrapCol(fc[y[1]], y[2]) \in Nat /\ fc[x[1]] \in Nat
  BY <1>1, Tags, WidthAssumption DEF Col
<1>8. x[1] = y[1] => (PosIn(fc, y) > PosIn(fc, x) <=> WrapCol(fc[x[1]], x[2]) < WrapCol(fc[y[1]], y[2]))
  BY <1>7 DEF PosIn, pos_of
<1> QED BY <1>3, <1>4, <1>5, <1>6, <1>8, Zenon DEF Older, Younger

\* The slots that commit, and the head after them
Committing(i) == {hsx(p) : p \in cv(i)}
HeadAfter(i) == head_n(cv(i))

\* What commits is a run of done ops from the head on, and the head moves to the next one
LEMMA CommitShape ==
  ASSUME Extremes, RobInv, NEW i, Input(i), ~i.flush
  PROVE  /\ HeadAfter(i) \in Ptr /\ Commits(v, head, fc, Committing(i), HeadAfter(i))
         /\ Committing(i) \subseteq done /\ (cv(i) = {} => HeadAfter(i) = head)
         /\ (HeadAfter(i).r = head.r \/ HeadAfter(i).r = RInc(head.r))
<1> DEFINE c == cv(i)
<1>0. /\ head \in Ptr /\ head.r \in RRow /\ head.p \in Pos /\ head.p \in Nat /\ hrow \in Row /\ v \subseteq Slot
      /\ done \subseteq v /\ Pos \subseteq Nat /\ tail \in RRow /\ fc \in [Row -> Col] /\ hfc \in Col /\ ~i.h_fin
  BY Pointers, Zenon DEF RobInv, RobType, Ptr, hrow, Input
<1>1. CASE c = {}
  <2>1. HeadAfter(i) = head /\ Committing(i) = {}
    BY <1>1, Zenon DEF HeadAfter, Committing, head_n
  <2> QED BY <1>0, <1>1, <2>1, Zenon DEF Commits
<1>2. CASE c # {}
  <2>1. c \subseteq Pos /\ \A p \in c : p >= head.p /\ \A s \in head.p..p : Retires(i, s)
    BY Zenon DEF cv
  <2>2. head.p \in c
    <3>1. PICK p \in c : TRUE
      BY <1>2, Zenon
    <3>2. p \in Nat /\ p >= head.p
      BY <1>0, <2>1, Zenon
    <3>3. head.p \in head.p..p /\ \A s \in head.p..head.p : s = head.p
      BY <1>0, <3>2
    <3>4. Retires(i, head.p)
      BY <2>1, <3>3, Zenon
    <3>5. \A s \in head.p..head.p : Retires(i, s)
      BY <3>3, <3>4, Zenon
    <3> QED BY <1>0, <3>5 DEF cv
  <2>3. \A p \in c : hsx(p) \in v /\ hsx(p) \in done
    <3>1. ASSUME NEW p \in c PROVE hsx(p) \in v /\ hsx(p) \in done
      <4>0. p \in Nat /\ p >= head.p /\ head.p \in Nat
        BY <1>0, <2>1, Zenon
      <4>1. p \in head.p..p
        BY <4>0
      <4>2. Retires(i, p)
        BY <2>1, <4>1, Zenon
      <4> QED BY <1>0, <4>2, Zenon DEF Retires, head_done
    <3> QED BY <3>1, Zenon
  <2>4. hfc = fc[hrow]
    <3>1. hsx(head.p) \in v /\ hsx(head.p)[1] = hrow
      BY <2>2, <2>3, Zenon DEF hsx
    <3>2. Dst(head, hrow) < RSub(tail, head.r) /\ Dst(head, hrow) = 0
      BY <1>0, <3>1, Rings, Zenon DEF RobInv, Win, Dst, hrow
    <3>3. head.r # tail
      BY <1>0, <3>2, Rings
    <3>4. ~empty
      BY <3>3 DEF empty, tailPos
    <3> QED BY <3>4, Zenon DEF RobInv, FirstColumns
  <2>5. \A p \in Pos : hsx(p) = At(fc, hrow, p)
    BY <2>4, Zenon DEF hsx, At
  <2>6. Dst(head, hrow) < RSub(tail, head.r)
    BY <2>2, <2>3, Zenon DEF RobInv, Win, hsx
  <2>7. PICK m \in Pos : head.p <= m /\ \A p \in Pos : At(fc, hrow, p) \in v <=> head.p <= p /\ p <= m
    BY <1>0, <2>6, Zenon DEF RobInv, Win, From, IsRun, hrow
  <2> DEFINE M == Max(c)
  <2>8. M \in c /\ \A p \in c : p <= M
    BY <1>2, <2>1, Zenon DEF Extremes
  <2> HIDE DEF M, c
  <2>9. M \in Pos /\ M \in Nat /\ head.p <= M /\ m \in Nat
    BY <1>0, <2>1, <2>8, <2>7, Zenon
  <2>10. \A p \in Pos : p \in c <=> head.p <= p /\ p <= M
    <3>1. ASSUME NEW p \in Pos, head.p <= p, p <= M PROVE p \in c
      <4>1. p \in Nat
        BY <1>0, Zenon
      <4>2. \A s \in head.p..p : s \in head.p..M
        BY <1>0, <2>9, <3>1, <4>1
      <4>3. \A s \in head.p..p : Retires(i, s)
        BY <2>1, <2>8, <4>2, Zenon
      <4> QED BY <1>0, <3>1, <4>1, <4>3, Zenon DEF c, cv
    <3>2. ASSUME NEW p \in Pos, p \in c PROVE head.p <= p /\ p <= M
      BY <1>0, <2>1, <2>8, <3>2, Zenon
    <3> QED BY <3>1, <3>2, Zenon
  <2>11. Committing(i) = {At(fc, hrow, p) : p \in c}
    BY <2>1, <2>5, Zenon DEF Committing, c
  <2>12. HeadAfter(i) = next_pos(M)
    BY <1>2, Zenon DEF HeadAfter, head_n, M, c
  <2>13. M <= m
    BY <1>0, <2>3, <2>5, <2>7, <2>8, <2>9, Zenon
  <2>14. Committing(i) \subseteq done /\ Committing(i) # {}
    BY <2>2, <2>3, Zenon DEF Committing, c
  <2>15. CASE M # IW - 1 /\ hsx(M + 1) \in v
    <3>1. HeadAfter(i) = [r |-> head.r, p |-> M + 1]
      BY <2>12, <2>15, Zenon DEF next_pos
    <3>2. M + 1 \in Pos
      BY <2>9, <2>15, WidthAssumption DEF Pos, Col
    <3>3. HeadAfter(i) \in Ptr /\ HeadAfter(i).r = head.r /\ HeadAfter(i).p = M + 1
      BY <1>0, <3>1, <3>2 DEF Ptr
    <3>4. HeadAfter(i).p > head.p /\ At(fc, hrow, HeadAfter(i).p) \in v
      BY <1>0, <2>5, <2>9, <2>15, <3>2, <3>3
    <3>5. c = head.p..(M + 1)-1
      <4>1. \A p \in head.p..(M + 1)-1 : p \in Pos
        BY <1>0, <2>9, WidthAssumption DEF Pos, Col
      <4>2. \A p \in c : p \in head.p..(M + 1)-1
        <5>1. ASSUME NEW p \in c PROVE p \in Nat /\ head.p <= p /\ p <= M
          BY <1>0, <2>1, <2>10, Zenon
        <5> QED BY <1>0, <2>9, <5>1
      <4>3. \A p \in head.p..(M + 1)-1 : p \in c
        <5>1. ASSUME NEW p \in head.p..(M + 1)-1 PROVE head.p <= p /\ p <= M
          BY <1>0, <2>9
        <5> QED BY <2>10, <4>1, <5>1, Zenon
      <4> QED BY <4>2, <4>3, Zenon
    <3> QED BY <2>11, <2>14, <3>3, <3>4, <3>5, <1>2, Zenon DEF Commits, hrow, c
  <2>16. CASE ~(M # IW - 1 /\ hsx(M + 1) \in v)
    <3>1. HeadAfter(i) = [r |-> RInc(head.r), p |-> 0]
      BY <2>12, <2>16, Zenon DEF next_pos
    <3>2. HeadAfter(i) \in Ptr
      <4>1. RInc(head.r) \in RRow /\ 0 \in Pos
        <5>1. 0 \in Pos
          BY WidthAssumption DEF Pos, Col
        <5> QED BY <1>0, <5>1, Ring, Zenon
      <4> QED BY <3>1, <4>1 DEF Ptr
    <3>3. M = m
      <4>1. CASE M = IW - 1
        BY <2>7, <2>9, <2>13, <4>1, WidthAssumption DEF Pos, Col
      <4>2. CASE M # IW - 1 /\ hsx(M + 1) \notin v
        <5>1. M + 1 \in Pos
          BY <2>9, <4>2, WidthAssumption DEF Pos, Col
        <5>2. ~(M + 1 <= m)
          BY <1>0, <2>5, <2>7, <2>9, <4>2, <5>1
        <5> QED BY <2>9, <2>13, <5>2
      <4> QED BY <2>16, <4>1, <4>2, Zenon
    <3>4. ASSUME NEW x \in v PROVE x \in Committing(i) <=> x[1] = hrow
      <4>1. ASSUME x[1] = hrow PROVE x \in Committing(i)
        <5>1. PosIn(fc, x) \in Pos /\ x = At(fc, hrow, PosIn(fc, x))
          BY <1>0, <4>1, SlotAt, Zenon
        <5>2. PosIn(fc, x) \in c
          BY <2>7, <2>10, <3>3, <5>1, Zenon
        <5> QED BY <2>11, <5>1, <5>2, Zenon
      <4>2. ASSUME x \in Committing(i) PROVE x[1] = hrow
        BY <2>11, <4>2 DEF At
      <4> QED BY <4>1, <4>2, Zenon
    <3>5. Committing(i) \subseteq v
      BY <1>0, <2>14, Zenon
    <3> QED BY <1>2, <2>14, <3>1, <3>2, <3>4, <3>5 DEF Commits, hrow, c
  <2> QED BY <2>15, <2>16, Zenon
<1> QED BY <1>1, <1>2, Zenon

\* What counts as settled in a cycle: done, or completing on the forwarding port
Settling(i) == done \cup {six(t) : t \in i.fwd}

\* The pointer's own step stays in the window and passes settled ops only
LEMMA IrrStep ==
  ASSUME Extremes, RobInv, NEW i
  PROVE  /\ irr_step(i) \in Ptr /\ Within(head, tail, irr_step(i))
         /\ Settled(v, Settling(i), head, fc, irr_step(i))
         /\ irr_step(i).r = irr.r \/ irr_step(i) = [r |-> RInc(irr.r), p |-> 0]
         /\ (~irr_v => irr_step(i) = irr) /\ (irr_v => irr.r # tail)
<1> DEFINE st == irr_step(i)
<1>0. /\ head \in Ptr /\ irr \in Ptr /\ tail \in RRow /\ v \subseteq Slot /\ fc \in [Row -> Col] /\ ifc \in Col
      /\ Within(head, tail, irr) /\ Settled(v, done, head, fc, irr) /\ Win(v, head, tail, fc)
  BY Zenon DEF RobInv, RobType, Ptr
<1>1. irr.r \in RRow /\ irr.p \in Pos /\ irr.p \in Nat /\ Pos \subseteq Nat /\ irow \in Row
  BY <1>0, Pointers, Zenon DEF irow
<1>2. irr_v => irr.r # tail
  <2>1. SUFFICES ASSUME irr.r = tail PROVE irr = tailPos
    BY Zenon DEF irr_v
  <2>2. irr.p = 0
    BY <1>0, <2>1, Zenon DEF Within
  <2> QED BY <1>0, <2>1, <2>2, Zenon DEF tailPos, Ptr
<1>3. done \subseteq Settling(i)
  BY Zenon DEF Settling
<1>4. CASE st = irr
  <2>1. Settled(v, Settling(i), head, fc, irr)
    BY <1>0, <1>3, Zenon DEF Settled
  <2> QED BY <1>0, <1>2, <1>4, <2>1, Zenon
<1>5. CASE st # irr
  <2>1. irr_v /\ irr.r # tail
    BY <1>2, <1>5, Zenon DEF irr_step
  <2>2. ifc = fc[irow]
    BY <2>1, Zenon DEF RobInv, FirstColumns
  <2> DEFINE W == ir_wait(i)
  <2>3. W \subseteq Pos /\ \A p \in W : p >= irr.p
    BY Zenon DEF ir_wait
  <2>4. ASSUME NEW p \in Pos, irr.p <= p, p \notin W, At(fc, RowOf(irr.r), p) \in v
        PROVE  At(fc, RowOf(irr.r), p) \in Settling(i)
    <3>1. At(fc, RowOf(irr.r), p) = <<irow, col_of(ifc, p)>>
      BY <2>2, Zenon DEF At, irow
    <3>2. p >= irr.p
      BY <1>1, <2>4, Zenon
    <3> QED BY <2>4, <3>1, <3>2, Zenon DEF ir_wait, Settling
  <2> HIDE DEF W
  <2>5. CASE W # {}
    <3>1. Min(W) \in W /\ \A p \in W : Min(W) <= p
      BY <2>3, <2>5, Zenon DEF Extremes
    <3>2. st = [r |-> irr.r, p |-> Min(W)]
      BY <1>5, <2>5, Zenon DEF irr_step, W
    <3>3. Min(W) \in Pos /\ Min(W) >= irr.p
      BY <2>3, <3>1, Zenon
    <3>4. ASSUME NEW p \in Pos, irr.p <= p, p < Min(W), At(fc, RowOf(irr.r), p) \in v
          PROVE  At(fc, RowOf(irr.r), p) \in Settling(i)
      <4>1. p \notin W
        <5>1. p \in Nat /\ Min(W) \in Nat
          BY <1>1, <3>3, Zenon
        <5> QED BY <3>1, <3>4, <5>1
      <4> QED BY <2>4, <3>4, <4>1, Zenon
    <3>5. Within(head, tail, [r |-> irr.r, p |-> Min(W)]) /\ Settled(v, Settling(i), head, fc, [r |-> irr.r, p |-> Min(W)])
      BY <1>0, <1>3, <2>1, <3>3, <3>4, SettleRow, Zenon
    <3>6. [r |-> irr.r, p |-> Min(W)] \in Ptr
      BY <1>1, <3>3, Zenon DEF Ptr
    <3> QED BY <2>1, <3>2, <3>5, <3>6
  <2>6. CASE W = {}
    <3>1. st = [r |-> RInc(irr.r), p |-> 0]
      BY <1>5, <2>6, Zenon DEF irr_step, W
    <3>2. \A p \in Pos : irr.p <= p /\ At(fc, RowOf(irr.r), p) \in v => At(fc, RowOf(irr.r), p) \in Settling(i)
      BY <2>4, <2>6, Zenon
    <3>3. Within(head, tail, [r |-> RInc(irr.r), p |-> 0]) /\ Settled(v, Settling(i), head, fc, [r |-> RInc(irr.r), p |-> 0])
      BY <1>0, <1>3, <2>1, <3>2, SettleNext, Zenon
    <3>4. 0 \in Pos
      BY WidthAssumption DEF Pos, Col
    <3>5. [r |-> RInc(irr.r), p |-> 0] \in Ptr
      BY <1>1, <3>4, Ring, Zenon DEF Ptr
    <3> QED BY <2>1, <3>1, <3>3, <3>5, Zenon
  <2> QED BY <2>5, <2>6, Zenon
<1> QED BY <1>4, <1>5, Zenon

\* The group that dispatches
LEMMA GroupSlots ==
  ASSUME RobType, NEW i, Input(i), DoAlloc(i.d)
  PROVE  /\ i.d.fc \in Col /\ Len(i.d.ops) \in 1..IW /\ occ < CAP /\ ~kill.v /\ i.k = {} /\ ~i.rel
         /\ Alloc(i.d) = {<<trow, col_of(i.d.fc, p)>> : p \in 0..Len(i.d.ops)-1}
<1>1. i.d # NoGroup
  BY DEF DoAlloc, NoGroup
<1>2. i.d \in Groups /\ ~kill.v /\ i.k = {} /\ ~i.rel
  BY <1>1, Zenon DEF Input
<1>3. i.d.fc \in Col /\ i.d.ops \in UNION {[1..n -> Ops] : n \in 1..IW}
  BY <1>2, Zenon DEF Groups
<1>4. PICK n \in 1..IW : i.d.ops \in [1..n -> Ops]
  BY <1>3, Zenon
<1>5. n \in Nat
  BY WidthAssumption
<1>6. Len(i.d.ops) = n
  BY <1>4, <1>5
<1> QED BY <1>2, <1>3, <1>6, Zenon DEF Alloc, DoAlloc, ready

\* The registers after a clock edge that does not flush
Live(i) == ((v \cup Alloc(i.d)) \ Committing(i)) \ (IF i.rel THEN kill.kd ELSE {})

\* A clock edge that is not a flush, in terms of the ops that commit and the head after them
LEMMA TickFlow ==
  ASSUME NEW i, RobTick(i), ~i.flush
  PROVE  /\ v' = Live(i) /\ done' = ((done \ Alloc(i.d)) \cup {six(t) : t \in i.w}) \cap Live(i)
         /\ head' = HeadAfter(i) /\ tail' = tail_n(i)
         /\ irr' = IF Behind(irr_step(i), HeadAfter(i)) THEN HeadAfter(i) ELSE irr_step(i)
         /\ fc' = IF DoAlloc(i.d) THEN [fc EXCEPT ![trow] = i.d.fc] ELSE fc
         /\ hfc' = hfc_n(i.d, HeadAfter(i))
         /\ ifc' = IF Behind(irr_step(i), HeadAfter(i)) THEN hfc_n(i.d, HeadAfter(i)) ELSE ifc_n(i.d, irr_step(i))
         /\ wl' = wl_n(i) /\ k' = k_n(i) /\ kill' = kill_n(i)
         /\ walked' = IF Ends(i) THEN {} ELSE walked \cup WalkSlots
<1>1. ent' = [x \in Live(i) |-> IF x \in Alloc(i.d) THEN DOp(i.d, x) ELSE ent[x]]
  BY Edge, Zenon DEF Live, Committing
<1>2. v' = Live(i)
  BY <1>1, Zenon DEF v
<1> QED BY <1>2, Edge, Zenon DEF Live, Committing, HeadAfter

\* A group goes where nothing is live
LEMMA GroupFresh ==
  ASSUME RobInv, NEW i, Input(i)
  PROVE  /\ \A x \in Alloc(i.d) : x[1] = trow /\ x \in Slot
         /\ Alloc(i.d) \cap v = {} /\ (~DoAlloc(i.d) => Alloc(i.d) = {}) /\ (kill.v \/ i.rel => ~DoAlloc(i.d))
<1>1. CASE ~DoAlloc(i.d)
  BY <1>1, Zenon DEF Alloc
<1>2. CASE DoAlloc(i.d)
  <2>0. RobType /\ head \in Ptr /\ tail \in RRow
    BY Zenon DEF RobInv, RobType, Ptr
  <2>1. /\ i.d.fc \in Col /\ Len(i.d.ops) \in 1..IW /\ occ < CAP /\ ~kill.v /\ ~i.rel
        /\ Alloc(i.d) = {<<trow, col_of(i.d.fc, p)>> : p \in 0..Len(i.d.ops)-1}
    BY <1>2, <2>0, GroupSlots, Zenon
  <2>2. \A p \in 0..Len(i.d.ops)-1 : p \in Pos
    BY <2>1, WidthAssumption DEF Pos, Col
  <2>3. trow \in Row /\ \A p \in Pos : col_of(i.d.fc, p) \in Col
    BY <2>0, <2>1, Ring, Zenon DEF trow
  <2>4. \A x \in Alloc(i.d) : x[1] = trow /\ x \in Slot
    BY <2>1, <2>2, <2>3 DEF Slot
  <2>5. \A x \in v : x[1] # trow
    <3>1. Dst(head, RowOf(tail)) = RSub(tail, head.r) /\ RSub(tail, head.r) \in Nat
      BY <2>0, <2>1, TailRow, Zenon DEF occ
    <3>2. \A x \in v : Dst(head, x[1]) < RSub(tail, head.r)
      BY Zenon DEF RobInv, Win
    <3>3. ~(RSub(tail, head.r) < RSub(tail, head.r))
      BY <3>1
    <3> QED BY <3>1, <3>2, <3>3, Zenon DEF trow
  <2> QED BY <1>2, <2>1, <2>4, <2>5, Zenon
<1> QED BY <1>1, <1>2, Zenon

\* The tail a release leaves is the row after the branch's
LEMMA ReleaseTail ==
  ASSUME Extremes, RobInv, NEW i, Input(i), ~i.flush, i.rel
  PROVE  /\ kill.v /\ BranchSlot \in v \ Committing(i) /\ BranchSlot \notin Settling(i)
         /\ tail_n(i) \in RRow
         /\ RSub(tail_n(i), HeadAfter(i).r) = Dst(HeadAfter(i), BranchSlot[1]) + 1
<1> DEFINE b == BranchSlot
           hn == HeadAfter(i)
           R == RAdd(head.r, RowSub(k.row, hrow))
<1>0. /\ head \in Ptr /\ tail \in RRow /\ v \subseteq Slot /\ fc \in [Row -> Col] /\ Win(v, head, tail, fc) /\ RobType
  BY Zenon DEF RobInv, RobType, Ptr
<1>1. kill.v /\ b \in v \ done /\ BranchTag = TagOf(b) /\ i.fwd = {}
  BY Zenon DEF RobInv, KillInv, Input
<1>2. b \notin Settling(i)
  BY <1>1, Zenon DEF Settling
<1>3. b \in v \ Committing(i)
  BY <1>1, CommitShape, Zenon
<1>4. k.row = b[1] /\ b[1] \in Row /\ hrow \in Row /\ head.r \in RRow
  BY <1>0, <1>1, Pointers, Zenon DEF BranchTag, TagOf, Slot, hrow
<1>5. R \in RRow /\ RSub(R, head.r) = Dst(head, b[1]) /\ Dst(head, b[1]) \in 0..ROWS-1
  <2>1. RowSub(k.row, hrow) \in Row /\ RowSub(k.row, hrow) = Dst(head, b[1])
    BY <1>4, Ring, Zenon DEF Dst, hrow
  <2> QED BY <1>4, <2>1, RAddRing, Zenon DEF Row
<1>6. tail_n(i) = RInc(R)
  BY Zenon DEF tail_n
<1> HIDE DEF R, b, hn
<1>7. RInc(R) \in RRow /\ RSub(RInc(R), head.r) = Dst(head, b[1]) + 1
  <2>1. RSub(R, head.r) < 2 * ROWS - 1
    BY <1>5, Rings
  <2> QED BY <1>4, <1>5, <2>1, RIncSub, Ring, ZenonT(60)
<1>8. hn \in Ptr /\ Commits(v, head, fc, Committing(i), hn)
  BY CommitShape, Zenon DEF hn
<1>9. RSub(RInc(R), hn.r) = Dst(hn, b[1]) + 1
  BY <1>0, <1>3, <1>7, <1>8, RowAfterMove
<1> QED BY <1>1, <1>2, <1>3, <1>6, <1>7, <1>9, Zenon DEF b, hn

\* The kill vector has exactly the ops younger than the branch after a commit, too
LEMMA KillMoves ==
  ASSUME Extremes, RobInv, NEW i, Input(i), ~i.flush, kill.v
  PROVE  /\ BranchSlot \in v \ Committing(i) /\ Committing(i) \cap kill.kd = {}
         /\ \A x \in v \ Committing(i) : x \in kill.kd <=> Younger(HeadAfter(i), fc, x, BranchSlot)
<1>0. /\ head \in Ptr /\ tail \in RRow /\ v \subseteq Slot /\ fc \in [Row -> Col] /\ Win(v, head, tail, fc)
  BY Zenon DEF RobInv, RobType, Ptr
<1>1. BranchSlot \in v \ done /\ \A x \in v : x \in kill.kd <=> Younger(head, fc, x, BranchSlot)
  BY Zenon DEF RobInv, KillInv
<1>2. BranchSlot \in v \ Committing(i) /\ Committing(i) \subseteq v
  BY <1>1, CommitShape, Zenon DEF RobInv, RobType
<1>3. HeadAfter(i) \in Ptr /\ Commits(v, head, fc, Committing(i), HeadAfter(i))
  BY CommitShape, Zenon
<1>4. \A x \in v \ Committing(i) : Younger(HeadAfter(i), fc, x, BranchSlot) <=> Younger(head, fc, x, BranchSlot)
  BY <1>0, <1>2, <1>3, YoungerKeeps, Zenon
<1>5. \A x \in Committing(i) : ~Younger(head, fc, x, BranchSlot)
  BY <1>0, <1>2, <1>3, CommitOlder, Zenon
<1> QED BY <1>1, <1>2, <1>4, <1>5, Zenon

\* A clock edge keeps the window.
LEMMA WindowStep ==
  ASSUME Extremes, RobInv, NEW i, Input(i), RobTick(i), ~i.flush
  PROVE  /\ Win(v', head', tail', fc')
         /\ Within(head', tail', irr') /\ Settled(v', done', head', fc', irr')
<1> DEFINE C == Committing(i)
           hn == HeadAfter(i)
           st == irr_step(i)
           q == IF Behind(st, hn) THEN hn ELSE st
           N == Alloc(i.d)
           E == Settling(i)
<1>0. /\ head \in Ptr /\ tail \in RRow /\ v \subseteq Slot /\ fc \in [Row -> Col] /\ Win(v, head, tail, fc) /\ RobType /\ done \subseteq v
  BY Zenon DEF RobInv, RobType, Ptr
<1>1. hn \in Ptr /\ Commits(v, head, fc, C, hn) /\ C \subseteq done
  BY CommitShape, Zenon
<1>2. st \in Ptr /\ Within(head, tail, st) /\ Settled(v, E, head, fc, st)
  BY IrrStep, Zenon
<1>3. v' = Live(i) /\ head' = hn /\ tail' = tail_n(i) /\ irr' = q /\ fc' = IF DoAlloc(i.d) THEN [fc EXCEPT ![trow] = i.d.fc] ELSE fc
  BY TickFlow, Zenon
<1>4. done' = ((done \ N) \cup {six(t) : t \in i.w}) \cap v'
  BY TickFlow, Zenon
<1> HIDE DEF C, hn, st, E
<1>5. Win(v \ C, hn, tail, fc) /\ RSub(tail, hn.r) <= RSub(tail, head.r)
  BY <1>0, <1>1, CommitWin, Zenon
<1>6. Within(hn, tail, q) /\ Settled(v \ C, E, hn, fc, q) /\ q \in Ptr
  BY <1>0, <1>1, <1>2, SettleCommit, Zenon
<1>7. /\ \A x \in N : x[1] = trow /\ x \in Slot
      /\ N \cap v = {} /\ (~DoAlloc(i.d) => N = {}) /\ (kill.v \/ i.rel => ~DoAlloc(i.d))
  BY GroupFresh, Zenon
<1> HIDE DEF N, q
<1>8. \A x \in v' : x \in E => x \in done'
  <2>1. v' \subseteq v \cup N
    BY <1>3, Zenon DEF Live, N
  <2>2. i.fwd \subseteq i.w
    BY Zenon DEF Input
  <2>3. E = done \cup {six(t) : t \in i.fwd}
    BY Zenon DEF E, Settling
  <2> QED BY <1>0, <1>4, <1>7, <2>2, <2>3, Zenon
<1>9. Win(v', head', tail', fc') /\ Within(head', tail', irr') /\ Settled(v', E, head', fc', irr')
  <2>1. CASE DoAlloc(i.d)
    <3>1. /\ i.d.fc \in Col /\ Len(i.d.ops) \in 1..IW /\ occ < CAP /\ ~i.rel
          /\ N = {<<RowOf(tail), col_of(i.d.fc, p)>> : p \in 0..Len(i.d.ops)-1}
      BY <1>0, <2>1, GroupSlots, Zenon DEF trow, N
    <3>2. v' = (v \ C) \cup N /\ tail' = RInc(tail) /\ fc' = [fc EXCEPT ![RowOf(tail)] = i.d.fc]
      BY <1>0, <1>1, <1>3, <1>7, <2>1, <3>1, Zenon DEF Live, N, C, tail_n, trow
    <3>3. RSub(tail, hn.r) < CAP
      BY <1>0, <1>1, <1>5, <3>1, Rings, Pointers, SMTT(40) DEF occ
    <3>4. Win((v \ C) \cup N, hn, RInc(tail), [fc EXCEPT ![RowOf(tail)] = i.d.fc])
      BY <1>0, <1>1, <1>5, <3>1, <3>3, AllocWin, Zenon
    <3>5. \A x \in N : x[1] = RowOf(tail) /\ PosIn([fc EXCEPT ![RowOf(tail)] = i.d.fc], x) \in Nat
      <4>1. [fc EXCEPT ![RowOf(tail)] = i.d.fc] \in [Row -> Col]
        BY <1>0, <3>1, Zenon
      <4> QED BY <1>7, <4>1, SlotAt, Pointers, Zenon DEF trow
    <3>6. Within(hn, RInc(tail), q) /\ Settled((v \ C) \cup N, E, hn, [fc EXCEPT ![RowOf(tail)] = i.d.fc], q)
      BY <1>0, <1>1, <1>5, <1>6, <3>1, <3>3, <3>5, SettleAlloc, Zenon
    <3> QED BY <1>3, <3>2, <3>4, <3>6, Zenon
  <2>2. CASE ~DoAlloc(i.d) /\ ~i.rel
    <3>1. v' = v \ C /\ tail' = tail /\ fc' = fc
      BY <1>3, <1>7, <2>2, Zenon DEF Live, N, C, tail_n
    <3> QED BY <1>3, <1>5, <1>6, <3>1, Zenon
  <2>3. CASE ~DoAlloc(i.d) /\ i.rel
    <3>1. v' = (v \ C) \ kill.kd /\ fc' = fc
      BY <1>3, <1>7, <2>3, Zenon DEF Live, N, C
    <3>2. /\ kill.v /\ BranchSlot \in v \ C /\ BranchSlot \notin E /\ tail_n(i) \in RRow
          /\ RSub(tail_n(i), hn.r) = Dst(hn, BranchSlot[1]) + 1
      BY <2>3, ReleaseTail, Zenon DEF C, E, hn
    <3>3. \A x \in v \ C : x \in kill.kd <=> Younger(hn, fc, x, BranchSlot)
      BY <3>2, KillMoves, Zenon DEF C, hn
    <3>4. Win((v \ C) \ kill.kd, hn, tail_n(i), fc)
      BY <1>0, <1>1, <1>5, <3>2, <3>3, ReleaseWin, Zenon
    <3>5. Within(hn, tail_n(i), q) /\ Settled((v \ C) \ kill.kd, E, hn, fc, q)
      BY <1>0, <1>1, <1>5, <1>6, <3>2, SettleRelease, Zenon
    <3> QED BY <1>3, <3>1, <3>4, <3>5, Zenon
  <2> QED BY <2>1, <2>2, <2>3, Zenon
<1>10. Settled(v', done', head', fc', irr')
  BY <1>8, <1>9, Zenon DEF Settled
<1> QED BY <1>9, <1>10, Zenon

\* A clock edge keeps the registered first columns.
LEMMA FirstColumnsStep ==
  ASSUME Extremes, RobInv, NEW i, Input(i), RobTick(i), ~i.flush
  PROVE  FirstColumns'
<1> DEFINE hn == HeadAfter(i)
           st == irr_step(i)
<1>0. /\ head \in Ptr /\ irr \in Ptr /\ tail \in RRow /\ v \subseteq Slot /\ fc \in [Row -> Col]
      /\ head.r \in RRow /\ irr.r \in RRow /\ hrow \in Row /\ irow \in Row /\ trow \in Row
  BY Pointers, Ring, Zenon DEF RobInv, RobType, Ptr, hrow, irow, trow
<1>1. hn \in Ptr /\ (hn.r = head.r \/ hn.r = RInc(head.r))
  BY CommitShape, Zenon
<1>2. st \in Ptr /\ (st.r = irr.r \/ st.r = RInc(irr.r)) /\ (~irr_v => st = irr) /\ (irr_v => irr.r # tail)
  BY IrrStep
<1>3. /\ head' = hn /\ tail' = tail_n(i) /\ fc' = (IF DoAlloc(i.d) THEN [fc EXCEPT ![trow] = i.d.fc] ELSE fc)
      /\ hfc' = hfc_n(i.d, hn)
  BY TickFlow, Zenon
<1>4. /\ irr' = IF Behind(st, hn) THEN hn ELSE st
      /\ ifc' = IF Behind(st, hn) THEN hfc_n(i.d, hn) ELSE ifc_n(i.d, st)
  BY TickFlow, Zenon
<1> HIDE DEF hn, st
<1>5. \A r \in Row : FcAfter(i.d, r) = fc'[r]
  BY <1>0, <1>3, Zenon DEF FcAfter
<1>6. \A old : \A r \in Row : old = fc[r] \/ (DoAlloc(i.d) /\ r = trow) => KeepFc(i.d, r, old) = fc'[r]
  BY <1>0, <1>3, Zenon DEF KeepFc
\* nothing but a group entering it makes an empty window one that is not
<1>7. ~DoAlloc(i.d) /\ ~i.rel => tail' = tail
  BY <1>3, Zenon DEF tail_n
<1>8. ASSUME ~(head' = [r |-> tail', p |-> 0]) PROVE hfc' = fc'[RowOf(hn.r)]
  <2>1. CASE hn.r # head.r
    <3>1. RowOf(hn.r) = RowInc(hrow)
      BY <1>0, <1>1, <2>1, RowOfRing, Zenon DEF hrow
    <3> QED BY <1>0, <1>3, <1>5, <2>1, <3>1, Ring, Zenon DEF hfc_n
  <2>2. CASE hn.r = head.r
    <3>1. RowOf(hn.r) = hrow /\ hfc' = KeepFc(i.d, hrow, hfc)
      BY <1>3, <2>2, Zenon DEF hfc_n, hrow
    <3>2. CASE ~empty
      <4>1. hfc = fc[hrow]
        BY <3>2, Zenon DEF RobInv, FirstColumns
      <4> QED BY <1>0, <1>6, <3>1, <4>1, Zenon
    <3>3. CASE empty
      <4>1. head.r = tail /\ head = [r |-> tail, p |-> 0]
        BY <3>3, Zenon DEF empty, tailPos
      <4>2. v = {}
        <5>1. RSub(tail, head.r) = 0 /\ \A x \in v : Dst(head, x[1]) < RSub(tail, head.r)
          BY <1>0, <4>1, Rings, Zenon DEF RobInv, Win
        <5>2. \A x \in v : Dst(head, x[1]) \in Nat
          BY <1>0, Rings DEF Slot, Dst, hrow
        <5> QED BY <5>1, <5>2
      <4>3. ~i.rel
        BY <4>2, Zenon DEF Input, RobInv, KillInv
      <4>4. hn = head
        <5>1. Committing(i) = {}
          BY <4>2, CommitShape, Zenon DEF RobInv, RobType
        <5>2. cv(i) = {}
          BY <5>1, Zenon DEF Committing
        <5> QED BY <5>2, CommitShape, Zenon DEF hn
      <4>5. DoAlloc(i.d)
        BY <1>3, <1>7, <1>8, <4>1, <4>3, <4>4, Zenon
      <4>6. hrow = trow
        BY <4>1, Zenon DEF hrow, trow
      <4> QED BY <1>0, <1>6, <3>1, <4>5, <4>6, Zenon
    <3> QED BY <3>2, <3>3, Zenon
  <2> QED BY <2>1, <2>2, Zenon
<1>9. ASSUME ~(irr' = [r |-> tail', p |-> 0]) PROVE ifc' = fc'[RowOf(irr'.r)]
  <2>1. CASE Behind(st, hn)
    BY <1>3, <1>4, <1>8, <1>9, <2>1, Zenon
  <2>2. CASE ~Behind(st, hn)
    <3>1. irr' = st /\ ifc' = ifc_n(i.d, st)
      BY <1>4, <2>2, Zenon
    <3>2. CASE st.r # irr.r
      <4>1. RowOf(st.r) = RowInc(irow)
        BY <1>0, <1>2, <3>2, RowOfRing, Zenon DEF irow
      <4> QED BY <1>0, <1>5, <3>1, <3>2, <4>1, Ring, Zenon DEF ifc_n
    <3>3. CASE st.r = irr.r
      <4>1. RowOf(st.r) = irow /\ ifc' = KeepFc(i.d, irow, ifc)
        BY <3>1, <3>3, Zenon DEF ifc_n, irow
      <4>2. CASE irr_v
        <5>1. ifc = fc[irow]
          BY <4>2, Zenon DEF RobInv, FirstColumns
        <5> QED BY <1>0, <1>6, <3>1, <4>1, <5>1, Zenon
      <4>3. CASE ~irr_v
        <5>1. irr = [r |-> tail, p |-> 0] /\ st = irr /\ irr.r = tail
          BY <1>2, <4>3 DEF irr_v, tailPos
        <5>2. ~i.rel
          <6>1. SUFFICES ASSUME i.rel PROVE FALSE
            BY Zenon
          <6>2. BranchSlot \in v /\ BranchSlot \notin Settling(i)
            BY <6>1, ReleaseTail, Zenon
          <6>3. Settled(v, Settling(i), head, fc, irr) /\ Win(v, head, tail, fc)
            BY <5>1, IrrStep, Zenon DEF RobInv, st
          <6>4. Precedes(head, fc, BranchSlot, irr)
            BY <5>1, <6>2, <6>3, Zenon DEF Precedes, Win
          <6> QED BY <6>2, <6>3, <6>4, Zenon DEF Settled
        <5>3. DoAlloc(i.d)
          BY <1>7, <1>9, <3>1, <5>1, <5>2, Zenon
        <5>4. irow = trow
          BY <5>1, Zenon DEF irow, trow
        <5> QED BY <1>0, <1>6, <3>1, <4>1, <5>3, <5>4, Zenon
      <4> QED BY <4>2, <4>3, Zenon
    <3> QED BY <3>2, <3>3, Zenon
  <2> QED BY <2>1, <2>2, Zenon
<1> QED BY <1>3, <1>8, <1>9, Zenon DEF FirstColumns, empty, irr_v, tailPos, hrow, irow

\* A completion that is not the branch's leaves the branch open
LEMMA StillOpen ==
  ASSUME RobType, NEW i, NEW x \in v \ done, i.w \subseteq OpenTags, TagOf(x) \notin i.w
  PROVE  x \notin {six(t) : t \in i.w}
<1> SUFFICES ASSUME NEW t \in i.w, x = six(t) PROVE FALSE
  BY Zenon
<1>1. PICK y \in v \ done : t = TagOf(y)
  BY Zenon DEF OpenTags
<1>2. six(TagOf(y)) = y
  BY TagSlot, Zenon DEF RobType
<1> QED BY <1>1, <1>2, Zenon

\* A clock edge keeps the kill and its branch.
LEMMA KillStep ==
  ASSUME Extremes, RobInv, NEW i, Input(i), RobTick(i), ~i.flush
  PROVE  KillInv'
<1> DEFINE C == Committing(i)
           hn == HeadAfter(i)
<1>0. /\ RobType /\ head \in Ptr /\ tail \in RRow /\ v \subseteq Slot /\ fc \in [Row -> Col] /\ Win(v, head, tail, fc)
  BY Zenon DEF RobInv, RobType, Ptr
<1>1. hn \in Ptr /\ Commits(v, head, fc, C, hn) /\ C \subseteq done
  BY CommitShape, Zenon
<1>2. /\ v' = Live(i) /\ head' = hn /\ k' = k_n(i) /\ kill' = kill_n(i)
      /\ fc' = (IF DoAlloc(i.d) THEN [fc EXCEPT ![trow] = i.d.fc] ELSE fc)
      /\ done' \subseteq done \cup {six(t) : t \in i.w}
  BY TickFlow, Zenon
<1>3. i.w \subseteq OpenTags
  <2>1. kill.v => BranchTag \in OpenTags
    BY Zenon DEF RobInv, KillInv, OpenTags
  <2> QED BY <2>1, Zenon DEF Input, Held
<1> SUFFICES ASSUME kill'.v
             PROVE /\ BranchSlot' \in v' \ done'
                   /\ BranchTag' = TagOf(BranchSlot)' /\ k'.p = PosIn(fc', BranchSlot')
                   /\ \A x \in v' : x \in kill'.kd <=> Younger(head', fc', x, BranchSlot')
  BY Zenon DEF KillInv
<1> HIDE DEF C, hn
<1>4. ~Ends(i) /\ ~i.rel
  BY <1>2, Zenon DEF kill_n, NoKill, Ends
<1>5. (kill.v \/ i.k # {}) => v' = v \ C /\ fc' = fc
  <2>1. ASSUME kill.v \/ i.k # {} PROVE ~DoAlloc(i.d)
    BY <1>0, <2>1, GroupSlots, Zenon
  <2> QED BY <1>2, <1>4, <2>1, Zenon DEF Live, Alloc, C
<1>6. CASE i.k = {}
  <2>1. kill' = kill /\ k' = k /\ kill.v
    BY <1>2, <1>4, <1>6, Zenon DEF kill_n, k_n
  <2>2. v' = v \ C /\ fc' = fc
    BY <1>5, <2>1, Zenon
  <2>3. BranchTag' = BranchTag /\ BranchSlot' = BranchSlot
    BY <2>1, Zenon DEF BranchTag, BranchSlot
  <2>4. /\ BranchSlot \in v \ done /\ BranchTag = TagOf(BranchSlot) /\ k.p = PosIn(fc, BranchSlot)
    BY <2>1, Zenon DEF RobInv, KillInv
  <2>5. BranchTag \notin i.w
    BY <1>4, <2>1, Zenon DEF Input
  <2>6. BranchSlot \notin {six(t) : t \in i.w}
    BY <1>0, <1>3, <2>4, <2>5, StillOpen, Zenon
  <2>7. BranchSlot' \in v' \ done'
    BY <1>1, <1>2, <2>2, <2>3, <2>4, <2>6, Zenon
  <2>8. TagOf(BranchSlot)' = TagOf(BranchSlot)
    BY <2>2, <2>3, Zenon DEF TagOf
  <2>9. \A x \in v \ C : x \in kill.kd <=> Younger(hn, fc, x, BranchSlot)
    BY <2>1, KillMoves, Zenon DEF C, hn
  <2> QED BY <1>2, <2>1, <2>2, <2>3, <2>4, <2>7, <2>8, <2>9, Zenon
<1>7. CASE i.k # {}
  <2>1. PICK b \in v \ done : i.k = {TagOf(b)} /\ TagOf(b) \notin i.w
    BY <1>7, Zenon DEF Input
  <2>2. NewBranch(i) = TagOf(b)
    BY <2>1, Zenon DEF NewBranch
  <2>3. /\ kill' = [v |-> TRUE, kd |-> kd_n(TagOf(b)), kh |-> hrow * 2 * IW,
                    kb |-> RowSub(TagOf(b).row, hrow) * 2 * IW + TagOf(b).wc]
        /\ k' = [row |-> TagOf(b).row, p |-> pos_of(fc[TagOf(b).row], TagOf(b).wc), wc |-> TagOf(b).wc]
    BY <1>2, <1>4, <1>7, <2>2, Zenon DEF kill_n, k_n
  <2>4. b \in Slot /\ six(TagOf(b)) = b /\ TagOf(b) = [row |-> b[1], wc |-> WrapCol(fc[b[1]], b[2])]
    BY <1>0, <2>1, TagSlot, Zenon DEF TagOf
  <2>5. BranchTag' = TagOf(b)
    BY <2>3, <2>4, Zenon DEF BranchTag
  <2>6. BranchSlot' = b
    BY <2>4, <2>5, Zenon DEF BranchSlot
  <2>7. v' = v \ C /\ fc' = fc
    BY <1>5, <1>7, Zenon
  <2>8. b \notin {six(t) : t \in i.w}
    BY <1>0, <1>3, <2>1, StillOpen, Zenon
  <2>9. b \in v' \ done' /\ b \in v \ C
    BY <1>1, <1>2, <2>1, <2>7, <2>8, Zenon
  <2>10. TagOf(BranchSlot)' = TagOf(b)
    BY <2>6, <2>7, Zenon DEF TagOf
  <2>11. k'.p = PosIn(fc', BranchSlot')
    <3>1. TagOf(b).row = b[1] /\ TagOf(b).wc = WrapCol(fc[b[1]], b[2])
      BY Zenon DEF TagOf
    <3>2. k'.p = pos_of(fc[TagOf(b).row], TagOf(b).wc)
      BY <2>3, Zenon
    <3>3. k'.p = PosIn(fc, b)
      BY <3>1, <3>2, Zenon DEF PosIn
    <3> QED BY <2>6, <2>7, <3>3, Zenon
  <2>12. ASSUME NEW x \in v' PROVE x \in kill'.kd <=> Younger(head', fc', x, BranchSlot')
    <3>1. x \in v \ C /\ x \in Slot
      BY <1>0, <2>7, Zenon
    <3>2. x \in kd_n(TagOf(b)) <=> Younger(head, fc, x, b)
      <4>1. x[1] \in Row /\ x[2] \in Col /\ b[1] \in Row /\ b[2] \in Col /\ fc[b[1]] \in Col
        BY <1>0, <2>4, <3>1, Zenon DEF Slot
      <4>2. WrapCol(fc[b[1]], x[2]) \in Nat /\ WrapCol(fc[b[1]], b[2]) \in Nat /\ fc[b[1]] \in Nat
        BY <4>1, Tags, WidthAssumption DEF Col
      <4>3. x[1] = b[1] => (PosIn(fc, x) > PosIn(fc, b) <=> WrapCol(fc[b[1]], x[2]) > WrapCol(fc[b[1]], b[2]))
        BY <4>2 DEF PosIn, pos_of
      <4> DEFINE t == TagOf(b)
      <4>4. t.row = b[1] /\ t.wc = WrapCol(fc[b[1]], b[2])
        BY Zenon DEF TagOf
      <4> HIDE DEF t
      <4>5. x \in kd_n(t) <=> \/ RowSub(x[1], hrow) > RowSub(t.row, hrow)
                              \/ x[1] = t.row /\ WrapCol(fc[t.row], x[2]) > t.wc
        BY <3>1, Zenon DEF kd_n
      <4>6. Younger(head, fc, x, b) <=> \/ RowSub(x[1], hrow) > RowSub(b[1], hrow)
                                        \/ x[1] = b[1] /\ PosIn(fc, x) > PosIn(fc, b)
        BY Zenon DEF Younger, Dst, hrow
      <4>7. x \in kd_n(t) <=> Younger(head, fc, x, b)
        BY <4>3, <4>4, <4>5, <4>6, Zenon
      <4> QED BY <4>7, Zenon DEF t
    <3>3. Younger(hn, fc, x, b) <=> Younger(head, fc, x, b)
      BY <1>0, <1>1, <2>9, <3>1, YoungerKeeps, Zenon
    <3>4. kill'.kd = kd_n(TagOf(b))
      BY <2>3, Zenon
    <3>5. Younger(head', fc', x, BranchSlot') <=> Younger(hn, fc, x, b)
      BY <1>2, <2>6, <2>7, Zenon
    <3> QED BY <3>2, <3>3, <3>4, <3>5, Zenon
  <2> QED BY <2>5, <2>6, <2>9, <2>10, <2>11, <2>12, Zenon
<1> QED BY <1>6, <1>7, Zenon
=============================================================================
