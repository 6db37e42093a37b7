----------------------------- MODULE RobProofs ------------------------------
(* The walk, the reorder buffer's inductive invariant (RobInv, RobSteps), and what its run  *)
(* checks as theorems, for every number of rows, columns and ports.                         *)
EXTENDS RobSteps, WellFoundedInduction

\* A walk to a branch is on the way to an older one
LEMMA WalkOlder ==
  ASSUME NEW V, V \subseteq Slot, NEW h \in Ptr, NEW tl, NEW F \in [Row -> Col], NEW b \in V, NEW a \in V,
         Younger(h, F, b, a), NEW w \in Walks, NEW W, WalkAt(V, h, tl, F, b, w, W)
  PROVE  WalkAt(V, h, tl, F, a, w, W)
<1>1. a[1] \in Row /\ b[1] \in Row /\ w.row \in Row /\ w.lim \in Nat /\ RowOf(h.r) \in Row
  BY Pointers, WidthAssumption DEF Slot, Walks
<1>2. PosIn(F, a) \in Nat /\ PosIn(F, b) \in Nat
  BY SlotAt, Pointers, Zenon
<1>3. /\ Dst(h, a[1]) \in Nat /\ Dst(h, b[1]) \in Nat /\ Dst(h, w.row) \in Nat
      /\ (Dst(h, w.row) = Dst(h, b[1]) <=> w.row = b[1]) /\ (Dst(h, a[1]) = Dst(h, b[1]) <=> a[1] = b[1])
  BY <1>1, Rings, RowSubInjective DEF Dst
<1>4. Dst(h, w.row) >= Dst(h, b[1]) /\ (w.row = b[1] => w.lim > PosIn(F, b))
  BY Zenon DEF WalkAt
<1>5. Dst(h, b[1]) > Dst(h, a[1]) \/ (a[1] = b[1] /\ PosIn(F, b) > PosIn(F, a))
  BY Zenon DEF Younger
<1>6. Dst(h, w.row) >= Dst(h, a[1])
  BY <1>3, <1>4, <1>5
<1>7. w.row = a[1] => w.lim > PosIn(F, a)
  BY <1>1, <1>2, <1>3, <1>4, <1>5
<1> QED BY <1>6, <1>7, Zenon DEF WalkAt

\* A walk to a branch that stays is where it was when the head moves
LEMMA WalkMoves ==
  ASSUME NEW V, V \subseteq Slot, NEW h \in Ptr, NEW tl \in RRow, NEW F \in [Row -> Col], NEW C, NEW hn \in Ptr,
         Win(V, h, tl, F), Commits(V, h, F, C, hn), NEW b \in V \ C, NEW w \in Walks, NEW W,
         WalkAt(V, h, tl, F, b, w, W)
  PROVE  WalkAt(V \ C, hn, tl, F, b, w, W)
<1>1. b[1] \in Row /\ w.row \in Row /\ w.lim \in Nat /\ RowOf(h.r) \in Row /\ h.r \in RRow
  BY Pointers, WidthAssumption DEF Slot, Walks
<1>2. PICK e \in {0, 1} :
        /\ RSub(tl, hn.r) = RSub(tl, h.r) - e
        /\ \A r \in Row : Dst(h, r) >= Dst(h, b[1]) => Dst(hn, r) = Dst(h, r) - e
        /\ \A x \in V \ C : Dst(hn, x[1]) = Dst(h, x[1]) - e
  BY RowsMove
<1>3. Dst(h, w.row) >= Dst(h, b[1]) /\ Dst(h, w.row) < RSub(tl, h.r) /\ (w.row = b[1] => w.lim > PosIn(F, b))
  BY Zenon DEF WalkAt
<1>4. Dst(hn, w.row) = Dst(h, w.row) - e /\ Dst(hn, b[1]) = Dst(h, b[1]) - e
  BY <1>1, <1>2, <1>3, Zenon
<1>5. Dst(h, b[1]) \in Nat /\ Dst(h, w.row) \in Nat /\ RSub(tl, h.r) \in Nat /\ e \in Nat
  BY <1>1, Rings DEF Dst
<1>6. Dst(hn, w.row) < RSub(tl, hn.r) /\ Dst(hn, w.row) >= Dst(hn, b[1])
  BY <1>2, <1>3, <1>4, <1>5
<1> DEFINE P(g, x) == Dst(g, x[1]) > Dst(g, w.row) \/ (x[1] = w.row /\ PosIn(F, x) >= w.lim)
<1>7. ASSUME NEW x \in V \ C PROVE P(hn, x) <=> P(h, x)
  <2>1. Dst(hn, x[1]) = Dst(h, x[1]) - e
    BY <1>2, Zenon
  <2>2. Dst(h, x[1]) \in Nat
    BY <1>1, Rings DEF Slot, Dst
  <2> QED BY <1>4, <1>5, <2>1, <2>2
<1>8. ASSUME NEW x \in V, P(h, x) PROVE x \notin C
  <2>0. x[1] \in Row /\ PosIn(F, x) \in Pos /\ PosIn(F, b) \in Pos
    BY SlotAt, Zenon
  <2>1. x[1] \in Row /\ Dst(h, x[1]) \in Nat /\ PosIn(F, x) \in Nat /\ PosIn(F, b) \in Nat
    <3>1. Dst(h, x[1]) \in Nat
      BY <1>1, <2>0, Rings DEF Dst
    <3>2. Pos \subseteq Nat
      BY Pointers, Zenon
    <3> QED BY <2>0, <3>1, <3>2, Zenon
  <2>2. Dst(h, x[1]) = Dst(h, b[1]) <=> x[1] = b[1]
    BY <1>1, <2>1, RowSubInjective DEF Dst
  <2>3. CASE Dst(h, x[1]) > Dst(h, w.row)
    <3>1. Younger(h, F, x, b)
      BY <1>3, <1>5, <2>1, <2>3 DEF Younger
    <3> QED BY <3>1, CommitOlder, Zenon
  <2>4. CASE x[1] = w.row /\ PosIn(F, x) >= w.lim
    <3>1. w.row = b[1] => PosIn(F, x) > PosIn(F, b)
      BY <1>1, <1>3, <2>1, <2>4
    <3>2. w.row # b[1] => Dst(h, x[1]) > Dst(h, b[1])
      BY <1>3, <1>5, <2>1, <2>2, <2>4
    <3>3. Younger(h, F, x, b)
      BY <2>4, <3>1, <3>2, Zenon DEF Younger
    <3> QED BY <3>3, CommitOlder, Zenon
  <2> QED BY <1>8, <2>3, <2>4, Zenon
<1>9. W = {x \in V : P(h, x)}
  BY Zenon DEF WalkAt
<1> HIDE DEF P
<1>10. W = {x \in V \ C : P(hn, x)}
  BY <1>7, <1>8, <1>9, Zenon
<1> QED BY <1>3, <1>6, <1>10, Zenon DEF WalkAt, P

\* A walk starts in the youngest row, with nothing behind it
LEMMA WalkStarts ==
  ASSUME RobInv, NEW b \in v
  PROVE  WalkAt(v, head, tail, fc, b, [run |-> TRUE, fin |-> FALSE, row |-> RowDec(trow), fc |-> fc[RowDec(trow)], lim |-> IW], {})
<1> DEFINE w == [run |-> TRUE, fin |-> FALSE, row |-> RowDec(trow), fc |-> fc[RowDec(trow)], lim |-> IW]
<1>1. w.row = RowDec(trow) /\ w.fc = fc[w.row] /\ w.lim = IW
  BY Zenon
<1> HIDE DEF w
<1>2. /\ head \in Ptr /\ tail \in RRow /\ v \subseteq Slot /\ fc \in [Row -> Col] /\ Win(v, head, tail, fc)
      /\ head.r \in RRow /\ hrow \in Row /\ trow \in Row /\ b[1] \in Row
  BY Pointers, Ring, Zenon DEF RobInv, RobType, Ptr, hrow, trow, Slot
<1>3. \A x \in v : Dst(head, x[1]) < RSub(tail, head.r)
  BY <1>2, Zenon DEF Win
<1>4. RSub(tail, head.r) \in Nat /\ RSub(tail, head.r) <= ROWS /\ Dst(head, b[1]) \in Nat
  BY <1>2, Rings DEF Win, Dst, hrow
<1>5. Dst(head, w.row) = RSub(tail, head.r) - 1
  <2>1. CASE RSub(tail, head.r) = ROWS
    <3>1. trow = hrow
      BY <1>2, <2>1, RowOfRing, Zenon DEF trow, hrow
    <3> QED BY <1>1, <1>2, <2>1, <3>1, RowBefore, Zenon DEF Dst, hrow
  <2>2. CASE RSub(tail, head.r) < ROWS
    <3>1. RowSub(trow, hrow) = RSub(tail, head.r)
      BY <1>2, <2>2, RowOfRing, Zenon DEF trow, hrow
    <3>2. RSub(tail, head.r) # 0
      BY <1>3, <1>4
    <3>3. trow # hrow
      BY <1>2, <3>1, <3>2, Rings, Zenon
    <3> QED BY <1>1, <1>2, <3>1, <3>3, RowIncSub DEF Dst, hrow
  <2> QED BY <1>4, <2>1, <2>2, Rings
<1>6. Dst(head, w.row) < RSub(tail, head.r) /\ Dst(head, w.row) >= Dst(head, b[1])
  BY <1>3, <1>4, <1>5
<1>7. \A x \in v : PosIn(fc, x) \in Nat /\ PosIn(fc, x) < IW
  BY <1>2, SlotAt, WidthAssumption DEF Pos, Col
<1>8. \A x \in v : ~(Dst(head, x[1]) > Dst(head, w.row) \/ (x[1] = w.row /\ PosIn(fc, x) >= w.lim))
  <2> SUFFICES ASSUME NEW x \in v PROVE ~(Dst(head, x[1]) > Dst(head, w.row)) /\ ~(PosIn(fc, x) >= w.lim)
    BY Zenon
  <2>1. Dst(head, x[1]) \in Nat /\ Dst(head, x[1]) < RSub(tail, head.r)
    BY <1>2, <1>3, Rings DEF Slot, Dst, hrow
  <2>2. ~(Dst(head, x[1]) > Dst(head, w.row))
    BY <1>4, <1>5, <2>1
  <2> QED BY <1>1, <1>7, <2>2, WidthAssumption
<1>9. w.lim > PosIn(fc, b)
  BY <1>1, <1>7, WidthAssumption, Zenon
<1>10. WalkAt(v, head, tail, fc, b, w, {})
  BY <1>1, <1>6, <1>8, <1>9, Zenon DEF WalkAt
<1> QED BY <1>10, Zenon DEF w

\* A row of the walk: its slots are the live ones of the row that are younger than the branch
\* and not passed; the walk then stands before them
LEMMA WalkAdvances ==
  ASSUME RobInv, kill.v
  PROVE  /\ WalkAt(v, head, tail, fc, BranchSlot, WalkStep, walked \cup WalkSlots)
         /\ ~WalkStep.run => WalkStep.row = k.row /\ WalkStep.lim = k.p + 1
         /\ WalkStep.run \/ WalkStep.fin
<1> DEFINE b == BranchSlot
<1>1. /\ head \in Ptr /\ tail \in RRow /\ v \subseteq Slot /\ fc \in [Row -> Col] /\ wl \in Walks
      /\ head.r \in RRow /\ hrow \in Row /\ k.p \in Nat
  BY Pointers, Ring, Zenon DEF RobInv, RobType, Ptr, hrow, Walks
<1>2. b \in v /\ b[1] = k.row /\ PosIn(fc, b) = k.p
  BY Zenon DEF RobInv, KillInv, BranchTag, TagOf
<1>3. WalkAt(v, head, tail, fc, b, wl, walked) /\ (~wl.run => wl.row = k.row /\ wl.lim = k.p + 1) /\ (wl.run \/ wl.fin)
  BY Zenon DEF RobInv, WalkInv
<1>4. wl.row \in Row /\ b[1] \in Row /\ wl.lim \in Nat /\ wl.lim <= IW /\ wl.run \in BOOLEAN /\ wl.fin \in BOOLEAN
  BY <1>1, <1>2, WidthAssumption DEF Walks, Slot
<1>5. Dst(head, wl.row) \in Nat /\ Dst(head, b[1]) \in Nat /\ (Dst(head, wl.row) = Dst(head, b[1]) <=> wl.row = b[1])
  BY <1>1, <1>4, Rings, RowSubInjective DEF Dst, hrow
<1>6. /\ wl.fc = fc[wl.row] /\ Dst(head, wl.row) < RSub(tail, head.r) /\ Dst(head, wl.row) >= Dst(head, b[1])
      /\ (wl.row = b[1] => wl.lim > PosIn(fc, b))
      /\ walked = {x \in v : Dst(head, x[1]) > Dst(head, wl.row) \/ (x[1] = wl.row /\ PosIn(fc, x) >= wl.lim)}
  BY <1>3, Zenon DEF WalkAt
<1>7. \A x \in v : x[1] \in Row /\ PosIn(fc, x) \in Pos /\ PosIn(fc, x) \in Nat /\ PosIn(fc, x) < IW /\ x = At(fc, x[1], PosIn(fc, x))
  BY <1>1, SlotAt, WidthAssumption DEF Pos, Col
<1>8. CASE ~wl.run
  <2>1. WalkStep = wl /\ WalkSlots = {}
    BY <1>8, Zenon DEF WalkStep, WalkSlots
  <2> QED BY <1>3, <1>8, <2>1, Zenon
<1>9. CASE wl.run
  <2>1. WalkSlots = {x \in v : x[1] = wl.row /\ PosIn(fc, x) < wl.lim /\ (wl.row # k.row \/ PosIn(fc, x) > k.p)}
    <3>1. ASSUME NEW x \in WalkSlots PROVE x \in v /\ x[1] = wl.row /\ PosIn(fc, x) < wl.lim /\ (wl.row # k.row \/ PosIn(fc, x) > k.p)
      <4>1. PICK p \in Pos : p < wl.lim /\ (wl.row # k.row \/ p > k.p) /\ x = <<wl.row, col_of(wl.fc, p)>>
        BY Zenon DEF WalkSlots
      <4>2. x = At(fc, wl.row, p)
        BY <1>6, <4>1, Zenon DEF At
      <4>3. x[1] = wl.row /\ PosIn(fc, x) = p
        BY <1>1, <1>4, <4>2, AtSlot, Zenon
      <4> QED BY <4>1, <4>3, Zenon DEF WalkSlots
    <3>2. ASSUME NEW x \in v, x[1] = wl.row, PosIn(fc, x) < wl.lim, wl.row # k.row \/ PosIn(fc, x) > k.p PROVE x \in WalkSlots
      <4>1. x = <<wl.row, col_of(wl.fc, PosIn(fc, x))>> /\ PosIn(fc, x) \in Pos
        BY <1>6, <1>7, <3>2, Zenon DEF At
      <4> QED BY <1>9, <3>2, <4>1, Zenon DEF WalkSlots
    <3> QED BY <3>1, <3>2, Zenon
  <2>2. CASE wl.row = k.row
    <3>1. WalkStep = [wl EXCEPT !.run = FALSE, !.fin = TRUE, !.lim = k.p + 1]
      BY <1>9, <2>2, Zenon DEF WalkStep
    <3>2. WalkStep.row = wl.row /\ WalkStep.fc = wl.fc /\ WalkStep.lim = k.p + 1 /\ WalkStep.fin
      BY <1>1, <3>1, Zenon DEF Walks
    <3>3. \A x \in v : x[1] = wl.row => (x \in walked \cup WalkSlots <=> PosIn(fc, x) >= k.p + 1)
      <4> SUFFICES ASSUME NEW x \in v, x[1] = wl.row PROVE x \in walked \cup WalkSlots <=> PosIn(fc, x) >= k.p + 1
        BY Zenon
      <4>1. ~(Dst(head, x[1]) > Dst(head, wl.row))
        BY <1>5
      <4>2. x \in walked <=> PosIn(fc, x) >= wl.lim
        BY <1>6, <4>1, Zenon
      <4>3. x \in WalkSlots <=> PosIn(fc, x) < wl.lim /\ PosIn(fc, x) > k.p
        BY <2>1, <2>2, Zenon
      <4>4. wl.lim > k.p /\ PosIn(fc, x) \in Nat
        BY <1>2, <1>6, <1>7, <2>2, Zenon
      <4> QED BY <1>1, <1>4, <4>2, <4>3, <4>4
    <3>4. \A x \in v : x[1] # wl.row => (x \in walked \cup WalkSlots <=> Dst(head, x[1]) > Dst(head, wl.row))
      BY <1>6, <2>1, Zenon
    <3>5. ASSUME NEW x \in v, x[1] = wl.row PROVE ~(Dst(head, x[1]) > Dst(head, wl.row))
      BY <1>5, <3>5
    <3>6. walked \cup WalkSlots \subseteq v
      BY <1>6, <2>1, Zenon
    <3>7. walked \cup WalkSlots = {x \in v : Dst(head, x[1]) > Dst(head, wl.row) \/ (x[1] = wl.row /\ PosIn(fc, x) >= k.p + 1)}
      BY <3>3, <3>4, <3>5, <3>6, Zenon
    <3>8. k.p + 1 > PosIn(fc, b)
      BY <1>1, <1>2
    <3> QED BY <1>6, <2>2, <3>2, <3>7, <3>8, Zenon DEF WalkAt
  <2>3. CASE wl.row # k.row
    <3> DEFINE r == RowDec(wl.row)
    <3>1. WalkStep = [wl EXCEPT !.row = r, !.fc = fc[r], !.lim = IW]
      BY <1>9, <2>3, Zenon DEF WalkStep
    <3>2. WalkStep.row = r /\ WalkStep.fc = fc[r] /\ WalkStep.lim = IW /\ WalkStep.run
      BY <1>1, <1>9, <3>1, Zenon DEF Walks
    <3>3. Dst(head, wl.row) > Dst(head, b[1])
      BY <1>2, <1>5, <1>6, <2>3
    <3>4. wl.row # hrow
      BY <1>1, <1>4, <1>5, <3>3, Rings DEF Dst, hrow
    <3>5. Dst(head, r) = Dst(head, wl.row) - 1 /\ r \in Row
      BY <1>1, <1>4, <3>4, RowIncSub, Ring, Zenon DEF Dst, hrow
    <3> HIDE DEF r
    <3>6. Dst(head, r) < RSub(tail, head.r) /\ Dst(head, r) >= Dst(head, b[1])
      <4>1. RSub(tail, head.r) \in Nat
        BY <1>1, Rings
      <4> QED BY <1>5, <1>6, <3>3, <3>5, <4>1
    <3>7. ASSUME NEW x \in v
          PROVE  x \in walked \cup WalkSlots <=> Dst(head, x[1]) > Dst(head, r) \/ (x[1] = r /\ PosIn(fc, x) >= IW)
      <4>1. Dst(head, x[1]) \in Nat /\ (Dst(head, x[1]) = Dst(head, wl.row) <=> x[1] = wl.row)
        BY <1>1, <1>4, <1>7, Rings, RowSubInjective DEF Dst, hrow
      <4>2. PosIn(fc, x) \in Nat /\ PosIn(fc, x) < IW
        BY <1>7, Zenon
      <4>3. x \in walked <=> Dst(head, x[1]) > Dst(head, wl.row) \/ (x[1] = wl.row /\ PosIn(fc, x) >= wl.lim)
        BY <1>6, Zenon
      <4>4. x \in WalkSlots <=> x[1] = wl.row /\ PosIn(fc, x) < wl.lim
        BY <2>1, <2>3, Zenon
      <4>5. x \in walked \cup WalkSlots <=> Dst(head, x[1]) > Dst(head, wl.row) \/ x[1] = wl.row
        BY <1>4, <4>2, <4>3, <4>4
      <4>6. Dst(head, x[1]) > Dst(head, r) <=> Dst(head, x[1]) > Dst(head, wl.row) \/ x[1] = wl.row
        BY <1>5, <3>5, <4>1
      <4>7. ~(PosIn(fc, x) >= IW)
        BY <4>2, WidthAssumption
      <4> QED BY <4>5, <4>6, <4>7, Zenon
    <3>8. walked \cup WalkSlots \subseteq v
      BY <1>6, <2>1, Zenon
    <3>9. walked \cup WalkSlots = {x \in v : Dst(head, x[1]) > Dst(head, r) \/ (x[1] = r /\ PosIn(fc, x) >= IW)}
      BY <3>7, <3>8, Zenon
    <3>10. IW > PosIn(fc, b)
      BY <1>2, <1>7, WidthAssumption, Zenon
    <3> QED BY <3>2, <3>6, <3>9, <3>10, Zenon DEF WalkAt
  <2> QED BY <2>2, <2>3, Zenon
<1> QED BY <1>8, <1>9, Zenon

\* A clock edge keeps the walk.
LEMMA WalkKept ==
  ASSUME Extremes, RobInv, NEW i, Input(i), RobTick(i), ~i.flush, KillInv', RobType'
  PROVE  WalkInv'
<1> DEFINE C == Committing(i)
           hn == HeadAfter(i)
<1>0. /\ RobType /\ head \in Ptr /\ tail \in RRow /\ v \subseteq Slot /\ fc \in [Row -> Col] /\ Win(v, head, tail, fc)
      /\ wl \in Walks /\ wl' \in Walks
  BY Zenon DEF RobInv, RobType, Ptr, Walks
<1>1. hn \in Ptr /\ Commits(v, head, fc, C, hn) /\ C \subseteq done
  BY CommitShape, Zenon
<1>2. /\ v' = Live(i) /\ head' = hn /\ k' = k_n(i) /\ kill' = kill_n(i) /\ wl' = wl_n(i) /\ tail' = tail_n(i)
      /\ fc' = (IF DoAlloc(i.d) THEN [fc EXCEPT ![trow] = i.d.fc] ELSE fc)
      /\ walked' = IF Ends(i) THEN {} ELSE walked \cup WalkSlots
  BY TickFlow, Zenon
<1> HIDE DEF C, hn
<1>3. CASE Ends(i)
  <2>1. wl' = NoWalk /\ kill' = NoKill /\ walked' = {}
    BY <1>2, <1>3, Zenon DEF wl_n, kill_n
  <2> QED BY <2>1, Zenon DEF WalkInv, NoWalk, NoKill
<1>4. CASE ~Ends(i) /\ ~kill.v /\ i.k = {}
  <2>1. ~wl.run /\ ~wl.fin /\ walked = {}
    BY <1>4, Zenon DEF RobInv, WalkInv
  <2>2. wl' = wl /\ kill' = kill /\ WalkSlots = {}
    BY <1>2, <1>4, <2>1, Zenon DEF wl_n, WalkStep, kill_n, WalkSlots
  <2>3. walked' = {}
    BY <1>2, <1>4, <2>1, <2>2, Zenon
  <2> QED BY <1>4, <2>1, <2>2, <2>3, Zenon DEF WalkInv
<1>5. CASE ~Ends(i) /\ (kill.v \/ i.k # {})
  <2>1. ~DoAlloc(i.d) /\ ~i.rel
    BY <1>0, <1>5, GroupSlots, Zenon DEF Ends
  <2>2. v' = v \ C /\ fc' = fc /\ tail' = tail /\ walked' = walked \cup WalkSlots
    BY <1>2, <1>5, <2>1, Zenon DEF Live, Alloc, C, tail_n
  <2>3. kill'.v
    BY <1>2, <1>5, Zenon DEF kill_n
  <2>4. BranchSlot' \in v' /\ BranchSlot' \in v \ C
    BY <2>2, <2>3, Zenon DEF KillInv
  \* it is enough to place the walk's next step in the window as it was
  <2>5. SUFFICES /\ WalkAt(v, head, tail, fc, BranchSlot', wl', walked')
                 /\ ~wl'.run => wl'.row = k'.row /\ wl'.lim = k'.p + 1
                 /\ wl'.run \/ wl'.fin
    <3> SUFFICES ASSUME WalkAt(v, head, tail, fc, BranchSlot', wl', walked')
                 PROVE  WalkAt(v', head', tail', fc', BranchSlot', wl', walked')
      BY <2>3, Zenon DEF WalkInv
    <3>1. WalkAt(v \ C, hn, tail, fc, BranchSlot', wl', walked')
      BY <1>0, <1>1, <2>4, WalkMoves, Zenon
    <3> QED BY <1>2, <2>2, <3>1, Zenon
  <2>6. CASE i.k = {}
    <3>1. kill.v /\ wl' = WalkStep /\ k' = k
      BY <1>2, <1>5, <2>6, Zenon DEF wl_n, k_n
    <3>2. BranchSlot' = BranchSlot
      BY <3>1, Zenon DEF BranchSlot, BranchTag
    <3> QED BY <2>2, <3>1, <3>2, WalkAdvances, Zenon
  <2>7. CASE i.k # {} /\ kill.v
    <3>1. wl' = [WalkStep EXCEPT !.run = TRUE]
      BY <1>2, <1>5, <2>7, Zenon DEF wl_n, RobInv, WalkInv
    <3>2. WalkStep \in Walks
      BY <1>0, WalkTypes, Ring, Zenon DEF RobType, Branches, trow
    <3>3. wl'.run /\ wl'.row = WalkStep.row /\ wl'.lim = WalkStep.lim /\ wl'.fc = WalkStep.fc
      BY <3>1, <3>2, Zenon DEF Walks
    <3>4. WalkAt(v, head, tail, fc, BranchSlot, wl', walked')
      BY <2>2, <2>7, <3>3, WalkAdvances, Zenon DEF WalkAt
    <3>5. Younger(head, fc, BranchSlot, BranchSlot') /\ BranchSlot \in v
      <4>1. PICK b \in v \ done : i.k = {TagOf(b)} /\ Older(TagOf(b), BranchTag)
        BY <2>7, Zenon DEF Input
      <4>2. NewBranch(i) = TagOf(b)
        BY <4>1, Zenon DEF NewBranch
      <4>3. k' = [row |-> TagOf(b).row, p |-> pos_of(fc[TagOf(b).row], TagOf(b).wc), wc |-> TagOf(b).wc]
        BY <1>2, <1>5, <2>7, <4>2, Zenon DEF k_n
      <4>4. b \in Slot /\ six(TagOf(b)) = b /\ TagOf(b) = [row |-> b[1], wc |-> WrapCol(fc[b[1]], b[2])]
        BY <1>0, <4>1, TagSlot, Zenon DEF TagOf
      <4>5. BranchTag' = TagOf(b)
        BY <4>3, <4>4, Zenon DEF BranchTag
      <4>6. BranchSlot' = b
        BY <4>4, <4>5, Zenon DEF BranchSlot
      <4>7. BranchSlot \in v /\ BranchTag = TagOf(BranchSlot)
        BY <2>7, Zenon DEF RobInv, KillInv
      <4>8. BranchSlot \in Slot /\ Older(TagOf(b), TagOf(BranchSlot))
        BY <1>0, <4>1, <4>7, Zenon
      <4>9. Younger(head, fc, BranchSlot, b)
        BY <1>0, <4>4, <4>8, OlderYounger, Zenon
      <4> QED BY <4>6, <4>7, <4>9, Zenon
    <3>6. WalkAt(v, head, tail, fc, BranchSlot', wl', walked')
      BY <1>0, <2>4, <3>4, <3>5, WalkOlder, Zenon
    <3> QED BY <3>3, <3>6, Zenon
  <2>8. CASE i.k # {} /\ ~kill.v
    <3>1. ~wl.run /\ ~wl.fin /\ walked = {}
      BY <2>8, Zenon DEF RobInv, WalkInv
    <3>2. wl' = [run |-> TRUE, fin |-> FALSE, row |-> RowDec(trow), fc |-> fc[RowDec(trow)], lim |-> IW]
      BY <1>2, <1>5, <2>8, <3>1, Zenon DEF wl_n
    <3>3. walked' = {}
      BY <2>2, <3>1, Zenon DEF WalkSlots
    <3>4. WalkAt(v, head, tail, fc, BranchSlot', wl', walked')
      BY <2>4, <3>2, <3>3, WalkStarts, Zenon
    <3> QED BY <3>2, <3>4, Zenon
  <2> QED BY <1>5, <2>6, <2>7, <2>8, Zenon
<1> QED BY <1>3, <1>4, <1>5, Zenon

-----------------------------------------------------------------------------
\* An empty window, every pointer at the start of the same row, satisfies the invariant
Emptied ==
  /\ RobType /\ v = {} /\ head.p = 0 /\ irr = head /\ tail = head.r
  /\ wl = NoWalk /\ kill = NoKill /\ walked = {}

\* An empty buffer satisfies the invariant: at the start, after a reset and after a flush
LEMMA EmptyInv == Emptied => RobInv
<1> SUFFICES ASSUME Emptied PROVE RobInv
  BY Zenon
<1> USE DEF Emptied
<1>1. head \in Ptr /\ head.r \in RRow
  BY Zenon DEF RobType, Ptr
<1>2. RSub(tail, head.r) = 0 /\ CAP \in Nat
  BY <1>1, Rings, Zenon
<1>3. \A r \in Row : ~(Dst(head, r) < 0)
  BY <1>1, Pointers, Rings DEF Dst
<1>4. Win(v, head, tail, fc)
  BY <1>2, <1>3 DEF Win
<1>5. Within(head, tail, irr) /\ Settled(v, done, head, fc, irr)
  BY <1>2 DEF Within, Settled
<1>6. head = tailPos
  BY <1>1, Zenon DEF tailPos, Ptr
<1>7. FirstColumns
  BY <1>6, Zenon DEF FirstColumns, empty, irr_v
<1>8. KillInv /\ WalkInv
  BY Zenon DEF KillInv, WalkInv, NoKill, NoWalk
<1> QED BY <1>4, <1>5, <1>7, <1>8, Zenon DEF RobInv

\* A flush leaves the window empty, at the start of a row
LEMMA FlushStep ==
  ASSUME RobInv, NEW i, RobTick(i), i.flush, RobType'
  PROVE  RobInv'
<1>1. v' = {}
  <2>1. ent' = [x \in {} |-> IF x \in Alloc(i.d) THEN DOp(i.d, x) ELSE ent[x]]
    BY Zenon DEF RobTick
  <2> QED BY <2>1, Zenon DEF v
<1>2. head' = flush_pos(HeadAfter(i)) /\ irr' = head' /\ tail' = head'.r
  BY Edge, Zenon DEF HeadAfter
<1>3. head'.p = 0
  BY <1>2, Zenon DEF flush_pos
<1>4. wl' = NoWalk /\ kill' = NoKill /\ walked' = {}
  BY DEF RobTick, wl_n, kill_n, Ends
<1>5. Emptied'
  BY <1>1, <1>2, <1>3, <1>4, Zenon DEF Emptied
<1> QED BY <1>5, EmptyInv, PTL

\* A clock edge keeps the invariant.
LEMMA TickInv ==
  ASSUME Extremes, RobInv, NEW i, Input(i), RobTick(i)
  PROVE  RobInv'
<1>1. RobType'
  <2>1. TickInput(i)
    BY Zenon DEF Input, TickInput
  <2> QED BY <2>1, TickType, Zenon DEF RobInv
<1>2. CASE i.flush
  BY <1>1, <1>2, FlushStep, Zenon
<1>3. CASE ~i.flush
  <2>1. Win(v', head', tail', fc') /\ Within(head', tail', irr') /\ Settled(v', done', head', fc', irr')
    BY <1>3, WindowStep, Zenon
  <2>2. FirstColumns' /\ KillInv'
    BY <1>3, FirstColumnsStep, KillStep, Zenon
  <2>3. WalkInv'
    BY <1>1, <1>3, <2>2, WalkKept, Zenon
  <2> QED BY <1>1, <2>1, <2>2, <2>3, Zenon DEF RobInv
<1> QED BY <1>2, <1>3, Zenon

-----------------------------------------------------------------------------
\* Read through the invariant, the window is what its run checks.
LEMMA InvWindow == RobInv => WindowExact
<1> SUFFICES ASSUME RobInv PROVE WindowExact
  BY Zenon
<1>0. /\ head \in Ptr /\ tail \in RRow /\ v \subseteq Slot /\ Win(v, head, tail, fc) /\ head.r \in RRow /\ head.p \in Nat /\ hrow \in Row
  BY Pointers, Zenon DEF RobInv, RobType, Ptr, hrow
<1>1. occ = RSub(tail, head.r) /\ occ \in Nat /\ occ <= CAP /\ occ <= ROWS
  BY <1>0, Rings DEF occ, Win
<1>2. \A x \in v : RowSub(x[1], hrow) < occ /\ RowSub(x[1], hrow) \in Nat
  BY <1>0, Rings DEF occ, Win, Dst, hrow, Slot
<1>3. occ = 0 => v = {} /\ head.p = 0
  BY <1>0, <1>1, <1>2 DEF Win
<1>4. ASSUME NEW n \in 0..occ-1
      PROVE  LET r == RowOf(RAdd(head.r, n))
                 from == IF n = 0 THEN head.p ELSE 0
             IN  \E m \in from..IW-1 : \A p \in Pos : <<r, col_of(fc[r], p)>> \in v <=> from <= p /\ p <= m
  <2> DEFINE r == RowOf(RAdd(head.r, n))
             from == IF n = 0 THEN head.p ELSE 0
  <2>1. n \in Row /\ n < occ
    BY <1>1, Rings DEF Row
  <2>2. r \in Row /\ RowSub(r, hrow) = n
    BY <1>0, <2>1, RAddRing, Ring, Zenon DEF hrow
  <2> HIDE DEF r
  <2>3. n = 0 <=> r = hrow
    BY <1>0, <2>2, Rings, Zenon
  <2>4. From(head, r) = from
    BY <2>3, Zenon DEF From, hrow
  <2>5. IsRun(v, fc, r, from)
    BY <1>0, <1>1, <2>1, <2>2, <2>4, Zenon DEF Win, Dst, hrow
  <2>6. PICK m \in Pos : from <= m /\ \A p \in Pos : At(fc, r, p) \in v <=> from <= p /\ p <= m
    BY <2>5, Zenon DEF IsRun
  <2>7. m \in from..IW-1
    BY <1>0, <2>6, WidthAssumption DEF Pos, Col
  <2> QED BY <2>6, <2>7, Zenon DEF At, r
<1> QED BY <1>1, <1>2, <1>3, <1>4, Zenon DEF WindowExact

\* The irrevocable pointer stays between the head and the tail with nothing open before it
LEMMA InvSettled == RobInv => IrrSettled
<1> SUFFICES ASSUME RobInv PROVE IrrSettled
  BY Zenon
<1>0. /\ head \in Ptr /\ irr \in Ptr /\ tail \in RRow /\ v \subseteq Slot /\ fc \in [Row -> Col] /\ Win(v, head, tail, fc)
      /\ Within(head, tail, irr) /\ Settled(v, done, head, fc, irr)
  BY Zenon DEF RobInv, RobType, Ptr
<1>1. head.r \in RRow /\ head.p \in Nat /\ hrow \in Row /\ irr.r \in RRow /\ irr.p \in Nat
  BY <1>0, Pointers, Zenon DEF hrow
<1> DEFINE o == RSub(tail, head.r)
           d == RSub(irr.r, head.r)
<1>2. o \in Nat /\ d \in Nat /\ ROWS \in Nat /\ ROWS >= 2 /\ RSub(head.r, head.r) = 0 /\ o <= ROWS
  BY <1>0, <1>1, Rings DEF Win
<1>3. d <= o /\ (d = o => irr.p = 0) /\ (d = 0 => irr.p >= head.p)
  BY <1>0, Zenon DEF Within
<1>4. ~Behind(irr, head)
  <2>1. RSub(head.r, irr.r) = IF 0 >= d THEN 0 - d ELSE 0 - d + 2 * ROWS
    BY <1>1, <1>2, RSubDiff, Zenon
  <2> HIDE DEF o, d
  <2> QED BY <1>1, <1>2, <1>3, <2>1 DEF Behind
<1>5. ~Behind(tailPos, irr)
  <2>1. RSub(irr.r, tail) = IF d >= o THEN d - o ELSE d - o + 2 * ROWS
    BY <1>0, <1>1, RSubDiff, Zenon
  <2>2. tailPos.r = tail /\ tailPos.p = 0
    BY Zenon DEF tailPos
  <2> HIDE DEF o, d
  <2> QED BY <1>1, <1>2, <1>3, <2>1, <2>2 DEF Behind
<1>6. ASSUME NEW x \in v, Behind(EntPos(x), irr) PROVE x \in done
  <2>1. x[1] \in Row /\ PosIn(fc, x) \in Pos
    BY <1>0, SlotAt, Zenon
  <2>2. PosIn(fc, x) \in Nat
    BY <2>1, Pointers, Zenon
  <2> DEFINE R == RAdd(head.r, RowSub(x[1], hrow))
             e == Dst(head, x[1])
  <2>3. EntPos(x).r = R /\ EntPos(x).p = PosIn(fc, x)
    BY Zenon DEF EntPos, TagOf, PosIn
  <2>4. R \in RRow /\ RSub(R, head.r) = e /\ e \in Nat /\ e < o
    <3>1. RowSub(x[1], hrow) \in Row /\ RowSub(x[1], hrow) = e
      BY <1>1, <2>1, Ring, Zenon DEF Dst, hrow
    <3>2. e < o
      BY <1>0, Zenon DEF Win
    <3>3. e \in Nat
      BY <3>1, Rings DEF Row
    <3> QED BY <1>1, <3>1, <3>2, <3>3, RAddRing, Zenon
  <2>5. RSub(irr.r, R) = IF d >= e THEN d - e ELSE d - e + 2 * ROWS
    BY <1>1, <2>4, RSubDiff
  <2> HIDE DEF R, e, o, d
  <2>6. e < d \/ (e = d /\ PosIn(fc, x) < irr.p)
    BY <1>1, <1>2, <1>3, <1>6, <2>2, <2>3, <2>4, <2>5 DEF Behind
  <2>7. Precedes(head, fc, x, irr)
    BY <2>6, Zenon DEF Precedes, e, d
  <2> QED BY <1>0, <2>7, Zenon DEF Settled
<1> QED BY <1>4, <1>5, <1>6, Zenon DEF IrrSettled

\* The three parts of what the pointers promise
LEMMA InvPointers == RobInv => PointersExact
<1> SUFFICES ASSUME RobInv PROVE PointersExact
  BY Zenon
<1>1. WindowExact /\ IrrSettled
  BY InvWindow, InvSettled, Zenon
<1>2. wl.run => wl.fc = fc[wl.row]
  BY Zenon DEF RobInv, WalkInv, WalkAt
<1> QED BY <1>1, <1>2, Zenon DEF PointersExact, FirstColumnsFresh, RobInv, FirstColumns

\* A kill names the live ops younger than its branch: Older, on tags, is Younger, on slots
LEMMA InvKill == RobInv => KillExact
<1> SUFFICES ASSUME RobInv, kill.v
             PROVE  six(BranchTag) \in v \ done /\ Dead = {x \in v : Older(BranchTag, TagOf(x))}
  BY Zenon DEF KillExact
<1>1. /\ BranchSlot \in v \ done /\ BranchTag = TagOf(BranchSlot) /\ RobType /\ v \subseteq Slot
      /\ \A x \in v : x \in kill.kd <=> Younger(head, fc, x, BranchSlot)
  BY Zenon DEF RobInv, KillInv, RobType
<1>2. \A x \in v : Older(BranchTag, TagOf(x)) <=> x \in kill.kd
  BY <1>1, OlderYounger, Zenon
<1> QED BY <1>1, <1>2, Zenon DEF Dead, BranchSlot

\* What the walk promises, from where it stands: everything behind it has been passed, the
\* row it is at is next, and a walk that has stopped stands just after the branch
LEMMA InvWalk == RobInv => WalkExact
<1> SUFFICES ASSUME RobInv PROVE WalkExact
  BY Zenon
<1>0. RobType /\ v \subseteq Slot /\ fc \in [Row -> Col] /\ wl \in Walks /\ head \in Ptr
  BY Zenon DEF RobInv, RobType, Walks, Ptr
<1>1. CASE ~kill.v
  <2>1. ~wl.run /\ ~wl.fin /\ walked = {} /\ Dead = {}
    BY <1>1, Zenon DEF RobInv, WalkInv, Dead
  <2>2. WalkSlots = {}
    BY <2>1, Zenon DEF WalkSlots
  <2>3. ~wl_done(Quiet)
    BY <2>1, Zenon DEF wl_done
  <2> QED BY <2>1, <2>2, <2>3, Zenon DEF WalkExact
<1>2. CASE kill.v
  <2> DEFINE b == BranchSlot
             P(x) == Dst(head, x[1]) > Dst(head, wl.row) \/ (x[1] = wl.row /\ PosIn(fc, x) >= wl.lim)
  <2>1. /\ b \in v /\ BranchTag = TagOf(b) /\ b[1] = k.row /\ PosIn(fc, b) = k.p
        /\ \A x \in v : x \in kill.kd <=> Younger(head, fc, x, b)
    BY <1>2, Zenon DEF RobInv, KillInv, BranchTag, TagOf
  <2>2. /\ wl.fc = fc[wl.row] /\ Dst(head, wl.row) >= Dst(head, b[1]) /\ (wl.row = b[1] => wl.lim > PosIn(fc, b))
        /\ walked = {x \in v : P(x)} /\ (~wl.run => wl.row = k.row /\ wl.lim = k.p + 1)
    BY <1>2, Zenon DEF RobInv, WalkInv, WalkAt
  <2>3. \A x \in v : x \in Dead <=> Younger(head, fc, x, b)
    BY <1>2, <2>1, Zenon DEF Dead
  <2>4. wl.row \in Row /\ wl.lim \in Nat /\ k.p \in Nat /\ hrow \in Row /\ b[1] \in Row
    <3>1. wl.row \in Row /\ wl.lim \in Nat
      BY <1>0, WidthAssumption DEF Walks
    <3>2. k.p \in Nat /\ b[1] \in Row
      BY <1>0, <2>1, Pointers, Zenon DEF RobType, Slot
    <3>3. hrow \in Row
      BY <1>0, Pointers, Zenon DEF hrow
    <3> QED BY <3>1, <3>2, <3>3, Zenon
  <2>5. ASSUME NEW x \in v
        PROVE  /\ x[1] \in Row /\ PosIn(fc, x) \in Pos /\ PosIn(fc, x) \in Nat /\ Dst(head, x[1]) \in Nat
               /\ \A r \in Row : Dst(head, r) \in Nat /\ (Dst(head, x[1]) = Dst(head, r) <=> x[1] = r)
    <3>1. x[1] \in Row /\ PosIn(fc, x) \in Pos
      BY <1>0, SlotAt, Zenon
    <3>2. PosIn(fc, x) \in Nat
      BY <3>1, Pointers, Zenon
    <3> QED BY <2>4, <3>1, <3>2, Rings, RowSubInjective DEF Dst, hrow
  <2>6. ASSUME NEW x \in WalkSlots
        PROVE  /\ x \in v /\ x[1] = wl.row /\ PosIn(fc, x) < wl.lim /\ (wl.row # k.row \/ PosIn(fc, x) > k.p)
    <3>1. PICK p \in Pos : p < wl.lim /\ (wl.row # k.row \/ p > k.p) /\ x = <<wl.row, col_of(wl.fc, p)>>
      BY Zenon DEF WalkSlots
    <3>2. x = At(fc, wl.row, p)
      BY <2>2, <3>1, Zenon DEF At
    <3>3. x[1] = wl.row /\ PosIn(fc, x) = p
      BY <1>0, <2>4, <3>2, AtSlot, Zenon
    <3> QED BY <3>1, <3>3, Zenon DEF WalkSlots
  <2>7. ASSUME NEW x \in v, wl.run, x[1] = wl.row, PosIn(fc, x) < wl.lim, wl.row # k.row \/ PosIn(fc, x) > k.p PROVE x \in WalkSlots
    <3>1. x = At(fc, x[1], PosIn(fc, x)) /\ PosIn(fc, x) \in Pos
      BY <1>0, SlotAt, Zenon
    <3>2. x = <<wl.row, col_of(wl.fc, PosIn(fc, x))>>
      BY <2>2, <2>7, <3>1, Zenon DEF At
    <3> QED BY <2>7, <3>1, <3>2, Zenon DEF WalkSlots
  <2> HIDE DEF b, P
  <2>8. ASSUME NEW x \in v, P(x) PROVE x \in Dead
    <3>1. x[1] = wl.row /\ wl.row = b[1] => ~(PosIn(fc, x) >= wl.lim) \/ PosIn(fc, x) > PosIn(fc, b)
      BY <2>1, <2>2, <2>4, <2>5
    <3>2. CASE Dst(head, x[1]) > Dst(head, wl.row)
      BY <2>2, <2>3, <2>4, <2>5, <3>2 DEF Younger
    <3>3. CASE x[1] = wl.row /\ PosIn(fc, x) >= wl.lim
      <4>1. x[1] # b[1] => Dst(head, x[1]) > Dst(head, b[1])
        BY <2>2, <2>4, <2>5, <3>3
      <4> QED BY <2>3, <3>1, <3>3, <4>1, Zenon DEF Younger
    <3> QED BY <2>8, <3>2, <3>3, Zenon DEF P
  <2>9. ASSUME NEW x \in WalkSlots PROVE x \in Dead /\ x \notin walked
    <3>1. x \in v /\ x[1] = wl.row /\ PosIn(fc, x) < wl.lim /\ (wl.row # k.row \/ PosIn(fc, x) > k.p)
      BY <2>6, Zenon
    <3>2. x[1] # b[1] => Dst(head, x[1]) > Dst(head, b[1])
      BY <2>2, <2>4, <2>5, <3>1
    <3>3. Younger(head, fc, x, b)
      BY <2>1, <3>1, <3>2, Zenon DEF Younger
    <3>4. ~(Dst(head, x[1]) > Dst(head, wl.row)) /\ ~(PosIn(fc, x) >= wl.lim)
      BY <2>4, <2>5, <3>1
    <3> QED BY <2>2, <2>3, <3>1, <3>3, <3>4, Zenon DEF P
  <2>10. WalkSlots \subseteq Dead \ walked /\ walked \subseteq Dead
    BY <2>2, <2>8, <2>9, Zenon
  <2>11. ASSUME NEW x \in WalkSlots, NEW y \in Dead, Older(TagOf(x), TagOf(y)) PROVE y \in walked \cup WalkSlots
    <3>1. x \in v /\ x[1] = wl.row /\ PosIn(fc, x) < wl.lim /\ (wl.row # k.row \/ PosIn(fc, x) > k.p) /\ y \in v /\ wl.run
      BY <1>2, <2>6, Zenon DEF Dead, WalkSlots
    <3>2. Younger(head, fc, y, x)
      BY <1>0, <2>11, <3>1, OlderYounger, Zenon
    <3>3. CASE Dst(head, y[1]) > Dst(head, x[1])
      BY <2>2, <3>1, <3>3, Zenon DEF P
    <3>4. CASE y[1] = x[1] /\ PosIn(fc, y) > PosIn(fc, x)
      <4>1. CASE PosIn(fc, y) >= wl.lim
        BY <2>2, <3>1, <3>4, <4>1, Zenon DEF P
      <4>2. CASE ~(PosIn(fc, y) >= wl.lim)
        <5>1. PosIn(fc, x) \in Nat /\ PosIn(fc, y) \in Nat
          BY <2>5, <3>1, Zenon
        <5>2. PosIn(fc, y) < wl.lim /\ (wl.row # k.row \/ PosIn(fc, y) > k.p)
          BY <2>4, <3>1, <3>4, <4>2, <5>1
        <5>3. y \in WalkSlots
          BY <2>7, <3>1, <3>4, <5>2, Zenon
        <5> QED BY <5>3, Zenon
      <4> QED BY <4>1, <4>2, Zenon
    <3> QED BY <3>2, <3>3, <3>4, Zenon DEF Younger
  <2>12. ASSUME wl_done(Quiet) PROVE walked = Dead
    <3>1. ~wl.run
      BY <2>12, Zenon DEF wl_done
    <3>2. wl.row = b[1] /\ wl.lim = PosIn(fc, b) + 1
      BY <2>1, <2>2, <3>1, Zenon
    <3>3. ASSUME NEW x \in Dead PROVE x \in walked
      <4>1. x \in v /\ Younger(head, fc, x, b)
        BY <1>2, <2>3, Zenon DEF Dead
      <4>2. PosIn(fc, x) \in Nat /\ PosIn(fc, b) \in Nat
        BY <2>1, <2>4, <2>5, <4>1, Zenon
      <4>3. P(x)
        BY <3>2, <4>1, <4>2 DEF P, Younger
      <4> QED BY <2>2, <4>1, <4>3, Zenon
    <3> QED BY <2>10, <3>3, Zenon
  <2> QED BY <2>10, <2>11, <2>12, Zenon DEF WalkExact
<1> QED BY <1>1, <1>2, Zenon

-----------------------------------------------------------------------------
\* Every step of the buffer on its own is a reset or a clock edge with the
\* inputs the buffer is built for.
LEMMA Steps ==
  ASSUME RobNext
  PROVE  RobReset \/ \E i : Input(i) /\ RobTick(i)
<1>0. \A held : \A w \in Completions(held) : w \subseteq OpenTags /\ w \cap held = {}
  BY Zenon DEF Completions
<1>h. kill.v => Held = {BranchTag}
  BY Zenon DEF Held
<1>1. CASE Cycle
  <2>0. PICK d \in GroupChoices : \E c \in CompletionChoices : \E s : RobTick(CycleInput(d, c, s))
    BY <1>1, Zenon DEF Cycle
  <2>c. PICK c \in CompletionChoices : \E s : RobTick(CycleInput(d, c, s))
    BY <2>0, Zenon
  <2>1. PICK s : RobTick(CycleInput(d, c, s))
    BY <2>c, Zenon
  <2> DEFINE i == CycleInput(d, c, s)
  <2>2. i.d = d /\ i.k = {} /\ i.w = c[1] /\ i.fwd = c[2] /\ ~i.flush /\ ~i.rel /\ ~i.h_fin
    BY Zenon DEF CycleInput, Quiet
  <2>3. d = NoGroup \/ (d \in Groups /\ ~kill.v)
    BY <2>0, Zenon DEF GroupChoices
  <2>4. c[1] \in Completions(Held) /\ c[2] \subseteq c[1]
    BY <2>c, Zenon DEF CompletionChoices
  <2>5. c[1] \subseteq OpenTags /\ c[1] \cap Held = {}
    BY <1>0, <2>4, Zenon
  <2> HIDE DEF i
  <2>6. Input(i)
    BY <1>h, <2>2, <2>3, <2>4, <2>5, Zenon DEF Input, Ends
  <2> QED
    BY <2>1, <2>6, Zenon DEF i
<1>2. CASE Flagged
  <2>1. PICK x \in v, w \in Completions(Held) : RobTick([Quiet EXCEPT !.w = w, !.rp = {TagOf(x)}])
    BY <1>2, Zenon DEF Flagged
  <2> DEFINE i == [Quiet EXCEPT !.w = w, !.rp = {TagOf(x)}]
  <2>2. i.d = NoGroup /\ i.k = {} /\ i.w = w /\ i.fwd = {} /\ ~i.flush /\ ~i.rel /\ ~i.h_fin
    BY Zenon DEF Quiet
  <2>3. w \subseteq OpenTags /\ w \cap Held = {}
    BY <1>0, <2>1, Zenon
  <2> HIDE DEF i
  <2>4. Input(i)
    BY <1>h, <2>2, <2>3, Zenon DEF Input, Ends
  <2> QED
    BY <2>1, <2>4, Zenon DEF i
<1>3. CASE Name
  <2>1. PICK b \in OpenTags : /\ kill.v => Older(b, BranchTag)
                              /\ \E w \in Completions({b} \cup Held) : RobTick([Quiet EXCEPT !.w = w, !.k = {b}])
    BY <1>3, Zenon DEF Name
  <2>2. PICK w \in Completions({b} \cup Held) : RobTick([Quiet EXCEPT !.w = w, !.k = {b}])
    BY <2>1, Zenon
  <2> DEFINE i == [Quiet EXCEPT !.w = w, !.k = {b}]
  <2>3. i.d = NoGroup /\ i.k = {b} /\ i.w = w /\ i.fwd = {} /\ ~i.flush /\ ~i.rel /\ ~i.h_fin
    BY Zenon DEF Quiet
  <2>4. w \subseteq OpenTags /\ w \cap ({b} \cup Held) = {}
    BY <1>0, <2>2, Zenon
  <2>5. PICK x \in v \ done : b = TagOf(x)
    BY <2>1, Zenon DEF OpenTags
  <2> HIDE DEF i
  <2>6. Input(i)
    BY <1>h, <2>1, <2>3, <2>4, <2>5, Zenon DEF Input, Ends
  <2> QED
    BY <2>2, <2>6, Zenon DEF i
<1>4. CASE Release
  <2>1. PICK w \in Completions(Held) : RobTick([Quiet EXCEPT !.w = w \cup Held, !.rel = TRUE])
    BY <1>4, Zenon DEF Release
  <2>2. kill.v
    BY <1>4, Zenon DEF Release
  <2> DEFINE i == [Quiet EXCEPT !.w = w \cup Held, !.rel = TRUE]
  <2>3. i.d = NoGroup /\ i.k = {} /\ i.w = w \cup Held /\ i.fwd = {} /\ i.rel /\ ~i.h_fin
    BY Zenon DEF Quiet
  <2>4. w \subseteq OpenTags
    BY <1>0, <2>1, Zenon
  <2> HIDE DEF i
  <2>5. Input(i)
    BY <2>2, <2>3, <2>4, Zenon DEF Input, Ends
  <2> QED
    BY <2>1, <2>5, Zenon DEF i
<1>5. CASE Squash
  <2>1. PICK x \in Beside : \/ head_idx \in OpenTags /\ RobTick(Flush(x, {head_idx}, {}))
                           \/ RobTick(Flush(x, {}, {head.p}))
    BY <1>5, Zenon DEF Squash
  <2>2. /\ x.d = NoGroup \/ (x.d \in Groups /\ ~kill.v /\ x.k = {})
        /\ x.k = {} \/ \E b \in OpenTags : x.k = {b}
        /\ x.w \subseteq OpenTags
    <3>1. CASE x \in [d : GroupChoices, k : {{}}, w : {{}}]
      <4>1. x.d \in GroupChoices /\ x.k = {} /\ x.w = {}
        BY <3>1, Zenon
      <4> QED BY <4>1, Zenon DEF GroupChoices
    <3>2. CASE x \in [d : {NoGroup}, k : {{b} : b \in OpenTags}, w : {{}}]
      <4>1. x.d = NoGroup /\ x.k \in {{b} : b \in OpenTags} /\ x.w = {}
        BY <3>2, Zenon
      <4> QED BY <4>1, Zenon
    <3>3. CASE x \in [d : {NoGroup}, k : {{}}, w : Completions(Held)]
      <4>1. x.d = NoGroup /\ x.k = {} /\ x.w \in Completions(Held)
        BY <3>3, Zenon
      <4> QED BY <1>0, <4>1, Zenon
    <3> QED BY <2>1, <3>1, <3>2, <3>3, Zenon DEF Beside
  <2>3. ASSUME NEW fin \in {{}, {head_idx}}, NEW stop, fin \subseteq OpenTags
        PROVE  Input(Flush(x, fin, stop))
    <3> DEFINE i == Flush(x, fin, stop)
    <3>1. /\ i.d = x.d /\ i.k = x.k /\ i.w = x.w \cup fin /\ i.fwd = {} /\ ~i.rel /\ i.flush
      BY Zenon DEF Flush, Quiet
    <3>2. x.k = {} \/ \E y \in v : x.k = {TagOf(y)}
      BY <2>2, Zenon DEF OpenTags
    <3> HIDE DEF i
    <3>3. Input(i)
      BY <2>2, <2>3, <3>1, <3>2, Zenon DEF Input, Ends
    <3> QED BY <3>3, Zenon DEF i
  <2>4. Input(Flush(x, {}, {head.p})) /\ (head_idx \in OpenTags => Input(Flush(x, {head_idx}, {})))
    BY <2>3, Zenon
  <2> QED
    BY <2>1, <2>4, Zenon
<1> QED
  BY <1>1, <1>2, <1>3, <1>4, <1>5, Zenon DEF RobNext

\* A clock edge keeps a kill well formed: it forms one, keeps the old one or drops it.
LEMMA TickFormed ==
  ASSUME RobType, KillFormed, NEW i, Input(i), RobTick(i)
  PROVE  KillFormed'
<1>1. kill' = kill_n(i) /\ fc' = IF DoAlloc(i.d) THEN [fc EXCEPT ![trow] = i.d.fc] ELSE fc
  BY Zenon DEF RobTick
<1> SUFFICES ASSUME kill'.v PROVE \E hr \in Row, b \in Tag : KillFrom(hr, b)'
  BY Zenon DEF KillFormed
<1>2. ~Ends(i)
  BY <1>1, Zenon DEF kill_n, NoKill
<1>3. CASE i.k = {}
  <2>1. kill' = kill /\ kill.v
    BY <1>1, <1>2, <1>3, Zenon DEF kill_n
  <2>2. i.d = NoGroup
    BY <2>1, Zenon DEF Input
  <2>3. fc' = fc
    BY <1>1, <2>2 DEF DoAlloc, NoGroup
  <2>4. PICK hr \in Row, b \in Tag : KillFrom(hr, b)
    BY <2>1, Zenon DEF KillFormed
  <2> QED
    BY <2>1, <2>3, <2>4, Zenon DEF KillFrom
<1>4. CASE i.k # {}
  <2>1. i.d = NoGroup
    BY <1>4, Zenon DEF Input
  <2>2. fc' = fc
    BY <1>1, <2>1 DEF DoAlloc, NoGroup
  <2>3. PICK x \in v : i.k = {TagOf(x)}
    BY <1>4, Zenon DEF Input
  <2> DEFINE b == TagOf(x)
  <2>4. NewBranch(i) = b
    BY <2>3, Zenon DEF NewBranch
  <2>5. x[1] \in Row /\ x[2] \in Col /\ fc[x[1]] \in Col
    BY <2>3, Zenon DEF RobType, Slot
  <2>6. b \in Tag
    BY <2>5, Tags, Zenon DEF TagOf, Tag
  <2>7. hrow \in Row
    BY Ring, Zenon DEF RobType, hrow
  <2> HIDE DEF b
  <2>8. kill' = [v |-> TRUE, kd |-> kd_n(b), kh |-> hrow * 2 * IW,
                 kb |-> RowSub(b.row, hrow) * 2 * IW + b.wc]
    BY <1>1, <1>2, <1>4, <2>4, Zenon DEF kill_n
  <2> QED
    BY <2>2, <2>6, <2>7, <2>8, Zenon DEF KillFrom, kd_n
<1> QED
  BY <1>3, <1>4, Zenon

-----------------------------------------------------------------------------

\* A set of naturals that is not empty has a least element
LEMMA Least ==
  ASSUME NEW T, T \subseteq Nat, T # {}
  PROVE  \E x \in T : \A y \in T : x <= y
<1> DEFINE R == {ss \in Nat \X Nat : ss[1] < ss[2]}
<1>1. IsWellFoundedOn(R, Nat)
  BY NatLessThanWellFounded, Zenon DEF OpToRel
<1>2. PICK x \in T : \A y \in T : ~ (<<y, x>> \in R)
  <2> HIDE DEF R
  <2> QED
    BY <1>1, WFMin, Zenon
<1>3. \A y \in T : ~ (y < x)
  BY <1>2, Zenon
<1> QED
  BY <1>3

\* The largest and the smallest of some positions of a row exist: what the commit
\* (the last position that commits) and the irrevocable pointer (the first that is not
\* done) take from the row they look at
LEMMA ExtremesHold == Extremes
<1> SUFFICES ASSUME NEW c \in SUBSET Pos, c # {}
             PROVE  /\ Max(c) \in c /\ \A p \in c : p <= Max(c)
                    /\ Min(c) \in c /\ \A p \in c : Min(c) <= p
  BY DEF Extremes
<1>1. \A p \in c : p \in Nat /\ p < IW
  BY WidthAssumption DEF Pos, Col
<1>2. \E x \in c : \A y \in c : x <= y
  BY <1>1, Least
<1>3. \E x \in c : \A y \in c : x >= y
  <2> DEFINE T == {IW - p : p \in c}
  <2>1. PICK p0 : p0 \in c
    OBVIOUS
  <2>2. IW - p0 \in T /\ \A n \in T : n \in Nat
    BY <1>1, <2>1, WidthAssumption
  <2>3. PICK n \in T : \A m \in T : n <= m
    BY <2>2, Least, Zenon
  <2>4. PICK p \in c : n = IW - p
    BY <2>3
  <2>5. \A y \in c : IW - p <= IW - y
    BY <2>3, <2>4
  <2> QED
    BY <1>1, <2>4, <2>5, WidthAssumption
<1> QED
  BY <1>1, <1>2, <1>3 DEF Max, Min

\* The invariant of the buffer, whatever its size: the live entries are the window
\* between the pointers, the irrevocable pointer is inside it and everything before it
\* is done, the registered first columns are the rows', the kill vector has exactly the
\* ops younger than its branch, and the walk has seen exactly the slots behind it.
THEOREM RobInvariant == RobSpec => []RobInv
<1>1. RobInit => RobInv
  <2>1. RobInit => Emptied
    BY InitType DEF RobInit, Emptied, Zero, v
  <2> QED
    BY <2>1, EmptyInv
<1>2. RobInv /\ RobReset => RobInv'
  <2>1. RobInv /\ RobReset => Emptied'
    BY ResetType DEF RobInv, RobReset, Emptied, Zero, v
  <2> QED
    BY <2>1, EmptyInv, PTL
<1>3. RobInv /\ UNCHANGED robVars => RobInv'
  BY SMTT(40) DEF robVars, RobInv, RobType, FirstColumns, KillInv, WalkInv, BranchSlot, BranchTag,
         TagOf, v, empty, irr_v, hrow, irow, tailPos
<1>4. RobInv /\ RobNext => RobInv'
  BY <1>2, Steps, TickInv, ExtremesHold, Zenon
<1> QED
  BY <1>1, <1>3, <1>4, PTL DEF RobSpec

\* The reorder buffer's registers keep their ranges, whatever its size: the ring
\* pointers, the positions and the walk never leave the rows and columns they index.
THEOREM RobTypeCorrect == RobSpec => []RobType
<1>1. RobInv => RobType
  BY DEF RobInv
<1> QED
  BY <1>1, RobInvariant, PTL

\* The pointers are exact, whatever the buffer's size: a commit, a flush and a release
\* leave the live entries a window from the head to the tail, the irrevocable pointer
\* never passes an op that is not done, and the registered first columns are never stale
\* (smolrv64_rob.v:477-488).
THEOREM PointersAlwaysExact == RobSpec => []PointersExact
BY RobInvariant, InvPointers, PTL

\* A kill condemns exactly the live ops younger than its branch, which is itself still
\* in flight, whatever commits or completes between the naming and the release
\* (smolrv64_rob.v:296-304).
THEOREM KillAlwaysExact == RobSpec => []KillExact
BY RobInvariant, InvKill, PTL

\* The walk visits every condemned slot once, youngest first, and nothing else, and
\* when it reports that it is done none is left (smolrv64_rob.v:250-253).
THEOREM WalkAlwaysExact == RobSpec => []WalkExact
BY RobInvariant, InvWalk, PTL

\* The kill's two forms agree for every size of the buffer: the distance test the
\* pipelines use condemns exactly the entries the kill vector frees at the release,
\* wherever the head has moved in between (smolrv64_rob.v:296-304).
THEOREM KillAgreesAlways == RobSpec => []KillAgrees
<1>1. RobInit => KillFormed
  BY DEF RobInit, KillFormed, NoKill
<1>2. RobType /\ KillFormed /\ [RobNext]_robVars => KillFormed'
  <2> SUFFICES ASSUME RobType, KillFormed, [RobNext]_robVars PROVE KillFormed'
    OBVIOUS
  <2>1. CASE RobReset
    BY <2>1 DEF RobReset, KillFormed, NoKill
  <2>2. CASE UNCHANGED robVars
    BY <2>2 DEF robVars, KillFormed, KillFrom
  <2> QED
    BY <2>1, <2>2, Steps, TickFormed, Zenon
<1> QED
  BY <1>1, <1>2, FormedAgrees, RobTypeCorrect, PTL DEF RobSpec
=============================================================================
