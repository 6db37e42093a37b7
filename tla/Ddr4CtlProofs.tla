---------------------------- MODULE Ddr4CtlProofs ---------------------------
(* The DDR4 controller's queue and row stage, and with the counters' steps the theorems:  *)
(* the invariant is inductive, row commands do what the queue wants and every command     *)
(* keeps the DRAM's spacings.                                                             *)
EXTENDS Ddr4CtlSteps, FiniteSetTheorems, WellFoundedInduction

-----------------------------------------------------------------------------
\* ---- the queue

\* A set of numbers that is not empty has a least one: the lowest bank, the oldest entry.
LEMMA MinIn ==
  ASSUME NEW S, S \subseteq Nat, S # {}
  PROVE  Min(S) \in S /\ \A y \in S : Min(S) <= y
  <1> DEFINE R == {ss \in Nat \X Nat : ss[1] < ss[2]}
  <1>1. IsWellFoundedOn(R, Nat)
    BY NatLessThanWellFounded, Zenon DEF OpToRel
  <1>2. PICK x \in S : \A y \in S : <<y, x>> \notin R
    <2> HIDE DEF R
    <2> QED BY <1>1, WFMin, Zenon
  <1>3. ASSUME NEW y \in S  PROVE x <= y
    <2>1. <<y, x>> \in Nat \X Nat /\ <<y, x>> \notin R
      BY <1>2, Zenon
    <2> QED BY <2>1
  <1> QED BY <1>2, <1>3, Zenon DEF Min

\* What an injected read and a request bring into the queue is an entry whose hit bit was
\* looked up.
LEMMA EnteringItem ==
  ASSUME CtlType, NEW rq \in RequestChoices
  PROVE  /\ Entering(rq) \in Seq(Item)
         /\ \A j \in DOMAIN Entering(rq) :
              Entering(rq)[j].hit <=> e_hit(Entering(rq)[j].line)
  <1>1. inj_line \in Line
    <2>1. CASE any_open
      <3> DEFINE O == {x \in Bank : bank[x].open}
      <3>1. O \subseteq Nat /\ O # {} /\ O \subseteq Bank
        BY <2>1, GroupOf, Zenon DEF any_open
      <3>2. Min(O) \in Bank
        BY <3>1, MinIn, Zenon
      <3>3. bank[Min(O)].row \in Rows
        BY <3>2, Zenon DEF CtlType
      <3>4. inj_line = [b |-> Min(O), r |-> bank[Min(O)].row]
        BY <2>1, Zenon DEF inj_line
      <3> QED BY <3>2, <3>3, <3>4, Zenon DEF Line
    <2>2. CASE ~any_open
      <3>1. 0 \in Bank
        BY Timings DEF Bank
      <3>3. Min(Rows) \in Rows
        BY MinIn, RowsAssumption, Zenon
      <3>2. inj_line = [b |-> 0, r |-> Min(Rows)]
        BY <2>2, Zenon DEF inj_line
      <3> QED BY <3>1, <3>2, <3>3, Zenon DEF Line
    <2> QED BY <2>1, <2>2, Zenon
  <1>2. ASSUME NEW we \in BOOLEAN, NEW inj \in BOOLEAN, NEW l \in Line
        PROVE  /\ Entry(we, inj, l) \in Item
               /\ Entry(we, inj, l).hit <=> e_hit(Entry(we, inj, l).line)
    <2>1. e_hit(l) \in BOOLEAN
      BY Zenon DEF e_hit
    <2>2. Entry(we, inj, l) = [we |-> we, inj |-> inj, hit |-> e_hit(l), line |-> l]
      BY Zenon DEF Entry
    <2> QED BY <2>1, <2>2 DEF Item
  <1>3. rq # <<>> => rq[1].we \in BOOLEAN /\ rq[1].line \in Line
    BY DEF RequestChoices
  <1>4. ASSUME NEW it \in Item, it.hit <=> e_hit(it.line), Entering(rq) = <<it>>
        PROVE  /\ Entering(rq) \in Seq(Item)
               /\ \A j \in DOMAIN Entering(rq) :
                    Entering(rq)[j].hit <=> e_hit(Entering(rq)[j].line)
    <2>1. Entering(rq) \in Seq(Item) /\ DOMAIN Entering(rq) = {1} /\ Entering(rq)[1] = it
      BY <1>4
    <2> QED BY <1>4, <2>1, Zenon
  <1>5. CASE inj_enq
    <2>1. Entering(rq) = <<Entry(FALSE, TRUE, inj_line)>>
      BY <1>5, Zenon DEF Entering
    <2>2. /\ Entry(FALSE, TRUE, inj_line) \in Item
          /\ Entry(FALSE, TRUE, inj_line).hit <=> e_hit(Entry(FALSE, TRUE, inj_line).line)
      BY <1>1, <1>2, Zenon
    <2> QED BY <1>4, <2>1, <2>2, Zenon
  <1>6. CASE ~inj_enq /\ rq # <<>>
    <2>1. Entering(rq) = <<Entry(rq[1].we, FALSE, rq[1].line)>>
      BY <1>6, Zenon DEF Entering
    <2>2. /\ Entry(rq[1].we, FALSE, rq[1].line) \in Item
          /\ Entry(rq[1].we, FALSE, rq[1].line).hit
               <=> e_hit(Entry(rq[1].we, FALSE, rq[1].line).line)
      BY <1>2, <1>3, <1>6, Zenon
    <2> QED BY <1>4, <2>1, <2>2, Zenon
  <1>7. CASE ~inj_enq /\ rq = <<>>
    <2>1. Entering(rq) = <<>>
      BY <1>7, Zenon DEF Entering
    <2> QED BY <2>1
  <1> QED BY <1>5, <1>6, <1>7, Zenon

\* How the queue moves: its entries keep their order, their hit bits follow the row commands,
\* the head leaves with its second burst and what enters comes last.
Shift == IF h_done THEN 1 ELSE 0

\* The queue after a cycle, entry by entry.
LEMMA QueueMoves ==
  ASSUME CtlType, NEW rq \in RequestChoices, Tick(rq)
  PROVE  /\ q' \in Seq(Item) /\ Shift \in Nat /\ Len(q) - Shift \in Nat
         /\ Len(q') >= Len(q) - Shift
         /\ \A j \in 1..Len(q) - Shift :
              /\ j + Shift \in DOMAIN q /\ j \in DOMAIN q'
              /\ q'[j].line = q[j + Shift].line
              /\ q'[j].hit <=> n_hit(q[j + Shift])
         /\ \A j \in DOMAIN q' : j > Len(q) - Shift => (q'[j].hit <=> e_hit(q'[j].line))
  <1> DEFINE kept == [k \in DOMAIN q |-> [q[k] EXCEPT !.hit = n_hit(q[k])]]
             base == IF h_done THEN Tail(kept) ELSE kept
             e == Entering(rq)
  <1>1. q' = base \o e
    BY Zenon DEF Tick, QueueTick
  <1>2. q \in Seq(Item) /\ Len(q) \in Nat /\ DOMAIN q = 1..Len(q)
    BY DEF CtlType
  <1>3. ASSUME NEW k \in DOMAIN q
        PROVE  kept[k] \in Item /\ kept[k].line = q[k].line /\ (kept[k].hit <=> n_hit(q[k]))
    <2>1. q[k] \in Item /\ n_hit(q[k]) \in BOOLEAN
      BY <1>2 DEF n_hit
    <2>2. kept[k] = [q[k] EXCEPT !.hit = n_hit(q[k])]
      BY Zenon
    <2> HIDE DEF kept
    <2> QED BY <2>1, <2>2, Zenon DEF Item
  <1>4. DOMAIN kept = 1..Len(q)
    BY <1>2, Zenon
  <1>5. kept \in Seq(Item) /\ Len(kept) = Len(q)
    <2>1. kept \in [1..Len(q) -> Item]
      BY <1>2, <1>3, Zenon
    <2> HIDE DEF kept
    <2> QED BY <1>2, <2>1
  <1>6. h_done => q # <<>> /\ Len(q) > 0
    BY <1>2 DEF h_done, cas_go, h_rdy
  <1>7. e \in Seq(Item) /\ \A j \in DOMAIN e : e[j].hit <=> e_hit(e[j].line)
    BY EnteringItem, Zenon
  <1>8. Shift \in Nat /\ Len(q) - Shift \in Nat
    BY <1>2, <1>6 DEF Shift
  <1>9. /\ base \in Seq(Item) /\ Len(base) = Len(q) - Shift
        /\ \A j \in 1..Len(q) - Shift : j + Shift \in DOMAIN q /\ base[j] = kept[j + Shift]
    <2> HIDE DEF kept
    <2>1. CASE h_done
      BY <1>2, <1>5, <1>6, <2>1 DEF Shift
    <2>2. CASE ~h_done
      BY <1>2, <1>5, <2>2 DEF Shift
    <2> QED BY <2>1, <2>2, Zenon
  <1>10. q' \in Seq(Item) /\ Len(q') = Len(base) + Len(e) /\ Len(e) \in Nat
    <2>1. base \in Seq(Item) /\ e \in Seq(Item)
      BY <1>7, <1>9, Zenon
    <2> HIDE DEF base, e
    <2> QED BY <1>1, <2>1
  <1>11. ASSUME NEW j \in 1..Len(q) - Shift
         PROVE  /\ j + Shift \in DOMAIN q /\ j \in DOMAIN q'
                /\ q'[j].line = q[j + Shift].line
                /\ q'[j].hit <=> n_hit(q[j + Shift])
    <2>1. q'[j] = kept[j + Shift] /\ j \in DOMAIN q'
      <3>1. base \in Seq(Item) /\ e \in Seq(Item) /\ Len(base) = Len(q) - Shift
        BY <1>7, <1>9, Zenon
      <3>2. base[j] = kept[j + Shift]
        BY <1>9, Zenon
      <3> HIDE DEF base, e, kept
      <3>3. j \in 1..Len(base) /\ q' = base \o e
        BY <1>1, <3>1, Zenon
      <3>4. q'[j] = base[j] /\ j \in DOMAIN q'
        BY <3>1, <3>3
      <3> QED BY <3>2, <3>4, Zenon
    <2>2. j + Shift \in DOMAIN q
      BY <1>9, Zenon
    <2> HIDE DEF kept
    <2> QED BY <1>3, <2>1, <2>2, Zenon
  <1>12. ASSUME NEW j \in DOMAIN q', j > Len(q) - Shift
         PROVE  q'[j].hit <=> e_hit(q'[j].line)
    <2>1. q'[j] = e[j - (Len(q) - Shift)] /\ j - (Len(q) - Shift) \in DOMAIN e
      <3> HIDE DEF base, e
      <3> QED BY <1>1, <1>7, <1>8, <1>9, <1>10, <1>12
    <2> HIDE DEF e
    <2> QED BY <1>7, <2>1, Zenon
  <1>13. Len(q') >= Len(q) - Shift
    BY <1>8, <1>9, <1>10
  <1> QED BY <1>8, <1>10, <1>11, <1>12, <1>13, Zenon

\* The oldest entry of a bank stays its oldest as the queue shifts, unless it is the head and
\* leaves.
LEMMA OldestStep ==
  ASSUME CtlType, NEW rq \in RequestChoices, Tick(rq), NEW b \in Bank, NEW k \in DOMAIN q,
         Oldest(k, b), ~(h_done /\ k = 1)
  PROVE  \E j \in DOMAIN q' : Oldest(j, b)' /\ q'[j].line = q[k].line
  <1> DEFINE j == k - Shift
  <1>1. q \in Seq(Item) /\ q' \in Seq(Item)
    BY QueueMoves, Zenon DEF CtlType
  <1>2. /\ Shift \in {0, 1} /\ (k = 1 => Shift = 0) /\ k \in 1..Len(q) /\ Len(q) \in Nat
    BY <1>1 DEF Shift
  <1>3. j \in 1..Len(q) - Shift /\ j + Shift = k
    BY <1>2
  <1>4. j \in DOMAIN q' /\ q'[j].line = q[k].line
    BY <1>3, QueueMoves, Zenon
  <1>5. ASSUME NEW i \in 1..j-1  PROVE q'[i].line.b # b
    <2>1. i \in 1..Len(q) - Shift /\ i + Shift \in 1..k-1
      BY <1>2, <1>3, SMTT(30)
    <2>2. q'[i].line = q[i + Shift].line
      BY <2>1, QueueMoves, Zenon
    <2>3. q[i + Shift].line.b # b
      BY <2>1, Zenon DEF Oldest
    <2> QED BY <2>2, <2>3, Zenon
  <1>6. q'[j].line.b = b
    BY <1>4, Zenon DEF Oldest
  <1> HIDE DEF j
  <1> QED BY <1>4, <1>5, <1>6, Zenon DEF Oldest

\* The oldest entry of a bank is the least of its positions in the queue.
LEMMA OldestIs ==
  ASSUME CtlType, NEW b
  PROVE  /\ Queued(b) # {} => Oldest(Min(Queued(b)), b)
         /\ \A k \in DOMAIN q : Oldest(k, b) => Queued(b) # {} /\ Min(Queued(b)) = k
  <1>1. q \in Seq(Item) /\ DOMAIN q = 1..Len(q) /\ Len(q) \in Nat
    BY DEF CtlType
  <1>2. Queued(b) \subseteq Nat
    BY <1>1 DEF Queued
  <1>3. ASSUME Queued(b) # {}  PROVE Oldest(Min(Queued(b)), b)
    <2>1. Min(Queued(b)) \in Queued(b) /\ \A y \in Queued(b) : Min(Queued(b)) <= y
      BY <1>2, <1>3, MinIn, Zenon
    <2> DEFINE m == Min(Queued(b))
    <2>2. m \in DOMAIN q /\ q[m].line.b = b /\ m \in Nat
      BY <1>2, <2>1, Zenon DEF Queued
    <2> HIDE DEF m
    <2>3. ASSUME NEW j \in 1..m-1, q[j].line.b = b  PROVE FALSE
      <3>1. j \in DOMAIN q /\ j < m
        BY <1>1, <2>2
      <3>2. j \in Queued(b)
        BY <2>3, <3>1, Zenon DEF Queued
      <3>3. m <= j
        BY <2>1, <3>2, Zenon DEF m
      <3> QED BY <2>2, <3>1, <3>3, <1>1
    <2>4. Oldest(m, b)
      BY <2>2, <2>3, Zenon DEF Oldest
    <2> QED BY <2>4, Zenon DEF m
  <1>4. ASSUME NEW k \in DOMAIN q, Oldest(k, b)
        PROVE  Queued(b) # {} /\ Min(Queued(b)) = k
    <2>1. k \in Queued(b)
      BY <1>4, Zenon DEF Queued, Oldest
    <2>2. Min(Queued(b)) \in Queued(b) /\ Min(Queued(b)) <= k
      BY <1>2, <2>1, MinIn, Zenon
    <2>3. ~(Min(Queued(b)) \in 1..k-1)
      BY <1>4, <2>2, Zenon DEF Queued, Oldest
    <2>4. Min(Queued(b)) \in 1..Len(q)
      BY <1>1, <2>2, Zenon DEF Queued
    <2> QED BY <1>1, <2>1, <2>2, <2>3, <2>4
  <1> QED BY <1>3, <1>4, Zenon

-----------------------------------------------------------------------------
\* ---- the row stage

\* An ACT's bank does not close in the same cycle.
LEMMA ActNoClose ==
  ASSUME CtlType, ActInv, PreInv, NEW b \in Bank, Activates(b)
  PROVE  ~Closes(b) /\ ~bank[b].open
  <1>1. ~bank[b].open
    BY Zenon DEF ActInv
  <1>2. pre # <<b>>
    BY <1>1, Zenon DEF PreInv
  <1>3. ~prea_go
    BY RefreshAlone, Zenon DEF Activates
  <1> QED BY <1>1, <1>2, <1>3, Zenon DEF Closes

\* The row under a CAS is the head's and stays open for it: a PRE is for a bank whose oldest
\* request, here the head, misses.
LEMMA CasKept ==
  ASSUME CtlType, HitExact, PreInv, rd_cas \/ wr_cas
  PROVE  /\ 1 \in DOMAIN q /\ q[1].line.b = h_b /\ h_b \in Bank
         /\ bank[h_b].open /\ bank[h_b].row = q[1].line.r /\ ~Closes(h_b)
  <1>1. q # <<>> /\ h.hit /\ h_b \in Bank
    BY CasFree, Zenon
  <1>2. q \in Seq(Item)
    BY Zenon DEF CtlType
  <1>3. 1 \in DOMAIN q
    BY <1>1, <1>2
  <1>4. bank[h_b].open /\ bank[h_b].row = q[1].line.r
    BY <1>1, <1>3, Zenon DEF HitExact, h, h_b
  <1>5. ASSUME pre = <<h_b>>  PROVE FALSE
    <2>1. PICK k \in DOMAIN q : Oldest(k, h_b) /\ q[k].line.r # bank[h_b].row
      BY <1>1, <1>5, Zenon DEF PreInv
    <2>2. k # 1
      BY <1>4, <2>1, Zenon
    <2>3. 1 \in 1..k-1
      BY <1>2, <2>2
    <2> QED BY <2>1, <2>3, Zenon DEF Oldest, h_b, h
  <1>6. ~prea_go
    BY RefreshAlone, Zenon
  <1> QED BY <1>1, <1>3, <1>4, <1>5, <1>6, Zenon DEF Closes, h_b, h

\* The hit bits stay exact.
LEMMA HitStep ==
  ASSUME CtlInv, NEW rq \in RequestChoices, Tick(rq)
  PROVE  HitExact'
  <1>1. CtlType /\ HitExact /\ ActInv /\ PreInv
    BY Zenon DEF CtlInv, RowInv
  <1> SUFFICES ASSUME NEW k \in DOMAIN q'
      PROVE  q'[k].hit = (bank'[q'[k].line.b].open /\ bank'[q'[k].line.b].row = q'[k].line.r)
      BY Zenon DEF HitExact
  <1>2. q' \in Seq(Item)
    BY <1>1, QueueMoves, Zenon
  <1>3. q'[k] \in Item
    BY <1>2
  <1> DEFINE l == q'[k].line
             b == l.b
  <1>4. b \in Bank /\ q'[k].hit \in BOOLEAN
    BY <1>3, Zenon DEF Item, Line
  <1>5. /\ bank'[b].open <=> (bank[b].open \/ Activates(b)) /\ ~Closes(b)
        /\ bank'[b].row = IF Activates(b) THEN act[1].row ELSE bank[b].row
    BY <1>4, BankOpens, Zenon
  <1>6. Activates(b) => ~Closes(b) /\ ~bank[b].open
    BY <1>1, <1>4, ActNoClose, Zenon
  <1>7. Acts(l) <=> Activates(b) /\ act[1].row = l.r
    BY Zenon DEF Acts
  <1>8. q'[k].hit <=> (bank'[b].open /\ bank'[b].row = l.r)
    <2>1. CASE k \in 1..Len(q) - Shift
      <3> DEFINE j == k + Shift
      <3>1. j \in DOMAIN q /\ l = q[j].line /\ (q'[k].hit <=> n_hit(q[j]))
        BY <1>1, <2>1, QueueMoves, Zenon
      <3>2. q[j].hit <=> (bank[b].open /\ bank[b].row = l.r)
        BY <1>1, <3>1, Zenon DEF HitExact
      <3>3. n_hit(q[j]) <=> (q[j].hit \/ Acts(l)) /\ ~Closes(b)
        BY <3>1, Zenon DEF n_hit
      <3> HIDE DEF l, b, j
      <3> QED BY <1>5, <1>6, <1>7, <3>1, <3>2, <3>3, Zenon
    <2>2. CASE k \notin 1..Len(q) - Shift
      <3>1. q'[k].hit <=> e_hit(l)
        <4>1. k \in Nat /\ k >= 1 /\ Len(q) - Shift \in Nat
          BY <1>1, <1>2, QueueMoves
        <4>2. k > Len(q) - Shift
          BY <2>2, <4>1
        <4> QED BY <1>1, <4>2, QueueMoves, Zenon
      <3>2. e_hit(l) <=> Acts(l) \/ (bank[b].open /\ bank[b].row = l.r /\ ~Closes(b))
        BY Zenon DEF e_hit
      <3> HIDE DEF l, b
      <3> QED BY <1>5, <1>6, <1>7, <3>1, <3>2, Zenon
    <2> QED BY <2>1, <2>2, Zenon
  <1> QED BY <1>4, <1>8, Zenon

\* The head leaves only with its row open: an entry that is the head, leaves, and whose bank is
\* closed or whose row is another does not exist.
LEMMA LeavesOpen ==
  ASSUME CtlType, HitExact, PreInv, h_done, NEW b \in Bank, Oldest(1, b)
  PROVE  bank[b].open /\ bank[b].row = q[1].line.r /\ ~Closes(b)
  <1>1. rd_cas \/ wr_cas
    BY Zenon DEF h_done, rd_cas, wr_cas
  <1> QED BY <1>1, CasKept, Zenon DEF Oldest

\* The registered owners are still queued while their row commands could matter.
LEMMA OwnStep ==
  ASSUME CtlInv, NEW rq \in RequestChoices, Tick(rq)
  PROVE  OwnInv'
  <1>1. CtlType /\ HitExact /\ PreInv
    BY Zenon DEF CtlInv, RowInv
  <1> SUFFICES ASSUME NEW b \in Bank, own'[b].v, own'[b].miss \/ ~bank'[b].open
      PROVE  \E k \in DOMAIN q' : /\ Oldest(k, b)' /\ q'[k].line.r = own'[b].row
                                  /\ own'[b].miss /\ t'.pre[b] = 0 => bank'[b].row # own'[b].row
      BY Zenon DEF OwnInv
  <1> DEFINE m == Min(Queued(b))
  <1>2. own'[b] = own_n(b)
    BY Zenon DEF Tick, RowTick
  <1>3. Queued(b) # {}
    BY <1>2 DEF own_n
  <1>4. own'[b].row = q[m].line.r /\ (own'[b].miss <=> bank[b].row # q[m].line.r)
    <2>1. own'[b] = [v |-> TRUE, row |-> owner(b).r, miss |-> bank[b].row # owner(b).r]
      BY <1>2, <1>3, Zenon DEF own_n
    <2>2. own'[b].row = owner(b).r /\ own'[b].miss = (bank[b].row # owner(b).r)
      BY <2>1
    <2>3. owner(b).r = q[m].line.r
      BY Zenon DEF owner
    <2> QED BY <2>2, <2>3, Zenon
  <1>5. Oldest(m, b) /\ m \in DOMAIN q
    BY <1>1, <1>3, OldestIs, Zenon DEF Oldest
  <1> HIDE DEF m
  <1>6. ~(h_done /\ m = 1)
    <2>1. SUFFICES ASSUME h_done, m = 1  PROVE FALSE
      BY Zenon
    <2>2. bank[b].open /\ bank[b].row = q[1].line.r /\ ~Closes(b)
      BY <1>1, <1>5, <2>1, LeavesOpen, Zenon
    <2>3. bank'[b].open
      BY <2>2, BankOpens, Zenon
    <2> QED BY <1>4, <2>1, <2>2, <2>3, Zenon
  <1>7. PICK j \in DOMAIN q' : Oldest(j, b)' /\ q'[j].line = q[m].line
    BY <1>1, <1>5, <1>6, OldestStep, Zenon
  <1>8. ASSUME own'[b].miss, t'.pre[b] = 0  PROVE bank'[b].row # own'[b].row
    <2>1. t.pre[b] \in Nat /\ t'.pre[b] = t_pre(b)
      BY <1>1, BankMoves, Zenon DEF CtlType
    <2>2. ~Activates(b)
      BY <1>8, <2>1, Timings DEF t_pre, mx, dn
    <2>3. bank'[b].row = bank[b].row
      BY <2>2, BankOpens, Zenon
    <2> QED BY <1>4, <1>8, <2>3, Zenon
  <1> QED BY <1>4, <1>7, <1>8, Zenon

\* What the row stage picks is one of its candidates, and it picks nothing under a refresh.
LEMMA Picked ==
  ASSUME CtlType, NEW C \in SUBSET Bank, NEW p \in Pick(C), p # <<>>
  PROVE  \E b \in C : p = <<b>>
  <1>1. C \subseteq Nat /\ C # {}
    BY GroupOf, Zenon DEF Pick
  <1>2. Min(C) \in C
    BY <1>1, MinIn, Zenon
  <1> QED BY <1>1, <1>2, Zenon DEF Pick

\* A PRE in the slots: its bank is open, free to close, and its oldest request misses.
LEMMA PreStep ==
  ASSUME CtlInv, NEW rq \in RequestChoices, Tick(rq)
  PROVE  PreInv'
  <1>1. CtlType /\ HitExact /\ PreInv /\ ActInv /\ OwnInv /\ FlagsExact
    BY Zenon DEF CtlInv, RowInv
  <1> SUFFICES ASSUME NEW b \in Bank, pre' = <<b>>
      PROVE  /\ bank'[b].open /\ t'.pre[b] = 0 /\ r_st' = "RUN"
             /\ \E k \in DOMAIN q' : Oldest(k, b)' /\ q'[k].line.r # bank'[b].row
      BY Zenon DEF PreInv
  <1>2. pre' \in pre_d
    BY Zenon DEF Tick, RowTick
  <1>3. ~ref_hold /\ pre = <<>> /\ pre' \in Pick(pre_c)
    BY <1>2, Zenon DEF pre_d
  <1>4. pre_c \in SUBSET Bank
    BY Zenon DEF pre_c
  <1>5. b \in pre_c
    <2>1. PICK c \in pre_c : pre' = <<c>>
      BY <1>1, <1>3, <1>4, Picked, Zenon
    <2> QED BY <2>1
  <1>6. bank[b].open /\ own[b].v /\ own[b].miss /\ z.pre[b]
    BY <1>5, Zenon DEF pre_c
  <1>7. t.pre[b] = 0
    BY <1>1, <1>6, Zenon DEF FlagsExact
  <1>8. PICK k \in DOMAIN q : Oldest(k, b) /\ q[k].line.r = own[b].row /\ bank[b].row # own[b].row
    BY <1>1, <1>6, <1>7, Zenon DEF OwnInv
  <1>9. ~Activates(b)
    BY <1>1, <1>6, Zenon DEF ActInv
  <1>10. r_st = "RUN" /\ ~Closes(b)
    BY <1>3, Zenon DEF ref_hold, Closes, prea_go
  <1>11. ~((rd_cas \/ wr_cas) /\ h_b = b)
    <2>1. SUFFICES ASSUME rd_cas \/ wr_cas, h_b = b  PROVE FALSE
      BY Zenon
    <2>2. 1 \in DOMAIN q /\ q[1].line.b = b /\ bank[b].row = q[1].line.r
      BY <1>1, <2>1, CasKept, Zenon
    <2>3. k # 1
      BY <1>8, <2>2, Zenon
    <2>4. q \in Seq(Item)
      BY <1>1, Zenon DEF CtlType
    <2>5. 1 \in 1..k-1
      BY <2>3, <2>4
    <2> QED BY <1>8, <2>2, <2>5, Zenon DEF Oldest
  <1>12. t'.pre[b] = 0
    BY <1>7, <1>9, <1>11, BankMoves, Zenon DEF t_pre, dn
  <1>13. bank'[b].open /\ bank'[b].row = bank[b].row
    BY <1>6, <1>9, <1>10, BankOpens, Zenon
  <1>14. ~(h_done /\ k = 1)
    BY <1>1, <1>8, LeavesOpen, Zenon
  <1>15. PICK j \in DOMAIN q' : Oldest(j, b)' /\ q'[j].line = q[k].line
    BY <1>1, <1>8, <1>14, OldestStep, Zenon
  <1>16. r_st' = "RUN"
    BY <1>1, <1>3, <1>10, RefreshMoves, Zenon
  <1> QED BY <1>8, <1>12, <1>13, <1>15, <1>16, Zenon

\* An ACT in the slots: its bank is closed, every counter it waits for has run out, and it
\* opens the row that the bank's oldest request wants.
LEMMA ActStep ==
  ASSUME CtlInv, NEW rq \in RequestChoices, Tick(rq)
  PROVE  ActInv'
  <1>1. CtlType /\ HitExact /\ PreInv /\ ActInv /\ OwnInv /\ FlagsExact
    BY Zenon DEF CtlInv, RowInv
  <1> SUFFICES ASSUME NEW b \in Bank, act' # <<>>, act'[1].b = b
      PROVE  /\ ~bank'[b].open /\ t'.act[b] = 0 /\ t'.actg[grp(b)] = 0 /\ faw'[4] >= T_FAW
             /\ r_st' = "RUN"
             /\ \E k \in DOMAIN q' : Oldest(k, b)' /\ q'[k].line.r = act'[1].row
      BY Zenon DEF ActInv, Activates
  <1>2. PICK a \in act_d : act' = IF a = <<>> THEN <<>> ELSE <<[b |-> a[1], row |-> own[a[1]].row]>>
    BY Zenon DEF Tick, RowTick
  <1>3. a # <<>>
    BY <1>2, Zenon
  <1>4. ~ref_hold /\ act = <<>> /\ a \in Pick(act_c)
    BY <1>2, <1>3, Zenon DEF act_d
  <1>5. act_c \in SUBSET Bank
    BY Zenon DEF act_c
  <1>6. PICK c \in act_c : a = <<c>>
    BY <1>1, <1>3, <1>4, <1>5, Picked, Zenon
  <1>7. b \in act_c /\ act'[1].row = own[b].row
    BY <1>2, <1>3, <1>6, Zenon
  <1>8. ~bank[b].open /\ own[b].v /\ z.act[b] /\ z.actg[grp(b)] /\ faw[4] >= T_FAW - 1
    BY <1>7, Zenon DEF act_c, faw_ok
  <1>9. t.act[b] = 0 /\ t.actg[grp(b)] = 0 /\ grp(b) \in Group
    BY <1>1, <1>8, GroupOf, Zenon DEF FlagsExact
  <1>10. PICK k \in DOMAIN q : Oldest(k, b) /\ q[k].line.r = own[b].row
    BY <1>1, <1>8, Zenon DEF OwnInv
  <1>11. ~Activates(b) /\ ~ActIn(grp(b))
    BY <1>4, Zenon DEF Activates, ActIn
  <1>12. r_st = "RUN" /\ ~prea_go /\ ~ref_go /\ ~zq_go
    BY <1>4, Zenon DEF ref_hold, prea_go, ref_go, zq_go
  <1>13. ~Closes(b)
    BY <1>1, <1>8, <1>12, Zenon DEF Closes, PreInv
  <1>14. t'.act[b] = 0
    BY <1>9, <1>12, <1>13, BankMoves, Zenon DEF t_act, dn
  <1>15. t'.actg[grp(b)] = 0
    BY <1>4, <1>9, <1>11, GroupMoves, Zenon DEF dn
  <1>16. faw'[4] >= T_FAW
    <2>1. faw'[4] = upto(faw[4], T_FAW)
      BY <1>4, FawMoves
    <2>2. faw[4] \in 0..T_FAW
      BY <1>1 DEF CtlType
    <2> QED BY <1>8, <2>1, <2>2, Timings DEF upto
  <1>17. ~bank'[b].open
    BY <1>8, <1>11, BankOpens, Zenon
  <1>18. ~(h_done /\ k = 1)
    BY <1>1, <1>8, <1>10, LeavesOpen, Zenon
  <1>19. PICK j \in DOMAIN q' : Oldest(j, b)' /\ q'[j].line = q[k].line
    BY <1>1, <1>10, <1>18, OldestStep, Zenon
  <1>20. r_st' = "RUN"
    BY <1>1, <1>4, <1>12, RefreshMoves, Zenon
  <1>21. \E i \in DOMAIN q' : Oldest(i, b)' /\ q'[i].line.r = act'[1].row
    BY <1>7, <1>10, <1>19, Zenon
  <1> QED BY <1>14, <1>15, <1>16, <1>17, <1>20, <1>21, SMTT(30)

\* A bank closes only when its PRE counter has run out.
LEMMA ClosedStep ==
  ASSUME CtlInv, NEW rq \in RequestChoices, Tick(rq)
  PROVE  ClosedInv'
  <1>1. CtlType /\ HitExact /\ PreInv /\ ActInv /\ ClosedInv /\ FlagsExact
    BY Zenon DEF CtlInv, RowInv
  <1> SUFFICES ASSUME NEW b \in Bank, ~bank'[b].open  PROVE t'.pre[b] = 0
      BY Zenon DEF ClosedInv
  <1>2. ~Activates(b)
    BY <1>1, ActNoClose, BankOpens, Zenon
  <1>3. ~bank[b].open \/ Closes(b)
    BY <1>2, BankOpens, Zenon
  <1>4. t.pre[b] = 0
    <2>1. CASE ~bank[b].open
      BY <1>1, <2>1, Zenon DEF ClosedInv
    <2>2. CASE pre = <<b>>
      BY <1>1, <2>2, Zenon DEF PreInv
    <2>3. CASE bank[b].open /\ prea_go
      BY <1>1, <2>3, Zenon DEF prea_go, FlagsExact
    <2> QED BY <1>3, <2>1, <2>2, <2>3, Zenon DEF Closes
  <1>5. ~((rd_cas \/ wr_cas) /\ h_b = b)
    BY <1>1, <1>3, CasKept, Zenon
  <1> QED BY <1>2, <1>4, <1>5, BankMoves, Zenon DEF t_pre, dn

\* Banks, owners and row commands keep their types.
LEMMA RowType ==
  ASSUME CtlType, NEW rq, Tick(rq)
  PROVE  /\ bank' \in [Bank -> [open : BOOLEAN, row : Rows]]
         /\ own' \in [Bank -> [v : BOOLEAN, row : Rows, miss : BOOLEAN]]
         /\ pre' \in Opt(Bank) /\ act' \in Opt([b : Bank, row : Rows])
  <1>1. RowTick
    BY Zenon DEF Tick
  <1>2. ASSUME NEW b \in Bank  PROVE bank'[b] \in [open : BOOLEAN, row : Rows]
    <2>1. bank[b].row \in Rows
      BY Zenon DEF CtlType
    <2>2. Activates(b) => act[1].row \in Rows
      BY DEF CtlType, Opt, Activates
    <2>3. bank'[b].row \in Rows
      BY <2>1, <2>2, BankOpens, Zenon
    <2>4. /\ bank'[b] = [open |-> bank'[b].open, row |-> bank'[b].row]
          /\ bank'[b].open \in BOOLEAN
      BY BankOpens, Zenon
    <2> QED BY <2>3, <2>4, Zenon
  <1>3. bank' = [b \in Bank |-> bank'[b]]
    BY <1>1, Zenon DEF RowTick
  <1>4. ASSUME NEW b \in Bank  PROVE own_n(b) \in [v : BOOLEAN, row : Rows, miss : BOOLEAN]
    <2>1. CASE Queued(b) = {}
      <3>1. Min(Rows) \in Rows
        BY MinIn, RowsAssumption, Zenon
      <3>2. own_n(b) = [v |-> FALSE, row |-> Min(Rows), miss |-> FALSE]
        BY <2>1, Zenon DEF own_n
      <3> QED BY <3>1, <3>2
    <2>2. CASE Queued(b) # {}
      <3>1. Min(Queued(b)) \in DOMAIN q
        BY <2>2, OldestIs, Zenon DEF Oldest
      <3>2. q \in Seq(Item)
        BY Zenon DEF CtlType
      <3>3. q[Min(Queued(b))] \in Item
        BY <3>1, <3>2
      <3>4. owner(b).r \in Rows
        BY <3>3, Zenon DEF owner, Item, Line
      <3>5. own_n(b) = [v |-> TRUE, row |-> owner(b).r, miss |-> bank[b].row # owner(b).r]
        BY <2>2, Zenon DEF own_n
      <3>6. (bank[b].row # owner(b).r) \in BOOLEAN
        BY Zenon
      <3> QED BY <3>4, <3>5, <3>6
    <2> QED BY <2>1, <2>2, Zenon
  <1>5. own' \in [Bank -> [v : BOOLEAN, row : Rows, miss : BOOLEAN]]
    BY <1>1, <1>4, Zenon DEF RowTick
  <1>6. pre' \in Opt(Bank)
    <2>1. pre' \in pre_d /\ pre_c \in SUBSET Bank
      BY <1>1, Zenon DEF RowTick, pre_c
    <2>2. pre' # <<>> => pre' \in Pick(pre_c)
      BY <2>1, Zenon DEF pre_d
    <2>3. pre' # <<>> => \E b \in pre_c : pre' = <<b>>
      BY <2>1, <2>2, Picked, Zenon
    <2> QED BY <2>1, <2>3, Zenon DEF Opt
  <1>7. act' \in Opt([b : Bank, row : Rows])
    <2>1. PICK a \in act_d : act' = IF a = <<>> THEN <<>> ELSE <<[b |-> a[1], row |-> own[a[1]].row]>>
      BY <1>1, Zenon DEF RowTick
    <2>2. act_c \in SUBSET Bank
      BY Zenon DEF act_c
    <2>3. a # <<>> => a \in Pick(act_c)
      BY <2>1, Zenon DEF act_d
    <2>4. a # <<>> => \E b \in act_c : a = <<b>>
      BY <2>2, <2>3, Picked, Zenon
    <2>5. a # <<>> => a[1] \in Bank
      BY <2>2, <2>4
    <2>6. \A b \in Bank : own[b].row \in Rows
      BY Zenon DEF CtlType
    <2> QED BY <2>1, <2>5, <2>6, Zenon DEF Opt
  <1> QED BY <1>2, <1>3, <1>5, <1>6, <1>7, Zenon

-----------------------------------------------------------------------------
\* ---- the invariant

\* Every step of the controller keeps the types.
LEMMA TypeStep ==
  ASSUME CtlInv, NEW rq \in RequestChoices, Tick(rq)
  PROVE  CtlType'
  <1>1. CtlType
    BY Zenon DEF CtlInv
  <1>2. q' \in Seq(Item)
    BY <1>1, QueueMoves, Zenon
  <1>3. h_half' \in BOOLEAN
    <2>1. h_half' = (h_half # cas_go)
      BY Zenon DEF Tick, QueueTick
    <2> QED BY <2>1, Zenon
  <1>4. lp' \in 0..T_RPREF
    <2>1. lp \in 0..T_RPREF
      BY <1>1, Zenon DEF CtlType
    <2>2. lp' = 0 \/ lp' = upto(lp, T_RPREF)
      BY <1>1, RefreshMoves, Zenon
    <2> QED BY <2>1, <2>2, Timings DEF upto
  <1>5. r_st' \in {"RUN", "CLOSE", "ZQW"}
    BY <1>1, RefreshMoves, Zenon
  <1>6. r_cnt' \in Nat
    <2>1. r_cnt \in Nat
      BY <1>1, Zenon DEF CtlType
    <2> QED BY <1>1, <2>1, RefreshMoves
  <1>7. r_owed' \in Nat
    <2>1. r_owed \in Nat /\ r_owed' = r_owed_n
      BY <1>1, RefreshMoves, Zenon DEF CtlType
    <2> QED BY <2>1 DEF r_owed_n
  <1>8. r_wait' \in Nat
    <2>1. r_wait \in Nat
      BY <1>1, Zenon DEF CtlType
    <2>2. r_wait' = T_RFC - 1 \/ r_wait' = dn(r_wait) \/ r_wait' = r_wait
      BY <1>1, RefreshMoves, Zenon
    <2> QED BY <2>1, <2>2, Timings DEF dn
  <1>9. faw' \in [1..4 -> 0..T_FAW] /\ acts' \subseteq 1..T_FAW-1
    BY FawStep, Zenon
  <1>10. /\ bank' \in [Bank -> [open : BOOLEAN, row : Rows]]
         /\ own' \in [Bank -> [v : BOOLEAN, row : Rows, miss : BOOLEAN]]
         /\ pre' \in Opt(Bank) /\ act' \in Opt([b : Bank, row : Rows])
    BY <1>1, RowType, Zenon
  <1>11. z' \in [rcd : [Bank -> BOOLEAN], pre : [Bank -> BOOLEAN], act : [Bank -> BOOLEAN],
                 actg : [Group -> BOOLEAN], casg : [Group -> BOOLEAN], rdg : [Group -> BOOLEAN],
                 wr : BOOLEAN]
    BY FlagMoves, Zenon
  <1>12. t' \in [rcd : [Bank -> Nat], pre : [Bank -> Nat], act : [Bank -> Nat],
                 actg : [Group -> Nat], casg : [Group -> Nat], rdg : [Group -> Nat], wr : Nat]
    BY <1>1, CounterType, Zenon
  <1>13. age' \in [act : [Bank -> Nat], pre : [Bank -> Nat], rd : [Bank -> Nat],
                   wr : [Bank -> Nat], ref : Nat, zq : Nat]
    BY <1>1, AgeType, Zenon
  <1> QED BY <1>2, <1>3, <1>4, <1>5, <1>6, <1>7, <1>8, <1>9, <1>10, <1>11, <1>12, <1>13, Zenon
          DEF CtlType

\* The invariant holds at reset: the banks are closed and the history is old.
LEMMA InvInit == CtlInit => CtlInv
  <1> SUFFICES ASSUME CtlInit  PROVE CtlInv
    BY Zenon
  <1>1. Min(Rows) \in Rows
    BY MinIn, RowsAssumption, Zenon
  <1>2. /\ q = <<>> /\ h_half = FALSE /\ pre = <<>> /\ act = <<>> /\ acts = {}
        /\ r_st = "RUN" /\ r_cnt = 0 /\ r_owed = 1 /\ r_wait = 0
    BY Zenon DEF CtlInit
  <1>3. ASSUME NEW b \in Bank
        PROVE  /\ bank[b] = [open |-> FALSE, row |-> Min(Rows)]
               /\ own[b] = [v |-> FALSE, row |-> Min(Rows), miss |-> FALSE]
               /\ t.rcd[b] = 0 /\ t.pre[b] = 0 /\ t.act[b] = T_RP
               /\ z.rcd[b] = TRUE /\ z.pre[b] = TRUE /\ z.act[b] = FALSE
               /\ age.act[b] = Far.act /\ age.pre[b] = Far.pre
               /\ age.rd[b] = Far.rd /\ age.wr[b] = Far.wr
    BY SMTT(30) DEF CtlInit
  <1>4. age.ref = Far.ref /\ age.zq = Far.zq /\ t.wr = 0 /\ z.wr = TRUE /\ lp = T_RPREF
    BY Zenon DEF CtlInit
  <1>5. ASSUME NEW g \in Group
        PROVE  /\ t.actg[g] = 0 /\ t.casg[g] = 0 /\ t.rdg[g] = 0
               /\ z.actg[g] = TRUE /\ z.casg[g] = TRUE /\ z.rdg[g] = TRUE
    BY Zenon DEF CtlInit
  <1>6. CtlType
    <2>1. /\ q \in Seq(Item) /\ h_half \in BOOLEAN /\ pre \in Opt(Bank)
          /\ act \in Opt([b : Bank, row : Rows]) /\ acts \subseteq 1..T_FAW-1
      <3>1. q \in Seq(Item) /\ acts \subseteq 1..T_FAW-1
        BY <1>2
      <3>3. h_half \in BOOLEAN
        BY <1>2, Zenon
      <3>2. pre \in Opt(Bank) /\ act \in Opt([b : Bank, row : Rows])
        BY <1>2, Zenon DEF Opt
      <3> QED BY <3>1, <3>2, <3>3, Zenon
    <2>2. bank \in [Bank -> [open : BOOLEAN, row : Rows]]
      <3>1. bank = [b \in Bank |-> [open |-> FALSE, row |-> Min(Rows)]]
        BY Zenon DEF CtlInit
      <3> QED BY <1>1, <3>1, Zenon
    <2>3. own \in [Bank -> [v : BOOLEAN, row : Rows, miss : BOOLEAN]]
      <3>1. own = [b \in Bank |-> [v |-> FALSE, row |-> Min(Rows), miss |-> FALSE]]
        BY Zenon DEF CtlInit
      <3> QED BY <1>1, <3>1, Zenon
    <2>4. t \in [rcd : [Bank -> Nat], pre : [Bank -> Nat], act : [Bank -> Nat],
                 actg : [Group -> Nat], casg : [Group -> Nat], rdg : [Group -> Nat], wr : Nat]
      <3>1. t = [rcd |-> [b \in Bank |-> 0], pre |-> [b \in Bank |-> 0],
                 act |-> [b \in Bank |-> T_RP], actg |-> [g \in Group |-> 0],
                 casg |-> [g \in Group |-> 0], rdg |-> [g \in Group |-> 0], wr |-> 0]
        BY Zenon DEF CtlInit
      <3>2. 0 \in Nat /\ T_RP \in Nat
        BY Timings, Zenon
      <3> QED BY <3>1, <3>2, Zenon
    <2>5. z \in [rcd : [Bank -> BOOLEAN], pre : [Bank -> BOOLEAN], act : [Bank -> BOOLEAN],
                 actg : [Group -> BOOLEAN], casg : [Group -> BOOLEAN], rdg : [Group -> BOOLEAN],
                 wr : BOOLEAN]
      <3>1. z = [rcd |-> [b \in Bank |-> TRUE], pre |-> [b \in Bank |-> TRUE],
                 act |-> [b \in Bank |-> FALSE], actg |-> [g \in Group |-> TRUE],
                 casg |-> [g \in Group |-> TRUE], rdg |-> [g \in Group |-> TRUE], wr |-> TRUE]
        BY Zenon DEF CtlInit
      <3> QED BY <3>1, Zenon
    <2>6. faw \in [1..4 -> 0..T_FAW] /\ lp \in 0..T_RPREF
      <3>1. faw = [k \in 1..4 |-> T_FAW] /\ lp = T_RPREF
        BY Zenon DEF CtlInit
      <3>2. T_FAW \in 0..T_FAW /\ T_RPREF \in 0..T_RPREF
        BY Timings
      <3> QED BY <3>1, <3>2, Zenon
    <2>7. age \in [act : [Bank -> Nat], pre : [Bank -> Nat], rd : [Bank -> Nat],
                   wr : [Bank -> Nat], ref : Nat, zq : Nat]
      <3>1. age = [act |-> [b \in Bank |-> Far.act], pre |-> [b \in Bank |-> Far.pre],
                   rd |-> [b \in Bank |-> Far.rd], wr |-> [b \in Bank |-> Far.wr],
                   ref |-> Far.ref, zq |-> Far.zq]
        BY Zenon DEF CtlInit
      <3>2. /\ Far.act \in Nat /\ Far.pre \in Nat /\ Far.rd \in Nat /\ Far.wr \in Nat
            /\ Far.ref \in Nat /\ Far.zq \in Nat
        BY FarReaches, Timings, Zenon
      <3> QED BY <3>1, <3>2, Zenon
    <2>8. /\ r_st \in {"RUN", "CLOSE", "ZQW"} /\ r_cnt \in Nat /\ r_owed \in Nat
          /\ r_wait \in Nat
      BY <1>2, Zenon
    <2> QED BY <2>1, <2>2, <2>3, <2>4, <2>5, <2>6, <2>7, <2>8, Zenon DEF CtlType
  <1>7. FlagsExact
    <2>1. ASSUME NEW b \in Bank
          PROVE  /\ z.rcd[b] <=> t.rcd[b] = 0
                 /\ z.pre[b] <=> t.pre[b] = 0
                 /\ z.act[b] <=> t.act[b] = 0
      <3>1. T_RP # 0
        BY Timings
      <3> QED BY <1>3, <3>1, Zenon
    <2>2. ASSUME NEW g \in Group
          PROVE  /\ z.actg[g] <=> t.actg[g] = 0
                 /\ z.casg[g] <=> t.casg[g] = 0
                 /\ z.rdg[g] <=> t.rdg[g] = 0
      BY <1>5, Zenon
    <2> QED BY <1>4, <2>1, <2>2, Zenon DEF FlagsExact
  <1>8. BankSpaced
    <2> SUFFICES ASSUME NEW b \in Bank
        PROVE  /\ age.act[b] + t.rcd[b] >= T_RCD /\ age.act[b] + t.pre[b] >= T_RAS
               /\ age.rd[b] + t.pre[b] >= T_RTP /\ age.wr[b] + t.pre[b] >= T_WRP
               /\ age.pre[b] + t.act[b] >= T_RP /\ age.ref + t.act[b] >= T_RFC
               /\ age.zq + t.act[b] >= T_ZQCS
               /\ age.act[b] >= 1 /\ age.pre[b] >= 1 /\ age.rd[b] >= 1 /\ age.wr[b] >= 1
        BY Zenon DEF BankSpaced
    <2>1. /\ age.act[b] = Far.act /\ age.pre[b] = Far.pre /\ age.rd[b] = Far.rd
          /\ age.wr[b] = Far.wr /\ t.rcd[b] = 0 /\ t.pre[b] = 0 /\ t.act[b] = T_RP
      BY <1>3, Zenon
    <2> QED BY <1>4, <2>1, FarReaches, Timings, SMTT(30)
  <1>9. GroupSpaced
    <2> SUFFICES ASSUME NEW b \in Bank, NEW g \in Group
        PROVE  /\ age.act[b] + t.actg[g] >= (IF grp(b) = g THEN T_RRD_L ELSE T_RRD_S)
               /\ age.wr[b] + t.rdg[g] >= (IF grp(b) = g THEN T_WTR_L ELSE T_WTR_S)
               /\ grp(b) = g => age.rd[b] + t.casg[g] >= T_CCD_L /\ age.wr[b] + t.casg[g] >= T_CCD_L
               /\ age.rd[b] + t.wr >= T_RTW
        BY Zenon DEF GroupSpaced
    <2>1. age.act[b] = Far.act /\ age.rd[b] = Far.rd /\ age.wr[b] = Far.wr
      BY <1>3, Zenon
    <2>2. t.actg[g] = 0 /\ t.casg[g] = 0 /\ t.rdg[g] = 0
      BY <1>5, Zenon
    <2> QED BY <1>4, <2>1, <2>2, FarReaches, Timings, SMTT(30)
  <1>10. RefSpaced
    <2>1. ASSUME NEW b \in Bank  PROVE age.pre[b] >= lp
      <3>1. age.pre[b] = Far.pre
        BY <1>3, Zenon
      <3> QED BY <1>4, <3>1, FarReaches, Timings, Zenon
    <2>2. age.ref >= 1 /\ age.zq >= 1 /\ r_st # "ZQW"
      BY <1>2, <1>4, FarReaches, Timings
    <2> QED BY <2>1, <2>2, Zenon DEF RefSpaced
  <1>11. FawExact
    <2>1. acts = {}
      BY <1>2, Zenon
    <2> QED BY <2>1, Zenon DEF FawExact
  <1>12. RowInv
    <2>1. HitExact
      <3>1. DOMAIN q = {}
        BY <1>2
      <3> QED BY <3>1, Zenon DEF HitExact
    <2>2. OwnInv
      <3>1. ASSUME NEW b \in Bank  PROVE ~own[b].v
        <4>1. own[b] = [v |-> FALSE, row |-> Min(Rows), miss |-> FALSE]
          BY <1>3, Zenon
        <4> QED BY <4>1
      <3> QED BY <3>1, Zenon DEF OwnInv
    <2>3. PreInv
      BY <1>2, Zenon DEF PreInv
    <2>4. ActInv
      BY <1>2, Zenon DEF ActInv, Activates
    <2>5. ClosedInv
      BY <1>3, Zenon DEF ClosedInv
    <2> QED BY <2>1, <2>2, <2>3, <2>4, <2>5, Zenon DEF RowInv
  <1> QED BY <1>6, <1>7, <1>8, <1>9, <1>10, <1>11, <1>12, Zenon DEF CtlInv

\* Every cycle keeps the invariant, and so does a stutter.
LEMMA InvStep == CtlInv /\ [CtlNext]_ctlVars => CtlInv'
  <1>1. ASSUME CtlInv, UNCHANGED ctlVars  PROVE CtlInv'
    <2>1. /\ q' = q /\ h_half' = h_half /\ bank' = bank /\ own' = own /\ t' = t /\ z' = z
          /\ faw' = faw /\ lp' = lp /\ pre' = pre /\ act' = act /\ r_st' = r_st /\ r_cnt' = r_cnt
          /\ r_owed' = r_owed /\ r_wait' = r_wait /\ age' = age /\ acts' = acts
      BY <1>1, Zenon DEF ctlVars
    <2>2. CtlType' /\ FlagsExact'
      BY <1>1, <2>1, Zenon DEF CtlInv, CtlType, FlagsExact
    <2>3. BankSpaced' /\ GroupSpaced' /\ RefSpaced' /\ FawExact'
      BY <1>1, <2>1, Zenon DEF CtlInv, BankSpaced, GroupSpaced, RefSpaced, FawExact
    <2>4. HitExact' /\ OwnInv'
      BY <1>1, <2>1, ZenonT(30) DEF CtlInv, RowInv, HitExact, OwnInv, Oldest
    <2>5. PreInv' /\ ClosedInv'
      BY <1>1, <2>1, Zenon DEF CtlInv, RowInv, PreInv, ClosedInv, Oldest
    <2>6. ActInv'
      <3> SUFFICES ASSUME NEW b \in Bank, Activates(b)'
          PROVE  (/\ ~bank[b].open /\ t.act[b] = 0 /\ t.actg[grp(b)] = 0 /\ faw[4] >= T_FAW
                  /\ r_st = "RUN"
                  /\ \E k \in DOMAIN q : Oldest(k, b) /\ q[k].line.r = act[1].row)'
          BY Zenon DEF ActInv
      <3>1. Activates(b)
        BY <2>1, Zenon DEF Activates
      <3>2. PICK k \in DOMAIN q : Oldest(k, b) /\ q[k].line.r = act[1].row
        BY <1>1, <3>1, Zenon DEF CtlInv, RowInv, ActInv
      <3>3. k \in DOMAIN q' /\ Oldest(k, b)' /\ q'[k].line.r = act'[1].row
        BY <2>1, <3>2, Zenon DEF Oldest
      <3>4. /\ ~bank[b].open /\ t.act[b] = 0 /\ t.actg[grp(b)] = 0 /\ faw[4] >= T_FAW
            /\ r_st = "RUN"
        BY <1>1, <3>1, Zenon DEF CtlInv, RowInv, ActInv
      <3> QED BY <2>1, <3>3, <3>4, Zenon
    <2> QED BY <2>2, <2>3, <2>4, <2>5, <2>6, Zenon DEF CtlInv, RowInv
  <1>2. ASSUME CtlInv, NEW rq \in RequestChoices, Tick(rq)  PROVE CtlInv'
    <2>1. RowInv'
      BY <1>2, HitStep, OwnStep, PreStep, ActStep, ClosedStep, Zenon DEF RowInv
    <2> QED BY <1>2, <2>1, TypeStep, FlagsStep, BankSpacedStep, GroupSpacedStep, RefSpacedStep,
                FawStep, Zenon DEF CtlInv
  <1> QED BY <1>1, <1>2, Zenon DEF CtlNext

\* The controller's invariant holds in every state, for every number of banks and rows, every
\* queue and every timing: counters, flags, history, owners and row commands agree
\* (ddr4_ctl.v:340-425).
THEOREM ControllerInvariant == CtlSpec => []CtlInv
  BY InvInit, InvStep, PTL DEF CtlSpec

-----------------------------------------------------------------------------
\* ---- what follows

\* The invariant gives the queue's picture of the banks.
LEMMA RowsFollow == CtlInv => RowsExact
  <1> SUFFICES ASSUME CtlInv  PROVE RowsExact
    BY Zenon
  <1>1. CtlType /\ HitExact /\ PreInv /\ ActInv
    BY Zenon DEF CtlInv, RowInv
  <1>2. ASSUME q # <<>>, h.hit, pre = <<h_b>>  PROVE FALSE
    <2>1. q \in Seq(Item)
      BY <1>1, Zenon DEF CtlType
    <2>2. 1 \in DOMAIN q /\ q[1] \in Item
      BY <1>2, <2>1
    <2>3. h_b \in Bank /\ bank[h_b].row = q[1].line.r /\ q[1].line.b = h_b
      BY <1>1, <1>2, <2>2, Zenon DEF h_b, h, Item, Line, HitExact
    <2>4. PICK k \in DOMAIN q : Oldest(k, h_b) /\ q[k].line.r # bank[h_b].row
      BY <1>1, <1>2, <2>3, Zenon DEF PreInv
    <2>5. 1 \in 1..k-1
      BY <2>1, <2>3, <2>4
    <2> QED BY <2>3, <2>4, <2>5, Zenon DEF Oldest
  <1>3. ASSUME act # <<>>
        PROVE  Queued(act[1].b) # {} /\ owner(act[1].b).r = act[1].row
    <2>1. act[1].b \in Bank /\ Activates(act[1].b)
      BY <1>1, <1>3 DEF CtlType, Opt, Activates
    <2>2. PICK k \in DOMAIN q : Oldest(k, act[1].b) /\ q[k].line.r = act[1].row
      BY <1>1, <2>1, Zenon DEF ActInv
    <2>3. Queued(act[1].b) # {} /\ Min(Queued(act[1].b)) = k
      BY <1>1, <2>2, OldestIs, Zenon
    <2> QED BY <2>2, <2>3, Zenon DEF owner
  <1>4. ASSUME pre # <<>>
        PROVE  Queued(pre[1]) # {} /\ owner(pre[1]).r # bank[pre[1]].row
    <2>1. pre[1] \in Bank /\ pre = <<pre[1]>>
      BY <1>1, <1>4 DEF CtlType, Opt
    <2>2. PICK k \in DOMAIN q : Oldest(k, pre[1]) /\ q[k].line.r # bank[pre[1]].row
      BY <1>1, <2>1, Zenon DEF PreInv
    <2>3. Queued(pre[1]) # {} /\ Min(Queued(pre[1])) = k
      BY <1>1, <2>2, OldestIs, Zenon
    <2> QED BY <2>2, <2>3, Zenon DEF owner
  <1> QED BY <1>1, <1>2, <1>3, <1>4, Zenon DEF RowsExact, HeadRowKept, OwnerObeyed

\* The queue's picture of the banks is exact, the head's row is kept and a stale owner neither
\* opens a wrong row nor closes a wanted one (ddr4_ctl.v:135-137, 242-260).
THEOREM RowsAlwaysExact == CtlSpec => []RowsExact
  BY ControllerInvariant, RowsFollow, PTL

\* Three numbers make a set of three at most.
LEMMA ThreeAtMost ==
  ASSUME NEW x, NEW y, NEW w, NEW S, S \subseteq {x, y, w}
  PROVE  Cardinality(S) < 4
  <1>1. IsFiniteSet({x}) /\ Cardinality({x}) = 1
    BY FS_Singleton, Zenon
  <1>2. IsFiniteSet({x} \cup {y}) /\ Cardinality({x} \cup {y}) \in {1, 2}
    BY <1>1, FS_AddElement
  <1>3. IsFiniteSet(({x} \cup {y}) \cup {w}) /\ Cardinality(({x} \cup {y}) \cup {w}) \in {1, 2, 3}
    BY <1>2, FS_AddElement
  <1>4. S \in SUBSET (({x} \cup {y}) \cup {w})
    BY Zenon
  <1>5. IsFiniteSet(S) /\ Cardinality(S) <= Cardinality(({x} \cup {y}) \cup {w})
    BY <1>3, <1>4, FS_Subset, Zenon
  <1>6. Cardinality(S) \in Nat
    BY <1>5, FS_CardinalityType, Zenon
  <1> QED BY <1>3, <1>5, <1>6

\* The invariant makes every ACT legal.
LEMMA ActsLegal == CtlInv => ActLegal
  <1> SUFFICES ASSUME CtlInv, NEW b \in Bank, Activates(b)
      PROVE  /\ ~bank[b].open /\ pre # <<b>>
             /\ age.pre[b] >= T_RP /\ age.ref >= T_RFC /\ age.zq >= T_ZQCS
             /\ \A c \in Bank : age.act[c] >= (IF grp(c) = grp(b) THEN T_RRD_L ELSE T_RRD_S)
             /\ Cardinality(acts) < 4
      BY Zenon DEF ActLegal
  <1>1. CtlType /\ BankSpaced /\ GroupSpaced /\ FawExact /\ ActInv /\ PreInv
    BY Zenon DEF CtlInv, RowInv
  <1>2. ~bank[b].open /\ t.act[b] = 0 /\ t.actg[grp(b)] = 0 /\ faw[4] >= T_FAW
    BY <1>1, Zenon DEF ActInv
  <1>3. pre # <<b>>
    BY <1>1, <1>2, Zenon DEF PreInv
  <1>4. age.pre[b] >= T_RP /\ age.ref >= T_RFC /\ age.zq >= T_ZQCS
    <2>1. age.pre[b] \in Nat /\ age.ref \in Nat /\ age.zq \in Nat
      BY <1>1, Zenon DEF CtlType
    <2>2. age.pre[b] + 0 >= T_RP /\ age.ref + 0 >= T_RFC /\ age.zq + 0 >= T_ZQCS
      BY <1>1, <1>2, Zenon DEF BankSpaced
    <2> QED BY <2>1, <2>2
  <1>5. ASSUME NEW c \in Bank
        PROVE  age.act[c] >= (IF grp(c) = grp(b) THEN T_RRD_L ELSE T_RRD_S)
    <2>1. age.act[c] \in Nat /\ grp(b) \in Group
      BY <1>1, GroupOf, Zenon DEF CtlType
    <2>2. age.act[c] + 0 >= (IF grp(c) = grp(b) THEN T_RRD_L ELSE T_RRD_S)
      BY <1>1, <1>2, <2>1, Zenon DEF GroupSpaced
    <2> QED BY <2>1, <2>2, Timings
  <1>6. acts \subseteq {faw[1] + 1, faw[2] + 1, faw[3] + 1}
    <2>1. faw \in [1..4 -> 0..T_FAW] /\ acts \subseteq 1..T_FAW-1
      BY <1>1, Zenon DEF CtlType
    <2>2. ASSUME NEW n \in acts  PROVE n \in {faw[1] + 1, faw[2] + 1, faw[3] + 1}
      <3>1. PICK k \in 1..4 : n = faw[k] + 1
        BY <1>1, Zenon DEF FawExact
      <3>2. k # 4
        BY <1>2, <2>1, <3>1, Timings
      <3>3. k = 1 \/ k = 2 \/ k = 3
        BY <3>2
      <3> QED BY <3>1, <3>3, Zenon
    <2> QED BY <2>2, Zenon
  <1>7. Cardinality(acts) < 4
    BY <1>6, ThreeAtMost, Zenon
  <1> QED BY <1>2, <1>3, <1>4, <1>5, <1>7, SMTT(30)

\* The invariant makes every PRE and PREA legal.
LEMMA PresLegal == CtlInv => PreLegal
  <1> SUFFICES ASSUME CtlInv, NEW b \in Bank, Closes(b), bank[b].open
      PROVE  age.act[b] >= T_RAS /\ age.rd[b] >= T_RTP /\ age.wr[b] >= T_WRP /\ ~CasTo(b)
      BY Zenon DEF PreLegal
  <1>1. CtlType /\ BankSpaced /\ FlagsExact /\ HitExact /\ PreInv
    BY Zenon DEF CtlInv, RowInv
  <1>2. t.pre[b] = 0
    <2>1. CASE pre = <<b>>
      BY <1>1, <2>1, Zenon DEF PreInv
    <2>2. CASE prea_go
      BY <1>1, <2>2, Zenon DEF prea_go, FlagsExact
    <2> QED BY <2>1, <2>2, Zenon DEF Closes
  <1>3. ~CasTo(b)
    BY <1>1, CasKept, Zenon DEF CasTo
  <1>4. age.act[b] \in Nat /\ age.rd[b] \in Nat /\ age.wr[b] \in Nat
    BY <1>1, Zenon DEF CtlType
  <1>5. age.act[b] + 0 >= T_RAS /\ age.rd[b] + 0 >= T_RTP /\ age.wr[b] + 0 >= T_WRP
    BY <1>1, <1>2, Zenon DEF BankSpaced
  <1> QED BY <1>3, <1>4, <1>5

\* The invariant makes every CAS legal.
LEMMA CasesLegal == CtlInv => CasLegal
  <1> SUFFICES ASSUME CtlInv, rd_cas \/ wr_cas
      PROVE  /\ bank[h_b] = [open |-> TRUE, row |-> h.line.r] /\ age.act[h_b] >= T_RCD
             /\ \A c \in Bank :
                  /\ grp(c) = h_g => age.rd[c] >= T_CCD_L /\ age.wr[c] >= T_CCD_L
                  /\ rd_cas => age.wr[c] >= (IF grp(c) = h_g THEN T_WTR_L ELSE T_WTR_S)
                  /\ wr_cas => age.rd[c] >= T_RTW
      BY Zenon DEF CasLegal
  <1>1. CtlType /\ BankSpaced /\ GroupSpaced /\ FlagsExact /\ HitExact /\ PreInv
    BY Zenon DEF CtlInv, RowInv
  <1>2. h_b \in Bank /\ h_g \in Group
    BY <1>1, CasFree, GroupOf, Zenon DEF h_g
  <1>3. t.rcd[h_b] = 0 /\ t.casg[h_g] = 0 /\ (rd_cas => t.rdg[h_g] = 0) /\ (wr_cas => t.wr = 0)
    BY <1>1, <1>2, CasFree, Zenon DEF FlagsExact
  <1>4. bank[h_b] = [open |-> TRUE, row |-> h.line.r]
    <2>1. bank[h_b].open /\ bank[h_b].row = h.line.r
      BY <1>1, CasKept, Zenon DEF h
    <2>2. bank[h_b] \in [open : BOOLEAN, row : Rows]
      BY <1>1, <1>2, Zenon DEF CtlType
    <2>3. bank[h_b].open = TRUE
      BY <2>1, <2>2, Zenon
    <2>4. bank[h_b] = [open |-> bank[h_b].open, row |-> bank[h_b].row]
      BY <2>2, Zenon
    <2> QED BY <2>1, <2>3, <2>4, Zenon
  <1>5. age.act[h_b] >= T_RCD
    <2>1. age.act[h_b] \in Nat /\ age.act[h_b] + 0 >= T_RCD
      BY <1>1, <1>2, <1>3, Zenon DEF CtlType, BankSpaced
    <2> QED BY <2>1
  <1>6. ASSUME NEW c \in Bank
        PROVE  /\ grp(c) = h_g => age.rd[c] >= T_CCD_L /\ age.wr[c] >= T_CCD_L
               /\ rd_cas => age.wr[c] >= (IF grp(c) = h_g THEN T_WTR_L ELSE T_WTR_S)
               /\ wr_cas => age.rd[c] >= T_RTW
    <2>1. age.rd[c] \in Nat /\ age.wr[c] \in Nat
      BY <1>1, Zenon DEF CtlType
    <2>2. /\ age.wr[c] + t.rdg[h_g] >= (IF grp(c) = h_g THEN T_WTR_L ELSE T_WTR_S)
          /\ grp(c) = h_g => age.rd[c] + t.casg[h_g] >= T_CCD_L /\ age.wr[c] + t.casg[h_g] >= T_CCD_L
          /\ age.rd[c] + t.wr >= T_RTW
      BY <1>1, <1>2, Zenon DEF GroupSpaced
    <2> QED BY <1>3, <2>1, <2>2, Timings
  <1> QED BY <1>4, <1>5, <1>6, Zenon

\* A refresh and a ZQ calibration find the banks closed and the row stage idle, never one
\* another; a calibration finds its refresh over, and a refresh the last PRE tRP past
\* (ddr4_ctl.v:226-228).
LEMMA RefreshLegal == CtlInv => RefLegal
  <1> SUFFICES ASSUME CtlInv  PROVE RefLegal
    BY Zenon
  <1>1. CtlType /\ RefSpaced
    BY Zenon DEF CtlInv
  <1>2. age.ref \in Nat /\ age.zq \in Nat
    BY <1>1, Zenon DEF CtlType
  <1>3. ASSUME ref_go  PROVE RefLegal
    <2>1. /\ r_st = "CLOSE" /\ pre = <<>> /\ act = <<>> /\ lp >= T_RPREF
          /\ \A b \in Bank : ~bank[b].open
      BY <1>1, <1>3, RefreshAlone, Zenon
    <2>2. ~prea_go /\ ~zq_go
      BY <1>1, <1>3, <2>1, RefreshAlone, Zenon
    <2>3. ASSUME NEW b \in Bank  PROVE age.pre[b] >= T_RPREF
      <3>1. age.pre[b] \in Nat /\ lp \in Nat /\ age.pre[b] >= lp
        BY <1>1, Timings DEF CtlType, RefSpaced
      <3> QED BY <2>1, <3>1, Timings
    <2> QED BY <2>1, <2>2, <2>3, Zenon DEF RefLegal, any_open
  <1>4. ASSUME zq_go  PROVE RefLegal
    <2>1. r_st = "ZQW" /\ pre = <<>> /\ act = <<>> /\ r_wait = 0
      BY <1>1, <1>4, RefreshAlone, Zenon
    <2>2. ~prea_go /\ ~ref_go
      BY <1>1, <2>1, RefreshAlone, Zenon
    <2>3. /\ age.ref + 0 >= T_RFC /\ age.zq + 0 >= T_ZQCS
          /\ \A b \in Bank : ~bank[b].open
      BY <1>1, <2>1, Zenon DEF RefSpaced
    <2>4. age.ref >= T_RFC /\ age.zq >= T_ZQCS
      BY <1>2, <2>3
    <2> QED BY <2>1, <2>2, <2>3, <2>4, Zenon DEF RefLegal, any_open
  <1> QED BY <1>3, <1>4, Zenon DEF RefLegal

\* Every command the controller issues keeps the DRAM's spacings, whatever the requests and
\* however late a refresh: tRCD, tRAS, tRP, tRTP, tWR, tRRD, tFAW, tCCD, tWTR, tRTW, tRFC and
\* tZQCS before an ACT and tRFC before a ZQCS (ddr4_ctl.v:76-92, 435-438).
THEOREM CommandsSpaced == CtlSpec => []TimingSafe
  <1>1. CtlInv => TimingSafe
    BY ActsLegal, PresLegal, CasesLegal, RefreshLegal, Zenon DEF TimingSafe
  <1> QED BY <1>1, ControllerInvariant, PTL

\* A REF finds the last one and its ZQ calibration over as long as refreshes keep up: what the
\* controller does not time itself (ddr4_ctl.v:226) its pace does (:439).
THEOREM SpacingReducesToPace == CtlSpec /\ [](RefreshesOwed /\ RefreshPrompt) => []RefreshSpaced
  <1>1. CtlInit => PacedInv
    <2> SUFFICES ASSUME CtlInit  PROVE PacedInv
      BY Zenon
    <2>1. r_st = "RUN" /\ age.ref = T_RFC /\ age.zq = T_ZQCS
      BY FarReaches, Zenon DEF CtlInit
    <2> QED BY <2>1, Timings DEF PacedInv
  <1>2. ASSUME CtlInv, PacedInv, UNCHANGED ctlVars  PROVE PacedInv'
    <2>1. /\ r_st' = r_st /\ r_owed' = r_owed /\ r_cnt' = r_cnt /\ r_wait' = r_wait /\ age' = age
      BY <1>2, Zenon DEF ctlVars
    <2> QED BY <1>2, <2>1, Zenon DEF PacedInv
  <1>3. CtlInv /\ PacedInv /\ (RefreshesOwed /\ RefreshPrompt) /\ [CtlNext]_ctlVars => PacedInv'
    BY <1>2, PacedStep, Zenon DEF CtlNext
  <1>4. ASSUME CtlInv, PacedInv  PROVE RefreshSpaced
    <2>1. age.ref \in Nat /\ age.zq \in Nat /\ r_owed \in Nat
      BY <1>4, Zenon DEF CtlInv, CtlType
    <2>2. ref_go => r_owed # 0
      BY <1>4, <2>1 DEF PacedInv, ref_go
    <2> QED BY <1>4, <2>1, <2>2, Timings DEF PacedInv, RefreshSpaced
  <1>5. CtlInv /\ PacedInv => RefreshSpaced
    BY <1>4, Zenon
  <1> QED BY <1>1, <1>3, <1>5, ControllerInvariant, PTL DEF CtlSpec
=============================================================================
