---------------------------- MODULE LineMemSteps ----------------------------
(* What one cycle does to each part of the line port and of its neighbours (PortLine,     *)
(* LineMem), as lemmas: where a queued request was before, when a buffer is taken, filled *)
(* and freed, how far an id's beats move.  From them, in the second half, a cycle keeps   *)
(* every conjunct of LineInv (LineMem), and LineInv holds at the start.                   *)
EXTENDS LineMem, TLAPS

USE DEF None

\* Every non-empty set of naturals has a least element: the buffer a scan of the free buffers
\* picks.  A hypothesis here; proved, with the theory of well-founded orders, in LineMemProofs.
Leasts == \A T : T \subseteq Nat /\ T # {} => Min(T) \in T

\* An element of a queue is of the queue's type.
LEMMA Element ==
  ASSUME NEW S, NEW c \in Seq(S), NEW k \in DOMAIN c
  PROVE  c[k] \in S
OBVIOUS

\* A queue that may lose its head and gain one element: where each element of it was.
LEMMA QueueStep ==
  ASSUME NEW S, NEW c \in Seq(S), NEW drop \in BOOLEAN, drop => c # <<>>,
         NEW e, e = <<>> \/ \E x \in S : e = <<x>>
  PROVE  LET n == (IF drop THEN Tail(c) ELSE c) \o e
             d == IF drop THEN 1 ELSE 0
         IN  /\ n \in Seq(S)
             /\ Len(n) = Len(c) - d + Len(e)
             /\ \A k \in DOMAIN n :
                  \/ k + d \in DOMAIN c /\ n[k] = c[k + d]
                  \/ e # <<>> /\ n[k] = e[1] /\ k = Len(c) - d + 1
<1> DEFINE b == IF drop THEN Tail(c) ELSE c
           d == IF drop THEN 1 ELSE 0
<1>1. b \in Seq(S) /\ Len(b) = Len(c) - d /\ \A k \in 1..Len(b) : b[k] = c[k + d] /\ k + d \in DOMAIN c
  OBVIOUS
<1>2. e \in Seq(S) /\ Len(e) \in {0, 1} /\ (e # <<>> => Len(e) = 1)
  <2>1. CASE e = <<>>
    BY <2>1
  <2>2. CASE \E x \in S : e = <<x>>
    <3>1. PICK x \in S : e = <<x>>
      BY <2>2, Zenon
    <3> QED BY <3>1
  <2> QED BY <2>1, <2>2, Zenon
<1>0. d \in {0, 1} /\ Len(c) \in Nat /\ Len(b) \in Nat
  BY <1>1
<1> HIDE DEF b, d
<1>3. /\ b \o e \in Seq(S) /\ Len(b \o e) = Len(b) + Len(e)
      /\ \A k \in 1..Len(b) + Len(e) : (b \o e)[k] = IF k <= Len(b) THEN b[k] ELSE e[k - Len(b)]
  BY <1>1, <1>2, SMTT(40)
<1>4. ASSUME NEW k \in 1..Len(b \o e)
      PROVE  \/ k + d \in DOMAIN c /\ (b \o e)[k] = c[k + d]
             \/ e # <<>> /\ (b \o e)[k] = e[1] /\ k = Len(c) - d + 1
  <2>1. CASE k <= Len(b)
    <3>1. k \in 1..Len(b)
      BY <1>0, <2>1
    <3>2. (b \o e)[k] = b[k]
      BY <1>3, <2>1, Zenon
    <3> QED BY <1>1, <3>1, <3>2, Zenon
  <2>2. CASE k > Len(b)
    <3>1. Len(e) = 1 /\ k = Len(b) + 1
      BY <1>0, <1>2, <1>3, <2>2, SMTT(40)
    <3>2. e # <<>> /\ (b \o e)[k] = e[1]
      BY <1>0, <1>3, <3>1
    <3> QED BY <1>1, <3>1, <3>2, Zenon
  <2> QED BY <1>0, <2>1, <2>2
<1>5. DOMAIN (b \o e) = 1..Len(b \o e)
  BY <1>3
<1> QED BY <1>1, <1>3, <1>4, <1>5, Zenon DEF b, d

\* What a cycle's inputs are: the request presented, and a burst of the oldest read and of the
\* oldest write, or none.
LEMMA InputFacts ==
  ASSUME NEW i \in Inputs
  PROVE  /\ i.q = pq /\ i.r_ready \in BOOLEAN /\ i.w_ready \in BOOLEAN /\ i.rq_ready \in BOOLEAN
         /\ i.rd = None \/ (ctlr # <<>> /\ i.rd = <<[j |-> ctlr[1].buf, half |-> half.r, tok |-> ctlr[1].tok]>>)
         /\ i.wr = None \/ (ctlw # <<>> /\ i.wr = <<[j |-> ctlw[1].buf, half |-> half.w, tok |-> ctlw[1].tok]>>)
<1>1. PICK a \in Ready(rq # None), b \in Ready(r # None), c \in Ready(w_valid),
           d \in Bursts(ctlr, half.r), e \in Bursts(ctlw, half.w) :
        i = [q |-> pq, rq_ready |-> a, r_ready |-> b, w_ready |-> c, rd |-> d, wr |-> e]
  BY DEF Inputs
<1>2. a \in BOOLEAN /\ b \in BOOLEAN /\ c \in BOOLEAN
  BY Zenon DEF Ready
<1>3. i.rd = d /\ i.wr = e /\ i.q = pq /\ i.r_ready = b /\ i.w_ready = c /\ i.rq_ready = a
  BY <1>1, Zenon
<1>4. d = None \/ (ctlr # <<>> /\ d = <<[j |-> ctlr[1].buf, half |-> half.r, tok |-> ctlr[1].tok]>>)
  BY Zenon DEF Bursts
<1>5. e = None \/ (ctlw # <<>> /\ e = <<[j |-> ctlw[1].buf, half |-> half.w, tok |-> ctlw[1].tok]>>)
  BY Zenon DEF Bursts
<1> QED BY <1>2, <1>3, <1>4, <1>5, Zenon

\* The buffers a request takes and a done frees
LEMMA Picked ==
  ASSUME Leasts
  PROVE  /\ r_frees # {} => Min(r_frees) \in RBuf /\ ~rbuf[Min(r_frees)].busy
         /\ w_frees # {} => Min(w_frees) \in WBuf /\ ~wbuf[Min(w_frees)].busy
         /\ w_valid => w_dj \in WBuf /\ wbuf[w_dj].done
<1>1. r_frees \subseteq Nat /\ w_frees \subseteq Nat /\ w_dones \subseteq Nat
  BY BuffersAssumption DEF r_frees, w_frees, w_dones, RBuf, WBuf
<1>2. r_frees # {} => Min(r_frees) \in r_frees
  BY <1>1, Zenon DEF Leasts
<1>3. w_frees # {} => Min(w_frees) \in w_frees
  BY <1>1, Zenon DEF Leasts
<1>4. w_dones # {} => Min(w_dones) \in w_dones
  BY <1>1, Zenon DEF Leasts
<1> QED BY <1>2, <1>3, <1>4, Zenon DEF r_frees, w_frees, w_dones, w_valid, w_dj

\* What a register with a valid bit, and a queue, hold when they hold something
LEMMA Held ==
  ASSUME LineType
  PROVE  /\ rq # None => rq[1].we \in BOOLEAN /\ rq[1].buf \in (IF rq[1].we THEN WBuf ELSE RBuf)
         /\ r # None => r[1].id \in Ids /\ r[1].beat \in 0..3 /\ r[1].tok \in {0, 1}
         /\ pq # None => pq[1].id \in Ids /\ pq[1].we \in BOOLEAN /\ pq[1].tok \in {0, 1}
         /\ w_last # None => w_last[1] \in WBuf /\ w_last = <<w_last[1]>>
         /\ ctlr # <<>> => 1 \in DOMAIN ctlr /\ ctlr[1].buf \in RBuf /\ ctlr[1].tok \in {0, 1}
         /\ ctlw # <<>> => 1 \in DOMAIN ctlw /\ ctlw[1].buf \in WBuf /\ ctlw[1].tok \in {0, 1}
         /\ sq # <<>> => 1 \in DOMAIN sq /\ sq[1] \in RBuf
<1>1. rq # None => rq[1].we \in BOOLEAN /\ rq[1].buf \in (IF rq[1].we THEN WBuf ELSE RBuf)
  <2>1. ASSUME NEW j \in RBuf, rq = <<[we |-> FALSE, buf |-> j]>>
        PROVE  rq[1].we = FALSE /\ rq[1].buf \in RBuf
    BY <2>1, Zenon
  <2>2. ASSUME NEW j \in WBuf, rq = <<[we |-> TRUE, buf |-> j]>>
        PROVE  rq[1].we = TRUE /\ rq[1].buf \in WBuf
    BY <2>2, Zenon
  <2> QED BY <2>1, <2>2, Zenon DEF LineType
<1>2. r # None => r[1].id \in Ids /\ r[1].beat \in 0..3 /\ r[1].tok \in {0, 1}
  BY DEF LineType
<1>3. pq # None => pq[1].id \in Ids /\ pq[1].we \in BOOLEAN /\ pq[1].tok \in {0, 1}
  BY DEF LineType
<1>4. w_last # None => w_last[1] \in WBuf /\ w_last = <<w_last[1]>>
  BY DEF LineType
<1>5. ctlr # <<>> => 1 \in DOMAIN ctlr /\ ctlr[1] \in [buf : RBuf, tok : {0, 1}]
  <2>1. ctlr \in Seq([buf : RBuf, tok : {0, 1}])
    BY Zenon DEF LineType
  <2>2. ctlr # <<>> => 1 \in 1..Len(ctlr) /\ 1 \in DOMAIN ctlr
    BY <2>1
  <2> QED BY <2>1, <2>2, Element, Zenon
<1>6. ctlw # <<>> => 1 \in DOMAIN ctlw /\ ctlw[1] \in [buf : WBuf, tok : {0, 1}]
  <2>1. ctlw \in Seq([buf : WBuf, tok : {0, 1}])
    BY Zenon DEF LineType
  <2>2. ctlw # <<>> => 1 \in 1..Len(ctlw) /\ 1 \in DOMAIN ctlw
    BY <2>1
  <2> QED BY <2>1, <2>2, Element, Zenon
<1>7. sq # <<>> => 1 \in DOMAIN sq /\ sq[1] \in RBuf
  <2>1. sq \in Seq(RBuf)
    BY Zenon DEF LineType
  <2> QED BY <2>1
<1> QED BY <1>1, <1>2, <1>3, <1>4, <1>5, <1>6, <1>7, Zenon

\* The beat counter's two bits wrap after the fourth beat.
LEMMA Beats == \A b \in 0..3 : (b + 1) % 4 = (IF b = 3 THEN 0 ELSE b + 1) /\ (b + 1) % 4 \in 0..3
OBVIOUS

RTake(i, j) == TakeRead(i) /\ j = Min(r_frees)
REnd(i, j) == s_end(i) /\ j = s_j
WTake(i, j) == TakeWrite(i) /\ j = Min(w_frees)
WRet(i, j) == w_ret(i) /\ j = w_dj
RBufs == [busy : BOOLEAN, got : SUBSET Halves, id : Ids, lo : {0, 1}, hi : {0, 1}]
WBufs == [busy : BOOLEAN, done : BOOLEAN, id : Ids, tok : {0, 1}]

\* A cycle's effect on a read buffer.  It is taken, written and freed by different requests: a
\* buffer that is taken was free, one that data lands in waits for it, one that ends streams.
RStep(i, j, n) ==
  /\ n \in RBufs
  /\ n.id = IF RTake(i, j) THEN pq[1].id ELSE rbuf[j].id
  /\ n.busy = IF RTake(i, j) THEN TRUE ELSE IF REnd(i, j) THEN FALSE ELSE rbuf[j].busy
  /\ n.got = IF RTake(i, j) THEN {} ELSE IF Lands(i, j) THEN rbuf[j].got \cup {half.r} ELSE rbuf[j].got
  /\ n.lo = IF Lands(i, j) /\ half.r = 0 THEN ctlr[1].tok ELSE rbuf[j].lo
  /\ n.hi = IF Lands(i, j) /\ half.r = 1 THEN ctlr[1].tok ELSE rbuf[j].hi
  /\ RTake(i, j) => pq # None /\ ~pq[1].we /\ ~rbuf[j].busy /\ ~Lands(i, j) /\ ~REnd(i, j)
  /\ Lands(i, j) => i.rd # None /\ ctlr # <<>> /\ j = ctlr[1].buf /\ rbuf[j].busy /\ ~REnd(i, j)
  /\ REnd(i, j) => sq # <<>> /\ j = sq[1] /\ rbuf[j].busy

\* What a cycle does to a read buffer: it is taken, filled or freed, or keeps what it holds.
LEMMA ReadBuffer ==
  ASSUME Leasts, LineInv, NEW i \in Inputs, NEW j \in RBuf
  PROVE  RStep(i, j, rbufNext(i, j))
<1> USE DEF RStep
<1>1. /\ i.q = pq
      /\ i.rd = None \/ (ctlr # <<>> /\ i.rd = <<[j |-> ctlr[1].buf, half |-> half.r, tok |-> ctlr[1].tok]>>)
  BY InputFacts, Zenon
<1>2. RTake(i, j) => pq # None /\ ~pq[1].we /\ ~rbuf[j].busy
  BY <1>1, Picked, Zenon DEF RTake, TakeRead, q_ready, Frees
<1>3. Lands(i, j) => i.rd # None /\ ctlr # <<>> /\ j = ctlr[1].buf /\ i.rd[1].half = half.r /\ i.rd[1].tok = ctlr[1].tok
  BY <1>1 DEF Lands
<1>4. ctlr # <<>> => 1 \in DOMAIN ctlr /\ ctlr[1].buf \in RBuf /\ ctlr[1].tok \in {0, 1}
  BY Held, Zenon DEF LineInv
<1>5. sq # <<>> => 1 \in DOMAIN sq /\ sq[1] \in RBuf
  BY Held, Zenon DEF LineInv
<1>6. Lands(i, j) => rbuf[j].busy /\ ~REnd(i, j)
  <2>1. ctlr # <<>> => rbuf[ctlr[1].buf].busy
    BY <1>4, Zenon DEF LineInv, ReadsPlaced
  <2>2. ctlr # <<>> /\ sq # <<>> => sq[1] # ctlr[1].buf
    BY <1>4, <1>5, Zenon DEF LineInv, ReadsPlaced
  <2> QED BY <1>3, <2>1, <2>2, Zenon DEF REnd, s_end, s_load, s_on, s_j
<1>7. REnd(i, j) => sq # <<>> /\ j = sq[1] /\ rbuf[j].busy
  BY <1>5, Zenon DEF LineInv, StreamPlaced, REnd, s_end, s_load, s_on, s_j
<1>8. rbuf[j] \in RBufs /\ half.r \in {0, 1}
  BY Zenon DEF LineInv, LineType, RBufs
<1>9. RTake(i, j) => pq[1].id \in Ids
  BY <1>2 DEF LineInv, LineType
<1>10. CASE RTake(i, j)
  <2>1. rbufNext(i, j) = [rbuf[j] EXCEPT !.busy = TRUE, !.got = {}, !.id = pq[1].id]
    BY <1>1, <1>2, <1>6, <1>7, <1>10, Zenon DEF rbufNext, RTake, REnd
  <2> QED BY <1>2, <1>6, <1>7, <1>8, <1>9, <1>10, <2>1, Zenon DEF RBufs, Halves
<1>11. CASE ~RTake(i, j) /\ Lands(i, j) /\ half.r = 0
  <2>1. rbufNext(i, j) = [rbuf[j] EXCEPT !.got = @ \cup {0}, !.lo = ctlr[1].tok]
    BY <1>3, <1>6, <1>11, Zenon DEF rbufNext, RTake, REnd
  <2>2. rbuf[j].got \cup {0} \in SUBSET Halves
    BY <1>8, Zenon DEF RBufs, Halves
  <2>3. /\ rbufNext(i, j).got = rbuf[j].got \cup {half.r} /\ rbufNext(i, j).lo = ctlr[1].tok
        /\ rbufNext(i, j).hi = rbuf[j].hi /\ rbufNext(i, j).id = rbuf[j].id
        /\ rbufNext(i, j).busy = rbuf[j].busy /\ rbufNext(i, j) \in RBufs
    BY <1>3, <1>4, <1>8, <1>11, <2>1, <2>2, Zenon DEF RBufs
  <2> QED BY <1>3, <1>6, <1>7, <1>11, <2>3
<1>12. CASE ~RTake(i, j) /\ Lands(i, j) /\ half.r = 1
  <2>1. rbufNext(i, j) = [rbuf[j] EXCEPT !.got = @ \cup {1}, !.hi = ctlr[1].tok]
    <3>1. i.rd[1].half # 0
      BY <1>3, <1>12
    <3> QED BY <1>3, <1>6, <1>12, <3>1, Zenon DEF rbufNext, RTake, REnd
  <2>2. rbuf[j].got \cup {1} \in SUBSET Halves
    BY <1>8, Zenon DEF RBufs, Halves
  <2>3. /\ rbufNext(i, j).got = rbuf[j].got \cup {half.r} /\ rbufNext(i, j).hi = ctlr[1].tok
        /\ rbufNext(i, j).lo = rbuf[j].lo /\ rbufNext(i, j).id = rbuf[j].id
        /\ rbufNext(i, j).busy = rbuf[j].busy /\ rbufNext(i, j) \in RBufs
    BY <1>3, <1>4, <1>8, <1>12, <2>1, <2>2, Zenon DEF RBufs
  <2> QED BY <1>3, <1>6, <1>7, <1>12, <2>3
<1>13. CASE ~RTake(i, j) /\ ~Lands(i, j) /\ REnd(i, j)
  <2>1. rbufNext(i, j) = [rbuf[j] EXCEPT !.busy = FALSE]
    BY <1>13, Zenon DEF rbufNext, RTake, REnd
  <2>2. /\ rbufNext(i, j).got = rbuf[j].got /\ rbufNext(i, j).hi = rbuf[j].hi
        /\ rbufNext(i, j).lo = rbuf[j].lo /\ rbufNext(i, j).id = rbuf[j].id
        /\ rbufNext(i, j).busy = FALSE /\ rbufNext(i, j) \in RBufs
    BY <1>8, <2>1, Zenon DEF RBufs
  <2> QED BY <1>7, <1>13, <2>2, Zenon
<1>14. CASE ~RTake(i, j) /\ ~Lands(i, j) /\ ~REnd(i, j)
  <2>1. rbufNext(i, j) = rbuf[j]
    BY <1>14, Zenon DEF rbufNext, RTake, REnd
  <2> QED BY <1>8, <1>14, <2>1, Zenon
<1> QED BY <1>8, <1>10, <1>11, <1>12, <1>13, <1>14, Zenon

\* A cycle's effect on a write buffer
WStep(i, j, n) ==
  /\ n \in WBufs
  /\ n.id = IF WTake(i, j) THEN pq[1].id ELSE wbuf[j].id
  /\ n.tok = IF WTake(i, j) THEN pq[1].tok ELSE wbuf[j].tok
  /\ n.busy = IF WTake(i, j) THEN TRUE ELSE IF WRet(i, j) THEN FALSE ELSE wbuf[j].busy
  /\ n.done = IF WRet(i, j) THEN FALSE ELSE IF w_last = <<j>> THEN TRUE ELSE wbuf[j].done
  /\ WTake(i, j) => pq # None /\ pq[1].we /\ ~wbuf[j].busy /\ ~wbuf[j].done /\ w_last # <<j>> /\ ~WRet(i, j)
  /\ WRet(i, j) => wbuf[j].done /\ wbuf[j].busy /\ w_last # <<j>>

\* What a cycle does to a write buffer: it is taken, sent or freed, or keeps what it holds.
LEMMA WriteBuffer ==
  ASSUME Leasts, LineInv, NEW i \in Inputs, NEW j \in WBuf
  PROVE  WStep(i, j, wbufNext(i, j))
<1> USE DEF WStep
<1>1. i.q = pq
  BY InputFacts, Zenon
<1>2. WTake(i, j) => pq # None /\ pq[1].we /\ ~wbuf[j].busy
  BY <1>1, Picked, Zenon DEF WTake, TakeWrite, q_ready, Frees
<1>3. WRet(i, j) => wbuf[j].done
  BY Picked, Zenon DEF WRet, w_ret
<1>4. wbuf[j].done => wbuf[j].busy /\ w_last # <<j>>
  BY DEF LineInv, WritesPlaced
<1>5. w_last = <<j>> => wbuf[j].busy
  BY DEF LineInv, WritesPlaced
<1>6. wbuf[j] \in WBufs
  BY Zenon DEF LineInv, LineType, WBufs
<1>7. WTake(i, j) => pq[1].id \in Ids /\ pq[1].tok \in {0, 1}
  BY <1>2 DEF LineInv, LineType
<1>8. CASE WTake(i, j)
  <2>1. ~wbuf[j].done /\ w_last # <<j>> /\ ~WRet(i, j)
    BY <1>2, <1>3, <1>4, <1>5, <1>8, Zenon
  <2>2. wbufNext(i, j) = [wbuf[j] EXCEPT !.busy = TRUE, !.id = pq[1].id, !.tok = pq[1].tok]
    BY <1>1, <1>8, <2>1, Zenon DEF wbufNext, WTake, WRet
  <2> QED BY <1>2, <1>6, <1>7, <1>8, <2>1, <2>2, Zenon DEF WBufs
<1>9. CASE ~WTake(i, j) /\ WRet(i, j)
  <2>1. wbufNext(i, j) = [wbuf[j] EXCEPT !.done = FALSE, !.busy = FALSE]
    BY <1>3, <1>4, <1>9, Zenon DEF wbufNext, WTake, WRet
  <2> QED BY <1>3, <1>4, <1>6, <1>9, <2>1, Zenon DEF WBufs
<1>10. CASE ~WTake(i, j) /\ ~WRet(i, j) /\ w_last = <<j>>
  <2>1. wbufNext(i, j) = [wbuf[j] EXCEPT !.done = TRUE]
    BY <1>10, Zenon DEF wbufNext, WTake, WRet
  <2> QED BY <1>6, <1>10, <2>1, Zenon DEF WBufs
<1>11. CASE ~WTake(i, j) /\ ~WRet(i, j) /\ w_last # <<j>>
  <2>1. wbufNext(i, j) = wbuf[j]
    BY <1>11, Zenon DEF wbufNext, WTake, WRet
  <2> QED BY <1>6, <1>11, <2>1, Zenon
<1> QED BY <1>8, <1>9, <1>10, <1>11, Zenon

Users == [st : {"idle", "rd", "wr"}, tok : {0, 1}, beat : 0..3]
Request == [id : Ids, we : BOOLEAN, tok : {0, 1}]
New(nq, x) == nq # None /\ nq # pq /\ nq[1].id = x

\* A request presented is the one that waited, or is new and of an idle id
LEMMA NewRequest ==
  ASSUME Leasts, LineInv, NEW i \in Inputs, NEW nq \in Presented(i)
  PROVE  /\ nq = None \/ \E x \in Request : nq = <<x>>
         /\ nq # None /\ nq = pq => ~TakeRead(i) /\ ~TakeWrite(i)
         /\ nq # None /\ nq # pq => nq[1] \in Request /\ user[nq[1].id].st = "idle"
<1>0. user \in [Ids -> Users] /\ (pq = None \/ \E x \in Request : pq = <<x>>)
  BY Zenon DEF LineInv, LineType, Users, Request
<1>1. pq # None => user[pq[1].id].st # "idle"
  BY DEF LineInv, OwnersExact
<1>2. CASE pq # None /\ ~(TakeRead(i) \/ TakeWrite(i))
  BY <1>0, <1>2 DEF Presented
<1>3. CASE nq = None
  BY <1>3, Zenon
<1>4. CASE ~(pq # None /\ ~(TakeRead(i) \/ TakeWrite(i))) /\ nq # None
  <2>1. PICK x \in Idle, we \in BOOLEAN : nq = <<[id |-> x, we |-> we, tok |-> 1 - user[x].tok]>>
    BY <1>4 DEF Presented
  <2>2. x \in Ids /\ user[x].st = "idle" /\ user[x].tok \in {0, 1}
    BY <1>0, Zenon DEF Idle, Users
  <2>3. nq[1] = [id |-> x, we |-> we, tok |-> 1 - user[x].tok] /\ nq[1].id = x
    BY <2>1, Zenon
  <2>4. nq[1] \in Request
    BY <2>2, <2>3 DEF Request
  <2>5. nq # pq
    BY <1>1, <1>4, <2>2, <2>3, Zenon
  <2> QED BY <2>1, <2>2, <2>3, <2>4, <2>5, Zenon
<1> QED BY <1>2, <1>3, <1>4, Zenon

\* A cycle's effect on what an id is owed: a beat moves on a reader, the done ends a writer, and
\* only an idle id asks.
LEMMA UserStep ==
  ASSUME Leasts, LineInv, NEW i \in Inputs, NEW nq \in Presented(i), NEW x \in Ids
  PROVE  LET n == UserNext(i, x, nq) IN
         /\ n \in Users
         /\ user[x].st = "rd" =>
              n = IF Given(i, x) THEN [st |-> IF r[1].beat = 3 THEN "idle" ELSE "rd", tok |-> user[x].tok,
                                       beat |-> (user[x].beat + 1) % 4]
                  ELSE user[x]
         /\ user[x].st = "wr" => n = IF Done(i, x) THEN [user[x] EXCEPT !.st = "idle"] ELSE user[x]
         /\ user[x].st = "idle" =>
              n = IF New(nq, x) THEN [st |-> IF nq[1].we THEN "wr" ELSE "rd", tok |-> nq[1].tok, beat |-> 0]
                  ELSE user[x]
<1>1. user[x] \in Users
  BY Zenon DEF LineInv, LineType, Users
<1>2. Given(i, x) => user[x].st = "rd"
  BY DEF Given, LineInv, StreamPlaced
<1>3. Done(i, x) => user[x].st = "wr"
  BY Picked DEF Done, w_ret, LineInv, WritesPlaced, OwnersExact
<1>4. New(nq, x) => user[x].st = "idle" /\ nq[1] \in Request
  BY NewRequest, Zenon DEF New
<1>5. CASE New(nq, x)
  <2>1. UserNext(i, x, nq) = [st |-> IF nq[1].we THEN "wr" ELSE "rd", tok |-> nq[1].tok, beat |-> 0]
    BY <1>5, Zenon DEF UserNext, New
  <2> QED BY <1>4, <1>5, <2>1 DEF Users, Request
<1>6. CASE ~New(nq, x) /\ Given(i, x)
  <2>1. UserNext(i, x, nq) = [user[x] EXCEPT !.st = IF r[1].beat = 3 THEN "idle" ELSE @, !.beat = (@ + 1) % 4]
    BY <1>6, Zenon DEF UserNext, New
  <2>2. (user[x].beat + 1) % 4 \in 0..3
    BY <1>1, Beats, Zenon DEF Users
  <2>4. UserNext(i, x, nq) = [st |-> IF r[1].beat = 3 THEN "idle" ELSE "rd", tok |-> user[x].tok,
                              beat |-> (user[x].beat + 1) % 4]
    BY <1>1, <1>2, <1>6, <2>1, Zenon DEF Users
  <2> QED BY <1>1, <1>2, <1>6, <2>2, <2>4 DEF Users
<1>7. CASE ~New(nq, x) /\ ~Given(i, x) /\ Done(i, x)
  <2>1. UserNext(i, x, nq) = [user[x] EXCEPT !.st = "idle"]
    BY <1>7, Zenon DEF UserNext, New
  <2> QED BY <1>1, <1>3, <1>7, <2>1, Zenon DEF Users
<1>8. CASE ~New(nq, x) /\ ~Given(i, x) /\ ~Done(i, x)
  <2>1. UserNext(i, x, nq) = user[x]
    BY <1>8, Zenon DEF UserNext, New
  <2> QED BY <1>1, <1>8, <2>1, Zenon
<1> QED BY <1>5, <1>6, <1>7, <1>8, Zenon

Reads == [buf : RBuf, tok : {0, 1}]
Writes == [buf : WBuf, tok : {0, 1}]
Drops(i) == i.rd # None /\ half.r = 1       \* the oldest read's second burst comes
DropsW(i) == i.wr # None /\ half.w = 1
Enters(i, we) == rq_go(i) /\ rq[1].we = we
Num(b) == IF b THEN 1 ELSE 0

\* Where each read in the controller was
LEMMA ReadQueue ==
  ASSUME Leasts, LineInv, NEW i \in Inputs
  PROVE  LET n == Left(ctlr, i.rd) \o Entered(i, FALSE) IN
         /\ n \in Seq(Reads)
         /\ Len(n) >= Len(ctlr) - Num(Drops(i))
         /\ \A k \in DOMAIN n :
              \/ k + Num(Drops(i)) \in DOMAIN ctlr /\ n[k] = ctlr[k + Num(Drops(i))]
              \/ /\ Enters(i, FALSE) /\ rq # None /\ rq[1].buf \in RBuf
                 /\ n[k].buf = rq[1].buf /\ n[k].tok = user[rbuf[rq[1].buf].id].tok
                 /\ k = Len(ctlr) - Num(Drops(i)) + 1
<1> DEFINE e == Entered(i, FALSE)
<1>1. ctlr \in Seq(Reads)
  BY Zenon DEF LineInv, LineType, Reads
<1>2. i.rd = None \/ (ctlr # <<>> /\ i.rd # None /\ i.rd[1].half = half.r)
  BY InputFacts
<1>3. Drops(i) \in BOOLEAN /\ (Drops(i) => ctlr # <<>>)
  BY <1>2, Zenon DEF Drops
<1>4. Left(ctlr, i.rd) = IF Drops(i) THEN Tail(ctlr) ELSE ctlr
  BY <1>2, Zenon DEF Left, Drops
<1>5. Enters(i, FALSE) => /\ rq # None /\ rq[1].buf \in RBuf
                          /\ rbuf[rq[1].buf].id \in Ids /\ user[rbuf[rq[1].buf].id].tok \in {0, 1}
  <2>1. Enters(i, FALSE) => rq # None /\ rq[1].buf \in RBuf
    BY Held, Zenon DEF Enters, rq_go, LineInv
  <2> QED BY <2>1, Zenon DEF LineInv, LineType
<1>6. Enters(i, FALSE) => e = <<[buf |-> rq[1].buf, tok |-> user[rbuf[rq[1].buf].id].tok]>>
  BY Zenon DEF Enters, Entered, Asked
<1>7. ~Enters(i, FALSE) => e = <<>>
  BY Zenon DEF Enters, Entered
<1> HIDE DEF e
<1> DEFINE y == [buf |-> rq[1].buf, tok |-> user[rbuf[rq[1].buf].id].tok]
<1>y. /\ y.buf = rq[1].buf /\ y.tok = user[rbuf[rq[1].buf].id].tok
      /\ Enters(i, FALSE) => y \in Reads
  BY <1>5, Zenon DEF Reads
<1> HIDE DEF y
<1>z. IF Enters(i, FALSE) THEN e = <<y>> ELSE e = <<>>
  BY <1>6, <1>7, Zenon DEF y
<1>8. e = <<>> \/ \E x \in Reads : e = <<x>>
  BY <1>y, <1>z, Zenon
<1>w. e # <<>> => Enters(i, FALSE) /\ e[1] = y
  <2>1. CASE Enters(i, FALSE)
    <3>1. e = <<y>>
      BY <1>z, <2>1, Zenon
    <3>2. <<y>>[1] = y
      BY Zenon
    <3> QED BY <2>1, <3>1, <3>2, Zenon
  <2>2. CASE ~Enters(i, FALSE)
    BY <1>z, <2>2, Zenon
  <2> QED BY <2>1, <2>2, Zenon
<1>9. e # <<>> => /\ Enters(i, FALSE) /\ e[1].buf = rq[1].buf
                  /\ e[1].tok = user[rbuf[rq[1].buf].id].tok
  BY <1>y, <1>w, Zenon
<1>10. Len(e) \in Nat
  BY <1>8
<1> DEFINE n == (IF Drops(i) THEN Tail(ctlr) ELSE ctlr) \o e
           d == IF Drops(i) THEN 1 ELSE 0
<1>11. /\ n \in Seq(Reads) /\ Len(n) = Len(ctlr) - d + Len(e)
       /\ \A k \in DOMAIN n : \/ k + d \in DOMAIN ctlr /\ n[k] = ctlr[k + d]
                              \/ e # <<>> /\ n[k] = e[1] /\ k = Len(ctlr) - d + 1
  BY <1>1, <1>3, <1>8, QueueStep
<1>12. d = Num(Drops(i)) /\ Len(ctlr) \in Nat /\ d \in {0, 1}
  BY <1>1 DEF Num
<1>13. Left(ctlr, i.rd) \o Entered(i, FALSE) = n
  BY <1>4, Zenon DEF e
<1> HIDE DEF n, d
<1>14. Len(n) >= Len(ctlr) - Num(Drops(i))
  BY <1>10, <1>11, <1>12
<1> QED BY <1>5, <1>9, <1>11, <1>12, <1>13, <1>14, Zenon

\* Where each write in the controller was
LEMMA WriteQueue ==
  ASSUME Leasts, LineInv, NEW i \in Inputs
  PROVE  LET n == Left(ctlw, i.wr) \o Entered(i, TRUE) IN
         /\ n \in Seq(Writes)
         /\ Len(n) >= Len(ctlw) - Num(DropsW(i))
         /\ \A k \in DOMAIN n :
              \/ k + Num(DropsW(i)) \in DOMAIN ctlw /\ n[k] = ctlw[k + Num(DropsW(i))]
              \/ /\ Enters(i, TRUE) /\ rq # None /\ rq[1].buf \in WBuf
                 /\ n[k].buf = rq[1].buf /\ n[k].tok = wbuf[rq[1].buf].tok
                 /\ k = Len(ctlw) - Num(DropsW(i)) + 1
<1> DEFINE e == Entered(i, TRUE)
<1>1. ctlw \in Seq(Writes)
  BY Zenon DEF LineInv, LineType, Writes
<1>2. i.wr = None \/ (ctlw # <<>> /\ i.wr # None /\ i.wr[1].half = half.w)
  BY InputFacts
<1>3. DropsW(i) \in BOOLEAN /\ (DropsW(i) => ctlw # <<>>)
  BY <1>2, Zenon DEF DropsW
<1>4. Left(ctlw, i.wr) = IF DropsW(i) THEN Tail(ctlw) ELSE ctlw
  BY <1>2, Zenon DEF Left, DropsW
<1>5. Enters(i, TRUE) => rq # None /\ rq[1].buf \in WBuf /\ wbuf[rq[1].buf].tok \in {0, 1}
  <2>1. Enters(i, TRUE) => rq # None /\ rq[1].buf \in WBuf
    BY Held, Zenon DEF Enters, rq_go, LineInv
  <2> QED BY <2>1, Zenon DEF LineInv, LineType
<1>6. Enters(i, TRUE) => e = <<[buf |-> rq[1].buf, tok |-> wbuf[rq[1].buf].tok]>>
  BY Zenon DEF Enters, Entered, Asked
<1>7. ~Enters(i, TRUE) => e = <<>>
  BY Zenon DEF Enters, Entered
<1> HIDE DEF e
<1> DEFINE y == [buf |-> rq[1].buf, tok |-> wbuf[rq[1].buf].tok]
<1>y. /\ y.buf = rq[1].buf /\ y.tok = wbuf[rq[1].buf].tok
      /\ Enters(i, TRUE) => y \in Writes
  BY <1>5, Zenon DEF Writes
<1> HIDE DEF y
<1>z. IF Enters(i, TRUE) THEN e = <<y>> ELSE e = <<>>
  BY <1>6, <1>7, Zenon DEF y
<1>8. e = <<>> \/ \E x \in Writes : e = <<x>>
  BY <1>y, <1>z, Zenon
<1>w. e # <<>> => Enters(i, TRUE) /\ e[1] = y
  <2>1. CASE Enters(i, TRUE)
    <3>1. e = <<y>>
      BY <1>z, <2>1, Zenon
    <3>2. <<y>>[1] = y
      BY Zenon
    <3> QED BY <2>1, <3>1, <3>2, Zenon
  <2>2. CASE ~Enters(i, TRUE)
    BY <1>z, <2>2, Zenon
  <2> QED BY <2>1, <2>2, Zenon
<1>9. e # <<>> => Enters(i, TRUE) /\ e[1].buf = rq[1].buf /\ e[1].tok = wbuf[rq[1].buf].tok
  BY <1>y, <1>w, Zenon
<1>10. Len(e) \in Nat
  BY <1>8
<1> DEFINE n == (IF DropsW(i) THEN Tail(ctlw) ELSE ctlw) \o e
           d == IF DropsW(i) THEN 1 ELSE 0
<1>11. /\ n \in Seq(Writes) /\ Len(n) = Len(ctlw) - d + Len(e)
       /\ \A k \in DOMAIN n : \/ k + d \in DOMAIN ctlw /\ n[k] = ctlw[k + d]
                              \/ e # <<>> /\ n[k] = e[1] /\ k = Len(ctlw) - d + 1
  BY <1>1, <1>3, <1>8, QueueStep
<1>12. d = Num(DropsW(i)) /\ Len(ctlw) \in Nat /\ d \in {0, 1}
  BY <1>1 DEF Num
<1>13. Left(ctlw, i.wr) \o Entered(i, TRUE) = n
  BY <1>4, Zenon DEF e
<1> HIDE DEF n, d
<1>14. Len(n) >= Len(ctlw) - Num(DropsW(i))
  BY <1>10, <1>11, <1>12
<1> QED BY <1>5, <1>9, <1>11, <1>12, <1>13, <1>14, Zenon

\* Where each buffer in the stream was
LEMMA StreamQueue ==
  ASSUME Leasts, LineInv, NEW i \in Inputs
  PROVE  /\ sqNext(i) \in Seq(RBuf)
         /\ Len(sqNext(i)) >= Len(sq) - Num(s_end(i))
         /\ \A k \in DOMAIN sqNext(i) :
              \/ k + Num(s_end(i)) \in DOMAIN sq /\ sqNext(i)[k] = sq[k + Num(s_end(i))]
              \/ Drops(i) /\ ctlr # <<>> /\ sqNext(i)[k] = ctlr[1].buf /\ k = Len(sq) - Num(s_end(i)) + 1
<1> DEFINE e == IF i.rd # None /\ i.rd[1].half = 1 THEN <<i.rd[1].j>> ELSE <<>>
<1>1. sq \in Seq(RBuf)
  BY Zenon DEF LineInv, LineType
<1>2. i.rd = None \/ (ctlr # <<>> /\ i.rd # None /\ i.rd[1].half = half.r /\ i.rd[1].j = ctlr[1].buf)
  BY InputFacts
<1>3. s_end(i) \in BOOLEAN /\ (s_end(i) => sq # <<>>)
  BY Zenon DEF s_end, s_load, s_on
<1>4. ctlr # <<>> => ctlr[1].buf \in RBuf
  BY Held, Zenon DEF LineInv
<1>5. e = IF Drops(i) THEN <<ctlr[1].buf>> ELSE <<>>
  BY <1>2, Zenon DEF Drops
<1>6. Drops(i) => ctlr # <<>>
  BY <1>2, Zenon DEF Drops
<1> HIDE DEF e
<1>7. e = <<>> \/ \E x \in RBuf : e = <<x>>
  BY <1>4, <1>5, <1>6, Zenon
<1>8. e # <<>> => Drops(i) /\ ctlr # <<>> /\ e[1] = ctlr[1].buf
  BY <1>5, <1>6, Zenon
<1>9. Len(e) \in Nat
  BY <1>7
<1> DEFINE n == (IF s_end(i) THEN Tail(sq) ELSE sq) \o e
           d == IF s_end(i) THEN 1 ELSE 0
<1>10. /\ n \in Seq(RBuf) /\ Len(n) = Len(sq) - d + Len(e)
       /\ \A k \in DOMAIN n : \/ k + d \in DOMAIN sq /\ n[k] = sq[k + d]
                              \/ e # <<>> /\ n[k] = e[1] /\ k = Len(sq) - d + 1
  BY <1>1, <1>3, <1>7, QueueStep
<1>11. d = Num(s_end(i)) /\ Len(sq) \in Nat /\ d \in {0, 1}
  BY <1>1 DEF Num
<1>12. sqNext(i) = n
  BY Zenon DEF sqNext, e
<1> HIDE DEF n, d
<1> QED BY <1>8, <1>9, <1>10, <1>11, <1>12

\* The next state, variable by variable
LEMMA Next ==
  ASSUME Leasts, LineInv, NEW i \in Inputs, NEW nq \in Presented(i), MemTick(i, nq)
  PROVE  /\ rbuf' = [j \in RBuf |-> rbufNext(i, j)] /\ wbuf' = [j \in WBuf |-> wbufNext(i, j)]
         /\ user' = [x \in Ids |-> UserNext(i, x, nq)] /\ pq' = nq
         /\ sq' = sqNext(i) /\ ctlr' = Left(ctlr, i.rd) \o Entered(i, FALSE)
         /\ ctlw' = Left(ctlw, i.wr) \o Entered(i, TRUE)
         /\ s_beat' = IF s_load(i) THEN (s_beat + 1) % 4 ELSE s_beat
         /\ r' = IF s_load(i) THEN <<[id |-> rbuf[s_j].id, beat |-> s_beat, tok |-> s_half]>>
                 ELSE IF i.r_ready THEN None ELSE r
         /\ half' = [r |-> Flip(half.r, i.rd), w |-> Flip(half.w, i.wr)]
         /\ wd' = (IF i.wr = None THEN None ELSE <<wbuf[i.wr[1].j].tok>>)
         /\ wexp' = (IF i.wr = None THEN None ELSE <<i.wr[1].tok>>)
         /\ w_last' = (IF i.wr # None /\ i.wr[1].half = 1 THEN <<i.wr[1].j>> ELSE None)
         /\ rq' = IF TakeRead(i) THEN <<[we |-> FALSE, buf |-> Min(r_frees)]>>
                  ELSE IF TakeWrite(i) THEN <<[we |-> TRUE, buf |-> Min(w_frees)]>>
                  ELSE IF rq_go(i) THEN None ELSE rq
BY Zenon DEF MemTick, PortTick

\* The controller's half-way marks
LEMMA Halfway ==
  ASSUME Leasts, LineInv, NEW i \in Inputs, NEW nq \in Presented(i), MemTick(i, nq)
  PROVE  /\ half'.r = IF i.rd # None THEN 1 - half.r ELSE half.r
         /\ half'.w = IF i.wr # None THEN 1 - half.w ELSE half.w
         /\ half.r \in {0, 1} /\ half.w \in {0, 1} /\ half' \in [r : {0, 1}, w : {0, 1}]
<1>1. half' = [r |-> Flip(half.r, i.rd), w |-> Flip(half.w, i.wr)]
  BY Next, Zenon
<1>2. half.r \in {0, 1} /\ half.w \in {0, 1}
  BY Zenon DEF LineInv, LineType
<1> QED BY <1>1, <1>2 DEF Flip

\* The output register: the head of the stream's next beat, or what it held
LEMMA Output ==
  ASSUME Leasts, LineInv, NEW i \in Inputs, NEW nq \in Presented(i), MemTick(i, nq)
  PROVE  /\ s_load(i) => /\ sq # <<>> /\ sq[1] \in RBuf /\ rbuf[sq[1]].busy
                         /\ r' # None /\ r'[1].id = rbuf[sq[1]].id /\ r'[1].beat = s_beat
                         /\ r'[1].tok = user[rbuf[sq[1]].id].tok
                         /\ s_beat' = IF s_beat = 3 THEN 0 ELSE s_beat + 1
                         /\ r = None \/ i.r_ready
         /\ ~s_load(i) => /\ s_beat' = s_beat
                          /\ r' = (IF i.r_ready THEN None ELSE r)
         /\ s_end(i) <=> s_load(i) /\ s_beat = 3
         /\ s_load(i) \in BOOLEAN /\ s_beat \in 0..3
<1>1. s_load(i) => sq # <<>> /\ sq[1] \in RBuf /\ 1 \in DOMAIN sq
  BY Held, Zenon DEF s_load, s_on, LineInv
<1>2. s_load(i) => /\ rbuf[sq[1]].busy /\ rbuf[sq[1]].lo = user[rbuf[sq[1]].id].tok
                   /\ rbuf[sq[1]].hi = user[rbuf[sq[1]].id].tok
  BY <1>1, Zenon DEF LineInv, StreamPlaced
<1>3. s_beat \in 0..3
  BY Zenon DEF LineInv, LineType
<1>4. s_load(i) => s_half = user[rbuf[sq[1]].id].tok
  BY <1>2, Zenon DEF s_half, s_j
<1>5. s_load(i) => r' = <<[id |-> rbuf[sq[1]].id, beat |-> s_beat, tok |-> s_half]>>
  BY Next, Zenon DEF s_j
<1>6. s_load(i) => r' # None /\ r'[1] = [id |-> rbuf[sq[1]].id, beat |-> s_beat, tok |-> s_half]
  BY <1>5
<1>7. s_load(i) => s_beat' = IF s_beat = 3 THEN 0 ELSE s_beat + 1
  BY <1>3, Next, Beats, Zenon
<1>8. s_load(i) => r = None \/ i.r_ready
  BY Zenon DEF s_load
<1>9. ~s_load(i) => s_beat' = s_beat /\ r' = (IF i.r_ready THEN None ELSE r)
  BY Next, Zenon
<1>10. (s_end(i) <=> s_load(i) /\ s_beat = 3) /\ s_load(i) \in BOOLEAN
  BY Zenon DEF s_end, s_load
<1> QED BY <1>1, <1>2, <1>3, <1>4, <1>6, <1>7, <1>8, <1>9, <1>10

\* A read in a buffer stays a read; its id's beat moves only when the register holds it
LEMMA Reader ==
  ASSUME Leasts, LineInv, NEW i \in Inputs, NEW nq \in Presented(i), MemTick(i, nq), NEW j \in RBuf, rbuf[j].busy
  PROVE  LET x == rbuf[j].id IN
         /\ x \in Ids /\ user[x].st = "rd"
         /\ Given(i, x) => /\ sq # <<>> /\ j = sq[1] /\ s_beat > 0 /\ user[x].beat = s_beat - 1
                           /\ user'[x] = [st |-> "rd", tok |-> user[x].tok, beat |-> s_beat]
         /\ ~Given(i, x) => user'[x] = user[x]
<1> DEFINE x == rbuf[j].id
<1>1. x \in Ids /\ user[x].st = "rd"
  BY Zenon DEF LineInv, LineType, OwnersExact
<1>2. user'[x] = UserNext(i, x, nq)
  <2>1. user' = [y \in Ids |-> UserNext(i, y, nq)]
    BY Next, Zenon
  <2> HIDE DEF x
  <2> QED BY <1>1, <2>1, Zenon
<1>3. ~Given(i, x) => user'[x] = user[x]
  BY <1>1, <1>2, UserStep, Zenon
<1>4. ASSUME Given(i, x)
      PROVE  /\ sq # <<>> /\ j = sq[1] /\ s_beat > 0 /\ user[x].beat = s_beat - 1
             /\ user'[x] = [st |-> "rd", tok |-> user[x].tok, beat |-> s_beat]
  <2>1. r # None /\ r[1].id = x
    BY <1>4, Zenon DEF Given
  <2>2. s_beat # 0 /\ rbuf[sq[1]].id = x /\ r[1].beat = s_beat - 1 /\ user[x].beat = r[1].beat
    BY <2>1 DEF LineInv, StreamPlaced
  <2>3. s_beat \in 0..3
    BY Zenon DEF LineInv, LineType
  <2>4. sq # <<>> /\ sq[1] \in RBuf /\ rbuf[sq[1]].busy
    <3>1. sq # <<>>
      BY <2>2, <2>3 DEF LineInv, StreamPlaced
    <3>2. 1 \in DOMAIN sq /\ sq[1] \in RBuf
      BY <3>1, Held, Zenon DEF LineInv
    <3> QED BY <3>1, <3>2, Zenon DEF LineInv, StreamPlaced
  <2>5. j = sq[1]
    BY <2>2, <2>4, Zenon DEF LineInv, OwnersExact
  <2>6. user[x].beat = s_beat - 1 /\ (user[x].beat + 1) % 4 = s_beat /\ r[1].beat # 3
    BY <2>2, <2>3, Beats
  <2>7. user'[x] = [st |-> IF r[1].beat = 3 THEN "idle" ELSE "rd", tok |-> user[x].tok,
                    beat |-> (user[x].beat + 1) % 4]
    BY <1>1, <1>2, <1>4, UserStep, Zenon
  <2> QED BY <2>2, <2>3, <2>4, <2>5, <2>6, <2>7, SMTT(40)
<1> QED BY <1>1, <1>3, <1>4, Zenon

\* The buffers after a cycle
LEMMA Buffers ==
  ASSUME Leasts, LineInv, NEW i \in Inputs, NEW nq \in Presented(i), MemTick(i, nq)
  PROVE  /\ \A j \in RBuf : RStep(i, j, rbuf'[j])
         /\ \A j \in WBuf : WStep(i, j, wbuf'[j])
<1>1. rbuf' = [j \in RBuf |-> rbufNext(i, j)] /\ wbuf' = [j \in WBuf |-> wbufNext(i, j)]
  BY Next, Zenon
<1>2. \A j \in RBuf : rbuf'[j] = rbufNext(i, j)
  BY <1>1, Zenon
<1>3. \A j \in WBuf : wbuf'[j] = wbufNext(i, j)
  BY <1>1, Zenon
<1> QED BY <1>2, <1>3, ReadBuffer, WriteBuffer, Zenon

\* A write in a buffer stays a write until its done is taken
LEMMA Writer ==
  ASSUME Leasts, LineInv, NEW i \in Inputs, NEW nq \in Presented(i), MemTick(i, nq), NEW j \in WBuf, wbuf[j].busy
  PROVE  LET x == wbuf[j].id IN
         /\ x \in Ids /\ user[x].st = "wr"
         /\ ~WRet(i, j) => user'[x] = user[x]
<1> DEFINE x == wbuf[j].id
<1>1. x \in Ids /\ user[x].st = "wr"
  BY Zenon DEF LineInv, LineType, OwnersExact
<1>2. user'[x] = UserNext(i, x, nq)
  <2>1. user' = [y \in Ids |-> UserNext(i, y, nq)]
    BY Next, Zenon
  <2> HIDE DEF x
  <2> QED BY <1>1, <2>1, Zenon
<1>3. ~Done(i, x) => user'[x] = user[x]
  BY <1>1, <1>2, UserStep, Zenon
<1>4. Done(i, x) => WRet(i, j)
  <2>1. SUFFICES ASSUME Done(i, x) PROVE WRet(i, j)
    BY Zenon
  <2>2. w_dj \in WBuf /\ wbuf[w_dj].done /\ wbuf[w_dj].id = x /\ w_ret(i)
    BY <2>1, Picked, Zenon DEF Done, w_ret
  <2>3. wbuf[w_dj].busy
    BY <2>2, Zenon DEF LineInv, WritesPlaced
  <2>4. w_dj = j
    BY <2>2, <2>3, Zenon DEF LineInv, OwnersExact
  <2> QED BY <2>2, <2>4, Zenon DEF WRet
<1> QED BY <1>1, <1>3, <1>4, Zenon

\* The id of the request presented keeps its place; that of a new one was idle
LEMMA Asker ==
  ASSUME Leasts, LineInv, NEW i \in Inputs, NEW nq \in Presented(i), MemTick(i, nq)
  PROVE  /\ pq # None => pq[1].id \in Ids /\ user'[pq[1].id] = user[pq[1].id]
         /\ nq # None /\ nq # pq =>
              /\ nq[1].id \in Ids /\ user[nq[1].id].st = "idle"
              /\ user'[nq[1].id] = [st |-> IF nq[1].we THEN "wr" ELSE "rd", tok |-> nq[1].tok, beat |-> 0]
<1>0. user' = [y \in Ids |-> UserNext(i, y, nq)]
  BY Next, Zenon
<1>1. ASSUME pq # None
      PROVE  pq[1].id \in Ids /\ user'[pq[1].id] = user[pq[1].id]
  <2> DEFINE x == pq[1].id
  <2>1. x \in Ids /\ pq[1].we \in BOOLEAN
    BY <1>1, Held, Zenon DEF LineInv
  <2>2. /\ user[x].st = IF pq[1].we THEN "wr" ELSE "rd"
        /\ r # None => r[1].id # x
        /\ \A j \in WBuf : wbuf[j].busy => wbuf[j].id # x
    BY <1>1 DEF LineInv, OwnersExact
  <2>3. ~Given(i, x)
    BY <2>2, Zenon DEF Given
  <2>4. ~Done(i, x)
    BY <2>2, Picked, Zenon DEF Done, w_ret, LineInv, WritesPlaced
  <2>5. UserNext(i, x, nq) = user[x]
    <3>1. user[x].st = "rd" \/ user[x].st = "wr"
      BY <2>2, Zenon
    <3> HIDE DEF x
    <3> QED BY <2>1, <2>3, <2>4, <3>1, UserStep, Zenon
  <2> HIDE DEF x
  <2>6. user'[x] = user[x]
    BY <1>0, <2>1, <2>5, Zenon
  <2> QED BY <2>1, <2>6, Zenon DEF x
<1>2. ASSUME nq # None, nq # pq
      PROVE  /\ nq[1].id \in Ids /\ user[nq[1].id].st = "idle"
             /\ user'[nq[1].id] = [st |-> IF nq[1].we THEN "wr" ELSE "rd", tok |-> nq[1].tok, beat |-> 0]
  <2> DEFINE x == nq[1].id
  <2>1. x \in Ids /\ user[x].st = "idle"
    BY <1>2, NewRequest, Zenon DEF Request
  <2>2. New(nq, x)
    BY <1>2, Zenon DEF New
  <2>3. UserNext(i, x, nq) = [st |-> IF nq[1].we THEN "wr" ELSE "rd", tok |-> nq[1].tok, beat |-> 0]
    BY <2>1, <2>2, UserStep, Zenon
  <2> HIDE DEF x
  <2>4. user'[x] = UserNext(i, x, nq)
    BY <1>0, <2>1, Zenon
  <2> QED BY <2>1, <2>3, <2>4, Zenon DEF x
<1> QED BY <1>1, <1>2, Zenon
\* A read that does not stream yet: its id is owed what it was, and its buffer stays its own
LEMMA Waits ==
  ASSUME Leasts, LineInv, NEW i \in Inputs, NEW nq \in Presented(i), MemTick(i, nq),
         NEW j \in RBuf, rbuf[j].busy, \A k \in DOMAIN sq : sq[k] # j
  PROVE  /\ rbuf'[j].busy /\ rbuf'[j].id = rbuf[j].id /\ user'[rbuf[j].id] = user[rbuf[j].id]
         /\ Lands(i, j) => rbuf'[j].got = rbuf[j].got \cup {half.r}
         /\ ~Lands(i, j) => rbuf'[j].got = rbuf[j].got /\ rbuf'[j].lo = rbuf[j].lo
         /\ Lands(i, j) /\ half.r = 0 => rbuf'[j].lo = ctlr[1].tok
         /\ Lands(i, j) /\ half.r = 1 => rbuf'[j].hi = ctlr[1].tok /\ rbuf'[j].lo = rbuf[j].lo
<1>1. sq # <<>> => j # sq[1]
  BY Held, Zenon DEF LineInv
<1>2. ~Given(i, rbuf[j].id) /\ user'[rbuf[j].id] = user[rbuf[j].id]
  BY <1>1, Reader, Zenon
<1>3. RStep(i, j, rbuf'[j])
  BY Buffers, Zenon
<1>4. ~RTake(i, j) /\ ~REnd(i, j)
  BY <1>1, <1>3, Zenon DEF RStep
<1> QED BY <1>2, <1>3, <1>4 DEF RStep

\* Which read the burst of a cycle is for
LEMMA Landing ==
  ASSUME Leasts, LineInv, NEW i \in Inputs, NEW j \in RBuf
  PROVE  /\ Lands(i, j) <=> i.rd # None /\ j = ctlr[1].buf
         /\ i.rd # None => ctlr # <<>>
BY InputFacts DEF Lands
\* The oldest read of the stream: the beat its id is owed is the one the output register holds,
\* or, when that register is empty or is emptied, the one that comes next.
LEMMA Oldest ==
  ASSUME Leasts, LineInv, NEW i \in Inputs, NEW nq \in Presented(i), MemTick(i, nq), sq # <<>>
  PROVE  LET x == rbuf[sq[1]].id IN
         /\ sq[1] \in RBuf /\ rbuf[sq[1]].busy /\ x \in Ids
         /\ s_load(i) => user'[x] = [st |-> "rd", tok |-> user[x].tok, beat |-> s_beat]
         /\ ~s_load(i) => user'[x] = user[x] /\ r' = r /\ r # None
<1> DEFINE j == sq[1]
           x == rbuf[j].id
<1>1. 1 \in DOMAIN sq /\ j \in RBuf
  BY Held, Zenon DEF LineInv
<1>2. rbuf[j].busy /\ user[x].beat = (IF r # None /\ s_beat > 0 THEN s_beat - 1 ELSE s_beat)
  BY <1>1 DEF LineInv, StreamPlaced
<1>3. r # None /\ s_beat # 0 => x = r[1].id
  BY Zenon DEF LineInv, StreamPlaced
<1>4. s_beat \in 0..3
  BY Zenon DEF LineInv, LineType
<1>5. s_load(i) <=> r = None \/ i.r_ready
  BY Zenon DEF s_load, s_on
<1>6. Given(i, x) <=> i.r_ready /\ r # None /\ r[1].id = x
  BY Zenon DEF Given
<1>7. user[x] \in Users
  BY <1>1, Zenon DEF LineInv, LineType, Users
<1> HIDE DEF j, x
<1>8. /\ x \in Ids /\ user[x].st = "rd"
      /\ Given(i, x) => user'[x] = [st |-> "rd", tok |-> user[x].tok, beat |-> s_beat]
      /\ ~Given(i, x) => user'[x] = user[x]
  BY <1>1, <1>2, Reader, Zenon DEF x
<1>9. ASSUME s_load(i), ~Given(i, x)
      PROVE  user'[x] = [st |-> "rd", tok |-> user[x].tok, beat |-> s_beat]
  <2>1. user[x].beat = s_beat
    BY <1>2, <1>3, <1>4, <1>5, <1>6, <1>9
  <2> QED BY <1>7, <1>8, <1>9, <2>1, Zenon DEF Users
<1>10. ASSUME ~s_load(i)
       PROVE  user'[x] = user[x] /\ r' = r /\ r # None
  <2>1. r # None /\ ~i.r_ready
    BY <1>5, <1>10, Zenon
  <2>2. r' = r
    BY <1>10, <2>1, Output, Zenon
  <2> QED BY <1>6, <1>8, <2>1, <2>2, Zenon
<1> QED BY <1>1, <1>2, <1>8, <1>9, <1>10, Zenon DEF j, x
\* A write whose data has not all gone keeps its buffer and its data
LEMMA Keeps ==
  ASSUME Leasts, LineInv, NEW i \in Inputs, NEW nq \in Presented(i), MemTick(i, nq),
         NEW j \in WBuf, wbuf[j].busy, ~wbuf[j].done, w_last # <<j>>
  PROVE  wbuf'[j].busy /\ ~wbuf'[j].done /\ wbuf'[j].tok = wbuf[j].tok
<1>1. WStep(i, j, wbuf'[j])
  BY Buffers, Zenon
<1>2. ~WTake(i, j) /\ ~WRet(i, j)
  BY <1>1, Zenon DEF WStep
<1> QED BY <1>1, <1>2, Zenon DEF WStep

-----------------------------------------------------------------------------
\* ---- the types, the ids' buffers, and the reads before they stream

\* A cycle keeps the types.
LEMMA TypeStep ==
  ASSUME Leasts, LineInv, NEW i \in Inputs, NEW nq \in Presented(i), MemTick(i, nq)
  PROVE  LineType'
<1>1. rbuf' \in [RBuf -> RBufs]
  <2>1. rbuf' = [j \in RBuf |-> rbufNext(i, j)]
    BY Next, Zenon
  <2>2. \A j \in RBuf : rbufNext(i, j) \in RBufs
    BY ReadBuffer, Zenon DEF RStep
  <2> QED BY <2>1, <2>2, Zenon
<1>2. wbuf' \in [WBuf -> WBufs]
  <2>1. wbuf' = [j \in WBuf |-> wbufNext(i, j)]
    BY Next, Zenon
  <2>2. \A j \in WBuf : wbufNext(i, j) \in WBufs
    BY WriteBuffer, Zenon DEF WStep
  <2> QED BY <2>1, <2>2, Zenon
<1>3. \/ rq' = None
      \/ \E j \in RBuf : rq' = <<[we |-> FALSE, buf |-> j]>>
      \/ \E j \in WBuf : rq' = <<[we |-> TRUE, buf |-> j]>>
  <2>1. CASE TakeRead(i)
    <3>1. Min(r_frees) \in RBuf
      BY <2>1, Picked, Zenon DEF TakeRead, q_ready, Frees
    <3> QED BY <2>1, <3>1, Next, Zenon
  <2>2. CASE ~TakeRead(i) /\ TakeWrite(i)
    <3>1. Min(w_frees) \in WBuf
      BY <2>2, Picked, Zenon DEF TakeWrite, q_ready, Frees
    <3> QED BY <2>2, <3>1, Next, Zenon
  <2>3. CASE ~TakeRead(i) /\ ~TakeWrite(i)
    <3>1. rq' = None \/ rq' = rq
      BY <2>3, Next, Zenon
    <3> QED BY <3>1, Zenon DEF LineInv, LineType
  <2> QED BY <2>1, <2>2, <2>3, Zenon
<1>4. sq' \in Seq(RBuf) /\ ctlr' \in Seq(Reads) /\ ctlw' \in Seq(Writes)
  BY Next, StreamQueue, ReadQueue, WriteQueue, Zenon
<1>5. s_beat' \in 0..3
  BY Output
<1>6. r' = None \/ \E x \in [id : Ids, beat : 0..3, tok : {0, 1}] : r' = <<x>>
  <2>1. CASE s_load(i)
    <3>1. sq[1] \in RBuf /\ s_beat \in 0..3
      BY <2>1, Output, Zenon
    <3>2. rbuf[sq[1]].id \in Ids /\ s_half \in {0, 1}
      BY <3>1, Zenon DEF LineInv, LineType, s_half, s_j
    <3>3. [id |-> rbuf[sq[1]].id, beat |-> s_beat, tok |-> s_half] \in [id : Ids, beat : 0..3, tok : {0, 1}]
      BY <3>1, <3>2, Zenon
    <3>4. r' = <<[id |-> rbuf[sq[1]].id, beat |-> s_beat, tok |-> s_half]>>
      BY <2>1, Next, Zenon DEF s_j
    <3> QED BY <3>3, <3>4, Zenon
  <2>2. CASE ~s_load(i)
    <3>1. r' = None \/ r' = r
      BY <2>2, Next, Zenon
    <3> QED BY <3>1, Zenon DEF LineInv, LineType
  <2> QED BY <2>1, <2>2, Zenon
<1>7. w_last' = None \/ \E j \in WBuf : w_last' = <<j>>
  <2>1. i.wr # None => i.wr[1].j \in WBuf
    BY InputFacts, Held DEF LineInv
  <2>2. w_last' = None \/ (i.wr # None /\ w_last' = <<i.wr[1].j>>)
    BY Next, Zenon
  <2> QED BY <2>1, <2>2, Zenon
<1>8. pq' = None \/ \E x \in Request : pq' = <<x>>
  <2>1. pq' = nq
    BY Next, Zenon
  <2>2. nq = None \/ \E x \in Request : nq = <<x>>
    BY NewRequest, Zenon
  <2> QED BY <2>1, <2>2, Zenon
<1>9. user' \in [Ids -> Users]
  <2>1. user' = [x \in Ids |-> UserNext(i, x, nq)]
    BY Next, Zenon
  <2>2. \A x \in Ids : UserNext(i, x, nq) \in Users
    BY UserStep, Zenon
  <2> QED BY <2>1, <2>2, Zenon
<1>10. half' \in [r : {0, 1}, w : {0, 1}]
  BY Halfway, Zenon
<1> QED BY <1>1, <1>2, <1>3, <1>4, <1>5, <1>6, <1>7, <1>8, <1>9, <1>10, Zenon
        DEF LineType, RBufs, WBufs, Reads, Writes, Request, Users

\* Every buffer taken has an owner of its own
LEMMA OwnersStep ==
  ASSUME Leasts, LineInv, NEW i \in Inputs, NEW nq \in Presented(i), MemTick(i, nq)
  PROVE  OwnersExact'
<1>0. /\ \A j \in RBuf : RStep(i, j, rbuf'[j])
      /\ \A j \in WBuf : WStep(i, j, wbuf'[j])
  BY Buffers, Zenon
<1>1. ASSUME NEW j \in RBuf, rbuf'[j].busy
      PROVE  user'[rbuf'[j].id].st = "rd"
  <2>1. CASE RTake(i, j)
    <3>1. rbuf'[j].id = pq[1].id /\ pq # None /\ ~pq[1].we
      BY <1>0, <2>1, Zenon DEF RStep
    <3>2. user[pq[1].id].st = "rd"
      BY <3>1 DEF LineInv, OwnersExact
    <3> QED BY <3>1, <3>2, Asker, Zenon
  <2>2. CASE ~RTake(i, j)
    <3>1. rbuf'[j].id = rbuf[j].id /\ rbuf[j].busy
      BY <1>0, <1>1, <2>2, Zenon DEF RStep
    <3>2. user'[rbuf[j].id].st = "rd"
      <4>1. CASE Given(i, rbuf[j].id)
        <5>1. user'[rbuf[j].id] = [st |-> "rd", tok |-> user[rbuf[j].id].tok, beat |-> s_beat]
          BY <3>1, <4>1, Reader, Zenon
        <5> QED BY <5>1
      <4>2. CASE ~Given(i, rbuf[j].id)
        BY <3>1, <4>2, Reader, Zenon
      <4> QED BY <4>1, <4>2, Zenon
    <3> QED BY <3>1, <3>2, Zenon
  <2> QED BY <2>1, <2>2, Zenon
<1>2. ASSUME NEW j \in RBuf, NEW m \in RBuf, rbuf'[j].busy, rbuf'[m].busy, rbuf'[j].id = rbuf'[m].id
      PROVE  j = m
  <2>1. \A n \in RBuf : RTake(i, n) => rbuf'[n].id = pq[1].id /\ pq # None
    BY <1>0, Zenon DEF RStep
  <2>2. \A n \in RBuf : ~RTake(i, n) /\ rbuf'[n].busy => rbuf[n].busy /\ rbuf'[n].id = rbuf[n].id
    BY <1>0, Zenon DEF RStep
  <2>3. \A n \in RBuf : pq # None /\ rbuf[n].busy => rbuf[n].id # pq[1].id
    BY Zenon DEF LineInv, OwnersExact
  <2>4. RTake(i, j) /\ RTake(i, m) => j = m
    BY Zenon DEF RTake
  <2>5. ~RTake(i, j) /\ ~RTake(i, m) => j = m
    BY <1>2, <2>2 DEF LineInv, OwnersExact
  <2> QED BY <1>2, <2>1, <2>2, <2>3, <2>4, <2>5, Zenon
<1>3. ASSUME NEW j \in WBuf, wbuf'[j].busy
      PROVE  user'[wbuf'[j].id].st = "wr"
  <2>1. CASE WTake(i, j)
    <3>1. wbuf'[j].id = pq[1].id /\ pq # None /\ pq[1].we
      BY <1>0, <2>1, Zenon DEF WStep
    <3>2. user[pq[1].id].st = "wr"
      BY <3>1 DEF LineInv, OwnersExact
    <3> QED BY <3>1, <3>2, Asker, Zenon
  <2>2. CASE ~WTake(i, j)
    <3>1. wbuf'[j].id = wbuf[j].id /\ wbuf[j].busy /\ ~WRet(i, j)
      BY <1>0, <1>3, <2>2, Zenon DEF WStep
    <3> QED BY <3>1, Writer, Zenon
  <2> QED BY <2>1, <2>2, Zenon
<1>4. ASSUME NEW j \in WBuf, NEW m \in WBuf, wbuf'[j].busy, wbuf'[m].busy, wbuf'[j].id = wbuf'[m].id
      PROVE  j = m
  <2>1. \A n \in WBuf : WTake(i, n) => wbuf'[n].id = pq[1].id /\ pq # None
    BY <1>0, Zenon DEF WStep
  <2>2. \A n \in WBuf : ~WTake(i, n) /\ wbuf'[n].busy => wbuf[n].busy /\ wbuf'[n].id = wbuf[n].id
    BY <1>0, Zenon DEF WStep
  <2>3. \A n \in WBuf : pq # None /\ wbuf[n].busy => wbuf[n].id # pq[1].id
    BY Zenon DEF LineInv, OwnersExact
  <2>4. WTake(i, j) /\ WTake(i, m) => j = m
    BY Zenon DEF WTake
  <2>5. ~WTake(i, j) /\ ~WTake(i, m) => j = m
    BY <1>4, <2>2 DEF LineInv, OwnersExact
  <2> QED BY <1>4, <2>1, <2>2, <2>3, <2>4, <2>5, Zenon
<1>5. ASSUME pq' # None
      PROVE  /\ user'[pq'[1].id] = [st |-> IF pq'[1].we THEN "wr" ELSE "rd", tok |-> pq'[1].tok, beat |-> 0]
             /\ \A j \in RBuf : rbuf'[j].busy => rbuf'[j].id # pq'[1].id
             /\ \A j \in WBuf : wbuf'[j].busy => wbuf'[j].id # pq'[1].id
             /\ r' # None => r'[1].id # pq'[1].id
  <2>0. pq' = nq /\ nq # None
    BY <1>5, Next, Zenon
  <2>1. r' # None => \/ r # None /\ r' = r
                     \/ sq[1] \in RBuf /\ rbuf[sq[1]].busy /\ r'[1].id = rbuf[sq[1]].id
    BY Output, Zenon
  <2>2. CASE nq = pq
    <3>1. ~TakeRead(i) /\ ~TakeWrite(i)
      BY <2>0, <2>2, NewRequest, Zenon
    <3>2. user'[pq[1].id] = [st |-> IF pq[1].we THEN "wr" ELSE "rd", tok |-> pq[1].tok, beat |-> 0]
      BY <2>0, <2>2, Asker, Zenon DEF LineInv, OwnersExact
    <3>3. \A j \in RBuf : rbuf'[j].busy => rbuf[j].busy /\ rbuf'[j].id = rbuf[j].id
      BY <1>0, <3>1, Zenon DEF RStep, RTake
    <3>4. \A j \in WBuf : wbuf'[j].busy => wbuf[j].busy /\ wbuf'[j].id = wbuf[j].id
      BY <1>0, <3>1, Zenon DEF WStep, WTake
    <3>5. /\ \A j \in RBuf : rbuf[j].busy => rbuf[j].id # pq[1].id
          /\ \A j \in WBuf : wbuf[j].busy => wbuf[j].id # pq[1].id
          /\ r # None => r[1].id # pq[1].id
      BY <2>0, <2>2, Zenon DEF LineInv, OwnersExact
    <3>6. r' # None => r'[1].id # pq[1].id
      BY <2>1, <3>5, Zenon
    <3> QED BY <2>0, <2>2, <3>2, <3>3, <3>4, <3>5, <3>6, Zenon
  <2>3. CASE nq # pq
    <3>1. /\ user[nq[1].id].st = "idle"
          /\ user'[nq[1].id] = [st |-> IF nq[1].we THEN "wr" ELSE "rd", tok |-> nq[1].tok, beat |-> 0]
      BY <2>0, <2>3, Asker, Zenon
    <3>2. /\ \A j \in RBuf : rbuf[j].busy => rbuf[j].id # nq[1].id
          /\ \A j \in WBuf : wbuf[j].busy => wbuf[j].id # nq[1].id
          /\ r # None => r[1].id # nq[1].id
          /\ pq # None => pq[1].id # nq[1].id
      BY <3>1 DEF LineInv, OwnersExact, StreamPlaced
    <3>3. \A j \in RBuf : rbuf'[j].busy =>
            (rbuf[j].busy /\ rbuf'[j].id = rbuf[j].id) \/ (pq # None /\ rbuf'[j].id = pq[1].id)
      BY <1>0, Zenon DEF RStep
    <3>4. \A j \in WBuf : wbuf'[j].busy =>
            (wbuf[j].busy /\ wbuf'[j].id = wbuf[j].id) \/ (pq # None /\ wbuf'[j].id = pq[1].id)
      BY <1>0, Zenon DEF WStep
    <3>5. r' # None => r'[1].id # nq[1].id
      BY <2>1, <3>2, Zenon
    <3>6. \A j \in RBuf : rbuf'[j].busy => rbuf'[j].id # nq[1].id
      BY <3>2, <3>3, Zenon
    <3>7. \A j \in WBuf : wbuf'[j].busy => wbuf'[j].id # nq[1].id
      BY <3>2, <3>4, Zenon
    <3> QED BY <2>0, <3>1, <3>5, <3>6, <3>7, Zenon
  <2> QED BY <2>2, <2>3, Zenon
<1> QED BY <1>1, <1>2, <1>3, <1>4, <1>5, Zenon DEF OwnersExact

\* A cycle keeps each read that does not stream yet in one place, with what it has of its line.
LEMMA ReadsStep ==
  ASSUME Leasts, LineInv, NEW i \in Inputs, NEW nq \in Presented(i), MemTick(i, nq)
  PROVE  ReadsPlaced'
<1> DEFINE d == Num(Drops(i))
\* what the places held before
<1>1. ASSUME NEW k \in DOMAIN ctlr
      PROVE  /\ ctlr[k].buf \in RBuf /\ rbuf[ctlr[k].buf].busy
             /\ user[rbuf[ctlr[k].buf].id] = [st |-> "rd", tok |-> ctlr[k].tok, beat |-> 0]
             /\ rbuf[ctlr[k].buf].got = (IF k = 1 /\ half.r = 1 THEN {0} ELSE {})
             /\ k = 1 /\ half.r = 1 => rbuf[ctlr[k].buf].lo = ctlr[k].tok
             /\ \A m \in DOMAIN ctlr : ctlr[m].buf = ctlr[k].buf => m = k
             /\ \A m \in DOMAIN sq : sq[m] # ctlr[k].buf
  <2>1. ctlr \in Seq(Reads)
    BY Zenon DEF LineInv, LineType, Reads
  <2>2. ctlr[k] \in Reads
    BY <2>1, Element, Zenon
  <2> QED BY <2>2, Zenon DEF LineInv, ReadsPlaced, Reads
<1>2. ASSUME rq # None, ~rq[1].we
      PROVE  /\ rq[1].buf \in RBuf /\ rbuf[rq[1].buf].busy /\ rbuf[rq[1].buf].got = {}
             /\ user[rbuf[rq[1].buf].id].beat = 0 /\ user[rbuf[rq[1].buf].id].st = "rd"
             /\ \A k \in DOMAIN ctlr : ctlr[k].buf # rq[1].buf
             /\ \A k \in DOMAIN sq : sq[k] # rq[1].buf
  <2>1. rq[1].buf \in RBuf
    BY <1>2, Held, Zenon DEF LineInv
  <2> QED BY <1>2, <2>1, Zenon DEF LineInv, ReadsPlaced, OwnersExact
<1>3. \A k \in DOMAIN sq : rbuf[sq[k]].busy
  BY Zenon DEF LineInv, StreamPlaced
<1>4. /\ ctlr # <<>> => 1 \in DOMAIN ctlr
      /\ DOMAIN ctlr = 1..Len(ctlr) /\ Len(ctlr) \in Nat /\ (ctlr # <<>> => Len(ctlr) > 0)
  <2>1. ctlr \in Seq(Reads)
    BY Zenon DEF LineInv, LineType, Reads
  <2> QED BY <2>1
<1>5. /\ half'.r = IF i.rd # None THEN 1 - half.r ELSE half.r
      /\ half.r \in {0, 1} /\ d \in {0, 1} /\ (d = 1 <=> i.rd # None /\ half.r = 1)
      /\ i.rd # None => ctlr # <<>>
      /\ half'.r = 1 => d = 0 /\ ctlr # <<>>
  <2>1. /\ half'.r = IF i.rd # None THEN 1 - half.r ELSE half.r
        /\ half.r \in {0, 1}
    BY Halfway, Zenon
  <2>2. d \in {0, 1} /\ (d = 1 <=> i.rd # None /\ half.r = 1)
    BY DEF Num, Drops
  <2>3. i.rd # None => ctlr # <<>>
    BY InputFacts, Zenon
  <2>4. half.r = 1 => ctlr # <<>>
    BY Zenon DEF LineInv, ReadsPlaced
  <2> HIDE DEF d
  <2> QED BY <2>1, <2>2, <2>3, <2>4
\* where they came from
<1>6. /\ ctlr' \in Seq(Reads) /\ Len(ctlr') >= Len(ctlr) - d
      /\ \A k \in DOMAIN ctlr' :
           \/ k + d \in DOMAIN ctlr /\ ctlr'[k] = ctlr[k + d]
           \/ /\ Enters(i, FALSE) /\ rq # None /\ rq[1].buf \in RBuf
              /\ ctlr'[k].buf = rq[1].buf /\ ctlr'[k].tok = user[rbuf[rq[1].buf].id].tok
              /\ k = Len(ctlr) - d + 1
  <2>1. ctlr' = Left(ctlr, i.rd) \o Entered(i, FALSE)
    BY Next, Zenon
  <2> QED BY <2>1, ReadQueue, Zenon
<1>7. \A k \in DOMAIN sq' :
        \/ \E m \in DOMAIN sq : sq'[k] = sq[m]
        \/ d = 1 /\ ctlr # <<>> /\ sq'[k] = ctlr[1].buf
  <2>1. \A k \in DOMAIN sq' :
          \/ k + Num(s_end(i)) \in DOMAIN sq /\ sq'[k] = sq[k + Num(s_end(i))]
          \/ Drops(i) /\ ctlr # <<>> /\ sq'[k] = ctlr[1].buf
    BY Next, StreamQueue, Zenon
  <2> QED BY <2>1, Zenon DEF Num
<1>8. Enters(i, FALSE) => rq # None /\ ~rq[1].we /\ rq_go(i)
  BY Zenon DEF Enters, rq_go
<1> HIDE DEF d
<1>9. ASSUME rq' # None, ~rq'[1].we
      PROVE  /\ rbuf'[rq'[1].buf].busy /\ rbuf'[rq'[1].buf].got = {} /\ user'[rbuf'[rq'[1].buf].id].beat = 0
             /\ \A k \in DOMAIN ctlr' : ctlr'[k].buf # rq'[1].buf
             /\ \A k \in DOMAIN sq' : sq'[k] # rq'[1].buf
  <2>1. CASE TakeRead(i)
    <3> DEFINE j == Min(r_frees)
    <3>1. rq' = <<[we |-> FALSE, buf |-> j]>>
      BY <2>1, Next, Zenon
    <3>2. rq'[1].buf = j
      BY <3>1, Zenon
    <3>3. j \in RBuf /\ ~rbuf[j].busy
      BY <2>1, Picked, Zenon DEF TakeRead, q_ready, Frees
    <3>4. RTake(i, j)
      BY <2>1, Zenon DEF RTake
    <3> HIDE DEF j
    <3>5. rbuf'[j].busy /\ rbuf'[j].got = {} /\ rbuf'[j].id = pq[1].id /\ pq # None
      BY <3>3, <3>4, Buffers, Zenon DEF RStep
    <3>6. user'[pq[1].id].beat = 0
      <4>1. user[pq[1].id].beat = 0
        BY <3>5 DEF LineInv, OwnersExact
      <4> QED BY <3>5, <4>1, Asker, Zenon
    <3>7. \A k \in DOMAIN ctlr' : ctlr'[k].buf # j
      <4>1. \A k \in DOMAIN ctlr : ctlr[k].buf # j
        BY <1>1, <3>3, Zenon
      <4>2. Enters(i, FALSE) => rq[1].buf # j
        BY <1>2, <1>8, <3>3, Zenon
      <4> QED BY <1>6, <4>1, <4>2, Zenon
    <3>8. \A k \in DOMAIN sq' : sq'[k] # j
      <4>1. \A k \in DOMAIN ctlr : ctlr[k].buf # j
        BY <1>1, <3>3, Zenon
      <4>2. \A k \in DOMAIN sq : sq[k] # j
        BY <1>3, <3>3, Zenon
      <4> QED BY <1>4, <1>7, <4>1, <4>2, Zenon
    <3> QED BY <3>2, <3>5, <3>6, <3>7, <3>8, Zenon
  <2>2. CASE ~TakeRead(i)
    <3>1. rq' = rq /\ ~rq_go(i)
      <4>1. ~TakeWrite(i)
        <5>1. TakeWrite(i) => rq' = <<[we |-> TRUE, buf |-> Min(w_frees)]>>
          BY <2>2, Next, Zenon
        <5> QED BY <1>9, <5>1
      <4> QED BY <1>9, <2>2, <4>1, Next, Zenon
    <3> DEFINE j == rq[1].buf
    <3>2. /\ j \in RBuf /\ rbuf[j].busy /\ rbuf[j].got = {} /\ user[rbuf[j].id].beat = 0
          /\ \A k \in DOMAIN ctlr : ctlr[k].buf # j
          /\ \A k \in DOMAIN sq : sq[k] # j
      BY <1>2, <1>9, <3>1, Zenon
    <3> HIDE DEF j
    <3>3. ~Lands(i, j)
      BY <1>4, <1>5, <3>2, Landing, Zenon
    <3>4. /\ rbuf'[j].busy /\ rbuf'[j].id = rbuf[j].id /\ user'[rbuf[j].id] = user[rbuf[j].id]
          /\ rbuf'[j].got = {}
      BY <3>2, <3>3, Waits, Zenon
    <3>5. \A k \in DOMAIN ctlr' : ctlr'[k].buf # j
      BY <1>6, <1>8, <3>1, <3>2, Zenon
    <3>6. \A k \in DOMAIN sq' : sq'[k] # j
      BY <1>4, <1>7, <3>2, Zenon
    <3>7. rq'[1].buf = j
      BY <3>1, Zenon DEF j
    <3> QED BY <3>2, <3>4, <3>5, <3>6, <3>7, Zenon
  <2> QED BY <2>1, <2>2, Zenon
<1>10. ASSUME NEW k \in DOMAIN ctlr'
       PROVE  LET b == rbuf'[ctlr'[k].buf] IN
              /\ b.busy /\ user'[b.id] = [st |-> "rd", tok |-> ctlr'[k].tok, beat |-> 0]
              /\ b.got = (IF k = 1 /\ half'.r = 1 THEN {0} ELSE {})
              /\ k = 1 /\ half'.r = 1 => b.lo = ctlr'[k].tok
              /\ \A m \in DOMAIN ctlr' : ctlr'[m].buf = ctlr'[k].buf => m = k
              /\ \A m \in DOMAIN sq' : sq'[m] # ctlr'[k].buf
  <2> DEFINE j == ctlr'[k].buf
  <2>0. k \in Nat /\ k >= 1
    BY <1>6
  <2>1. CASE k + d \in DOMAIN ctlr /\ ctlr'[k] = ctlr[k + d]
    <3>1. /\ j \in RBuf /\ rbuf[j].busy
          /\ user[rbuf[j].id] = [st |-> "rd", tok |-> ctlr'[k].tok, beat |-> 0]
          /\ rbuf[j].got = (IF k + d = 1 /\ half.r = 1 THEN {0} ELSE {})
          /\ k + d = 1 /\ half.r = 1 => rbuf[j].lo = ctlr'[k].tok
          /\ \A m \in DOMAIN ctlr : ctlr[m].buf = j => m = k + d
          /\ \A m \in DOMAIN sq : sq[m] # j
      BY <1>1, <2>1
    <3>2. ctlr # <<>> /\ 1 \in DOMAIN ctlr
      BY <1>4, <2>1
    <3>3. Lands(i, j) <=> i.rd # None /\ k + d = 1
      <4>1. Lands(i, j) <=> i.rd # None /\ j = ctlr[1].buf
        BY <3>1, Landing, Zenon
      <4>2. j = ctlr[1].buf <=> k + d = 1
        BY <2>1, <3>1, <3>2, Zenon
      <4> QED BY <4>1, <4>2, Zenon
    <3>4. k = 1 /\ d = 0 => ctlr'[k].tok = ctlr[1].tok
      BY <2>1
    <3> HIDE DEF j
    <3>5. /\ rbuf'[j].busy /\ rbuf'[j].id = rbuf[j].id /\ user'[rbuf[j].id] = user[rbuf[j].id]
          /\ Lands(i, j) => rbuf'[j].got = rbuf[j].got \cup {half.r}
          /\ ~Lands(i, j) => rbuf'[j].got = rbuf[j].got /\ rbuf'[j].lo = rbuf[j].lo
          /\ Lands(i, j) /\ half.r = 0 => rbuf'[j].lo = ctlr[1].tok
      BY <3>1, Waits, Zenon
    <3>6. /\ rbuf'[j].got = (IF k = 1 /\ half'.r = 1 THEN {0} ELSE {})
          /\ k = 1 /\ half'.r = 1 => rbuf'[j].lo = ctlr'[k].tok
      <4>1. CASE i.rd = None
        BY <1>5, <2>0, <3>1, <3>3, <3>5, <4>1
      <4>2. CASE i.rd # None /\ half.r = 0
        <5>1. d = 0 /\ half'.r = 1 /\ (Lands(i, j) <=> k = 1)
          BY <1>5, <2>0, <3>3, <4>2
        <5>2. rbuf[j].got = {}
          BY <3>1, <4>2
        <5>3. k = 1 => rbuf'[j].got = {0} /\ rbuf'[j].lo = ctlr'[k].tok
          BY <3>4, <3>5, <4>2, <5>1, <5>2, Zenon
        <5>4. k # 1 => rbuf'[j].got = {}
          BY <3>5, <5>1, <5>2, Zenon
        <5> QED BY <5>1, <5>3, <5>4, Zenon
      <4>3. CASE i.rd # None /\ half.r = 1
        BY <1>5, <2>0, <3>1, <3>3, <3>5, <4>3, SMTT(40)
      <4> QED BY <1>5, <4>1, <4>2, <4>3, Zenon
    <3>7. \A m \in DOMAIN ctlr' : ctlr'[m].buf = j => m = k
      <4> TAKE m \in DOMAIN ctlr'
      <4>1. CASE m + d \in DOMAIN ctlr /\ ctlr'[m] = ctlr[m + d]
        <5>1. m \in Nat
          BY <1>6
        <5> QED BY <1>5, <2>0, <3>1, <4>1, <5>1
      <4>2. CASE Enters(i, FALSE) /\ ctlr'[m].buf = rq[1].buf
        BY <1>2, <1>8, <2>1, <4>2, Zenon DEF j
      <4> QED BY <1>6, <4>1, <4>2, Zenon
    <3>8. \A m \in DOMAIN sq' : sq'[m] # j
      BY <1>5, <1>7, <2>0, <3>1, <3>2
    <3> QED BY <3>1, <3>5, <3>6, <3>7, <3>8, Zenon DEF j
  <2>2. CASE /\ Enters(i, FALSE) /\ rq # None /\ rq[1].buf \in RBuf
             /\ ctlr'[k].buf = rq[1].buf /\ ctlr'[k].tok = user[rbuf[rq[1].buf].id].tok
             /\ k = Len(ctlr) - d + 1
    <3>1. /\ j \in RBuf /\ rbuf[j].busy /\ rbuf[j].got = {}
          /\ user[rbuf[j].id].beat = 0 /\ user[rbuf[j].id].st = "rd" /\ user[rbuf[j].id].tok = ctlr'[k].tok
          /\ \A m \in DOMAIN ctlr : ctlr[m].buf # j
          /\ \A m \in DOMAIN sq : sq[m] # j
      BY <1>2, <1>8, <2>2, Zenon
    <3>2. user[rbuf[j].id] = [st |-> "rd", tok |-> ctlr'[k].tok, beat |-> 0]
      <4>1. rbuf[j].id \in Ids /\ user \in [Ids -> Users]
        BY <3>1, Zenon DEF LineInv, LineType, Users
      <4> QED BY <3>1, <4>1, Zenon DEF Users
    <3> HIDE DEF j
    <3>3. ~Lands(i, j)
      BY <1>4, <1>5, <3>1, Landing, Zenon
    <3>4. /\ rbuf'[j].busy /\ rbuf'[j].id = rbuf[j].id /\ user'[rbuf[j].id] = user[rbuf[j].id]
          /\ rbuf'[j].got = {}
      BY <3>1, <3>3, Waits, Zenon
    <3>5. ~(k = 1 /\ half'.r = 1)
      BY <1>4, <1>5, <2>2
    <3>6. \A m \in DOMAIN ctlr' : ctlr'[m].buf = j => m = k
      BY <1>6, <2>2, <3>1, ZenonT(60)
    <3>7. \A m \in DOMAIN sq' : sq'[m] # j
      BY <1>4, <1>7, <3>1
    <3> QED BY <3>2, <3>4, <3>5, <3>6, <3>7, Zenon DEF j
  <2> QED BY <1>6, <2>1, <2>2, Zenon
<1>11. half'.r = 1 => ctlr' # <<>>
  BY <1>4, <1>5, <1>6
<1> QED BY <1>9, <1>10, <1>11, Zenon DEF ReadsPlaced

-----------------------------------------------------------------------------
\* ---- the stream to the caches, the writes, and the start

\* A cycle keeps the stream's buffers whole and their ids' beats counted.
LEMMA StreamStep ==
  ASSUME Leasts, LineInv, NEW i \in Inputs, NEW nq \in Presented(i), MemTick(i, nq)
  PROVE  StreamPlaced'
<1> DEFINE e == Num(s_end(i))
           owed(k) == IF k # 1 THEN 0 ELSE IF r' # None /\ s_beat' > 0 THEN s_beat' - 1 ELSE s_beat'
\* what the stream held before
<1>1. ASSUME NEW k \in DOMAIN sq
      PROVE  /\ sq[k] \in RBuf /\ rbuf[sq[k]].busy
             /\ rbuf[sq[k]].lo = user[rbuf[sq[k]].id].tok /\ rbuf[sq[k]].hi = user[rbuf[sq[k]].id].tok
             /\ k # 1 => user[rbuf[sq[k]].id].beat = 0
             /\ \A m \in DOMAIN sq : sq[m] = sq[k] => m = k
             /\ \A m \in DOMAIN ctlr : ctlr[m].buf # sq[k]
  <2>1. sq \in Seq(RBuf)
    BY Zenon DEF LineInv, LineType
  <2>2. sq[k] \in RBuf
    BY <2>1, Element, Zenon
  <2>3. \A m \in DOMAIN ctlr : ctlr[m].buf # sq[k]
    BY Zenon DEF LineInv, ReadsPlaced
  <2> QED BY <2>2, <2>3, Zenon DEF LineInv, StreamPlaced
<1>2. /\ DOMAIN sq = 1..Len(sq) /\ Len(sq) \in Nat /\ (sq # <<>> <=> Len(sq) > 0)
  <2>1. sq \in Seq(RBuf)
    BY Zenon DEF LineInv, LineType
  <2> QED BY <2>1
\* where it comes from
<1>3. /\ sq' \in Seq(RBuf) /\ Len(sq') >= Len(sq) - e
      /\ \A k \in DOMAIN sq' :
           \/ k + e \in DOMAIN sq /\ sq'[k] = sq[k + e]
           \/ Drops(i) /\ ctlr # <<>> /\ sq'[k] = ctlr[1].buf /\ k = Len(sq) - e + 1
  <2>1. sq' = sqNext(i)
    BY Next, Zenon
  <2> QED BY <2>1, StreamQueue, Zenon
<1>4. /\ s_beat \in 0..3 /\ e \in {0, 1}
      /\ s_load(i) => sq # <<>> /\ r' # None
      /\ s_load(i) /\ s_beat = 3 => e = 1 /\ s_beat' = 0
      /\ s_load(i) /\ s_beat # 3 => e = 0 /\ s_beat' = s_beat + 1
      /\ ~s_load(i) => e = 0 /\ s_beat' = s_beat
      /\ e = 1 <=> s_end(i)
  <2>1. e \in {0, 1} /\ (e = 1 <=> s_end(i))
    BY DEF Num
  <2> HIDE DEF e
  <2> QED BY <2>1, Output, Zenon
<1>5. s_beat > 0 => sq # <<>>
  BY Zenon DEF LineInv, StreamPlaced
<1> HIDE DEF e
<1>6. \A k \in DOMAIN sq' : k \in Nat /\ k >= 1
  BY <1>3
<1>7. ASSUME NEW k \in DOMAIN sq'
      PROVE  LET b == rbuf'[sq'[k]] IN
             /\ b.busy /\ b.lo = user'[b.id].tok /\ b.hi = user'[b.id].tok
             /\ user'[b.id].beat = owed(k)
             /\ \A m \in DOMAIN sq' : sq'[m] = sq'[k] => m = k
  <2> DEFINE j == sq'[k]
             x == rbuf[j].id
  <2>1. CASE k + e \in DOMAIN sq /\ j = sq[k + e]
    <3>1. /\ j \in RBuf /\ rbuf[j].busy /\ rbuf[j].lo = user[x].tok /\ rbuf[j].hi = user[x].tok
          /\ k + e # 1 => user[x].beat = 0
          /\ \A m \in DOMAIN sq : sq[m] = j => m = k + e
          /\ \A m \in DOMAIN ctlr : ctlr[m].buf # j
      BY <1>1, <2>1
    <3>2. sq # <<>> /\ 1 \in DOMAIN sq /\ (k + e = 1 <=> j = sq[1])
      BY <1>2, <2>1, <3>1
    <3> HIDE DEF j, x
    <3>3. ~Lands(i, j)
      <4>1. ctlr # <<>> => 1 \in DOMAIN ctlr
        BY Held, Zenon DEF LineInv
      <4> QED BY <3>1, <4>1, Landing, Zenon
    <3>4. RStep(i, j, rbuf'[j])
      BY <3>1, Buffers, Zenon
    <3>5. ~RTake(i, j) /\ ~REnd(i, j)
      <4>1. REnd(i, j) => k + e = 1 /\ e = 1
        BY <1>4, <3>2, Zenon DEF REnd, s_j
      <4> QED BY <1>4, <1>6, <3>1, <3>4, <4>1 DEF RStep
    <3>6. rbuf'[j].busy /\ rbuf'[j].id = x /\ rbuf'[j].lo = user[x].tok /\ rbuf'[j].hi = user[x].tok
      BY <3>1, <3>3, <3>4, <3>5, Zenon DEF RStep, x
    <3>7. user'[x].tok = user[x].tok /\ user'[x].beat = owed(k)
      <4>1. CASE k + e = 1
        <5>1. k = 1 /\ e = 0 /\ x = rbuf[sq[1]].id
          BY <1>4, <1>6, <3>2, <4>1 DEF x
        <5>2. CASE s_load(i)
          <6>1. user'[x] = [st |-> "rd", tok |-> user[x].tok, beat |-> s_beat]
            BY <3>2, <5>1, <5>2, Oldest, Zenon
          <6> QED BY <1>4, <5>1, <5>2, <6>1, SMTT(40)
        <5>3. CASE ~s_load(i)
          <6>1. user'[x] = user[x] /\ r' = r /\ r # None
            BY <3>2, <5>1, <5>3, Oldest, Zenon
          <6>2. user[x].beat = (IF r # None /\ s_beat > 0 THEN s_beat - 1 ELSE s_beat)
            BY <3>2, <5>1, Zenon DEF LineInv, StreamPlaced
          <6> QED BY <1>4, <5>1, <5>3, <6>1, <6>2, Zenon
        <5> QED BY <5>2, <5>3, Zenon
      <4>2. CASE k + e # 1
        <5>1. user'[x] = user[x]
          BY <3>1, <3>2, <4>2, Reader, Zenon DEF x
        <5> QED BY <1>4, <3>1, <4>2, <5>1
      <4> QED BY <4>1, <4>2, Zenon
    <3>8. \A m \in DOMAIN sq' : sq'[m] = j => m = k
      <4> TAKE m \in DOMAIN sq'
      <4>1. CASE m + e \in DOMAIN sq /\ sq'[m] = sq[m + e]
        <5>1. k \in Nat /\ m \in Nat
          BY <1>6, Zenon
        <5>2. sq'[m] = j => m + e = k + e
          BY <3>1, <4>1, Zenon
        <5> QED BY <1>4, <5>1, <5>2
      <4>2. CASE ctlr # <<>> /\ sq'[m] = ctlr[1].buf
        <5>1. 1 \in DOMAIN ctlr
          BY <4>2, Held, Zenon DEF LineInv
        <5> QED BY <3>1, <4>2, <5>1, Zenon
      <4> QED BY <1>3, <4>1, <4>2, Zenon
    <3> QED BY <3>6, <3>7, <3>8, Zenon DEF j
  <2>2. CASE Drops(i) /\ ctlr # <<>> /\ j = ctlr[1].buf /\ k = Len(sq) - e + 1
    <3>1. 1 \in DOMAIN ctlr /\ j \in RBuf
      BY <2>2, Held, Zenon DEF LineInv
    <3>2. half.r = 1 /\ i.rd # None
      BY <2>2, Zenon DEF Drops
    <3>3. /\ rbuf[j].busy /\ user[x] = [st |-> "rd", tok |-> ctlr[1].tok, beat |-> 0]
          /\ rbuf[j].lo = ctlr[1].tok
          /\ \A m \in DOMAIN sq : sq[m] # j
      BY <2>2, <3>1, <3>2, SMTT(40) DEF LineInv, ReadsPlaced
    <3> HIDE DEF j, x
    <3>4. Lands(i, j)
      BY <2>2, <3>1, <3>2, Landing, Zenon
    <3>5. /\ rbuf'[j].busy /\ rbuf'[j].id = x /\ user'[x] = user[x]
          /\ rbuf'[j].hi = ctlr[1].tok /\ rbuf'[j].lo = ctlr[1].tok
      BY <3>1, <3>2, <3>3, <3>4, Waits, Zenon DEF x
    <3>6. owed(k) = 0
      <4>1. CASE sq = <<>>
        BY <1>4, <1>5, <4>1
      <4>2. CASE sq # <<>>
        BY <1>2, <1>4, <2>2, <4>2
      <4> QED BY <4>1, <4>2, Zenon
    <3>7. \A m \in DOMAIN sq' : sq'[m] = j => m = k
      BY <1>3, <2>2, <3>3, Zenon
    <3> QED BY <3>3, <3>5, <3>6, <3>7, SMTT(40) DEF j
  <2> QED BY <1>3, <2>1, <2>2, Zenon
<1>8. s_beat' > 0 => sq' # <<>>
  <2>1. s_beat' > 0 => e = 0 /\ sq # <<>>
    BY <1>4, <1>5
  <2> QED BY <1>2, <1>3, <2>1
<1>9. ASSUME sq # <<>>, e = 0
      PROVE  sq'[1] = sq[1] /\ rbuf'[sq[1]].id = rbuf[sq[1]].id
  <2>1. 1 \in DOMAIN sq'
    BY <1>2, <1>3, <1>9
  <2>2. sq'[1] = sq[1]
    BY <1>2, <1>3, <1>9, <2>1
  <2>3. sq[1] \in RBuf /\ rbuf[sq[1]].busy
    BY <1>9, Oldest, Zenon
  <2>4. RStep(i, sq[1], rbuf'[sq[1]])
    BY <2>3, Buffers, Zenon
  <2> QED BY <2>2, <2>3, <2>4, Zenon DEF RStep
<1>10. ASSUME r' # None
       PROVE  /\ user'[r'[1].id] = [st |-> "rd", tok |-> r'[1].tok, beat |-> r'[1].beat]
              /\ r'[1].beat = (IF s_beat' = 0 THEN 3 ELSE s_beat' - 1)
              /\ IF s_beat' = 0 THEN \A j \in RBuf : rbuf'[j].busy => rbuf'[j].id # r'[1].id
                 ELSE rbuf'[sq'[1]].id = r'[1].id
  <2>1. CASE s_load(i)
    <3> DEFINE x == rbuf[sq[1]].id
    <3>1. /\ sq # <<>> /\ r'[1].id = x /\ r'[1].beat = s_beat /\ r'[1].tok = user[x].tok
      BY <2>1, Output, Zenon
    <3>2. /\ sq[1] \in RBuf /\ rbuf[sq[1]].busy /\ x \in Ids
          /\ user'[x] = [st |-> "rd", tok |-> user[x].tok, beat |-> s_beat]
      BY <2>1, <3>1, Oldest, Zenon
    <3>3. s_beat' = 0 => s_beat = 3
      BY <1>4, <2>1
    <3>4. ASSUME s_beat = 3, NEW j \in RBuf, rbuf'[j].busy
          PROVE  rbuf'[j].id # x
      <4>1. RStep(i, j, rbuf'[j])
        BY Buffers, Zenon
      <4>2. CASE RTake(i, j)
        <5>1. rbuf'[j].id = pq[1].id /\ pq # None
          BY <4>1, <4>2, Zenon DEF RStep
        <5> QED BY <3>2, <5>1, Zenon DEF LineInv, OwnersExact
      <4>3. CASE ~RTake(i, j)
        <5>1. ~REnd(i, j) /\ rbuf[j].busy /\ rbuf'[j].id = rbuf[j].id
          BY <3>4, <4>1, <4>3, Zenon DEF RStep
        <5>2. j # sq[1]
          BY <1>4, <2>1, <3>4, <5>1, Zenon DEF REnd, s_j
        <5> QED BY <3>2, <5>1, <5>2, Zenon DEF LineInv, OwnersExact
      <4> QED BY <4>2, <4>3, Zenon
    <3>5. s_beat # 3 => rbuf'[sq'[1]].id = x
      BY <1>4, <1>9, <2>1, <3>1, Zenon
    <3> HIDE DEF x
    <3> QED BY <1>4, <2>1, <3>1, <3>2, <3>3, <3>4, <3>5
  <2>2. CASE ~s_load(i)
    <3>1. r' = r /\ r # None /\ ~i.r_ready /\ s_beat' = s_beat /\ e = 0
      BY <1>4, <1>10, <2>2, Output, Zenon
    <3> DEFINE x == r[1].id
    <3>2. /\ user[x] = [st |-> "rd", tok |-> r[1].tok, beat |-> r[1].beat]
          /\ r[1].beat = (IF s_beat = 0 THEN 3 ELSE s_beat - 1)
          /\ IF s_beat = 0 THEN \A j \in RBuf : rbuf[j].busy => rbuf[j].id # x
             ELSE rbuf[sq[1]].id = x
      BY <3>1, Zenon DEF LineInv, StreamPlaced
    <3>3. x \in Ids
      BY <3>1, Held, Zenon DEF LineInv
    <3> HIDE DEF x
    <3>4. user'[x] = user[x]
      <4>1. ~Given(i, x) /\ user[x].st = "rd"
        BY <3>1, <3>2 DEF Given
      <4>2. UserNext(i, x, nq) = user[x]
        BY <3>3, <4>1, UserStep, Zenon
      <4>3. user' = [y \in Ids |-> UserNext(i, y, nq)]
        BY Next, Zenon
      <4> QED BY <3>3, <4>2, <4>3, Zenon
    <3>5. ASSUME s_beat = 0, NEW j \in RBuf, rbuf'[j].busy
          PROVE  rbuf'[j].id # x
      <4>1. RStep(i, j, rbuf'[j])
        BY Buffers, Zenon
      <4>2. CASE RTake(i, j)
        <5>1. rbuf'[j].id = pq[1].id /\ pq # None
          BY <4>1, <4>2, Zenon DEF RStep
        <5> QED BY <3>1, <5>1, Zenon DEF LineInv, OwnersExact, x
      <4>3. CASE ~RTake(i, j)
        <5>1. rbuf[j].busy /\ rbuf'[j].id = rbuf[j].id
          BY <3>5, <4>1, <4>3, Zenon DEF RStep
        <5> QED BY <3>2, <3>5, <5>1, Zenon
      <4> QED BY <4>2, <4>3, Zenon
    <3>6. s_beat # 0 => rbuf'[sq'[1]].id = x
      <4>1. s_beat # 0 => sq # <<>>
        BY <1>4, <1>5
      <4>2. s_beat # 0 => sq'[1] = sq[1] /\ rbuf'[sq[1]].id = rbuf[sq[1]].id
        BY <1>9, <3>1, <4>1, Zenon
      <4> QED BY <3>2, <4>2, Zenon
    <3>7. r'[1].id = x
      BY <3>1, Zenon DEF x
    <3> QED BY <3>1, <3>2, <3>4, <3>5, <3>6, <3>7, Zenon
  <2> QED BY <2>1, <2>2, Zenon
<1> QED BY <1>7, <1>8, <1>10, Zenon DEF StreamPlaced

\* A cycle keeps each write in one place, with its own data, until its done.
LEMMA WritesStep ==
  ASSUME Leasts, LineInv, NEW i \in Inputs, NEW nq \in Presented(i), MemTick(i, nq)
  PROVE  WritesPlaced'
<1> DEFINE d == Num(DropsW(i))
\* what the places held before
<1>1. ASSUME NEW k \in DOMAIN ctlw
      PROVE  /\ ctlw[k].buf \in WBuf /\ wbuf[ctlw[k].buf].busy /\ ~wbuf[ctlw[k].buf].done
             /\ wbuf[ctlw[k].buf].tok = ctlw[k].tok /\ w_last # <<ctlw[k].buf>>
             /\ \A m \in DOMAIN ctlw : ctlw[m].buf = ctlw[k].buf => m = k
  <2>1. ctlw \in Seq(Writes)
    BY Zenon DEF LineInv, LineType, Writes
  <2>2. ctlw[k] \in Writes
    BY <2>1, Element, Zenon
  <2> QED BY <2>2, Zenon DEF LineInv, WritesPlaced, Writes
<1>2. ASSUME rq # None, rq[1].we
      PROVE  /\ rq[1].buf \in WBuf /\ wbuf[rq[1].buf].busy /\ ~wbuf[rq[1].buf].done
             /\ w_last # <<rq[1].buf>>
             /\ \A k \in DOMAIN ctlw : ctlw[k].buf # rq[1].buf
  <2>1. rq[1].buf \in WBuf
    BY <1>2, Held, Zenon DEF LineInv
  <2> QED BY <1>2, <2>1, Zenon DEF LineInv, WritesPlaced
<1>3. /\ ctlw # <<>> => 1 \in DOMAIN ctlw
      /\ DOMAIN ctlw = 1..Len(ctlw) /\ Len(ctlw) \in Nat /\ (ctlw # <<>> => Len(ctlw) > 0)
  <2>1. ctlw \in Seq(Writes)
    BY Zenon DEF LineInv, LineType, Writes
  <2> QED BY <2>1
<1>4. /\ d \in {0, 1} /\ (d = 1 <=> i.wr # None /\ half.w = 1)
      /\ i.wr # None => ctlw # <<>> /\ i.wr[1].j = ctlw[1].buf /\ i.wr[1].half = half.w
                        /\ i.wr[1].tok = ctlw[1].tok
      /\ half'.w = 1 => d = 0 /\ ctlw # <<>>
  <2>1. /\ half'.w = IF i.wr # None THEN 1 - half.w ELSE half.w
        /\ half.w \in {0, 1}
    BY Halfway, Zenon
  <2>2. d \in {0, 1} /\ (d = 1 <=> i.wr # None /\ half.w = 1)
    BY DEF Num, DropsW
  <2>3. i.wr # None => ctlw # <<>> /\ i.wr[1].j = ctlw[1].buf /\ i.wr[1].half = half.w
                       /\ i.wr[1].tok = ctlw[1].tok
    BY InputFacts
  <2>4. half.w = 1 => ctlw # <<>>
    BY Zenon DEF LineInv, WritesPlaced
  <2> HIDE DEF d
  <2> QED BY <2>1, <2>2, <2>3, <2>4
\* where they came from
<1>5. /\ ctlw' \in Seq(Writes) /\ Len(ctlw') >= Len(ctlw) - d
      /\ \A k \in DOMAIN ctlw' :
           \/ k + d \in DOMAIN ctlw /\ ctlw'[k] = ctlw[k + d]
           \/ /\ Enters(i, TRUE) /\ rq # None /\ rq[1].buf \in WBuf
              /\ ctlw'[k].buf = rq[1].buf /\ ctlw'[k].tok = wbuf[rq[1].buf].tok
              /\ k = Len(ctlw) - d + 1
  <2>1. ctlw' = Left(ctlw, i.wr) \o Entered(i, TRUE)
    BY Next, Zenon
  <2> QED BY <2>1, WriteQueue, Zenon
<1>6. Enters(i, TRUE) => rq # None /\ rq[1].we /\ rq_go(i)
  BY Zenon DEF Enters, rq_go
<1> HIDE DEF d
<1>7. w_last' = (IF d = 1 THEN <<ctlw[1].buf>> ELSE None)
  <2>1. w_last' = (IF i.wr # None /\ i.wr[1].half = 1 THEN <<i.wr[1].j>> ELSE None)
    BY Next, Zenon
  <2> QED BY <1>4, <2>1, Zenon
<1>8. ASSUME NEW j \in WBuf, d = 1 => ctlw[1].buf # j
      PROVE  w_last' # <<j>>
  BY <1>7, <1>8, Zenon
<1>9. d = 1 => 1 \in DOMAIN ctlw
  BY <1>3, <1>4, Zenon
<1>10. \A k \in DOMAIN ctlw' : k \in Nat /\ k >= 1
  BY <1>5
<1>11. ASSUME rq' # None, rq'[1].we
       PROVE  /\ wbuf'[rq'[1].buf].busy /\ ~wbuf'[rq'[1].buf].done /\ w_last' # <<rq'[1].buf>>
              /\ \A k \in DOMAIN ctlw' : ctlw'[k].buf # rq'[1].buf
  <2>1. ~TakeRead(i)
    <3>1. TakeRead(i) => rq' = <<[we |-> FALSE, buf |-> Min(r_frees)]>>
      BY Next, Zenon
    <3> QED BY <1>11, <3>1
  <2>2. CASE TakeWrite(i)
    <3> DEFINE j == Min(w_frees)
    <3>1. rq' = <<[we |-> TRUE, buf |-> j]>>
      BY <2>1, <2>2, Next, Zenon
    <3>2. rq'[1].buf = j
      BY <3>1, Zenon
    <3>3. j \in WBuf /\ ~wbuf[j].busy
      BY <2>2, Picked, Zenon DEF TakeWrite, q_ready, Frees
    <3>4. WTake(i, j)
      BY <2>2, Zenon DEF WTake
    <3> HIDE DEF j
    <3>5. wbuf'[j].busy /\ ~wbuf'[j].done
      <4>1. WStep(i, j, wbuf'[j])
        BY <3>3, Buffers, Zenon
      <4> QED BY <3>4, <4>1, Zenon DEF WStep
    <3>6. \A k \in DOMAIN ctlw : ctlw[k].buf # j
      BY <1>1, <3>3, Zenon
    <3>7. w_last' # <<j>>
      BY <1>8, <1>9, <3>3, <3>6, Zenon
    <3>8. \A k \in DOMAIN ctlw' : ctlw'[k].buf # j
      <4>1. Enters(i, TRUE) => rq[1].buf # j
        BY <1>2, <1>6, <3>3, Zenon
      <4> QED BY <1>5, <3>6, <4>1, Zenon
    <3> QED BY <3>2, <3>5, <3>7, <3>8, Zenon
  <2>3. CASE ~TakeWrite(i)
    <3>1. rq' = rq /\ ~rq_go(i)
      BY <1>11, <2>1, <2>3, Next, Zenon
    <3> DEFINE j == rq[1].buf
    <3>2. /\ j \in WBuf /\ wbuf[j].busy /\ ~wbuf[j].done /\ w_last # <<j>>
          /\ \A k \in DOMAIN ctlw : ctlw[k].buf # j
      BY <1>2, <1>11, <3>1, Zenon
    <3> HIDE DEF j
    <3>3. wbuf'[j].busy /\ ~wbuf'[j].done
      BY <3>2, Keeps, Zenon
    <3>4. w_last' # <<j>>
      BY <1>8, <1>9, <3>2, Zenon
    <3>5. \A k \in DOMAIN ctlw' : ctlw'[k].buf # j
      BY <1>5, <1>6, <3>1, <3>2, Zenon
    <3>6. rq'[1].buf = j
      BY <3>1, Zenon DEF j
    <3> QED BY <3>3, <3>4, <3>5, <3>6, Zenon
  <2> QED BY <2>2, <2>3, Zenon
<1>12. ASSUME NEW k \in DOMAIN ctlw'
       PROVE  LET b == wbuf'[ctlw'[k].buf] IN
              /\ b.busy /\ ~b.done /\ b.tok = ctlw'[k].tok /\ w_last' # <<ctlw'[k].buf>>
              /\ \A m \in DOMAIN ctlw' : ctlw'[m].buf = ctlw'[k].buf => m = k
  <2> DEFINE j == ctlw'[k].buf
  <2>1. CASE k + d \in DOMAIN ctlw /\ ctlw'[k] = ctlw[k + d]
    <3>1. /\ j \in WBuf /\ wbuf[j].busy /\ ~wbuf[j].done /\ wbuf[j].tok = ctlw'[k].tok /\ w_last # <<j>>
          /\ \A m \in DOMAIN ctlw : ctlw[m].buf = j => m = k + d
      BY <1>1, <2>1, Zenon
    <3> HIDE DEF j
    <3>2. wbuf'[j].busy /\ ~wbuf'[j].done /\ wbuf'[j].tok = wbuf[j].tok
      BY <3>1, Keeps, Zenon
    <3>3. w_last' # <<j>>
      <4>1. d = 1 => ctlw[1].buf # j
        BY <1>9, <1>10, <3>1
      <4> QED BY <1>8, <3>1, <4>1, Zenon
    <3>4. \A m \in DOMAIN ctlw' : ctlw'[m].buf = j => m = k
      <4> TAKE m \in DOMAIN ctlw'
      <4>1. CASE m + d \in DOMAIN ctlw /\ ctlw'[m] = ctlw[m + d]
        <5>1. k \in Nat /\ m \in Nat
          BY <1>10, Zenon
        <5>2. ctlw'[m].buf = j => m + d = k + d
          BY <3>1, <4>1, Zenon
        <5> QED BY <1>4, <5>1, <5>2
      <4>2. CASE Enters(i, TRUE) /\ ctlw'[m].buf = rq[1].buf
        BY <1>2, <1>6, <2>1, <4>2, Zenon DEF j
      <4> QED BY <1>5, <4>1, <4>2, Zenon
    <3> QED BY <3>1, <3>2, <3>3, <3>4, Zenon DEF j
  <2>2. CASE /\ Enters(i, TRUE) /\ rq # None /\ rq[1].buf \in WBuf
             /\ ctlw'[k].buf = rq[1].buf /\ ctlw'[k].tok = wbuf[rq[1].buf].tok
             /\ k = Len(ctlw) - d + 1
    <3>1. /\ j \in WBuf /\ wbuf[j].busy /\ ~wbuf[j].done /\ wbuf[j].tok = ctlw'[k].tok /\ w_last # <<j>>
          /\ \A m \in DOMAIN ctlw : ctlw[m].buf # j
      BY <1>2, <1>6, <2>2, Zenon
    <3> HIDE DEF j
    <3>2. wbuf'[j].busy /\ ~wbuf'[j].done /\ wbuf'[j].tok = wbuf[j].tok
      BY <3>1, Keeps, Zenon
    <3>3. w_last' # <<j>>
      BY <1>8, <1>9, <3>1, Zenon
    <3>4. \A m \in DOMAIN ctlw' : ctlw'[m].buf = j => m = k
      BY <1>5, <2>2, <3>1, Zenon
    <3> QED BY <3>1, <3>2, <3>3, <3>4, Zenon DEF j
  <2> QED BY <1>5, <2>1, <2>2, Zenon
<1>13. half'.w = 1 => ctlw' # <<>>
  BY <1>3, <1>4, <1>5
<1>14. ASSUME w_last' # None
       PROVE  wbuf'[w_last'[1]].busy /\ ~wbuf'[w_last'[1]].done
  <2> DEFINE j == ctlw[1].buf
  <2>1. d = 1 /\ w_last'[1] = j
    BY <1>7, <1>14, Zenon
  <2>2. j \in WBuf /\ wbuf[j].busy /\ ~wbuf[j].done /\ w_last # <<j>>
    BY <1>1, <1>9, <2>1, Zenon
  <2> HIDE DEF j
  <2>3. wbuf'[j].busy /\ ~wbuf'[j].done
    BY <2>2, Keeps, Zenon
  <2> QED BY <2>1, <2>3, Zenon
<1>15. ASSUME NEW j \in WBuf, wbuf'[j].done
       PROVE  wbuf'[j].busy
  <2>1. WStep(i, j, wbuf'[j])
    BY Buffers, Zenon
  <2>2. wbuf[j].done => wbuf[j].busy
    BY Zenon DEF LineInv, WritesPlaced
  <2>3. w_last = <<j>> => wbuf[j].busy
    <3>1. w_last = <<j>> => w_last # None /\ w_last[1] = j
      OBVIOUS
    <3> QED BY <3>1, Zenon DEF LineInv, WritesPlaced
  <2>4. ~WRet(i, j)
    BY <1>15, <2>1, Zenon DEF WStep
  <2> QED BY <1>15, <2>1, <2>2, <2>3, <2>4, Zenon DEF WStep
<1>16. wd' = wexp'
  <2>1. /\ wd' = (IF i.wr = None THEN None ELSE <<wbuf[i.wr[1].j].tok>>)
        /\ wexp' = (IF i.wr = None THEN None ELSE <<i.wr[1].tok>>)
    BY Next, Zenon
  <2> QED BY <1>1, <1>3, <1>4, <2>1, Zenon
<1> QED BY <1>11, <1>12, <1>13, <1>14, <1>15, <1>16, Zenon DEF WritesPlaced

\* At the start nothing is in flight.
LEMMA Start == MemInit => LineInv
<1> SUFFICES ASSUME MemInit PROVE LineInv
  BY Zenon
<1> DEFINE y == CHOOSE x \in Ids : TRUE
<1>1. y \in Ids
  BY BuffersAssumption, Zenon
<1> HIDE DEF y
<1>2. /\ rbuf = [j \in RBuf |-> [busy |-> FALSE, got |-> {}, id |-> y, lo |-> 0, hi |-> 0]]
      /\ wbuf = [j \in WBuf |-> [busy |-> FALSE, done |-> FALSE, id |-> y, tok |-> 0]]
      /\ rq = None /\ sq = <<>> /\ s_beat = 0 /\ r = None /\ w_last = None /\ wd = None
      /\ pq = None /\ user = [x \in Ids |-> [st |-> "idle", tok |-> 0, beat |-> 0]]
      /\ ctlr = <<>> /\ ctlw = <<>> /\ half = [r |-> 0, w |-> 0] /\ wexp = None
  BY Zenon DEF MemInit, PortInit, y
<1>3. LineType
  <2>1. /\ rbuf \in [RBuf -> [busy : BOOLEAN, got : SUBSET Halves, id : Ids, lo : {0, 1}, hi : {0, 1}]]
        /\ wbuf \in [WBuf -> [busy : BOOLEAN, done : BOOLEAN, id : Ids, tok : {0, 1}]]
        /\ user \in [Ids -> [st : {"idle", "rd", "wr"}, tok : {0, 1}, beat : 0..3]]
    BY <1>1, <1>2
  <2>2. /\ sq \in Seq(RBuf) /\ s_beat \in 0..3
        /\ ctlr \in Seq([buf : RBuf, tok : {0, 1}]) /\ ctlw \in Seq([buf : WBuf, tok : {0, 1}])
        /\ half \in [r : {0, 1}, w : {0, 1}]
    BY <1>2
  <2> QED BY <1>2, <2>1, <2>2, Zenon DEF LineType
<1>4. /\ \A j \in RBuf : ~rbuf[j].busy
      /\ \A j \in WBuf : ~wbuf[j].busy /\ ~wbuf[j].done
      /\ DOMAIN sq = {} /\ DOMAIN ctlr = {} /\ DOMAIN ctlw = {} /\ half.r = 0 /\ half.w = 0
  BY <1>2
<1>5. OwnersExact
  BY <1>2, <1>4, Zenon DEF OwnersExact
<1>5a. rq = <<>> /\ r = <<>> /\ w_last = <<>> /\ pq = <<>> /\ ~(s_beat > 0) /\ half.r # 1 /\ half.w # 1
  BY <1>2, <1>4
<1>6. ReadsPlaced
  BY <1>4, <1>5a, Zenon DEF ReadsPlaced
<1>6a. StreamPlaced
  BY <1>4, <1>5a, Zenon DEF StreamPlaced
<1>7. WritesPlaced
  <2>1. wd = wexp
    BY <1>2, Zenon
  <2>2. w_last = None
    BY <1>2, Zenon
  <2> QED BY <1>4, <1>5a, <2>1, <2>2, Zenon DEF WritesPlaced
<1> QED BY <1>3, <1>5, <1>6, <1>6a, <1>7, Zenon DEF LineInv
=============================================================================
