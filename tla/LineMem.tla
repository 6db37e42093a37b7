------------------------------ MODULE LineMem -------------------------------
(***************************************************************************)
(* The caches' line port between its two neighbours: the caches, which     *)
(* give a request an id that is not in flight, and the controller with its *)
(* PHY, which serves reads in order and writes in order, a burst (half a   *)
(* line) at a time, after any delay (src/ddr4_port_line.v).                *)
(***************************************************************************)
EXTENDS PortLine

VARIABLES pq,             \* the request presented, <<[id, we, tok]>>
          user,           \* of each id: [st, tok, beat]: what it asked, the beat it is owed
          ctlr, ctlw,     \* in the controller: reads and writes [buf, tok]
          half,           \* [r, w]: the next burst of the oldest read, write
          wexp            \* history: the token of the write whose data was asked for
memVars == <<portVars, pq, user, ctlr, ctlw, half, wexp>>

Idle == {x \in Ids : user[x].st = "idle"}
\* the caches: a request stays until taken
Presented(i) ==
  IF pq # None /\ ~(TakeRead(i) \/ TakeWrite(i)) THEN {pq}
  ELSE {None} \cup {<<[id |-> x, we |-> we, tok |-> 1 - user[x].tok]>> : x \in Idle, we \in BOOLEAN}
Given(i, x) == i.r_ready /\ r # None /\ r[1].id = x
Done(i, x) == w_ret(i) /\ wbuf[w_dj].id = x
UserNext(i, x, nq) ==
  IF nq # None /\ nq # pq /\ nq[1].id = x
  THEN [st |-> IF nq[1].we THEN "wr" ELSE "rd", tok |-> nq[1].tok, beat |-> 0]
  ELSE IF Given(i, x)
  THEN [user[x] EXCEPT !.st = IF r[1].beat = 3 THEN "idle" ELSE @, !.beat = (@ + 1) % 4]
  ELSE IF Done(i, x) THEN [user[x] EXCEPT !.st = "idle"] ELSE user[x]

\* the controller and the PHY
Asked(we) == <<[buf |-> rq[1].buf, tok |-> IF we THEN wbuf[rq[1].buf].tok
                                           ELSE user[rbuf[rq[1].buf].id].tok]>>
Entered(i, we) == IF rq_go(i) /\ rq[1].we = we THEN Asked(we) ELSE <<>>
Bursts(c, h) == IF c = <<>> THEN {None} ELSE {None, <<[j |-> c[1].buf, half |-> h, tok |-> c[1].tok]>>}
Left(c, burst) == IF burst # None /\ burst[1].half = 1 THEN Tail(c) ELSE c
Flip(h, burst) == IF burst # None THEN 1 - h ELSE h

MemTick(i, nq) ==
  /\ PortTick(i) /\ pq' = nq
  /\ user' = [x \in Ids |-> UserNext(i, x, nq)]
  /\ ctlr' = Left(ctlr, i.rd) \o Entered(i, FALSE)
  /\ ctlw' = Left(ctlw, i.wr) \o Entered(i, TRUE)
  /\ half' = [r |-> Flip(half.r, i.rd), w |-> Flip(half.w, i.wr)]
  /\ wexp' = IF i.wr = None THEN None ELSE <<i.wr[1].tok>>
Ready(v) == IF v THEN BOOLEAN ELSE {TRUE}     \* without a valid, a ready changes nothing
Inputs ==
  {[q |-> pq, rq_ready |-> a, r_ready |-> b, w_ready |-> c, rd |-> d, wr |-> e] :
     a \in Ready(rq # None), b \in Ready(r # None), c \in Ready(w_valid), d \in Bursts(ctlr, half.r), e \in Bursts(ctlw, half.w)}
MemInit ==
  /\ PortInit /\ pq = None /\ user = [x \in Ids |-> [st |-> "idle", tok |-> 0, beat |-> 0]]
  /\ ctlr = <<>> /\ ctlw = <<>> /\ half = [r |-> 0, w |-> 0] /\ wexp = None
MemNext == \E i \in Inputs : \E nq \in Presented(i) : MemTick(i, nq)
MemSpec == MemInit /\ [][MemNext]_memVars
\* The neighbours do what they owe: the controller takes a request and serves the bursts of
\* those it holds (Ddr4Ctl, RequestServed), the crossing takes a beat and a done (DdrSync,
\* CrossingEnds), and the clock runs: it does not stop in a state a cycle would change with
\* nothing from the neighbours.
Still == ~(s_on /\ r = None) /\ ~(pq # None /\ rq = None /\ Frees(pq[1].we) # {}) /\ w_last = None
MemFair ==
  /\ []<>(rq = None) \/ []<><<TRUE>>_rq
  /\ []<>(ctlr = <<>>) \/ []<><<TRUE>>_(half.r)
  /\ []<>(ctlw = <<>>) \/ []<><<TRUE>>_(half.w)
  /\ []<>(r = None) \/ []<><<TRUE>>_r
  /\ []<>(~w_valid) \/ []<><<~(w_dones \subseteq w_dones')>>_wbuf
  /\ []<>Still \/ []<><<TRUE>>_memVars
MemLive == MemSpec /\ MemFair

-----------------------------------------------------------------------------
\* A beat in the output register is the one its id is owed next, of the line that id asked
\* for: not a beat of the line the buffer held before, nor of one it holds already for a
\* later request (ddr4_port_line.v:9-11).
StreamExact == r # None =>
  LET u == user[r[1].id] IN u.st = "rd" /\ u.beat = r[1].beat /\ u.tok = r[1].tok

\* Every burst in the controller comes to a buffer that waits for exactly it, and no two
\* requests in flight have one buffer (ddr4_port_line.v:157-165).
BuffersExact ==
  /\ \A k \in DOMAIN ctlr : LET b == rbuf[ctlr[k].buf] IN
       /\ b.busy /\ user[b.id] = [st |-> "rd", tok |-> ctlr[k].tok, beat |-> 0]
       /\ b.got = (IF k = 1 /\ half.r = 1 THEN {0} ELSE {})
       /\ \A m \in DOMAIN ctlr : ctlr[m].buf = ctlr[k].buf => m = k
       /\ \A m \in DOMAIN sq : sq[m] # ctlr[k].buf
  /\ \A k \in DOMAIN ctlw : LET b == wbuf[ctlw[k].buf] IN
       /\ b.busy /\ ~b.done /\ b.tok = ctlw[k].tok /\ user[b.id].st = "wr"
       /\ \A m \in DOMAIN ctlw : ctlw[m].buf = ctlw[k].buf => m = k

\* The data handed over the cycle after the PHY asks is the asked write's
\* (ddr4_port_line.v:8-9, 122-124).
WriteDataExact == wd = wexp

\* A write's done goes back once, to the id that wrote, when its data has gone
\* (ddr4_port_line.v:11-12).
DonesExact == \A j \in WBuf : wbuf[j].done =>
  /\ wbuf[j].busy /\ user[wbuf[j].id].st = "wr"
  /\ \A k \in DOMAIN ctlw : ctlw[k].buf # j

\* A write's own data goes out, and its done goes back once, after it
\* (ddr4_port_line.v:8-12).
WritesExact == WriteDataExact /\ DonesExact

\* Every request is answered in full, even one that waits for a buffer which only another
\* request's last beat or done frees (q_ready, ddr4_port_line.v:80): the neighbours' progress
\* is enough, whatever the order in which they make it.
RequestsAnswered == \A x \in Ids : user[x].st # "idle" ~> user[x].st = "idle"

-----------------------------------------------------------------------------
\* The parts of the inductive invariant: what the registers and queues hold,
LineType ==
  /\ rbuf \in [RBuf -> [busy : BOOLEAN, got : SUBSET Halves, id : Ids, lo : {0, 1}, hi : {0, 1}]]
  /\ wbuf \in [WBuf -> [busy : BOOLEAN, done : BOOLEAN, id : Ids, tok : {0, 1}]]
  /\ \/ rq = None
     \/ \E j \in RBuf : rq = <<[we |-> FALSE, buf |-> j]>>
     \/ \E j \in WBuf : rq = <<[we |-> TRUE, buf |-> j]>>
  /\ sq \in Seq(RBuf) /\ s_beat \in 0..3
  /\ r = None \/ \E x \in [id : Ids, beat : 0..3, tok : {0, 1}] : r = <<x>>
  /\ w_last = None \/ \E j \in WBuf : w_last = <<j>>
  /\ pq = None \/ \E x \in [id : Ids, we : BOOLEAN, tok : {0, 1}] : pq = <<x>>
  /\ user \in [Ids -> [st : {"idle", "rd", "wr"}, tok : {0, 1}, beat : 0..3]]
  /\ ctlr \in Seq([buf : RBuf, tok : {0, 1}]) /\ ctlw \in Seq([buf : WBuf, tok : {0, 1}])
  /\ half \in [r : {0, 1}, w : {0, 1}]
\* an id has one buffer at most, and none before its request is taken
OwnersExact ==
  /\ \A j \in RBuf : rbuf[j].busy => user[rbuf[j].id].st = "rd"
  /\ \A j, m \in RBuf : rbuf[j].busy /\ rbuf[m].busy /\ rbuf[j].id = rbuf[m].id => j = m
  /\ \A j \in WBuf : wbuf[j].busy => user[wbuf[j].id].st = "wr"
  /\ \A j, m \in WBuf : wbuf[j].busy /\ wbuf[m].busy /\ wbuf[j].id = wbuf[m].id => j = m
  /\ pq # None =>
       /\ user[pq[1].id] = [st |-> IF pq[1].we THEN "wr" ELSE "rd", tok |-> pq[1].tok, beat |-> 0]
       /\ \A j \in RBuf : rbuf[j].busy => rbuf[j].id # pq[1].id
       /\ \A j \in WBuf : wbuf[j].busy => wbuf[j].id # pq[1].id
       /\ r # None => r[1].id # pq[1].id
\* where a read is before it streams, with how much of its line has come,
ReadsPlaced ==
  /\ rq # None /\ ~rq[1].we =>
       /\ rbuf[rq[1].buf].busy /\ rbuf[rq[1].buf].got = {} /\ user[rbuf[rq[1].buf].id].beat = 0
       /\ \A k \in DOMAIN ctlr : ctlr[k].buf # rq[1].buf
       /\ \A k \in DOMAIN sq : sq[k] # rq[1].buf
  /\ \A k \in DOMAIN ctlr : LET b == rbuf[ctlr[k].buf] IN
       /\ b.busy /\ user[b.id] = [st |-> "rd", tok |-> ctlr[k].tok, beat |-> 0]
       /\ b.got = (IF k = 1 /\ half.r = 1 THEN {0} ELSE {})
       /\ k = 1 /\ half.r = 1 => b.lo = ctlr[k].tok
       /\ \A m \in DOMAIN ctlr : ctlr[m].buf = ctlr[k].buf => m = k
       /\ \A m \in DOMAIN sq : sq[m] # ctlr[k].buf
  /\ half.r = 1 => ctlr # <<>>
\* how far the beats of each read in the stream have gone,
StreamPlaced ==
  /\ \A k \in DOMAIN sq : LET b == rbuf[sq[k]] IN
       /\ b.busy /\ b.lo = user[b.id].tok /\ b.hi = user[b.id].tok
       /\ user[b.id].beat = (IF k # 1 THEN 0 ELSE IF r # None /\ s_beat > 0 THEN s_beat - 1 ELSE s_beat)
       /\ \A m \in DOMAIN sq : sq[m] = sq[k] => m = k
  /\ s_beat > 0 => sq # <<>>
  /\ r # None =>
       /\ user[r[1].id] = [st |-> "rd", tok |-> r[1].tok, beat |-> r[1].beat]
       /\ r[1].beat = (IF s_beat = 0 THEN 3 ELSE s_beat - 1)
       /\ IF s_beat = 0 THEN \A j \in RBuf : rbuf[j].busy => rbuf[j].id # r[1].id
          ELSE rbuf[sq[1]].id = r[1].id
\* and where a write is until its done.
WritesPlaced ==
  /\ rq # None /\ rq[1].we =>
       /\ wbuf[rq[1].buf].busy /\ ~wbuf[rq[1].buf].done /\ w_last # <<rq[1].buf>>
       /\ \A k \in DOMAIN ctlw : ctlw[k].buf # rq[1].buf
  /\ \A k \in DOMAIN ctlw : LET b == wbuf[ctlw[k].buf] IN
       /\ b.busy /\ ~b.done /\ b.tok = ctlw[k].tok /\ w_last # <<ctlw[k].buf>>
       /\ \A m \in DOMAIN ctlw : ctlw[m].buf = ctlw[k].buf => m = k
  /\ half.w = 1 => ctlw # <<>>
  /\ w_last # None => wbuf[w_last[1]].busy /\ ~wbuf[w_last[1]].done
  /\ \A j \in WBuf : wbuf[j].done => wbuf[j].busy
  /\ wd = wexp
\* A request in flight is in one place: presented, asked of the controller, in it, in the
\* stream or with its last beat in the output register (a write: at the controller or done), its
\* buffer is its own from when it is taken to its last beat or done, and its id has had the
\* beats that place says (ddr4_port_line.v:76-176).
LineInv == LineType /\ OwnersExact /\ ReadsPlaced /\ StreamPlaced /\ WritesPlaced
=============================================================================
