------------------------------ MODULE PortLine ------------------------------
(***************************************************************************)
(* The caches' line port (src/ddr4_port_line.v): a requester of the DDR4   *)
(* controller that owns NR read and NW write line buffers.                 *)
(*                                                                         *)
(* A request is its id and a token that stands for its line's data; the    *)
(* token alternates at every use of an id, so data left in a buffer by an  *)
(* earlier request is told from the present one's.  A cycle's inputs are a *)
(* record; what they may be is the composition's (LineMem).               *)
(***************************************************************************)
EXTENDS Naturals, Sequences, FiniteSets, FiniteSetsExt

CONSTANTS NR, NW, Ids
ASSUME BuffersAssumption == NR \in Nat \ {0} /\ NW \in Nat \ {0} /\ Ids # {}

VARIABLES rbuf,             \* read buffers [busy, got, id, lo, hi]
          wbuf,             \* write buffers [busy, done, id, tok]
          rq,               \* the request to the controller, <<[we, buf]>>
          sq, s_beat, r,    \* the stream queue, its beat, the output register
          w_last,           \* the buffer whose second half was asked for last cycle
          wd                \* the write data handed over, <<tok>>
portVars == <<rbuf, wbuf, rq, sq, s_beat, r, w_last, wd>>

RBuf == 0..NR-1
WBuf == 0..NW-1
None == <<>>
Halves == {0, 1}

r_frees == {j \in RBuf : ~rbuf[j].busy}
w_frees == {j \in WBuf : ~wbuf[j].busy}
Frees(we) == IF we THEN w_frees ELSE r_frees
rq_go(i) == rq # None /\ i.rq_ready
q_ready(i) == Frees(i.q[1].we) # {} /\ (rq = None \/ rq_go(i))
TakeRead(i) == i.q # None /\ ~i.q[1].we /\ q_ready(i)
TakeWrite(i) == i.q # None /\ i.q[1].we /\ q_ready(i)

s_on == sq # <<>>
s_j == sq[1]
s_load(i) == s_on /\ (r = None \/ i.r_ready)
s_end(i) == s_load(i) /\ s_beat = 3
s_half == IF s_beat < 2 THEN rbuf[s_j].lo ELSE rbuf[s_j].hi
w_dones == {j \in WBuf : wbuf[j].done}
w_dj == Min(w_dones)
w_valid == w_dones # {}
w_ret(i) == w_valid /\ i.w_ready

\* i.rd: <<[j, half, tok]>>, a burst of read data; i.wr: <<[j, half]>>, write data asked for
Lands(i, j) == i.rd # None /\ i.rd[1].j = j
rbufNextEarly(i, j) ==  \* faulty: frees the buffer as its stream begins
  LET b == IF TakeRead(i) /\ j = Min(r_frees)
           THEN [rbuf[j] EXCEPT !.busy = TRUE, !.got = {}, !.id = i.q[1].id] ELSE rbuf[j]
      c == IF ~Lands(i, j) THEN b
           ELSE IF i.rd[1].half = 0 THEN [b EXCEPT !.got = @ \cup {0}, !.lo = i.rd[1].tok]
                ELSE [b EXCEPT !.got = @ \cup {1}, !.hi = i.rd[1].tok]
  IN  IF s_load(i) /\ j = s_j THEN [c EXCEPT !.busy = FALSE] ELSE c
rbufNext(i, j) ==
  LET b == IF TakeRead(i) /\ j = Min(r_frees)
           THEN [rbuf[j] EXCEPT !.busy = TRUE, !.got = {}, !.id = i.q[1].id] ELSE rbuf[j]
      c == IF ~Lands(i, j) THEN b
           ELSE IF i.rd[1].half = 0 THEN [b EXCEPT !.got = @ \cup {0}, !.lo = i.rd[1].tok]
                ELSE [b EXCEPT !.got = @ \cup {1}, !.hi = i.rd[1].tok]
  IN  IF s_end(i) /\ j = s_j THEN [c EXCEPT !.busy = FALSE] ELSE c
wbufNextSoon(i, j) ==   \* faulty: frees the buffer with its second half, its done still owed
  LET b == IF TakeWrite(i) /\ j = Min(w_frees)
           THEN [wbuf[j] EXCEPT !.busy = TRUE, !.id = i.q[1].id, !.tok = i.q[1].tok] ELSE wbuf[j]
      c == IF w_last = <<j>> THEN [b EXCEPT !.done = TRUE, !.busy = FALSE] ELSE b
  IN  IF w_ret(i) /\ j = w_dj THEN [c EXCEPT !.done = FALSE] ELSE c
wbufNextHeld(i, j) ==   \* faulty: the done goes back, the buffer stays taken
  LET b == IF TakeWrite(i) /\ j = Min(w_frees)
           THEN [wbuf[j] EXCEPT !.busy = TRUE, !.id = i.q[1].id, !.tok = i.q[1].tok] ELSE wbuf[j]
      c == IF w_last = <<j>> THEN [b EXCEPT !.done = TRUE] ELSE b
  IN  IF w_ret(i) /\ j = w_dj THEN [c EXCEPT !.done = FALSE] ELSE c
wbufNext(i, j) ==
  LET b == IF TakeWrite(i) /\ j = Min(w_frees)
           THEN [wbuf[j] EXCEPT !.busy = TRUE, !.id = i.q[1].id, !.tok = i.q[1].tok] ELSE wbuf[j]
      c == IF w_last = <<j>> THEN [b EXCEPT !.done = TRUE] ELSE b
  IN  IF w_ret(i) /\ j = w_dj THEN [c EXCEPT !.done = FALSE, !.busy = FALSE] ELSE c
sqNext(i) == (IF s_end(i) THEN Tail(sq) ELSE sq)
               \o (IF i.rd # None /\ i.rd[1].half = 1 THEN <<i.rd[1].j>> ELSE <<>>)
PortTick(i) ==
  /\ rbuf' = [j \in RBuf |-> rbufNext(i, j)]
  /\ wbuf' = [j \in WBuf |-> wbufNext(i, j)]
  /\ rq' = IF TakeRead(i) THEN <<[we |-> FALSE, buf |-> Min(r_frees)]>>
           ELSE IF TakeWrite(i) THEN <<[we |-> TRUE, buf |-> Min(w_frees)]>>
           ELSE IF rq_go(i) THEN None ELSE rq
  /\ sq' = sqNext(i)
  /\ s_beat' = IF s_load(i) THEN (s_beat + 1) % 4 ELSE s_beat
  /\ r' = IF s_load(i) THEN <<[id |-> rbuf[s_j].id, beat |-> s_beat, tok |-> s_half]>>
          ELSE IF i.r_ready THEN None ELSE r
  /\ wd' = IF i.wr = None THEN None ELSE <<wbuf[i.wr[1].j].tok>>
  /\ w_last' = IF i.wr # None /\ i.wr[1].half = 1 THEN <<i.wr[1].j>> ELSE None
PortInit ==
  /\ rbuf = [j \in RBuf |-> [busy |-> FALSE, got |-> {}, id |-> CHOOSE x \in Ids : TRUE, lo |-> 0, hi |-> 0]]
  /\ wbuf = [j \in WBuf |-> [busy |-> FALSE, done |-> FALSE, id |-> CHOOSE x \in Ids : TRUE, tok |-> 0]]
  /\ rq = None /\ sq = <<>> /\ s_beat = 0 /\ r = None /\ w_last = None /\ wd = None
=============================================================================
