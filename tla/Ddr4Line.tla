------------------------------ MODULE Ddr4Line ------------------------------
(***************************************************************************)
(* The memory as the caches see it (src/ddr4_mem.v): the line port on the  *)
(* DDR4 controller, and the PHY's pipelines between them.  The DMA port is *)
(* idle.  cq holds what the controller's queue carries beside a line (its  *)
(* buffer tag); a line is chosen as its request enters the controller.     *)
(***************************************************************************)
EXTENDS LineMem, Ddr4Ctl

CONSTANTS WRITE_LAT       \* cycles from a write command to the PHY's asking for its data
VARIABLES cq,             \* [buf, tok] of each requester's entry of q
          rpipe, wpipe,   \* the PHY: bursts on their way, [n, b]: due in n cycles
          cap             \* the crossing moves beats and dones at every other edge
lineVars == <<memVars, ctlVars, cq, rpipe, wpipe, cap>>

Due(pipe) == IF \E e \in pipe : e.n = 1 THEN <<(CHOOSE e \in pipe : e.n = 1).b>> ELSE None
Advance(pipe, new) == {[e EXCEPT !.n = @ - 1] : e \in {f \in pipe : f.n > 1}} \cup new
\* the burst a column command starts: of the head's buffer, unless the read is injected
BurstAny(cas, lat) ==     \* faulty: an injected read's data goes to the head's buffer too
  IF cas /\ cq # <<>>
  THEN {[n |-> lat, b |-> [j |-> cq[1].buf, half |-> IF h_half THEN 1 ELSE 0, tok |-> cq[1].tok]]}
  ELSE {}
Burst(cas, lat) ==
  IF cas /\ ~inj_cas /\ ~h.inj
  THEN {[n |-> lat, b |-> [j |-> cq[1].buf, half |-> IF h_half THEN 1 ELSE 0, tok |-> cq[1].tok]]}
  ELSE {}
LineInput == [q |-> pq, rq_ready |-> rq_ready /\ left > 0, r_ready |-> ~cap, w_ready |-> ~cap,
              rd |-> Due(rpipe), wr |-> Due(wpipe)]
LineTick(i, nq, l) ==
  /\ MemTick(i, nq)
  /\ Tick(IF rq_go(i) THEN <<[we |-> rq[1].we, line |-> l]>> ELSE <<>>)
  /\ cq' = (IF h_done /\ ~h.inj THEN Tail(cq) ELSE cq) \o (IF rq_go(i) THEN Asked(rq[1].we) ELSE <<>>)
  /\ rpipe' = Advance(rpipe, Burst(rd_cas, READ_LAT))
  /\ wpipe' = Advance(wpipe, Burst(wr_cas, WRITE_LAT))
  /\ cap' = ~cap
LineInit == MemInit /\ CtlInit /\ cq = <<>> /\ rpipe = {} /\ wpipe = {} /\ cap = FALSE
\* bound: NREQ requests, each with the lowest id that is idle (an id is only a name)
MayPresent(nq) == nq # None /\ nq # pq => left > Len(rq) + Len(pq) /\ nq[1].id = Min(Idle)
LineNext ==
  \E i \in {LineInput} : \E nq \in Presented(i) :
    MayPresent(nq) /\ \E l \in IF rq_go(i) THEN Line ELSE {CHOOSE x \in Line : TRUE} : LineTick(i, nq, l)
LineSpec == LineInit /\ [][LineNext]_lineVars

\* The controller and its PHY serve the line port as the port's own model assumes: reads in
\* order and writes in order, each burst of its request's buffer, nothing for an injected
\* read.  So what is checked of the line port holds of the two together
\* (ddr4_ctl.v:20-31, 38-44).
ServesAsAssumed == MemSpec
=============================================================================
