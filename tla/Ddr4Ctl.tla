------------------------------ MODULE Ddr4Ctl -------------------------------
(***************************************************************************)
(* The DDR4 controller (src/ddr4_ctl.v): a queue of line requests served   *)
(* strictly in order, two bursts each, whose rows open and close ahead of  *)
(* them; refresh, ZQ calibration and the PHY's VT tracking.                *)
(*                                                                         *)
(* A Tick is a cycle of ui_clk.  A line is its bank and its row (the       *)
(* column does not matter).  Row commands are chosen a cycle before the    *)
(* slots they issue in.  age and acts are history: how long ago each       *)
(* command issued, counted apart from the controller's own counters.       *)
(***************************************************************************)
EXTENDS Naturals, Sequences, FiniteSets, FiniteSetsExt

CONSTANTS BG,         \* banks in each of the two bank groups
          Rows, QN,   \* rows of a bank; entries of the queue
          T_RCD, T_RAS, T_RP, T_RTP, T_WRP, T_RRD_S, T_RRD_L, T_FAW, T_CCD_L, T_WTR_L,
          T_WTR_S, T_RTW, T_RPREF, T_RFC, T_ZQCS, T_REFI, PER_INTVL, VT_INJ, VT_GAP,
          ZQ_EVERY,   \* refreshes between ZQ calibrations, less one
          READ_LAT,   \* cycles from a read command to its data (the PHY's)
          NREQ        \* bound: requests in a behaviour

Bank == 0..2*BG-1
Group == {0, 1}
grp(b) == b \div BG
Line == [b : Bank, r : Rows]

\* a command's counter is set to T - 1: at T = 1 its zero flag would not follow it
ASSUME TimingAssumption ==
  /\ \A t \in {T_RCD, T_RAS, T_RP, T_RTP, T_WRP, T_RRD_S, T_RRD_L, T_CCD_L, T_WTR_L,
               T_WTR_S, T_RTW, T_RFC, T_ZQCS} : t \in Nat /\ t >= 2
  /\ T_RRD_S <= T_RRD_L /\ T_WTR_S <= T_WTR_L /\ BG \in Nat \ {0} /\ QN \in Nat \ {0}
  \* a REF outlasts what it overrides in the banks' ACT counters, a PRE's tRP and a ZQCS
  /\ T_RP <= T_RFC /\ T_ZQCS <= T_RFC
  /\ T_FAW \in Nat /\ T_FAW >= 2 /\ T_RPREF \in Nat /\ T_REFI \in Nat
ASSUME RowsAssumption == Rows \subseteq Nat /\ Rows # {}

VARIABLES q, h_half,      \* the queue of [we, inj, hit, line]; the head's first burst has issued
          bank,           \* [open, row] of each
          own,            \* [v, row, miss]: each bank's owner, from last cycle's queue
          t, z,           \* the counters and their registered zero flags
          faw, lp,        \* cycles since the last four ACTs and the last PRE
          pre, act,       \* the row commands chosen last cycle: <<b>>, <<[b, row]>>
          r_st, r_cnt, r_owed, r_wait, zq_cnt,    \* refresh
          vt,             \* VT tracking
          coming,         \* the PHY: reads whose data is on its way
          left, age, acts

ctlVars == <<q, h_half, bank, own, t, z, faw, lp, pre, act, r_st, r_cnt, r_owed, r_wait,
             zq_cnt, vt, coming, left, age, acts>>

dn(x) == IF x = 0 THEN 0 ELSE x - 1
mx(x, y) == IF x > y THEN x ELSE y

\* ---- this cycle's decisions, all of the state
h == q[1]
h_b == h.line.b
h_g == grp(h_b)
ref_want == r_owed # 0 /\ vt.rd
ref_hold == r_st # "RUN" \/ ref_want
vt_block == vt.cnt >= VT_GAP /\ ~vt.gapd

faw_ok == faw[4] >= T_FAW - 1
pre_c == {b \in Bank : bank[b].open /\ own[b].v /\ own[b].miss /\ z.pre[b]}
act_c == {b \in Bank : ~bank[b].open /\ own[b].v /\ z.act[b] /\ z.actg[grp(b)] /\ faw_ok}
\* the head's bank first, then the lowest; behind an empty queue the head is a stale line
Pick(C) == IF C = {} THEN {<<>>}
           ELSE IF q = <<>> THEN {<<b>> : b \in C}
           ELSE IF h_b \in C THEN {<<h_b>>} ELSE {<<Min(C)>>}
pre_d == IF ref_hold \/ pre # <<>> THEN {<<>>} ELSE Pick(pre_c)
act_d == IF ref_hold \/ act # <<>> THEN {<<>>} ELSE Pick(act_c)

h_rdy == q # <<>> /\ h.hit /\ z.rcd[h_b] /\ z.casg[h_g]
rd_ok == z.rdg[h_g] /\ ~vt_block
inj_cas == vt.owed /\ h_rdy /\ ~h_half /\ rd_ok /\ ~ref_hold
cas_go == h_rdy /\ ~inj_cas /\ (IF h.we THEN z.wr ELSE rd_ok) /\ (h_half \/ ~ref_hold)
h_done == cas_go /\ h_half
rd_cas == inj_cas \/ (cas_go /\ ~h.we)
wr_cas == cas_go /\ h.we

any_open == \E b \in Bank : bank[b].open
row_busy == pre # <<>> \/ act # <<>>
prea_go == /\ r_st = "CLOSE" /\ ~h_half /\ ~row_busy /\ any_open
           /\ \A b \in Bank : bank[b].open => z.pre[b]
ref_go == r_st = "CLOSE" /\ ~h_half /\ ~row_busy /\ ~any_open /\ lp >= T_RPREF
zq_go == r_st = "ZQW" /\ ~row_busy /\ r_wait = 0

inj_enqOpen ==    \* faulty: only into an open bank
  vt.owed /\ q = <<>> /\ any_open
inj_enq == vt.owed /\ q = <<>>
inj_line == IF any_open THEN LET b == Min({x \in Bank : bank[x].open}) IN [b |-> b, r |-> bank[b].row]
            ELSE [b |-> 0, r |-> Min(Rows)]
rq_ready == ~inj_enq /\ Len(q) < QN

Activates(b) == act # <<>> /\ act[1].b = b
Acts(l) == Activates(l.b) /\ act[1].row = l.r
Closes(b) == prea_go \/ pre = <<b>>

-----------------------------------------------------------------------------
\* ---- the queue: hit is kept by ACT and PRE; an entering request's is looked up
n_hitNoAct(e) == e.hit /\ ~Closes(e.line.b)    \* faulty: an ACT for another entry is missed
n_hit(e) == (e.hit \/ Acts(e.line)) /\ ~Closes(e.line.b)
e_hit(l) == Acts(l) \/ (bank[l.b].open /\ bank[l.b].row = l.r /\ ~Closes(l.b))
Entry(we, inj, l) == [we |-> we, inj |-> inj, hit |-> e_hit(l), line |-> l]
Entering(rq) == IF inj_enq THEN <<Entry(FALSE, TRUE, inj_line)>>
                ELSE IF rq = <<>> THEN <<>> ELSE <<Entry(rq[1].we, FALSE, rq[1].line)>>
QueueTick(rq) ==
  LET kept == [k \in DOMAIN q |-> [q[k] EXCEPT !.hit = n_hit(q[k])]]
  IN  /\ q' = (IF h_done THEN Tail(kept) ELSE kept) \o Entering(rq)
      /\ h_half' = (h_half # cas_go)

\* ---- the row stage; own is this cycle's queue, seen by the next
Queued(b) == {k \in DOMAIN q : q[k].line.b = b}
owner(b) == q[Min(Queued(b))].line
own_n(b) == IF Queued(b) = {} THEN [v |-> FALSE, row |-> Min(Rows), miss |-> FALSE]
            ELSE [v |-> TRUE, row |-> owner(b).r, miss |-> bank[b].row # owner(b).r]
RowTick ==
  /\ own' = [b \in Bank |-> own_n(b)]
  /\ pre' \in pre_d
  /\ \E a \in act_d : act' = IF a = <<>> THEN <<>> ELSE <<[b |-> a[1], row |-> own[a[1]].row]>>
  /\ bank' = [b \in Bank |-> [open |-> (bank[b].open \/ Activates(b)) /\ ~Closes(b),
                              row |-> IF Activates(b) THEN act[1].row ELSE bank[b].row]]

\* ---- the counters: they count down; a command sets its own
ActIn(g) == act # <<>> /\ grp(act[1].b) = g
CasTo(b) == (rd_cas \/ wr_cas) /\ h_b = b
t_preLast(b) ==     \* faulty: a CAS sets the counter, however far tRAS still is
  IF Activates(b) THEN T_RAS - 1
  ELSE IF rd_cas /\ h_b = b THEN T_RTP - 1 ELSE IF wr_cas /\ h_b = b THEN T_WRP - 1
  ELSE dn(t.pre[b])
t_pre(b) ==
  IF rd_cas /\ h_b = b THEN mx(dn(t.pre[b]), T_RTP - 1)
  ELSE IF wr_cas /\ h_b = b THEN mx(dn(t.pre[b]), T_WRP - 1)
  ELSE IF Activates(b) THEN T_RAS - 1 ELSE dn(t.pre[b])
t_act(b) ==
  IF zq_go THEN T_ZQCS - 1 ELSE IF ref_go THEN T_RFC - 1
  ELSE IF Closes(b) THEN mx(dn(t.act[b]), T_RP - 1) ELSE dn(t.act[b])
t_n ==
  [rcd  |-> [b \in Bank |-> IF Activates(b) THEN T_RCD - 1 ELSE dn(t.rcd[b])],
   pre  |-> [b \in Bank |-> t_pre(b)],
   act  |-> [b \in Bank |-> t_act(b)],
   actg |-> [g \in Group |-> IF ActIn(g) THEN T_RRD_L - 1
                             ELSE IF act # <<>> THEN mx(dn(t.actg[g]), T_RRD_S - 1) ELSE dn(t.actg[g])],
   casg |-> [g \in Group |-> IF (rd_cas \/ wr_cas) /\ h_g = g THEN T_CCD_L - 1 ELSE dn(t.casg[g])],
   rdg  |-> [g \in Group |-> IF wr_cas /\ h_g = g THEN T_WTR_L - 1
                             ELSE IF wr_cas THEN mx(dn(t.rdg[g]), T_WTR_S - 1) ELSE dn(t.rdg[g])],
   wr   |-> IF rd_cas THEN T_RTW - 1 ELSE dn(t.wr)]
\* a counter is zero next cycle when no command sets it and it is at most 1 now
lo(x) == x <= 1
z_act(b) == lo(t.act[b]) /\ ~Closes(b) /\ ~ref_go /\ ~zq_go
z_n ==
  [rcd  |-> [b \in Bank |-> lo(t.rcd[b]) /\ ~Activates(b)],
   pre  |-> [b \in Bank |-> lo(t.pre[b]) /\ ~Activates(b) /\ ~CasTo(b)],
   act  |-> [b \in Bank |-> z_act(b)],
   actg |-> [g \in Group |-> lo(t.actg[g]) /\ act = <<>>],
   casg |-> [g \in Group |-> lo(t.casg[g]) /\ ~((rd_cas \/ wr_cas) /\ h_g = g)],
   rdg  |-> [g \in Group |-> lo(t.rdg[g]) /\ ~wr_cas],
   wr   |-> lo(t.wr) /\ ~rd_cas]
upto(x, m) == IF x = m THEN m ELSE x + 1
CounterTick ==
  /\ t' = t_n /\ z' = z_n
  /\ faw' = [k \in 1..4 |-> IF act = <<>> THEN upto(faw[k], T_FAW)
                            ELSE IF k = 1 THEN 0 ELSE upto(faw[k-1], T_FAW)]
  /\ lp' = IF prea_go \/ pre # <<>> THEN 0 ELSE upto(lp, T_RPREF)

\* ---- refresh: one owed every tREFI; the banks close, REF; at times a ZQCS, tRFC later
refDue == r_cnt = T_REFI - 1
RefreshStateStuck ==    \* faulty: ZQ calibration waits for the banks' owners to go
  r_st' = CASE r_st = "RUN" /\ ref_want /\ ~h_half -> "CLOSE"
            [] r_st = "CLOSE" /\ ref_go -> IF zq_cnt = 0 THEN "ZQW" ELSE "RUN"
            [] r_st = "ZQW" /\ zq_go /\ ~\E b \in Bank : own[b].v -> "RUN"
            [] OTHER -> r_st
RefreshState ==
  r_st' = CASE r_st = "RUN" /\ ref_want /\ ~h_half -> "CLOSE"
            [] r_st = "CLOSE" /\ ref_go -> IF zq_cnt = 0 THEN "ZQW" ELSE "RUN"
            [] r_st = "ZQW" /\ zq_go -> "RUN"
            [] OTHER -> r_st
r_owed_n == (r_owed + (IF refDue THEN 1 ELSE 0) - (IF ref_go THEN 1 ELSE 0)) % 16
RefreshTick ==
  /\ RefreshState
  /\ r_cnt' = IF refDue THEN 0 ELSE r_cnt + 1
  /\ r_owed' = r_owed_n
  /\ r_wait' = IF ref_go THEN T_RFC - 1 ELSE IF r_st = "ZQW" THEN dn(r_wait) ELSE r_wait
  /\ zq_cnt' = IF ~ref_go THEN zq_cnt ELSE IF zq_cnt = 0 THEN ZQ_EVERY ELSE zq_cnt - 1

\* ---- VT tracking: in every interval a read, its data, and three cycles without a read
ret == 1 \in coming     \* the PHY: rdDataEn or per_rd_done
vt_n ==
  LET quiet == IF rd_cas THEN 0 ELSE upto(vt.quiet, 3)
      owed == IF vt.cnt = VT_INJ /\ ~vt.rd THEN TRUE
              ELSE vt.owed /\ ~(inj_cas \/ inj_enq \/ rd_cas)
  IN  IF vt.cnt = PER_INTVL - 1
      THEN [cnt |-> 0, rd |-> FALSE, gapd |-> FALSE, data |-> FALSE, gt |-> FALSE,
            owed |-> owed, quiet |-> quiet]
      ELSE [cnt |-> vt.cnt + 1, rd |-> vt.rd \/ rd_cas, gapd |-> vt.gapd \/ vt.quiet = 3,
            data |-> vt.data \/ (vt.rd /\ ret), gt |-> vt.gt \/ (vt.rd /\ vt.gapd /\ vt.data),
            owed |-> owed, quiet |-> quiet]
VtTick ==
  /\ vt' = vt_n
  /\ coming' = {n - 1 : n \in coming \ {1}} \cup (IF rd_cas THEN {READ_LAT} ELSE {})

\* ---- history: cycles since each command issued, as far back as a spacing looks
Far == [act |-> Max({T_RCD, T_RAS, T_RRD_L}), pre |-> Max({T_RP, T_RPREF}),
        rd |-> Max({T_RTP, T_CCD_L, T_RTW}), wr |-> Max({T_WRP, T_CCD_L, T_WTR_L}),
        ref |-> T_RFC, zq |-> T_ZQCS]
since(x, far, now) == IF now THEN 1 ELSE upto(x, far)
AgeTick ==
  /\ age' = [act |-> [b \in Bank |-> since(age.act[b], Far.act, Activates(b))],
             pre |-> [b \in Bank |-> since(age.pre[b], Far.pre, Closes(b))],
             rd  |-> [b \in Bank |-> since(age.rd[b], Far.rd, rd_cas /\ h_b = b)],
             wr  |-> [b \in Bank |-> since(age.wr[b], Far.wr, wr_cas /\ h_b = b)],
             ref |-> since(age.ref, Far.ref, ref_go), zq |-> since(age.zq, Far.zq, zq_go)]
  /\ acts' = {n + 1 : n \in {m \in acts : m < T_FAW - 1}} \cup (IF act = <<>> THEN {} ELSE {1})

-----------------------------------------------------------------------------
RequestChoices ==
  IF rq_ready /\ left > 0 THEN {<<>>} \cup {<<r>> : r \in [we : BOOLEAN, line : Line]} ELSE {<<>>}
Tick(rq) ==
  /\ QueueTick(rq) /\ RowTick /\ CounterTick /\ RefreshTick /\ VtTick /\ AgeTick
  /\ left' = left - Len(rq)
CtlInit ==
  /\ q = <<>> /\ h_half = FALSE /\ pre = <<>> /\ act = <<>>
  /\ bank = [b \in Bank |-> [open |-> FALSE, row |-> Min(Rows)]]
  /\ own = [b \in Bank |-> [v |-> FALSE, row |-> Min(Rows), miss |-> FALSE]]
  /\ t = [rcd |-> [b \in Bank |-> 0], pre |-> [b \in Bank |-> 0], act |-> [b \in Bank |-> T_RP],
          actg |-> [g \in Group |-> 0], casg |-> [g \in Group |-> 0], rdg |-> [g \in Group |-> 0], wr |-> 0]
  /\ z = [rcd |-> [b \in Bank |-> TRUE], pre |-> [b \in Bank |-> TRUE], act |-> [b \in Bank |-> FALSE],
          actg |-> [g \in Group |-> TRUE], casg |-> [g \in Group |-> TRUE], rdg |-> [g \in Group |-> TRUE],
          wr |-> TRUE]
  /\ faw = [k \in 1..4 |-> T_FAW] /\ lp = T_RPREF
  /\ r_st = "RUN" /\ r_cnt = 0 /\ r_owed = 1 /\ r_wait = 0 /\ zq_cnt = ZQ_EVERY
  /\ vt = [cnt |-> 0, rd |-> FALSE, gapd |-> FALSE, data |-> FALSE, gt |-> FALSE, owed |-> FALSE, quiet |-> 0]
  /\ coming = {} /\ left = NREQ
  /\ age = [act |-> [b \in Bank |-> Far.act], pre |-> [b \in Bank |-> Far.pre],
            rd |-> [b \in Bank |-> Far.rd], wr |-> [b \in Bank |-> Far.wr],
            ref |-> Far.ref, zq |-> Far.zq]
  /\ acts = {}
CtlNext == \E rq \in RequestChoices : Tick(rq)
CtlSpec == CtlInit /\ [][CtlNext]_ctlVars
\* the clock runs; a tick is always possible and always moves a counter
ClockRuns == []<><<TRUE>>_ctlVars

-----------------------------------------------------------------------------
\* An entry's hit bit is whether its row is open, through every ACT, PRE and PREA and the
\* cycle it entered in: a CAS with the bit stale would read or write another row
\* (ddr4_ctl.v:242-260).
HitExact ==
  \A k \in DOMAIN q :
    q[k].hit = (bank[q[k].line.b].open /\ bank[q[k].line.b].row = q[k].line.r)

\* The commands in this cycle's slots keep every spacing of the DRAM that the controller times,
\* as the history of commands measures them, and no two of them are for one bank
\* (ddr4_ctl.v:76-92, 435-438).  It does not time one REF after another: RefreshSpaced.
ActLegal == \A b \in Bank : Activates(b) =>
  /\ ~bank[b].open /\ pre # <<b>>
  /\ age.pre[b] >= T_RP /\ age.ref >= T_RFC /\ age.zq >= T_ZQCS
  /\ \A c \in Bank : age.act[c] >= (IF grp(c) = grp(b) THEN T_RRD_L ELSE T_RRD_S)
  /\ Cardinality(acts) < 4
PreLegal == \A b \in Bank : Closes(b) /\ bank[b].open =>
  age.act[b] >= T_RAS /\ age.rd[b] >= T_RTP /\ age.wr[b] >= T_WRP /\ ~CasTo(b)
CasLegal == rd_cas \/ wr_cas =>
  /\ bank[h_b] = [open |-> TRUE, row |-> h.line.r] /\ age.act[h_b] >= T_RCD
  /\ \A c \in Bank :
       /\ grp(c) = h_g => age.rd[c] >= T_CCD_L /\ age.wr[c] >= T_CCD_L
       /\ rd_cas => age.wr[c] >= (IF grp(c) = h_g THEN T_WTR_L ELSE T_WTR_S)
       /\ wr_cas => age.rd[c] >= T_RTW
RefLegal == ref_go \/ zq_go =>
  /\ ~any_open /\ act = <<>> /\ ~prea_go /\ pre = <<>> /\ ~(ref_go /\ zq_go)
  /\ ref_go => \A b \in Bank : age.pre[b] >= T_RPREF
  /\ zq_go => age.ref >= T_RFC /\ age.zq >= T_ZQCS
TimingSafe == ActLegal /\ PreLegal /\ CasLegal /\ RefLegal

\* A bank's owner is a cycle stale, and still no row that the head waits for closes under it:
\* once the head's row is open only a refresh closes it (ddr4_ctl.v:135-137).
HeadRowKept ==
  q # <<>> /\ h.hit => pre # <<h_b>>

\* Nor does a stale owner open a wrong row or close a wanted one: the bank of a row command has
\* a request, and the oldest wants the row an ACT opens, not the one a PRE closes
\* (ddr4_ctl.v:135-137).
OwnerObeyed ==
  /\ act # <<>> => Queued(act[1].b) # {} /\ owner(act[1].b).r = act[1].row
  /\ pre # <<>> => Queued(pre[1]) # {} /\ owner(pre[1]).r # bank[pre[1]].row

\* The queue's picture of the banks is the banks': hit bits are exact, the head's row stays
\* open until it has been served and row commands do what the oldest request of their bank
\* wants (ddr4_ctl.v:135-137, 242-260).
RowsExact == HitExact /\ HeadRowKept /\ OwnerObeyed

\* Refreshes fall behind by no more than JEDEC allows -- by one here (ddr4_ctl.v:439).
RefreshesOwed == r_owed <= 1

\* A refresh issues early in its interval, with room for its tRFC and the ZQ calibration after it
\* before the next is owed: REF itself waits for no counter (ddr4_ctl.v:226).
RefreshPrompt == ref_go => r_cnt + T_RFC + (IF zq_cnt = 0 THEN T_ZQCS ELSE 0) < T_REFI

\* Every VT-tracking interval ends with its read, its data and its gap seen
\* (ddr4_ctl.v:37-43, 448-450).
VtTracked == vt.cnt = PER_INTVL - 1 => vt.gt

\* A REF finds the last one, and the ZQ calibration after it, over: the DRAM's tRFC and tZQCS,
\* which ref_go waits for by no counter (ddr4_ctl.v:226; the bench's ddr4_phy_model.vh:192).
RefreshSpaced == ref_go => age.ref >= T_RFC /\ age.zq >= T_ZQCS

\* Every request leaves the queue: refresh, ZQ calibration, VT tracking and the other banks'
\* row commands delay it, never for good (ddr4_ctl.v:25-31).
RequestServed == (\E k \in DOMAIN q : ~q[k].inj) ~> (\A k \in DOMAIN q : q[k].inj)
=============================================================================
