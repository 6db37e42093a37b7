---------------------------- MODULE Ddr4CtlSteps ----------------------------
(***************************************************************************)
(* The DDR4 controller, for every number of banks, rows and queue entries  *)
(* and every timing: its row commands follow the queue and its commands    *)
(* keep the DRAM's spacings.                                               *)
(*                                                                         *)
(* The argument: a counter holds at least what is left of every spacing it *)
(* stands for, and a row command, chosen a cycle ahead, is still right for *)
(* its bank when it issues.                                                *)
(***************************************************************************)
EXTENDS Ddr4Ctl, TLAPS

-----------------------------------------------------------------------------
\* ---- the inductive invariant
Opt(S) == {<<>>} \cup {<<x>> : x \in S}
Item == [we : BOOLEAN, inj : BOOLEAN, hit : BOOLEAN, line : Line]
\* The types, as far as the argument needs them: VT tracking is left free.
CtlType ==
  /\ q \in Seq(Item) /\ h_half \in BOOLEAN
  /\ bank \in [Bank -> [open : BOOLEAN, row : Rows]]
  /\ own \in [Bank -> [v : BOOLEAN, row : Rows, miss : BOOLEAN]]
  /\ t \in [rcd : [Bank -> Nat], pre : [Bank -> Nat], act : [Bank -> Nat],
            actg : [Group -> Nat], casg : [Group -> Nat], rdg : [Group -> Nat], wr : Nat]
  /\ z \in [rcd : [Bank -> BOOLEAN], pre : [Bank -> BOOLEAN], act : [Bank -> BOOLEAN],
            actg : [Group -> BOOLEAN], casg : [Group -> BOOLEAN], rdg : [Group -> BOOLEAN],
            wr : BOOLEAN]
  /\ faw \in [1..4 -> 0..T_FAW] /\ lp \in 0..T_RPREF
  /\ pre \in Opt(Bank) /\ act \in Opt([b : Bank, row : Rows])
  /\ r_st \in {"RUN", "CLOSE", "ZQW"} /\ r_cnt \in Nat /\ r_owed \in Nat /\ r_wait \in Nat
  /\ age \in [act : [Bank -> Nat], pre : [Bank -> Nat], rd : [Bank -> Nat], wr : [Bank -> Nat],
              ref : Nat, zq : Nat]
  /\ acts \subseteq 1..T_FAW-1

\* The flags are the counters' zeros (asserted at ddr4_ctl.v:440-447).
FlagsExact ==
  /\ \A b \in Bank : /\ z.rcd[b] <=> t.rcd[b] = 0
                     /\ z.pre[b] <=> t.pre[b] = 0
                     /\ z.act[b] <=> t.act[b] = 0
  /\ \A g \in Group : /\ z.actg[g] <=> t.actg[g] = 0
                      /\ z.casg[g] <=> t.casg[g] = 0
                      /\ z.rdg[g] <=> t.rdg[g] = 0
  /\ z.wr <=> t.wr = 0

\* What a spacing has still to run is in its counter: a command's age and the counter that
\* guards the next one add up to the spacing at least.
BankSpaced ==
  \A b \in Bank :
    /\ age.act[b] + t.rcd[b] >= T_RCD /\ age.act[b] + t.pre[b] >= T_RAS
    /\ age.rd[b] + t.pre[b] >= T_RTP /\ age.wr[b] + t.pre[b] >= T_WRP
    /\ age.pre[b] + t.act[b] >= T_RP /\ age.ref + t.act[b] >= T_RFC
    /\ age.zq + t.act[b] >= T_ZQCS
    /\ age.act[b] >= 1 /\ age.pre[b] >= 1 /\ age.rd[b] >= 1 /\ age.wr[b] >= 1
GroupSpaced ==
  \A b \in Bank, g \in Group :
    /\ age.act[b] + t.actg[g] >= (IF grp(b) = g THEN T_RRD_L ELSE T_RRD_S)
    /\ age.wr[b] + t.rdg[g] >= (IF grp(b) = g THEN T_WTR_L ELSE T_WTR_S)
    /\ grp(b) = g => age.rd[b] + t.casg[g] >= T_CCD_L /\ age.wr[b] + t.casg[g] >= T_CCD_L
    /\ age.rd[b] + t.wr >= T_RTW
RefSpaced ==
  /\ age.ref >= 1 /\ age.zq >= 1
  /\ \A b \in Bank : age.pre[b] >= lp
  /\ r_st = "ZQW" => /\ age.ref + r_wait >= T_RFC /\ age.zq + r_wait >= T_ZQCS
                     /\ \A b \in Bank : age.pre[b] + r_wait >= T_RP /\ ~bank[b].open
\* The ACTs of the last T_FAW cycles are among the four that faw times.
FawExact == \A n \in acts : \E k \in 1..4 : n = faw[k] + 1

Oldest(k, b) == k \in DOMAIN q /\ q[k].line.b = b /\ \A j \in 1..k-1 : q[j].line.b # b
\* The owner registered last cycle is still queued, unless its row is open and it wants no
\* other; and it is the open row's rival unless the row opened last cycle.
OwnInv ==
  \A b \in Bank : own[b].v /\ (own[b].miss \/ ~bank[b].open) =>
    \E k \in DOMAIN q : /\ Oldest(k, b) /\ q[k].line.r = own[b].row
                        /\ own[b].miss /\ t.pre[b] = 0 => bank[b].row # own[b].row
\* A row command in the slots was chosen for the bank as it still is.
PreInv ==
  \A b \in Bank : pre = <<b>> =>
    /\ bank[b].open /\ t.pre[b] = 0 /\ r_st = "RUN"
    /\ \E k \in DOMAIN q : Oldest(k, b) /\ q[k].line.r # bank[b].row
ActInv ==
  \A b \in Bank : Activates(b) =>
    /\ ~bank[b].open /\ t.act[b] = 0 /\ t.actg[grp(b)] = 0 /\ faw[4] >= T_FAW /\ r_st = "RUN"
    /\ \E k \in DOMAIN q : Oldest(k, b) /\ q[k].line.r = act[1].row
\* A closed bank has no PRE to wait for.
ClosedInv == \A b \in Bank : ~bank[b].open => t.pre[b] = 0

RowInv == HitExact /\ OwnInv /\ PreInv /\ ActInv /\ ClosedInv
CtlInv == CtlType /\ FlagsExact /\ BankSpaced /\ GroupSpaced /\ RefSpaced /\ FawExact /\ RowInv

\* While a refresh or a ZQ calibration still runs no other refresh is owed, nor will be.
PacedInv ==
  /\ r_st = "CLOSE" => r_owed > 0
  /\ age.ref < T_RFC => r_owed = 0 /\ r_cnt + T_RFC < T_REFI + age.ref
  /\ age.zq < T_ZQCS => r_owed = 0 /\ r_cnt + T_ZQCS < T_REFI + age.zq
  /\ r_st = "ZQW" => r_owed = 0 /\ r_cnt + r_wait + T_ZQCS < T_REFI

-----------------------------------------------------------------------------
\* ---- the timings and the groups

\* The timings are numbers, two cycles at least, and REF outlasts the counters it overrides.
LEMMA Timings ==
  /\ T_RCD \in Nat /\ T_RAS \in Nat /\ T_RP \in Nat /\ T_RTP \in Nat /\ T_WRP \in Nat
  /\ T_RRD_S \in Nat /\ T_RRD_L \in Nat /\ T_CCD_L \in Nat /\ T_WTR_L \in Nat
  /\ T_WTR_S \in Nat /\ T_RTW \in Nat /\ T_RFC \in Nat /\ T_ZQCS \in Nat
  /\ T_RCD >= 2 /\ T_RAS >= 2 /\ T_RP >= 2 /\ T_RTP >= 2 /\ T_WRP >= 2
  /\ T_RRD_S >= 2 /\ T_RRD_L >= 2 /\ T_CCD_L >= 2 /\ T_WTR_L >= 2
  /\ T_WTR_S >= 2 /\ T_RTW >= 2 /\ T_RFC >= 2 /\ T_ZQCS >= 2
  /\ T_RRD_S <= T_RRD_L /\ T_WTR_S <= T_WTR_L /\ BG \in Nat \ {0} /\ QN \in Nat \ {0}
  /\ T_RP <= T_RFC /\ T_ZQCS <= T_RFC
  /\ T_FAW \in Nat /\ T_FAW >= 2 /\ T_RPREF \in Nat /\ T_REFI \in Nat
  BY TimingAssumption, Zenon

\* What a counter is set to is a number, and never zero.
LEMMA Settings ==
  \A T \in {T_RCD, T_RAS, T_RP, T_RTP, T_WRP, T_RRD_S, T_RRD_L, T_CCD_L, T_WTR_L,
            T_WTR_S, T_RTW, T_RFC, T_ZQCS} : T - 1 \in Nat /\ T - 1 # 0
  <1> SUFFICES ASSUME NEW T \in {T_RCD, T_RAS, T_RP, T_RTP, T_WRP, T_RRD_S, T_RRD_L, T_CCD_L,
                                 T_WTR_L, T_WTR_S, T_RTW, T_RFC, T_ZQCS}
               PROVE  T - 1 \in Nat /\ T - 1 # 0
    BY Zenon
  <1>1. T \in Nat /\ T >= 2
    BY TimingAssumption, Zenon
  <1> QED BY <1>1

\* Counting down stays a number, and reaches zero exactly from one or zero.
LEMMA Counts ==
  ASSUME NEW x \in Nat, NEW y \in Nat
  PROVE  /\ dn(x) \in Nat /\ mx(dn(x), y) \in Nat
         /\ lo(x) <=> dn(x) = 0
         /\ y # 0 => mx(dn(x), y) # 0
  BY DEF dn, mx, lo

\* The greatest of three numbers.
LEMMA MaxThree ==
  ASSUME NEW x \in Nat, NEW y \in Nat, NEW w \in Nat
  PROVE  /\ Max({x, y, w}) \in Nat
         /\ Max({x, y, w}) >= x /\ Max({x, y, w}) >= y /\ Max({x, y, w}) >= w
  <1>1. \E m \in {x, y, w} : \A v \in {x, y, w} : m >= v
    <2>1. CASE x >= y /\ x >= w
      BY <2>1
    <2>2. CASE y >= x /\ y >= w
      BY <2>2
    <2>3. CASE w >= x /\ w >= y
      BY <2>3
    <2> QED BY <2>1, <2>2, <2>3
  <1> QED BY <1>1, Zenon DEF Max

\* The history reaches as far back as every spacing.
LEMMA FarReaches ==
  /\ Far.act \in Nat /\ Far.act >= T_RCD /\ Far.act >= T_RAS /\ Far.act >= T_RRD_L
  /\ Far.pre \in Nat /\ Far.pre >= T_RP /\ Far.pre >= T_RPREF
  /\ Far.rd \in Nat /\ Far.rd >= T_RTP /\ Far.rd >= T_CCD_L /\ Far.rd >= T_RTW
  /\ Far.wr \in Nat /\ Far.wr >= T_WRP /\ Far.wr >= T_CCD_L /\ Far.wr >= T_WTR_L
  /\ Far.ref = T_RFC /\ Far.zq = T_ZQCS
  <1>1. /\ Far.act = Max({T_RCD, T_RAS, T_RRD_L}) /\ Far.pre = Max({T_RP, T_RPREF})
        /\ Far.rd = Max({T_RTP, T_CCD_L, T_RTW}) /\ Far.wr = Max({T_WRP, T_CCD_L, T_WTR_L})
        /\ Far.ref = T_RFC /\ Far.zq = T_ZQCS
    BY Zenon DEF Far
  <1>2. {T_RP, T_RPREF} = {T_RP, T_RPREF, T_RPREF}
    BY Zenon
  <1>3. Far.pre = Max({T_RP, T_RPREF, T_RPREF})
    BY <1>1, <1>2, Zenon
  <1>4. Far.act \in Nat /\ Far.act >= T_RCD /\ Far.act >= T_RAS /\ Far.act >= T_RRD_L
    BY <1>1, MaxThree, Timings
  <1>5. Far.pre \in Nat /\ Far.pre >= T_RP /\ Far.pre >= T_RPREF
    BY <1>3, MaxThree, Timings
  <1>6. Far.rd \in Nat /\ Far.rd >= T_RTP /\ Far.rd >= T_CCD_L /\ Far.rd >= T_RTW
    BY <1>1, MaxThree, Timings
  <1>7. Far.wr \in Nat /\ Far.wr >= T_WRP /\ Far.wr >= T_CCD_L /\ Far.wr >= T_WTR_L
    BY <1>1, MaxThree, Timings
  <1> QED BY <1>1, <1>4, <1>5, <1>6, <1>7, Zenon

\* A bank is in one of the two groups.
LEMMA GroupOf ==
  ASSUME NEW b \in Bank  PROVE grp(b) \in Group /\ b \in Nat
  <1>1. BG \in Nat /\ BG > 0 /\ b \in Nat /\ b < 2 * BG
    BY Timings DEF Bank
  <1> QED BY <1>1 DEF grp, Group

-----------------------------------------------------------------------------
\* ---- the commands of a cycle

\* A CAS is for the head, with its row open and its bank, its group and its direction free,
\* and the two directions exclude each other.
LEMMA CasFree ==
  ASSUME CtlType, rd_cas \/ wr_cas
  PROVE  /\ q # <<>> /\ h.hit /\ h_b \in Bank /\ z.rcd[h_b] /\ z.casg[h_g]
         /\ rd_cas => z.rdg[h_g] /\ ~wr_cas
         /\ wr_cas => z.wr
         /\ h_half \/ ~ref_hold
  <1>1. h_rdy
    BY Zenon DEF rd_cas, wr_cas, inj_cas, cas_go
  <1>2. q # <<>> /\ h.hit /\ z.rcd[h_b] /\ z.casg[h_g]
    BY <1>1, Zenon DEF h_rdy
  <1>3. h \in Item
    BY <1>2, SMTT(30) DEF CtlType, h
  <1>4. h_b \in Bank
    BY <1>3, Zenon DEF h_b, Item, Line
  <1>5. rd_cas => z.rdg[h_g] /\ ~wr_cas
    BY Zenon DEF rd_cas, wr_cas, inj_cas, cas_go, rd_ok
  <1>6. wr_cas => z.wr
    BY Zenon DEF wr_cas, cas_go
  <1>7. h_half \/ ~ref_hold
    BY Zenon DEF rd_cas, wr_cas, cas_go, inj_cas
  <1> QED BY <1>2, <1>4, <1>5, <1>6, <1>7, Zenon

\* PREA and REF are for the closing state, ZQCS for the waiting one, no row command is in
\* the slots with them and PREA meets no CAS.
LEMMA RefreshAlone ==
  ASSUME CtlType
  PROVE  /\ prea_go => r_st = "CLOSE" /\ pre = <<>> /\ act = <<>> /\ ~rd_cas /\ ~wr_cas /\ ~ref_go
         /\ ref_go => r_st = "CLOSE" /\ pre = <<>> /\ act = <<>> /\ lp >= T_RPREF
                      /\ \A b \in Bank : ~bank[b].open
         /\ zq_go => r_st = "ZQW" /\ pre = <<>> /\ act = <<>> /\ r_wait = 0
  <1>1. ASSUME prea_go  PROVE ~rd_cas /\ ~wr_cas
    <2>1. ~h_half /\ ref_hold
      BY <1>1, Zenon DEF prea_go, ref_hold
    <2> QED BY <2>1, CasFree, Zenon
  <1> QED BY <1>1, Zenon DEF prea_go, ref_go, zq_go, row_busy, any_open

\* A CAS and an ACT are never for one bank: the one's row is open, the other's bank closed.
LEMMA ActNoCas ==
  ASSUME CtlType, HitExact, ActInv, NEW b \in Bank, Activates(b)
  PROVE  ~CasTo(b) /\ ~bank[b].open /\ ~(rd_cas /\ h_b = b) /\ ~(wr_cas /\ h_b = b)
  <1>1. ~bank[b].open
    BY Zenon DEF ActInv
  <1>2. ASSUME rd_cas \/ wr_cas, h_b = b  PROVE FALSE
    <2>1. q # <<>> /\ h.hit
      BY <1>2, CasFree, Zenon
    <2>2. q \in Seq(Item)
      BY Zenon DEF CtlType
    <2>3. 1 \in DOMAIN q
      BY <2>1, <2>2
    <2> QED BY <1>1, <1>2, <2>1, <2>3, Zenon DEF HitExact, h, h_b
  <1> QED BY <1>1, <1>2, Zenon DEF CasTo

-----------------------------------------------------------------------------
\* ---- what a cycle does

\* What a cycle does to a bank's counters and ages.
LEMMA BankMoves ==
  ASSUME NEW rq, Tick(rq), NEW b \in Bank
  PROVE  /\ t'.rcd[b] = IF Activates(b) THEN T_RCD - 1 ELSE dn(t.rcd[b])
         /\ t'.pre[b] = t_pre(b) /\ t'.act[b] = t_act(b)
         /\ age'.act[b] = IF Activates(b) THEN 1 ELSE upto(age.act[b], Far.act)
         /\ age'.pre[b] = IF Closes(b) THEN 1 ELSE upto(age.pre[b], Far.pre)
         /\ age'.rd[b] = IF rd_cas /\ h_b = b THEN 1 ELSE upto(age.rd[b], Far.rd)
         /\ age'.wr[b] = IF wr_cas /\ h_b = b THEN 1 ELSE upto(age.wr[b], Far.wr)
         /\ age'.ref = IF ref_go THEN 1 ELSE upto(age.ref, Far.ref)
         /\ age'.zq = IF zq_go THEN 1 ELSE upto(age.zq, Far.zq)
  <1>1. t' = t_n
    BY Zenon DEF Tick, CounterTick
  <1>2. AgeTick
    BY Zenon DEF Tick
  <1>3. /\ t'.rcd[b] = IF Activates(b) THEN T_RCD - 1 ELSE dn(t.rcd[b])
        /\ t'.pre[b] = t_pre(b) /\ t'.act[b] = t_act(b)
    BY <1>1, Zenon DEF t_n
  <1> QED BY <1>2, <1>3, Zenon DEF AgeTick, since

\* What a cycle does to a group's counters and to those of the bus.
LEMMA GroupMoves ==
  ASSUME NEW rq, Tick(rq), NEW g \in Group
  PROVE  /\ t'.actg[g] = IF ActIn(g) THEN T_RRD_L - 1
                         ELSE IF act # <<>> THEN mx(dn(t.actg[g]), T_RRD_S - 1) ELSE dn(t.actg[g])
         /\ t'.casg[g] = IF (rd_cas \/ wr_cas) /\ h_g = g THEN T_CCD_L - 1 ELSE dn(t.casg[g])
         /\ t'.rdg[g] = IF wr_cas /\ h_g = g THEN T_WTR_L - 1
                        ELSE IF wr_cas THEN mx(dn(t.rdg[g]), T_WTR_S - 1) ELSE dn(t.rdg[g])
         /\ t'.wr = IF rd_cas THEN T_RTW - 1 ELSE dn(t.wr)
  <1>1. t' = t_n
    BY Zenon DEF Tick, CounterTick
  <1> QED BY <1>1, Zenon DEF t_n

\* What a cycle does to the refresh machine.
LEMMA RefreshMoves ==
  ASSUME CtlType, NEW rq, Tick(rq)
  PROVE  /\ r_st' = "CLOSE" => (r_st = "RUN" /\ ref_want) \/ (r_st = "CLOSE" /\ ~ref_go)
         /\ r_st' = "ZQW" => (r_st = "CLOSE" /\ ref_go /\ zq_cnt = 0) \/ (r_st = "ZQW" /\ ~zq_go)
         /\ r_st' \in {"RUN", "CLOSE", "ZQW"}
         /\ r_st = "RUN" /\ ~ref_hold => r_st' = "RUN"
         /\ r_cnt' = IF refDue THEN 0 ELSE r_cnt + 1
         /\ r_owed' = r_owed_n
         /\ r_wait' = IF ref_go THEN T_RFC - 1 ELSE IF r_st = "ZQW" THEN dn(r_wait) ELSE r_wait
         /\ lp' = IF prea_go \/ pre # <<>> THEN 0 ELSE upto(lp, T_RPREF)
  <1>1. RefreshTick /\ CounterTick /\ r_st \in {"RUN", "CLOSE", "ZQW"}
    BY Zenon DEF Tick, CtlType
  <1>2. /\ r_cnt' = IF refDue THEN 0 ELSE r_cnt + 1
        /\ r_owed' = r_owed_n
        /\ r_wait' = IF ref_go THEN T_RFC - 1 ELSE IF r_st = "ZQW" THEN dn(r_wait) ELSE r_wait
        /\ lp' = IF prea_go \/ pre # <<>> THEN 0 ELSE upto(lp, T_RPREF)
        /\ RefreshState
    BY <1>1, Zenon DEF RefreshTick, CounterTick
  <1>3. ref_go => r_st = "CLOSE"
    BY Zenon DEF ref_go
  <1>4. zq_go => r_st = "ZQW"
    BY Zenon DEF zq_go
  <1>5. CASE r_st = "RUN"
    BY <1>2, <1>5, Zenon DEF RefreshState, ref_hold
  <1>6. CASE r_st = "CLOSE"
    BY <1>2, <1>6, Zenon DEF RefreshState
  <1>7. CASE r_st = "ZQW"
    BY <1>2, <1>7, Zenon DEF RefreshState
  <1> QED BY <1>1, <1>2, <1>5, <1>6, <1>7, Zenon

\* What a cycle does to a bank: an ACT opens it and sets its row, a PRE or PREA closes it.
LEMMA BankOpens ==
  ASSUME NEW rq, Tick(rq), NEW b \in Bank
  PROVE  /\ bank'[b].open <=> (bank[b].open \/ Activates(b)) /\ ~Closes(b)
         /\ bank'[b].row = IF Activates(b) THEN act[1].row ELSE bank[b].row
         /\ bank'[b] = [open |-> bank'[b].open, row |-> bank'[b].row]
         /\ bank'[b].open \in BOOLEAN
  <1>1. bank' = [c \in Bank |-> [open |-> (bank[c].open \/ Activates(c)) /\ ~Closes(c),
                                 row |-> IF Activates(c) THEN act[1].row ELSE bank[c].row]]
    BY Zenon DEF Tick, RowTick
  <1> DEFINE o == (bank[b].open \/ Activates(b)) /\ ~Closes(b)
             r == IF Activates(b) THEN act[1].row ELSE bank[b].row
  <1>2. bank'[b] = [open |-> o, row |-> r]
    BY <1>1, Zenon
  <1>3. o \in BOOLEAN
    BY Zenon
  <1>4. bank'[b].open = o /\ bank'[b].row = r
    <2> HIDE DEF o, r
    <2> QED BY <1>2, <1>3
  <1>5. bank'[b].open <=> o
    BY <1>4, Zenon
  <1>6. bank'[b] = [open |-> bank'[b].open, row |-> bank'[b].row]
    <2> HIDE DEF o, r
    <2> QED BY <1>2, <1>4, Zenon
  <1>7. bank'[b].open \in BOOLEAN
    <2> HIDE DEF o, r
    <2> QED BY <1>3, <1>4, Zenon
  <1> QED BY <1>4, <1>5, <1>6, <1>7, Zenon

\* What a cycle does to the zero flags.
LEMMA FlagMoves ==
  ASSUME NEW rq, Tick(rq)
  PROVE  /\ \A b \in Bank : /\ z'.rcd[b] <=> lo(t.rcd[b]) /\ ~Activates(b)
                            /\ z'.pre[b] <=> lo(t.pre[b]) /\ ~Activates(b) /\ ~CasTo(b)
                            /\ z'.act[b] <=> z_act(b)
         /\ \A g \in Group : /\ z'.actg[g] <=> lo(t.actg[g]) /\ act = <<>>
                             /\ z'.casg[g] <=> lo(t.casg[g]) /\ ~((rd_cas \/ wr_cas) /\ h_g = g)
                             /\ z'.rdg[g] <=> lo(t.rdg[g]) /\ ~wr_cas
         /\ z'.wr <=> lo(t.wr) /\ ~rd_cas
         /\ z' \in [rcd : [Bank -> BOOLEAN], pre : [Bank -> BOOLEAN], act : [Bank -> BOOLEAN],
                    actg : [Group -> BOOLEAN], casg : [Group -> BOOLEAN], rdg : [Group -> BOOLEAN],
                    wr : BOOLEAN]
  <1>1. z' = z_n
    BY Zenon DEF Tick, CounterTick
  <1>2. ASSUME NEW b \in Bank
        PROVE  /\ z'.rcd[b] <=> lo(t.rcd[b]) /\ ~Activates(b)
               /\ z'.pre[b] <=> lo(t.pre[b]) /\ ~Activates(b) /\ ~CasTo(b)
               /\ z'.act[b] <=> z_act(b)
    <2>1. /\ z'.rcd[b] = (lo(t.rcd[b]) /\ ~Activates(b))
          /\ z'.pre[b] = (lo(t.pre[b]) /\ ~Activates(b) /\ ~CasTo(b))
          /\ z'.act[b] = z_act(b)
      BY <1>1, Zenon DEF z_n
    <2> QED BY <2>1, Zenon
  <1>3. ASSUME NEW g \in Group
        PROVE  /\ z'.actg[g] <=> lo(t.actg[g]) /\ act = <<>>
               /\ z'.casg[g] <=> lo(t.casg[g]) /\ ~((rd_cas \/ wr_cas) /\ h_g = g)
               /\ z'.rdg[g] <=> lo(t.rdg[g]) /\ ~wr_cas
    BY <1>1, Zenon DEF z_n
  <1>4. z'.wr <=> lo(t.wr) /\ ~rd_cas
    BY <1>1, Zenon DEF z_n
  <1>5. z' \in [rcd : [Bank -> BOOLEAN], pre : [Bank -> BOOLEAN], act : [Bank -> BOOLEAN],
                actg : [Group -> BOOLEAN], casg : [Group -> BOOLEAN], rdg : [Group -> BOOLEAN],
                wr : BOOLEAN]
    BY <1>1, Zenon DEF z_n, z_act
  <1> QED BY <1>2, <1>3, <1>4, <1>5, Zenon

\* What a cycle does to the window of four ACTs.
LEMMA FawMoves ==
  ASSUME NEW rq, Tick(rq)
  PROVE  /\ faw' = [k \in 1..4 |-> IF act = <<>> THEN upto(faw[k], T_FAW)
                                   ELSE IF k = 1 THEN 0 ELSE upto(faw[k-1], T_FAW)]
         /\ acts' = {n + 1 : n \in {m \in acts : m < T_FAW - 1}}
                      \cup (IF act = <<>> THEN {} ELSE {1})
  BY Zenon DEF Tick, CounterTick, AgeTick

-----------------------------------------------------------------------------
\* ---- what it keeps

\* The ages keep counting and never fall below one.
LEMMA AgesCount ==
  ASSUME CtlType, NEW rq, Tick(rq), NEW b \in Bank
  PROVE  /\ age'.act[b] \in Nat /\ age'.act[b] >= 1 /\ age'.pre[b] \in Nat /\ age'.pre[b] >= 1
         /\ age'.rd[b] \in Nat /\ age'.rd[b] >= 1 /\ age'.wr[b] \in Nat /\ age'.wr[b] >= 1
         /\ age'.ref \in Nat /\ age'.ref >= 1 /\ age'.zq \in Nat /\ age'.zq >= 1
  <1>1. /\ age.act[b] \in Nat /\ age.pre[b] \in Nat /\ age.rd[b] \in Nat /\ age.wr[b] \in Nat
        /\ age.ref \in Nat /\ age.zq \in Nat
    BY Zenon DEF CtlType
  <1>3. /\ Far.act \in Nat /\ Far.act >= 1 /\ Far.pre \in Nat /\ Far.pre >= 1
        /\ Far.rd \in Nat /\ Far.rd >= 1 /\ Far.wr \in Nat /\ Far.wr >= 1
        /\ Far.ref \in Nat /\ Far.ref >= 1 /\ Far.zq \in Nat /\ Far.zq >= 1
    BY FarReaches, Timings
  <1>4. age'.act[b] \in Nat /\ age'.act[b] >= 1 /\ age'.pre[b] \in Nat /\ age'.pre[b] >= 1
    BY <1>1, <1>3, BankMoves DEF upto
  <1>5. age'.rd[b] \in Nat /\ age'.rd[b] >= 1 /\ age'.wr[b] \in Nat /\ age'.wr[b] >= 1
    BY <1>1, <1>3, BankMoves DEF upto
  <1>6. age'.ref \in Nat /\ age'.ref >= 1 /\ age'.zq \in Nat /\ age'.zq >= 1
    BY <1>1, <1>3, BankMoves DEF upto
  <1> QED BY <1>4, <1>5, <1>6, Zenon

\* A bank's counters keep covering what is left of its spacings.
LEMMA BankSpacedStep ==
  ASSUME CtlInv, NEW rq, Tick(rq)
  PROVE  BankSpaced'
  <1> SUFFICES ASSUME NEW b \in Bank
      PROVE  (/\ age.act[b] + t.rcd[b] >= T_RCD /\ age.act[b] + t.pre[b] >= T_RAS
              /\ age.rd[b] + t.pre[b] >= T_RTP /\ age.wr[b] + t.pre[b] >= T_WRP
              /\ age.pre[b] + t.act[b] >= T_RP /\ age.ref + t.act[b] >= T_RFC
              /\ age.zq + t.act[b] >= T_ZQCS
              /\ age.act[b] >= 1 /\ age.pre[b] >= 1 /\ age.rd[b] >= 1 /\ age.wr[b] >= 1)'
      BY Zenon DEF BankSpaced
  <1>1. CtlType /\ BankSpaced /\ RefSpaced /\ HitExact /\ ActInv /\ ClosedInv
    BY Zenon DEF CtlInv, RowInv
  <1>2. /\ age.act[b] \in Nat /\ age.pre[b] \in Nat /\ age.rd[b] \in Nat /\ age.wr[b] \in Nat
        /\ age.ref \in Nat /\ age.zq \in Nat /\ t.rcd[b] \in Nat /\ t.pre[b] \in Nat
        /\ t.act[b] \in Nat
    BY <1>1, Zenon DEF CtlType
  <1>3. /\ age.act[b] + t.rcd[b] >= T_RCD /\ age.act[b] + t.pre[b] >= T_RAS
        /\ age.rd[b] + t.pre[b] >= T_RTP /\ age.wr[b] + t.pre[b] >= T_WRP
        /\ age.pre[b] + t.act[b] >= T_RP /\ age.ref + t.act[b] >= T_RFC
        /\ age.zq + t.act[b] >= T_ZQCS
    BY <1>1, Zenon DEF BankSpaced
  <1>4. /\ age'.act[b] \in Nat /\ age'.act[b] >= 1 /\ age'.pre[b] \in Nat /\ age'.pre[b] >= 1
        /\ age'.rd[b] \in Nat /\ age'.rd[b] >= 1 /\ age'.wr[b] \in Nat /\ age'.wr[b] >= 1
        /\ age'.ref \in Nat /\ age'.ref >= 1 /\ age'.zq \in Nat /\ age'.zq >= 1
    BY <1>1, AgesCount, Zenon
  <1>5. age'.act[b] + t'.rcd[b] >= T_RCD
    BY <1>2, <1>3, BankMoves, FarReaches, Timings DEF upto, dn
  <1>6. /\ age'.act[b] + t'.pre[b] >= T_RAS
        /\ age'.rd[b] + t'.pre[b] >= T_RTP /\ age'.wr[b] + t'.pre[b] >= T_WRP
    <2>1. CASE Activates(b)
      <3>1. ~(rd_cas /\ h_b = b) /\ ~(wr_cas /\ h_b = b) /\ t.pre[b] = 0
        BY <1>1, <2>1, ActNoCas, Zenon DEF ClosedInv
      <3>2. /\ t'.pre[b] = T_RAS - 1 /\ age'.act[b] = 1
            /\ age'.rd[b] = upto(age.rd[b], Far.rd) /\ age'.wr[b] = upto(age.wr[b], Far.wr)
        BY <2>1, <3>1, BankMoves, Zenon DEF t_pre
      <3> QED BY <1>2, <1>3, <3>1, <3>2, FarReaches, Timings DEF upto
    <2>2. CASE ~Activates(b)
      <3>1. age'.act[b] = upto(age.act[b], Far.act)
        BY <2>2, BankMoves, Zenon
      <3>2. ASSUME rd_cas, h_b = b
            PROVE  t'.pre[b] = mx(dn(t.pre[b]), T_RTP - 1) /\ age'.wr[b] = upto(age.wr[b], Far.wr)
        BY <1>1, <3>2, BankMoves, CasFree, Zenon DEF t_pre
      <3>3. ASSUME wr_cas, h_b = b
            PROVE  t'.pre[b] = mx(dn(t.pre[b]), T_WRP - 1) /\ age'.rd[b] = upto(age.rd[b], Far.rd)
        BY <1>1, <3>3, BankMoves, CasFree, Zenon DEF t_pre
      <3>4. ASSUME ~(rd_cas /\ h_b = b), ~(wr_cas /\ h_b = b)
            PROVE  /\ t'.pre[b] = dn(t.pre[b]) /\ age'.rd[b] = upto(age.rd[b], Far.rd)
                   /\ age'.wr[b] = upto(age.wr[b], Far.wr)
        BY <2>2, <3>4, BankMoves, Zenon DEF t_pre
      <3>5. CASE rd_cas /\ h_b = b
        BY <1>2, <1>3, <1>4, <3>1, <3>2, <3>5, FarReaches, Timings, SMTT(40) DEF upto, dn, mx
      <3>6. CASE wr_cas /\ h_b = b
        BY <1>2, <1>3, <1>4, <3>1, <3>3, <3>6, FarReaches, Timings, SMTT(30) DEF upto, dn, mx
      <3>7. CASE ~(rd_cas /\ h_b = b) /\ ~(wr_cas /\ h_b = b)
        BY <1>2, <1>3, <3>1, <3>4, <3>7, FarReaches, Timings DEF upto, dn
      <3> QED BY <3>5, <3>6, <3>7, Zenon
    <2> QED BY <2>1, <2>2, Zenon
  <1>7. /\ age'.pre[b] + t'.act[b] >= T_RP /\ age'.ref + t'.act[b] >= T_RFC
        /\ age'.zq + t'.act[b] >= T_ZQCS
    <2>1. CASE zq_go
      <3>1. r_st = "ZQW" /\ r_wait = 0 /\ ~ref_go /\ ~Closes(b)
        BY <1>1, <2>1, RefreshAlone DEF Closes
      <3>2. age.ref >= T_RFC /\ age.pre[b] >= T_RP
        BY <1>1, <1>2, <3>1, Timings DEF RefSpaced
      <3>3. /\ t'.act[b] = T_ZQCS - 1 /\ age'.pre[b] = upto(age.pre[b], Far.pre)
            /\ age'.ref = upto(age.ref, Far.ref)
        BY <2>1, <3>1, BankMoves, Zenon DEF t_act
      <3> QED BY <1>2, <1>4, <3>2, <3>3, FarReaches, Timings DEF upto
    <2>2. CASE ~zq_go /\ ref_go
      <3>1. t'.act[b] = T_RFC - 1
        BY <2>2, BankMoves, Zenon DEF t_act
      <3> QED BY <1>4, <3>1, Timings
    <2>3. CASE ~zq_go /\ ~ref_go
      <3>1. /\ age'.ref = upto(age.ref, Far.ref) /\ age'.zq = upto(age.zq, Far.zq)
            /\ Closes(b) => t'.act[b] = mx(dn(t.act[b]), T_RP - 1)
            /\ ~Closes(b) => t'.act[b] = dn(t.act[b]) /\ age'.pre[b] = upto(age.pre[b], Far.pre)
        BY <2>3, BankMoves, Zenon DEF t_act
      <3>2. CASE Closes(b)
        BY <1>2, <1>3, <1>4, <3>1, <3>2, FarReaches, Timings, SMTT(30) DEF upto, dn, mx
      <3>3. CASE ~Closes(b)
        BY <1>2, <1>3, <3>1, <3>3, FarReaches, Timings DEF upto, dn
      <3> QED BY <3>2, <3>3, Zenon
    <2> QED BY <2>1, <2>2, <2>3, Zenon
  <1> QED BY <1>4, <1>5, <1>6, <1>7, Zenon

\* A group's counters, and the bus's, keep covering what is left of the spacings between
\* banks.
LEMMA GroupSpacedStep ==
  ASSUME CtlInv, NEW rq, Tick(rq)
  PROVE  GroupSpaced'
  <1> SUFFICES ASSUME NEW b \in Bank, NEW g \in Group
      PROVE  (/\ age.act[b] + t.actg[g] >= (IF grp(b) = g THEN T_RRD_L ELSE T_RRD_S)
              /\ age.wr[b] + t.rdg[g] >= (IF grp(b) = g THEN T_WTR_L ELSE T_WTR_S)
              /\ grp(b) = g => age.rd[b] + t.casg[g] >= T_CCD_L /\ age.wr[b] + t.casg[g] >= T_CCD_L
              /\ age.rd[b] + t.wr >= T_RTW)'
      BY Zenon DEF GroupSpaced
  <1>1. CtlType /\ GroupSpaced
    BY Zenon DEF CtlInv
  <1>2. /\ age.act[b] \in Nat /\ age.rd[b] \in Nat /\ age.wr[b] \in Nat
        /\ t.actg[g] \in Nat /\ t.casg[g] \in Nat /\ t.rdg[g] \in Nat /\ t.wr \in Nat
    BY <1>1, Zenon DEF CtlType
  <1>3. /\ age.act[b] + t.actg[g] >= (IF grp(b) = g THEN T_RRD_L ELSE T_RRD_S)
        /\ age.wr[b] + t.rdg[g] >= (IF grp(b) = g THEN T_WTR_L ELSE T_WTR_S)
        /\ grp(b) = g => age.rd[b] + t.casg[g] >= T_CCD_L /\ age.wr[b] + t.casg[g] >= T_CCD_L
        /\ age.rd[b] + t.wr >= T_RTW
    BY <1>1, Zenon DEF GroupSpaced
  <1>4. /\ age'.act[b] \in Nat /\ age'.act[b] >= 1
        /\ age'.rd[b] \in Nat /\ age'.rd[b] >= 1 /\ age'.wr[b] \in Nat /\ age'.wr[b] >= 1
    BY <1>1, AgesCount, Zenon
  <1>5. age'.act[b] + t'.actg[g] >= (IF grp(b) = g THEN T_RRD_L ELSE T_RRD_S)
    <2>1. CASE ActIn(g)
      <3>1. t'.actg[g] = T_RRD_L - 1
        BY <2>1, GroupMoves, Zenon
      <3> QED BY <1>4, <3>1, Timings
    <2>2. CASE ~ActIn(g) /\ act # <<>>
      <3>1. t'.actg[g] = mx(dn(t.actg[g]), T_RRD_S - 1)
        BY <2>2, GroupMoves, SMTT(30)
      <3>2. CASE grp(b) = g
        <4>1. age'.act[b] = upto(age.act[b], Far.act)
          BY <2>2, <3>2, BankMoves, Zenon DEF ActIn, Activates
        <4> QED BY <1>2, <1>3, <3>1, <3>2, <4>1, FarReaches, Timings DEF upto, dn, mx
      <3>3. CASE grp(b) # g
        BY <1>2, <1>4, <3>1, <3>3, Timings DEF dn, mx
      <3> QED BY <3>2, <3>3, Zenon
    <2>3. CASE act = <<>>
      <3>1. t'.actg[g] = dn(t.actg[g]) /\ age'.act[b] = upto(age.act[b], Far.act)
        BY <2>3, BankMoves, GroupMoves, Zenon DEF ActIn, Activates
      <3> QED BY <1>2, <1>3, <3>1, FarReaches, Timings DEF upto, dn
    <2> QED BY <2>1, <2>2, <2>3, Zenon
  <1>6. age'.wr[b] + t'.rdg[g] >= (IF grp(b) = g THEN T_WTR_L ELSE T_WTR_S)
    <2>1. CASE wr_cas /\ h_g = g
      <3>1. t'.rdg[g] = T_WTR_L - 1
        BY <2>1, GroupMoves, Zenon
      <3> QED BY <1>4, <3>1, Timings
    <2>2. CASE wr_cas /\ h_g # g
      <3>1. t'.rdg[g] = mx(dn(t.rdg[g]), T_WTR_S - 1)
        BY <2>2, GroupMoves, Zenon
      <3>2. CASE grp(b) = g
        <4>1. age'.wr[b] = upto(age.wr[b], Far.wr)
          BY <2>2, <3>2, BankMoves, Zenon DEF h_g
        <4> QED BY <1>2, <1>3, <3>1, <3>2, <4>1, FarReaches, Timings DEF upto, dn, mx
      <3>3. CASE grp(b) # g
        BY <1>2, <1>4, <3>1, <3>3, Timings DEF dn, mx
      <3> QED BY <3>2, <3>3, Zenon
    <2>3. CASE ~wr_cas
      <3>1. t'.rdg[g] = dn(t.rdg[g]) /\ age'.wr[b] = upto(age.wr[b], Far.wr)
        BY <2>3, BankMoves, GroupMoves, Zenon
      <3> QED BY <1>2, <1>3, <3>1, FarReaches, Timings DEF upto, dn
    <2> QED BY <2>1, <2>2, <2>3, Zenon
  <1>7. ASSUME grp(b) = g
        PROVE  age'.rd[b] + t'.casg[g] >= T_CCD_L /\ age'.wr[b] + t'.casg[g] >= T_CCD_L
    <2>1. CASE (rd_cas \/ wr_cas) /\ h_g = g
      <3>1. t'.casg[g] = T_CCD_L - 1
        BY <2>1, GroupMoves, Zenon
      <3> QED BY <1>4, <3>1, Timings
    <2>2. CASE ~((rd_cas \/ wr_cas) /\ h_g = g)
      <3>1. t'.casg[g] = dn(t.casg[g])
        BY <2>2, GroupMoves, Zenon
      <3>2. age'.rd[b] = upto(age.rd[b], Far.rd) /\ age'.wr[b] = upto(age.wr[b], Far.wr)
        BY <1>7, <2>2, BankMoves, Zenon DEF h_g
      <3> QED BY <1>2, <1>3, <1>7, <3>1, <3>2, FarReaches, Timings DEF upto, dn
    <2> QED BY <2>1, <2>2, Zenon
  <1>8. age'.rd[b] + t'.wr >= T_RTW
    <2>1. CASE rd_cas
      <3>1. t'.wr = T_RTW - 1
        BY <2>1, GroupMoves, Zenon
      <3> QED BY <1>4, <3>1, Timings
    <2>2. CASE ~rd_cas
      <3>1. t'.wr = dn(t.wr) /\ age'.rd[b] = upto(age.rd[b], Far.rd)
        BY <2>2, BankMoves, GroupMoves, Zenon
      <3> QED BY <1>2, <1>3, <3>1, FarReaches, Timings DEF upto, dn
    <2> QED BY <2>1, <2>2, Zenon
  <1> QED BY <1>5, <1>6, <1>7, <1>8, Zenon

\* A waiting ZQ calibration covers what is left of the refresh before it, and the last PRE is
\* as old as lp says.
LEMMA RefSpacedStep ==
  ASSUME CtlInv, NEW rq, Tick(rq)
  PROVE  RefSpaced'
  <1>1. CtlType /\ RefSpaced /\ PreInv /\ ActInv
    BY Zenon DEF CtlInv, RowInv
  <1>2. 0 \in Bank
    BY Timings DEF Bank
  <1>3. age'.ref \in Nat /\ age'.zq \in Nat /\ age'.ref >= 1 /\ age'.zq >= 1
    BY <1>1, <1>2, AgesCount, Zenon
  <1>4. ASSUME NEW b \in Bank  PROVE age'.pre[b] >= lp'
    <2>1. age.pre[b] \in Nat /\ lp \in Nat /\ lp <= T_RPREF /\ age.pre[b] >= lp
      BY <1>1, Timings DEF CtlType, RefSpaced
    <2>2. Closes(b) => prea_go \/ pre # <<>>
      BY DEF Closes
    <2>3. age'.pre[b] \in Nat /\ age'.pre[b] >= 1
      BY <1>1, AgesCount, Zenon
    <2>4. lp' = (IF prea_go \/ pre # <<>> THEN 0 ELSE upto(lp, T_RPREF))
      BY <1>1, RefreshMoves, Zenon
    <2>5. CASE prea_go \/ pre # <<>>
      BY <2>3, <2>4, <2>5
    <2>6. CASE ~(prea_go \/ pre # <<>>)
      <3>1. age'.pre[b] = upto(age.pre[b], Far.pre)
        BY <2>2, <2>6, BankMoves, Zenon
      <3>2. lp' = upto(lp, T_RPREF)
        BY <2>4, <2>6, Zenon
      <3> QED BY <2>1, <3>1, <3>2, FarReaches, Timings DEF upto
    <2> QED BY <2>5, <2>6, Zenon
  <1>5. ASSUME r_st' = "ZQW", r_st = "CLOSE", ref_go
        PROVE  /\ age'.ref + r_wait' >= T_RFC /\ age'.zq + r_wait' >= T_ZQCS
               /\ \A b \in Bank : age'.pre[b] + r_wait' >= T_RP /\ ~bank'[b].open
    <2>1. r_wait' = T_RFC - 1
      BY <1>1, <1>5, RefreshMoves, Zenon
    <2>2. ASSUME NEW b \in Bank  PROVE age'.pre[b] + r_wait' >= T_RP /\ ~bank'[b].open
      <3>1. age'.pre[b] \in Nat /\ age'.pre[b] >= 1
        BY <1>1, AgesCount, Zenon
      <3>2. ~bank[b].open /\ ~Activates(b)
        BY <1>1, <1>5, RefreshAlone, Zenon DEF Activates
      <3>3. ~bank'[b].open
        BY <3>2, BankOpens, Zenon
      <3> QED BY <2>1, <3>1, <3>3, Timings
    <2> QED BY <1>3, <2>1, <2>2, Timings
  <1>6. ASSUME r_st' = "ZQW", r_st = "ZQW", ~zq_go
        PROVE  /\ age'.ref + r_wait' >= T_RFC /\ age'.zq + r_wait' >= T_ZQCS
               /\ \A b \in Bank : age'.pre[b] + r_wait' >= T_RP /\ ~bank'[b].open
    <2>1. ~ref_go /\ ~prea_go
      BY <1>6, Zenon DEF ref_go, prea_go
    <2>2. r_wait' = dn(r_wait)
      BY <1>1, <1>6, <2>1, RefreshMoves, Zenon
    <2>3. /\ age.ref \in Nat /\ age.zq \in Nat /\ r_wait \in Nat
          /\ age.ref + r_wait >= T_RFC /\ age.zq + r_wait >= T_ZQCS
      BY <1>1, <1>6, Zenon DEF CtlType, RefSpaced
    <2>4. age'.ref = upto(age.ref, Far.ref) /\ age'.zq = upto(age.zq, Far.zq)
      BY <1>2, <1>6, <2>1, BankMoves, Zenon
    <2>5. age'.ref + r_wait' >= T_RFC /\ age'.zq + r_wait' >= T_ZQCS
      BY <2>2, <2>3, <2>4, FarReaches, Timings DEF upto, dn
    <2>6. ASSUME NEW b \in Bank  PROVE age'.pre[b] + r_wait' >= T_RP /\ ~bank'[b].open
      <3>1. ~Closes(b) /\ ~Activates(b)
        BY <1>1, <1>6, <2>1, Zenon DEF PreInv, ActInv, Closes
      <3>2. age.pre[b] \in Nat /\ age.pre[b] + r_wait >= T_RP /\ ~bank[b].open
        BY <1>1, <1>6, Zenon DEF CtlType, RefSpaced
      <3>3. age'.pre[b] = upto(age.pre[b], Far.pre)
        BY <3>1, BankMoves, Zenon
      <3>4. ~bank'[b].open
        BY <3>1, <3>2, BankOpens, Zenon
      <3> QED BY <2>2, <2>3, <3>2, <3>3, <3>4, FarReaches, Timings DEF upto, dn
    <2> QED BY <2>5, <2>6, Zenon
  <1>7. r_st' = "ZQW" => (r_st = "CLOSE" /\ ref_go) \/ (r_st = "ZQW" /\ ~zq_go)
    BY <1>1, RefreshMoves, Zenon
  <1> QED BY <1>3, <1>4, <1>5, <1>6, <1>7, Zenon DEF RefSpaced

\* The flags stay the counters' zeros: a command sets its counter to one at least.
LEMMA FlagsStep ==
  ASSUME CtlInv, NEW rq, Tick(rq)
  PROVE  FlagsExact'
  <1>1. CtlType
    BY Zenon DEF CtlInv
  <1>2. ASSUME NEW b \in Bank
        PROVE  /\ z'.rcd[b] <=> t'.rcd[b] = 0
               /\ z'.pre[b] <=> t'.pre[b] = 0
               /\ z'.act[b] <=> t'.act[b] = 0
    <2>1. t.rcd[b] \in Nat /\ t.pre[b] \in Nat /\ t.act[b] \in Nat
      BY <1>1, Zenon DEF CtlType
    <2>2. z'.rcd[b] <=> t'.rcd[b] = 0
      <3>1. z'.rcd[b] <=> lo(t.rcd[b]) /\ ~Activates(b)
        BY FlagMoves, Zenon
      <3>2. t'.rcd[b] = IF Activates(b) THEN T_RCD - 1 ELSE dn(t.rcd[b])
        BY BankMoves, Zenon
      <3> QED BY <2>1, <3>1, <3>2, Settings, Counts, Zenon
    <2>3. z'.pre[b] <=> t'.pre[b] = 0
      <3>1. z'.pre[b] <=> lo(t.pre[b]) /\ ~Activates(b) /\ ~CasTo(b)
        BY FlagMoves, Zenon
      <3>2. CasTo(b) <=> (rd_cas /\ h_b = b) \/ (wr_cas /\ h_b = b)
        BY Zenon DEF CasTo
      <3>3. t'.pre[b] = t_pre(b)
        BY BankMoves, Zenon
      <3> QED BY <2>1, <3>1, <3>2, <3>3, Settings, Counts, Zenon DEF t_pre
    <2>4. z'.act[b] <=> t'.act[b] = 0
      <3>1. z'.act[b] <=> z_act(b)
        BY FlagMoves, Zenon
      <3>2. t'.act[b] = t_act(b)
        BY BankMoves, Zenon
      <3> QED BY <2>1, <3>1, <3>2, Settings, Counts, Zenon DEF z_act, t_act
    <2> QED BY <2>2, <2>3, <2>4, Zenon
  <1>3. ASSUME NEW g \in Group
        PROVE  /\ z'.actg[g] <=> t'.actg[g] = 0
               /\ z'.casg[g] <=> t'.casg[g] = 0
               /\ z'.rdg[g] <=> t'.rdg[g] = 0
    <2>1. t.actg[g] \in Nat /\ t.casg[g] \in Nat /\ t.rdg[g] \in Nat
      BY <1>1, Zenon DEF CtlType
    <2>2. ActIn(g) => act # <<>>
      BY Zenon DEF ActIn
    <2>3. z'.actg[g] <=> t'.actg[g] = 0
      <3>1. z'.actg[g] <=> lo(t.actg[g]) /\ act = <<>>
        BY FlagMoves, Zenon
      <3>2. t'.actg[g] = IF ActIn(g) THEN T_RRD_L - 1
                         ELSE IF act # <<>> THEN mx(dn(t.actg[g]), T_RRD_S - 1) ELSE dn(t.actg[g])
        BY GroupMoves, Zenon
      <3> QED BY <2>1, <2>2, <3>1, <3>2, Settings, Counts, Zenon
    <2>4. z'.casg[g] <=> t'.casg[g] = 0
      <3>1. z'.casg[g] <=> lo(t.casg[g]) /\ ~((rd_cas \/ wr_cas) /\ h_g = g)
        BY FlagMoves, Zenon
      <3>2. t'.casg[g] = IF (rd_cas \/ wr_cas) /\ h_g = g THEN T_CCD_L - 1 ELSE dn(t.casg[g])
        BY GroupMoves, Zenon
      <3> QED BY <2>1, <3>1, <3>2, Settings, Counts, Zenon
    <2>5. z'.rdg[g] <=> t'.rdg[g] = 0
      <3>1. z'.rdg[g] <=> lo(t.rdg[g]) /\ ~wr_cas
        BY FlagMoves, Zenon
      <3>2. t'.rdg[g] = IF wr_cas /\ h_g = g THEN T_WTR_L - 1
                        ELSE IF wr_cas THEN mx(dn(t.rdg[g]), T_WTR_S - 1) ELSE dn(t.rdg[g])
        BY GroupMoves, Zenon
      <3> QED BY <2>1, <3>1, <3>2, Settings, Counts, Zenon
    <2> QED BY <2>3, <2>4, <2>5, Zenon
  <1>4. z'.wr <=> t'.wr = 0
    <2>1. t.wr \in Nat /\ 0 \in Group
      BY <1>1, Zenon DEF CtlType, Group
    <2>2. z'.wr <=> lo(t.wr) /\ ~rd_cas
      BY FlagMoves, Zenon
    <2>3. t'.wr = IF rd_cas THEN T_RTW - 1 ELSE dn(t.wr)
      BY <2>1, GroupMoves, Zenon
    <2> QED BY <2>1, <2>2, <2>3, Settings, Counts, Zenon
  <1> QED BY <1>2, <1>3, <1>4, Zenon DEF FlagsExact

\* The ACTs of the window stay among the last four: a fifth waits until the first has left it.
LEMMA FawStep ==
  ASSUME CtlInv, NEW rq \in RequestChoices, Tick(rq)
  PROVE  FawExact' /\ faw' \in [1..4 -> 0..T_FAW] /\ acts' \subseteq 1..T_FAW-1
  <1>1. CtlType /\ FawExact /\ ActInv
    BY Zenon DEF CtlInv, RowInv
  <1>2. faw \in [1..4 -> 0..T_FAW] /\ acts \subseteq 1..T_FAW-1
    BY <1>1, Zenon DEF CtlType
  <1>3. ASSUME NEW x \in 0..T_FAW  PROVE upto(x, T_FAW) \in 0..T_FAW
    BY Timings DEF upto
  <1>4. faw' \in [1..4 -> 0..T_FAW]
    <2>1. ASSUME NEW k \in 1..4  PROVE upto(faw[k], T_FAW) \in 0..T_FAW
      BY <1>2, <1>3, Zenon
    <2>2. ASSUME NEW k \in 1..4, k # 1  PROVE upto(faw[k-1], T_FAW) \in 0..T_FAW
      <3>1. k - 1 \in 1..4
        BY <2>2
      <3> QED BY <2>1, <3>1, Zenon
    <2>3. 0 \in 0..T_FAW
      BY Timings
    <2> QED BY <2>1, <2>2, <2>3, FawMoves
  <1>5. acts' \subseteq 1..T_FAW-1
    BY <1>2, FawMoves, Timings
  <1>6. ASSUME NEW n \in acts'  PROVE \E k \in 1..4 : n = faw'[k] + 1
    <2>1. CASE n = 1 /\ act # <<>>
      <3>1. faw'[1] = 0
        BY <2>1, FawMoves
      <3> QED BY <2>1, <3>1
    <2>2. CASE \E m \in acts : m < T_FAW - 1 /\ n = m + 1
      <3>1. PICK m \in acts : m < T_FAW - 1 /\ n = m + 1
        BY <2>2, Zenon
      <3>2. PICK k \in 1..4 : m = faw[k] + 1
        BY <1>1, Zenon DEF FawExact
      <3>3. faw[k] \in 0..T_FAW /\ upto(faw[k], T_FAW) = m
        BY <1>2, <3>1, <3>2, Timings DEF upto
      <3>4. CASE act = <<>>
        <4>1. faw'[k] = upto(faw[k], T_FAW)
          BY <3>4, FawMoves, Zenon
        <4> QED BY <3>1, <3>3, <4>1, Zenon
      <3>5. CASE act # <<>>
        <4>1. PICK a \in [b : Bank, row : Rows] : act = <<a>>
          BY <1>1, <3>5, Zenon DEF CtlType, Opt
        <4>2. faw[4] >= T_FAW
          BY <1>1, <4>1, Zenon DEF ActInv, Activates
        <4>3. k # 4
          BY <1>2, <3>1, <3>2, <4>2, Timings
        <4>4. k + 1 \in 1..4 /\ k + 1 # 1 /\ (k + 1) - 1 = k
          BY <4>3, SMTT(30)
        <4>5. faw'[k + 1] = upto(faw[k], T_FAW)
          BY <3>5, <4>4, FawMoves, Zenon
        <4> QED BY <3>1, <3>3, <4>4, <4>5, Zenon
      <3> QED BY <3>4, <3>5, Zenon
    <2>3. (n = 1 /\ act # <<>>) \/ \E m \in acts : m < T_FAW - 1 /\ n = m + 1
      BY <1>6, FawMoves, Zenon
    <2> QED BY <2>1, <2>2, <2>3, Zenon
  <1> QED BY <1>4, <1>5, <1>6, Zenon DEF FawExact

\* No refresh is owed while one runs, as long as each issues early in its interval.
LEMMA PacedStep ==
  ASSUME CtlInv, PacedInv, RefreshesOwed, RefreshPrompt, NEW rq \in RequestChoices, Tick(rq)
  PROVE  PacedInv'
  <1>1. CtlType /\ PreInv /\ ActInv
    BY Zenon DEF CtlInv, RowInv
  <1>2. /\ r_owed \in {0, 1} /\ r_cnt \in Nat /\ r_wait \in Nat /\ age.ref \in Nat /\ age.zq \in Nat
    BY <1>1, SMTT(30) DEF CtlType, RefreshesOwed
  <1>3. /\ age'.ref = IF ref_go THEN 1 ELSE upto(age.ref, T_RFC)
        /\ age'.zq = IF zq_go THEN 1 ELSE upto(age.zq, T_ZQCS)
    <2>1. 0 \in Bank
      BY Timings DEF Bank
    <2> QED BY <2>1, BankMoves, FarReaches, Zenon
  <1>4. /\ r_cnt' = IF refDue THEN 0 ELSE r_cnt + 1
        /\ r_wait' = IF ref_go THEN T_RFC - 1 ELSE IF r_st = "ZQW" THEN dn(r_wait) ELSE r_wait
    BY <1>1, RefreshMoves, Zenon
  <1>5. /\ ~refDue /\ ~ref_go => r_owed' = r_owed
        /\ ~refDue /\ ref_go /\ r_owed = 1 => r_owed' = 0
        /\ ~ref_go /\ r_owed = 1 => r_owed' > 0
    <2>1. r_owed' = (r_owed + (IF refDue THEN 1 ELSE 0) - (IF ref_go THEN 1 ELSE 0)) % 16
      BY <1>1, RefreshMoves, Zenon DEF r_owed_n
    <2>2. 0 % 16 = 0 /\ 1 % 16 = 1 /\ 2 % 16 = 2
      OBVIOUS
    <2> QED BY <1>2, <2>1, <2>2
  <1>6. r_st = "CLOSE" => r_owed = 1
    BY <1>2 DEF PacedInv
  <1>7. refDue => r_cnt = T_REFI - 1
    BY Zenon DEF refDue
  <1>8. r_cnt < T_REFI - 1 => ~refDue /\ r_cnt' = r_cnt + 1
    BY <1>2, <1>4, <1>7, Timings
  <1>9. ASSUME ref_go
        PROVE  /\ r_owed' = 0 /\ r_cnt' = r_cnt + 1 /\ r_cnt + T_RFC < T_REFI
               /\ zq_cnt = 0 => r_cnt + T_RFC + T_ZQCS < T_REFI
    <2>1. r_st = "CLOSE"
      BY <1>1, <1>9, RefreshAlone, Zenon
    <2>2. r_cnt + T_RFC + (IF zq_cnt = 0 THEN T_ZQCS ELSE 0) < T_REFI
      BY <1>9, Zenon DEF RefreshPrompt
    <2>3. r_cnt + T_RFC < T_REFI /\ (zq_cnt = 0 => r_cnt + T_RFC + T_ZQCS < T_REFI)
      BY <1>2, <2>2, Timings
    <2>4. r_cnt < T_REFI - 1
      BY <1>2, <2>3, Timings
    <2> QED BY <1>5, <1>6, <1>8, <1>9, <2>1, <2>3, <2>4, Zenon
  <1>10. ref_go => r_st = "CLOSE"
    BY Zenon DEF ref_go
  <1>11. r_st' = "CLOSE" => r_owed' > 0
    <2>1. r_st' = "CLOSE" => ~ref_go /\ r_owed = 1
      BY <1>1, <1>2, <1>6, <1>10, RefreshMoves, Zenon DEF ref_want
    <2> QED BY <1>5, <2>1, Zenon
  <1>12. ASSUME age'.ref < T_RFC
         PROVE  r_owed' = 0 /\ r_cnt' + T_RFC < T_REFI + age'.ref
    <2>1. CASE ref_go
      BY <1>2, <1>3, <1>9, <2>1, Timings
    <2>2. CASE ~ref_go
      <3>1. age'.ref = age.ref + 1 /\ age.ref < T_RFC - 1
        BY <1>2, <1>3, <1>12, <2>2, Timings DEF upto
      <3>2. age.ref < T_RFC
        BY <1>2, <3>1, Timings
      <3>3. r_owed = 0 /\ r_cnt + T_RFC < T_REFI + age.ref
        BY <3>2, Zenon DEF PacedInv
      <3>4. r_cnt < T_REFI - 1
        BY <1>2, <3>1, <3>3, Timings
      <3> QED BY <1>2, <1>5, <1>8, <2>2, <3>1, <3>3, <3>4, Timings
    <2> QED BY <2>1, <2>2, Zenon
  <1>13. ASSUME age'.zq < T_ZQCS
         PROVE  r_owed' = 0 /\ r_cnt' + T_ZQCS < T_REFI + age'.zq
    <2>1. CASE zq_go
      <3>1. r_st = "ZQW" /\ r_wait = 0
        BY <1>1, <2>1, RefreshAlone, Zenon
      <3>2. r_owed = 0 /\ r_cnt + 0 + T_ZQCS < T_REFI /\ ~ref_go
        BY <1>10, <3>1, Zenon DEF PacedInv
      <3>3. r_cnt < T_REFI - 1
        BY <1>2, <3>2, Timings
      <3> QED BY <1>2, <1>3, <1>5, <1>8, <2>1, <3>2, <3>3, Timings
    <2>2. CASE ~zq_go
      <3>1. age'.zq = age.zq + 1 /\ age.zq < T_ZQCS - 1
        BY <1>2, <1>3, <1>13, <2>2, Timings DEF upto
      <3>2. age.zq < T_ZQCS
        BY <1>2, <3>1, Timings
      <3>3. r_owed = 0 /\ r_cnt + T_ZQCS < T_REFI + age.zq
        BY <3>2, Zenon DEF PacedInv
      <3>4. r_cnt < T_REFI - 1 /\ ~ref_go
        BY <1>2, <1>6, <1>10, <3>1, <3>3, Timings
      <3> QED BY <1>2, <1>5, <1>8, <3>1, <3>3, <3>4, Timings
    <2> QED BY <2>1, <2>2, Zenon
  <1>14. ASSUME r_st' = "ZQW"
         PROVE  r_owed' = 0 /\ r_cnt' + r_wait' + T_ZQCS < T_REFI
    <2>1. (r_st = "CLOSE" /\ ref_go /\ zq_cnt = 0) \/ (r_st = "ZQW" /\ ~zq_go)
      BY <1>1, <1>14, RefreshMoves, Zenon
    <2>2. CASE r_st = "CLOSE" /\ ref_go /\ zq_cnt = 0
      <3>1. r_wait' = T_RFC - 1
        BY <1>4, <2>2, Zenon
      <3> QED BY <1>2, <1>9, <2>2, <3>1, Timings
    <2>3. CASE r_st = "ZQW" /\ ~zq_go
      <3>1. pre = <<>> /\ act = <<>>
        <4>1. r_st # "RUN"
          BY <2>3, Zenon
        <4>2. pre # <<>> => \E b \in Bank : pre = <<b>>
          BY <1>1, Zenon DEF CtlType, Opt
        <4>3. act # <<>> => act[1].b \in Bank
          BY <1>1 DEF CtlType, Opt
        <4> QED BY <1>1, <4>1, <4>2, <4>3, Zenon DEF PreInv, ActInv, Activates
      <3>2. r_wait # 0
        BY <2>3, <3>1, Zenon DEF zq_go, row_busy
      <3>3. r_owed = 0 /\ r_cnt + r_wait + T_ZQCS < T_REFI /\ ~ref_go
        BY <1>10, <2>3, Zenon DEF PacedInv
      <3>4. r_cnt < T_REFI - 1
        BY <1>2, <3>3, Timings
      <3>5. r_wait' = r_wait - 1
        BY <1>4, <2>3, <3>2, <3>3, SMTT(30) DEF dn
      <3> QED BY <1>2, <1>5, <1>8, <3>3, <3>4, <3>5, Timings
    <2> QED BY <2>1, <2>2, <2>3, Zenon
  <1> QED BY <1>11, <1>12, <1>13, <1>14, Zenon DEF PacedInv

\* The counters stay numbers.
LEMMA CounterType ==
  ASSUME CtlType, NEW rq, Tick(rq)
  PROVE  t' \in [rcd : [Bank -> Nat], pre : [Bank -> Nat], act : [Bank -> Nat],
                 actg : [Group -> Nat], casg : [Group -> Nat], rdg : [Group -> Nat], wr : Nat]
  <1>1. t' = t_n
    BY Zenon DEF Tick, CounterTick
  <1>2. ASSUME NEW b \in Bank
        PROVE  t'.rcd[b] \in Nat /\ t'.pre[b] \in Nat /\ t'.act[b] \in Nat
    <2>1. t.rcd[b] \in Nat /\ t.pre[b] \in Nat /\ t.act[b] \in Nat
      BY Zenon DEF CtlType
    <2>2. /\ t'.rcd[b] = IF Activates(b) THEN T_RCD - 1 ELSE dn(t.rcd[b])
          /\ t'.pre[b] = t_pre(b) /\ t'.act[b] = t_act(b)
      BY BankMoves, Zenon
    <2>3. t_pre(b) \in Nat
      BY <2>1, Settings, Counts, Zenon DEF t_pre
    <2>4. t_act(b) \in Nat
      BY <2>1, Settings, Counts, Zenon DEF t_act
    <2> QED BY <2>1, <2>2, <2>3, <2>4, Settings, Counts, Zenon
  <1>3. ASSUME NEW g \in Group
        PROVE  t'.actg[g] \in Nat /\ t'.casg[g] \in Nat /\ t'.rdg[g] \in Nat
    <2>1. t.actg[g] \in Nat /\ t.casg[g] \in Nat /\ t.rdg[g] \in Nat
      BY Zenon DEF CtlType
    <2>2. t'.actg[g] \in Nat
      <3>1. t'.actg[g] = IF ActIn(g) THEN T_RRD_L - 1
                         ELSE IF act # <<>> THEN mx(dn(t.actg[g]), T_RRD_S - 1) ELSE dn(t.actg[g])
        BY GroupMoves, Zenon
      <3> QED BY <2>1, <3>1, Settings, Counts, ZenonT(60)
    <2>3. t'.casg[g] \in Nat
      <3>1. t'.casg[g] = IF (rd_cas \/ wr_cas) /\ h_g = g THEN T_CCD_L - 1 ELSE dn(t.casg[g])
        BY GroupMoves, Zenon
      <3> QED BY <2>1, <3>1, Settings, Counts, Zenon
    <2>4. t'.rdg[g] \in Nat
      <3>1. t'.rdg[g] = IF wr_cas /\ h_g = g THEN T_WTR_L - 1
                        ELSE IF wr_cas THEN mx(dn(t.rdg[g]), T_WTR_S - 1) ELSE dn(t.rdg[g])
        BY GroupMoves, Zenon
      <3> QED BY <2>1, <3>1, Settings, Counts, Zenon
    <2> QED BY <2>2, <2>3, <2>4, Zenon
  <1>4. t'.wr \in Nat
    <2>1. t.wr \in Nat /\ 0 \in Group
      BY Zenon DEF CtlType, Group
    <2>2. t'.wr = IF rd_cas THEN T_RTW - 1 ELSE dn(t.wr)
      BY <2>1, GroupMoves, Zenon
    <2> QED BY <2>1, <2>2, Settings, Counts, ZenonT(30)
  <1>5. /\ t' = [rcd |-> t'.rcd, pre |-> t'.pre, act |-> t'.act, actg |-> t'.actg,
                 casg |-> t'.casg, rdg |-> t'.rdg, wr |-> t'.wr]
        /\ t'.rcd = [b \in Bank |-> t'.rcd[b]] /\ t'.pre = [b \in Bank |-> t'.pre[b]]
        /\ t'.act = [b \in Bank |-> t'.act[b]] /\ t'.actg = [g \in Group |-> t'.actg[g]]
        /\ t'.casg = [g \in Group |-> t'.casg[g]] /\ t'.rdg = [g \in Group |-> t'.rdg[g]]
    BY <1>1, Zenon DEF t_n
  <1>6. t'.rcd \in [Bank -> Nat] /\ t'.pre \in [Bank -> Nat] /\ t'.act \in [Bank -> Nat]
    BY <1>2, <1>5, Zenon
  <1>7. t'.actg \in [Group -> Nat] /\ t'.casg \in [Group -> Nat] /\ t'.rdg \in [Group -> Nat]
    BY <1>3, <1>5, Zenon
  <1> QED BY <1>4, <1>5, <1>6, <1>7, Zenon

\* The history stays numbers.
LEMMA AgeType ==
  ASSUME CtlType, NEW rq, Tick(rq)
  PROVE  age' \in [act : [Bank -> Nat], pre : [Bank -> Nat], rd : [Bank -> Nat],
                   wr : [Bank -> Nat], ref : Nat, zq : Nat]
  <1>1. 0 \in Bank
    BY Timings DEF Bank
  <1>2. AgeTick
    BY Zenon DEF Tick
  <1>3. /\ age' = [act |-> age'.act, pre |-> age'.pre, rd |-> age'.rd, wr |-> age'.wr,
                   ref |-> age'.ref, zq |-> age'.zq]
        /\ age'.act = [b \in Bank |-> age'.act[b]] /\ age'.pre = [b \in Bank |-> age'.pre[b]]
        /\ age'.rd = [b \in Bank |-> age'.rd[b]] /\ age'.wr = [b \in Bank |-> age'.wr[b]]
    BY <1>2, Zenon DEF AgeTick
  <1>4. /\ age'.act \in [Bank -> Nat] /\ age'.pre \in [Bank -> Nat]
        /\ age'.rd \in [Bank -> Nat] /\ age'.wr \in [Bank -> Nat]
    BY <1>3, AgesCount, Zenon
  <1>5. age'.ref \in Nat /\ age'.zq \in Nat
    BY <1>1, AgesCount, Zenon
  <1> QED BY <1>3, <1>4, <1>5, Zenon
=============================================================================
