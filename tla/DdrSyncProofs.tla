--------------------------- MODULE DdrSyncProofs ----------------------------
(***************************************************************************)
(* What crosses between the memory port's two clocks crosses exactly once  *)
(* and in order, for any requests, beats and snoops, in both alignments of *)
(* the clocks and whenever a reset comes.  SyncInv is the inductive        *)
(* invariant: what the edges of a reset have cleared so far (ResetInv),    *)
(* where the phase detector stands at each edge (PhaseInv, StartInv), and  *)
(* for each thing that crosses, how far it is (RequestInv, BeatInv,        *)
(* SnoopInv, ReleaseInv).                                                  *)
(***************************************************************************)
EXTENDS DdrSync, TLAPS

SyncType ==
  /\ late \in BOOLEAN /\ turn \in {"m0", "p", "m1"} /\ (turn = "p" => late)
  /\ rst \in 0..2 /\ prs \in 0..2 /\ up \in 0..2
  /\ p_t \in BOOLEAN /\ m_tf \in BOOLEAN /\ m_tr \in BOOLEAN /\ cap \in BOOLEAN
  /\ p_q \in Opt(Requests) /\ c \in Opt(Requests) /\ m_q \in Opt(Requests)
  /\ promise \in BOOLEAN /\ capd \in BOOLEAN /\ sampled \in BOOLEAN
  /\ mr \in [Chan -> Opt(ReadBeats \cup Dones)]
  /\ pr \in [Chan -> Opt(ReadBeats \cup Dones)]
  /\ qr \in [Chan -> Opt(ReadBeats \cup Dones)]
  /\ ms \in Opt(Snoops) /\ s_line \in Opt(Snoops) /\ p_s \in Opt(Snoops)
  /\ s_tog \in BOOLEAN /\ s_out \in BOOLEAN /\ s_tq \in BOOLEAN /\ a_tog \in BOOLEAN
  /\ c_atog \in BOOLEAN /\ m_s_ack \in BOOLEAN
  /\ r_tog \in BOOLEAN /\ r_pend \in BOOLEAN /\ r_tq \in BOOLEAN /\ r_seen \in BOOLEAN
  /\ held \in BOOLEAN

-----------------------------------------------------------------------------
\* What an edge of each clock in reset leaves, as long as clk_p is held, and the history
Nothing == [ch \in Chan |-> <<>>]
PClear ==
  /\ ~p_t /\ up = 0 /\ p_q = <<>> /\ qr = Nothing
  /\ ~s_tq /\ ~a_tog /\ ~r_tq /\ ~r_seen
MClear ==
  /\ c = <<>> /\ m_q = <<>> /\ mr = Nothing /\ pr = Nothing
  /\ ~c_atog /\ ~m_s_ack /\ s_out = s_tog /\ ~held /\ ~r_pend /\ ~r_tog
HistClear ==
  asked = <<>> /\ ~capd /\ owed = Nothing /\ ~sampled /\ answers = 0 /\ rels = 0

\* clk_p has at least one edge before rst = 0, and two after it before prs = 0
ResetInv ==
  /\ rst > 0 => prs = 2
  /\ prs > 0 => HistClear
  /\ prs > 0 /\ rst < 2 => MClear
  /\ prs > 0 /\ rst = 0 => PClear
  /\ rst = 1 /\ (IF late THEN turn = "m0" ELSE turn = "m1") => PClear
  /\ rst > 0 /\ late /\ turn = "m1" => PClear
  /\ prs = 2 /\ rst = 0 /\ turn = "p" => ~m_tf
  /\ prs = 1 => ~m_tf /\ (turn # "m1" => ~m_tr) /\ (turn = "p" => cap)

\* cap, and the two samples of clk_p's toggle, before each edge
PhaseInv ==
  prs = 0 =>
    IF up = 0 THEN ~p_t /\ ~m_tf /\ ~m_tr /\ cap
    ELSE IF late
    THEN /\ turn = "m0" => m_tf = p_t /\ m_tr # p_t /\ cap
         /\ turn = "p" => m_tf = p_t /\ m_tr = p_t /\ ~cap
         /\ turn = "m1" => m_tf # p_t /\ m_tr # p_t /\ cap = (up = 1)
    ELSE IF turn = "m1" THEN m_tf = p_t /\ m_tr # p_t /\ cap
                        ELSE m_tf = p_t /\ m_tr = p_t /\ ~cap

\* Nothing crosses before clk_p's second edge out of reset: the detector is not settled
StartInv ==
  prs = 0 /\ up < 2 =>
    /\ p_q = <<>> /\ c = <<>> /\ m_q = <<>> /\ asked = <<>> /\ ~capd
    /\ pr = Nothing /\ qr = Nothing /\ owed = Nothing
    /\ up = 0 => mr = Nothing
    /\ late /\ turn = "m1" => mr = Nothing

-----------------------------------------------------------------------------
\* The clk_m edge that captures a request is next; clk_p's edge is next
BeforeCapture == IF late THEN turn = "m0" ELSE turn = "m1"
BeforeP == IF late THEN turn = "p" ELSE turn = "m0"

\* A request is captured at the last edge before the one that shows the port its promise
RequestInv ==
  prs = 0 =>
    /\ asked = IF capd THEN m_q ELSE m_q \o c
    /\ capd => BeforeP /\ promise /\ c = p_q /\ p_q # <<>>
    /\ up = 2 /\ BeforeCapture => (promise => c = <<>>)
    /\ up = 2 /\ BeforeP => (promise /\ p_q # <<>> => capd)

\* What is launched is seen at the one edge of clk_p before the next launch
BeatInv ==
  prs = 0 =>
    /\ \A ch \in Chan : owed[ch] = qr[ch] \o (IF sampled THEN <<>> ELSE pr[ch])
    /\ up = 2 => sampled = (late /\ turn = "m1")

\* A snoop's toggle and its answer's chase each other: s_tog, s_tq, a_tog, c_atog
Sent == s_tog # s_tq /\ s_tq = a_tog /\ a_tog = c_atog
Presented == s_tog = s_tq /\ s_tq # a_tog /\ a_tog = c_atog
Answered == s_tog = s_tq /\ s_tq = a_tog /\ a_tog # c_atog
Settled == s_tog = s_tq /\ s_tq = a_tog /\ a_tog = c_atog
SnoopInv ==
  /\ s_out => ms = s_line /\ ms # <<>> /\ ~m_s_ack
  /\ prs = 0 =>
       /\ IF s_out THEN Sent \/ Presented \/ Answered \/ Settled ELSE Settled
       /\ s_out => answers = (IF Sent \/ Presented THEN 0 ELSE 1)
       /\ m_s_ack => answers = 1 /\ ms = s_line /\ ms # <<>>
       /\ Presented => p_s = s_line

\* At most one release is on its way, and it leaves before the next flush is answered
NoRelease == ~r_pend /\ r_tog = r_tq /\ r_tq = r_seen
Pending == r_pend /\ r_tog = r_tq /\ r_tq = r_seen
Crossing == ~r_pend /\ r_tog # r_tq /\ r_tq = r_seen
Arrived == ~r_pend /\ r_tog = r_tq /\ r_tq # r_seen
Flushing == ms # <<>> /\ ms[1] \in Flushes
ReleaseInv ==
  prs = 0 =>
    /\ (rels = 0 /\ NoRelease) \/ (rels = 1 /\ (Pending \/ Crossing \/ Arrived))
    /\ held => rels = 0
    /\ Flushing =>
         /\ ~held
         /\ s_out => ~r_pend
         /\ s_out /\ Presented => r_tog = r_tq
         /\ (s_out /\ (Answered \/ Settled)) \/ m_s_ack => rels = 0

SyncInv ==
  /\ SyncType /\ ResetInv /\ PhaseInv /\ StartInv
  /\ RequestInv /\ BeatInv /\ SnoopInv /\ ReleaseInv

-----------------------------------------------------------------------------
\* The three kinds of step: an edge of clk_m, of both clocks, of clk_p
MStep(rdy, rel, req) ==
  /\ MEdge(p_t, rdy, rel, req) /\ ResetP(FALSE) /\ History(TRUE, FALSE, rdy, rel, FALSE)
  /\ UNCHANGED <<late, pVars>>
  /\ (turn = "m0" /\ late /\ turn' = "p") \/ (turn = "m1" /\ turn' = "m0")
BothStep(rdy, ack, rel, req) ==
  /\ turn = "m0" /\ ~late /\ turn' = "m1" /\ UNCHANGED late
  /\ PEdge(ack) /\ MEdge(p_t', rdy, rel, req) /\ ResetP(TRUE)
  /\ History(TRUE, TRUE, rdy, rel, ack)

\* Every edge of the clocks (Edge) is one of the three.
LEMMA Steps ==
  ASSUME SyncNext
  PROVE  \/ \E rdy, rel, req \in BOOLEAN : MStep(rdy, rel, req)
         \/ \E rdy, ack, rel, req \in BOOLEAN : BothStep(rdy, ack, rel, req)
         \/ \E ack \in BOOLEAN : P(ack)
BY ZenonT(60) DEF SyncNext, Edge, M0, M0P, M1, M, MStep, BothStep

\* An edge of one clock leaves the other's registers.
LEMMA MKeeps ==
  ASSUME NEW rdy, NEW rel, NEW req, MStep(rdy, rel, req)
  PROVE  /\ late' = late /\ p_t' = p_t /\ p_q' = p_q /\ qr' = qr /\ s_tq' = s_tq
         /\ p_s' = p_s /\ a_tog' = a_tog /\ r_tq' = r_tq /\ r_seen' = r_seen /\ up' = up
BY Zenon DEF MStep, pVars

\* An edge of the port's clock leaves the memory side's registers.
LEMMA PKeeps ==
  ASSUME NEW ack, P(ack)
  PROVE  /\ late' = late /\ m_tf' = m_tf /\ m_tr' = m_tr /\ cap' = cap
         /\ promise' = promise /\ c' = c /\ m_q' = m_q /\ mr' = mr /\ pr' = pr /\ ms' = ms
         /\ s_tog' = s_tog /\ s_out' = s_out /\ s_line' = s_line /\ c_atog' = c_atog
         /\ m_s_ack' = m_s_ack /\ r_tog' = r_tog /\ r_pend' = r_pend /\ held' = held
         /\ rst' = rst
BY Zenon DEF P, mVars

\* The registers keep their types (ddr_port_sync.v).
LEMMA TypeStep ==
  ASSUME SyncType, SyncNext
  PROVE  SyncType'
<1>1. ASSUME NEW tf \in BOOLEAN, NEW rdy \in BOOLEAN, NEW rel \in BOOLEAN,
             NEW req \in BOOLEAN, MEdge(tf, rdy, rel, req)
      PROVE  /\ rst' \in 0..2 /\ m_tf' \in BOOLEAN /\ m_tr' \in BOOLEAN /\ cap' \in BOOLEAN
             /\ (p_q \in Opt(Requests) => c' \in Opt(Requests)) /\ m_q' \in Opt(Requests)
             /\ promise' \in BOOLEAN
             /\ mr' \in [Chan -> Opt(ReadBeats \cup Dones)]
             /\ pr' \in [Chan -> Opt(ReadBeats \cup Dones)]
             /\ ms' \in Opt(Snoops) /\ s_line' \in Opt(Snoops)
             /\ s_tog' \in BOOLEAN /\ s_out' \in BOOLEAN /\ c_atog' \in BOOLEAN
             /\ m_s_ack' \in BOOLEAN /\ r_tog' \in BOOLEAN /\ r_pend' \in BOOLEAN
             /\ held' \in BOOLEAN
  <2>1. rst' \in 0..2
    BY <1>1 DEF MEdge, ResetM, SyncType
  <2>2. m_tf' \in BOOLEAN /\ m_tr' \in BOOLEAN /\ cap' \in BOOLEAN
    BY <1>1, Zenon DEF MEdge, Phase, SyncType
  <2>3. (p_q \in Opt(Requests) => c' \in Opt(Requests)) /\ m_q' \in Opt(Requests)
    BY <1>1, Zenon DEF MEdge, Request, c_go, SyncType, Opt
  <2>4. promise' \in BOOLEAN
    BY <1>1, Zenon DEF MEdge, Request, c_go, SyncType
  <2>5. mr' \in [Chan -> Opt(ReadBeats \cup Dones)]
    BY <1>1, Zenon DEF MEdge, Launch, GivenNext
  <2>6. pr' \in [Chan -> Opt(ReadBeats \cup Dones)]
    BY <1>1, Zenon DEF MEdge, Launch, SyncType, Opt
  <2>7. ms' \in Opt(Snoops) /\ s_line' \in Opt(Snoops)
    BY <1>1, Zenon DEF MEdge, Snoop, AskedNext, SyncType, Opt, Snoops
  <2>8. s_tog' \in BOOLEAN /\ s_out' \in BOOLEAN /\ c_atog' \in BOOLEAN /\ m_s_ack' \in BOOLEAN
    BY <1>1, Zenon DEF MEdge, Snoop, SyncType
  <2>9. r_tog' \in BOOLEAN /\ r_pend' \in BOOLEAN /\ held' \in BOOLEAN
    BY <1>1, Zenon DEF MEdge, ReleaseOf, HeldNext, SyncType
  <2> QED BY <2>1, <2>2, <2>3, <2>4, <2>5, <2>6, <2>7, <2>8, <2>9, Zenon
<1>2. ASSUME NEW ack \in BOOLEAN, PEdge(ack)
      PROVE  /\ up' \in 0..2 /\ p_t' \in BOOLEAN /\ p_q' \in Opt(Requests)
             /\ qr' \in [Chan -> Opt(ReadBeats \cup Dones)] /\ p_s' \in Opt(Snoops)
             /\ s_tq' \in BOOLEAN /\ a_tog' \in BOOLEAN
             /\ r_tq' \in BOOLEAN /\ r_seen' \in BOOLEAN
  <2>1. up' \in 0..2
    BY <1>2 DEF PEdge, SyncType
  <2>2. p_q' \in Opt(Requests)
    BY <1>2, Zenon DEF PEdge, PresentedNext, SyncType, Opt
  <2>3. qr' \in [Chan -> Opt(ReadBeats \cup Dones)]
    BY <1>2, Zenon DEF PEdge, SyncType, Opt
  <2>4. p_s' \in Opt(Snoops)
    BY <1>2, Zenon DEF PEdge, SyncType
  <2>5. /\ p_t' \in BOOLEAN /\ s_tq' \in BOOLEAN /\ a_tog' \in BOOLEAN
        /\ r_tq' \in BOOLEAN /\ r_seen' \in BOOLEAN
    BY <1>2, Zenon DEF PEdge, SyncType
  <2> QED BY <2>1, <2>2, <2>3, <2>4, <2>5, Zenon
<1>3. ASSUME NEW m, NEW p, NEW rdy, NEW rel, NEW ack, History(m, p, rdy, rel, ack)
      PROVE  capd' \in BOOLEAN /\ sampled' \in BOOLEAN
  BY <1>3, Zenon DEF History, SyncType
<1>4. ASSUME NEW p \in BOOLEAN, ResetP(p)  PROVE prs' \in 0..2
  BY <1>4 DEF ResetP, SyncType
<1>5. ASSUME NEW rdy \in BOOLEAN, NEW rel \in BOOLEAN, NEW req \in BOOLEAN,
             MStep(rdy, rel, req)
      PROVE  SyncType'
  <2>1. MEdge(p_t, rdy, rel, req) /\ ResetP(FALSE) /\ History(TRUE, FALSE, rdy, rel, FALSE)
    BY <1>5, Zenon DEF MStep
  <2>2. prs' \in 0..2 /\ capd' \in BOOLEAN /\ sampled' \in BOOLEAN
    BY <2>1, <1>3, <1>4, Zenon
  <2>3. turn' \in {"m0", "p", "m1"} /\ (turn' = "p" => late)
    BY <1>5, Zenon DEF MStep
  <2>4. /\ rst' \in 0..2 /\ m_tf' \in BOOLEAN /\ m_tr' \in BOOLEAN /\ cap' \in BOOLEAN
        /\ c' \in Opt(Requests) /\ m_q' \in Opt(Requests) /\ promise' \in BOOLEAN
        /\ mr' \in [Chan -> Opt(ReadBeats \cup Dones)]
        /\ pr' \in [Chan -> Opt(ReadBeats \cup Dones)]
        /\ ms' \in Opt(Snoops) /\ s_line' \in Opt(Snoops)
        /\ s_tog' \in BOOLEAN /\ s_out' \in BOOLEAN /\ c_atog' \in BOOLEAN
        /\ m_s_ack' \in BOOLEAN /\ r_tog' \in BOOLEAN /\ r_pend' \in BOOLEAN
        /\ held' \in BOOLEAN
    BY <2>1, <1>1, ZenonT(60) DEF SyncType
  <2>5. /\ late' = late /\ p_t' = p_t /\ p_q' = p_q /\ qr' = qr /\ s_tq' = s_tq
        /\ p_s' = p_s /\ a_tog' = a_tog /\ r_tq' = r_tq /\ r_seen' = r_seen /\ up' = up
    BY <1>5, MKeeps, Zenon
  <2>6. /\ late' \in BOOLEAN /\ (turn' = "p" => late') /\ p_t' \in BOOLEAN
        /\ s_tq' \in BOOLEAN /\ a_tog' \in BOOLEAN /\ r_tq' \in BOOLEAN /\ r_seen' \in BOOLEAN
    BY <2>3, <2>5, Zenon DEF SyncType
  <2>7. /\ up' \in 0..2 /\ p_q' \in Opt(Requests) /\ p_s' \in Opt(Snoops)
        /\ qr' \in [Chan -> Opt(ReadBeats \cup Dones)]
    BY <2>5, Zenon DEF SyncType
  <2> QED BY <2>2, <2>3, <2>4, <2>6, <2>7, Zenon DEF SyncType
<1>6. ASSUME NEW rdy \in BOOLEAN, NEW ack \in BOOLEAN, NEW rel \in BOOLEAN,
             NEW req \in BOOLEAN, BothStep(rdy, ack, rel, req)
      PROVE  SyncType'
  <2>1. /\ PEdge(ack) /\ MEdge(p_t', rdy, rel, req) /\ ResetP(TRUE)
        /\ History(TRUE, TRUE, rdy, rel, ack)
    BY <1>6, Zenon DEF BothStep
  <2>2. prs' \in 0..2 /\ capd' \in BOOLEAN /\ sampled' \in BOOLEAN
    BY <2>1, <1>3, <1>4, Zenon
  <2>3. p_t' \in BOOLEAN
    BY <2>1, <1>2, Zenon
  <2>4. late' = late /\ turn' = "m1"
    BY <1>6, Zenon DEF BothStep
  <2>5. /\ up' \in 0..2 /\ p_q' \in Opt(Requests)
        /\ qr' \in [Chan -> Opt(ReadBeats \cup Dones)] /\ p_s' \in Opt(Snoops)
        /\ s_tq' \in BOOLEAN /\ a_tog' \in BOOLEAN
        /\ r_tq' \in BOOLEAN /\ r_seen' \in BOOLEAN
    BY <2>1, <1>2, Zenon
  <2>6. /\ rst' \in 0..2 /\ m_tf' \in BOOLEAN /\ m_tr' \in BOOLEAN /\ cap' \in BOOLEAN
        /\ c' \in Opt(Requests) /\ m_q' \in Opt(Requests) /\ promise' \in BOOLEAN
        /\ mr' \in [Chan -> Opt(ReadBeats \cup Dones)]
        /\ pr' \in [Chan -> Opt(ReadBeats \cup Dones)]
        /\ ms' \in Opt(Snoops) /\ s_line' \in Opt(Snoops)
        /\ s_tog' \in BOOLEAN /\ s_out' \in BOOLEAN /\ c_atog' \in BOOLEAN
        /\ m_s_ack' \in BOOLEAN /\ r_tog' \in BOOLEAN /\ r_pend' \in BOOLEAN
        /\ held' \in BOOLEAN
    <3>1. p_q \in Opt(Requests)
      BY Zenon DEF SyncType
    <3> QED BY <2>1, <2>3, <3>1, <1>1, Zenon
  <2>7. late' \in BOOLEAN /\ turn' \in {"m0", "p", "m1"} /\ (turn' = "p" => late')
    BY <2>4, Zenon DEF SyncType
  <2> QED BY <2>2, <2>3, <2>5, <2>6, <2>7, Zenon DEF SyncType
<1>7. ASSUME NEW ack \in BOOLEAN, P(ack)  PROVE SyncType'
  <2>1. PEdge(ack) /\ ResetP(TRUE) /\ History(FALSE, TRUE, FALSE, FALSE, ack)
    BY <1>7, Zenon DEF P
  <2>2. prs' \in 0..2 /\ capd' \in BOOLEAN /\ sampled' \in BOOLEAN
    BY <2>1, <1>3, <1>4, Zenon
  <2>3. turn' = "m1"
    BY <1>7, Zenon DEF P
  <2>4. /\ late \in BOOLEAN /\ turn' \in {"m0", "p", "m1"} /\ (turn' = "p" => late)
        /\ up' \in 0..2 /\ p_t' \in BOOLEAN /\ p_q' \in Opt(Requests)
        /\ qr' \in [Chan -> Opt(ReadBeats \cup Dones)] /\ p_s' \in Opt(Snoops)
        /\ s_tq' \in BOOLEAN /\ a_tog' \in BOOLEAN
        /\ r_tq' \in BOOLEAN /\ r_seen' \in BOOLEAN
    BY <2>1, <2>3, <1>2, Zenon DEF SyncType
  <2>5. /\ late' = late /\ rst' = rst /\ m_tf' = m_tf /\ m_tr' = m_tr /\ cap' = cap
        /\ promise' = promise /\ c' = c /\ m_q' = m_q /\ mr' = mr /\ pr' = pr /\ ms' = ms
        /\ s_tog' = s_tog /\ s_out' = s_out /\ s_line' = s_line /\ c_atog' = c_atog
        /\ m_s_ack' = m_s_ack /\ r_tog' = r_tog /\ r_pend' = r_pend /\ held' = held
    BY <1>7, PKeeps, Zenon
  <2>6. /\ late' \in BOOLEAN /\ (turn' = "p" => late') /\ m_tf' \in BOOLEAN /\ m_tr' \in BOOLEAN
        /\ cap' \in BOOLEAN
    BY <2>4, <2>5, Zenon DEF SyncType
  <2>7. /\ rst' \in 0..2 /\ promise' \in BOOLEAN /\ c' \in Opt(Requests) /\ m_q' \in Opt(Requests)
        /\ mr' \in [Chan -> Opt(ReadBeats \cup Dones)]
    BY <2>5, Zenon DEF SyncType
  <2>8. /\ pr' \in [Chan -> Opt(ReadBeats \cup Dones)]
        /\ ms' \in Opt(Snoops)
        /\ s_line' \in Opt(Snoops)
    BY <2>5, Zenon DEF SyncType
  <2>9. /\ s_tog' \in BOOLEAN /\ s_out' \in BOOLEAN /\ c_atog' \in BOOLEAN
        /\ m_s_ack' \in BOOLEAN /\ r_tog' \in BOOLEAN /\ r_pend' \in BOOLEAN
        /\ held' \in BOOLEAN
    BY <2>5, Zenon DEF SyncType
  <2> QED BY <2>2, <2>4, <2>6, <2>7, <2>8, <2>9, Zenon DEF SyncType
<1> QED BY Steps, <1>5, <1>6, <1>7, Zenon

-----------------------------------------------------------------------------
\* An edge of clk_p in reset clears its side (ddr_port_sync.v's reset_p branches).
LEMMA PCleared ==
  ASSUME NEW ack, PEdge(ack), prs > 0
  PROVE  PClear'
<1>1. qr' = Nothing
  BY Zenon DEF PEdge, reset_p, Nothing
<1>2. up' = 0 /\ p_q' = <<>>
  BY Zenon DEF PEdge, PresentedNext, reset_p
<1>3. ~p_t' /\ ~s_tq' /\ ~a_tog' /\ ~r_tq' /\ ~r_seen'
  BY Zenon DEF PEdge, reset_p
<1> QED BY <1>1, <1>2, <1>3, Zenon DEF PClear

\* An edge of clk_m in reset clears its side (reset_m), and one after it leaves it clear
\* as long as clk_p's side is.
LEMMA MCleared ==
  ASSUME SyncType, NEW tf, NEW rdy, NEW rel, NEW req, MEdge(tf, rdy, rel, req),
         rst > 0 \/ (MClear /\ PClear)
  PROVE  MClear'
<1>1. c' = <<>> /\ m_q' = <<>>
  BY Zenon DEF MEdge, Request, c_go, reset_m, MClear, PClear
<1>2. pr' = Nothing
  BY Zenon DEF MEdge, Launch, reset_m, MClear, Nothing
<1>3. mr' = Nothing
  <2>1. mr' \in GivenNext
    BY Zenon DEF MEdge, Launch
  <2>2. ASSUME NEW ch \in Chan  PROVE mr'[ch] = <<>>
    <3>1. CASE rst > 0
      BY <2>1, <3>1, Zenon DEF GivenNext, reset_m
    <3>2. CASE ~(rst > 0)
      <4>1. mr[ch] = <<>> /\ ~(up > 0)
        BY <3>2 DEF MClear, PClear, Nothing
      <4> QED BY <2>1, <3>2, <4>1, Zenon DEF GivenNext, reset_m
    <3> QED BY <3>1, <3>2, Zenon
  <2> QED BY <2>1, <2>2, Zenon DEF GivenNext, Nothing
<1>4. CASE rst > 0
  <2>1. ~c_atog' /\ ~m_s_ack' /\ ~s_tog' /\ ~s_out' /\ ~held' /\ ~r_pend' /\ ~r_tog'
    BY <1>4, Zenon DEF MEdge, Snoop, ReleaseOf, HeldNext, reset_m
  <2>2. s_tog' \in BOOLEAN /\ s_out' \in BOOLEAN
    BY Zenon DEF MEdge, Snoop
  <2>3. s_out' = s_tog'
    BY <2>1, <2>2, Zenon
  <2> QED BY <1>1, <1>2, <1>3, <2>1, <2>3, Zenon DEF MClear
<1>5. CASE ~(rst > 0)
  <2>1. MClear /\ PClear
    BY <1>5, Zenon
  <2>2. ~c_atog' /\ ~m_s_ack'
    BY <2>1, <1>5, Zenon DEF MEdge, Snoop, reset_m, MClear, PClear, SyncType
  <2>3. s_out' = s_tog'
    BY <2>1, <1>5, Zenon DEF MEdge, Snoop, reset_m, MClear, PClear, SyncType
  <2>4. ~held' /\ ~r_pend' /\ ~r_tog'
    BY <2>1, <1>5, Zenon DEF MEdge, ReleaseOf, HeldNext, reset_m, MClear, SyncType
  <2> QED BY <1>1, <1>2, <1>3, <2>2, <2>3, <2>4, Zenon DEF MClear
<1> QED BY <1>4, <1>5, Zenon

\* What the reset has cleared, edge by edge, from the moment it is asked for: clk_m's side,
\* clk_p's side and the phase detector (ui_cpu_reset, probe_reset).
LEMMA ResetStep ==
  ASSUME SyncType, ResetInv, SyncNext
  PROVE  ResetInv'
<1>1. ASSUME NEW m, NEW p, NEW rdy, NEW rel, NEW ack, History(m, p, rdy, rel, ack)
      PROVE  prs' > 0 => HistClear'
  BY <1>1, Zenon DEF History, HistClear, Nothing
<1>2. ASSUME NEW rdy \in BOOLEAN, NEW rel \in BOOLEAN, NEW req \in BOOLEAN,
             MStep(rdy, rel, req)
      PROVE  ResetInv'
  <2>1. MEdge(p_t, rdy, rel, req) /\ ResetP(FALSE) /\ ResetM(req)
    BY <1>2, Zenon DEF MStep, MEdge
  <2>2. prs' > 0 => HistClear'
    BY <1>2, <1>1, Zenon DEF MStep
  <2>3. /\ rst' > 0 => prs' = 2
        /\ rst = 0 /\ rst' = 0 => prs' = prs
        /\ prs' > 0 => rst' = 2 \/ rst > 0 \/ (prs > 0 /\ rst = 0)
        /\ rst = 0 => rst' \in {0, 2}
        /\ prs' = 1 => prs = 1 /\ rst = 0
        /\ rst' = 1 => rst = 2
        /\ rst' = 0 => rst \in {0, 1}
    BY <2>1 DEF ResetP, ResetM, SyncType
  <2>4. /\ late' = late /\ (PClear => PClear')
        /\ (turn = "m0" /\ late /\ turn' = "p") \/ (turn = "m1" /\ turn' = "m0")
    BY <1>2, MKeeps, Zenon DEF MStep, PClear
  <2>5. prs' > 0 /\ rst' < 2 => MClear'
    <3>1. prs' > 0 /\ rst' < 2 => rst > 0 \/ (MClear /\ PClear)
      BY <2>3 DEF ResetInv, SyncType
    <3> QED BY <2>1, <3>1, MCleared, Zenon
  <2>6. prs' > 0 /\ rst' = 0 => PClear
    BY <2>3, <2>4 DEF ResetInv, SyncType
  <2>7. rst' = 1 /\ (IF late' THEN turn' = "m0" ELSE turn' = "m1") => PClear'
    BY <2>3, <2>4 DEF ResetInv, SyncType
  <2>8. prs' = 2 /\ rst' = 0 /\ turn' = "p" => ~m_tf'
    BY <2>1, <2>6 DEF MEdge, Phase, PClear
  <2>9. prs' = 1 => ~m_tf' /\ ~m_tr'
    BY <2>1, <2>3, <2>6 DEF MEdge, Phase, PClear, ResetInv, SyncType
  <2>10. prs' = 1 /\ turn' = "p" => cap'
    BY <2>1, <2>3, <2>4, Zenon DEF MEdge, Phase, ResetInv, SyncType
  <2> QED BY <2>2, <2>3, <2>4, <2>5, <2>6, <2>7, <2>8, <2>9, <2>10, Zenon DEF ResetInv
<1>3. ASSUME NEW rdy \in BOOLEAN, NEW ack \in BOOLEAN, NEW rel \in BOOLEAN,
             NEW req \in BOOLEAN, BothStep(rdy, ack, rel, req)
      PROVE  ResetInv'
  <2>1. /\ PEdge(ack) /\ MEdge(p_t', rdy, rel, req) /\ ResetP(TRUE) /\ ResetM(req)
        /\ turn = "m0" /\ turn' = "m1" /\ late' = late /\ ~late
    BY <1>3, Zenon DEF BothStep, MEdge
  <2>2. prs' > 0 => HistClear'
    BY <1>3, <1>1, Zenon DEF BothStep
  <2>3. /\ rst' > 0 => prs' = 2
        /\ prs' > 0 => rst' = 2 \/ rst > 0 \/ (prs > 0 /\ rst = 0)
        /\ rst = 0 => rst' \in {0, 2}
        /\ prs' = 1 => prs = 2
        /\ rst' = 1 => rst = 2
        /\ rst' = 0 /\ prs' > 0 /\ rst = 0 => prs > 0
    BY <2>1 DEF ResetP, ResetM, SyncType
  <2>4. rst > 0 \/ prs > 0 => PClear'
    BY <2>1, PCleared DEF ResetInv, SyncType
  <2>5. prs' > 0 /\ rst' < 2 => MClear'
    BY <2>1, <2>3, MCleared, SMTT(40) DEF ResetInv, SyncType
  <2>6. prs' = 1 => ~m_tf'
    BY <2>1, <2>3, <2>4 DEF MEdge, Phase, PClear
  <2> QED BY <2>1, <2>2, <2>3, <2>4, <2>5, <2>6 DEF ResetInv, SyncType
<1>4. ASSUME NEW ack \in BOOLEAN, P(ack)  PROVE ResetInv'
  <2>1. PEdge(ack) /\ ResetP(TRUE) /\ turn = "p" /\ turn' = "m1" /\ late' = late /\ rst' = rst
    BY <1>4, PKeeps, Zenon DEF P
  <2>2. prs' > 0 => HistClear'
    BY <1>4, <1>1, Zenon DEF P
  <2>3. /\ rst' > 0 => prs' = 2
        /\ prs' > 0 => rst > 0 \/ (prs > 0 /\ rst = 0)
        /\ prs' = 1 => prs = 2 /\ rst = 0
    BY <2>1 DEF ResetP, SyncType
  <2>4. rst > 0 \/ prs > 0 => PClear'
    BY <2>1, PCleared DEF ResetInv, SyncType
  <2>5. (MClear => MClear') /\ (~m_tf => ~m_tf')
    BY <1>4, PKeeps, Zenon DEF MClear
  <2>6. late
    BY <2>1, Zenon DEF SyncType
  <2> QED BY <2>1, <2>2, <2>3, <2>4, <2>5, <2>6, Zenon DEF ResetInv, SyncType
<1> QED BY Steps, <1>2, <1>3, <1>4, Zenon

-----------------------------------------------------------------------------
\* A step that leaves clk_p out of reset has clk_m out of it, and clk_p too or at its last
\* edge.
LEMMA Running ==
  ASSUME SyncType, ResetInv, NEW p \in BOOLEAN, NEW req \in BOOLEAN,
         ResetP(p), ResetM(req) \/ rst' = rst, prs' = 0
  PROVE  rst = 0 /\ rst' = 0 /\ (prs = 0 \/ (prs = 1 /\ p))
BY DEF ResetP, ResetM, ResetInv, SyncType

\* clk_p's toggle and count out of reset.
LEMMA PToggles ==
  ASSUME SyncType, NEW ack, PEdge(ack)
  PROVE  /\ prs = 0 => /\ p_t' = ~p_t /\ (up = 0 => up' = 1) /\ (up # 0 => up' = 2)
                       /\ up' # 0 /\ (up # 0 => up' # 1)
         /\ prs = 1 => p_t' = FALSE /\ up' = 0
<1>1. prs = 0 => (up = 0 => up' = 1) /\ (up # 0 => up' = 2) /\ up' # 0 /\ (up # 0 => up' # 1)
  BY DEF PEdge, reset_p, SyncType
<1>2. prs = 1 => p_t' = FALSE /\ up' = 0
  <2>1. prs = 1 => reset_p
    BY DEF reset_p
  <2> QED BY <2>1, Zenon DEF PEdge
<1>3. prs = 0 => p_t' = ~p_t
  <2>1. prs = 0 => ~reset_p
    BY DEF reset_p
  <2> QED BY <2>1, Zenon DEF PEdge, SyncType
<1> QED BY <1>1, <1>2, <1>3, Zenon

\* CAP is where it should be before every edge: the phase detector finds clk_p's phase
\* within a cycle of the reset's end and never loses it (ddr_port_sync.v:13-20).
LEMMA PhaseStep ==
  ASSUME SyncType, ResetInv, PhaseInv, SyncNext
  PROVE  PhaseInv'
<1> SUFFICES ASSUME prs' = 0
             PROVE  PhaseInv'
  BY Zenon DEF PhaseInv
<1>1. ASSUME NEW rdy \in BOOLEAN, NEW rel \in BOOLEAN, NEW req \in BOOLEAN,
             MStep(rdy, rel, req)
      PROVE  PhaseInv'
  <2>1. ResetM(req) /\ ResetP(FALSE) /\ m_tf' = p_t /\ m_tr' = m_tf /\ cap' = (m_tf = m_tr)
    BY <1>1, Zenon DEF MStep, MEdge, Phase
  <2>2. prs = 0
    BY <2>1, Running, Zenon
  <2>3. /\ late' = late /\ p_t' = p_t /\ up' = up
        /\ (turn = "m0" /\ late /\ turn' = "p") \/ (turn = "m1" /\ turn' = "m0")
    BY <1>1, MKeeps, Zenon DEF MStep
  <2>4. CASE up = 0
    BY <2>1, <2>2, <2>3, <2>4, Zenon DEF PhaseInv, SyncType
  <2>5. CASE up # 0 /\ turn = "m0" /\ late /\ turn' = "p"
    BY <2>1, <2>2, <2>3, <2>5, Zenon DEF PhaseInv, SyncType
  <2>6. CASE up # 0 /\ turn = "m1" /\ turn' = "m0"
    BY <2>1, <2>2, <2>3, <2>6, Zenon DEF PhaseInv, SyncType
  <2> QED BY <2>3, <2>4, <2>5, <2>6, Zenon
<1>2. ASSUME NEW rdy \in BOOLEAN, NEW ack \in BOOLEAN, NEW rel \in BOOLEAN,
             NEW req \in BOOLEAN, BothStep(rdy, ack, rel, req)
      PROVE  PhaseInv'
  <2>1. /\ PEdge(ack) /\ ResetM(req) /\ ResetP(TRUE) /\ m_tf' = p_t' /\ m_tr' = m_tf
        /\ cap' = (m_tf = m_tr) /\ turn = "m0" /\ turn' = "m1" /\ late' = late /\ ~late
    BY <1>2, Zenon DEF BothStep, MEdge, Phase
  <2>2. CASE prs = 0
    BY <2>1, <2>2, PToggles, Zenon DEF PhaseInv, SyncType
  <2>3. CASE prs = 1
    <3>1. m_tf = FALSE /\ m_tr = FALSE
      BY <2>1, <2>3, Zenon DEF ResetInv, SyncType
    <3> QED BY <2>1, <2>3, <3>1, PToggles, Zenon DEF PhaseInv
  <2> QED BY <2>1, <2>2, <2>3, Running, Zenon
<1>3. ASSUME NEW ack \in BOOLEAN, P(ack)  PROVE PhaseInv'
  <2>1. /\ PEdge(ack) /\ ResetP(TRUE) /\ turn = "p" /\ turn' = "m1"
        /\ late' = late /\ rst' = rst /\ m_tf' = m_tf /\ m_tr' = m_tr /\ cap' = cap /\ late
    BY <1>3, PKeeps, Zenon DEF P, SyncType
  <2>2. CASE prs = 0
    <3>1. CASE up = 0
      BY <2>1, <2>2, <3>1, PToggles, Zenon DEF PhaseInv, SyncType
    <3>2. CASE up # 0
      BY <2>1, <2>2, <3>2, PToggles, Zenon DEF PhaseInv, SyncType
    <3> QED BY <3>1, <3>2, Zenon
  <2>3. CASE prs = 1
    <3>1. ~m_tf /\ ~m_tr /\ cap
      BY <2>1, <2>3, Zenon DEF ResetInv
    <3> QED BY <2>1, <2>3, <3>1, PToggles, Zenon DEF PhaseInv
  <2> QED BY <2>1, <2>2, <2>3, Running, Zenon
<1> QED BY Steps, <1>1, <1>2, <1>3, Zenon

-----------------------------------------------------------------------------
\* A sequence of at most one element: what Cut and \o make of it.
LEMMA Single ==
  ASSUME NEW S, NEW q \in Opt(S)
  PROVE  q \in Seq(S) /\ (q = <<>> \/ \E d \in S : q = <<d>>)
<1>1. CASE q = <<>>
  BY <1>1
<1>2. CASE \E d \in S : q = <<d>>
  BY <1>2
<1> QED BY <1>1, <1>2, Zenon DEF Opt

\* Joining two queues of one item at most, and taking the first away again.
LEMMA Singles ==
  ASSUME NEW S, NEW q \in Opt(S), NEW r \in Opt(S)
  PROVE  /\ q \o <<>> = q /\ <<>> \o q = q /\ q \o r \in Seq(S) /\ (q \o r) \o <<>> = q \o r
         /\ q # <<>> => Tail(q) = <<>> /\ q \o r # <<>> /\ Tail(q \o r) = r
<1>1. q \in Seq(S) /\ r \in Seq(S)
  BY Single, Zenon
<1>2. q \o <<>> = q /\ <<>> \o q = q /\ q \o r \in Seq(S) /\ (q \o r) \o <<>> = q \o r
  BY <1>1
<1>3. ASSUME q # <<>>  PROVE Tail(q) = <<>> /\ q \o r # <<>> /\ Tail(q \o r) = r
  <2>1. PICK d \in S : q = <<d>>
    BY <1>3, Single, Zenon
  <2> QED BY <2>1, <1>1
<1> QED BY <1>2, <1>3, Zenon

\* Nothing crosses while the phase detector settles: the port presents nothing before its
\* second edge out of reset, and no beat comes before a request (ddr_port_sync.v:13-27).
LEMMA StartStep ==
  ASSUME SyncType, ResetInv, PhaseInv, StartInv, SyncNext
  PROVE  StartInv'
<1> SUFFICES ASSUME prs' = 0, up' < 2
             PROVE  StartInv'
  BY Zenon DEF StartInv
<1> DEFINE Empty == /\ c = <<>> /\ m_q = <<>> /\ p_q = <<>> /\ asked = <<>> /\ ~capd
                    /\ pr = Nothing /\ owed = Nothing /\ (cap \/ mr = Nothing)
<1>1. ASSUME NEW tf \in BOOLEAN, NEW rdy \in BOOLEAN, NEW rel \in BOOLEAN,
             NEW req \in BOOLEAN, MEdge(tf, rdy, rel, req), Empty
      PROVE  c' = <<>> /\ m_q' = <<>> /\ pr' = Nothing
  <2>1. c' = <<>> /\ m_q' = <<>>
    BY <1>1, Zenon DEF MEdge, Request, c_go
  <2>2. pr' = Nothing
    BY <1>1, Zenon DEF MEdge, Launch, Nothing
  <2> QED BY <2>1, <2>2, Zenon
<1>2. ASSUME NEW m \in BOOLEAN, NEW p \in BOOLEAN, NEW rdy \in BOOLEAN, NEW rel \in BOOLEAN,
             NEW ack \in BOOLEAN, History(m, p, rdy, rel, ack), Empty
      PROVE  asked' = <<>> /\ ~capd' /\ owed' = Nothing
  <2>1. \A b \in BOOLEAN : Cut(<<>>, b) \o <<>> = <<>>
    BY DEF Cut
  <2>2. asked' = <<>>
    BY <1>2, <2>1, Zenon DEF History
  <2>3. ~capd'
    BY <1>2, Zenon DEF History
  <2>4. owed' = Nothing
    BY <1>2, <2>1, ZenonT(60) DEF History, Nothing
  <2> QED BY <2>2, <2>3, <2>4, Zenon
<1>3. prs = 0 /\ up < 2 /\ (up = 0 \/ turn # "p") /\ (late \/ turn = "m1" \/ up = 0) => Empty
  BY Zenon DEF StartInv, PhaseInv, SyncType
<1>4. prs = 1 => Empty /\ MClear /\ PClear
  BY DEF ResetInv, MClear, PClear, HistClear, SyncType
<1>5. ASSUME NEW rdy \in BOOLEAN, NEW rel \in BOOLEAN, NEW req \in BOOLEAN,
             MStep(rdy, rel, req)
      PROVE  StartInv'
  <2>1. /\ MEdge(p_t, rdy, rel, req) /\ ResetM(req) /\ ResetP(FALSE)
        /\ History(TRUE, FALSE, rdy, rel, FALSE)
        /\ (turn = "m0" /\ late /\ turn' = "p") \/ (turn = "m1" /\ turn' = "m0")
    BY <1>5, Zenon DEF MStep, MEdge
  <2>2. up' = up /\ p_q' = p_q /\ qr' = qr /\ prs = 0
    BY <1>5, <2>1, MKeeps, Running, Zenon
  <2>3. Empty /\ qr = Nothing
    BY <2>1, <2>2, <1>3, Zenon DEF StartInv, SyncType
  <2>4. up = 0 => mr' = Nothing
    <3>1. mr' \in GivenNext
      BY <2>1, Zenon DEF MEdge, Launch
    <3>2. ASSUME up = 0, NEW ch \in Chan  PROVE mr'[ch] = <<>>
      <4>1. mr[ch] = <<>> /\ ~(up > 0)
        BY <3>2, <2>2 DEF StartInv, Nothing
      <4> QED BY <3>1, <4>1, Zenon DEF GivenNext
    <3> QED BY <3>1, <3>2, Zenon DEF GivenNext, Nothing
  <2>5. c' = <<>> /\ m_q' = <<>> /\ pr' = Nothing /\ asked' = <<>> /\ ~capd' /\ owed' = Nothing
    <3>1. p_t \in BOOLEAN
      BY Zenon DEF SyncType
    <3>2. c' = <<>> /\ m_q' = <<>> /\ pr' = Nothing
      BY <2>1, <2>3, <3>1, <1>1, Zenon
    <3>3. asked' = <<>> /\ ~capd' /\ owed' = Nothing
      BY <2>1, <2>3, <1>2, Zenon
    <3> QED BY <3>2, <3>3, Zenon
  <2> QED BY <2>1, <2>2, <2>3, <2>4, <2>5, Zenon DEF StartInv
<1>6. ASSUME NEW rdy \in BOOLEAN, NEW ack \in BOOLEAN, NEW rel \in BOOLEAN,
             NEW req \in BOOLEAN, BothStep(rdy, ack, rel, req)
      PROVE  StartInv'
  <2>1. /\ PEdge(ack) /\ MEdge(p_t', rdy, rel, req) /\ ResetM(req) /\ ResetP(TRUE)
        /\ History(TRUE, TRUE, rdy, rel, ack) /\ turn = "m0" /\ turn' = "m1" /\ ~late'
    BY <1>6, Zenon DEF BothStep, MEdge
  <2>2. (prs = 0 /\ up = 0 /\ up' = 1) \/ (prs = 1 /\ up' = 0)
    <3>1. prs = 0 \/ prs = 1
      BY <2>1, Running, Zenon
    <3>2. prs = 0 => up = 0 /\ up' = 1
      BY <2>1, PToggles
    <3>3. prs = 1 => up' = 0
      BY <2>1, PToggles, Zenon
    <3> QED BY <3>1, <3>2, <3>3, Zenon
  <2>3. Empty
    BY <2>2, <1>3, <1>4
  <2>4. p_q' = <<>> /\ qr' = Nothing
    BY <2>1, <2>2, <2>3 DEF PEdge, PresentedNext, reset_p, Nothing
  <2>5. up' = 0 => mr' = Nothing
    BY <2>1, <2>2, <1>4, MCleared, Zenon DEF MClear
  <2>6. p_t' \in BOOLEAN
    BY <2>1, Zenon DEF PEdge
  <2>7. c' = <<>> /\ m_q' = <<>> /\ pr' = Nothing /\ asked' = <<>> /\ ~capd' /\ owed' = Nothing
    <3>1. c' = <<>> /\ m_q' = <<>> /\ pr' = Nothing
      BY <2>1, <2>3, <2>6, <1>1, Zenon
    <3>2. asked' = <<>> /\ ~capd' /\ owed' = Nothing
      BY <2>1, <2>3, <1>2, Zenon
    <3> QED BY <3>1, <3>2, Zenon
  <2> QED BY <2>1, <2>4, <2>5, <2>7, Zenon DEF StartInv
<1>7. ASSUME NEW ack \in BOOLEAN, P(ack)  PROVE StartInv'
  <2>1. /\ PEdge(ack) /\ ResetP(TRUE) /\ History(FALSE, TRUE, FALSE, FALSE, ack)
        /\ c' = c /\ m_q' = m_q /\ pr' = pr /\ mr' = mr /\ rst' = rst
    BY <1>7, PKeeps, Zenon DEF P
  <2>2. (prs = 0 /\ up = 0 /\ up' = 1) \/ (prs = 1 /\ up' = 0)
    <3>1. prs = 0 \/ prs = 1
      BY <2>1, Running, Zenon
    <3>2. prs = 0 => up = 0 /\ up' = 1
      BY <2>1, PToggles
    <3>3. prs = 1 => up' = 0
      BY <2>1, PToggles, Zenon
    <3> QED BY <3>1, <3>2, <3>3, Zenon
  <2>3. Empty /\ mr = Nothing
    BY <2>2, <1>3, <1>4 DEF StartInv, MClear
  <2>4. p_q' = <<>> /\ qr' = Nothing
    BY <2>1, <2>2, <2>3 DEF PEdge, PresentedNext, reset_p, Nothing
  <2>5. asked' = <<>> /\ ~capd' /\ owed' = Nothing
    BY <2>1, <2>3, <1>2, Zenon
  <2> QED BY <2>1, <2>3, <2>4, <2>5, Zenon DEF StartInv
<1> QED BY Steps, <1>5, <1>6, <1>7, Zenon

-----------------------------------------------------------------------------
\* clk_m's part of a request's way (the capture c and m_q): a captured request waits behind
\* the one before it, and a promise is of a capture that will be free.
LEMMA RequestMoves ==
  ASSUME SyncType, NEW rdy \in BOOLEAN, Request(rdy), rst = 0
  PROVE  /\ cap /\ promise /\ c = <<>> => c' = p_q /\ m_q' = IF rdy THEN <<>> ELSE m_q
         /\ ~(cap /\ promise) => m_q' \o c' = IF rdy /\ m_q # <<>> THEN c ELSE m_q \o c
         /\ ~cap => (promise' => c' = <<>>)
         /\ cap => promise' = promise
<1>1. /\ promise' = IF ~cap THEN c = <<>> \/ c_go(rdy) ELSE promise
      /\ c' = IF cap /\ promise THEN p_q ELSE IF c_go(rdy) THEN <<>> ELSE c
      /\ m_q' = IF c_go(rdy) THEN c ELSE IF rdy THEN <<>> ELSE m_q
  BY DEF Request, reset_m
<1>2. cap /\ promise /\ c = <<>> => c' = p_q /\ m_q' = IF rdy THEN <<>> ELSE m_q
  BY <1>1, Zenon DEF c_go
<1>3. ASSUME ~(cap /\ promise)
      PROVE  m_q' \o c' = IF rdy /\ m_q # <<>> THEN c ELSE m_q \o c
  <2>1. <<>> \o c = c /\ c \o <<>> = c
    BY Singles, Zenon DEF SyncType
  <2>2. CASE c_go(rdy)
    BY <1>1, <1>3, <2>1, <2>2, Zenon DEF c_go
  <2>3. CASE ~c_go(rdy)
    BY <1>1, <1>3, <2>1, <2>3, Zenon
  <2> QED BY <2>2, <2>3, Zenon
<1>4. ~cap => (promise' => c' = <<>>)
  BY <1>1, Zenon
<1>5. cap => promise' = promise
  BY <1>1, Zenon
<1> QED BY <1>2, <1>3, <1>4, <1>5, Zenon

\* A request is captured once for each promise the port acts on, and moves to the
\* controller in order (ddr_port_sync.v:21-24, 176-200).
LEMMA RequestStep ==
  ASSUME SyncInv, SyncNext, StartInv', SyncType'
  PROVE  RequestInv'
<1> USE DEF SyncInv
<1> SUFFICES ASSUME prs' = 0, up' = 2
             PROVE  RequestInv'
  <2>1. up' < 2 \/ up' = 2
    BY DEF SyncType
  <2>2. up' < 2 /\ prs' = 0 => RequestInv'
    <3>1. <<>> \o <<>> = <<>>
      OBVIOUS
    <3> QED BY <3>1, Zenon DEF StartInv, RequestInv
  <2> QED BY <2>1, <2>2, Zenon DEF RequestInv
<1>1. ASSUME NEW rdy \in BOOLEAN, NEW rel \in BOOLEAN, NEW req \in BOOLEAN,
             MStep(rdy, rel, req)
      PROVE  RequestInv'
  <2> DEFINE b == rdy /\ m_q # <<>>
  <2>1. /\ Request(rdy) /\ ResetM(req) /\ ResetP(FALSE)
        /\ History(TRUE, FALSE, rdy, rel, FALSE)
        /\ (turn = "m0" /\ late /\ turn' = "p") \/ (turn = "m1" /\ turn' = "m0")
    BY <1>1, Zenon DEF MStep, MEdge
  <2>2. up' = up /\ p_q' = p_q /\ late' = late /\ prs = 0 /\ rst = 0
    BY <1>1, <2>1, MKeeps, Running, Zenon
  <2>3. /\ asked' = Cut(asked, b) \o <<>>
        /\ capd' = (capd \/ (cap /\ promise /\ p_q # <<>>))
    BY <2>1 DEF History
  <2>4. ~capd
    BY <2>1, <2>2, Zenon DEF RequestInv, BeforeP
  <2>5. asked' = IF b THEN c ELSE m_q \o c
    <3>1. asked = m_q \o c
      BY <2>2, <2>4, Zenon DEF RequestInv
    <3>2. /\ (m_q \o c) \o <<>> = m_q \o c /\ c \o <<>> = c
          /\ m_q # <<>> => m_q \o c # <<>> /\ Tail(m_q \o c) = c
      <4>1. m_q \in Opt(Requests) /\ c \in Opt(Requests)
        BY Zenon DEF SyncType
      <4>2. c \o <<>> = c
        BY <4>1, Singles, Zenon
      <4>3. /\ (m_q \o c) \o <<>> = m_q \o c
            /\ m_q # <<>> => m_q \o c # <<>> /\ Tail(m_q \o c) = c
        BY <4>1, Singles
      <4> QED BY <4>2, <4>3, Zenon
    <3> QED BY <2>3, <3>1, <3>2, Zenon DEF Cut
  <2>6. CASE late /\ turn = "m1"
    <3>1. ~cap
      <4>1. up # 0 /\ up # 1
        BY <2>2
      <4> QED BY <2>2, <2>6, <4>1, Zenon DEF PhaseInv
    <3>2. m_q' \o c' = asked' /\ (promise' => c' = <<>>)
      BY <2>1, <2>2, <2>5, <3>1, RequestMoves, Zenon
    <3>3. ~capd'
      BY <2>3, <2>4, <3>1, Zenon
    <3> QED BY <2>1, <2>2, <2>6, <3>2, <3>3, Zenon DEF RequestInv, BeforeP, BeforeCapture
  <2>7. CASE ~(late /\ turn = "m1")
    <3>1. cap /\ BeforeCapture /\ BeforeP' /\ ~BeforeCapture'
      BY <2>1, <2>2, <2>7, Zenon DEF PhaseInv, BeforeCapture, BeforeP
    <3>2. promise' = promise
      BY <2>1, <2>2, <3>1, RequestMoves, Zenon
    <3>3. CASE ~promise
      <4>1. m_q' \o c' = asked'
        BY <2>1, <2>2, <2>5, <3>3, RequestMoves, Zenon
      <4> QED BY <2>2, <2>3, <2>4, <3>1, <3>2, <3>3, <4>1, Zenon DEF RequestInv
    <3>4. CASE promise
      <4>1. c = <<>>
        BY <2>2, <3>1, <3>4, Zenon DEF RequestInv
      <4>2. c' = p_q /\ m_q' = IF rdy THEN <<>> ELSE m_q
        BY <2>1, <2>2, <3>1, <3>4, <4>1, RequestMoves, Zenon
      <4>3. m_q \o <<>> = m_q /\ m_q' \o <<>> = m_q'
        BY Singles, Zenon DEF SyncType
      <4>4. asked' = m_q'
        BY <2>5, <4>1, <4>2, <4>3, Zenon
      <4>5. capd' = (p_q # <<>>)
        BY <2>3, <2>4, <3>1, <3>4, Zenon
      <4> QED BY <2>2, <3>1, <3>2, <3>4, <4>2, <4>3, <4>4, <4>5, Zenon DEF RequestInv
    <3> QED BY <3>3, <3>4, Zenon
  <2> QED BY <2>6, <2>7, Zenon
<1>2. ASSUME prs = 0, promise /\ p_q # <<>> => capd
      PROVE  /\ asked \o (IF promise THEN p_q ELSE <<>>) = m_q \o c
             /\ m_q # <<>> => asked # <<>> /\ Tail(asked) \o (IF promise THEN p_q ELSE <<>>) = c
  <2>1. /\ m_q \o <<>> = m_q /\ c \o <<>> = c /\ <<>> \o c = c /\ (m_q \o c) \o <<>> = m_q \o c
        /\ m_q # <<>> => Tail(m_q) = <<>> /\ m_q \o c # <<>> /\ Tail(m_q \o c) = c
    <3>1. m_q \in Opt(Requests) /\ c \in Opt(Requests)
      BY Zenon DEF SyncType
    <3>2. m_q \o <<>> = m_q /\ c \o <<>> = c /\ <<>> \o c = c
      BY <3>1, Singles, Zenon
    <3>3. /\ (m_q \o c) \o <<>> = m_q \o c
          /\ m_q # <<>> => Tail(m_q) = <<>> /\ m_q \o c # <<>> /\ Tail(m_q \o c) = c
      BY <3>1, Singles
    <3> QED BY <3>2, <3>3, Zenon
  <2>2. CASE capd
    <3>1. asked = m_q /\ promise /\ c = p_q
      BY <1>2, <2>2, Zenon DEF RequestInv
    <3> QED BY <2>1, <3>1, Zenon
  <2>3. CASE ~capd
    <3>1. asked = m_q \o c /\ (promise => p_q = <<>>)
      BY <1>2, <2>3, Zenon DEF RequestInv
    <3> QED BY <2>1, <3>1, Zenon
  <2> QED BY <2>2, <2>3, Zenon
<1>4. ASSUME NEW rdy \in BOOLEAN, NEW ack \in BOOLEAN, NEW rel \in BOOLEAN,
             NEW req \in BOOLEAN, BothStep(rdy, ack, rel, req)
      PROVE  RequestInv'
  <2> DEFINE b == rdy /\ m_q # <<>>
  <2>1. /\ PEdge(ack) /\ Request(rdy) /\ ResetM(req) /\ ResetP(TRUE)
        /\ History(TRUE, TRUE, rdy, rel, ack)
        /\ turn = "m0" /\ turn' = "m1" /\ late' = late /\ ~late
    BY <1>4, Zenon DEF BothStep, MEdge
  <2>2. prs = 0 /\ rst = 0 /\ up # 0
    <3>1. rst = 0 /\ (prs = 0 \/ prs = 1)
      BY <2>1, Running, Zenon
    <3> QED BY <2>1, <3>1, PToggles
  <2>3. ~cap
    BY <2>1, <2>2, Zenon DEF PhaseInv
  <2>4. promise /\ p_q # <<>> => capd
    BY <2>1, <2>2, SMTT(40) DEF RequestInv, StartInv, BeforeP, SyncType
  <2>5. ~capd'
    <3>1. ~(prs' > 0)
      OBVIOUS
    <3> QED BY <2>1, <3>1, Zenon DEF History
  <2>6. asked' = IF rdy /\ m_q # <<>> THEN c ELSE m_q \o c
    <3>1. asked' = Cut(asked, TRUE /\ rdy /\ m_q # <<>>) \o (IF TRUE /\ promise THEN p_q ELSE <<>>)
      <4>1. ~(prs' > 0)
        OBVIOUS
      <4> QED BY <2>1, <4>1, Zenon DEF History
    <3>2. CASE promise
      BY <2>2, <2>4, <3>1, <3>2, <1>2, Zenon DEF Cut
    <3>3. CASE ~promise
      BY <2>2, <2>4, <3>1, <3>3, <1>2, Zenon DEF Cut
    <3> QED BY <3>2, <3>3, Zenon
  <2>7. m_q' \o c' = asked' /\ (promise' => c' = <<>>)
    BY <2>1, <2>2, <2>3, <2>6, RequestMoves, Zenon
  <2> QED BY <2>1, <2>5, <2>7, Zenon DEF RequestInv, BeforeP
<1>5. ASSUME NEW ack \in BOOLEAN, P(ack)  PROVE RequestInv'
  <2>1. /\ PEdge(ack) /\ ResetP(TRUE) /\ History(FALSE, TRUE, FALSE, FALSE, ack)
        /\ turn = "p" /\ turn' = "m1" /\ late' = late /\ late
        /\ c' = c /\ m_q' = m_q /\ promise' = promise /\ rst' = rst
    BY <1>5, PKeeps, Zenon DEF P, SyncType
  <2>2. prs = 0 /\ up # 0
    <3>1. prs = 0 \/ prs = 1
      BY <2>1, Running, Zenon
    <3> QED BY <2>1, <3>1, PToggles
  <2>3. ~cap
    BY <2>1, <2>2, Zenon DEF PhaseInv
  <2>4. promise /\ p_q # <<>> => capd
    BY <2>1, <2>2, SMTT(40) DEF RequestInv, StartInv, BeforeP, SyncType
  <2>5. ~capd'
    <3>1. ~(prs' > 0)
      OBVIOUS
    <3> QED BY <2>1, <3>1, Zenon DEF History
  <2>6. asked' = m_q \o c
    <3>1. asked' = Cut(asked, FALSE /\ FALSE /\ m_q # <<>>) \o (IF TRUE /\ promise THEN p_q ELSE <<>>)
      <4>1. ~(prs' > 0)
        OBVIOUS
      <4> QED BY <2>1, <4>1, Zenon DEF History
    <3>2. CASE promise
      BY <2>2, <2>4, <3>1, <3>2, <1>2, Zenon DEF Cut
    <3>3. CASE ~promise
      BY <2>2, <2>4, <3>1, <3>3, <1>2, Zenon DEF Cut
    <3> QED BY <3>2, <3>3, Zenon
  <2>7. asked' = m_q' \o c'
    BY <2>1, <2>6, Zenon
  <2> QED BY <2>1, <2>5, <2>7, Zenon DEF RequestInv, BeforeP, BeforeCapture
<1> QED BY Steps, <1>1, <1>4, <1>5, Zenon

\* A beat is launched at the edge after which clk_p sees it, once, and the next is not
\* launched before (ddr_port_sync.v:25-27).
LEMMA BeatStep ==
  ASSUME SyncInv, SyncNext, StartInv', SyncType'
  PROVE  BeatInv'
<1> USE DEF SyncInv
<1> SUFFICES ASSUME prs' = 0, up' = 2
             PROVE  BeatInv'
  <2>1. up' < 2 \/ up' = 2
    BY DEF SyncType
  <2>2. up' < 2 /\ prs' = 0 => BeatInv'
    <3>1. <<>> \o <<>> = <<>> /\ (up' < 2 => ~(up' = 2))
      OBVIOUS
    <3>2. ASSUME up' < 2, prs' = 0, NEW ch \in Chan
          PROVE  owed'[ch] = qr'[ch] \o (IF sampled' THEN <<>> ELSE pr'[ch])
      <4>1. owed'[ch] = <<>> /\ qr'[ch] = <<>> /\ pr'[ch] = <<>>
        BY <3>2, Zenon DEF StartInv, Nothing
      <4> QED BY <3>1, <4>1, Zenon
    <3> QED BY <3>1, <3>2, Zenon DEF BeatInv
  <2> QED BY <2>1, <2>2, Zenon DEF BeatInv
<1>1. prs' = 0 /\ ~(prs' > 0)
  OBVIOUS
<1>2. ASSUME NEW ch \in Chan
      PROVE  /\ qr[ch] \o <<>> = qr[ch] /\ pr[ch] \o <<>> = pr[ch]
             /\ (qr[ch] \o pr[ch]) \o <<>> = qr[ch] \o pr[ch]
             /\ qr[ch] = <<>> => qr[ch] \o pr[ch] = pr[ch]
             /\ qr[ch] # <<>> => qr[ch] \o pr[ch] # <<>> /\ Tail(qr[ch] \o pr[ch]) = pr[ch]
  <2>1. qr[ch] \in Opt(ReadBeats \cup Dones) /\ pr[ch] \in Opt(ReadBeats \cup Dones)
    BY Zenon DEF SyncType
  <2>2. ASSUME NEW q \in Opt(ReadBeats \cup Dones), NEW r \in Opt(ReadBeats \cup Dones)
        PROVE  /\ q \o <<>> = q /\ <<>> \o q = q /\ (q \o r) \o <<>> = q \o r
               /\ q # <<>> => q \o r # <<>> /\ Tail(q \o r) = r
    BY Singles
  <2>3. qr[ch] \o <<>> = qr[ch] /\ pr[ch] \o <<>> = pr[ch] /\ <<>> \o pr[ch] = pr[ch]
    BY <2>1, <2>2, Zenon
  <2>4. /\ (qr[ch] \o pr[ch]) \o <<>> = qr[ch] \o pr[ch]
        /\ qr[ch] # <<>> => qr[ch] \o pr[ch] # <<>> /\ Tail(qr[ch] \o pr[ch]) = pr[ch]
    BY <2>1, <2>2, Zenon
  <2> QED BY <2>3, <2>4, Zenon
<1>3. ASSUME prs = 0, up # 0, ~(late /\ turn = "m1"), NEW ch \in Chan
      PROVE  owed[ch] = qr[ch] \o pr[ch]
  <2>1. CASE up = 2
    BY <1>3, <2>1, Zenon DEF BeatInv
  <2>2. CASE up # 2
    <3>1. owed[ch] = <<>> /\ qr[ch] = <<>> /\ pr[ch] = <<>>
      BY <1>3, <2>2 DEF StartInv, Nothing, SyncType
    <3> QED BY <3>1, <1>2, Zenon
  <2> QED BY <2>1, <2>2, Zenon
<1>4. ASSUME NEW rdy \in BOOLEAN, NEW rel \in BOOLEAN, NEW req \in BOOLEAN,
             MStep(rdy, rel, req)
      PROVE  BeatInv'
  <2>1. /\ Launch /\ ResetM(req) /\ ResetP(FALSE)
        /\ History(TRUE, FALSE, rdy, rel, FALSE)
        /\ (turn = "m0" /\ late /\ turn' = "p") \/ (turn = "m1" /\ turn' = "m0")
    BY <1>4, Zenon DEF MStep, MEdge
  <2>2. up' = up /\ up # 0 /\ qr' = qr /\ late' = late /\ prs = 0 /\ rst = 0
    <3>1. prs = 0 /\ rst = 0
      BY <2>1, Running, Zenon
    <3> QED BY <1>4, <3>1, MKeeps
  <2>3. sampled' = IF TRUE /\ ~cap THEN FALSE ELSE IF FALSE THEN TRUE ELSE sampled
    BY <2>1, <1>1, Zenon DEF History
  <2>4. ASSUME NEW ch \in Chan
        PROVE  /\ owed'[ch] = owed[ch] \o (IF ~cap THEN mr[ch] ELSE <<>>)
               /\ pr'[ch] = IF ~cap THEN mr[ch] ELSE pr[ch]
    <3>1. owed' = [x \in Chan |-> Cut(owed[x], FALSE /\ qr[x] # <<>>)
                                      \o (IF TRUE /\ ~cap THEN mr[x] ELSE <<>>)]
      BY <2>1, <1>1, Zenon DEF History
    <3>2. pr'[ch] = IF ~cap THEN mr[ch] ELSE pr[ch]
      BY <2>1, <2>2 DEF Launch, reset_m
    <3> QED BY <3>1, <3>2, Zenon DEF Cut
  <2>5. CASE late /\ turn = "m1"
    <3>1. ~cap /\ sampled
      <4>1. up # 0 /\ up # 1
        BY <2>2
      <4> QED BY <2>2, <2>5, <4>1, Zenon DEF PhaseInv, BeatInv
    <3>2. ~sampled' /\ turn' = "m0"
      BY <2>1, <2>3, <2>5, <3>1, Zenon
    <3>3. ASSUME NEW ch \in Chan  PROVE owed'[ch] = qr'[ch] \o pr'[ch]
      <4>1. owed[ch] = qr[ch]
        BY <2>2, <3>1, <1>2, Zenon DEF BeatInv
      <4> QED BY <2>2, <2>4, <3>1, <4>1, Zenon
    <3> QED BY <3>2, <3>3, Zenon DEF BeatInv, SyncType
  <2>6. CASE ~(late /\ turn = "m1")
    <3>1. cap /\ ~sampled /\ ~(late' /\ turn' = "m1")
      BY <2>1, <2>2, <2>6, Zenon DEF PhaseInv, BeatInv
    <3>2. ~sampled'
      BY <2>3, <3>1, Zenon
    <3>3. ASSUME NEW ch \in Chan  PROVE owed'[ch] = qr'[ch] \o pr'[ch]
      <4>1. owed[ch] = qr[ch] \o pr[ch]
        BY <2>2, <2>6, <1>3, Zenon
      <4> QED BY <2>2, <2>4, <3>1, <4>1, <1>2, Zenon
    <3> QED BY <3>1, <3>2, <3>3, Zenon DEF BeatInv, SyncType
  <2> QED BY <2>5, <2>6, Zenon
<1>5. ASSUME NEW rdy \in BOOLEAN, NEW ack \in BOOLEAN, NEW rel \in BOOLEAN,
             NEW req \in BOOLEAN, BothStep(rdy, ack, rel, req)
      PROVE  BeatInv'
  <2>1. /\ PEdge(ack) /\ Launch /\ ResetM(req) /\ ResetP(TRUE)
        /\ History(TRUE, TRUE, rdy, rel, ack)
        /\ turn = "m0" /\ turn' = "m1" /\ late' = late /\ ~late
    BY <1>5, Zenon DEF BothStep, MEdge
  <2>2. prs = 0 /\ rst = 0 /\ up # 0
    <3>1. rst = 0 /\ (prs = 0 \/ prs = 1)
      BY <2>1, Running, Zenon
    <3> QED BY <2>1, <3>1, PToggles
  <2>3. ~cap
    BY <2>1, <2>2, Zenon DEF PhaseInv
  <2>4. ~sampled'
    BY <2>1, <2>3, <1>1, Zenon DEF History
  <2>5. ASSUME NEW ch \in Chan  PROVE owed'[ch] = qr'[ch] \o pr'[ch]
    <3>1. owed[ch] = qr[ch] \o pr[ch]
      BY <2>1, <2>2, <1>3, Zenon
    <3>2. qr'[ch] = pr[ch] /\ pr'[ch] = mr[ch]
      BY <2>1, <2>2, <2>3 DEF PEdge, Launch, reset_p, reset_m
    <3>3. owed' = [x \in Chan |-> Cut(owed[x], TRUE /\ qr[x] # <<>>)
                                      \o (IF TRUE /\ ~cap THEN mr[x] ELSE <<>>)]
      BY <2>1, <1>1, Zenon DEF History
    <3> QED BY <2>3, <3>1, <3>2, <3>3, <1>2, Zenon DEF Cut
  <2> QED BY <2>1, <2>4, <2>5, Zenon DEF BeatInv, SyncType
<1>6. ASSUME NEW ack \in BOOLEAN, P(ack)  PROVE BeatInv'
  <2>1. /\ PEdge(ack) /\ ResetP(TRUE) /\ History(FALSE, TRUE, FALSE, FALSE, ack)
        /\ turn = "p" /\ turn' = "m1" /\ late' = late /\ late /\ pr' = pr /\ rst' = rst
    BY <1>6, PKeeps, Zenon DEF P, SyncType
  <2>2. prs = 0 /\ up # 0
    <3>1. prs = 0 \/ prs = 1
      BY <2>1, Running, Zenon
    <3> QED BY <2>1, <3>1, PToggles
  <2>3. sampled'
    BY <2>1, <1>1, Zenon DEF History
  <2>4. ASSUME NEW ch \in Chan  PROVE owed'[ch] = qr'[ch] \o <<>>
    <3>1. owed[ch] = qr[ch] \o pr[ch]
      BY <2>1, <2>2, <1>3, Zenon
    <3>2. qr'[ch] = pr[ch]
      BY <2>1, <2>2 DEF PEdge, reset_p
    <3>3. owed'[ch] = Cut(owed[ch], TRUE /\ qr[ch] # <<>>) \o <<>>
      BY <2>1 DEF History, Cut
    <3> QED BY <3>1, <3>2, <3>3, <1>2, Zenon DEF Cut
  <2> QED BY <2>1, <2>3, <2>4, Zenon DEF BeatInv, SyncType
<1> QED BY Steps, <1>4, <1>5, <1>6, Zenon

-----------------------------------------------------------------------------
\* clk_m's part of a snoop: it sends one, or moves on with the one that is out.
SnoopSent ==
  /\ ~cap /\ ~s_out /\ ms # <<>> /\ ~m_s_ack
  /\ s_tog' = ~s_tog /\ s_line' = ms /\ ms' = ms
  /\ s_out' = TRUE /\ m_s_ack' = FALSE /\ c_atog' = c_atog
SnoopWaits ==
  /\ s_tog' = s_tog /\ s_line' = s_line
  /\ s_out' = (s_out /\ c_atog # s_tog) /\ m_s_ack' = (s_out /\ c_atog = s_tog)
  /\ ms # <<>> /\ ~m_s_ack => ms' = ms
  /\ c_atog' = a_tog \/ c_atog' = c_atog

\* An edge of the memory clock out of reset sends a snoop or waits for its answer
\* (ddr_port_sync.v, the snoop toggles).
LEMMA SnoopMoves ==
  ASSUME SyncType, Snoop, rst = 0
  PROVE  SnoopSent \/ SnoopWaits
<1>1. ~reset_m
  BY DEF reset_m
<1>2. c_atog' = (IF cap THEN a_tog ELSE c_atog) /\ m_s_ack' = (s_out /\ c_atog = s_tog)
  BY <1>1, Zenon DEF Snoop
<1>3. ms # <<>> /\ ~m_s_ack => ms' = ms
  BY <1>1, Zenon DEF Snoop, AskedNext
<1>4. PICK go \in {~reset_m /\ ~s_out /\ ms # <<>> /\ ~m_s_ack /\ ~cap} :
        /\ s_tog' = IF reset_m THEN FALSE ELSE s_tog # go
        /\ s_line' = IF go THEN ms ELSE s_line
        /\ s_out' = (~reset_m /\ (go \/ (s_out /\ c_atog # s_tog)))
  BY Zenon DEF Snoop
<1>5. go = (~s_out /\ ms # <<>> /\ ~m_s_ack /\ ~cap)
  BY <1>1, <1>4, Zenon
<1>6. CASE ~s_out /\ ms # <<>> /\ ~m_s_ack /\ ~cap
  <2>1. go = TRUE
    BY <1>5, <1>6, Zenon
  <2>2. s_tog' = ~s_tog /\ s_line' = ms /\ s_out' = TRUE
    BY <1>1, <1>4, <2>1, Zenon DEF SyncType
  <2> QED BY <1>2, <1>3, <1>6, <2>2, Zenon DEF SnoopSent
<1>7. CASE ~(~s_out /\ ms # <<>> /\ ~m_s_ack /\ ~cap)
  <2>1. go = FALSE
    BY <1>5, <1>7, Zenon
  <2>2. s_tog' = s_tog /\ s_line' = s_line /\ s_out' = (s_out /\ c_atog # s_tog)
    BY <1>1, <1>4, <2>1, Zenon DEF SyncType
  <2> QED BY <1>2, <1>3, <2>2, Zenon DEF SnoopWaits
<1> QED BY <1>6, <1>7, Zenon

\* clk_p's part of a snoop: it presents what is sent, and answers what it presents.
LEMMA SnoopSeen ==
  ASSUME SyncType, NEW ack \in BOOLEAN, PEdge(ack)
  PROVE  /\ p_s' = s_line /\ (ack => s_tq # a_tog)
         /\ prs = 0 => s_tq' = s_tog /\ (ack => a_tog' = ~a_tog) /\ (~ack => a_tog' = a_tog)
         /\ prs = 1 => s_tq' = FALSE /\ a_tog' = FALSE
<1>1. (prs = 0 => ~reset_p) /\ (prs = 1 => reset_p)
  BY DEF reset_p
<1>2. p_s' = s_line /\ (ack => s_tq # a_tog)
  BY Zenon DEF PEdge, p_s_valid
<1>3. prs = 1 => s_tq' = FALSE /\ a_tog' = FALSE
  BY <1>1, Zenon DEF PEdge
<1>4. ASSUME prs = 0
      PROVE  s_tq' = s_tog /\ (ack => a_tog' = ~a_tog) /\ (~ack => a_tog' = a_tog)
  <2>1. s_tq' = s_tog
    BY <1>1, <1>4, Zenon DEF PEdge, SyncType
  <2>2. a_tog' = (a_tog # ack)
    BY <1>1, <1>4, Zenon DEF PEdge
  <2>3. ack = TRUE => a_tog' = ~a_tog
    BY <2>2, Zenon DEF SyncType
  <2>4. ack = FALSE => a_tog' = a_tog
    BY <2>2, Zenon DEF SyncType
  <2> QED BY <2>1, <2>3, <2>4, Zenon
<1> QED BY <1>2, <1>3, <1>4, Zenon

\* A snoop goes round once: sent, presented, answered, acknowledged, with its own line
\* and whatever the toggles were left at before (ddr_port_sync.v:33-37).
LEMMA SnoopStep ==
  ASSUME SyncType, ResetInv, SnoopInv, SyncNext
  PROVE  SnoopInv'
<1> DEFINE Line == s_out => ms = s_line /\ ms # <<>> /\ ~m_s_ack
<1> DEFINE Round == /\ IF s_out THEN Sent \/ Presented \/ Answered \/ Settled ELSE Settled
                    /\ m_s_ack => ms = s_line /\ ms # <<>>
                    /\ Presented => p_s = s_line
<1> DEFINE Count == /\ s_out => answers = (IF Sent \/ Presented THEN 0 ELSE 1)
                    /\ m_s_ack => answers = 1
<1>1. ASSUME Snoop  PROVE Line'
  <2>1. CASE rst = 0
    BY <1>1, <2>1, SnoopMoves, Zenon DEF SnoopSent, SnoopWaits, SnoopInv
  <2>2. CASE rst # 0
    <3>1. reset_m
      BY <2>2 DEF reset_m, SyncType
    <3>2. s_out' = FALSE
      BY <1>1, <3>1, Zenon DEF Snoop
    <3> QED BY <3>2, Zenon
  <2> QED BY <2>1, <2>2, Zenon
<1>2. ASSUME prs = 1  PROVE /\ s_out = s_tog /\ c_atog = FALSE /\ m_s_ack = FALSE /\ answers = 0
                            /\ s_tq = FALSE /\ a_tog = FALSE
  BY <1>2 DEF ResetInv, MClear, PClear, HistClear, SyncType
<1>3. ASSUME NEW rdy \in BOOLEAN, NEW rel \in BOOLEAN, NEW req \in BOOLEAN,
             MStep(rdy, rel, req)
      PROVE  SnoopInv'
  <2>1. /\ Snoop /\ ResetM(req) /\ ResetP(FALSE)
        /\ History(TRUE, FALSE, rdy, rel, FALSE)
    BY <1>3, Zenon DEF MStep, MEdge
  <2>2. s_tq' = s_tq /\ a_tog' = a_tog /\ p_s' = p_s
    BY <1>3, MKeeps, Zenon
  <2>3. ASSUME prs' = 0  PROVE Round' /\ Count'
    <3>1. prs = 0 /\ rst = 0
      BY <2>1, <2>3, Running, Zenon
    <3>2. answers' = (IF s_tog' # s_tog THEN 0 ELSE answers) + 0
      BY <2>1, <2>3 DEF History, Bool
    <3>3. CASE SnoopSent
      <4>1. Round' /\ Sent'
        BY <3>1, <3>3, <2>2, Zenon DEF SnoopSent, SnoopInv, Sent, Presented, Settled, SyncType
      <4>2. s_tog' # s_tog
        BY <3>3, Zenon DEF SnoopSent, SyncType
      <4> QED BY <3>2, <3>3, <4>1, <4>2 DEF SnoopSent
    <3>4. CASE SnoopWaits
      <4>1. Round'
        BY <3>1, <3>4, <2>2, Zenon DEF SnoopWaits, SnoopInv, Sent, Presented, Answered, Settled, SyncType
      <4>2. /\ s_out' => s_out /\ ((Sent \/ Presented) <=> (Sent' \/ Presented'))
            /\ m_s_ack' => s_out /\ ~(Sent \/ Presented)
        BY <3>1, <3>4, <2>2, Zenon DEF SnoopWaits, SnoopInv, Sent, Presented, Answered, Settled, SyncType
      <4>3. s_out => answers' = answers /\ answers = IF Sent \/ Presented THEN 0 ELSE 1
        BY <3>1, <3>2, <3>4 DEF SnoopWaits, SnoopInv
      <4> QED BY <4>1, <4>2, <4>3, Zenon
    <3> QED BY <2>1, <3>1, <3>3, <3>4, SnoopMoves, Zenon
  <2> QED BY <2>1, <2>3, <1>1, Zenon DEF SnoopInv
<1>4. ASSUME NEW rdy \in BOOLEAN, NEW ack \in BOOLEAN, NEW rel \in BOOLEAN,
             NEW req \in BOOLEAN, BothStep(rdy, ack, rel, req)
      PROVE  SnoopInv'
  <2>1. /\ PEdge(ack) /\ Snoop /\ ResetM(req) /\ ResetP(TRUE)
        /\ History(TRUE, TRUE, rdy, rel, ack)
    BY <1>4, Zenon DEF BothStep, MEdge
  <2>2. ASSUME prs' = 0  PROVE Round' /\ Count'
    <3>1. rst = 0 /\ (prs = 0 \/ prs = 1)
      BY <2>1, <2>2, Running, Zenon
    <3>2. answers' = (IF s_tog' # s_tog THEN 0 ELSE answers) + (IF ack THEN 1 ELSE 0)
      BY <2>1, <2>2 DEF History, Bool
    <3>3. /\ p_s' = s_line /\ (ack => s_tq # a_tog)
          /\ prs = 0 => s_tq' = s_tog /\ (ack => a_tog' = ~a_tog) /\ (~ack => a_tog' = a_tog)
          /\ prs = 1 => s_tq' = FALSE /\ a_tog' = FALSE
      BY <2>1, SnoopSeen, Zenon
    <3>4. SnoopSent \/ SnoopWaits
      BY <2>1, <3>1, SnoopMoves, Zenon
    <3>5. CASE prs = 0 /\ SnoopSent
      <4>1. Settled /\ ~ack /\ s_tog' # s_tog /\ ~m_s_ack'
        BY <3>3, <3>5, Zenon DEF SnoopSent, SnoopInv, Settled, SyncType
      <4>2. Sent'
        BY <3>3, <3>5, <4>1, Zenon DEF SnoopSent, Sent, Settled, SyncType
      <4>3. Round'
        BY <3>5, <4>1, <4>2, Zenon DEF SnoopSent, Sent, Presented
      <4> QED BY <3>2, <4>1, <4>2, <4>3
    <3>6. CASE prs = 0 /\ SnoopWaits
      <4>1. Round' /\ (~s_out' /\ ~m_s_ack' => ~ack)
        BY <3>3, <3>6, Zenon DEF SnoopWaits, SnoopInv, Sent, Presented, Answered, Settled, SyncType
      <4>2. /\ s_out' => s_out
            /\ s_out' /\ ~ack => ((Sent \/ Presented) <=> (Sent' \/ Presented'))
            /\ s_out' /\ ack => (Sent \/ Presented) /\ ~(Sent' \/ Presented')
            /\ m_s_ack' => s_out /\ ~(Sent \/ Presented) /\ ~ack
        BY <3>3, <3>6, Zenon DEF SnoopWaits, SnoopInv, Sent, Presented, Answered, Settled, SyncType
      <4>3. s_out => /\ answers' = answers + (IF ack THEN 1 ELSE 0)
                     /\ answers = IF Sent \/ Presented THEN 0 ELSE 1
        BY <3>2, <3>6, Zenon DEF SnoopWaits, SnoopInv
      <4> QED BY <4>1, <4>2, <4>3
    <3>7. CASE prs = 1
      <4>0. /\ ~ack /\ ~m_s_ack' /\ s_out' = s_tog' /\ c_atog' = FALSE
            /\ s_tog' = TRUE \/ s_tog' = FALSE
        BY <3>3, <3>4, <3>7, <1>2, Zenon DEF SnoopSent, SnoopWaits, SyncType
      <4>1. Round' /\ ~ack /\ ~m_s_ack' /\ (s_out' => Sent')
        <5>1. s_out' => Sent' /\ ~Presented'
          BY <3>3, <3>7, <4>0, Zenon DEF Sent, Presented
        <5>2. ~s_out' => Settled' /\ ~Presented'
          BY <3>3, <3>7, <4>0, Zenon DEF Settled, Presented
        <5> QED BY <4>0, <5>1, <5>2, Zenon
      <4>2. answers' = 0
        BY <3>2, <3>7, <4>1, <1>2
      <4> QED BY <4>1, <4>2, Zenon
    <3> QED BY <3>1, <3>4, <3>5, <3>6, <3>7, Zenon
  <2> QED BY <2>1, <2>2, <1>1, Zenon DEF SnoopInv
<1>5. ASSUME NEW ack \in BOOLEAN, P(ack)  PROVE SnoopInv'
  <2>1. /\ PEdge(ack) /\ ResetP(TRUE) /\ History(FALSE, TRUE, FALSE, FALSE, ack)
        /\ ms' = ms /\ s_line' = s_line /\ rst' = rst
        /\ s_tog' = s_tog /\ s_out' = s_out /\ c_atog' = c_atog /\ m_s_ack' = m_s_ack
    BY <1>5, PKeeps, Zenon DEF P
  <2>2. Line'
    BY <2>1, Zenon DEF SnoopInv
  <2>3. ASSUME prs' = 0  PROVE Round' /\ Count'
    <3>1. prs = 0 \/ prs = 1
      BY <2>1, <2>3, Running, Zenon
    <3>2. answers' = answers + (IF ack THEN 1 ELSE 0)
      BY <2>1, <2>3 DEF History, Bool
    <3>3. /\ p_s' = s_line /\ (ack => s_tq # a_tog)
          /\ prs = 0 => s_tq' = s_tog /\ (ack => a_tog' = ~a_tog) /\ (~ack => a_tog' = a_tog)
          /\ prs = 1 => s_tq' = FALSE /\ a_tog' = FALSE
      BY <2>1, SnoopSeen, Zenon
    <3>4. CASE prs = 0
      <4>0. IF s_out THEN Sent \/ Presented \/ Answered \/ Settled ELSE Settled
        BY <3>4, Zenon DEF SnoopInv
      <4>1. Round'
        <5>1. p_s' = s_line' /\ (m_s_ack' => ms' = s_line' /\ ms' # <<>>)
          BY <2>1, <3>3, <3>4, Zenon DEF SnoopInv
        <5>2. s_out' => Presented' \/ Answered' \/ Settled'
          <6>1. s_out' => Sent \/ Presented \/ Answered \/ Settled
            BY <2>1, <4>0, Zenon
          <6>2. s_tog' = s_tog /\ s_tq' = s_tog /\ c_atog' = c_atog
            BY <2>1, <3>3, <3>4, Zenon
          <6>3. ack => a_tog' = ~a_tog /\ s_tq # a_tog
            BY <3>3, <3>4, Zenon
          <6>4. ~ack => a_tog' = a_tog
            BY <3>3, <3>4, Zenon
          <6>5. Sent => Presented'
            BY <6>2, <6>3, <6>4, Zenon DEF Sent, Presented
          <6>6. Presented => Presented' \/ Answered'
            BY <6>2, <6>3, <6>4, Zenon DEF Presented, Answered, SyncType
          <6>7. (Answered => Answered') /\ (Settled => Settled')
            BY <6>2, <6>3, <6>4, Zenon DEF Answered, Settled
          <6> QED BY <6>1, <6>5, <6>6, <6>7, Zenon
        <5>3. ~s_out' => Settled'
          BY <2>1, <3>3, <3>4, <4>0, Zenon DEF Settled, SyncType
        <5> QED BY <5>1, <5>2, <5>3, Zenon
      <4>2. /\ s_out' /\ ~ack => ((Sent \/ Presented) <=> (Sent' \/ Presented'))
            /\ s_out' /\ ack => (Sent \/ Presented) /\ ~(Sent' \/ Presented')
            /\ m_s_ack' => ~ack /\ m_s_ack
        <5>1. m_s_ack' => ~ack /\ m_s_ack
          BY <2>1, <3>3, <4>0, Zenon DEF SnoopInv, Settled, SyncType
        <5>2. s_out' /\ ~ack => ((Sent \/ Presented) <=> (Sent' \/ Presented'))
          BY <2>1, <3>3, <3>4, <4>0, Zenon DEF Sent, Presented, Answered, Settled, SyncType
        <5>3. s_out' /\ ack => (Sent \/ Presented) /\ ~(Sent' \/ Presented')
          BY <2>1, <3>3, <3>4, <4>0, Zenon DEF Sent, Presented, Answered, Settled, SyncType
        <5> QED BY <5>1, <5>2, <5>3, Zenon
      <4>3. /\ s_out => answers = IF Sent \/ Presented THEN 0 ELSE 1
            /\ m_s_ack => answers = 1
        BY <3>4, Zenon DEF SnoopInv
      <4> QED BY <2>1, <3>2, <4>1, <4>2, <4>3
    <3>5. CASE prs = 1
      <4>0. /\ ~ack /\ ~m_s_ack' /\ s_out' = s_tog' /\ c_atog' = FALSE
            /\ s_tog' = TRUE \/ s_tog' = FALSE
        BY <2>1, <3>3, <3>5, <1>2, Zenon DEF SyncType
      <4>1. Round' /\ ~ack /\ ~m_s_ack' /\ (s_out' => Sent')
        <5>1. s_out' => Sent' /\ ~Presented'
          BY <3>3, <3>5, <4>0, Zenon DEF Sent, Presented
        <5>2. ~s_out' => Settled' /\ ~Presented'
          BY <3>3, <3>5, <4>0, Zenon DEF Settled, Presented
        <5> QED BY <4>0, <5>1, <5>2, Zenon
      <4>2. answers' = 0
        BY <3>2, <3>5, <4>1, <1>2
      <4> QED BY <4>1, <4>2, Zenon
    <3> QED BY <3>1, <3>4, <3>5, Zenon
  <2> QED BY <2>2, <2>3, Zenon DEF SnoopInv
<1> QED BY Steps, <1>3, <1>4, <1>5, Zenon

-----------------------------------------------------------------------------
\* clk_m's part of a release: it toggles now, or waits for the edge after CAP.
ReleaseToggles(rel) == ~cap /\ (r_pend \/ rel) /\ r_tog' # r_tog /\ r_pend' = FALSE
ReleaseWaits(rel) ==
  ~(~cap /\ (r_pend \/ rel)) /\ r_tog' = r_tog /\ r_pend' = (r_pend \/ rel)

\* An edge of the memory clock out of reset toggles a release across or keeps it pending.
LEMMA ReleaseMoves ==
  ASSUME SyncType, NEW rel \in BOOLEAN, ReleaseOf(rel), rst = 0
  PROVE  /\ rel => held
         /\ held' = ((held /\ ~rel) \/ (m_s_ack /\ ms[1] \in Flushes))
         /\ ReleaseToggles(rel) \/ ReleaseWaits(rel)
<1>1. ~reset_m
  BY DEF reset_m
<1>2. (rel => held) /\ held' = ((held /\ ~rel) \/ (m_s_ack /\ ms[1] \in Flushes))
  BY <1>1, Zenon DEF ReleaseOf, HeldNext
<1>3. ReleaseToggles(rel) \/ ReleaseWaits(rel)
  <2>1. CASE ~cap /\ (r_pend \/ rel)
    <3>1. r_tog' = ~r_tog /\ r_pend' = FALSE
      BY <1>1, <2>1, Zenon DEF ReleaseOf
    <3>2. r_tog' # r_tog
      BY <3>1, Zenon DEF SyncType
    <3> QED BY <2>1, <3>1, <3>2, Zenon DEF ReleaseToggles
  <2>2. CASE ~(~cap /\ (r_pend \/ rel))
    BY <1>1, <2>2, Zenon DEF ReleaseOf, ReleaseWaits
  <2> QED BY <2>1, <2>2, Zenon
<1> QED BY <1>2, <1>3, Zenon

\* clk_p's part: it samples the toggle, and remembers what it last saw.
LEMMA ReleaseSeen ==
  ASSUME SyncType, NEW ack, PEdge(ack)
  PROVE  /\ prs = 0 => r_tq' = r_tog /\ r_seen' = r_tq
         /\ prs = 1 => r_tq' = FALSE /\ r_seen' = FALSE
<1>1. (prs = 0 => ~reset_p) /\ (prs = 1 => reset_p)
  BY DEF reset_p
<1> QED BY <1>1, Zenon DEF PEdge, SyncType

\* The DMA port's next snoop is the one it has, or comes with nothing out; a new flush
\* comes only with no line held.
LEMMA NextSnoop ==
  ASSUME SyncType, Snoop, rst = 0, Flushing'
  PROVE  \/ Flushing /\ ~m_s_ack /\ ms' = ms
         \/ ~held' /\ ~(ms # <<>> /\ ~m_s_ack)
<1>1. ms' \in AskedNext /\ ~reset_m
  BY DEF Snoop, reset_m
<1>2. CASE ms # <<>> /\ ~m_s_ack
  <2>1. ms' = ms
    BY <1>1, <1>2, Zenon DEF AskedNext
  <2> QED BY <1>2, <2>1, Zenon DEF Flushing
<1>3. CASE ~(ms # <<>> /\ ~m_s_ack)
  <2>1. ms' \in Opt(Cleans) \cup (IF held' THEN {} ELSE Opt(Flushes))
    BY <1>1, <1>3, Zenon DEF AskedNext
  <2>2. ms' \notin Opt(Cleans)
    <3>1. SUFFICES ASSUME ms' \in Opt(Cleans)  PROVE FALSE
      BY Zenon
    <3>2. PICK d \in Cleans : ms' = <<d>>
      BY <3>1, Single, Zenon DEF Flushing
    <3> QED BY <3>2, SnoopAssumption, Zenon DEF Flushing
  <2> QED BY <1>3, <2>1, <2>2, Zenon
<1> QED BY <1>2, <1>3, Zenon

\* A release pulse is carried over once, and no flush is answered while one is on its way
\* (ddr_port_sync.v:37-39).
LEMMA ReleaseStep ==
  ASSUME SyncType, ResetInv, SnoopInv, ReleaseInv, SyncNext
  PROVE  ReleaseInv'
<1> SUFFICES ASSUME prs' = 0
             PROVE  ReleaseInv'
  BY Zenon DEF ReleaseInv
<1> DEFINE Count == (rels = 0 /\ NoRelease) \/ (rels = 1 /\ (Pending \/ Crossing \/ Arrived))
<1> DEFINE Held == held => rels = 0
<1> DEFINE Flush == Flushing =>
                      /\ ~held
                      /\ s_out => ~r_pend
                      /\ s_out /\ Presented => r_tog = r_tq
                      /\ (s_out /\ (Answered \/ Settled)) \/ m_s_ack => rels = 0
<1>1. ASSUME prs = 0
      PROVE  /\ Count /\ Held /\ Flush
             /\ IF s_out THEN Sent \/ Presented \/ Answered \/ Settled ELSE Settled
             /\ s_out => ms # <<>> /\ ~m_s_ack
             /\ m_s_ack => ms # <<>>
  BY <1>1, Zenon DEF ReleaseInv, SnoopInv
<1>2. ASSUME prs = 1
      PROVE  /\ rels = 0 /\ held = FALSE /\ m_s_ack = FALSE /\ r_pend = FALSE /\ r_tog = FALSE
             /\ r_tq = FALSE /\ r_seen = FALSE
             /\ s_out = s_tog /\ c_atog = FALSE /\ s_tq = FALSE /\ a_tog = FALSE
  BY <1>2 DEF ResetInv, MClear, PClear, HistClear, SyncType
<1>3. ASSUME NEW rdy \in BOOLEAN, NEW rel \in BOOLEAN, NEW req \in BOOLEAN,
             MStep(rdy, rel, req)
      PROVE  ReleaseInv'
  <2>1. /\ Snoop /\ ReleaseOf(rel) /\ ResetM(req) /\ ResetP(FALSE)
        /\ History(TRUE, FALSE, rdy, rel, FALSE)
    BY <1>3, Zenon DEF MStep, MEdge
  <2>2. s_tq' = s_tq /\ a_tog' = a_tog /\ r_tq' = r_tq /\ r_seen' = r_seen
    BY <1>3, MKeeps, Zenon
  <2>3. prs = 0 /\ rst = 0
    BY <2>1, Running, Zenon
  <2>4. /\ rel => held
        /\ held' = ((held /\ ~rel) \/ (m_s_ack /\ ms[1] \in Flushes))
        /\ ReleaseToggles(rel) \/ ReleaseWaits(rel)
    BY <2>1, <2>3, ReleaseMoves, Zenon
  <2>5. rels' = rels + (IF rel THEN 1 ELSE 0)
    <3>1. rels' = rels + Bool(TRUE /\ rel) - Bool(FALSE /\ p_s_rel)
      <4>1. ~(prs' > 0)
        OBVIOUS
      <4> QED BY <2>1, <4>1, Zenon DEF History
    <3>2. rels \in {0, 1}
      BY <2>3, <1>1, Zenon
    <3> QED BY <3>1, <3>2 DEF Bool
  <2>6. rel => rels = 0 /\ rels' = 1 /\ NoRelease
    BY <2>3, <2>4, <2>5, <1>1
  <2>7. ~rel => rels' = rels
    BY <2>3, <2>5, <1>1
  <2>8. Count'
    <3>1. CASE rel
      <4>1. ReleaseToggles(rel) => Crossing'
        BY <2>2, <2>6, <3>1, Zenon DEF NoRelease, Crossing, ReleaseToggles, SyncType
      <4>2. ReleaseWaits(rel) => Pending'
        BY <2>2, <2>6, <3>1, Zenon DEF NoRelease, Pending, ReleaseWaits, SyncType
      <4> QED BY <2>4, <2>6, <3>1, <4>1, <4>2, Zenon
    <3>2. CASE ~rel
      <4>1. NoRelease => NoRelease'
        BY <2>2, <2>4, <3>2, Zenon DEF NoRelease, ReleaseToggles, ReleaseWaits, SyncType
      <4>2. Pending => Pending' \/ Crossing'
        <5>1. Pending /\ ReleaseToggles(rel) => Crossing'
          BY <2>2, Zenon DEF Pending, Crossing, ReleaseToggles, SyncType
        <5>2. Pending /\ ReleaseWaits(rel) => Pending'
          BY <2>2, Zenon DEF Pending, ReleaseWaits
        <5> QED BY <2>4, <5>1, <5>2, Zenon
      <4>3. Crossing => Crossing'
        BY <2>2, <2>4, <3>2, Zenon DEF Crossing, ReleaseToggles, ReleaseWaits, SyncType
      <4>4. Arrived => Arrived'
        BY <2>2, <2>4, <3>2, Zenon DEF Arrived, ReleaseToggles, ReleaseWaits, SyncType
      <4> QED BY <2>3, <2>7, <3>2, <4>1, <4>2, <4>3, <4>4, <1>1, Zenon
    <3> QED BY <3>1, <3>2, Zenon
  <2>9. Held'
    BY <2>3, <2>4, <2>6, <2>7, <1>1, Zenon DEF Flushing, SyncType
  <2>10. ASSUME Flushing'
         PROVE  /\ ~held'
                /\ s_out' => ~r_pend'
                /\ s_out' /\ Presented' => r_tog' = r_tq'
                /\ (s_out' /\ (Answered' \/ Settled')) \/ m_s_ack' => rels' = 0
    <3>1. SnoopSent \/ SnoopWaits
      BY <2>1, <2>3, SnoopMoves, Zenon
    <3>2. CASE ~held' /\ ~(ms # <<>> /\ ~m_s_ack)
      BY <2>3, <3>1, <3>2, <1>1, Zenon DEF SnoopSent, SnoopWaits
    <3>3. CASE Flushing /\ ~m_s_ack /\ ms' = ms
      <4>1. ~held /\ ~rel /\ ~held' /\ rels' = rels
        BY <2>3, <2>4, <2>7, <3>3, <1>1, Zenon DEF SyncType
      <4>2. CASE SnoopSent
        <5>1. ~r_pend'
          BY <2>4, <4>1, <4>2, Zenon DEF SnoopSent, ReleaseToggles, ReleaseWaits
        <5>2. Sent' /\ ~m_s_ack'
          BY <2>2, <2>3, <4>2, <1>1, Zenon DEF SnoopSent, Sent, Settled, SyncType
        <5> QED BY <4>1, <5>1, <5>2, Zenon DEF Sent, Presented, Answered, Settled
      <4>3. CASE SnoopWaits
        <5>1. (s_out' => s_out) /\ (s_out => ~r_pend' /\ r_tog' = r_tog)
          BY <2>3, <2>4, <3>3, <4>1, <4>3, <1>1, Zenon
             DEF SnoopWaits, ReleaseToggles, ReleaseWaits, SyncType
        <5>2. s_out' /\ Presented' => Presented
          BY <2>2, <2>3, <4>3, <1>1, Zenon
             DEF SnoopWaits, Sent, Presented, Answered, Settled, SyncType
        <5>3. (s_out' /\ (Answered' \/ Settled')) \/ m_s_ack' => s_out /\ (Answered \/ Settled)
          BY <2>2, <2>3, <4>3, <1>1, Zenon
             DEF SnoopWaits, Sent, Presented, Answered, Settled, SyncType
        <5> QED BY <2>2, <2>3, <3>3, <4>1, <5>1, <5>2, <5>3, <1>1, Zenon
      <4> QED BY <3>1, <4>2, <4>3, Zenon
    <3> QED BY <2>1, <2>3, <2>10, <3>2, <3>3, NextSnoop, Zenon
  <2> QED BY <2>8, <2>9, <2>10, Zenon DEF ReleaseInv
<1>4. ASSUME prs = 0, r_tq' = r_tog, r_seen' = r_tq, NEW rel \in BOOLEAN, rel => held,
             \/ ReleaseToggles(rel) \/ ReleaseWaits(rel)
             \/ ~rel /\ r_tog' = r_tog /\ r_pend' = r_pend,
             rels' = rels + Bool(rel) - Bool(p_s_rel)
      PROVE  /\ Count' /\ (rels = 0 /\ ~rel => rels' = 0)
             /\ ~r_pend /\ r_tog = r_tq /\ ~rel => rels' = 0
  <2>1. CASE rel
    <3>1. rels = 0 /\ NoRelease
      BY <1>4, <2>1, <1>1
    <3>2. rels' = 1
      BY <1>4, <2>1, <3>1 DEF Bool, p_s_rel, NoRelease
    <3>3. ReleaseToggles(rel) => Crossing'
      BY <1>4, <3>1, Zenon DEF NoRelease, Crossing, ReleaseToggles, SyncType
    <3>4. ReleaseWaits(rel) => Pending'
      BY <1>4, <2>1, <3>1, Zenon DEF NoRelease, Pending, ReleaseWaits, SyncType
    <3> QED BY <1>4, <2>1, <3>2, <3>3, <3>4, Zenon
  <2>2. CASE ~rel /\ NoRelease
    <3>1. rels = 0
      BY <1>4, <2>2, <1>1, Zenon DEF NoRelease, Pending, Crossing, Arrived
    <3>2. rels' = 0
      BY <1>4, <2>2, <3>1 DEF Bool, p_s_rel, NoRelease
    <3>3. NoRelease'
      <4>1. r_tog' = r_tog /\ ~r_pend'
        <5>1. ~r_pend /\ ~rel
          BY <2>2, Zenon DEF NoRelease
        <5>2. ~ReleaseToggles(rel)
          BY <5>1, Zenon DEF ReleaseToggles
        <5>3. ReleaseWaits(rel) => r_tog' = r_tog /\ ~r_pend'
          BY <5>1, Zenon DEF ReleaseWaits
        <5>4. r_pend' = r_pend => ~r_pend'
          <6>1. r_pend = FALSE
            BY <5>1, Zenon DEF SyncType
          <6> QED BY <6>1, Zenon
        <5> QED BY <1>4, <5>2, <5>3, <5>4, Zenon
      <4> QED BY <1>4, <2>2, <4>1, Zenon DEF NoRelease
    <3> QED BY <3>2, <3>3, Zenon
  <2>3. CASE ~rel /\ Pending
    <3>1. rels = 1
      BY <1>4, <2>3, <1>1, Zenon DEF NoRelease, Pending
    <3>2. rels' = 1 /\ r_pend
      BY <1>4, <2>3, <3>1 DEF Bool, p_s_rel, Pending
    <3>3. ReleaseToggles(rel) => Crossing'
      BY <1>4, <2>3, Zenon DEF Pending, Crossing, ReleaseToggles, SyncType
    <3>4. ReleaseWaits(rel) \/ (r_tog' = r_tog /\ r_pend' = r_pend) => Pending'
      BY <1>4, <2>3, Zenon DEF Pending, ReleaseWaits
    <3> QED BY <1>4, <3>1, <3>2, <3>3, <3>4, Zenon
  <2>4. CASE ~rel /\ Crossing
    <3>1. rels = 1
      BY <1>4, <2>4, <1>1, Zenon DEF NoRelease, Crossing
    <3>2. rels' = 1
      BY <1>4, <2>4, <3>1 DEF Bool, p_s_rel, Crossing
    <3>3. Arrived'
      BY <1>4, <2>4, Zenon DEF Crossing, Arrived, ReleaseToggles, ReleaseWaits, SyncType
    <3>4. r_tog # r_tq
      BY <2>4, Zenon DEF Crossing
    <3> QED BY <3>1, <3>2, <3>3, <3>4, Zenon
  <2>5. CASE ~rel /\ Arrived
    <3>1. rels = 1
      BY <1>4, <2>5, <1>1, Zenon DEF NoRelease, Arrived
    <3>2. rels' = 0
      BY <1>4, <2>5, <3>1 DEF Bool, p_s_rel, Arrived
    <3>3. NoRelease'
      BY <1>4, <2>5, Zenon DEF NoRelease, Arrived, ReleaseToggles, ReleaseWaits, SyncType
    <3> QED BY <3>1, <3>2, <3>3, Zenon
  <2> QED BY <1>4, <1>1, <2>1, <2>2, <2>3, <2>4, <2>5, Zenon
<1>5. ASSUME NEW rdy \in BOOLEAN, NEW ack \in BOOLEAN, NEW rel \in BOOLEAN,
             NEW req \in BOOLEAN, BothStep(rdy, ack, rel, req)
      PROVE  ReleaseInv'
  <2>1. /\ PEdge(ack) /\ Snoop /\ ReleaseOf(rel) /\ ResetM(req) /\ ResetP(TRUE)
        /\ History(TRUE, TRUE, rdy, rel, ack)
    BY <1>5, Zenon DEF BothStep, MEdge
  <2>2. rst = 0 /\ (prs = 0 \/ prs = 1)
    BY <2>1, Running, Zenon
  <2>3. /\ rel => held
        /\ held' = ((held /\ ~rel) \/ (m_s_ack /\ ms[1] \in Flushes))
        /\ ReleaseToggles(rel) \/ ReleaseWaits(rel)
    BY <2>1, <2>2, ReleaseMoves, Zenon
  <2>4. rels' = rels + Bool(rel) - Bool(p_s_rel)
    <3>1. rels' = rels + Bool(TRUE /\ rel) - Bool(TRUE /\ p_s_rel)
      <4>1. ~(prs' > 0)
        OBVIOUS
      <4> QED BY <2>1, <4>1, Zenon DEF History
    <3> QED BY <3>1, Zenon DEF Bool
  <2>5. SnoopSent \/ SnoopWaits
    BY <2>1, <2>2, SnoopMoves, Zenon
  <2>6. /\ ack => s_tq # a_tog
        /\ prs = 0 => s_tq' = s_tog /\ (ack => a_tog' = ~a_tog) /\ (~ack => a_tog' = a_tog)
        /\ prs = 1 => s_tq' = FALSE /\ a_tog' = FALSE
        /\ prs = 0 => r_tq' = r_tog /\ r_seen' = r_tq
        /\ prs = 1 => r_tq' = FALSE /\ r_seen' = FALSE
    BY <2>1, SnoopSeen, ReleaseSeen, Zenon
  <2>7. CASE prs = 1
    <3>1. ~rel /\ ~held' /\ r_tog' = FALSE /\ r_pend' = FALSE
      BY <2>3, <2>7, <1>2, Zenon DEF ReleaseToggles, ReleaseWaits, SyncType
    <3>2. rels' = 0
      BY <2>4, <2>7, <3>1, <1>2 DEF Bool, p_s_rel
    <3>3. NoRelease' /\ r_tog' = r_tq'
      BY <2>6, <2>7, <3>1, Zenon DEF NoRelease
    <3> QED BY <3>1, <3>2, <3>3, Zenon DEF ReleaseInv
  <2>8. CASE prs = 0
    <3>1. /\ Count' /\ (rels = 0 /\ ~rel => rels' = 0)
          /\ ~r_pend /\ r_tog = r_tq /\ ~rel => rels' = 0
      BY <2>3, <2>4, <2>6, <2>8, <1>4, Zenon
    <3>2. Held'
      BY <2>3, <2>8, <3>1, <1>1, Zenon DEF Flushing, SyncType
    <3>3. ASSUME Flushing'
          PROVE  /\ ~held'
                 /\ s_out' => ~r_pend'
                 /\ s_out' /\ Presented' => r_tog' = r_tq'
                 /\ (s_out' /\ (Answered' \/ Settled')) \/ m_s_ack' => rels' = 0
      <4>1. CASE ~held' /\ ~(ms # <<>> /\ ~m_s_ack)
        BY <2>5, <2>8, <4>1, <1>1, Zenon DEF SnoopSent, SnoopWaits
      <4>2. CASE Flushing /\ ~m_s_ack /\ ms' = ms
        <5>1. ~held /\ ~rel /\ ~held'
          BY <2>3, <2>8, <4>2, <1>1, Zenon DEF SyncType
        <5>2. CASE SnoopSent
          <6>1. ~r_pend'
            BY <2>3, <5>1, <5>2, Zenon DEF SnoopSent, ReleaseToggles, ReleaseWaits
          <6>2. Settled /\ ~ack /\ s_tog' # s_tog /\ ~m_s_ack'
            BY <2>6, <2>8, <5>2, <1>1, Zenon DEF SnoopSent, Settled, SyncType
          <6>3. Sent'
            BY <2>6, <2>8, <5>2, <6>2, Zenon DEF SnoopSent, Sent, Settled, SyncType
          <6> QED BY <5>1, <6>1, <6>2, <6>3, Zenon DEF Sent, Presented, Answered, Settled
        <5>3. CASE SnoopWaits
          <6>1. (s_out' => s_out) /\ (s_out => ~r_pend' /\ r_tog' = r_tog)
            BY <2>3, <2>8, <4>2, <5>1, <5>3, <1>1, Zenon
               DEF SnoopWaits, ReleaseToggles, ReleaseWaits, SyncType
          <6>2. s_out' => r_tog' = r_tq'
            BY <2>6, <2>8, <6>1, Zenon
          <6>3. (s_out' /\ (Answered' \/ Settled')) \/ m_s_ack'
                  => s_out /\ (Answered \/ Settled \/ Presented)
            BY <2>6, <2>8, <5>3, <1>1, Zenon
               DEF SnoopWaits, Sent, Presented, Answered, Settled, SyncType
          <6>4. s_out /\ (Answered \/ Settled \/ Presented) => rels' = 0
            BY <2>8, <3>1, <4>2, <5>1, <1>1, Zenon
          <6> QED BY <5>1, <6>1, <6>2, <6>3, <6>4, Zenon
        <5> QED BY <2>5, <5>2, <5>3, Zenon
      <4> QED BY <2>1, <2>2, <3>3, <4>1, <4>2, NextSnoop, Zenon
    <3> QED BY <3>1, <3>2, <3>3, Zenon DEF ReleaseInv
  <2> QED BY <2>2, <2>7, <2>8, Zenon
<1>6. ASSUME NEW ack \in BOOLEAN, P(ack)  PROVE ReleaseInv'
  <2>1. /\ PEdge(ack) /\ ResetP(TRUE) /\ History(FALSE, TRUE, FALSE, FALSE, ack)
        /\ ms' = ms /\ s_tog' = s_tog /\ s_out' = s_out /\ c_atog' = c_atog
        /\ m_s_ack' = m_s_ack /\ r_tog' = r_tog /\ r_pend' = r_pend /\ held' = held /\ rst' = rst
    BY <1>6, PKeeps, Zenon DEF P
  <2>2. prs = 0 \/ prs = 1
    BY <2>1, Running, Zenon
  <2>3. rels' = rels + Bool(FALSE) - Bool(p_s_rel)
    <3>1. rels' = rels + Bool(FALSE /\ FALSE) - Bool(TRUE /\ p_s_rel)
      <4>1. ~(prs' > 0)
        OBVIOUS
      <4> QED BY <2>1, <4>1, Zenon DEF History
    <3> QED BY <3>1, Zenon DEF Bool
  <2>4. /\ ack => s_tq # a_tog
        /\ prs = 0 => s_tq' = s_tog /\ (ack => a_tog' = ~a_tog) /\ (~ack => a_tog' = a_tog)
        /\ prs = 0 => r_tq' = r_tog /\ r_seen' = r_tq
        /\ prs = 1 => r_tq' = FALSE /\ r_seen' = FALSE
    BY <2>1, SnoopSeen, ReleaseSeen, Zenon
  <2>5. CASE prs = 1
    <3>1. rels' = 0
      BY <2>3, <2>5, <1>2 DEF Bool, p_s_rel
    <3>2. NoRelease' /\ r_tog' = r_tq' /\ ~held' /\ ~r_pend'
      BY <2>1, <2>4, <2>5, <1>2, Zenon DEF NoRelease
    <3> QED BY <3>1, <3>2, Zenon DEF ReleaseInv
  <2>6. CASE prs = 0
    <3>1. /\ Count' /\ (rels = 0 => rels' = 0)
          /\ ~r_pend /\ r_tog = r_tq => rels' = 0
      BY <2>1, <2>3, <2>4, <2>6, <1>4, Zenon
    <3>2. Held'
      BY <2>1, <2>6, <3>1, <1>1, Zenon
    <3>3. ASSUME Flushing'
          PROVE  /\ ~held'
                 /\ s_out' => ~r_pend'
                 /\ s_out' /\ Presented' => r_tog' = r_tq'
                 /\ (s_out' /\ (Answered' \/ Settled')) \/ m_s_ack' => rels' = 0
      <4>1. Flushing
        BY <2>1, <3>3, Zenon DEF Flushing
      <4>2. ~held' /\ (s_out' => ~r_pend') /\ r_tog' = r_tq' /\ (m_s_ack' => rels' = 0)
        BY <2>1, <2>4, <2>6, <3>1, <4>1, <1>1, Zenon
      <4>3. s_out' => s_out
        BY <2>1, Zenon
      <4>4. s_out /\ (Answered' \/ Settled') => Answered \/ Settled \/ Presented
        BY <2>1, <2>4, <2>6, <1>1, Zenon DEF Sent, Presented, Answered, Settled, SyncType
      <4>5. s_out /\ (Answered \/ Settled \/ Presented) => rels' = 0
        BY <2>6, <3>1, <4>1, <1>1, Zenon
      <4> QED BY <4>2, <4>3, <4>4, <4>5, Zenon
    <3> QED BY <3>1, <3>2, <3>3, Zenon DEF ReleaseInv
  <2> QED BY <2>2, <2>5, <2>6, Zenon
<1> QED BY Steps, <1>3, <1>5, <1>6, Zenon

-----------------------------------------------------------------------------
\* The crossing keeps SyncInv from reset on, in both alignments of the clocks
\* (ddr_port_sync.v).
THEOREM CrossingInvariant == SyncSpec => []SyncInv
<1>1. SyncInit => SyncInv
  <2> SUFFICES ASSUME SyncInit  PROVE SyncInv
    BY Zenon
  <2>1. SyncType
    <3>1. <<>> \in Opt(Requests) /\ <<>> \in Opt(Snoops) /\ <<>> \in Opt(ReadBeats \cup Dones)
      BY Zenon DEF Opt
    <3>2. /\ mr \in [Chan -> Opt(ReadBeats \cup Dones)]
          /\ pr \in [Chan -> Opt(ReadBeats \cup Dones)]
          /\ qr \in [Chan -> Opt(ReadBeats \cup Dones)]
      BY <3>1, Zenon DEF SyncInit
    <3>3. turn \in {"m0", "p", "m1"} /\ ~(turn = "p") /\ rst \in 0..2 /\ prs \in 0..2 /\ up \in 0..2
      BY DEF SyncInit
    <3> QED BY <3>1, <3>2, <3>3, Zenon DEF SyncInit, SyncType
  <2>2. ResetInv
    BY DEF SyncInit, ResetInv, HistClear, Nothing
  <2>3. PhaseInv /\ StartInv /\ RequestInv /\ BeatInv /\ ReleaseInv
    BY DEF SyncInit, PhaseInv, StartInv, RequestInv, BeatInv, ReleaseInv
  <2>4. SnoopInv
    BY DEF SyncInit, SnoopInv
  <2> QED BY <2>1, <2>2, <2>3, <2>4, Zenon DEF SyncInv
<1>2. SyncInv /\ [SyncNext]_syncVars => SyncInv'
  <2> SUFFICES ASSUME SyncInv, [SyncNext]_syncVars  PROVE SyncInv'
    BY Zenon
  <2>1. CASE SyncNext
    <3>1. SyncType' /\ ResetInv' /\ PhaseInv'
      BY <2>1, TypeStep, ResetStep, PhaseStep, Zenon DEF SyncInv
    <3>2. StartInv'
      BY <2>1, StartStep, Zenon DEF SyncInv
    <3>3. RequestInv' /\ BeatInv'
      BY <2>1, <3>1, <3>2, RequestStep, BeatStep, Zenon
    <3>4. SnoopInv' /\ ReleaseInv'
      BY <2>1, SnoopStep, ReleaseStep, Zenon DEF SyncInv
    <3> QED BY <3>1, <3>2, <3>3, <3>4, Zenon DEF SyncInv
  <2>2. CASE UNCHANGED syncVars
    <3> USE <2>2 DEF syncVars, mVars, pVars, histVars
    <3>1. SyncType'
      <4>1. /\ late' \in BOOLEAN /\ turn' \in {"m0", "p", "m1"} /\ (turn' = "p" => late')
            /\ rst' \in 0..2 /\ prs' \in 0..2 /\ up' \in 0..2
        BY Zenon DEF SyncInv, SyncType
      <4>2. /\ p_t' \in BOOLEAN /\ m_tf' \in BOOLEAN /\ m_tr' \in BOOLEAN /\ cap' \in BOOLEAN
            /\ p_q' \in Opt(Requests) /\ c' \in Opt(Requests) /\ m_q' \in Opt(Requests)
            /\ promise' \in BOOLEAN /\ capd' \in BOOLEAN /\ sampled' \in BOOLEAN
        BY Zenon DEF SyncInv, SyncType
      <4>3. /\ mr' \in [Chan -> Opt(ReadBeats \cup Dones)]
            /\ pr' \in [Chan -> Opt(ReadBeats \cup Dones)]
            /\ qr' \in [Chan -> Opt(ReadBeats \cup Dones)]
            /\ ms' \in Opt(Snoops) /\ s_line' \in Opt(Snoops) /\ p_s' \in Opt(Snoops)
        BY Zenon DEF SyncInv, SyncType
      <4>4. /\ s_tog' \in BOOLEAN /\ s_out' \in BOOLEAN /\ s_tq' \in BOOLEAN
            /\ a_tog' \in BOOLEAN /\ c_atog' \in BOOLEAN /\ m_s_ack' \in BOOLEAN
            /\ r_tog' \in BOOLEAN /\ r_pend' \in BOOLEAN /\ r_tq' \in BOOLEAN
            /\ r_seen' \in BOOLEAN /\ held' \in BOOLEAN
        BY ZenonT(60) DEF SyncInv, SyncType
      <4> QED BY <4>1, <4>2, <4>3, <4>4, Zenon DEF SyncType
    <3>2. ResetInv'
      BY Zenon DEF SyncInv, ResetInv, HistClear, PClear, MClear
    <3>3. PhaseInv'
      BY Zenon DEF SyncInv, PhaseInv
    <3>4. StartInv' /\ RequestInv' /\ BeatInv'
      BY Zenon DEF SyncInv, StartInv, RequestInv, BeatInv, BeforeCapture, BeforeP
    <3>5. SnoopInv' /\ ReleaseInv'
      BY Zenon DEF SyncInv, SnoopInv, ReleaseInv, Sent, Presented, Answered, Settled, Flushing,
                   NoRelease, Pending, Crossing, Arrived
    <3> QED BY <3>1, <3>2, <3>3, <3>4, <3>5, Zenon DEF SyncInv
  <2> QED BY <2>1, <2>2, Zenon
<1> QED BY <1>1, <1>2, PTL DEF SyncSpec

\* Every request the port sees taken reaches the controller once and in order, and no
\* other does (ddr_port_sync.v:21-24, 189-190).
THEOREM RequestsCross == SyncSpec => []RequestsExact
<1>1. SyncInv => RequestsExact
  <2>1. SyncInv /\ prs = 0 => m_q \o c = asked \o (IF capd THEN p_q ELSE <<>>)
    <3> SUFFICES ASSUME SyncInv, prs = 0
                 PROVE  m_q \o c = asked \o (IF capd THEN p_q ELSE <<>>)
      BY Zenon
    <3>1. (m_q \o c) \o <<>> = m_q \o c
      BY Singles DEF SyncInv, SyncType
    <3> QED BY <3>1, Zenon DEF SyncInv, RequestInv
  <2>2. SyncInv /\ ~reset_p => prs = 0
    BY DEF SyncInv, SyncType, reset_p
  <2> QED BY <2>1, <2>2, Zenon DEF RequestsExact
<1> QED BY <1>1, CrossingInvariant, PTL

\* The port sees every read beat and write done for one of its cycles, in order
\* (ddr_port_sync.v:25-27).
THEOREM BeatsCross == SyncSpec => []BeatsExact
<1>1. SyncInv => BeatsExact
  BY SMTT(40) DEF BeatsExact, reset_p, SyncInv, SyncType, BeatInv
<1> QED BY <1>1, CrossingInvariant, PTL

\* A snoop is presented with its own line, answered once and acknowledged after that, and
\* the release of a flushed line is neither lost, doubled nor invented
\* (ddr_port_sync.v:33-39).
THEOREM SnoopsCross == SyncSpec => []SnoopExact
<1>1. SyncInv => SnoopExact
  <2> SUFFICES ASSUME SyncInv  PROVE SnoopExact
    BY Zenon
  <2>1. s_out => ms = s_line
    BY Zenon DEF SyncInv, SnoopInv
  <2>2. ASSUME prs = 0
        PROVE  /\ p_s_valid => s_out /\ p_s = s_line /\ answers = 0
               /\ m_s_ack => answers = 1 /\ ms = s_line
    <3>1. p_s_valid => s_out /\ Presented
      BY <2>2, Zenon DEF p_s_valid, SyncInv, SnoopInv, Sent, Presented, Answered, Settled
    <3> QED BY <2>2, <3>1, Zenon DEF SyncInv, SnoopInv
  <2>3. ASSUME prs = 0
        PROVE  rels = Bool(r_pend) + Bool(r_tog # r_tq) + Bool(p_s_rel)
    <3>1. (rels = 0 /\ NoRelease) \/ (rels = 1 /\ (Pending \/ Crossing \/ Arrived))
      BY <2>3, Zenon DEF SyncInv, ReleaseInv
    <3> QED BY <3>1 DEF Bool, p_s_rel, NoRelease, Pending, Crossing, Arrived
  <2> QED BY <2>1, <2>2, <2>3 DEF SnoopExact, ReleaseExact, reset_p, SyncInv, SyncType
<1> QED BY <1>1, CrossingInvariant, PTL
=============================================================================
