------------------------------ MODULE DdrSync -------------------------------
(***************************************************************************)
(* The memory port's clock crossing (src/ddr_port_sync.v): clk_p is clk_m  *)
(* halved, so the crossing is registers.  clk_m samples clk_p's toggle and *)
(* finds CAP, the clk_m edge at which clk_p's outputs are stable; at the   *)
(* other edges it changes what clk_p sees.                                 *)
(*                                                                         *)
(* clk_m's edges alternate m0, m1.  clk_p's fall on m0 (simulation) or     *)
(* between m0's falling edge and m1 (the board: late).  A step is an edge  *)
(* of either clock, or of both; clk_m's step includes its falling edge.    *)
(* A register with a valid bit is a sequence of length 0 or 1.             *)
(***************************************************************************)
EXTENDS Naturals, Sequences

CONSTANTS Requests,           \* what the port asks: {id, we, addr, wmask, wdata}
          ReadBeats, Dones,   \* what comes back: read beats, write dones
          Cleans, Flushes     \* the lines a DMA master has cleaned, and has flushed

\* a snoop cleans or flushes (m_s_flush): the two sets tell snoops apart, not addresses
ASSUME SnoopAssumption == Cleans \cap Flushes = {}

VARIABLES late, turn,                  \* the clocks: turn \in {"m0", "p", "m1"}
          rst, prs,                    \* edges left in reset
          up,                          \* clk_p's edges since, up to 2
          p_t, m_tf, m_tr, cap,        \* the phase
          p_q, promise, c, m_q,        \* a request: presented, captured, handed on
          mr, pr, qr,                  \* by channel: given, launched, presented
          ms, s_tog, s_out, s_line, s_tq, p_s, a_tog, c_atog, m_s_ack,   \* a snoop
          r_tog, r_pend, r_tq, r_seen, held, \* the release of a flushed line, held since
          \* history: requests the port saw taken, not yet handed on; one is captured
          \* since; beats given, not yet seen; pr was sampled; answers to this snoop;
          \* releases on their way
          asked, capd, owed, sampled, answers, rels

mVars == <<m_tf, m_tr, cap, promise, c, m_q, mr, pr, ms, s_tog, s_out, s_line, c_atog,
           m_s_ack, r_tog, r_pend, held, rst>>
pVars == <<p_t, p_q, qr, s_tq, p_s, a_tog, r_tq, r_seen, up>>
histVars == <<asked, capd, owed, sampled, answers, rels>>
syncVars == <<late, turn, prs, mVars, pVars, histVars>>

Chan == {"r", "w"}
BeatsOf(ch) == IF ch = "r" THEN ReadBeats ELSE Dones
Opt(S) == {<<>>} \cup {<<d>> : d \in S}
Bool(b) == IF b THEN 1 ELSE 0
reset_m == rst > 0
reset_p == prs > 0
p_s_valid == s_tq # a_tog
p_s_rel == r_tq # r_seen
Snoops == Cleans \cup Flushes

-----------------------------------------------------------------------------
\* ---- clk_m's edge: tf is what its falling edge samples
Phase(tf) ==
  /\ m_tf' = tf /\ m_tr' = m_tf /\ cap' = (m_tf = m_tr)

c_go(rdy) == c # <<>> /\ (m_q = <<>> \/ rdy)    \* rdy: the controller takes m_q
RequestUnchecked(rdy) ==    \* faulty: promises whether or not the capture will be free
  IF reset_m THEN c' = <<>> /\ m_q' = <<>> /\ promise' = FALSE
  ELSE /\ promise' = (promise \/ ~cap)
       /\ c' = IF cap /\ promise THEN p_q ELSE IF c_go(rdy) THEN <<>> ELSE c
       /\ m_q' = IF c_go(rdy) THEN c ELSE IF rdy THEN <<>> ELSE m_q
Request(rdy) ==
  IF reset_m THEN c' = <<>> /\ m_q' = <<>> /\ promise' = FALSE
  ELSE /\ promise' = IF ~cap THEN c = <<>> \/ c_go(rdy) ELSE promise
       /\ c' = IF cap /\ promise THEN p_q ELSE IF c_go(rdy) THEN <<>> ELSE c
       /\ m_q' = IF c_go(rdy) THEN c ELSE IF rdy THEN <<>> ELSE m_q

\* the controller holds a beat until it is taken, and gives none before a request
GivenNext ==
  {m \in [Chan -> Opt(ReadBeats \cup Dones)] :
     \A ch \in Chan :
       IF reset_m THEN m[ch] = <<>>
       ELSE IF mr[ch] # <<>> /\ cap THEN m[ch] = mr[ch]
       ELSE m[ch] = <<>> \/ (up > 0 /\ ~reset_p /\ m[ch] \in Opt(BeatsOf(ch)))}
LaunchAnyEdge ==            \* faulty: launches at CAP too
  pr' = [ch \in Chan |-> IF reset_m THEN <<>> ELSE mr[ch]] /\ mr' \in GivenNext
Launch ==
  /\ pr' = [ch \in Chan |-> IF reset_m THEN <<>> ELSE IF ~cap THEN mr[ch] ELSE pr[ch]]
  /\ mr' \in GivenNext

\* the DMA port holds a snoop until its answer, and asks for no flush while a line is held
AskedNext ==
  IF reset_m THEN {<<>>}
  ELSE IF ms # <<>> /\ ~m_s_ack THEN {ms}
  ELSE Opt(Cleans) \cup (IF held' THEN {} ELSE Opt(Flushes))
SnoopDeaf ==                \* faulty: the answer is never captured
  /\ UNCHANGED c_atog
  /\ m_s_ack' = (~reset_m /\ s_out /\ c_atog = s_tog)
  /\ \E go \in {~reset_m /\ ~s_out /\ ms # <<>> /\ ~m_s_ack /\ ~cap} :
       /\ s_tog' = IF reset_m THEN FALSE ELSE s_tog # go
       /\ s_line' = IF go THEN ms ELSE s_line
       /\ s_out' = (~reset_m /\ (go \/ (s_out /\ c_atog # s_tog)))
  /\ ms' \in AskedNext
Snoop ==
  /\ c_atog' = IF reset_m THEN FALSE ELSE IF cap THEN a_tog ELSE c_atog
  /\ m_s_ack' = (~reset_m /\ s_out /\ c_atog = s_tog)
  /\ \E go \in {~reset_m /\ ~s_out /\ ms # <<>> /\ ~m_s_ack /\ ~cap} :
       /\ s_tog' = IF reset_m THEN FALSE ELSE s_tog # go
       /\ s_line' = IF go THEN ms ELSE s_line
       /\ s_out' = (~reset_m /\ (go \/ (s_out /\ c_atog # s_tog)))
  /\ ms' \in AskedNext
HeldNext(rel) == ~reset_m /\ ((held /\ ~rel) \/ (m_s_ack /\ ms[1] \in Flushes))
ReleaseOf(rel) ==       \* rel: the controller has the flushed line's write
  /\ (rel => held) /\ held' = HeldNext(rel)
  /\ IF reset_m THEN r_tog' = FALSE /\ r_pend' = FALSE
     ELSE IF ~cap /\ (r_pend \/ rel) THEN r_tog' = ~r_tog /\ r_pend' = FALSE
     ELSE r_pend' = (r_pend \/ rel) /\ UNCHANGED r_tog

\* ui_cpu_reset: two more edges after the request for it goes
ResetM(req) == rst' = IF req THEN 2 ELSE IF rst > 0 THEN rst - 1 ELSE 0
MEdge(tf, rdy, rel, req) ==
  Phase(tf) /\ Request(rdy) /\ Launch /\ ReleaseOf(rel) /\ Snoop /\ ResetM(req)

\* the port holds a request until it sees it taken; its first is not in the first cycle
PresentedNext ==
  IF reset_p \/ up = 0 THEN {<<>>}
  ELSE IF p_q # <<>> /\ ~promise THEN {p_q} ELSE Opt(Requests)
PEdgeKeeps(ack) ==          \* faulty: a reset leaves the answer's toggle
  /\ p_t' = (~reset_p /\ ~p_t) /\ up' = (IF reset_p THEN 0 ELSE IF up < 2 THEN up + 1 ELSE 2)
  /\ p_q' \in PresentedNext
  /\ qr' = [ch \in Chan |-> IF reset_p THEN <<>> ELSE pr[ch]]
  /\ ack => p_s_valid
  /\ s_tq' = (~reset_p /\ s_tog) /\ p_s' = s_line /\ a_tog' = (a_tog # ack)
  /\ r_tq' = (~reset_p /\ r_tog) /\ r_seen' = (~reset_p /\ r_tq)
\* ---- clk_p's edge: ack, the D$ answers the snoop
PEdge(ack) ==
  /\ p_t' = (~reset_p /\ ~p_t) /\ up' = (IF reset_p THEN 0 ELSE IF up < 2 THEN up + 1 ELSE 2)
  /\ p_q' \in PresentedNext
  /\ qr' = [ch \in Chan |-> IF reset_p THEN <<>> ELSE pr[ch]]
  /\ ack => p_s_valid
  /\ s_tq' = (~reset_p /\ s_tog) /\ p_s' = s_line
  /\ a_tog' = (~reset_p /\ a_tog # ack)
  /\ r_tq' = (~reset_p /\ r_tog) /\ r_seen' = (~reset_p /\ r_tq)

\* probe_reset: set with ui_cpu_reset at once, released by clk_p's second edge after it
ResetP(p) == prs' = IF rst > 0 \/ rst' > 0 THEN 2 ELSE IF p /\ prs > 0 THEN prs - 1 ELSE prs

\* ---- history.  m, p: this step has clk_m's, clk_p's edge
Cut(s, b) == IF b /\ s # <<>> THEN Tail(s) ELSE s
History(m, p, rdy, rel, ack) ==
  IF prs' > 0
  THEN /\ asked' = <<>> /\ capd' = FALSE /\ owed' = [ch \in Chan |-> <<>>]
       /\ sampled' = FALSE /\ answers' = 0 /\ rels' = 0
  ELSE /\ asked' = Cut(asked, m /\ rdy /\ m_q # <<>>) \o (IF p /\ promise THEN p_q ELSE <<>>)
       /\ capd' = (~p /\ (capd \/ (m /\ cap /\ promise /\ p_q # <<>>)))
       /\ owed' = [ch \in Chan |-> Cut(owed[ch], p /\ qr[ch] # <<>>)
                                     \o (IF m /\ ~cap THEN mr[ch] ELSE <<>>)]
       /\ sampled' = IF m /\ ~cap THEN FALSE ELSE IF p THEN TRUE ELSE sampled
       /\ answers' = (IF m /\ s_tog' # s_tog THEN 0 ELSE answers) + Bool(p /\ ack)
       /\ rels' = rels + Bool(m /\ rel) - Bool(p /\ p_s_rel)

M(rdy) == \E rel, req \in BOOLEAN :
  /\ MEdge(p_t, rdy, rel, req) /\ ResetP(FALSE) /\ History(TRUE, FALSE, rdy, rel, FALSE)
  /\ UNCHANGED <<late, pVars>>
M0(rdy) == turn = "m0" /\ late /\ turn' = "p" /\ M(rdy)
M0P(rdy, ack) ==
  /\ turn = "m0" /\ ~late /\ turn' = "m1" /\ UNCHANGED late
  /\ \E rel, req \in BOOLEAN :
       /\ PEdge(ack) /\ MEdge(p_t', rdy, rel, req) /\ ResetP(TRUE)
       /\ History(TRUE, TRUE, rdy, rel, ack)
P(ack) == /\ turn = "p" /\ turn' = "m1" /\ UNCHANGED <<late, mVars>>
          /\ PEdge(ack) /\ ResetP(TRUE) /\ History(FALSE, TRUE, FALSE, FALSE, ack)
M1(rdy) == turn = "m1" /\ turn' = "m0" /\ M(rdy)

SyncInit ==
  /\ late \in BOOLEAN /\ turn = "m0" /\ rst = 2 /\ prs = 2 /\ up = 0
  /\ p_t = FALSE /\ m_tf = FALSE /\ m_tr = FALSE /\ cap \in BOOLEAN
  /\ p_q = <<>> /\ promise = FALSE /\ c = <<>> /\ m_q = <<>>
  /\ mr = [ch \in Chan |-> <<>>] /\ pr = mr /\ qr = mr
  /\ ms = <<>> /\ s_tog = FALSE /\ s_out = FALSE /\ s_line = <<>> /\ s_tq = FALSE
  /\ p_s = <<>> /\ a_tog = FALSE /\ c_atog = FALSE /\ m_s_ack = FALSE
  /\ r_tog = FALSE /\ r_pend = FALSE /\ r_tq = FALSE /\ r_seen = FALSE /\ held = FALSE
  /\ asked = <<>> /\ capd = FALSE /\ owed = mr /\ sampled = FALSE /\ answers = 0 /\ rels = 0
Edge(rdy, ack) == M0(rdy) \/ M0P(rdy, ack) \/ P(ack) \/ M1(rdy)
SyncNext == \E rdy, ack \in BOOLEAN : Edge(rdy, ack)
SyncSpec == SyncInit /\ [][SyncNext]_syncVars
\* The clocks run; the controller takes requests; the D$ answers snoops
LiveSyncSpec ==
  /\ SyncSpec /\ WF_syncVars(SyncNext)
  /\ SF_syncVars(m_q # <<>> /\ \E ack \in BOOLEAN : Edge(TRUE, ack) /\ turn # "p")
  /\ SF_syncVars(p_s_valid /\ \E rdy \in BOOLEAN : P(TRUE) \/ M0P(rdy, TRUE))

-----------------------------------------------------------------------------
\* Every request the port sees taken is handed to the controller once, in order, and
\* none it does not: a promise is always kept and nothing is captured without one, or
\* over one not yet moved on (ddr_port_sync.v:21-24, 189-190).
RequestsExact == ~reset_p => m_q \o c = asked \o (IF capd THEN p_q ELSE <<>>)

\* The port sees every read beat and every write done for exactly one of its cycles, in
\* order (ddr_port_sync.v:25-27).
BeatsExact ==
  ~reset_p => \A ch \in Chan : owed[ch] = qr[ch] \o (IF sampled THEN <<>> ELSE pr[ch])

\* A release pulse is never lost, doubled or invented between the clocks
\* (ddr_port_sync.v:37-39).
ReleaseExact ==
  ~reset_p => rels = Bool(r_pend) + Bool(r_tog # r_tq) + Bool(p_s_rel)

\* A snoop is presented with its own line, answered once, and acknowledged to the DMA
\* port only after that answer, whatever the toggles were left at by the snoop before
\* and by a reset (ddr_port_sync.v:33-37).
SnoopExact ==
  /\ ~reset_p =>
    /\ p_s_valid => s_out /\ p_s = s_line /\ answers = 0
    /\ m_s_ack => answers = 1 /\ ms = s_line
    /\ s_out => ms = s_line
  /\ ReleaseExact

\* A request is captured, a snoop answered and a release seen, unless a reset comes first
\* (ddr_port_sync.v:13-14, 33-39).
CrossingEnds ==
  /\ p_q # <<>> ~> capd \/ reset_p
  /\ ms # <<>> ~> m_s_ack \/ reset_p
  /\ rels > 0 ~> rels = 0
=============================================================================
