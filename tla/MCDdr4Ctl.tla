----------------------------- MODULE MCDdr4Ctl ------------------------------
(* The DDR4 controller under three loads, one chosen at the start: up to CALM requests at *)
(* any time, for both rows of one bank and one row of the other; READS reads back to      *)
(* back, which bring the four-activate window to bear; or a spell of writes of one row    *)
(* back to back, the longest of which leaves the injected read no place for longer than a *)
(* tracking interval and a refresh interval.                                              *)
EXTENDS Ddr4Ctl

CONSTANTS CALM, READS,  \* bounds: the requests of the first two loads
          Spells        \* bounds: those of the third
VARIABLES load,
          room, spared  \* history: this interval's read had its place; every interval's had

Write == [we |-> TRUE, line |-> [b |-> 0, r |-> 0]]
Burst == {rq \in RequestChoices : rq # <<>> /\ ~rq[1].we /\ rq[1].line.b = left % 2}
Calm == {rq \in RequestChoices : rq # <<>> /\ rq[1].line.b = 1 => rq[1].line.r = 0}
Loads ==
  {[kind |-> "calm", n |-> CALM], [kind |-> "reads", n |-> READS]} \cup {[kind |-> "writes", n |-> k] : k \in Spells}
More == rq_ready /\ left > NREQ - load.n
Load ==
  CASE ~More -> {<<>>}
    [] More /\ load.kind = "calm" -> Calm
    [] More /\ load.kind = "reads" -> Burst
    [] More /\ load.kind = "writes" -> {<<Write>>} \cup (IF left = NREQ THEN {<<>>} ELSE {})

\* A read has issued, or, once one is owed, the last write is T_WTR_L cycles past.
Place == vt.rd \/ (vt.cnt > VT_INJ /\ \A b \in Bank : age.wr[b] >= T_WTR_L)
RoomTick ==
  /\ room' = (vt.cnt # PER_INTVL - 1 /\ (room \/ Place))
  /\ spared' = (spared /\ (vt.cnt = VT_GAP => room \/ Place))

LoadInit == CtlInit /\ load \in Loads /\ room = FALSE /\ spared = TRUE
LoadNext == load' = load /\ RoomTick /\ \E rq \in Load : Tick(rq)
loadVars == <<ctlVars, load, room, spared>>
LoadSpec == LoadInit /\ [][LoadNext]_loadVars /\ ClockRuns

\* The memory is refreshed and tracked in time as long as no interval goes by in gapless writes:
\* if in every tracking interval, after the read was owed and by VT_GAP, the writes once left
\* tWTR free, then at most one refresh is owed, each is issued in time and apart from the last REF
\* and ZQCS, and every interval has its read, its data and its gap (ddr4_ctl.v:37-43, 439, 448-450).
\* Without the condition none of these holds: every write re-arms t_rdg, which the injected read
\* waits for (ddr4_ctl.v:212), and a refresh waits for that read (:168).
Maintained == spared => RefreshesOwed /\ RefreshPrompt /\ RefreshSpaced /\ VtTracked
=============================================================================
