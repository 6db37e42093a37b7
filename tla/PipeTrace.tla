----------------------------- MODULE PipeTrace ------------------------------
(* The testbench's pipe trace, core/tb_pipetrace.vh: what it writes to the Kanata file    *)
(* each cycle.  The hardware is the environment: every cycle gives each instruction in    *)
(* the frontend (rows ps) or the ROB (rows pt) a code and a fate, and the cycle a fetch   *)
(* and a stall cause ("" when there is none).  A row is its id; the trace's keys          *)
(* (sequence number, ROB index) only find it: the two closes of a row whose key is taken  *)
(* again (ps_new, and the binding of a ROB index) are left out, as ps_new is called only   *)
(* without a row under the key, and a ROB index is dispatched again only after its row     *)
(* ended.  Which code an instruction gets (the stages the trace looks into, its mirrors    *)
(* of the queue) is the hardware's choice.                                                 *)
EXTENDS Integers, Sequences, FiniteSets, SequencesExt

CONSTANTS
  FrontCodes, BackCodes,    \* the codes of an instruction before and after dispatch
  Lanes,                    \* the codes among BackCodes of an op executing in a lane
  FetchCauses, StallCauses, Labels,
  trace_from, trace_to,     \* the trace window
  NCYC, NROWS, FW           \* bounds: cycles, instruction rows; the bundle register's slots

VARIABLES
  c,                        \* the cycle
  file, kan_last, kan_next, \* the records written, the cycle of the last one, the next row id
  ps, pt,                   \* the open instruction rows, by id: their last code
  fetch, stall,             \* the fetch and the stall row: its cause and its id when open
  over,                     \* the run is over, the file closed
  seen                      \* history: what the hardware did (the cells, the causes, the ends)
tvars == <<c, file, kan_last, kan_next, ps, pt, fetch, stall, over, seen>>

trace_on == trace_from <= c /\ c < trace_to

\* The tasks that write records: what each one writes.
kan_open(id, kind, text, code) ==
  <<[k |-> "I", id |-> id], [k |-> "L", id |-> id, type |-> 0, kind |-> kind, text |-> text],
    [k |-> "S", id |-> id, code |-> code]>>
kan_code(id, old, code) ==
  IF code = old THEN <<>> ELSE <<[k |-> "E", id |-> id, code |-> old], [k |-> "S", id |-> id, code |-> code]>>
kan_close(id, old, flushed) ==
  <<[k |-> "E", id |-> id, code |-> old], [k |-> "R", id |-> id, flushed |-> flushed]>>
Detail(id) == <<[k |-> "L", id |-> id, type |-> 1]>>
\* kan_tick, which each of the first three tasks calls before it writes: a cycle's records are
\* preceded by the clock's advance, but for the detail lines that come before the first of them.
IsDetail(r) == r.k = "L" /\ r.type = 1
kan_tick(recs) ==
  LET first == SelectInSeq(recs, LAMBDA r : ~IsDetail(r))
  IN IF first = 0 \/ c = kan_last THEN recs ELSE InsertAt(recs, first, [k |-> "C", n |-> c - kan_last])
Ticked(recs) == \E i \in DOMAIN recs : ~IsDetail(recs[i])
\* A task for each of a set of rows, in their order.
ForEach(S, Task(_)) ==
  LET order == SetToSortSeq(S, <)
  IN FlattenSeq([j \in DOMAIN order |-> Task(order[j])])
NoRow == [cause |-> "", id |-> -1]

\* Steps 4 and 5: the row of a run of cycles with one cause; a change closes it and opens the
\* next, id.
CauseRecs(r, cause, id, mark) ==
  IF cause = r.cause THEN <<>>
  ELSE (IF r.cause # "" THEN kan_close(r.id, mark, TRUE) ELSE <<>>)
         \o (IF cause # "" THEN kan_open(id, mark, <<cause>>, mark) ELSE <<>>)
CauseRow(r, cause, id) ==
  IF cause = r.cause THEN r ELSE IF cause = "" THEN NoRow ELSE [cause |-> cause, id |-> id]

\* The letter a cycle's cell should show: the code, or how the row ended in that cycle.
Cell(code, fate) ==
  CASE fate = "retire" /\ code \in Lanes -> <<"retired in lane", code>>
    [] fate = "retire" /\ code \notin Lanes -> <<"R">>
    [] fate = "flush" -> <<"x">>
    [] OTHER -> <<code>>

\* One clock edge.  new: the labels of the rows that open (instructions in the bundle register
\* without one); nf, nb: the codes of the frontend's and the ROB's rows; ff, bf: their fates.
Cycle(new, nf, nb, ff, bf, gc, sc) ==
  LET opened == {kan_next + j - 1 : j \in DOMAIN new}
      gcause == IF trace_on THEN gc ELSE ""
      scause == IF trace_on THEN sc ELSE ""
      gid == kan_next + Len(new)
      sid == gid + (IF gcause \notin {"", fetch.cause} THEN 1 ELSE 0)
      back == IF trace_on THEN nb ELSE pt
      old == [i \in DOMAIN ps \cup opened |-> IF i \in opened THEN "f" ELSE ps[i]]
      Ending(f, fate) == {i \in DOMAIN f : f[i] = fate}
      bound == Ending(ff, "bind")
  IN \E recs \in
       {  \* 1. the ROB's rows
          ForEach(DOMAIN pt, LAMBDA i : kan_code(i, pt[i], back[i]))
          \* 2. the frontend's rows: the new ones open with "f"
          \o ForEach(opened, LAMBDA i : kan_open(i, "insn", new[i - kan_next + 1], "f"))
          \o ForEach(DOMAIN old, LAMBDA i : kan_code(i, old[i], nf[i]))
          \* 3. the ends: retired, flushed in the ROB; dispatched, or dropped with the IR's group
          \* or by a frontend redirect
          \o ForEach(Ending(bf, "retire"), LAMBDA i : kan_close(i, back[i], FALSE))
          \o ForEach(Ending(bf, "flush"), LAMBDA i : kan_close(i, back[i], TRUE))
          \o ForEach(bound, Detail)
          \o ForEach(Ending(ff, "flush"), LAMBDA i : kan_close(i, nf[i], TRUE))
          \* 4. the fetch row  5. the stall row
          \o CauseRecs(fetch, gcause, gid, "~~") \o CauseRecs(stall, scause, sid, "**") } :
     /\ file' = file \o kan_tick(recs)
     /\ kan_last' = IF Ticked(recs) THEN c ELSE kan_last
     /\ kan_next' = sid + (IF scause \notin {"", stall.cause} THEN 1 ELSE 0)
     /\ ps' = [i \in Ending(ff, "stay") |-> nf[i]]
     /\ pt' = [i \in Ending(bf, "stay") \cup bound |-> IF i \in bound THEN nf[i] ELSE back[i]]
     /\ fetch' = CauseRow(fetch, gcause, gid)
     /\ stall' = CauseRow(stall, scause, sid)
     /\ c' = c + 1
     /\ seen' = [cells |-> seen.cells
                   \cup (IF trace_on THEN {<<i, c, Cell(nb[i], bf[i])>> : i \in DOMAIN pt}
                                          \cup {<<i, c, Cell(nf[i], ff[i])>> : i \in DOMAIN old} ELSE {}),
                 gcause |-> Append(seen.gcause, gcause),
                 scause |-> Append(seen.scause, scause),
                 retired |-> seen.retired \cup Ending(bf, "retire"),
                 flushed |-> seen.flushed \cup Ending(bf, "flush") \cup Ending(ff, "flush")]
     /\ UNCHANGED over

\* What the hardware can do in a cycle: an instruction is dispatched from the IR ("i"), which
\* one just fetched has not reached, and executes in its lane for one cycle.
Clock ==
  /\ ~over
  /\ c < NCYC
  /\ \E new \in BoundedSeq(Labels, IF trace_on THEN FW ELSE 0) :
       LET here == DOMAIN ps \cup {kan_next + j - 1 : j \in DOMAIN new}
       IN /\ Cardinality({i \in DOMAIN file : file[i].k = "L" /\ file[i].type = 0 /\ file[i].kind = "insn"})
               + Len(new) <= NROWS
          /\ \E nf \in [here -> FrontCodes], nb \in [DOMAIN pt -> BackCodes],
                ff \in [here -> {"stay", "bind", "flush"}], bf \in [DOMAIN pt -> {"stay", "retire", "flush"}],
                gcause \in FetchCauses \cup {""}, scause \in StallCauses \cup {""} :
               /\ \A i \in here : (ff[i] = "bind" => nf[i] = "i") /\ (nf[i] = "i" => i \in DOMAIN ps)
               /\ \A i \in DOMAIN pt : nb[i] \in Lanes => pt[i] \notin Lanes
               /\ Cycle(new, nf, nb, ff, bf, gcause, scause)

\* The run ends (kan_finish): the fetch and the stall row close, after the last cycle.
kan_finishOpen ==
  /\ ~over
  /\ over' = TRUE
  /\ UNCHANGED <<c, file, kan_last, kan_next, ps, pt, fetch, stall, seen>>
kan_finish ==
  /\ ~over
  /\ \E recs \in {CauseRecs(fetch, "", 0, "~~") \o CauseRecs(stall, "", 0, "**")} :
       /\ file' = file \o kan_tick(recs)
       /\ kan_last' = IF Ticked(recs) THEN c ELSE kan_last
  /\ fetch' = NoRow
  /\ stall' = NoRow
  /\ over' = TRUE
  /\ UNCHANGED <<c, kan_next, ps, pt, seen>>

TraceInit ==
  /\ c = 0
  /\ file = <<>>
  /\ kan_last = 0
  /\ kan_next = 0
  /\ ps = <<>>
  /\ pt = <<>>
  /\ fetch = NoRow
  /\ stall = NoRow
  /\ over = FALSE
  /\ seen = [cells |-> {}, gcause |-> <<>>, scause |-> <<>>, retired |-> {}, flushed |-> {}]
=============================================================================
