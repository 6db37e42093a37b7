------------------------------ MODULE Pipeview ------------------------------
(* tools/pipeview: the terminal viewer of the pipe trace.  load reads the file into rows, *)
(* glyph_at and stats are what it draws of them, and tui the loop that draws a window of  *)
(* the rows and takes a key.  A byte of input is a one-character string, ESC and the      *)
(* other control bytes by name; a label and a query are sequences of them.                *)
EXTENDS PipeTrace, FiniteSetsExt

CONSTANTS BODY,             \* the rows the terminal shows
          Keys,             \* what the user may type: byte sequences, by name
          NKEYS             \* bound: the keys typed

VARIABLES
  rows,                     \* the rows loaded
  mode,                     \* "off" (not started), "view", "search", "legend", "quit"
  top, shift, query, s,     \* tui's state and read_line's line
  inp, eof,                 \* the bytes typed and not read, each with its key and place in it; no more come
  typed, acted              \* the number of keys typed; history: the last key read and the bytes
                            \* read for it (none: no key was read)
uvars == <<rows, mode, top, shift, query, s, inp, eof, typed, acted>>
vars == <<tvars, uvars>>
None == -1

\* ---- load: one step per line of the file ----
NewRow == [label |-> <<>>, stages |-> <<>>, end |-> None, flushed |-> FALSE, stall |-> FALSE, fill |-> " "]
Line(st, f) ==
  LET i == IF f.k = "C" \/ f.id \notin DOMAIN st.by_id THEN 0 ELSE st.by_id[f.id]
  IN CASE f.k = "C" -> [st EXCEPT !.cyc = @ + f.n]
       [] f.k = "I" ->
            [st EXCEPT !.by_id = [j \in DOMAIN @ \cup {f.id} |-> IF j = f.id THEN Len(st.rows) + 1 ELSE @[j]],
                       !.rows = Append(@, NewRow)]
       [] f.k = "L" /\ f.type = 0 /\ i # 0 ->
            IF f.kind = "insn" THEN [st EXCEPT !.rows[i].label = f.text]
            ELSE [st EXCEPT !.rows[i].label = f.text, !.rows[i].stall = TRUE,
                            !.rows[i].fill = IF f.kind = "**" THEN "#" ELSE "~"]
       [] f.k = "S" /\ i # 0 -> [st EXCEPT !.rows[i].stages = Append(@, <<st.cyc, f.code>>)]
       [] f.k = "R" /\ i # 0 -> [st EXCEPT !.rows[i].end = st.cyc, !.rows[i].flushed = f.flushed]
       [] OTHER -> st
load(lines) == FoldLeft(Line, [rows |-> <<>>, by_id |-> <<>>, cyc |-> 0], lines).rows

\* ---- Row: start, last and the letter of a cycle ----
start(r) == IF r.stages = <<>> THEN 0 ELSE r.stages[1][1]
last(r) == IF r.end # None THEN r.end ELSE IF r.stages = <<>> THEN 0 ELSE Last(r.stages)[1]
glyph_atAnyEnd(r, k) ==
  LET upTo == SelectSeq(r.stages, LAMBDA st : st[1] <= k)
      atK == SelectSeq(r.stages, LAMBDA st : st[1] = k)
  IN CASE k < start(r) -> <<" ">>
       [] k >= start(r) /\ r.stall -> IF r.end = None \/ k < r.end THEN <<r.fill>> ELSE <<" ">>
       [] k >= start(r) /\ ~r.stall /\ r.end # None /\ k > r.end -> <<" ">>
       [] k >= start(r) /\ ~r.stall /\ k = r.end ->
            IF atK # <<>> /\ Last(atK)[2] \in Lanes THEN <<"retired in lane", Last(atK)[2]>>
            ELSE IF r.flushed THEN <<"x">> ELSE <<"R">>
       [] OTHER -> IF upTo = <<>> THEN <<" ">> ELSE <<Last(upTo)[2]>>
glyph_at(r, k) ==
  LET upTo == SelectSeq(r.stages, LAMBDA st : st[1] <= k)
      atK == SelectSeq(r.stages, LAMBDA st : st[1] = k)
  IN CASE k < start(r) -> <<" ">>
       [] k >= start(r) /\ r.stall -> IF r.end = None \/ k < r.end THEN <<r.fill>> ELSE <<" ">>
       [] k >= start(r) /\ ~r.stall /\ r.end # None /\ k > r.end -> <<" ">>
       [] k >= start(r) /\ ~r.stall /\ k = r.end ->
            IF atK # <<>> /\ ~r.flushed /\ Last(atK)[2] \in Lanes THEN <<"retired in lane", Last(atK)[2]>>
            ELSE IF r.flushed THEN <<"x">> ELSE <<"R">>
       [] OTHER -> IF upTo = <<>> THEN <<" ">> ELSE <<Last(upTo)[2]>>

\* ---- stats: the header over the visible rows v ----
Sel(v, P(_)) == {i \in DOMAIN v : P(v[i])}
stats(v) ==
  LET counted == Sel(v, LAMBDA r : r.stall /\ r.end # None)
      lo == Min({start(v[i]) : i \in DOMAIN v})
      hi == Max({last(v[i]) : i \in DOMAIN v})
  IN [lo |-> lo, hi |-> hi, n |-> Max({hi - lo, 1}),
      ret |-> Cardinality(Sel(v, LAMBDA r : ~r.stall /\ r.end # None /\ ~r.flushed)),
      fl |-> Cardinality(Sel(v, LAMBDA r : ~r.stall /\ r.flushed)),
      causes |-> [l \in {v[i].label : i \in counted} |->
                    MapThenSumSet(LAMBDA i : v[i].end - start(v[i]), {i \in counted : v[i].label = l})]]

\* ---- read_key: the bytes it reads (a read waits for a byte unless the input has ended, when
\* it gives none), and the key they are ----
Byte(k) == IF k <= Len(inp) THEN inp[k].byte ELSE ""
Tilde == {"1", "4", "5", "6"}
ReadsAhead ==             \* faulty: every ESC [ key is read as if a tilde followed
  IF Byte(1) # "ESC" THEN 1 ELSE IF Len(inp) >= 2 /\ Byte(2) # "[" THEN 2 ELSE 4
Reads ==
  IF Byte(1) # "ESC" THEN 1
  ELSE IF Len(inp) >= 2 /\ Byte(2) # "[" THEN 2
  ELSE IF Byte(3) \in Tilde THEN 4 ELSE 3
Ready(n) == Len(inp) >= n \/ eof
Escape ==
  [A |-> "Up", B |-> "Down", C |-> "Right", D |-> "Left", H |-> "Home", F |-> "End"]
Plain ==
  [q |-> "Quit", j |-> "Down", k |-> "Up", b |-> "PgUp", g |-> "Home", G |-> "End", h |-> "Left",
   l |-> "Right", n |-> "Next"]
read_keyNoEof == IF Byte(1) \in DOMAIN Plain THEN Plain[Byte(1)] ELSE "Other"
read_key ==
  CASE Byte(1) = "" -> "Quit"
    [] Byte(1) \in DOMAIN Plain -> Plain[Byte(1)]
    [] Byte(1) = " " -> "PgDn"
    [] Byte(1) = "/" -> "Search"
    [] Byte(1) = "?" -> "Legend"
    [] Byte(1) = "ESC" /\ Byte(2) # "[" -> "Quit"
    [] Byte(1) = "ESC" /\ Byte(2) = "[" /\ Byte(3) \in DOMAIN Escape -> Escape[Byte(3)]
    [] Byte(1) = "ESC" /\ Byte(2) = "[" /\ Byte(3) = "1" -> "Home"
    [] Byte(1) = "ESC" /\ Byte(2) = "[" /\ Byte(3) = "4" -> "End"
    [] Byte(1) = "ESC" /\ Byte(2) = "[" /\ Byte(3) = "5" -> "PgUp"
    [] Byte(1) = "ESC" /\ Byte(2) = "[" /\ Byte(3) = "6" -> "PgDn"
    [] OTHER -> "Other"
Drop(n) == inp' = SubSeq(inp, n + 1, Len(inp))

\* ---- tui ----
Less(n, k) == IF n > k THEN n - k ELSE 0          \* saturating_sub
lastRowOver == Len(rows)
lastRow == Less(Len(rows), 1)
View(t) == SubSeq(rows, t + 1, Min({t + BODY, Len(rows)}))
contains(label, q) == \E i \in 0..Len(label) - Len(q) : SubSeq(label, i + 1, i + Len(q)) = q
\* The next row below the top whose label contains q; the top stays when there is none.
Seek(q) ==
  LET found == {i \in top+1..Len(rows)-1 : contains(rows[i + 1].label, q)}
  IN IF q # <<>> /\ found # {} THEN top' = Min(found) /\ shift' = 0 ELSE UNCHANGED <<top, shift>>
Go(t) == top' = t /\ shift' = 0 /\ UNCHANGED <<mode, query, s>>
Act(key) ==
  CASE key = "Quit" -> mode' = "quit" /\ UNCHANGED <<top, shift, query, s>>
    [] key = "Down" -> Go(Min({top + 1, lastRow}))
    [] key = "Up" -> Go(Less(top, 1))
    [] key = "PgDn" -> Go(Min({top + BODY, lastRow}))
    [] key = "PgUp" -> Go(Less(top, BODY))
    [] key = "Home" -> Go(0)
    [] key = "End" -> Go(Less(Len(rows), BODY))
    [] key = "Right" -> shift' = shift + 8 /\ UNCHANGED <<mode, top, query, s>>
    [] key = "Left" -> shift' = shift - 8 /\ UNCHANGED <<mode, top, query, s>>
    [] key = "Search" -> mode' = "search" /\ s' = <<>> /\ UNCHANGED <<top, shift, query>>
    [] key = "Next" -> Seek(query) /\ UNCHANGED <<mode, query, s>>
    [] key = "Legend" -> mode' = "legend" /\ UNCHANGED <<top, shift, query, s>>
    [] key = "Other" -> UNCHANGED <<mode, top, shift, query, s>>
NoKey == [key |-> "", took |-> <<>>]
Took(key) == acted' = [key |-> key, took |-> SubSeq(inp, 1, Min({Reads, Len(inp)}))]
Key ==
  /\ mode = "view"
  /\ Ready(Reads)
  /\ \E key \in {read_key} :
       /\ Act(key)
       /\ Took(key)
  /\ Drop(Reads)
  /\ UNCHANGED <<tvars, rows, eof, typed>>
\* The legend stays until any key.
LegendKey ==
  /\ mode = "legend"
  /\ Ready(Reads)
  /\ mode' = "view"
  /\ Took(read_key)
  /\ Drop(Reads)
  /\ UNCHANGED <<tvars, rows, top, shift, query, s, eof, typed>>
\* read_line, a byte at a time: Enter (or the end of the input) takes the line, ESC gives the
\* empty one; the search then goes on with it.
Entered(line) == mode' = "view" /\ query' = line /\ Seek(line) /\ s' = <<>>
SearchByte ==
  /\ mode = "search"
  /\ Ready(1)
  /\ CASE Byte(1) \in {"", "CR"} -> Entered(s)
       [] Byte(1) = "ESC" -> Entered(<<>>)
       [] Byte(1) = "DEL" -> s' = SubSeq(s, 1, Len(s) - 1) /\ UNCHANGED <<mode, query, top, shift>>
       [] OTHER -> s' = Append(s, Byte(1)) /\ UNCHANGED <<mode, query, top, shift>>
  /\ Drop(1)
  /\ acted' = NoKey
  /\ UNCHANGED <<tvars, rows, eof, typed>>

\* The user: types a key, its bytes arriving together, or the input ends (the terminal closes),
\* perhaps within a key.
Type ==
  /\ mode \notin {"off", "quit"}
  /\ ~eof
  /\ typed < NKEYS
  /\ \E k \in Keys : inp' = inp \o [j \in DOMAIN k.bytes |-> [byte |-> k.bytes[j], of |-> k.name, at |-> j]]
  /\ typed' = typed + 1
  /\ UNCHANGED <<tvars, rows, mode, top, shift, query, s, eof, acted>>
Eof ==
  /\ mode \notin {"off", "quit"}
  /\ ~eof
  /\ eof' = TRUE
  /\ \E cut \in UNION {{SubSeq(k.bytes, 1, n) : n \in 0..Len(k.bytes)-1} : k \in Keys} :
       inp' = inp \o [j \in DOMAIN cut |-> [byte |-> cut[j], of |-> "cut", at |-> j]]
  /\ UNCHANGED <<tvars, rows, mode, top, shift, query, s, typed, acted>>

\* main: the file is loaded; a file without rows ends the viewer.
Open ==
  /\ mode = "off"
  /\ over
  /\ \E rs \in {load(file)} : rows' = rs /\ mode' = IF rs = <<>> THEN "quit" ELSE "view"
  /\ UNCHANGED <<tvars, top, shift, query, s, inp, eof, typed, acted>>

UserInit ==
  /\ rows = <<>>
  /\ mode = "off"
  /\ top = 0
  /\ shift = 0
  /\ query = <<>>
  /\ s = <<>>
  /\ inp = <<>>
  /\ eof = FALSE
  /\ typed = 0
  /\ acted = NoKey
Init == TraceInit /\ UserInit
Trace == (Clock \/ kan_finish) /\ UNCHANGED uvars
tui == Key \/ LegendKey \/ SearchByte
Next == Trace \/ Open \/ tui \/ Type \/ Eof
\* The viewer's loop goes on whenever a byte, or the end of the input, is there to read.
Spec == Init /\ [][Next]_vars /\ WF_vars(tui)
-----------------------------------------------------------------------------
Loaded == mode \notin {"off"} /\ rows # <<>>

\* Every cell of the window shows what the hardware did that cycle (LEGEND, "ONE CODE PER
\* CYCLE ... Read from the hardware's state that cycle"): an instruction's row its code, or
\* how it ended in that cycle, and nothing in the cycles it was not there; the fetch and the
\* stall rows together exactly the cycles that had their cause.  (glyph_at after load, on
\* what the trace's tasks wrote, kan_code writing changes only.)
CellsExact ==
  Loaded =>
    \A k \in trace_from..Min({trace_to, c}) - 1 :
      /\ \A i \in DOMAIN rows : ~rows[i].stall =>
           LET cell == {x \in seen.cells : x[1] = i - 1 /\ x[2] = k}
           IN IF cell = {} THEN glyph_at(rows[i], k) = <<" ">>
              ELSE cell = {<<i - 1, k, glyph_at(rows[i], k)>>}
      /\ \A f \in {<<"~", seen.gcause[k + 1]>>, <<"#", seen.scause[k + 1]>>} :
           {rows[i].label : i \in {n \in DOMAIN rows : glyph_at(rows[n], k) = <<f[1]>>}}
             = IF f[2] = "" THEN {} ELSE {<<f[2]>>}

\* The header tells the truth of every window of rows: its retired and flushed counts are the
\* instructions the hardware retired and flushed, a cause's cycles the cells its rows fill, and
\* over the whole file the cycles the hardware had that cause.  No row ends before it starts
\* (stats subtracts unsigned numbers).
HeaderExact ==
  Loaded =>
    /\ \A i \in DOMAIN rows : rows[i].end # None => rows[i].end >= start(rows[i])
    /\ \A t \in 0..lastRow :
         LET v == View(t)
             ids == t..t + Len(v) - 1
         IN /\ stats(v).ret = Cardinality(ids \cap seen.retired)
            /\ stats(v).fl = Cardinality(ids \cap seen.flushed)
            /\ \A l \in DOMAIN stats(v).causes :
                 stats(v).causes[l] = Cardinality({x \in (DOMAIN v) \X (0..c) :
                                         v[x[1]].label = l /\ v[x[1]].stall /\ glyph_at(v[x[1]], x[2]) # <<" ">>})
    /\ \A l \in FetchCauses \cup StallCauses :
         LET n == Cardinality({k \in 1..c : l \in {seen.gcause[k], seen.scause[k]}})
         IN IF n = 0 THEN <<l>> \notin DOMAIN stats(rows).causes
            ELSE <<l>> \in DOMAIN stats(rows).causes /\ stats(rows).causes[<<l>>] = n

\* The window never leaves the rows, whatever keys are typed: the slice rows[top..] is in
\* bounds and shows a row, so tui's view and its first row's cycle are never empty.
ViewInRange == Loaded => top \in 0..Len(rows) - 1 /\ View(top) # <<>>

\* A key the legend lists is never misread, cut short or run into its neighbour: read from its
\* first byte it is read as itself, all its bytes and no other's are gone, even when keys come
\* faster than they are read or the legend swallows one.  Bytes left behind do nothing: those of
\* an arrow or page key whose ESC cancels a search, and those of a key the viewer does not know.
\* (Of these read_key makes what it can: a lone ESC takes the next byte with it and quits, as
\* ESC O P does; ESC [ 1 5 ~ is Home; ESC [ 3 ~ is nothing.  They promise nothing here.)
Own == {"Up", "Down", "PgUp", "PgDn", "Home", "End", "Left", "Right", "Search", "Next", "Legend", "Quit", "Other"}
KeysWhole ==
  acted.took # <<>> =>
    LET first == acted.took[1]
    IN /\ first.at = 1 /\ first.of \in Own =>
            /\ acted.key = first.of
            /\ \A j \in DOMAIN acted.took : acted.took[j].at = j
            /\ inp = <<>> \/ inp[1].at = 1
       /\ first.at > 1 => acted.key = "Other"

\* When the input ends the viewer ends too, whatever it was reading: a key, an escape
\* sequence cut short, a search or the legend's key.
EofQuits == eof ~> mode = "quit"
=============================================================================
