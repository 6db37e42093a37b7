----------------------------- MODULE MCPipeview -----------------------------
(* The trace and its viewer.  Every run is viewed; keys are typed on the runs Few picks   *)
(* (of the rows the loop reads their number and their labels only).                       *)
EXTENDS Pipeview, TLC

Esc(x) == <<"ESC", "[">> \o x
MCKeys ==
  {[name |-> "Up", bytes |-> Esc(<<"A">>)], [name |-> "Down", bytes |-> <<"j">>],
   [name |-> "PgDn", bytes |-> Esc(<<"6", "~">>)], [name |-> "PgUp", bytes |-> <<"b">>],
   [name |-> "Home", bytes |-> Esc(<<"1", "~">>)], [name |-> "End", bytes |-> <<"G">>],
   [name |-> "Right", bytes |-> <<"l">>], [name |-> "Left", bytes |-> Esc(<<"D">>)],
   [name |-> "Search", bytes |-> <<"/">>], [name |-> "Next", bytes |-> <<"n">>],
   [name |-> "Legend", bytes |-> <<"?">>], [name |-> "Quit", bytes |-> <<"q">>],
   [name |-> "Other", bytes |-> <<"a">>], [name |-> "Other", bytes |-> <<"CR">>],
   [name |-> "Other", bytes |-> <<"DEL">>],
   \* keys the viewer does not know: ESC, F1, F5, Delete and control-Right
   [name |-> "foreign", bytes |-> <<"ESC">>], [name |-> "foreign", bytes |-> <<"ESC", "O", "P">>],
   [name |-> "foreign", bytes |-> Esc(<<"1", "5", "~">>)], [name |-> "foreign", bytes |-> Esc(<<"3", "~">>)],
   [name |-> "foreign", bytes |-> Esc(<<"1", ";", "5", "C">>)]}
MCLabels == {<<"a">>}

CONSTANTS CELLS, CAUSED     \* bounds: the instruction cells and the cycles with a cause of a run
Small ==
  /\ Cardinality(seen.cells) <= CELLS
  /\ Cardinality({k \in DOMAIN seen.gcause : seen.gcause[k] # ""})
       + Cardinality({k \in DOMAIN seen.scause : seen.scause[k] # ""}) <= CAUSED

\* The rows keys are typed on: a stall of one cycle and two instructions.  A key is typed while
\* no more than one stands unread, so that a key of several bytes has one behind it.
Few ==
  /\ c = 4
  /\ Len(rows) = 3
  /\ [i \in 1..3 |-> rows[i].stall] = <<TRUE, FALSE, FALSE>>
  /\ rows[1].fill = "#" /\ rows[1].end = 2
  /\ \A x \in seen.cells : x[3] = <<"f">>
  /\ Cardinality({j \in DOMAIN inp : inp[j].at = 1}) <= 1
MCNext == (Trace /\ Small') \/ Open \/ tui \/ (Few /\ (Type \/ Eof))
MCSpec == Init /\ [][MCNext]_vars /\ WF_vars(tui)
=============================================================================
