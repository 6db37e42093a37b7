----------------------------- MODULE MCDdr4Line -----------------------------
(* The line port on the controller: three requests at any time, so that two reads, two    *)
(* writes or one of each are in the controller together.  Their lines are chosen for the  *)
(* row commands they need: the second hits the first's row, closes it or opens another    *)
(* bank's, the third is the other bank's.                                                 *)
EXTENDS Ddr4Line

L(bk, row) == [b |-> bk, r |-> row]
Asks == <<{L(0, 0)}, {L(0, 0), L(0, 1), L(1, 0)}, {L(1, 0)}>>
MCNext ==
  \E i \in {LineInput} : \E nq \in Presented(i) :
    MayPresent(nq) /\ \E l \in IF rq_go(i) THEN Asks[NREQ - left + 1] ELSE {L(0, 0)} : LineTick(i, nq, l)
MCSpec == LineInit /\ [][MCNext]_lineVars
=============================================================================
