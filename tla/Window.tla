------------------------------ MODULE Window -------------------------------
(***************************************************************************)
(* What the reorder buffer promises: a window of ops in program order.     *)
(* Ops enter at the young end, in groups; they complete in any order, and  *)
(* leave at the old end, in order, once complete.  A mispredicted branch   *)
(* cuts the window behind itself.  Nothing enters while a cut is pending;  *)
(* the walk undoes the ops past the cut, the youngest first; and they are  *)
(* dropped, all together, in the step in which the branch completes.  An   *)
(* older branch moves the cut back, never forward.  A restart at the       *)
(* oldest op drops everything behind it.                                   *)
(*                                                                         *)
(* Each step has a condition and a next window, both of the window before   *)
(* it and of the cycle's choices, so that a composition can share them with *)
(* the components it drives.                                                *)
(***************************************************************************)
EXTENDS Geom, Sequences

\* IW: the most ops that enter, leave or are undone in a step
VARIABLE win    \* [q, cut, left]:
                \*   q     the ops in flight, oldest first: [op, done]
                \*   cut   how many of them a pending kill spares; 0: none is pending
                \*   left  how many of them the walk has not undone; 0: none is pending

Complete(q, C) == [j \in DOMAIN q |-> IF j \in C THEN [q[j] EXCEPT !.done = TRUE] ELSE q[j]]
Entering(g) == [j \in DOMAIN g |-> [op |-> g[j], done |-> FALSE]]
Retires(w, n) == n <= IW /\ n <= Len(w.q) /\ \A j \in 1..n : w.q[j].done
Undoes(w, m) == IF w.cut = 0 THEN m = 0 ELSE m <= IW /\ w.cut + m <= w.left

\* The oldest n leave, the ops at C complete, m ops are undone, the group g enters
CanAdvance(w, n, m, C, g) ==
  /\ Retires(w, n) /\ Undoes(w, m) /\ Len(g) <= IW
  /\ w.cut > 0 => w.cut \notin C /\ g = <<>>
Advance(w, n, m, C, g) ==
  [q |-> SubSeq(Complete(w.q, C), n + 1, Len(w.q)) \o Entering(g),
   cut |-> IF w.cut = 0 THEN 0 ELSE w.cut - n,
   left |-> IF w.cut = 0 THEN 0 ELSE w.left - n - m]
\* The op at br, older than any before it, is a mispredicted branch
CanCut(w, n, m, C, br) ==
  /\ Retires(w, n) /\ Undoes(w, m)
  /\ n < br /\ br <= Len(w.q) /\ ~w.q[br].done /\ br \notin C
  /\ w.cut > 0 => br < w.cut /\ w.cut \notin C
Cut(w, n, m, C, br) ==
  [q |-> SubSeq(Complete(w.q, C), n + 1, Len(w.q)),
   cut |-> br - n,
   left |-> (IF w.cut = 0 THEN Len(w.q) ELSE w.left - m) - n]
\* Everything past the cut is undone: it goes, and the branch completes
CanDrop(w, n) == w.cut > 0 /\ w.left = w.cut /\ Retires(w, n)
Drop(w, n, C) ==
  [q |-> SubSeq(Complete(w.q, C \cup {w.cut}), n + 1, w.cut), cut |-> 0, left |-> 0]
Empty == [q |-> <<>>, cut |-> 0, left |-> 0]

\* A step from a to b, its choices read off the two windows
WStep(a, b) ==
  \/ \E n \in 0..IW :
     LET C == {j \in n+1..Len(a.q) : j - n <= Len(b.q) /\ b.q[j - n].done}
         g == [j \in 1..(Len(b.q) + n - Len(a.q)) |-> b.q[Len(a.q) - n + j].op]
     IN  \/ \E m \in 0..IW :
             \/ Len(b.q) + n >= Len(a.q) /\ CanAdvance(a, n, m, C, g) /\ b = Advance(a, n, m, C, g)
             \/ \E br \in {b.cut + n} : CanCut(a, n, m, C, br) /\ b = Cut(a, n, m, C, br)
         \/ CanDrop(a, n) /\ b = Drop(a, n, C)
  \/ b = Empty
WNext == \E a \in {win}, b \in {win'} : WStep(a, b)
WSpec == win = Empty /\ [][WNext]_win
=============================================================================
