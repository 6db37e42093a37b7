----------------------------- MODULE RobWindow -----------------------------
(* The reorder buffer implements the window of ops in program order.        *)
EXTENDS Rob

NoOp == [op |-> "none", done |-> FALSE]
\* every place from the head's row on, in program order, and the live ones of them
Places ==
  [n \in 1..ROWS*IW |->
     LET r == RowOf(RAdd(head.r, (n - 1) \div IW))
         x == <<r, col_of(fc[r], (n - 1) % IW)>>
     IN  IF x \in v THEN [op |-> ent[x], done |-> x \in done] ELSE NoOp]
Program == SelectSeq(Places, LAMBDA e : e # NoOp)

W == INSTANCE Window WITH
       win <- [q |-> Program,
               cut |-> IF kill.v THEN Cardinality(v \ kill.kd) ELSE 0,
               left |-> IF kill.v THEN Cardinality(v \ walked) ELSE 0]

\* Read through its pointers and first columns, the ring of rows is a queue in
\* program order: ops retire oldest first and only when complete, a release drops
\* exactly the ops younger than the oldest branch named, and no step of the
\* pointers, of a row's rotation or of a kill loses, repeats or reorders an op.
ImplementsWindow == W!WSpec
=============================================================================
