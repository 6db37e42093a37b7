-------------------------------- MODULE Fifo --------------------------------
(* What a FIFO promises: a bounded queue, items out in the order they went in. *)
EXTENDS Naturals, Sequences

CONSTANTS Data,     \* what an item may be
          DEPTH     \* the most items it holds

VARIABLE buf

Push == Len(buf) < DEPTH /\ \E d \in Data : buf' = Append(buf, d)
Pop == buf # <<>> /\ buf' = Tail(buf)
PushPop == buf # <<>> /\ Len(buf) < DEPTH /\ \E d \in Data : buf' = Append(Tail(buf), d)
Clear == buf' = <<>>

FifoSpec == buf = <<>> /\ [][Push \/ Pop \/ PushPop \/ Clear]_buf
=============================================================================
