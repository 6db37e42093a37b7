----------------------------- MODULE AsyncFifo ------------------------------
(***************************************************************************)
(* The two-clock FIFO (src/smolrv64_async_fifo.v), as simulated: a pointer *)
(* per side with a wrap bit above its index, each seen by the other side   *)
(* through two flops.  The clocks are unrelated: an edge of either, or of  *)
(* both at once, each reading what the other held before it.               *)
(***************************************************************************)
EXTENDS Naturals, Sequences

CONSTANTS Data, DEPTH

ASSUME AsyncFifoAssumption == DEPTH \in Nat \ {0}

VARIABLES fifo_mem, wr_ptr, rd_ptr,
          rd_ptr_w0, rd_ptr_w1,   \* rd_ptr as the write side sees it
          wr_ptr_r0, wr_ptr_r1,   \* wr_ptr as the read side sees it
          reset,                  \* held until both sides have had an edge under it
          seen                    \* the sides that have

writeVars == <<fifo_mem, wr_ptr, rd_ptr_w0, rd_ptr_w1>>
readVars == <<rd_ptr, wr_ptr_r0, wr_ptr_r1>>
fifoVars == <<writeVars, readVars, reset, seen>>

\* Pointers are modulo 2*DEPTH
Ptr == 0..2*DEPTH-1
Sub(a, b) == IF a >= b THEN a - b ELSE a + 2*DEPTH - b
Inc(a) == IF a = 2*DEPTH - 1 THEN 0 ELSE a + 1
Index(a) == IF a >= DEPTH THEN a - DEPTH ELSE a

wr_readyOver == Sub(wr_ptr, rd_ptr_w1) <= DEPTH     \* faulty: one item too many
wr_ready == Sub(wr_ptr, rd_ptr_w1) # DEPTH
rd_validAhead == wr_ptr_r1 # Inc(rd_ptr)            \* faulty: compares the next pointer
rd_valid == wr_ptr_r1 # rd_ptr
rd_data == fifo_mem[Index(rd_ptr)]

\* An edge of wr_clock; fire: the producer presents d and it is taken
WriteEdge(fire, d) ==
  IF reset
  THEN /\ ~fire /\ wr_ptr' = 0 /\ rd_ptr_w0' = 0 /\ rd_ptr_w1' = 0
       /\ UNCHANGED fifo_mem
  ELSE /\ fire => wr_ready
       /\ fifo_mem' = IF fire THEN [fifo_mem EXCEPT ![Index(wr_ptr)] = d] ELSE fifo_mem
       /\ wr_ptr' = IF fire THEN Inc(wr_ptr) ELSE wr_ptr
       /\ rd_ptr_w0' = rd_ptr /\ rd_ptr_w1' = rd_ptr_w0
ReadEdgeOneFlop(fire) ==    \* faulty: the second flop never takes the first's value
  IF reset
  THEN ~fire /\ rd_ptr' = 0 /\ wr_ptr_r0' = 0 /\ wr_ptr_r1' = 0
  ELSE /\ fire => rd_valid
       /\ rd_ptr' = IF fire THEN Inc(rd_ptr) ELSE rd_ptr
       /\ wr_ptr_r0' = wr_ptr /\ UNCHANGED wr_ptr_r1
\* An edge of rd_clock; fire: the consumer takes rd_data
ReadEdge(fire) ==
  IF reset
  THEN ~fire /\ rd_ptr' = 0 /\ wr_ptr_r0' = 0 /\ wr_ptr_r1' = 0
  ELSE /\ fire => rd_valid
       /\ rd_ptr' = IF fire THEN Inc(rd_ptr) ELSE rd_ptr
       /\ wr_ptr_r0' = wr_ptr /\ wr_ptr_r1' = wr_ptr_r0

Sees(side) == seen' = (IF reset THEN seen \cup side ELSE seen) /\ UNCHANGED reset
Write == /\ \E fire \in BOOLEAN, d \in Data : WriteEdge(fire, d)
         /\ Sees({"wr"}) /\ UNCHANGED readVars
Read == /\ \E fire \in BOOLEAN : ReadEdge(fire)
        /\ Sees({"rd"}) /\ UNCHANGED writeVars
Both == /\ \E wf \in BOOLEAN, rf \in BOOLEAN, d \in Data : WriteEdge(wf, d) /\ ReadEdge(rf)
        /\ Sees({"wr", "rd"})
AssertReset == ~reset /\ reset' = TRUE /\ seen' = {} /\ UNCHANGED <<writeVars, readVars>>
ReleaseReset == /\ reset /\ seen = {"wr", "rd"} /\ reset' = FALSE /\ seen' = {}
                /\ UNCHANGED <<writeVars, readVars>>

FifoInit ==
  /\ fifo_mem \in [0..DEPTH-1 -> Data]
  /\ wr_ptr = 0 /\ rd_ptr = 0 /\ rd_ptr_w0 = 0 /\ rd_ptr_w1 = 0
  /\ wr_ptr_r0 = 0 /\ wr_ptr_r1 = 0 /\ reset = FALSE /\ seen = {}
FifoNext == Write \/ Read \/ Both \/ AssertReset \/ ReleaseReset
AsyncFifoSpec == FifoInit /\ [][FifoNext]_fifoVars
\* both clocks run
LiveFifoSpec == AsyncFifoSpec /\ WF_fifoVars(Write) /\ WF_fifoVars(Read)

-----------------------------------------------------------------------------
FifoType ==
  /\ fifo_mem \in [0..DEPTH-1 -> Data]
  /\ wr_ptr \in Ptr /\ rd_ptr \in Ptr /\ rd_ptr_w0 \in Ptr /\ rd_ptr_w1 \in Ptr
  /\ wr_ptr_r0 \in Ptr /\ wr_ptr_r1 \in Ptr
  /\ reset \in BOOLEAN /\ seen \subseteq {"wr", "rd"}

\* From the write side's oldest view of the read pointer on, the six pointers follow
\* one another and span at most DEPTH: a stale pointer is only ever behind the real
\* one, so full and empty err to the safe side, whatever the clocks' phases and in the
\* presence of wrap-around (smolrv64_async_fifo.v:77-80, 88-89).
Conservative ==
  ~reset =>
    LET D(p) == Sub(p, rd_ptr_w1)
    IN  /\ D(rd_ptr_w0) <= D(rd_ptr) /\ D(rd_ptr) <= D(wr_ptr_r1)
        /\ D(wr_ptr_r1) <= D(wr_ptr_r0) /\ D(wr_ptr_r0) <= D(wr_ptr)
        /\ D(wr_ptr) <= DEPTH

\* A reset both sides have seen leaves every pointer zero, whichever side saw it first
\* and whatever the other did meanwhile.
ResetsBoth ==
  /\ reset /\ "wr" \in seen => wr_ptr = 0 /\ rd_ptr_w0 = 0 /\ rd_ptr_w1 = 0
  /\ reset /\ "rd" \in seen => rd_ptr = 0 /\ wr_ptr_r0 = 0 /\ wr_ptr_r1 = 0

\* The inductive invariant: the pointers keep their ranges and their order, and a reset
\* clears them on each side as that side sees it (smolrv64_async_fifo.v:88-104).
FifoInv == FifoType /\ Conservative /\ ResetsBoth

\* Every item becomes visible to the reader and every freed place to the writer: the
\* pointers' views catch up however the edges fall.
ViewsCatchUp ==
  /\ (~reset /\ wr_ptr # rd_ptr) ~> (rd_valid \/ reset)
  /\ (~reset /\ Sub(wr_ptr, rd_ptr) < DEPTH) ~> (wr_ready \/ reset)

\* What is between the pointers, oldest first; nothing while reset is held
Add(a, n) == IF a + n >= 2*DEPTH THEN a + n - 2*DEPTH ELSE a + n
Between(mem, a, w) == [n \in 1..Sub(w, a) |-> mem[Index(Add(a, n - 1))]]
Contents == IF reset THEN <<>> ELSE Between(fifo_mem, rd_ptr, wr_ptr)

F == INSTANCE Fifo WITH buf <- Contents
\* The FIFO delivers what went in, in order, once each, and never holds more than DEPTH.
ImplementsFifo == F!FifoSpec
=============================================================================
