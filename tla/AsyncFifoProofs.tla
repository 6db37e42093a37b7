-------------------------- MODULE AsyncFifoProofs ---------------------------
(* The two-clock FIFO for every DEPTH and every set of items.               *)
EXTENDS AsyncFifo, TLAPS

\* FifoInv is inductive: the order of the pointers out of reset, and under reset that
\* a side which has seen it is clear, so that both are when it ends.

\* Pointer arithmetic modulo 2*DEPTH: a view that is behind stays behind when the
\* pointer it follows moves on.
LEMMA PointerArithmetic ==
  ASSUME NEW a \in Ptr, NEW b \in Ptr
  PROVE  /\ Inc(a) \in Ptr /\ Sub(a, b) \in Ptr
         /\ Sub(b, a) < 2*DEPTH - 1 => Sub(Inc(b), a) = Sub(b, a) + 1
         /\ Sub(a, a) = 0 /\ (Sub(a, b) = 0 => a = b)
BY AsyncFifoAssumption DEF Ptr, Inc, Sub

\* Moving the origin of the distances from a to b, which is no farther than p
LEMMA Rebase ==
  ASSUME NEW a \in Ptr, NEW b \in Ptr, NEW p \in Ptr, Sub(b, a) <= Sub(p, a)
  PROVE  Sub(p, b) = Sub(p, a) - Sub(b, a)
BY AsyncFifoAssumption DEF Ptr, Sub

\* The invariant holds at power-on: all the pointers and views are equal.
LEMMA InitInv == FifoInit => FifoInv
<1> SUFFICES ASSUME FifoInit PROVE FifoInv
  OBVIOUS
<1>1. FifoType
  <2>1. 0 \in Ptr
    BY AsyncFifoAssumption DEF Ptr
  <2> QED
    BY <2>1, Zenon DEF FifoInit, FifoType
<1>2. Conservative
  BY AsyncFifoAssumption DEF FifoInit, Conservative, Sub
<1>3. ResetsBoth
  BY DEF FifoInit, ResetsBoth
<1> QED
  BY <1>1, <1>2, <1>3 DEF FifoInv

\* An edge of either clock, or of both, out of reset
LEMMA EdgeOrder ==
  ASSUME FifoInv, ~reset, ~reset',
         \/ \E f \in BOOLEAN, d \in Data : WriteEdge(f, d) /\ UNCHANGED readVars
         \/ \E f \in BOOLEAN : ReadEdge(f) /\ UNCHANGED writeVars
         \/ \E f \in BOOLEAN, g \in BOOLEAN, d \in Data : WriteEdge(f, d) /\ ReadEdge(g)
  PROVE  Conservative'
<1> DEFINE D(p) == Sub(p, rd_ptr_w1)
<1>1. /\ wr_ptr \in Ptr /\ rd_ptr \in Ptr /\ rd_ptr_w0 \in Ptr /\ rd_ptr_w1 \in Ptr
      /\ wr_ptr_r0 \in Ptr /\ wr_ptr_r1 \in Ptr
  BY DEF FifoInv, FifoType
<1>2. /\ D(rd_ptr_w0) <= D(rd_ptr) /\ D(rd_ptr) <= D(wr_ptr_r1)
      /\ D(wr_ptr_r1) <= D(wr_ptr_r0) /\ D(wr_ptr_r0) <= D(wr_ptr)
      /\ D(wr_ptr) <= DEPTH
  BY DEF FifoInv, Conservative
<1>3. /\ rd_ptr' \in {rd_ptr, Inc(rd_ptr)} /\ (rd_ptr' # rd_ptr => wr_ptr_r1 # rd_ptr)
      /\ wr_ptr' \in {wr_ptr, Inc(wr_ptr)} /\ (wr_ptr' # wr_ptr => D(wr_ptr) # DEPTH)
      /\ \/ rd_ptr_w1' = rd_ptr_w0 /\ rd_ptr_w0' = rd_ptr
         \/ rd_ptr_w1' = rd_ptr_w1 /\ rd_ptr_w0' = rd_ptr_w0
      /\ \/ wr_ptr_r1' = wr_ptr_r0 /\ wr_ptr_r0' = wr_ptr
         \/ wr_ptr_r1' = wr_ptr_r1 /\ wr_ptr_r0' = wr_ptr_r0
  BY DEF WriteEdge, ReadEdge, writeVars, readVars, wr_ready, rd_valid
\* with the distances still from the old view
<1>4. /\ D(rd_ptr_w0') <= D(rd_ptr') /\ D(rd_ptr') <= D(wr_ptr_r1')
      /\ D(wr_ptr_r1') <= D(wr_ptr_r0') /\ D(wr_ptr_r0') <= D(wr_ptr')
      /\ D(wr_ptr') <= DEPTH /\ D(rd_ptr_w1') <= D(rd_ptr_w0')
      /\ wr_ptr' \in Ptr /\ rd_ptr' \in Ptr /\ rd_ptr_w0' \in Ptr /\ rd_ptr_w1' \in Ptr
      /\ wr_ptr_r0' \in Ptr /\ wr_ptr_r1' \in Ptr
  <2>1. /\ Inc(rd_ptr) \in Ptr /\ Inc(wr_ptr) \in Ptr
        /\ D(rd_ptr) < 2*DEPTH - 1 => D(Inc(rd_ptr)) = D(rd_ptr) + 1
        /\ D(wr_ptr) < 2*DEPTH - 1 => D(Inc(wr_ptr)) = D(wr_ptr) + 1
        /\ D(rd_ptr_w1) = 0
    BY <1>1, PointerArithmetic
  <2>2. \A p \in Ptr : D(p) \in Nat
    BY <1>1, AsyncFifoAssumption DEF Ptr, Sub
  <2>3. wr_ptr_r1 # rd_ptr => D(wr_ptr_r1) # D(rd_ptr)
    BY <1>1, AsyncFifoAssumption DEF Ptr, Sub
  <2>4. D(rd_ptr_w1) <= D(rd_ptr_w0)
    BY <1>1, <2>1, <2>2
  <2> HIDE DEF D
  <2> QED
    BY <1>1, <1>2, <1>3, <2>1, <2>2, <2>3, <2>4, AsyncFifoAssumption
<1>5. \A p \in Ptr : D(rd_ptr_w1') <= D(p) => Sub(p, rd_ptr_w1') = D(p) - D(rd_ptr_w1')
  BY <1>1, <1>4, Rebase
<1>6. \A p \in Ptr : D(p) \in Nat
  BY <1>1, AsyncFifoAssumption DEF Ptr, Sub
<1> QED
  BY <1>1, <1>4, <1>5, <1>6, AsyncFifoAssumption DEF Conservative

\* Every edge of either clock, and of the reset, keeps the invariant.
LEMMA NextInv == FifoInv /\ [FifoNext]_fifoVars => FifoInv'
<1> SUFFICES ASSUME FifoInv, [FifoNext]_fifoVars PROVE FifoInv'
  OBVIOUS
<1>1. FifoType'
  <2> USE AsyncFifoAssumption DEF FifoInv, FifoType, Ptr, Inc, Index
  <2>1. CASE Write
    BY <2>1 DEF Write, WriteEdge, Sees, readVars
  <2>2. CASE Read
    BY <2>2 DEF Read, ReadEdge, Sees, writeVars
  <2>3. CASE Both
    BY <2>3 DEF Both, WriteEdge, ReadEdge, Sees
  <2>4. CASE AssertReset \/ ReleaseReset \/ UNCHANGED fifoVars
    BY <2>4 DEF AssertReset, ReleaseReset, fifoVars, writeVars, readVars
  <2> QED
    BY <2>1, <2>2, <2>3, <2>4 DEF FifoNext
<1>2. ResetsBoth'
  BY DEF FifoInv, FifoType, ResetsBoth, FifoNext, Write, Read, Both, WriteEdge, ReadEdge,
         Sees, AssertReset, ReleaseReset, fifoVars, writeVars, readVars
<1>3. Conservative'
  <2>1. CASE Write \/ Read \/ Both
    <3>1. CASE reset
      BY <2>1, <3>1 DEF Write, Read, Both, Sees, Conservative
    <3>2. CASE ~reset
      BY <2>1, <3>2, EdgeOrder DEF Write, Read, Both, Sees
    <3> QED
      BY <3>1, <3>2
  <2>2. CASE AssertReset
    BY <2>2 DEF AssertReset, Conservative
  <2>3. CASE ReleaseReset
    BY <2>3, AsyncFifoAssumption DEF ReleaseReset, Conservative, FifoInv, ResetsBoth, Sub, writeVars, readVars
  <2>4. CASE UNCHANGED fifoVars
    BY <2>4 DEF fifoVars, writeVars, readVars, Conservative, FifoInv, Sub
  <2> QED
    BY <2>1, <2>2, <2>3, <2>4 DEF FifoNext
<1> QED
  BY <1>1, <1>2, <1>3 DEF FifoInv

\* The pointers stay in their ranges and in order, whatever the phases of the clocks:
\* the FIFO never overflows and never delivers what was not written
\* (smolrv64_async_fifo.v:88-104).
THEOREM FifoSafe == AsyncFifoSpec => []FifoInv
BY InitInv, NextInv, PTL DEF AsyncFifoSpec

-----------------------------------------------------------------------------
\* Where the items are: within DEPTH of a, places do not collide
LEMMA Places ==
  ASSUME NEW a \in Ptr, NEW w \in Ptr, Sub(w, a) <= DEPTH
  PROVE  /\ \A n \in 1..DEPTH : Index(Add(a, n - 1)) \in 0..DEPTH-1
         /\ Index(w) \in 0..DEPTH-1
         /\ Sub(w, a) < DEPTH =>
              \A n \in 1..Sub(w, a) : Index(Add(a, n - 1)) # Index(w)
         /\ Add(a, Sub(w, a)) = w
         /\ \A n \in 1..DEPTH : Add(Inc(a), n - 1) = Add(a, n)
         /\ Add(a, 0) = a
         /\ Sub(w, a) \in 0..DEPTH
         /\ Sub(w, a) < DEPTH => Sub(Inc(w), a) = Sub(w, a) + 1
         /\ w # a => Sub(w, a) > 0 /\ Sub(w, Inc(a)) = Sub(w, a) - 1
BY AsyncFifoAssumption DEF Ptr, Sub, Inc, Index, Add

\* The occupancy the pointers themselves show, and what the two sides' views say of it
LEMMA Occupancy ==
  ASSUME FifoInv, ~reset
  PROVE  /\ Sub(wr_ptr, rd_ptr) <= DEPTH
         /\ wr_ready => Sub(wr_ptr, rd_ptr) < DEPTH
         /\ rd_valid => wr_ptr # rd_ptr
<1> DEFINE D(p) == Sub(p, rd_ptr_w1)
<1>1. /\ wr_ptr \in Ptr /\ rd_ptr \in Ptr /\ rd_ptr_w1 \in Ptr
      /\ wr_ptr_r0 \in Ptr /\ wr_ptr_r1 \in Ptr
  BY DEF FifoInv, FifoType
<1>2. \A p \in Ptr : D(p) \in Nat
  BY <1>1, AsyncFifoAssumption DEF Ptr, Sub
<1>3. /\ D(rd_ptr) <= D(wr_ptr_r1) /\ D(wr_ptr_r1) <= D(wr_ptr) /\ D(wr_ptr) <= DEPTH
  BY <1>1, <1>2 DEF FifoInv, Conservative
<1>4. Sub(wr_ptr, rd_ptr) = D(wr_ptr) - D(rd_ptr)
  BY <1>1, <1>2, <1>3, Rebase
<1>5. rd_valid => D(wr_ptr_r1) # D(rd_ptr)
  BY <1>1, AsyncFifoAssumption DEF rd_valid, Ptr, Sub
<1>6. wr_ready => D(wr_ptr) # DEPTH
  BY DEF wr_ready
<1> HIDE DEF D
<1> QED
  BY <1>1, <1>2, <1>3, <1>4, <1>5, <1>6, AsyncFifoAssumption

\* What the two ends do to the contents
LEMMA BetweenType ==
  ASSUME NEW mem \in [0..DEPTH-1 -> Data], NEW a \in Ptr, NEW w \in Ptr, Sub(w, a) <= DEPTH
  PROVE  /\ Between(mem, a, w) \in Seq(Data) /\ Len(Between(mem, a, w)) = Sub(w, a)
         /\ \A n \in 1..Sub(w, a) : Between(mem, a, w)[n] = mem[Index(Add(a, n - 1))]
<1> DEFINE m == Sub(w, a)
           c == Between(mem, a, w)
<1>1. m \in Nat
  BY Places, AsyncFifoAssumption
<1>2. \A n \in 1..m : mem[Index(Add(a, n - 1))] \in Data
  BY <1>1, Places, AsyncFifoAssumption
<1>3. c \in [1..m -> Data]
  BY <1>2 DEF Between
<1>4. \A n \in 1..m : c[n] = mem[Index(Add(a, n - 1))]
  BY DEF Between
<1> HIDE DEF m, c
<1>5. c \in Seq(Data) /\ Len(c) = m
  BY <1>1, <1>3
<1> QED
  BY <1>4, <1>5 DEF m, c

\* A write into a slot that is not in use appends to the contents between the pointers.
LEMMA WriteAppends ==
  ASSUME NEW mem \in [0..DEPTH-1 -> Data], NEW a \in Ptr, NEW w \in Ptr, Sub(w, a) < DEPTH,
         NEW d \in Data
  PROVE  Between([mem EXCEPT ![Index(w)] = d], a, Inc(w)) = Append(Between(mem, a, w), d)
<1> DEFINE m == Sub(w, a)
           mem2 == [mem EXCEPT ![Index(w)] = d]
           c == Between(mem, a, w)
           e == Between(mem2, a, Inc(w))
<1>0. m \in Nat /\ m < DEPTH /\ m <= DEPTH
  BY AsyncFifoAssumption DEF Ptr, Sub
<1>1. /\ m \in Nat /\ m < DEPTH /\ Sub(Inc(w), a) = m + 1 /\ Inc(w) \in Ptr
      /\ Index(w) \in 0..DEPTH-1
  BY <1>0, Places, PointerArithmetic
<1>2. mem2 \in [0..DEPTH-1 -> Data]
  OBVIOUS
<1>3. /\ c \in Seq(Data) /\ Len(c) = m
      /\ \A n \in 1..m : c[n] = mem[Index(Add(a, n - 1))]
  BY <1>1, BetweenType, AsyncFifoAssumption
<1>4. /\ e \in Seq(Data) /\ Len(e) = m + 1
      /\ \A n \in 1..m+1 : e[n] = mem2[Index(Add(a, n - 1))]
  <2>1. Sub(Inc(w), a) <= DEPTH
    BY <1>1, AsyncFifoAssumption
  <2> HIDE DEF mem2
  <2>2. /\ e \in Seq(Data) /\ Len(e) = Sub(Inc(w), a)
        /\ \A n \in 1..Sub(Inc(w), a) : e[n] = mem2[Index(Add(a, n - 1))]
    BY <1>1, <1>2, <2>1, BetweenType
  <2> QED
    BY <1>1, <2>2
<1>5. \A n \in 1..m : e[n] = c[n]
  <2> TAKE n \in 1..m
  <2>1. Index(Add(a, n - 1)) # Index(w) /\ Index(Add(a, n - 1)) \in 0..DEPTH-1
    BY <1>0, Places, AsyncFifoAssumption
  <2>2. mem2[Index(Add(a, n - 1))] = mem[Index(Add(a, n - 1))]
    BY <2>1
  <2> HIDE DEF m, mem2, c, e
  <2> QED
    BY <1>0, <1>3, <1>4, <2>2
<1>6. e[m + 1] = d
  <2>1. Add(a, (m + 1) - 1) = w
    BY <1>0, Places, AsyncFifoAssumption
  <2>2. e[m + 1] = mem2[Index(w)]
    <3> HIDE DEF m, mem2, e
    <3> QED
      BY <1>0, <1>4, <2>1
  <2> QED
    BY <1>1, <2>2
<1> HIDE DEF m, mem2, c, e
<1>7. e = Append(c, d)
  BY <1>1, <1>3, <1>4, <1>5, <1>6
<1> QED
  BY <1>7 DEF mem2, c, e

\* Moving the read pointer on removes the first of the contents.
LEMMA ReadRemoves ==
  ASSUME NEW mem \in [0..DEPTH-1 -> Data], NEW a \in Ptr, NEW w \in Ptr, Sub(w, a) <= DEPTH,
         w # a
  PROVE  Between(mem, a, w) # <<>> /\ Between(mem, Inc(a), w) = Tail(Between(mem, a, w))
<1> DEFINE m == Sub(w, a)
           c == Between(mem, a, w)
           e == Between(mem, Inc(a), w)
<1>1. m \in 1..DEPTH /\ Sub(w, Inc(a)) = m - 1 /\ Inc(a) \in Ptr
  BY Places, PointerArithmetic, AsyncFifoAssumption
<1>2. /\ c \in Seq(Data) /\ Len(c) = m
      /\ \A n \in 1..m : c[n] = mem[Index(Add(a, n - 1))]
  BY BetweenType
<1>3. /\ e \in Seq(Data) /\ Len(e) = m - 1
      /\ \A n \in 1..m-1 : e[n] = mem[Index(Add(Inc(a), n - 1))]
  BY <1>1, BetweenType, AsyncFifoAssumption
<1>4. \A n \in 1..m-1 : e[n] = c[n + 1]
  <2> TAKE n \in 1..m-1
  <2>1. Add(Inc(a), n - 1) = Add(a, (n + 1) - 1)
    BY <1>1, Places, AsyncFifoAssumption
  <2> QED
    BY <1>1, <1>2, <1>3, <2>1, AsyncFifoAssumption
<1> HIDE DEF m, c, e
<1>5. c # <<>> /\ e = Tail(c)
  BY <1>1, <1>2, <1>3, <1>4, AsyncFifoAssumption
<1> QED
  BY <1>5 DEF c, e

\* The two-clock FIFO is a FIFO: every step is a push, a pop, both, the clearing by a
\* reset, or none of them.
THEOREM FifoImplements == AsyncFifoSpec => ImplementsFifo
<1>1. FifoInit => Contents = <<>>
  <2> SUFFICES ASSUME FifoInit PROVE Contents = <<>>
    OBVIOUS
  <2>1. Sub(wr_ptr, rd_ptr) = 0
    BY AsyncFifoAssumption DEF FifoInit, Sub
  <2> QED
    BY <2>1 DEF Contents, Between
<1>2. FifoInv /\ FifoInv' /\ [FifoNext]_fifoVars =>
        [F!Push \/ F!Pop \/ F!PushPop \/ F!Clear]_Contents
  <2> SUFFICES ASSUME FifoInv, FifoInv', [FifoNext]_fifoVars
               PROVE  Contents' = Contents \/ F!Push \/ F!Pop \/ F!PushPop \/ F!Clear
    OBVIOUS
  <2>1. CASE reset'
    BY <2>1 DEF Contents, F!Clear
  <2>2. CASE UNCHANGED fifoVars
    BY <2>2 DEF fifoVars, writeVars, readVars, Contents
  <2>3. CASE ReleaseReset
    <3>1. ~reset' /\ wr_ptr' = 0 /\ rd_ptr' = 0
      BY <2>3 DEF ReleaseReset, FifoInv, ResetsBoth, writeVars, readVars
    <3>2. Sub(wr_ptr', rd_ptr') = 0
      BY <3>1, AsyncFifoAssumption DEF Sub
    <3> QED
      BY <3>1, <3>2 DEF Contents, Between, F!Clear
  <2>4. ASSUME Write \/ Read \/ Both, ~reset'
        PROVE  Contents' = Contents \/ F!Push \/ F!Pop \/ F!PushPop
    <3> DEFINE a == rd_ptr
               w == wr_ptr
    <3>1. ~reset
      BY <2>4 DEF Write, Read, Both, Sees
    <3>2. /\ fifo_mem \in [0..DEPTH-1 -> Data] /\ a \in Ptr /\ w \in Ptr
          /\ Inc(w) \in Ptr /\ Sub(w, a) \in 0..DEPTH
      BY <3>1, Occupancy, Places, PointerArithmetic DEF FifoInv, FifoType
    <3>3. Contents = Between(fifo_mem, a, w) /\ Contents' = Between(fifo_mem', rd_ptr', wr_ptr')
      BY <2>4, <3>1 DEF Contents
    <3>4. Contents \in Seq(Data) /\ Len(Contents) = Sub(w, a)
      BY <3>2, <3>3, BetweenType, AsyncFifoAssumption
    <3>5. /\ \/ wr_ptr' = w /\ fifo_mem' = fifo_mem
             \/ /\ wr_ptr' = Inc(w) /\ Sub(w, a) < DEPTH
                /\ \E d \in Data : fifo_mem' = [fifo_mem EXCEPT ![Index(w)] = d]
          /\ \/ rd_ptr' = a
             \/ rd_ptr' = Inc(a) /\ w # a
      BY <2>4, <3>1, Occupancy DEF Write, Read, Both, WriteEdge, ReadEdge, writeVars, readVars
    <3>6. CASE wr_ptr' = w /\ fifo_mem' = fifo_mem
      <4>1. CASE rd_ptr' = a
        BY <3>3, <3>6, <4>1
      <4>2. CASE rd_ptr' = Inc(a) /\ w # a
        BY <3>2, <3>3, <3>6, <4>2, ReadRemoves DEF F!Pop
      <4> QED
        BY <3>5, <4>1, <4>2
    <3>7. ASSUME NEW d \in Data, wr_ptr' = Inc(w), Sub(w, a) < DEPTH,
                 fifo_mem' = [fifo_mem EXCEPT ![Index(w)] = d]
          PROVE  Contents' = Contents \/ F!Push \/ F!Pop \/ F!PushPop
      <4>1. Between(fifo_mem', a, Inc(w)) = Append(Contents, d)
        BY <3>2, <3>3, <3>7, WriteAppends
      <4>2. CASE rd_ptr' = a
        BY <3>3, <3>4, <3>7, <4>1, <4>2 DEF F!Push
      <4>3. CASE rd_ptr' = Inc(a) /\ w # a
        <5>1. Contents # <<>>
          BY <3>2, <3>3, <4>3, ReadRemoves
        <5>2. /\ fifo_mem' \in [0..DEPTH-1 -> Data] /\ Inc(w) # a /\ Sub(Inc(w), a) <= DEPTH
          BY <3>2, <3>7, Places, AsyncFifoAssumption DEF Ptr, Sub, Inc
        <5>3. Contents' = Tail(Append(Contents, d))
          <6>1. Between(fifo_mem', Inc(a), Inc(w)) = Tail(Between(fifo_mem', a, Inc(w)))
            BY <3>2, <5>2, ReadRemoves
          <6> QED
            BY <3>3, <3>7, <4>1, <4>3, <6>1
        <5>4. Tail(Append(Contents, d)) = Append(Tail(Contents), d)
          BY <3>4, <5>1
        <5> QED
          BY <3>4, <3>7, <5>1, <5>3, <5>4 DEF F!PushPop
      <4> QED
        BY <3>5, <4>2, <4>3
    <3> QED
      BY <3>5, <3>6, <3>7
  <2> QED
    BY <2>1, <2>2, <2>3, <2>4 DEF FifoNext, AssertReset
<1>3. AsyncFifoSpec => []FifoInv
  BY InitInv, NextInv, PTL DEF AsyncFifoSpec
<1> QED
  BY <1>1, <1>2, <1>3, PTL DEF AsyncFifoSpec, ImplementsFifo, F!FifoSpec
=============================================================================
