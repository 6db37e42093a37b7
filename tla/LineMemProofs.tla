--------------------------- MODULE LineMemProofs ----------------------------
(* The line port's safety, for any number of buffers and ids: LineInv is inductive, and   *)
(* what the port's run checks follows from it.                                            *)
EXTENDS LineMemSteps, WellFoundedInduction

\* Every non-empty set of naturals has a least element: the buffer a free-list scan picks.
LEMMA Least ==
  ASSUME NEW T, T \subseteq Nat, T # {}
  PROVE  Min(T) \in T
<1> DEFINE R == {ss \in Nat \X Nat : ss[1] < ss[2]}
<1>1. IsWellFoundedOn(R, Nat)
  BY NatLessThanWellFounded DEF OpToRel
<1>2. PICK x \in T : \A y \in T : <<y, x>> \notin R
  <2> HIDE DEF R
  <2> QED BY <1>1, WFMin, Zenon
<1>3. \A y \in T : x <= y
  <2>1. SUFFICES ASSUME NEW y \in T PROVE ~(y < x)
    OBVIOUS
  <2>2. <<y, x>> \in Nat \X Nat /\ <<y, x>> \notin R
    BY <1>2
  <2> QED BY <2>2
<1> QED BY <1>2, <1>3, Zenon DEF Min

\* The hypothesis of the step lemmas: a nonempty set of buffers has a lowest one.
LEMMA LeastsHold == Leasts
BY Least, Zenon DEF Leasts

\* LineInv is an invariant of the port between its neighbours, for every number of buffers and
\* of ids: a request in flight is in exactly one place and its id's beats have come as far as
\* that place says (src/ddr4_port_line.v:76-176).
THEOREM LineInvariant == MemSpec => []LineInv
<1>1. LineInv /\ [MemNext]_memVars => LineInv'
  <2> SUFFICES ASSUME LineInv, [MemNext]_memVars PROVE LineInv'
    OBVIOUS
  <2>0. Leasts
    BY LeastsHold
  <2>1. ASSUME NEW i \in Inputs, NEW nq \in Presented(i), MemTick(i, nq)
        PROVE  LineInv'
    <3>1. LineType' /\ OwnersExact' /\ ReadsPlaced'
      BY <2>0, <2>1, TypeStep, OwnersStep, ReadsStep
    <3>2. StreamPlaced' /\ WritesPlaced'
      BY <2>0, <2>1, StreamStep, WritesStep
    <3> QED BY <3>1, <3>2 DEF LineInv
  <2>2. CASE UNCHANGED memVars
    <3>1. /\ rbuf' = rbuf /\ wbuf' = wbuf /\ rq' = rq /\ sq' = sq /\ s_beat' = s_beat /\ r' = r
          /\ w_last' = w_last /\ wd' = wd /\ pq' = pq /\ user' = user /\ ctlr' = ctlr /\ ctlw' = ctlw
          /\ half' = half /\ wexp' = wexp
      BY <2>2 DEF memVars, portVars
    <3>2. LineType'
      BY <3>1 DEF LineInv, LineType
    <3>3. OwnersExact'
      BY <3>1 DEF LineInv, OwnersExact
    <3>4. ReadsPlaced'
      BY <3>1 DEF LineInv, ReadsPlaced
    <3>5. StreamPlaced'
      BY <3>1 DEF LineInv, StreamPlaced
    <3>6. WritesPlaced'
      BY <3>1 DEF LineInv, WritesPlaced
    <3> QED BY <3>2, <3>3, <3>4, <3>5, <3>6 DEF LineInv
  <2> QED BY <2>1, <2>2 DEF MemNext
<1> QED BY <1>1, Start, PTL DEF MemSpec

\* A beat handed to the caches is the one its id is owed next, of the line it asked for
\* (the output register, src/ddr4_port_line.v:137-155).
THEOREM LineStreams == MemSpec => []StreamExact
<1>1. LineInv => StreamExact
  BY DEF LineInv, StreamPlaced, StreamExact
<1> QED BY <1>1, LineInvariant, PTL

\* Every burst comes to a buffer that waits for exactly it, and no two requests in flight share
\* one (src/ddr4_port_line.v:157-165).
THEOREM LineBuffers == MemSpec => []BuffersExact
<1>1. LineInv => BuffersExact
  <2> SUFFICES ASSUME LineInv PROVE BuffersExact
    OBVIOUS
  <2>1. ctlw \in Seq(Writes)
    BY DEF LineInv, LineType, Writes
  <2>2. ASSUME NEW k \in DOMAIN ctlw
        PROVE  ctlw[k].buf \in WBuf
    <3>1. ctlw[k] \in Writes
      BY <2>1, Element
    <3> QED BY <3>1 DEF Writes
  <2>3. \A k \in DOMAIN ctlw : user[wbuf[ctlw[k].buf].id].st = "wr"
    BY <2>2 DEF LineInv, WritesPlaced, OwnersExact
  <2> QED BY <2>3 DEF LineInv, ReadsPlaced, WritesPlaced, BuffersExact
<1> QED BY <1>1, LineInvariant, PTL

\* The data handed over is the asked write's own, and a write's done goes back once, to the id
\* that wrote, when its data has gone (src/ddr4_port_line.v:116-134, 166-176).
THEOREM LineWrites == MemSpec => []WritesExact
<1>1. LineInv => WritesExact
  <2> SUFFICES ASSUME LineInv PROVE WritesExact
    OBVIOUS
  <2>1. \A j \in WBuf : wbuf[j].done => wbuf[j].busy
    BY DEF LineInv, WritesPlaced
  <2>2. \A j \in WBuf : wbuf[j].busy => user[wbuf[j].id].st = "wr"
    BY DEF LineInv, OwnersExact
  <2>3. \A k \in DOMAIN ctlw : ~wbuf[ctlw[k].buf].done
    BY DEF LineInv, WritesPlaced
  <2>4. wd = wexp
    BY DEF LineInv, WritesPlaced
  <2> QED BY <2>1, <2>2, <2>3, <2>4 DEF WritesExact, WriteDataExact, DonesExact
<1> QED BY <1>1, LineInvariant, PTL
=============================================================================
