-------------------------------- MODULE Rob --------------------------------
(***************************************************************************)
(* The reorder buffer (core/smolrv64_rob.v): ROWS rows of IW columns, a    *)
(* dispatch group per row, lane k's op in column k.  A group starts at any *)
(* column fc and runs cyclically, so a row's position p, its program       *)
(* order, is column (fc + p) % IW.                                         *)
(*                                                                         *)
(* One RobTick is one clock edge: every input of the cycle is a field of   *)
(* the record i, and every register takes its next value at once.          *)
(*                                                                         *)
(* A row with its ring-wrap bit is a number below 2*ROWS; a position is    *)
(* [r |-> such a row, p |-> position].  A tag {row, wrap, column} is       *)
(* [row |-> row, wc |-> fc + p]: wrap * IW + column is fc + p.             *)
(***************************************************************************)
EXTENDS Geom, Sequences, FiniteSets, FiniteSetsExt

CONSTANTS ROWS,     \* rows of storage
          CAP,      \* rows the buffer fills
          Ops,      \* what an entry records: {pold, noret, rd, prd}
          Writes    \* the ops that write a register (prd # 0)

ASSUME RobAssumption ==
  /\ ROWS \in Nat \ {0, 1} /\ CAP \in 1..ROWS
  /\ Writes \subseteq Ops

VARIABLES ent,      \* the live entries' records: its DOMAIN is the valid bits v
          done,     \* the live entries that have completed
          head, tail, irr,   \* oldest; next row to fill; first not settled
          fc,       \* each row's first column
          hfc, ifc, \* registered copies of fc for head's and irr's rows
          wl,       \* the walk: [run, fin, row, fc, lim]
          k,        \* the branch walked to: [row, p, wc]
          kill,     \* the kill: [v, kd, kh, kb]
          walked    \* history: the entries this kill's walk has passed so far

robVars == <<ent, done, head, tail, irr, fc, hfc, ifc, wl, k, kill, walked>>

Row == 0..ROWS-1
RRow == 0..2*ROWS-1
Col == 0..IW-1
Pos == Col
Slot == Row \X Col
Tag == [row : Row, wc : 0..2*IW-2]

RAdd(a, b) == IF a + b >= 2*ROWS THEN a + b - 2*ROWS ELSE a + b
RowOf(R) == IF R >= ROWS THEN R - ROWS ELSE R
RInc(R) == IF R = 2*ROWS - 1 THEN 0 ELSE R + 1
RSub(a, b) == IF a >= b THEN a - b ELSE a + 2*ROWS - b
RowInc(r) == IF r = ROWS - 1 THEN 0 ELSE r + 1
RowDec(r) == IF r = 0 THEN ROWS - 1 ELSE r - 1
RowSub(a, b) == IF a >= b THEN a - b ELSE a + ROWS - b

col_of(f, p) == IF f + p >= IW THEN f + p - IW ELSE f + p
tag_of(r, f, p) == [row |-> r, wc |-> f + p]
six(t) == <<t.row, IF t.wc >= IW THEN t.wc - IW ELSE t.wc>>
pos_of(f, wc) == wc - f
WrapCol(f, c) == IF c < f THEN IW + c ELSE c

\* a is before b on the ring: b - a is not 0 and below half the space
Behind(a, b) ==
  LET d == RSub(b.r, a.r)
  IN  IF d = 0 THEN a.p < b.p ELSE d < ROWS \/ (d = ROWS /\ b.p < a.p)

-----------------------------------------------------------------------------
v == DOMAIN ent
hrow == RowOf(head.r)
trow == RowOf(tail)
irow == RowOf(irr.r)
occ == RSub(tail, head.r)
ready == occ < CAP
tailPos == [r |-> tail, p |-> 0]
empty == head = tailPos
head_idx == tag_of(hrow, hfc, head.p)
irr_v == irr # tailPos
irr_idx == tag_of(irow, ifc, irr.p)
wl_done(i) == wl.fin /\ ~wl.run /\ i.k = {}

\* the kill tested as a position (smolrv64_kill.vh): farther from kh than kb
TagNum(t) == t.row * 2 * IW + t.wc
TagSpace == ROWS * 2 * IW
kdeadWithBranch(t) ==     \* faulty: the branch kills itself
  kill.v /\ (LET n == TagNum(t) IN
    (IF n >= kill.kh THEN n - kill.kh ELSE n + TagSpace - kill.kh) >= kill.kb)
kdead(t) ==
  /\ kill.v
  /\ LET n == TagNum(t) IN
     (IF n >= kill.kh THEN n - kill.kh ELSE n + TagSpace - kill.kh) > kill.kb

\* the tag of a live entry
TagOf(x) == [row |-> x[1], wc |-> WrapCol(fc[x[1]], x[2])]
\* a live entry's position on the ring
EntPos(x) == [r |-> RAdd(head.r, RowSub(x[1], hrow)),
              p |-> pos_of(fc[x[1]], TagOf(x).wc)]

-----------------------------------------------------------------------------
(* The cycle's inputs: a group d = [fc, ops] (ops empty: none), completing  *)
(* tags w with those on the forwarding port fwd, h_fin, c_kill (positions), *)
(* c_hold, flush, rp (the tag of the load flagged for replay, or none),     *)
(* rp_all, k (the tag of a mispredicted branch, or none) and rel.           *)
NoGroup == [fc |-> 0, ops |-> <<>>]
DoAlloc(d) == d.ops # <<>> /\ ready
Alloc(d) == IF DoAlloc(d) THEN {<<trow, col_of(d.fc, p)>> : p \in 0..Len(d.ops)-1} ELSE {}
DOp(d, x) == d.ops[(IF x[2] >= d.fc THEN x[2] - d.fc ELSE x[2] + IW - d.fc) + 1]

\* ---- commit: position p of the head row on port p
hsx(p) == <<hrow, col_of(hfc, p)>>
head_done(i) == hsx(head.p) \in v /\ ((hsx(head.p) \in done /\ ~i.c_hold) \/ i.h_fin)
Retires(i, p) ==
  IF p = head.p THEN head_done(i) /\ p \notin i.c_kill
  ELSE /\ hsx(p) \in v /\ hsx(p) \in done
       /\ p \notin i.c_kill /\ ~i.c_hold /\ ~i.flush
cvUnordered(i) == {p \in Pos : p >= head.p /\ Retires(i, p)}   \* faulty: past one that waits
cv(i) == {p \in Pos : p >= head.p /\ \A q \in head.p..p : Retires(i, q)}
next_pos(p) ==
  IF p # IW - 1 /\ hsx(p + 1) \in v THEN [r |-> head.r, p |-> p + 1]
                                     ELSE [r |-> RInc(head.r), p |-> 0]
head_n(c) == IF c = {} THEN head ELSE next_pos(Max(c))      \* c: the positions committing
flush_pos(hn) == IF hn.p = 0 THEN hn ELSE [r |-> RInc(hn.r), p |-> 0]

\* ---- the irrevocable pointer: a row a cycle, to the first not settled
ir_wait(i) == {p \in Pos :
  LET x == <<irow, col_of(ifc, p)>>
  IN  /\ p >= irr.p /\ x \in v
      /\ \/ x \notin done /\ x \notin {six(t) : t \in i.fwd}
         \/ x \in {six(t) : t \in i.rp}}
irr_step(i) ==
  IF ~irr_v \/ i.rp_all THEN irr
  ELSE IF ir_wait(i) # {} THEN [r |-> irr.r, p |-> Min(ir_wait(i))]
  ELSE [r |-> RInc(irr.r), p |-> 0]

\* ---- the registered first columns follow the head (to) and irr (st)
FcAfter(d, row) == IF DoAlloc(d) /\ row = trow THEN d.fc ELSE fc[row]
KeepFcStale(d, row, old) == old     \* faulty: misses a group entering the row
KeepFc(d, row, old) == IF DoAlloc(d) /\ row = trow THEN d.fc ELSE old
hfc_n(d, to) == IF to.r # head.r THEN FcAfter(d, RowInc(hrow)) ELSE KeepFc(d, hrow, hfc)
ifc_n(d, st) == IF st.r # irr.r THEN FcAfter(d, RowInc(irow)) ELSE KeepFc(d, irow, ifc)

-----------------------------------------------------------------------------
WalkSlotsWithBranch ==      \* faulty: undoes the branch too
  {<<wl.row, col_of(wl.fc, p)>> :
     p \in {p \in Pos : wl.run /\ p < wl.lim /\ (wl.row # k.row \/ p >= k.p)}} \cap v
\* ---- the walk, from the tail back to the branch, a row a cycle
WalkSlots ==
  {<<wl.row, col_of(wl.fc, p)>> :
     p \in {p \in Pos : wl.run /\ p < wl.lim /\ (wl.row # k.row \/ p > k.p)}} \cap v
wl_v == {x \in WalkSlots : ent[x] \in Writes}

\* Registers the code leaves stale, and does not read, when no kill is in force
NoWalk == [run |-> FALSE, fin |-> FALSE, row |-> 0, fc |-> 0, lim |-> 0]
NoBranch == [row |-> 0, p |-> 0, wc |-> 0]
NoKill == [v |-> FALSE, kd |-> {}, kh |-> 0, kb |-> 0]
Ends(i) == i.flush \/ i.rel
NewBranch(i) == CHOOSE t \in i.k : TRUE

WalkStep ==       \* the walk's own step, before a new branch is named
  IF ~wl.run THEN wl
  ELSE IF wl.row = k.row THEN [wl EXCEPT !.run = FALSE, !.fin = TRUE, !.lim = k.p + 1]
  ELSE [wl EXCEPT !.row = RowDec(wl.row), !.fc = fc[RowDec(wl.row)], !.lim = IW]
wl_n(i) ==
  IF Ends(i) THEN NoWalk
  ELSE IF i.k = {} THEN WalkStep
  ELSE IF wl.run \/ wl.fin THEN [WalkStep EXCEPT !.run = TRUE]
  ELSE [run |-> TRUE, fin |-> FALSE, row |-> RowDec(trow),
        fc |-> fc[RowDec(trow)], lim |-> IW]
k_n(i) ==
  IF Ends(i) THEN NoBranch
  ELSE IF i.k = {} THEN k
  ELSE LET b == NewBranch(i)
       IN  [row |-> b.row, p |-> pos_of(fc[b.row], b.wc), wc |-> b.wc]

kd_nByColumn(b) == {x \in Slot :  \* faulty: compares columns, not positions
  RowSub(x[1], hrow) > RowSub(b.row, hrow) \/ (x[1] = b.row /\ x[2] > six(b)[2])}
\* ---- the kill: everything younger than the branch
kd_n(b) == {x \in Slot :
  \/ RowSub(x[1], hrow) > RowSub(b.row, hrow)
  \/ x[1] = b.row /\ WrapCol(fc[b.row], x[2]) > b.wc}
kill_n(i) ==
  IF Ends(i) THEN NoKill
  ELSE IF i.k = {} THEN kill
  ELSE LET b == NewBranch(i)
       IN  [v |-> TRUE, kd |-> kd_n(b), kh |-> hrow * 2 * IW,
            kb |-> RowSub(b.row, hrow) * 2 * IW + b.wc]

-----------------------------------------------------------------------------
tail_nNoWrap(i) ==          \* faulty: the ring does not wrap
  IF DoAlloc(i.d) THEN tail + 1 ELSE tail
tail_n(i) ==
  IF i.rel THEN RInc(RAdd(head.r, RowSub(k.row, hrow)))
  ELSE IF DoAlloc(i.d) THEN RInc(tail) ELSE tail

\* One clock edge.  c: the positions committing; hn: the head after them; to: the
\* head after a flush too; st: the pointer's own step; new: the slots allocated.
RobTick(i) ==
  \E c \in {cv(i)}, st \in {irr_step(i)}, new \in {Alloc(i.d)} :
  \E hn \in {head_n(c)} :
  LET to == IF i.flush THEN flush_pos(hn) ELSE hn
      takesHead == i.flush \/ Behind(st, hn)     \* the pointer goes where the head goes
      live == IF i.flush THEN {}
              ELSE ((v \cup new) \ {hsx(p) : p \in c}) \ (IF i.rel THEN kill.kd ELSE {})
  IN  /\ ent' = [x \in live |-> IF x \in new THEN DOp(i.d, x) ELSE ent[x]]
      /\ done' = ((done \ new) \cup {six(t) : t \in i.w}) \cap live
      /\ head' = to
      /\ irr' = IF takesHead THEN to ELSE st
      /\ tail' = IF i.flush THEN to.r ELSE tail_n(i)
      /\ fc' = IF DoAlloc(i.d) THEN [fc EXCEPT ![trow] = i.d.fc] ELSE fc
      /\ hfc' = hfc_n(i.d, to)
      /\ ifc' = IF takesHead THEN hfc_n(i.d, to) ELSE ifc_n(i.d, st)
      /\ wl' = wl_n(i)
      /\ k' = k_n(i)
      /\ kill' = kill_n(i)
      /\ walked' = IF Ends(i) THEN {} ELSE walked \cup WalkSlots

Zero == [r |-> 0, p |-> 0]
RobInit ==
  /\ ent = <<>> /\ done = {} /\ head = Zero /\ irr = Zero /\ tail = 0
  /\ fc = [r \in Row |-> 0] /\ hfc = 0 /\ ifc = 0
  /\ wl = NoWalk /\ k = NoBranch /\ kill = NoKill /\ walked = {}
RobReset ==         \* fc keeps what it holds
  /\ ent' = <<>> /\ done' = {} /\ head' = Zero /\ irr' = Zero /\ tail' = 0
  /\ hfc' = 0 /\ ifc' = 0 /\ UNCHANGED fc
  /\ wl' = NoWalk /\ k' = NoBranch /\ kill' = NoKill /\ walked' = {}

-----------------------------------------------------------------------------
(* The inputs the buffer is built for, on its own: the conditions its       *)
(* always-on checks state, and the core's use of the kill (no dispatch from *)
(* a branch's naming to its release, which is when the branch completes).   *)
CONSTANT NW         \* completion ports

BranchTag == [row |-> k.row, wc |-> k.wc]
OpenTags == {TagOf(x) : x \in v \ done}
Groups == [fc : Col, ops : UNION {[1..n -> Ops] : n \in 1..IW}]
Older(t, u) ==      \* t before u, both live
  LET dt == RowSub(t.row, hrow)  du == RowSub(u.row, hrow)
  IN  dt < du \/ (dt = du /\ t.wc < u.wc)

Quiet == [d |-> NoGroup, w |-> {}, fwd |-> {}, h_fin |-> FALSE, c_kill |-> {},
          c_hold |-> FALSE, flush |-> FALSE, rp |-> {}, rp_all |-> FALSE,
          k |-> {}, rel |-> FALSE]
Completions(held) == {w \in SUBSET (OpenTags \ held) : Cardinality(w) <= NW}
Held == IF kill.v THEN {BranchTag} ELSE {}

\* An ordinary cycle: completions (those of c[2] on the forwarding port), commits
\* (stopped at a position, or held, or not), and a group if nothing holds dispatch
GroupChoices == {NoGroup} \cup (IF ready /\ ~kill.v THEN Groups ELSE {})
CompletionChoices == {x \in Completions(Held) \X SUBSET OpenTags : x[2] \subseteq x[1]}
CommitChoices == [stop : {{}} \cup {{p} : p \in head.p..IW-1}, hold : {FALSE}, rp : BOOLEAN]
                 \cup {[stop |-> {}, hold |-> TRUE, rp |-> TRUE]}
CycleInput(d, c, s) ==
  [Quiet EXCEPT !.d = d, !.w = c[1], !.fwd = c[2],
                !.c_kill = s.stop, !.c_hold = s.hold, !.rp_all = s.rp]
Cycle ==
  \E d \in GroupChoices, c \in CompletionChoices, s \in CommitChoices :
    \E i \in {CycleInput(d, c, s)} : RobTick(i)
\* A load flagged for replay, which the pointer has not passed, stops it
Flagged ==
  \E x \in v, w \in Completions(Held) :
    /\ ~Behind(EntPos(x), irr)
    /\ \E i \in {[Quiet EXCEPT !.w = w, !.rp = {TagOf(x)}]} : RobTick(i)
\* A mispredicted branch is named, the oldest so far
Name ==
  \E b \in OpenTags :
    /\ kill.v => Older(b, BranchTag)
    /\ \E i \in {[Quiet EXCEPT !.w = w, !.k = {b}] : w \in Completions({b} \cup Held)} :
         RobTick(i)
\* The dead ops are gone: the branch completes and dispatch resumes behind it
Release ==
  /\ kill.v /\ wl_done(Quiet)
  /\ \E i \in {[Quiet EXCEPT !.w = w \cup Held, !.rel = TRUE] : w \in Completions(Held)} :
       RobTick(i)
\* The head restarts the machine: it completes now, or traps and does not commit.  A group,
\* a naming or other completions may come in the same cycle; the flush wins over them.
Beside ==
  [d : GroupChoices, k : {{}}, w : {{}}]
    \cup [d : {NoGroup}, k : {{b} : b \in OpenTags}, w : {{}}]
    \cup [d : {NoGroup}, k : {{}}, w : Completions(Held)]
Flush(x, done_now, stop) ==
  [Quiet EXCEPT !.d = x.d, !.k = x.k, !.w = x.w \cup done_now, !.h_fin = (done_now # {}),
                !.c_kill = stop, !.flush = TRUE]
Squash ==
  /\ ~empty
  /\ \E x \in Beside :
       \/ /\ head_idx \in OpenTags
          /\ \E i \in {Flush(x, {head_idx}, {})} : RobTick(i)
       \/ \E i \in {Flush(x, {}, {head.p})} : RobTick(i)

RobNext == Cycle \/ Flagged \/ Name \/ Release \/ Squash \/ RobReset
RobSpec == RobInit /\ [][RobNext]_robVars

-----------------------------------------------------------------------------
Dead == IF kill.v THEN v \cap kill.kd ELSE {}

RobType ==
  /\ v \subseteq Slot /\ ent \in [v -> Ops] /\ done \subseteq v
  /\ head \in [r : RRow, p : Pos] /\ irr \in [r : RRow, p : Pos] /\ tail \in RRow
  /\ fc \in [Row -> Col] /\ hfc \in Col /\ ifc \in Col
  /\ wl \in [run : BOOLEAN, fin : BOOLEAN, row : Row, fc : Col, lim : 0..IW]
  /\ k \in [row : Row, p : Pos, wc : 0..2*IW-2]
  /\ kill.v \in BOOLEAN /\ kill.kd \subseteq Slot /\ kill.kh \in Nat /\ kill.kb \in Nat
  /\ walked \subseteq Slot

\* The live entries are exactly the window from the head to the tail: the head
\* holds a live op, nothing is live before it or at the tail, and every row in
\* between holds a run of positions from its first column (from the head's own
\* position in the head's row).  A commit, a flush and a release each move one
\* end of it (smolrv64_rob.v:477-488).
WindowExact ==
  /\ occ <= CAP
  /\ occ = 0 => v = {} /\ head.p = 0
  /\ \A x \in v : RowSub(x[1], hrow) < occ
  /\ \A n \in 0..occ-1 :
       LET r == RowOf(RAdd(head.r, n))
           from == IF n = 0 THEN head.p ELSE 0
       IN  \E m \in from..IW-1 : \A p \in Pos :
             <<r, col_of(fc[r], p)>> \in v <=> from <= p /\ p <= m

\* The irrevocable pointer stays between the head and the tail, and every op
\* before it has completed: nothing older than it can restart the machine
\* (smolrv64_rob.v:96-99, 447-450).
IrrSettled ==
  /\ ~Behind(irr, head) /\ ~Behind(tailPos, irr)
  /\ \A x \in v : Behind(EntPos(x), irr) => x \in done

\* The registered first columns the commit ports and the pointer rotate by are
\* the rows' own whenever they are used (smolrv64_rob.v:479-482, 331-332).
FirstColumnsFresh ==
  /\ ~empty => hfc = fc[hrow]
  /\ irr_v => ifc = fc[irow]
  /\ wl.run => wl.fc = fc[wl.row]

\* The pointers and the registered columns delimit exactly the ops in flight and the settled
\* ones among them, through commits, walks, releases and squashes (smolrv64_rob.v:477-488).
PointersExact == WindowExact /\ IrrSettled /\ FirstColumnsFresh

\* The kill as a distance from where the head was names exactly the entries of
\* the kill vector, however far the head has moved since (smolrv64_rob.v:296-304).
KillAgrees == kill.v => \A x \in Slot : x \in kill.kd <=> kdead(TagOf(x))

\* A kill condemns exactly the live ops younger than its branch, which is live,
\* not done and therefore neither committed nor passed by the pointer.
KillExact ==
  kill.v =>
    /\ six(BranchTag) \in v \ done
    /\ Dead = {x \in v : Older(BranchTag, TagOf(x))}

\* The walk passes every dead op once, the youngest row first, and has passed all
\* of them by the time it reports done, through any number of older branches named
\* while it runs or after it stopped: a rename is undone once, and none is missed
\* (smolrv64_rob.v:250-253).
WalkExact ==
  /\ WalkSlots \subseteq Dead \ walked /\ walked \subseteq Dead
  /\ \A x \in WalkSlots, y \in Dead :
       Older(TagOf(x), TagOf(y)) => y \in walked \cup WalkSlots
  /\ wl_done(Quiet) => walked = Dead
=============================================================================
