------------------------------ MODULE Backend -------------------------------
(***************************************************************************)
(* Dispatch, commit and restart (core/smolrv64_core.v): the window of the  *)
(* reorder buffer and the renamer, wired as the core wires them, with the  *)
(* core's restart control between them.  The window is the one the reorder *)
(* buffer implements (RobWindow); the ops' execution is left open: any op  *)
(* in flight may complete, and any branch may turn out mispredicted.       *)
(***************************************************************************)
EXTENDS Window, Rename

CONSTANT QCAP       \* the most ops in flight

VARIABLES ir,         \* the dispatch register holds a group
          fr,         \* the pending restart's branch, its place in the window; 0: ~fr_v
          fr_set_q,   \* it was named last cycle: the walk is told of it now
          redirect_q  \* a redirect fired last cycle

coreVars == <<ir, fr, fr_set_q, redirect_q>>
vars == <<win, renameVars, coreVars>>

q == win.q
OpsAt(S) == [j \in DOMAIN S |-> S[j].op]
wl_done == win.cut > 0 /\ win.left = win.cut /\ ~fr_set_q

\* The groups the frontend forms: an integer destination's shard is the slot's lane,
\* the slots a cyclic run of lanes; an f-register's is the FP load's or the FP unit's.
Slots == [rd : Regs, sh : Shards] \cup {[rd |-> 0, sh |-> 0]}
Groups == {g \in UNION {[1..n -> Slots] : n \in 1..IW} :
  \E f \in 0..IW-1 : \A j \in DOMAIN g :
    \/ g[j].rd = 0
    \/ IF g[j].rd \in FpRegs THEN g[j].sh \in FpShards ELSE g[j].sh = (f + j - 1) % IW}

d_take == ir /\ ~redirect_q /\ fr = 0
cr_popAnyway == ~redirect_q /\ fr = 0     \* faulty: pops into a stalled rename
cr_pop == ~redirect_q /\ fr = 0 /\ ~stall
cr_rob(g) == Len(q) + (IF ir THEN Len(g) ELSE 0) + IW <= QCAP

\* What the cycle does to the window and the renamer together: n ops commit, m are
\* undone, those at C complete, and the IR's group g dispatches if it may
Dispatched(g) == IF d_take THEN Renamed(g) ELSE <<>>
Rn(g, n, m, flush) ==
  RenameTick(g, d_take, SubSeq(OpsAt(q), 1, n),
             SubSeq(OpsAt(q), win.left - m + 1, win.left), flush)
\* the restart's own branch completes only at its squash or its release
Completions == SUBSET {j \in DOMAIN q : ~q[j].done /\ j # fr}
Popped(feRed, g) == ir' \in {FALSE, cr_pop /\ cr_rob(g) /\ ~feRed}

-----------------------------------------------------------------------------
\* No restart resolves and none ends: ops commit, complete, are undone, dispatch;
\* if a branch was named last cycle the walk is told of it
Run(g, n, m, C) ==
  /\ fr # 1
  /\ \E d \in {Dispatched(g)} :
       IF fr_set_q THEN CanCut(win, n, m, C, fr) /\ win' = Cut(win, n, m, C, fr)
                   ELSE CanAdvance(win, n, m, C, d) /\ win' = Advance(win, n, m, C, d)
  /\ Rn(g, n, m, FALSE) /\ Popped(FALSE, g)
  /\ fr' = (IF fr = 0 THEN 0 ELSE fr - n)
  /\ fr_set_q' = FALSE /\ redirect_q' = FALSE
\* The op at b resolves as a mispredicted branch, older than any pending: the frontend
\* restarts; the group in the IR, younger than b, still dispatches this cycle
Mispredict(g, n, m, C, b) ==
  /\ fr # 1
  /\ n < b /\ ~q[b].done /\ b \notin C /\ (fr = 0 \/ b < fr)
  /\ \E d \in {Dispatched(g)} :
       IF fr_set_q THEN CanCut(win, n, m, C, fr) /\ win' = Cut(win, n, m, C, fr)
                   ELSE CanAdvance(win, n, m, C, d) /\ win' = Advance(win, n, m, C, d)
  /\ Rn(g, n, m, FALSE) /\ Popped(TRUE, g)
  /\ fr' = b - n
  /\ fr_set_q' = TRUE /\ redirect_q' = FALSE
\* The walk has reached the branch and the dead ops have left the pipes
Release(g, n, C) ==
  /\ fr > 1 /\ wl_done
  /\ CanDrop(win, n) /\ win' = Drop(win, n, C)
  /\ Rn(g, n, 0, FALSE) /\ Popped(FALSE, g)
  /\ fr' = 0 /\ fr_set_q' = FALSE /\ redirect_q' = FALSE
\* The pending restart's branch has reached the head: it commits and squashes.  The
\* frontend was restarted when it resolved.
BranchSquash(g, m) ==
  /\ fr = 1 /\ Undoes(win, m)
  /\ Rn(g, 1, m, TRUE)
  /\ win' = Empty /\ Popped(FALSE, g)
  /\ fr' = 0 /\ fr_set_q' = FALSE /\ redirect_q' = TRUE
HeadSquashKeeps(g, commits, m) ==     \* faulty: the pending restart survives the squash
  /\ fr # 1 /\ q # <<>> /\ Undoes(win, m) /\ (commits => ~q[1].done)
  /\ Rn(g, IF commits THEN 1 ELSE 0, m, TRUE)
  /\ win' = Empty /\ Popped(TRUE, g)
  /\ fr_set_q' = FALSE /\ redirect_q' = TRUE /\ UNCHANGED fr
\* The oldest op redirects: it commits (a system op) or not (a trap, a replay)
HeadSquash(g, commits, m) ==
  /\ fr # 1 /\ q # <<>> /\ Undoes(win, m) /\ (commits => ~q[1].done)
  /\ Rn(g, IF commits THEN 1 ELSE 0, m, TRUE)
  /\ win' = Empty /\ Popped(TRUE, g)
  /\ fr' = 0 /\ fr_set_q' = FALSE /\ redirect_q' = TRUE
Reset(g) ==
  /\ RenameReset(g)
  /\ win' = Empty
  /\ ir' = FALSE /\ fr' = 0 /\ fr_set_q' = FALSE /\ redirect_q' = FALSE

IRGroups == IF ir THEN Groups ELSE {<<>>}
Tick ==
  \E g \in IRGroups :
    \/ \E C \in Completions, n \in 0..IW, m \in 0..IW :
         \/ Run(g, n, m, C)
         \/ \E b \in DOMAIN q : Mispredict(g, n, m, C, b)
    \/ \E C \in Completions, n \in 0..IW : Release(g, n, C)
    \/ \E m \in 0..IW : BranchSquash(g, m)
    \/ \E c \in BOOLEAN, m \in 0..IW : HeadSquash(g, c, m)

BackendInit ==
  /\ win = Empty /\ RenameInit
  /\ ir = FALSE /\ fr = 0 /\ fr_set_q = FALSE /\ redirect_q = FALSE
BackendSpec == BackendInit /\ [][Tick]_vars
\* The clock ticks; the oldest op completes, and once complete is not held for ever
Finish == \E g \in IRGroups, C \in Completions, n \in 0..IW, m \in 0..IW :
            1 \in C /\ Run(g, n, m, C)
Commit == \E g \in IRGroups, C \in Completions, n \in 1..IW, m \in 0..IW : Run(g, n, m, C)
Running == WF_vars(Tick) /\ WF_vars(Finish) /\ WF_vars(Commit)
LiveSpec == BackendSpec /\ Running
ResetSpec == BackendInit /\ [][Tick \/ \E g \in IRGroups : Reset(g)]_vars

-----------------------------------------------------------------------------
\* the ops in flight whose renames stand: the walk has not undone them
Standing == OpsAt(IF win.cut > 0 THEN SubSeq(q, 1, win.left) ELSE q)
Mapping(ops, r) == IF Writers(ops, r) = {} THEN rmap[r] ELSE ops[Max(Writers(ops, r))].prd
Sweeping == x_busy \/ xq # {}

BackendType ==
  /\ Len(q) <= QCAP /\ win.cut \in 0..Len(q) /\ win.left \in 0..Len(q)
  /\ smap \in [Regs -> AllPhys] /\ rmap \in [Regs -> AllPhys]
  /\ dirty \subseteq Regs /\ xq \subseteq Regs /\ x_busy \in BOOLEAN
  /\ \A c \in cc : c.rd \in Regs /\ c.prd \in AllPhys
  /\ \A s \in Shards : off[s] \in 0..Len(fl[s])
  /\ low \subseteq Shards /\ fr \in 0..Len(q)
  /\ ir \in BOOLEAN /\ fr_set_q \in BOOLEAN /\ redirect_q \in BOOLEAN

\* Every physical register is in one place: a free list (from the committed head on),
\* the committed map, or on its way from a commit to its list.  None is lost and none
\* handed out twice, through walks, squashes and releases (smolrv64_rename.v:409-420).
RegistersConserved ==
  \A p \in AllPhys :
    Cardinality({<<s, j>> \in UNION {{s} \X DOMAIN fl[s] : s \in Shards} : fl[s][j] = p})
      + Cardinality({r \in Regs : rmap[r] = p})
      + Cardinality({j \in DOMAIN fre_q : fre_q[j] = p}) = 1

\* The slots between a list's committed and speculative heads hold exactly the
\* registers of the standing ops of that shard, in program order: so a commit moves hc
\* past its own register, and a walk or a rollback returns the right ones
\* (smolrv64_rename.v:530-535).
ListFollowsWindow ==
  \A s \in Shards : SubSeq(fl[s], 1, off[s]) = OfShard(Prds(Standing), s)

\* A group that dispatches finds a free register for every destination, whatever it
\* holds: the stall, a register that holds only the next pop, is early enough
\* (smolrv64_rename.v:552-556, 574-590).
AllocationFits ==
  d_take => \A g \in Groups, s \in Shards : Takes(g, s) <= Len(fl[s]) - off[s]

\* A register that is not dirty maps to its committed mapping, so a sweep may skip it:
\* no commit, walk or rename leaves a stale mapping clean (smolrv64_rename.v:221-224).
CleanIsCommitted == \A r \in Regs \ (dirty \cup xq) : smap[r] = rmap[r]

\* The speculative map names the youngest standing writer of every register, else the
\* committed mapping -- at once after a walk, and after a squash as far as the sweep
\* has come (smolrv64_rename.v:211-224).
MapExact ==
  /\ \A r \in Regs : (Sweeping => r \notin dirty \cup xq) => smap[r] = Mapping(Standing, r)
  /\ CleanIsCommitted

\* Nothing renames and nothing is undone while the sweep owns the map's write ports, its
\* last write included (smolrv64_rename.v:200-201, 687-693).
SweepAlone ==
  d_take \/ (win.cut > 0 /\ win.left > win.cut) => ~Sweeping

\* A restart's freeze of dispatch ends: by the release, by the squash of its own branch
\* at the head or by an older redirect (smolrv64_core.v:3900-3919).
RestartEnds == (fr > 0) ~> (fr = 0)

\* Rename never stalls for good: the sweep runs out of dirty registers and the low
\* shards fill again as the window drains (smolrv64_rename.v:685, 693-694).
StallEnds == stall ~> ~stall
=============================================================================
