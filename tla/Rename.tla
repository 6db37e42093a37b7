------------------------------- MODULE Rename -------------------------------
(***************************************************************************)
(* Register renaming (core/smolrv64_rename.v): the speculative and the     *)
(* committed map, a free list per shard of the physical registers, the     *)
(* undo of a walk and the sweep that follows a squash.                     *)
(*                                                                         *)
(* One RenameTick is one clock edge.  A free list's circular buffer is the *)
(* sequence of its slots from the committed head hc to the tail t; the     *)
(* speculative head h is off slots past hc.  The IW copies of each map and *)
(* their newer bits are one function: the copy newer names.                *)
(***************************************************************************)
EXTENDS Geom, Sequences, FiniteSets, FiniteSetsExt

CONSTANTS Regs,     \* the architectural registers but x0: naturals
          FpRegs,   \* ...of which these are f-registers
          Shards,   \* the lanes 0..IW-1 and the FP shards that are used
          FpShards, \* the FP shards, SH_FL (the FP loads') and SH_FF
          SH_FL,
          Phys,     \* Phys[s]: shard s's physical registers
          LOWAT,    \* rename stalls below this many free registers of a shard
          Junk      \* what a slot outside [h, t) holds: no register to be used

AllPhys == UNION {Phys[s] : s \in Shards}

ASSUME RenameAssumption ==
  /\ LOWAT \in Nat /\ LOWAT >= IW /\ LOWAT >= 2   \* a lane's shard serves two groups
  /\ Regs \subseteq Nat \ {0} /\ FpRegs \subseteq Regs /\ FpShards \subseteq Shards
  /\ \A s, t \in Shards : s # t => Phys[s] \cap Phys[t] = {}
  /\ Junk \notin AllPhys

VARIABLES smap, rmap,   \* the speculative and the committed map
          dirty,        \* the registers a sweep must rewrite
          xq,           \* the registers the sweep picked last cycle (x_v, x_a)
          x_busy,       \* the sweep runs
          cc,           \* last cycle's commits, [rd, prd]: the dirty test
          fl, off,      \* the free lists: slots [hc, t), and h - hc
          fre_q,        \* last cycle's displaced registers, to be freed now
          low           \* the shards below their low-water mark

renameVars == <<smap, rmap, dirty, xq, x_busy, cc, fl, off, fre_q, low>>

OfShard(ps, s) == SelectSeq(ps, LAMBDA p : p \in Phys[s])
FlAt(s, n) == IF n <= Len(fl[s]) THEN fl[s][n] ELSE Junk
Mark(s) == IF s \in FpShards /\ LOWAT < 2 * IW THEN 2 * IW ELSE LOWAT
stall == low # {} \/ x_busy

\* ---- the group: g is a sequence of [rd, sh] (rd = 0: no destination)
Writing(g) == {j \in DOMAIN g : g[j].rd # 0}
Before(g, j, s) == Cardinality({i \in Writing(g) : i < j /\ g[i].sh = s})
Takes(g, s) == Cardinality({i \in Writing(g) : g[i].sh = s})
\* slot j's new register: the list's entry after those of the slots before it
r_prd(g, j) == FlAt(g[j].sh, off[g[j].sh] + Before(g, j, g[j].sh) + 1)
\* the mapping it displaces: the youngest earlier slot's new one, else the map's
r_pold(g, j) ==
  LET same == {i \in Writing(g) : i < j /\ g[i].rd = g[j].rd}
  IN  IF same = {} THEN smap[g[j].rd] ELSE r_prd(g, Max(same))
Renamed(g) ==
  [j \in DOMAIN g |->
     IF g[j].rd = 0 THEN [rd |-> 0, prd |-> Junk, pold |-> Junk]
     ELSE [rd |-> g[j].rd, prd |-> r_prd(g, j), pold |-> r_pold(g, j)]]

\* ---- the maps.  ops: sequences of [rd, prd, pold] in program order
Writers(ops, r) == {j \in DOMAIN ops : ops[j].rd = r}
RmapAfter(cs) ==                    \* the last commit of a register wins
  [r \in Regs |-> IF Writers(cs, r) = {} THEN rmap[r] ELSE cs[Max(Writers(cs, r))].prd]
SmapAfterYoungest(as, ws) ==  \* faulty: the walk's youngest op of a row wins
  [r \in Regs |->
     IF Writers(as, r) # {} THEN as[Max(Writers(as, r))].prd
     ELSE IF Writers(ws, r) # {} THEN ws[Max(Writers(ws, r))].pold
     ELSE IF r \in xq THEN rmap[r] ELSE smap[r]]
SmapAfter(as, ws) ==
  [r \in Regs |->
     IF Writers(as, r) # {} THEN as[Max(Writers(as, r))].prd         \* rename: the youngest wins
     ELSE IF Writers(ws, r) # {} THEN ws[Min(Writers(ws, r))].pold   \* the walk: the oldest wins
     ELSE IF r \in xq THEN rmap[r]                                   \* the sweep
     ELSE smap[r]]

\* ---- the sweep picks the IW lowest dirty registers
Picks == {r \in dirty : Cardinality({s \in dirty : s < r}) < IW}
x_on(flush) == flush \/ x_busy
Destinations(ops) == {ops[j].rd : j \in DOMAIN ops} \ {0}
dirty_nNoPick(flush, as, ws) ==       \* faulty: the sweep does not clear what it picks
  (dirty \ {c.rd : c \in {c \in cc : smap[c.rd] = c.prd}})
    \cup Destinations(as) \cup Destinations(ws)
dirty_n(flush, as, ws) ==
  ((dirty \ (IF x_on(flush) THEN Picks ELSE {}))
         \ {c.rd : c \in {c \in cc : smap[c.rd] = c.prd}})
    \cup Destinations(as) \cup Destinations(ws)

\* ---- the free lists
Commits(ops) == SelectSeq(ops, LAMBDA o : o.rd # 0)
Prds(ops) == [j \in DOMAIN Commits(ops) |-> Commits(ops)[j].prd]
Polds(ops) == [j \in DOMAIN Commits(ops) |-> Commits(ops)[j].pold]
Count(ops, s) == Len(OfShard(Prds(ops), s))
fl_n(cs, s) ==      \* hc past the commits' registers; t past the registered frees
  SubSeq(fl[s], Count(cs, s) + 1, Len(fl[s])) \o OfShard(fre_q, s)
off_nNoRollback(flush, g, as, ws, cs, s) == \* faulty: a squash leaves h
  off[s] + (IF as = <<>> THEN 0 ELSE Takes(g, s)) - Count(ws, s) - Count(cs, s)
off_n(flush, g, as, ws, cs, s) ==
  IF flush THEN 0
  ELSE off[s] + (IF as = <<>> THEN 0 ELSE Takes(g, s)) - Count(ws, s) - Count(cs, s)
FreeAfterNoGroup(s, f, g) ==    \* faulty: the group in the IR is not counted
  LET w == 2 * Cardinality(Phys[s]) IN (Len(fl[s]) + f + w - off[s]) % w
\* the list's free registers after the IR's group takes its own, from registers only
\* (f: the frees landing), modulo the pointers' width
FreeAfter(s, f, g) ==
  LET w == 2 * Cardinality(Phys[s])
  IN  (Len(fl[s]) + f + w - off[s] - Takes(g, s)) % w
low_n(g) == {s \in Shards : FreeAfter(s, Len(OfShard(fre_q, s)), g) < Mark(s)}

(* The cycle's inputs: g, the group in the IR; take, it renames; cs, the    *)
(* commits; ws, the walk's row; flush.                                      *)
RenameTick(g, take, cs, ws, flush) ==
  \E as \in {IF take THEN Renamed(g) ELSE <<>>} :
    /\ smap' = SmapAfter(as, ws)
    /\ rmap' = RmapAfter(cs)
    /\ dirty' = dirty_n(flush, as, ws)
    /\ xq' = IF x_on(flush) THEN Picks ELSE {}
    /\ x_busy' = (x_on(flush) /\ dirty' # {})
    /\ cc' = {[rd |-> cs[j].rd, prd |-> cs[j].prd] : j \in {j \in DOMAIN cs : cs[j].rd # 0}}
    /\ fl' = [s \in Shards |-> fl_n(cs, s)]
    /\ off' = [s \in Shards |-> off_n(flush, g, as, ws, cs, s)]
    /\ fre_q' = Polds(cs)
    /\ low' = low_n(g)

\* A runtime reset keeps the lists and the maps: h := hc, every register dirty
RenameReset(g) ==
  /\ dirty' = Regs /\ x_busy' = TRUE /\ xq' = {} /\ cc' = {}
  /\ off' = [s \in Shards |-> 0] /\ fre_q' = <<>>
  /\ low' = {s \in Shards : FreeAfter(s, 0, g) < Mark(s)}
  /\ UNCHANGED <<smap, rmap, fl>>

\* Integer registers start in lane 0's shard, f-registers in SH_FL; the lists hold
\* the registers no mapping holds.  Which permutation the memories start with is
\* irrelevant: any.
Home(r) == IF r \in FpRegs THEN SH_FL ELSE 0
Orders(S) == {o \in [1..Cardinality(S) -> S] : \A i, j \in DOMAIN o : i # j => o[i] # o[j]}
RenameInit ==
  /\ rmap \in {m \in [Regs -> AllPhys] :
                 /\ \A r \in Regs : m[r] \in Phys[Home(r)]
                 /\ \A r, s \in Regs : r # s => m[r] # m[s]}
  /\ smap = rmap
  /\ \E Free \in {[s \in Shards |-> Phys[s] \ {rmap[r] : r \in Regs}]} :
       fl \in {f \in [Shards -> UNION {Orders(Free[s]) : s \in Shards}] :
                 \A s \in Shards : f[s] \in Orders(Free[s])}
  /\ dirty = {} /\ xq = {} /\ x_busy = FALSE /\ cc = {} /\ fre_q = <<>> /\ low = {}
  /\ off = [s \in Shards |-> 0]
=============================================================================
