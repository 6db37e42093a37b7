# SmolRV64 in TLA+

A verification development kept beside SmolRV64, a 4-wide out-of-order RV64 core
and its system-on-chip written in Verilog, with host tools written in Rust.  TLA+
modules model the parts whose correctness is a matter of *ordering* -- what happens
when two things happen in the same cycle, when a restart overtakes another, when a
message crosses clocks -- and the two places where the repository has several
descriptions of one function that must agree (compressed instructions, the pipe
trace).  TLC checks them on small instances; TLAPS proves some of the results for
every instance.

Paths below are relative to the repository.

1. [The system](#1-the-system)
2. [The modules and the code](#2-the-modules-and-the-code)
3. [The runs](#3-the-runs)
4. [The bounds](#4-the-bounds)
5. [Fairness](#5-fairness)
6. [What is proved](#6-what-is-proved)
7. [What is only model-checked](#7-what-is-only-model-checked)
8. [Findings and observations](#8-findings-and-observations)
9. [Assumptions and abstractions](#9-assumptions-and-abstractions)
10. [Not modelled](#10-not-modelled)

## 1. The system

| part | source | state | operations | what is hard |
|---|---|---|---|---|
| frontend: fetch, predictor, queue of decoded ops | `core/smolrv64_frontend.v`, `smolrv64_fring.v`, `smolrv64_predictor.v`, `smolrv64_bankq.v`, `src/fetch.v`, `src/aligner.v` | fetch ring, prediction history, the decoupling queue's banks | fetch, predict, enqueue, pop a group, redirect | a redirect racing fetches in flight; history repair |
| expansion and decode | `src/rvc_expand.v`, `src/decode_slot.v`, `src/decode_*.v` | none (combinational) | expand a parcel, decode a word | the upper half of a parcel's window is another instruction's; decode is used before and after the queue |
| dispatch and restart | `core/smolrv64_core.v` | the dispatch register (IR), the pending restart `fr_*`, `redirect_q` | dispatch, mispredict, release, squash | a mispredict resolving out of order while another is pending; the cycle of wrong-path dispatch after it; the squash and the release racing |
| rename | `core/smolrv64_rename.v` | two maps, free lists with three pointers per shard, dirty bits, the sweep | rename a group, commit, undo a walked row, squash, sweep, runtime reset | rollback is a pointer move, so the lists must hold the right registers in the right order; the stall is a register and must be early enough |
| reorder buffer | `core/smolrv64_rob.v`, `smolrv64_kill.vh` | rows of rotated columns, head, tail, irrevocable pointer, walk, kill | allocate, complete, commit, name a branch, walk, release, flush | every row starts at its own column; three ways to move the tail; an older branch named while a walk runs |
| schedulers, register file, execution lanes | `core/smolrv64_iq.v`, `smolrv64_pending.v`, `smolrv64_prf.v`, `smolrv64_exec.v`, `src/alu.v`, ... | entries, ready bits, pipes | insert, wake, pick, kill | wakeup timing; dead ops in the pipes |
| load and store queues, LSU | `core/smolrv64_lq.v`, `smolrv64_sq.v`, `smolrv64_lsu.v` | entries with addresses and states, the drain | allocate, address, forward, block, replay, drain | a load that reads before an older store's address is known |
| caches, L2, memory arbiter | `core/rv_cache.v`, `rv_dcache.v`, `rv_icache.v`, `rv_l2.v`, `rv_mem_arbiter.v` | tags, MSHRs, write-back and fill engines | lookup, miss, fill, evict, snoop | a request to a line that is being written back or filled |
| MMU, CSRs | `src/mmu.v`, `src/csr_file.v` | TLB, walk, CSRs | translate, walk, fence, trap | a walk racing an `sfence.vma` |
| clock crossings | `src/smolrv64_async_fifo.v`, `src/ddr_port_sync.v` | pointers and their synchronisers; capture and launch registers | write, read, capture, launch | stale pointers, phase, resets seen at different times |
| DDR4 memory | `src/ddr4_mem.v`, `src/ddr4_ctl.v`, `src/ddr4_port_line.v`, `src/ddr4_port_axi.v` | queue, banks, timing counters, refresh; line buffers and the stream of beats | take a request, activate, precharge, read or write, refresh, calibrate, track VT; stream a line | a bank's state is used a cycle after it was read; refresh against a row just opened; a buffer reused while its old line streams |
| DMA, AXI, devices, shell | `src/axi_two_master_arbiter.v`, `src/dma_master.v`, `src/virtio_*.v`, `src/plic.v`, `src/clint.v`, ... | grants, bursts, descriptors, pending bits | arbitrate, burst, interrupt, claim | a burst's ownership; an interrupt racing its claim |
| pipe trace and viewer | `core/tb_pipetrace.vh`, `tools/pipeview` | open rows, their last code; the rows loaded, the window, the bytes typed ahead | write a cycle's records, load, draw, read a key, search | only changes are written, so a cell is the writer's and the loader's work together; keys of several bytes |
| oracle and disassembler | `tools/rvc.rs`, `tools/rvdisasm` | none | expand, disassemble | scattered immediates, reserved encodings, pseudo-instructions |

The parts meet at few places.  The frontend hands groups to dispatch; dispatch
renames them and gives each a row of the reorder buffer; the execution side
reports completions by the entry's tag; the reorder buffer commits in order into
the renamer, and tells every structure which ops a mispredict has killed.  Below
the caches, the L2's requests cross from the core's clock to the memory's
(`ddr_port_sync`), take a buffer of the line port, and wait in the controller's
queue for their row; the PHY asks for write data, and returns read data, a fixed
time after the column command, in the order of the commands.  The test bench
writes a trace of what each instruction did in each cycle; the viewer loads it.

## 2. The modules and the code

In the RTL models one clock edge is one action: the inputs of the cycle are chosen
by `\E`, what is combinational is an operator of the state, and every register
takes its next value at once.  A definition keeps the name of the signal, task or
function it translates.  A module that composes others shares a step between them
(`Backend`, `Ddr4Line`), so two registers that change at one edge in the code change
in one step in the model.

| module | source | what it is |
|---|---|---|
| `Geom` | `core/smolrv64_geom.vh` | the group width, shared by the core's modules |
| `Rob` | `core/smolrv64_rob.v`, `smolrv64_kill.vh` | every register: entries and valid bits (`ent`, `done`), `head`, `tail`, the irrevocable pointer `irr`, each row's first column `fc` and its registered copies `hfc`, `ifc`, the walk `wl`, the branch `k` and the kill range `kill`.  `RobTick(i)` is an edge with inputs `i` (dispatch, completions, a branch named, a release, a squash); `RobReset` the reset |
| `Window` | -- | the promise: ops in program order, cut behind a branch, dropped when it completes |
| `RobWindow` | -- | the refinement mapping from `Rob` to `Window`, and `ImplementsWindow` |
| `Rename` | `core/smolrv64_rename.v` | `smap`, `rmap`, the free lists (`fl` from the committed head, `off` the speculative one), `dirty`, the sweep `xq`/`x_busy`, the registered frees `fre_q`, the registered stall `low` |
| `Backend` | `core/smolrv64_core.v` (dispatch, restart) | the window, the renamer and the restart control together: `Run` (an ordinary cycle), `Mispredict`, `Release`, `BranchSquash`, `HeadSquash`, `Reset` |
| `AsyncFifo` | `src/smolrv64_async_fifo.v` | both sides' pointers and two-stage synchronisers; `Write`, `Read`, `Both` edges, `AssertReset`, `ReleaseReset` |
| `Fifo` | -- | the promise: a queue, with push, pop, both and clear |
| `DdrSync` | `src/ddr_port_sync.v`, the reset release of `smolrv64_shell.v` | the two clocks' edges (`M0`, `M0P`, `P`, `M1`), the recovered phase `cap`, request promise and capture, beat and done launches, snoop and release toggles; history variables for what is owed |
| `Ddr4Ctl` | `src/ddr4_ctl.v` | the queue with its hit bits, bank state, last cycle's owners and chosen row commands, the counters and their zero flags, refresh, ZQCS and VT tracking; `Tick(rq)`; history `age`, `acts` measures the real spacings |
| `PortLine` | `src/ddr4_port_line.v` | read and write buffers, the request register, the queue of buffers to stream, the beat register, dones; `PortTick(i)` |
| `LineMem` | -- | `PortLine` between users (the caches' ids) and an in-order controller: its environment, its properties, its inductive invariant |
| `Ddr4Line` | `src/ddr4_mem.v` | `PortLine` on `Ddr4Ctl` with the PHY's pipelines; `ServesAsAssumed` says this implements `LineMem` |
| `Bits` | -- | machine words as sets of bit positions |
| `Rvc` | `tools/rvc.rs`, `uncompress` | the oracle's function, arm by arm, by shifts and masks |
| `RvcTable` | `tools/rvc.rs`, `RVC64_EXPANDED` | the oracle's table: its contents in arithmetic, by instruction format |
| `RvcExpand` | `src/rvc_expand.v`, `src/decode_slot.v` | the core's expander, as the concatenations it is written in |
| `Disasm` | `tools/rvdisasm/src/lib.rs`, `row_label` of `tools/pipeview` | every arm of `disasm` |
| `Assembler` | -- | the reference that reads a text back into a word |
| `DecodePath` | `core/smolrv64_dslot.v` (its use), `src/decode_slot.v`, `core/tb_pipetrace.vh` | a word from the bundle register through the queue to dispatch, and its row's label |
| `PipeTrace` | `core/tb_pipetrace.vh` | the Kanata records of every cycle; history `seen` is what the hardware did |
| `Pipeview` | `tools/pipeview/src/main.rs` | `load`, `glyph_at`, `stats`, the key reader, the search line, the legend and the loop, with a user who types ahead |
| `AsyncFifoProofs`, `RobSteps`, `RobProofs`, `DdrSyncProofs`, `LineMemSteps`, `LineMemProofs`, `Ddr4CtlSteps`, `Ddr4CtlProofs` | -- | theorems and proofs (section 6) |
| `MC*` | -- | instances for TLC |

Beside the definitions it uses, a module has faulty forms of some of them (a dropped
guard, a flag one cycle early), each named after the right one and the fault.  Only
`PROJECT.json`'s `mutants` use them: with the faulty form in place of the right one,
the property named there fails.

## 3. The runs

`tlc -config X.cfg M` in this directory runs one; `PROJECT.json` lists module and
configuration of each.  All are exhaustive on their instance.

**`rob`** (`MCRob`).  Interleavings of dispatch, completion, commit, mispredicts,
releases, squashes and resets; a cycle brings several of them.  In a squash's cycle a
group, a branch or completions may come too (`Beside`), and none of them must survive it.
- `RobType`: the registers keep their ranges.
- `PointersExact`: the live entries are exactly a run of positions from the head to
  the tail, every op before the irrevocable pointer has completed, and the
  registered first columns are the rows' own when used.
- `KillAgrees`: the distance test of `smolrv64_kill.vh` and the kill vector condemn
  the same entries, however far the head has moved between.
- `KillExact`: those entries are the live ops younger than the branch, no more.
- `WalkExact`: the walk passes every dead op once, youngest row first, through any
  number of older branches named meanwhile.
- `ImplementsWindow`: every edge is a step of `Window` or a stutter.

**`backend`** (`MCBackend`).  Two lanes that rename, commit, walk, squash and sweep.
- `RegistersConserved`: every physical register is in exactly one place.
- `ListFollowsWindow`: between a list's two heads lie the registers of the standing
  ops of that shard, in program order, so that a rollback returns the right ones.
- `AllocationFits`: a group that dispatches finds its registers: the registered
  stall is early enough.
- `MapExact`: the speculative map names the youngest standing writer, and a clean
  register is mapped as committed.
- `BackendType`: types.

**`backend_live`** (`MCBackendLive.cfg`).  One lane, two registers, so a sweep takes
several cycles.  `SweepAlone`: nothing renames or is undone while the sweep has the
map's write ports.  `RestartEnds`: every freeze of dispatch ends.  `StallEnds`:
rename does not stall for good.

**`reset_leak`** (violation).  `RegistersConserved` with a reset at run time:
finding 1.

**`async_fifo`**.  `FifoInv`: from the writer's oldest view of the read pointer on,
the six pointers follow each other and span at most DEPTH, and a reset clears each
side as that side sees it.  `ImplementsFifo`: it is a `Fifo`.  `ViewsCatchUp`: an
item is seen by the reader, a freed place by the writer.

**`ddr_sync`**.  With the halved clock's edges falling either way, and resets.
`RequestsExact`, `BeatsExact`: requests, and read beats, cross once each in order.
`SnoopExact`: a snoop is presented with its own line, answered once and acknowledged
after its answer, and no release pulse is lost or doubled.  `CrossingEnds`: nothing
is left behind.

**`ddr4_ctl`**.  Requests against refresh, ZQ calibration and VT tracking.
`TimingSafe`: the commands of a cycle keep every DRAM spacing the code has a counter
for, as a history of the commands measures it, while the code keeps counters and
registered zero flags.
`RowsExact`: a hit bit is whether the row is open, an opened row stays open for the
head that waits for it, and a row command does what the oldest request of its bank
wants, though owners are a cycle stale.  `Maintained`: as long as every tracking
interval leaves the injected read a place (`spared`: between VT_INJ and VT_GAP a read
issues, or the last write is once tWTR past), at most one refresh is owed, each is
issued with room for its tRFC, and a ZQ calibration after it, before the next is due,
tRFC and tZQCS after the last ones, and no tracking interval goes by without its read,
its data and its gap.  The code does not ensure the condition (section 8), and the run
has loads that break it.  `RequestServed`: every request leaves the queue.

**`line_port`** (`MCLineMem`).  `StreamExact`: a beat is the one its id is owed next,
of the line it asked for.  `BuffersExact`: each burst in the controller comes to a
buffer that waits for it.  `WritesExact`: a write's own data goes out, its done
goes back once.  `RequestsAnswered`: every request is answered in full.

**`ddr4_line`**.  `ServesAsAssumed`: controller, PHY pipelines and line port
together implement `LineMem`, the port's model with an abstract controller.  So what
is checked and proved of `LineMem` holds of them.  `LineInv`, the invariant of the
proofs, is checked on the composition too, with two write buffers, whose dones wait for
one another.

**`pipeview`**.  Every short run of a core, traced, loaded and viewed.  `CellsExact`:
each cell shows what the hardware did in that cycle.  `HeaderExact`: so do the
header's counts, in every window.  `ViewInRange`: no key moves the window off the
rows.  `KeysWhole`: a key the legend lists is read whole, as itself and without a byte
of its neighbour, though keys of several bytes are typed ahead, swallowed by the legend
or end a search; and the bytes such a key or one of the run's foreign keys leaves behind
do nothing.  Of the foreign keys it promises no more (section 8).  `EofQuits`: the end of the input,
which may come within a key, ends the viewer.

**`decode`**.  Every parcel and every 32-bit operation.  `ExpanderExact`: what decode
gives the core is the table's word, whatever the window's upper half holds.
`OracleExact`: the function `uncompress` and the table agree on every parcel, the
reserved ones too.  `TextMeansWord`: the disassembly of a dispatched instruction
assembles back to it, but for what the text leaves out (`Printed`): an atomic's aq and
rl, and a fence's sets.

**`labels`** (violation).  `RowsShowInstructions`: finding 2.

## 4. The bounds

| run | instance | why it is enough |
|---|---|---|
| `rob` | 3 rows of 2 columns, capacity 2, 2 completion ports, one kind of op | the row count is odd and no power of two, so rows, wrap bits and columns are told apart; rows start at either column; the ring wraps; a walk spans two rows while an older branch is named.  With as many rows as capacity (a ring that is full) the run is out of reach; the theorems cover it |
| `backend` | groups of 2, 1 architectural register, 2 shards of 3 physical registers, low-water mark 2, 5 ops in flight | two ops of a group write one register, both lanes run dry, a walk and a squash overtake commits.  The physical registers of a lane are interchangeable (symmetry) |
| `backend_live` | groups of 1, 2 registers, 1 shard of 4, 3 ops in flight | the sweep rewrites one register at a time here, so two dirty ones make it last |
| `async_fifo` | depth 4, 2 data values | full and empty with every pair of stale views, and wrap-around; the theorems cover every depth |
| `ddr_sync` | 1 request, 1 read beat, 2 lines to flush, both alignments | requests and beats repeat for ever, so each meets its successor; two lines tell a snoop's line from the one before.  Dones cross by the same registers as beats (a channel of the same function).  The safety theorems cover any requests, beats and lines |
| `ddr4_ctl` | 2 banks in 2 groups, 2 rows, queue of 2, scaled timings, a VT interval of 36 cycles and a refresh interval of 54; up to 2 requests at any time, 5 reads back to back, or a spell of 4, 8 or 26 writes to one row | the first load puts a request at every phase of refresh, calibration and tracking, the second brings the four-activate window to bear, the third starves the injected read, for less and for more than an interval.  The two intervals have different lengths, so a refresh comes at several phases of the tracking.  Both leave room for the worst wait of a REF (banks opened just before, tRAS, tWR, tRP) with tRFC and tZQCS after it, as the real ones do.  The timings are not in the proportions of the real ones (tRFC, tRAS and tFAW are 5, 7 and 33 here; 184, 11 and 10 in the code): tFAW is stretched so that it binds with two banks, tRFC shortened to keep the interval short; every spacing is at least 2.  The theorems on rows and spacings cover every number of banks, queue length and timing |
| `line_port` | 2 read buffers, 1 write buffer, 3 ids | fewer buffers than ids, so requests wait; two reads interleave.  The safety theorems cover every number of buffers and any set of ids |
| `ddr4_line` | 2 banks, 2 rows, queue of 2, 2 buffers of each kind, 3 ids, 3 requests | two reads, two writes or one of each are in the controller together; the second request hits the first's row, closes it or opens another bank's, the third is the other bank's, across refreshes and injected reads |
| `pipeview` | 6 cycles, window 1..5, 2 instruction rows, 4 cells, 2 cycles with a cause; 4 keys, a body of 2 rows | rows open before, at and after the window's edges; every kind of key before and after every other: all of the viewer's keys, and five foreign ones (a lone ESC, F1, F5, Delete, control-Right).  A key is typed while at most one stands unread, so that one of several bytes has another behind it; the input may end within a key.  Keys are typed on one run of three rows (`Few`), of which the loop reads only the number and the labels |
| `decode` | all 49,152 parcels with two upper halves; each 32-bit operation over the operands of `MCDecodePath` | exhaustive for parcels; the operands reach every pseudo-instruction and both ends of each immediate, every aq and rl of the atomics, and full, partial and TSO fences |

`NREQ`, `CALM`, `READS`, `Spells`, `QCAP`, `NCYC`, `NROWS`, `NKEYS`, `CELLS` and `CAUSED` bound behaviours;
everything else is a parameter of the code.  `pipeview` and `decode` stop (a viewer
that quit, an instruction dispatched), so deadlock is not checked there.

## 5. Fairness

- `async_fifo`: both clocks run (`WF` of each side's edge).
- `ddr_sync`: the clocks run; the controller, presented with a request for ever, takes
  it at some edge, and the D-cache answers a snoop (`SF`: a ready may come and go).
  `RequestServed` is the first of these on the controller's side.
- `backend_live`: the clock ticks, the oldest op completes, and a completed op is not
  held at the head for ever.  Nothing is assumed of mispredicts, releases or squashes
  beyond the conditions under which the code makes them.
- `ddr4_ctl`: the clock runs: `[]<><<TRUE>>_ctlVars`.  A tick is always possible and
  always moves a counter, so this is weak fairness of the tick.
- `line_port`: the controller takes requests and serves the bursts it holds
  (`RequestServed`), the crossing takes beats and dones (`CrossingEnds`), and the
  clock runs in any state that a cycle changes with nothing from the neighbours
  (`Still`).
- `pipeview`: the loop goes on when a byte or the end of the input is there.  The user
  owes nothing.

## 6. What is proved

TLAPS checks every step; nothing is taken without proof.

| theorem | statement | for every |
|---|---|---|
| `RobProofs!RobTypeCorrect` | `RobSpec => []RobType` | number of rows, capacity up to it, width, number of ports, set of ops |
| `RobProofs!RobInvariant` | `RobSpec => []RobInv` | the same, from two rows on |
| `RobProofs!PointersAlwaysExact`, `KillAlwaysExact`, `WalkAlwaysExact` | `RobSpec => []PointersExact`, `[]KillExact`, `[]WalkExact` | the same |
| `RobProofs!KillAgreesAlways` | `RobSpec => []KillAgrees` | the same |
| `AsyncFifoProofs!FifoSafe` | `AsyncFifoSpec => []FifoInv` | depth, set of data |
| `AsyncFifoProofs!FifoImplements` | `AsyncFifoSpec => ImplementsFifo` | depth, set of data |
| `LineMemProofs!LineInvariant` | `MemSpec => []LineInv` | number of read and of write buffers, set of ids |
| `LineMemProofs!LineStreams`, `LineBuffers`, `LineWrites` | `MemSpec => []StreamExact`, `[]BuffersExact`, `[]WritesExact` | the same |
| `DdrSyncProofs!CrossingInvariant` | `SyncSpec => []SyncInv` | set of requests, of beats and of lines; either alignment of the clocks |
| `DdrSyncProofs!RequestsCross`, `BeatsCross`, `SnoopsCross` | `SyncSpec => []RequestsExact`, `[]BeatsExact`, `[]SnoopExact` | the same |
| `Ddr4CtlProofs!ControllerInvariant` | `CtlSpec => []CtlInv` | number of banks per group, set of rows, queue length, timings |
| `Ddr4CtlProofs!RowsAlwaysExact` | `CtlSpec => []RowsExact` | the same |
| `Ddr4CtlProofs!CommandsSpaced` | `CtlSpec => []TimingSafe` | the same |
| `Ddr4CtlProofs!SpacingReducesToPace` | `CtlSpec /\ [](RefreshesOwed /\ RefreshPrompt) => []RefreshSpaced` | the same |

The assumptions are the named ones of the modules: `WidthAssumption` and
`RobAssumption` (at least one column and two rows, a capacity within the rows), the
FIFO's on its depth, `BuffersAssumption` (a buffer of each kind, an id),
`SnoopAssumption` (a line is cleaned or flushed, not both), `TimingAssumption` and
`RowsAssumption` (section 9).

**Reorder buffer.**  `RobInv` (`RobSteps`) is the inductive invariant.  The three
properties of the run are not inductive one by one: a release cuts the window after
the kill's branch, so the window needs the kill; the kill's vector was formed from
rows and first columns the window keeps from being rewritten; the walk's progress is
relative to both.  Its conjuncts are the types, `Win` (every row between head and tail
is a run of positions, from its first column or from the head's own position),
`Within` and `Settled` (the irrevocable pointer is inside the window, everything
before it done), `FirstColumns`, `KillInv` (the branch is open, the vector has the ops
younger than it) and `WalkInv` (what has been passed is what is behind the walk's row
and limit).  They are said of distances from the head, `Dst`, which a commit lowers by
at most one for everything that stays (`RowsMove`): order is kept without comparing
wrapped pointers.  `CommitWin`, `AllocWin`, `ReleaseWin` and their counterparts for the
pointer and the walk are facts about any set of slots, and `TickInv` combines them
for a clock edge whose inputs meet `Input`: what `RobNext` offers, weakened to what
the proof needs (`Steps`).  `InvPointers`, `InvKill` and `InvWalk` translate back.  A
position's order within a row and the last position of a commit need the largest and
smallest of some positions: `Extremes`, a hypothesis of the step lemmas, discharged in
`RobProofs` from well-founded induction.
`KillAgrees` is about the registers only, whatever the window holds.  It speaks of a
vector computed at one edge and a distance taken later; `KillFormed` strengthens it: a
kill in force was formed as the code forms it, from some position of the head and some
branch.  `FormedAgrees` then shows the two forms equal: the tag's distance in row-major
order, from where the head was, is the lexicographic order of rows and positions.

**FIFO.**  `FifoInv` is the inductive invariant.  That nothing overflows is not
inductive by itself: the writer must know its view of the read pointer to be *behind*
the pointer, and each stage of a synchroniser behind the one before it (`Conservative`).
While a reset is being seen by one side and not yet by the other the order is
suspended, and `ResetsBoth` says what holds instead.  The refinement maps the memory
between the two real pointers to the queue's contents; a write appends
(`WriteAppends`), a read removes (`ReadRemoves`).

**Line port.**  None of the three properties is inductive alone: that a beat is the
right one depends on whose buffer is streamed, that on when the buffer was freed,
that on how many beats the id had received.  `LineInv` says where a request is, from
the cycle it is presented to its last beat or done:
`LineType` (types); `OwnersExact` (an id has one buffer at most, and none before its
request is taken); `ReadsPlaced` (a read buffer named by the request register or by
the controller's queue is busy, is named by no other place, and holds as much of its
line as that place implies); `StreamPlaced` (a buffer in the queue to stream holds its
id's whole line, and the id has had as many beats as have left the output register);
`WritesPlaced` (where a write is until its done, with its own data).
`LineMemSteps` has a lemma for each thing a cycle does to one of these parts and
one per conjunct of the invariant, `LineMemProofs` the theorems.  The queue's choice of a free buffer is the lowest one;
that a nonempty set of numbers has a least is the hypothesis `Leasts` of the step
lemmas, discharged in `LineMemProofs` from well-founded induction.

Because `ddr4_line` shows the composition to implement `MemSpec`, these results carry
to the port on the real controller, as far as that run's instance goes.

**Clock crossing.**  The properties compare what has arrived with what was sent; the
invariant `SyncInv` says where everything in between is.  Its conjuncts place the two
clocks (which edge comes next, what `cap` has recovered of the phase, how far each side
is out of reset) and then, channel by channel, what the registers hold at that point
of the pair of edges: a request promised and not captured, a beat launched and not yet
seen, a toggle that has or has not crossed.  The same register means different things
at the two memory edges of a port cycle, so each conjunct is stated per turn and
alignment; the step lemmas go through the four kinds of edge.

**Controller.**  `TimingSafe` speaks of a history (`age`: cycles since a command),
the code of counters, and of flags that say a counter is zero.  `CtlInv` ties them:
`FlagsExact` (a registered flag is its counter's zero); `BankSpaced`, `GroupSpaced`,
`RefSpaced` (a counter plus the time since the command that set it is at least the
spacing, so a zero counter means the spacing has passed); `FawExact` (the ACTs inside
the window are among the last four); and `RowInv`, that a decision registered a cycle
ago is still right when it acts: the bank of a chosen ACT is closed, of a chosen PRE
open and unwanted, with all their counters run out.  The last needs the owner of a
bank to be stale only in ways that do no harm: `OwnInv` says that a registered owner
that could cause a row command (its bank is closed, or marked open at another row) is
still queued and still the oldest of its bank; one that has left had its row open.
The mark itself is stale only while tRAS forbids the PRE.  This is the comment at
`src/ddr4_ctl.v:135-137`, proved.  `Ddr4CtlSteps` has what a cycle does to each
counter and the conjuncts on spacings, `Ddr4CtlProofs` the queue, the rows and the
theorems.

`TimingSafe` is proved without a condition, and of REF it has what REF waits for:
closed banks and the last PRE (`src/ddr4_ctl.v:226`).  Its distance from the REF and the
ZQCS before it (`RefreshSpaced`) no counter guards: it follows from the pace of
refreshes only (`PacedInv`), so `SpacingReducesToPace` has the pace as hypothesis, and
`Maintained` has TLC check that pace where the load leaves VT tracking its reads.  How
late a REF can be is a sum of worst cases over the queue, the head's column commands and
the banks, which the run finds and no lemma here bounds.

## 7. What is only model-checked

- Liveness (`RestartEnds`, `StallEnds`, `ViewsCatchUp`, `CrossingEnds`, `RequestServed`,
  `RequestsAnswered`, `EofQuits`): fairness and ENABLED are out of the prover's reach.
- `ImplementsWindow` of the reorder buffer: the window's program is a sequence selected
  from the slots in order, and its length a cardinality, both folds over data.
- The renamer's and `Backend`'s invariants and the refinement `ServesAsAssumed`: their
  inductive invariants are large, and have been left to TLC.
- `Maintained` of the controller: a bound on how long refresh and tracking wait, whose
  proof would be one of bounded liveness.  Its condition on the writes is not derived
  from anything: the caches that send them are not modelled.
- `Pipeview`, `Disasm`, the expanders and their properties: they are functions over
  bits, files and texts, which the decode run enumerates; what a recursive or folded
  function computes for every input needs induction over data, which the installed
  provers cannot do.

## 8. Findings and observations

**Finding 1 (`reset_leak`).**  `core/smolrv64_rename.v:571` drops the registered frees
when reset is asserted, and `:493` does not move the tail.  A register that a commit
displaced in the cycle before a runtime reset is afterwards in neither a list nor a
map.  The comment at `:608-615` says that "slots [h, t) still hold exactly the free
set" and that "nothing leaks across a restart".  The build ties the runtime reset off
(`core/rv_soc_top.v:821`), so only power-on asserts it today.

**Finding 2 (`labels`).**  The trace labels a row with the bundle register's word
(`core/tb_pipetrace.vh:333`, `:91`), which is the raw window; a compressed instruction
is expanded after it.  `tools/rvdisasm/src/lib.rs:3-5` says the expanded instruction is
carried, and `tools/pipeview/src/main.rs:216` expects a raw word only of a row flushed
before decode.  So without an ELF no compressed instruction is disassembled in the viewer;
with one, it shows objdump's text (`main.rs:214-215`).

Met while modelling, and not made runs of their own:
- `rvdisasm` prints LOAD-FP words of widths other than 2 and 3 (FLH, FLQ, vector
  loads) as `flw`, though `lib.rs:9` says what it does not know falls back to `.insn`;
  it does not know Zba, Zbb, Zbs and Zicond; a fence's operands, an AMO's aq and rl and
  lr's rs2 are not shown.
- `src/ddr4_ctl.v:37-43` says that every VT interval has its read, injected if need be.
  Writes to an open row that follow each other within tWTR re-arm `t_rdg`, which the
  injected read waits for (`:212`), and a refresh waits for that read (`:168`).  Nothing
  in the controller interrupts such a stream: when it lasts through an interval, the model
  reaches an interval without its read (the `$fatal` at `:448`) and more than one refresh
  owed.  The refreshes owed are then issued back to back, without tRFC between them, which
  the bench's DRAM model requires (`src/ddr4_phy_model.vh:192`).  `Maintained` therefore
  has its condition; whether the caches can send such a stream is not modelled.
- A key the viewer does not know is read as far as its reader goes: a lone ESC takes the
  next byte with it and quits, as F1 (ESC O P) does; F5 (ESC [ 1 5 ~) acts as Home.
- The viewer's header gives its span as last minus first, so the last cycle is not
  counted, and shows eight causes at most.
- A row still open when the window of the trace ends keeps its last code.
- A "(rvc ...)" label includes the next parcel's bits.
- The reorder buffer needs at least two rows.  With one, the ring compare (`Behind`) takes
  the head's next row for half the ring away, so the irrevocable pointer does not follow
  the head: TLC finds `PointersExact` violated at ROWS = 1, which the checks at
  `core/smolrv64_rob.v:144-145` do not exclude.  The core has 64 rows (`core/smolrv64_tags.vh:19`); `RobAssumption`
  asks for two, and from two on the proofs hold.

## 9. Assumptions and abstractions

Reorder buffer and backend
- What an entry records is an abstract op.  The execution side may complete any live
  op at any time, which covers every order the schedulers and pipes can choose.
- `Backend` uses `Window` in place of `Rob`; the `rob` run shows `Rob` to implement it.
  Its capacity `QCAP` counts ops, not rows.
- The map's copies and their newer bits are one function.  `dec_red_q` is folded into
  the dispatch register being empty after a redirect.  The delay of a kill's release
  (`kd_age`, `KREL`) is a release at any later time.
- The low-water mark is at least 2 and at least the group width, as in the code's
  parameters.  `Mark` has the doubled mark of the FP shards; no run has an FP shard.

Clock crossings
- `AsyncFifo` models the simulation branch of the file; the synthesis branch
  instantiates a vendor primitive.  In the simulation a pointer is sampled whole, its
  old or its new value; metastability and bits that arrive apart are the primitive's
  concern.
- `DdrSync`: `late` chooses between the two alignments of the halved clock; it never
  changes.  `reset_p` is set with the memory side's reset and released by the second
  edge of the port's clock after it.  The neighbours send no request in the first cycle
  after a reset, no beat before a request, and no flush of a line while a flushed line
  is held.  Resets at run time are more than this build does.

DDR4 memory
- A command is the bank and row it names; the PHY's slots and the encoding are left
  out.  Calibration and reset are the initial state.
- `TimingAssumption`: every spacing is at least 2 cycles, since a counter is loaded with
  one less and its zero flag is a register; tRP and tZQCS are no longer than tRFC, since
  a REF overwrites the counter an ACT waits for (6, 33 and 184 cycles in the code).
  `RowsAssumption`: rows are numbers and there is one.
- That a REF keeps its distance from the REF before it rests on tREFI exceeding tRFC
  and what a REF can wait (2600 cycles in the code), and on the condition of `Maintained`;
  see sections 6 and 8.
- The PHY returns read data, and asks for write data, a fixed time after the command.
- `LineMem`'s controller serves reads in order and writes in order.  An id has one
  request at a time, as in the caches' use.  Two token values stand for the lines' data.

Traces and tools
- `PipeTrace`: an instruction has one code per cycle; which one a pipeline stage gives
  it is the environment's choice.  A row moves from the frontend to the reorder buffer
  from code `i`; an op has a lane's code for one cycle.  Cells after the window of the
  trace are not claimed.  Two closes the code has for a key taken again
  (`core/tb_pipetrace.vh:88`, `:300`) are left out: the first is called only without a row
  under the key, and a reorder buffer entry is taken again only after its row ended.
- `Pipeview`: the bytes of one key arrive together, unless the input ends within it.  Colours, the objdump table and the
  `--text` print of the same rows are left out.
- `RvcTable` states the table's contents by instruction format.  It has been compared
  with the literal table, all 65,536 words of it, by a script outside TLC.
- `Disasm`: register names, spacing and number bases are left out; a text is its mnemonic
  and its operands.

## 10. Not modelled

| part | why |
|---|---|
| caches, L2, memory arbiter (`rv_cache.v`, `rv_dcache.v`, `rv_icache.v`, `rv_l2.v`, `rv_mem_arbiter.v`) | their question is coherence: a fill, a write-back and a snoop of one line against each other, in L1 and L2 together.  That is a model as large as all of these; the line port is modelled against any requests, of which theirs are some |
| load and store queues, LSU | forwarding and ordering are correct only relative to the caches below them.  What they take from the reorder buffer, the kill, is checked (`KillAgrees`, `KillExact`) |
| schedulers, register file | that an op waits for its sources is not checked; the order they choose is free in `Backend` |
| frontend, predictor | fetches in flight are not modelled; the redirects they take are `Backend`'s, the words they hand over are `DecodePath`'s.  The predictor's tables are hints: wrong ones cost time |
| execution pipes, trap sources and scheduler credits of `smolrv64_core.v` | free choices of `Backend` |
| execution units, FPU | 64-bit arithmetic; the FPU is third-party code |
| decode tables (`decode_exec.v`, `decode_operands.v`, `decode_fp.v`) | from bits to control signals, with no second description in the repository to check against |
| MMU, CSR file | the walk's data are page-table bits and its races are with the caches; the CSRs are field encodings |
| DMA port (`ddr4_port_axi.v`), AXI arbiter, DMA master | idle in `Ddr4Line`; the port's question is a snoop of the caches before each line |
| PLIC, CLINT, virtio, SD, Ethernet, serial, video | single-clock registers and data paths, or protocols whose other half (driver, card, wire) is not in the repository.  The FIFO between Ethernet's clocks is `AsyncFifo` |
| SoC and shell | wiring and vendor primitives, but for the resets' release (`DdrSync`); the MMIO bridge is not modelled |
| `tools/kbd-vectors` | prints what a function of another repository returns |
| error log, performance counters, RAM templates, oracle frontend, benches | observation, inference templates, simulation only |
| boot monitor, USB bridge firmware, scripts, workloads | programs that run on the core or beside it |
