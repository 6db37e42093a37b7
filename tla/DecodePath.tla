----------------------------- MODULE DecodePath -----------------------------
(* An instruction word on its way from fetch to dispatch, and its row of the pipe trace.  *)
(* Fetch hands the bundle register a 32-bit window of the code, whatever the length of    *)
(* the instruction it begins with (src/aligner.v); decode expands a compressed one as the *)
(* queue takes it (smolrv64_dslot, QHEAD = 0), and decodes the queued word again at the   *)
(* queue's head (QHEAD = 1).  The trace labels the row with the word in the bundle        *)
(* register (core/tb_pipetrace.vh, ps_new), and tools/pipeview disassembles it.           *)
EXTENDS Integers

O == INSTANCE Rvc           \* tools/rvc.rs: uncompress
T == INSTANCE RvcTable      \* tools/rvc.rs: RVC64_EXPANDED
V == INSTANCE RvcExpand     \* src/rvc_expand.v
D == INSTANCE Disasm        \* tools/rvdisasm
A == INSTANCE Assembler     \* the reference

VARIABLES
  place,        \* where the instruction is: "bundle", "queue", "ir", "gone"
  raw,          \* dq_inst, the window fetched
  word,         \* the instruction as its place holds it
  row           \* the label of its row in the trace
vars == <<place, raw, word, row>>

\* pb_load, and the row that opens the first cycle the instruction is there.
LoadBundle(window) ==
  /\ place = "bundle"
  /\ raw = window
  /\ word = raw
  /\ row = D!row_label(raw)
\* decode_slot: at the queue's head the word is expanded already.
decode_slot(inst, EXPANDED) == IF EXPANDED THEN inst ELSE V!full(inst)
Push ==
  /\ place = "bundle"
  /\ place' = "queue"
  /\ word' = decode_slot(word, FALSE)
  /\ UNCHANGED <<raw, row>>
Pop ==
  /\ place = "queue"
  /\ place' = "ir"
  /\ word' = decode_slot(word, TRUE)
  /\ UNCHANGED <<raw, row>>
\* A redirect empties the bundle register and the queue.
Redirect ==
  /\ place \in {"bundle", "queue"}
  /\ place' = "gone"
  /\ UNCHANGED <<raw, word, row>>

Init == \E window \in SUBSET (0..31) : LoadBundle(window)
Next == Push \/ Pop \/ Redirect
Spec == Init /\ [][Next]_vars
-----------------------------------------------------------------------------
Low(w) == {b \in w : b < 16}
parcel == T!Unsigned(Low(raw))

\* Every word decode gives the core is the oracle's: RVC64_EXPANDED of the parcel for a
\* compressed instruction, whatever the window's upper half holds (it is the next
\* instruction's), and for every 32-bit one the window itself (src/rvc_expand.v:4-6 and the
\* exhaustive bench tb_rvc_expand.v; src/aligner.v:13-15, decode_slot.v's is_c).
ExpanderExact ==
  place \in {"queue", "ir"} => word = IF V!is_c(raw) THEN T!RVC64_EXPANDED(parcel) ELSE raw

\* The oracle agrees with itself: uncompress gives the table's word for every parcel of
\* quadrants 0, 1 and 2 (tools/rvc.rs, test_uncompress), the reserved ones included.
OracleExact ==
  place = "bundle" /\ V!is_c(raw) => O!uncompress(Low(raw)) = T!RVC64_EXPANDED(parcel)

\* What the text leaves out: an atomic's aq and rl bits, and a fence's two sets, which read
\* as the full fence.  lib.rs:8-10 calls both covered; lib.rs:258-265 and 290-312 print neither.
Opcode(w) == T!Unsigned(w \cap 0..6)
Printed(w) ==
  CASE Opcode(w) = 47 -> w \ {25, 26}
    [] Opcode(w) = 15 /\ w \cap 12..14 = {} -> T!TypeI(255, 0, 0, 0, 15)
    [] OTHER -> w
\* rvdisasm's text of a dispatched instruction means that instruction but for Printed's two
\* omissions: assembling it gives the printed word back, so no other operand, sign or
\* pseudo-instruction is wrong or lost, for all that the C extension expands to and the 32-bit
\* instructions of RV64IMA, Zicsr and the FP loads and stores, whatever the omitted bits.
TextMeansWord ==
  place = "ir" /\ word # {} => A!Assemble(D!disasm(word), D!CSRS) = Printed(word)

\* What tools/rvdisasm/src/lib.rs:3-5 says: the trace carries the expanded instruction, so the
\* row of a dispatched instruction shows that instruction disassembled.
RowsShowInstructions ==
  place = "ir" /\ word # {} => row = D!disasm(word)
=============================================================================
