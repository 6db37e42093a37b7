------------------------------- MODULE Disasm -------------------------------
(* tools/rvdisasm: the disassembly of a 32-bit instruction word, and the label            *)
(* tools/pipeview gives a row of the pipe trace with it.  A text is its mnemonic and its  *)
(* operands: a register is its number (X and F name the 32 registers apart; the mnemonic  *)
(* tells the file), a target its distance from the instruction's pc.                      *)
EXTENDS Bits, TLC

\* A text; with a CSR operand, its name.
Text(m, ops) == [m |-> m, ops |-> ops, csr |-> ""]
Raw(i) == Text(".insn", <<Unsigned(Shr(i, 16)), Unsigned(Field(i, 15, 0))>>)

rd(i) == Unsigned(Field(i, 11, 7))
rs1(i) == Unsigned(Field(i, 19, 15))
rs2(i) == Unsigned(Field(i, 24, 20))
f3(i) == Unsigned(Field(i, 14, 12))
f7(i) == Field(i, 31, 25)
sext(v, bits) == Signed(v, bits)
imm_i(i) == sext(Shr(i, 20), 12)
imm_s(i) == sext(Shl(Shr(i, 25), 5) \cup Field(i, 11, 7), 12)
imm_bShort(i) ==
  sext(Shl(Field(i, 31, 31), 12) \cup Shl(Field(i, 30, 25), 5) \cup Shl(Field(i, 11, 8), 1), 13)
imm_b(i) ==
  sext(Shl(Field(i, 31, 31), 12) \cup Shl(Field(i, 7, 7), 11) \cup Shl(Field(i, 30, 25), 5)
         \cup Shl(Field(i, 11, 8), 1), 13)
imm_u(i) == Unsigned(Field(i, 31, 12))      \* (imm_u >> 12) & 0xfffff, as it is printed
imm_j(i) ==
  sext(Shl(Field(i, 31, 31), 20) \cup Shl(Field(i, 19, 12), 12) \cup Shl(Field(i, 20, 20), 11)
         \cup Shl(Field(i, 30, 21), 1), 21)
shamt6(i) == Unsigned(Field(i, 25, 20))
shamt5(i) == Unsigned(Field(i, 24, 20))

CSRS ==
  1 :> "fflags" @@ 2 :> "frm" @@ 3 :> "fcsr" @@ 256 :> "sstatus" @@ 260 :> "sie" @@ 261 :> "stvec"
  @@ 262 :> "scounteren" @@ 266 :> "senvcfg" @@ 320 :> "sscratch" @@ 321 :> "sepc" @@ 322 :> "scause"
  @@ 323 :> "stval" @@ 324 :> "sip" @@ 333 :> "stimecmp" @@ 384 :> "satp" @@ 768 :> "mstatus"
  @@ 769 :> "misa" @@ 770 :> "medeleg" @@ 771 :> "mideleg" @@ 772 :> "mie" @@ 773 :> "mtvec"
  @@ 774 :> "mcounteren" @@ 778 :> "menvcfg" @@ 832 :> "mscratch" @@ 833 :> "mepc" @@ 834 :> "mcause"
  @@ 835 :> "mtval" @@ 836 :> "mip" @@ 3072 :> "cycle" @@ 3073 :> "time" @@ 3074 :> "instret"
  @@ 3857 :> "mvendorid" @@ 3858 :> "marchid" @@ 3859 :> "mimpid" @@ 3860 :> "mhartid"
\* A known CSR is named, another written in hexadecimal (its number, the last operand).
csr_name(m, ops, c) ==
  IF c \in DOMAIN CSRS THEN [m |-> m, ops |-> ops, csr |-> CSRS[c]]
  ELSE [m |-> m, ops |-> Append(ops, c), csr |-> "0x"]

\* One operator per opcode; d, a and b are rd, rs1 and rs2.
Jal(i, d) ==
  IF d = 0 THEN Text("j", <<imm_j(i)>>)
  ELSE IF d = 1 THEN Text("jal", <<imm_j(i)>>)
  ELSE Text("jal", <<d, imm_j(i)>>)
Jalr(i, d, a) ==
  LET im == imm_i(i)
  IN CASE d = 0 /\ a = 1 /\ im = 0 -> Text("ret", <<>>)
       [] d = 0 /\ a # 1 /\ im = 0 -> Text("jr", <<a>>)
       [] OTHER -> Text("jalr", <<d, im, a>>)
Branch(i, a, b) ==
  IF b = 0 /\ f3(i) \in {0, 1} THEN Text(IF f3(i) = 0 THEN "beqz" ELSE "bnez", <<a, imm_b(i)>>)
  ELSE Text(<<"beq", "bne", "?", "?", "blt", "bge", "bltu", "bgeu">>[f3(i) + 1], <<a, b, imm_b(i)>>)
Load(i, d, a) ==
  Text(<<"lb", "lh", "lw", "ld", "lbu", "lhu", "lwu", "?">>[f3(i) + 1], <<d, imm_i(i), a>>)
Store(i, a, b) ==
  Text(<<"sb", "sh", "sw", "sd", "?", "?", "?", "?">>[f3(i) + 1], <<b, imm_s(i), a>>)
OpImm(i, d, a) ==
  LET im == imm_i(i)
      k == f3(i)
  IN CASE k = 0 /\ d = 0 /\ a = 0 /\ im = 0 -> Text("nop", <<>>)
       [] k = 0 /\ (d # 0 \/ a # 0) /\ im = 0 -> Text("mv", <<d, a>>)
       [] k = 0 /\ a = 0 /\ im # 0 -> Text("li", <<d, im>>)
       [] k = 4 /\ im = -1 -> Text("not", <<d, a>>)
       [] k = 1 -> Text("slli", <<d, a, shamt6(i)>>)
       [] k = 5 -> Text(IF 5 \in f7(i) THEN "srai" ELSE "srli", <<d, a, shamt6(i)>>)
       [] OTHER -> Text(<<"addi", "", "slti", "sltiu", "xori", "", "ori", "andi">>[k + 1], <<d, a, im>>)
OpImm32(i, d, a) ==
  LET k == f3(i)
  IN CASE k = 0 /\ a = 0 -> Text("li # sext.w", <<d, imm_i(i)>>)
       [] k = 0 /\ a # 0 -> Text("addiw", <<d, a, imm_i(i)>>)
       [] k = 1 -> Text("slliw", <<d, a, shamt5(i)>>)
       [] OTHER -> Text(IF k = 5 /\ 5 \in f7(i) THEN "sraiw" ELSE "srliw", <<d, a, shamt5(i)>>)
Op(i, d, a, b) ==
  LET alt == 5 \in f7(i)
      k == f3(i)
  IN CASE f7(i) = {0} ->
            Text(<<"mul", "mulh", "mulhsu", "mulhu", "div", "divu", "rem", "remu">>[k + 1], <<d, a, b>>)
       [] f7(i) # {0} /\ k = 0 /\ alt /\ a = 0 -> Text("neg", <<d, b>>)
       [] OTHER -> Text(IF alt /\ k = 0 THEN "sub" ELSE IF alt /\ k = 5 THEN "sra"
                        ELSE <<"add", "sll", "slt", "sltu", "xor", "srl", "or", "and">>[k + 1], <<d, a, b>>)
Op32(i, d, a, b) ==
  LET alt == 5 \in f7(i)
      k == f3(i)
  IN Text(IF f7(i) = {0} THEN <<"mulw", "?", "?", "?", "divw", "divuw", "remw", "remuw">>[k + 1]
          ELSE CASE k = 0 -> (IF alt THEN "subw" ELSE "addw")
                 [] k = 1 -> "sllw"
                 [] k = 5 -> (IF alt THEN "sraw" ELSE "srlw")
                 [] OTHER -> "?", <<d, a, b>>)
MiscMem(i) == Text(IF f3(i) = 1 THEN "fence.i" ELSE "fence", <<>>)
System(i, d, a, b) ==
  LET k == f3(i)
      c == Unsigned(Shr(i, 20))
      op == BitsOf(115, 7)
  IN CASE i = op -> Text("ecall", <<>>)
       [] i = op \cup {20} -> Text("ebreak", <<>>)
       [] i = op \cup {21, 28, 29} -> Text("mret", <<>>)
       [] i = op \cup {21, 28} -> Text("sret", <<>>)
       [] i = op \cup {20, 22, 28} -> Text("wfi", <<>>)
       [] k = 0 /\ f7(i) = {0, 3} -> Text("sfence.vma", <<a, b>>)
       [] k = 1 /\ d = 0 -> csr_name("csrw", <<a>>, c)
       [] k = 2 /\ a = 0 -> csr_name("csrr", <<d>>, c)
       [] k = 5 /\ d = 0 -> csr_name("csrwi", <<a>>, c)
       [] k = 1 /\ d # 0 -> csr_name("csrrw", <<d, a>>, c)
       [] k = 2 /\ a # 0 -> csr_name("csrrs", <<d, a>>, c)
       [] k = 3 -> csr_name("csrrc", <<d, a>>, c)
       [] k = 5 /\ d # 0 -> csr_name("csrrwi", <<d, a>>, c)
       [] k = 6 -> csr_name("csrrsi", <<d, a>>, c)
       [] k = 7 -> csr_name("csrrci", <<d, a>>, c)
       [] OTHER -> Raw(i)
AMOS ==
  0 :> "amoadd" @@ 1 :> "amoswap" @@ 2 :> "lr" @@ 3 :> "sc" @@ 4 :> "amoxor" @@ 8 :> "amoor"
  @@ 12 :> "amoand" @@ 16 :> "amomin" @@ 20 :> "amomax" @@ 24 :> "amominu" @@ 28 :> "amomaxu"
Amo(i, d, a, b) ==
  LET n == Unsigned(Shr(i, 27))
      w == IF f3(i) = 3 THEN 8 ELSE 4       \* the suffix: .d or .w
  IN Text(IF n \in DOMAIN AMOS THEN AMOS[n] ELSE "amo?", IF n = 2 THEN <<w, d, a>> ELSE <<w, d, b, a>>)
LoadFp(i, d, a) == Text(IF f3(i) = 3 THEN "fld" ELSE "flw", <<d, imm_i(i), a>>)
StoreFp(i, a, b) == Text(IF f3(i) = 3 THEN "fsd" ELSE "fsw", <<b, imm_s(i), a>>)

disasm(i) ==
  LET op == Unsigned(Field(i, 6, 0))
      d == rd(i)
      a == rs1(i)
      b == rs2(i)
  IN CASE op = 55 -> Text("lui", <<d, imm_u(i)>>)
       [] op = 23 -> Text("auipc", <<d, imm_u(i)>>)
       [] op = 111 -> Jal(i, d)
       [] op = 103 -> Jalr(i, d, a)
       [] op = 99 -> Branch(i, a, b)
       [] op = 3 -> Load(i, d, a)
       [] op = 35 -> Store(i, a, b)
       [] op = 19 -> OpImm(i, d, a)
       [] op = 27 -> OpImm32(i, d, a)
       [] op = 51 -> Op(i, d, a, b)
       [] op = 59 -> Op32(i, d, a, b)
       [] op = 15 -> MiscMem(i)
       [] op = 115 -> System(i, d, a, b)
       [] op = 47 -> Amo(i, d, a, b)
       [] op = 7 -> LoadFp(i, d, a)
       [] op = 39 -> StoreFp(i, a, b)
       [] OTHER -> Raw(i)

\* pipeview's label of an instruction row without an ELF: its word disassembled, unless it is
\* no 32-bit instruction.
row_label(w) ==
  IF {0, 1} \subseteq w THEN disasm(w) ELSE Text("(rvc)", <<Unsigned(Shr(w, 16)), Unsigned(Field(w, 15, 0))>>)
=============================================================================
