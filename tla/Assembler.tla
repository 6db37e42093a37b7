----------------------------- MODULE Assembler ------------------------------
(* The instruction an assembler makes of a text (see Disasm for the texts): the reference *)
(* tools/rvdisasm is checked against.  A mnemonic is found by its place in the lists of   *)
(* the instruction set manual, a pseudo-instruction by the instruction it stands for.     *)
EXTENDS RvcTable

At(list, m) == CHOOSE k \in 0..Len(list)-1 : list[k + 1] = m
In(list, m) == \E k \in DOMAIN list : list[k] = m

BRANCHES == <<"beq", "bne", "", "", "blt", "bge", "bltu", "bgeu">>
LOADS == <<"lb", "lh", "lw", "ld", "lbu", "lhu", "lwu">>
STORES == <<"sb", "sh", "sw", "sd">>
IMMS == <<"addi", "", "slti", "sltiu", "xori", "", "ori", "andi">>
OPS == <<"add", "sll", "slt", "sltu", "xor", "srl", "or", "and">>
MULS == <<"mul", "mulh", "mulhsu", "mulhu", "div", "divu", "rem", "remu">>
MULWS == <<"mulw", "", "", "", "divw", "divuw", "remw", "remuw">>
CSROPS == <<"", "csrrw", "csrrs", "csrrc", "", "csrrwi", "csrrsi", "csrrci">>
AMONAMES == [k \in 1..29 |->
  CASE k = 1 -> "amoadd" [] k = 2 -> "amoswap" [] k = 4 -> "sc" [] k = 5 -> "amoxor" [] k = 9 -> "amoor"
    [] k = 13 -> "amoand" [] k = 17 -> "amomin" [] k = 21 -> "amomax" [] k = 25 -> "amominu"
    [] k = 29 -> "amomaxu" [] OTHER -> ""]

\* csrs: the CSRs' names, a function of their numbers.
Assemble(text, csrs) ==
  LET m == text.m
      o == text.ops
      c == IF text.csr = "0x" THEN Last(o) ELSE CHOOSE n \in DOMAIN csrs : csrs[n] = text.csr
      w == IF o[1] = 8 THEN 3 ELSE 2
      CsrOp(k, d, a) == TypeI(c, a, k, d, 115)
  IN CASE m = "lui" -> TypeU(o[2], o[1], 55)
       [] m = "auipc" -> TypeU(o[2], o[1], 23)
       [] m = "j" -> TypeJ(o[1], 0, 111)
       [] m = "jal" -> IF Len(o) = 1 THEN TypeJ(o[1], 1, 111) ELSE TypeJ(o[2], o[1], 111)
       [] m = "ret" -> TypeI(0, 1, 0, 0, 103)
       [] m = "jr" -> TypeI(0, o[1], 0, 0, 103)
       [] m = "jalr" -> TypeI(o[2], o[3], 0, o[1], 103)
       [] m \in {"beqz", "bnez"} -> TypeB(o[2], 0, o[1], IF m = "beqz" THEN 0 ELSE 1, 99)
       [] In(BRANCHES, m) -> TypeB(o[3], o[2], o[1], At(BRANCHES, m), 99)
       [] In(LOADS, m) -> TypeI(o[2], o[3], At(LOADS, m), o[1], 3)
       [] In(STORES, m) -> TypeS(o[2], o[1], o[3], At(STORES, m), 35)
       [] m = "nop" -> TypeI(0, 0, 0, 0, 19)
       [] m = "mv" -> TypeI(0, o[2], 0, o[1], 19)
       [] m = "li" -> TypeI(o[2], 0, 0, o[1], 19)
       [] m = "not" -> TypeI(-1, o[2], 4, o[1], 19)
       [] In(IMMS, m) -> TypeI(o[3], o[2], At(IMMS, m), o[1], 19)
       [] m \in {"slli", "srli"} -> TypeI(o[3], o[2], IF m = "slli" THEN 1 ELSE 5, o[1], 19)
       [] m = "srai" -> TypeI(1024 + o[3], o[2], 5, o[1], 19)
       [] m = "li # sext.w" -> TypeI(o[2], 0, 0, o[1], 27)
       [] m = "addiw" -> TypeI(o[3], o[2], 0, o[1], 27)
       [] m \in {"slliw", "srliw"} -> TypeI(o[3], o[2], IF m = "slliw" THEN 1 ELSE 5, o[1], 27)
       [] m = "sraiw" -> TypeI(1024 + o[3], o[2], 5, o[1], 27)
       [] In(MULS, m) -> TypeR(1, o[3], o[2], At(MULS, m), o[1], 51)
       [] m = "neg" -> TypeR(32, o[2], 0, 0, o[1], 51)
       [] m \in {"sub", "sra"} -> TypeR(32, o[3], o[2], IF m = "sub" THEN 0 ELSE 5, o[1], 51)
       [] In(OPS, m) -> TypeR(0, o[3], o[2], At(OPS, m), o[1], 51)
       [] In(MULWS, m) -> TypeR(1, o[3], o[2], At(MULWS, m), o[1], 59)
       [] m \in {"subw", "sraw"} -> TypeR(32, o[3], o[2], IF m = "subw" THEN 0 ELSE 5, o[1], 59)
       [] m = "addw" -> TypeR(0, o[3], o[2], 0, o[1], 59)
       [] m \in {"sllw", "srlw"} -> TypeR(0, o[3], o[2], IF m = "sllw" THEN 1 ELSE 5, o[1], 59)
       [] m = "fence" -> TypeI(255, 0, 0, 0, 15)
       [] m = "fence.i" -> TypeI(0, 0, 1, 0, 15)
       [] m = "ecall" -> TypeI(0, 0, 0, 0, 115)
       [] m = "ebreak" -> TypeI(1, 0, 0, 0, 115)
       [] m = "sret" -> TypeI(258, 0, 0, 0, 115)
       [] m = "wfi" -> TypeI(261, 0, 0, 0, 115)
       [] m = "mret" -> TypeI(770, 0, 0, 0, 115)
       [] m = "sfence.vma" -> TypeR(9, o[2], o[1], 0, 0, 115)
       [] m = "csrw" -> CsrOp(1, 0, o[1])
       [] m = "csrr" -> CsrOp(2, o[1], 0)
       [] m = "csrwi" -> CsrOp(5, 0, o[1])
       [] In(CSROPS, m) -> CsrOp(At(CSROPS, m), o[1], o[2])
       [] m = "lr" -> TypeR(8, 0, o[3], w, o[2], 47)
       [] In(AMONAMES, m) -> TypeR(4 * At(AMONAMES, m), o[3], o[4], w, o[2], 47)
       [] m \in {"flw", "fld"} -> TypeI(o[2], o[3], IF m = "fld" THEN 3 ELSE 2, o[1], 7)
       [] m \in {"fsw", "fsd"} -> TypeS(o[2], o[1], o[3], IF m = "fsd" THEN 3 ELSE 2, 39)
=============================================================================
