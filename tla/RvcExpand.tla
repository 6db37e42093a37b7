----------------------------- MODULE RvcExpand ------------------------------
(* The core's C-extension expander, src/rvc_expand.v, and decode_slot.v's choice between  *)
(* it and the fetched word: a combinational function of the bits of a parcel.             *)
EXTENDS Bits

\* A Verilog concatenation: the bits of c that vs lists, the most significant first; Z is a
\* constant 0 and O a constant 1.
Z == -1
O == -2
Cat(c, vs) == {b \in 0..Len(vs)-1 : LET v == vs[Len(vs) - b] IN v = O \/ v \in c}
\* ... sign-extended to 32 bits with c[12].
SCat(c, vs) == Cat(c, vs) \cup (IF 12 \in c THEN Len(vs)..31 ELSE {})

\* 32-bit instruction assembly by format.
Num(n) == BitsOf(n, 7)
Rtype(f7, rs2, rs1, f3, rd, op) ==
  Shl(Num(f7), 25) \cup Shl(rs2, 20) \cup Shl(rs1, 15) \cup Shl(Num(f3), 12) \cup Shl(rd, 7) \cup Num(op)
Itype(imm, rs1, f3, rd, op) == Shl(Field(imm, 11, 0), 20) \cup Rtype(0, {}, rs1, f3, rd, op)
Stype(imm, rs2, rs1, f3, op) ==
  Shl(Field(imm, 11, 5), 25) \cup Rtype(0, rs2, rs1, f3, Field(imm, 4, 0), op)
Btype(imm, rs2, rs1, f3, op) ==
  Shl(Field(imm, 12, 12), 31) \cup Shl(Field(imm, 10, 5), 25)
    \cup Rtype(0, rs2, rs1, f3, Shl(Field(imm, 4, 1), 1) \cup Field(imm, 11, 11), op)
Utype(imm, rd, op) == Shl(Field(imm, 31, 12), 12) \cup Shl(rd, 7) \cup Num(op)
Jtype(imm, rd, op) ==
  Shl(Field(imm, 20, 20), 31) \cup Shl(Field(imm, 10, 1), 21) \cup Shl(Field(imm, 11, 11), 20)
    \cup Shl(Field(imm, 19, 12), 12) \cup Shl(rd, 7) \cup Num(op)

\* The register fields and the immediates.
rd(c) == Field(c, 11, 7)
rs2(c) == Field(c, 6, 2)
rs1p(c) == Cat(c, <<Z, O, 9, 8, 7>>)
rdsp(c) == Cat(c, <<Z, O, 4, 3, 2>>)
i_ciw(c) == Cat(c, <<10, 9, 8, 7, 12, 11, 5, 6, Z, Z>>)
i_clw(c) == Cat(c, <<5, 12, 11, 10, 6, Z, Z>>)
i_cld(c) == Cat(c, <<6, 5, 12, 11, 10, Z, Z, Z>>)
i_ci(c) == SCat(c, <<6, 5, 4, 3, 2>>)
i_lui(c) == SCat(c, <<12, 6, 5, 4, 3, 2>> \o [k \in 1..12 |-> Z])
i_a16(c) == SCat(c, <<12, 4, 3, 5, 2, 6, Z, Z, Z, Z>>)
i_shl(c) == Cat(c, <<12, 6, 5, 4, 3, 2>>)
i_sra(c) == Cat(c, <<Z, O, Z, Z, Z, Z, 12, 6, 5, 4, 3, 2>>)
i_cjSwapped(c) == SCat(c, <<12, 8, 9, 10, 6, 7, 2, 11, 5, 4, 3, Z>>)
i_cj(c) == SCat(c, <<12, 8, 10, 9, 6, 7, 2, 11, 5, 4, 3, Z>>)
i_cb(c) == SCat(c, <<12, 6, 5, 2, 11, 10, 4, 3, Z>>)
i_lwsp(c) == Cat(c, <<3, 2, 12, 6, 5, 4, Z, Z>>)
i_ldsp(c) == Cat(c, <<4, 3, 2, 12, 6, 5, Z, Z, Z>>)
i_swsp(c) == Cat(c, <<8, 7, 12, 11, 10, 9, Z, Z>>)
i_sdsp(c) == Cat(c, <<9, 8, 7, 12, 11, 10, Z, Z, Z>>)

When(ok, insn) == IF ok THEN insn ELSE {}
quadrant0(c, f3) ==
  CASE f3 = 0 -> When(Field(c, 12, 5) # {}, Itype(i_ciw(c), {1}, 0, rdsp(c), 19))    \* ADDI4SPN
    [] f3 = 1 -> Itype(i_cld(c), rs1p(c), 3, rdsp(c), 7)                             \* FLD
    [] f3 = 2 -> Itype(i_clw(c), rs1p(c), 2, rdsp(c), 3)                             \* LW
    [] f3 = 3 -> Itype(i_cld(c), rs1p(c), 3, rdsp(c), 3)                             \* LD
    [] f3 = 4 -> {}
    [] f3 = 5 -> Stype(i_cld(c), rdsp(c), rs1p(c), 3, 39)                            \* FSD
    [] f3 = 6 -> Stype(i_clw(c), rdsp(c), rs1p(c), 2, 35)                            \* SW
    [] f3 = 7 -> Stype(i_cld(c), rdsp(c), rs1p(c), 3, 35)                            \* SD
misc_alu(c) ==
  LET f2 == Unsigned(Field(c, 11, 10))
      k == Unsigned(Cat(c, <<12, 6, 5>>))
      alu(f7, f3, op) == Rtype(f7, rdsp(c), rs1p(c), f3, rs1p(c), op)
  IN CASE f2 = 0 -> Itype(i_shl(c), rs1p(c), 5, rs1p(c), 19)                         \* SRLI
       [] f2 = 1 -> Itype(i_sra(c), rs1p(c), 5, rs1p(c), 19)                         \* SRAI
       [] f2 = 2 -> Itype(i_ci(c), rs1p(c), 7, rs1p(c), 19)                          \* ANDI
       [] f2 = 3 -> CASE k = 0 -> alu(32, 0, 51)                                     \* SUB
                      [] k = 1 -> alu(0, 4, 51)                                      \* XOR
                      [] k = 2 -> alu(0, 6, 51)                                      \* OR
                      [] k = 3 -> alu(0, 7, 51)                                      \* AND
                      [] k = 4 -> alu(32, 0, 59)                                     \* SUBW
                      [] k = 5 -> alu(0, 0, 59)                                      \* ADDW
                      [] k > 5 -> {}
quadrant1(c, f3) ==
  CASE f3 = 0 -> Itype(i_ci(c), rd(c), 0, rd(c), 19)                                 \* ADDI
    [] f3 = 1 -> When(rd(c) # {}, Itype(i_ci(c), rd(c), 0, rd(c), 27))               \* ADDIW
    [] f3 = 2 -> Itype(i_ci(c), {}, 0, rd(c), 19)                                    \* LI
    [] f3 = 3 -> When(Cat(c, <<12, 6, 5, 4, 3, 2>>) # {},
                      IF rd(c) = {1} THEN Itype(i_a16(c), {1}, 0, {1}, 19)           \* ADDI16SP
                      ELSE Utype(i_lui(c), rd(c), 55))                               \* LUI
    [] f3 = 4 -> misc_alu(c)
    [] f3 = 5 -> Jtype(i_cj(c), {}, 111)                                             \* J
    [] f3 = 6 -> Btype(i_cb(c), {}, rs1p(c), 0, 99)                                  \* BEQZ
    [] f3 = 7 -> Btype(i_cb(c), {}, rs1p(c), 1, 99)                                  \* BNEZ
quadrant2(c, f3) ==
  CASE f3 = 0 -> Itype(i_shl(c), rd(c), 1, rd(c), 19)                                \* SLLI
    [] f3 = 1 -> Itype(i_ldsp(c), {1}, 3, rd(c), 7)                                  \* FLDSP
    [] f3 = 2 -> When(rd(c) # {}, Itype(i_lwsp(c), {1}, 2, rd(c), 3))                \* LWSP
    [] f3 = 3 -> When(rd(c) # {}, Itype(i_ldsp(c), {1}, 3, rd(c), 3))                \* LDSP
    [] f3 = 4 /\ rs2(c) # {} ->                                                      \* MV, ADD
         Rtype(0, rs2(c), IF 12 \in c THEN rd(c) ELSE {}, 0, rd(c), 51)
    [] f3 = 4 /\ rs2(c) = {} /\ rd(c) # {} ->                                        \* JR, JALR
         Itype({}, rd(c), 0, IF 12 \in c THEN {0} ELSE {}, 103)
    [] f3 = 4 /\ rs2(c) = {} /\ rd(c) = {} -> When(12 \in c, {20} \cup Num(115))     \* EBREAK
    [] f3 = 5 -> Stype(i_sdsp(c), rs2(c), {1}, 3, 39)                                \* FSDSP
    [] f3 = 6 -> Stype(i_swsp(c), rs2(c), {1}, 2, 35)                                \* SWSP
    [] f3 = 7 -> Stype(i_sdsp(c), rs2(c), {1}, 3, 35)                                \* SDSP
rvc_expand(c) ==
  LET f3 == Unsigned(Field(c, 15, 13))
  IN CASE Field(c, 1, 0) = {} -> quadrant0(c, f3)
       [] Field(c, 1, 0) = {0} -> quadrant1(c, f3)
       [] Field(c, 1, 0) = {1} -> quadrant2(c, f3)
       [] Field(c, 1, 0) = {0, 1} -> {}

\* decode_slot (EXPANDED = 0): a word whose low two bits are not 11 is a parcel.
is_c(inst) == Field(inst, 1, 0) # {0, 1}
full(inst) == IF is_c(inst) THEN rvc_expand(Field(inst, 15, 0)) ELSE inst
=============================================================================
