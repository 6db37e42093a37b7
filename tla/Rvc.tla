-------------------------------- MODULE Rvc ---------------------------------
(* uncompress, the compressed-instruction oracle of tools/rvc.rs: it expands a 16-bit     *)
(* parcel c by shifts and masks.  A parcel and an instruction are sets of bits (Bits).    *)
EXTENDS Bits

\* (c >> n) & mask and (c << n) & mask
R(c, n, mask) == Shr(c, n) \cap mask
L(c, n, mask) == Shl(c, n) \cap mask
Illegal == {}                         \* the word 0
\* insn16 & 0x1000, spread over the bits from `from` up
Spread(c, from) == IF 12 \in c THEN from..31 ELSE {}
\* the 32-bit word of the fields every arm ors together
Or(hi, rs1, f3, rd, op) ==
  Shl(hi, 20) \cup Shl(rs1, 15) \cup Shl(BitsOf(f3, 3), 12) \cup Shl(rd, 7) \cup BitsOf(op, 7)
\* a store's or a branch's word: imm_hi << 25, rs2 << 20
OrS(imm_hi, rs2, rs1, f3, imm_lo, op) == Or(Shl(imm_hi, 5) \cup rs2, rs1, f3, imm_lo, op)

Reg(c, at) == R(c, at, 0..4)          \* a full register field
Reg8(c, at) == R(c, at, 0..2) \cup {3}  \* (three bits) + 8
X1 == {0}
SP == {1}

\* The offsets of loads and stores.
off_d(c) == R(c, 7, 3..5) \cup L(c, 1, {6, 7})                      \* FLD LD FSD SD
off_w(c) == R(c, 7, 3..5) \cup R(c, 4, {2}) \cup L(c, 1, {6})       \* LW SW
off_dsp(c) == R(c, 7, {5}) \cup R(c, 2, {3, 4}) \cup L(c, 4, 6..8)  \* FLDSP LDSP
off_wsp(c) == R(c, 7, {5}) \cup R(c, 2, 2..4) \cup L(c, 4, {6, 7})  \* LWSP
off_sdsp(c) == R(c, 7, 3..5) \cup R(c, 1, 6..8)                     \* FSDSP SDSP
off_swsp(c) == R(c, 7, 2..5) \cup R(c, 1, {6, 7})                   \* SWSP
imm6(c) == Spread(c, 6) \cup R(c, 7, {5}) \cup R(c, 2, 0..4)        \* ADDI ADDIW LI ANDI
shamt(c) == R(c, 7, {5}) \cup R(c, 2, 0..4)

ADDI4SPN(c) ==
  LET nzuimm == R(c, 7, {4, 5}) \cup R(c, 1, 6..9) \cup R(c, 4, {2}) \cup R(c, 2, {3})
  IN IF nzuimm = {} THEN Illegal ELSE Or(nzuimm, SP, 0, Reg8(c, 2), 19)

\* Quadrant 0: the loads, the reserved encoding, the stores (imm11_5 has seven bits here).
Load8(c, off, f3, op) == Or(off, Reg8(c, 7), f3, Reg8(c, 2), op)
Store8(c, off, f3, op) == OrS(R(off, 5, 0..6), Reg8(c, 2), Reg8(c, 7), f3, off \cap (0..4), op)
FLD(c) == Load8(c, off_d(c), 3, 7)
LW(c) == Load8(c, off_w(c), 2, 3)
LD(c) == Load8(c, off_d(c), 3, 3)
FSD(c) == Store8(c, off_d(c), 3, 39)
SW(c) == Store8(c, off_w(c), 2, 35)
SD(c) == Store8(c, off_d(c), 3, 35)
Quadrant0(c, funct3) ==
  CASE funct3 = 0 -> ADDI4SPN(c)
    [] funct3 = 1 -> FLD(c)
    [] funct3 = 2 -> LW(c)
    [] funct3 = 3 -> LD(c)
    [] funct3 = 4 -> Illegal
    [] funct3 = 5 -> FSD(c)
    [] funct3 = 6 -> SW(c)
    [] funct3 = 7 -> SD(c)

ADDI(c) == Or(imm6(c), Reg(c, 7), 0, Reg(c, 7), 19)
ADDIW(c) == IF Reg(c, 7) = {} THEN Illegal ELSE Or(imm6(c), Reg(c, 7), 0, Reg(c, 7), 27)
LI(c) == Or(imm6(c), {}, 0, Reg(c, 7), 19)
ADDI16SPAnyImm(c) ==
  LET imm == Spread(c, 10) \cup R(c, 3, {9}) \cup R(c, 2, {4}) \cup L(c, 1, {6})
               \cup L(c, 4, {7, 8}) \cup L(c, 3, {5})
  IN Or(imm, SP, 0, SP, 19)
ADDI16SP(c) ==
  LET imm == Spread(c, 10) \cup R(c, 3, {9}) \cup R(c, 2, {4}) \cup L(c, 1, {6})
               \cup L(c, 4, {7, 8}) \cup L(c, 3, {5})
  IN IF imm = {} THEN Illegal ELSE Or(imm, SP, 0, SP, 19)
LUI(c) ==
  LET nzimm == Spread(c, 18) \cup L(c, 5, {17}) \cup L(c, 10, 12..16)
  IN IF nzimm = {} THEN Illegal ELSE nzimm \cup Shl(Reg(c, 7), 7) \cup BitsOf(55, 7)

\* The register-immediate and register-register operations on x8..x15.
SRLI(c) == Or(shamt(c), Reg8(c, 7), 5, Reg8(c, 7), 19)
SRAI(c) == Shl({5}, 25) \cup Or(shamt(c), Reg8(c, 7), 5, Reg8(c, 7), 19)
ANDI(c) == Or(imm6(c), Reg8(c, 7), 7, Reg8(c, 7), 19)
Alu(c, f7, f3, op) == Shl(f7, 25) \cup Or(Reg8(c, 2), Reg8(c, 7), f3, Reg8(c, 7), op)
AluOp(c) ==
  LET funct2_2 == Unsigned(R(c, 5, {0, 1}))
  IN IF 12 \notin c
     THEN CASE funct2_2 = 0 -> Alu(c, {5}, 0, 51)       \* SUB
            [] funct2_2 = 1 -> Alu(c, {}, 4, 51)        \* XOR
            [] funct2_2 = 2 -> Alu(c, {}, 6, 51)        \* OR
            [] funct2_2 = 3 -> Alu(c, {}, 7, 51)        \* AND
     ELSE CASE funct2_2 = 0 -> Alu(c, {5}, 0, 59)       \* SUBW
            [] funct2_2 = 1 -> Alu(c, {}, 0, 59)        \* ADDW
            [] OTHER -> Illegal
MiscAlu(c) ==
  LET funct2 == Unsigned(R(c, 10, {0, 1}))
  IN CASE funct2 = 0 -> SRLI(c)
       [] funct2 = 1 -> SRAI(c)
       [] funct2 = 2 -> ANDI(c)
       [] funct2 = 3 -> AluOp(c)

J(c) ==
  LET offset == Spread(c, 12) \cup R(c, 1, {11}) \cup R(c, 7, {4}) \cup R(c, 1, {8, 9})
                  \cup L(c, 2, {10}) \cup R(c, 1, {6}) \cup L(c, 1, {7}) \cup R(c, 2, 1..3)
                  \cup L(c, 3, {5})
      imm == R(offset, 1, {19}) \cup L(offset, 8, 9..18) \cup R(offset, 3, {8}) \cup R(offset, 12, 0..7)
  IN Shl(imm, 12) \cup BitsOf(111, 7)
Branch(c, f3) ==
  LET offset == Spread(c, 9) \cup R(c, 4, {8}) \cup R(c, 7, {3, 4}) \cup L(c, 1, {6, 7})
                  \cup R(c, 2, {1, 2}) \cup L(c, 3, {5})
      imm2 == R(offset, 6, {6}) \cup R(offset, 5, 0..5)
      imm1 == (offset \cap (1..4)) \cup R(offset, 11, {0})
  IN OrS(imm2, {}, Reg8(c, 7), f3, imm1, 99)
BEQZ(c) == Branch(c, 0)
BNEZ(c) == Branch(c, 1)
Quadrant1(c, funct3) ==
  CASE funct3 = 0 -> ADDI(c)
    [] funct3 = 1 -> ADDIW(c)
    [] funct3 = 2 -> LI(c)
    [] funct3 = 3 -> IF Reg(c, 7) = SP THEN ADDI16SP(c) ELSE LUI(c)
    [] funct3 = 4 -> MiscAlu(c)
    [] funct3 = 5 -> J(c)
    [] funct3 = 6 -> BEQZ(c)
    [] funct3 = 7 -> BNEZ(c)

SLLI(c) == Or(shamt(c), Reg(c, 7), 1, Reg(c, 7), 19)
FLDSP(c) == Or(off_dsp(c), SP, 3, Reg(c, 7), 7)
LWSP(c) == IF Reg(c, 7) = {} THEN Illegal ELSE Or(off_wsp(c), SP, 2, Reg(c, 7), 3)
LDSP(c) == IF Reg(c, 7) = {} THEN Illegal ELSE Or(off_dsp(c), SP, 3, Reg(c, 7), 3)
\* C.JR, C.MV, C.EBREAK, C.JALR and C.ADD share funct3 100: bit 12 and the two registers tell.
JumpMove(c) ==
  LET rs1 == Reg(c, 7)
      rs2 == Reg(c, 2)
  IN IF 12 \notin c
     THEN CASE rs1 = {} /\ rs2 = {} -> Illegal
            [] rs1 # {} /\ rs2 = {} -> Or({}, rs1, 0, {}, 103)
            [] OTHER -> Or(rs2, {}, 0, rs1, 51)
     ELSE CASE rs1 = {} /\ rs2 = {} -> {20} \cup BitsOf(115, 7)
            [] rs1 # {} /\ rs2 = {} -> Or({}, rs1, 0, X1, 103)
            [] OTHER -> Or(rs2, rs1, 0, rs1, 51)
\* Quadrant 2's stores: imm11_5 has six bits here.
StoreSP(c, off, f3, op) == OrS(R(off, 5, 0..5), Reg(c, 2), SP, f3, off \cap (0..4), op)
FSDSP(c) == StoreSP(c, off_sdsp(c), 3, 39)
SWSP(c) == StoreSP(c, off_swsp(c), 2, 35)
SDSP(c) == StoreSP(c, off_sdsp(c), 3, 35)
Quadrant2(c, funct3) ==
  CASE funct3 = 0 -> SLLI(c)
    [] funct3 = 1 -> FLDSP(c)
    [] funct3 = 2 -> LWSP(c)
    [] funct3 = 3 -> LDSP(c)
    [] funct3 = 4 -> JumpMove(c)
    [] funct3 = 5 -> FSDSP(c)
    [] funct3 = 6 -> SWSP(c)
    [] funct3 = 7 -> SDSP(c)

\* Defined on quadrants 0, 1 and 2 (`unreachable!` on 3, which its test skips).
uncompress(c) ==
  LET funct3 == Unsigned(R(c, 13, 0..2))
  IN CASE c \cap {0, 1} = {} -> Quadrant0(c, funct3)
       [] c \cap {0, 1} = {0} -> Quadrant1(c, funct3)
       [] c \cap {0, 1} = {1} -> Quadrant2(c, funct3)
=============================================================================
