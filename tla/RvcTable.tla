------------------------------ MODULE RvcTable ------------------------------
(* RVC64_EXPANDED, the table of tools/rvc.rs: 65536 instruction words, the one at index h *)
(* the expansion of the parcel h, four consecutive words one per quadrant.  Its contents, *)
(* read off the table, in arithmetic: a parcel is a number, an immediate an integer, and  *)
(* a word is laid out by its instruction format.  None of it is uncompress's bit moves.   *)
EXTENDS Bits

F(h, hi, lo) == (h \div 2^lo) % 2^(hi - lo + 1)
Put(n, w, at) == {b + at : b \in BitsOf(n, w)}
Zero == {}

\* The instruction formats: the low bits of an integer immediate, where each format puts them.
TypeI(imm, rs1, f3, rd, op) ==
  Put(imm, 12, 20) \cup Put(rs1, 5, 15) \cup Put(f3, 3, 12) \cup Put(rd, 5, 7) \cup Put(op, 7, 0)
TypeR(f7, rs2, rs1, f3, rd, op) == TypeI(32 * f7 + rs2, rs1, f3, rd, op)
TypeS(imm, rs2, rs1, f3, op) == TypeR(F(imm, 11, 5), rs2, rs1, f3, F(imm, 4, 0), op)
TypeB(imm, rs2, rs1, f3, op) ==
  TypeR(64 * F(imm, 12, 12) + F(imm, 10, 5), rs2, rs1, f3, 2 * F(imm, 4, 1) + F(imm, 11, 11), op)
TypeU(imm20, rd, op) == Put(imm20, 20, 12) \cup Put(rd, 5, 7) \cup Put(op, 7, 0)
TypeJ(imm, rd, op) ==
  TypeU(2^19 * F(imm, 20, 20) + 2^9 * F(imm, 10, 1) + 2^8 * F(imm, 11, 11) + F(imm, 19, 12), rd, op)

\* The integers the parcels encode.
Simm6(h) == F(h, 6, 2) - 32 * F(h, 12, 12)
Ubytes(h, w) ==     \* the offset of a doubleword (w = 8) or word (w = 4) access, register-based
  8 * F(h, 12, 10) + (IF w = 8 THEN 64 * F(h, 6, 5) ELSE 64 * F(h, 5, 5) + 4 * F(h, 6, 6))
UbytesSP(h, w) ==   \* ... a stack load's
  32 * F(h, 12, 12) + (IF w = 8 THEN 64 * F(h, 4, 2) + 8 * F(h, 6, 5) ELSE 64 * F(h, 3, 2) + 4 * F(h, 6, 4))
UbytesSPst(h, w) == \* ... a stack store's
  IF w = 8 THEN 64 * F(h, 9, 7) + 8 * F(h, 12, 10) ELSE 64 * F(h, 8, 7) + 4 * F(h, 12, 9)
Jump(h) ==
  1024 * F(h, 8, 8) + 256 * F(h, 10, 9) + 128 * F(h, 6, 6) + 64 * F(h, 7, 7) + 32 * F(h, 2, 2)
    + 16 * F(h, 11, 11) + 2 * F(h, 5, 3) - 2048 * F(h, 12, 12)
Disp(h) ==
  64 * F(h, 6, 5) + 32 * F(h, 2, 2) + 8 * F(h, 11, 10) + 2 * F(h, 4, 3) - 256 * F(h, 12, 12)
\* The full register fields, and the fields of x8..x15.
x(h) == F(h, 11, 7)
y(h) == F(h, 6, 2)
xc(h) == 8 + F(h, 9, 7)
yc(h) == 8 + F(h, 4, 2)

\* A row of the table: the words of four consecutive parcels, by quadrant; the last is no
\* compressed instruction.
Pick(h, q0, q1, q2) ==
  CASE h % 4 = 0 -> q0 [] h % 4 = 1 -> q1 [] h % 4 = 2 -> q2 [] h % 4 = 3 -> Zero
Unless(reserved, w) == IF reserved THEN Zero ELSE w

\* The parcels of funct3 000 .. 011.
Rows000(h) ==       \* addi4spn, addi, slli
  LET nzu == 64 * F(h, 10, 7) + 16 * F(h, 12, 11) + 8 * F(h, 5, 5) + 4 * F(h, 6, 6)
  IN Pick(h, Unless(nzu = 0, TypeI(nzu, 2, 0, yc(h), 19)),
             TypeI(Simm6(h), x(h), 0, x(h), 19),
             TypeI(32 * F(h, 12, 12) + y(h), x(h), 1, x(h), 19))
Rows001(h) ==       \* fld, addiw, fldsp
  Pick(h, TypeI(Ubytes(h, 8), xc(h), 3, yc(h), 7),
          Unless(x(h) = 0, TypeI(Simm6(h), x(h), 0, x(h), 27)),
          TypeI(UbytesSP(h, 8), 2, 3, x(h), 7))
Rows010(h) ==       \* lw, li, lwsp
  Pick(h, TypeI(Ubytes(h, 4), xc(h), 2, yc(h), 3),
          TypeI(Simm6(h), 0, 0, x(h), 19),
          Unless(x(h) = 0, TypeI(UbytesSP(h, 4), 2, 2, x(h), 3)))
Rows011(h) ==       \* ld, addi16sp or lui, ldsp
  LET a16 == 128 * F(h, 4, 3) + 64 * F(h, 5, 5) + 32 * F(h, 2, 2) + 16 * F(h, 6, 6) - 512 * F(h, 12, 12)
  IN Pick(h, TypeI(Ubytes(h, 8), xc(h), 3, yc(h), 3),
             Unless(Simm6(h) = 0, IF x(h) = 2 THEN TypeI(a16, 2, 0, 2, 19) ELSE TypeU(Simm6(h), x(h), 55)),
             Unless(x(h) = 0, TypeI(UbytesSP(h, 8), 2, 3, x(h), 3)))

\* The parcels of funct3 100, by bits [12:10]: reserved in quadrant 0; an operation on
\* x8..x15 in quadrant 1; jr or mv (bit 12 clear), ebreak, jalr or add (set) in quadrant 2.
JrMv(h) ==
  CASE y(h) # 0 -> TypeR(0, y(h), 0, 0, x(h), 51)
    [] y(h) = 0 /\ x(h) # 0 -> TypeI(0, x(h), 0, 0, 103)
    [] y(h) = 0 /\ x(h) = 0 -> Zero
JalrAdd(h) ==
  CASE y(h) # 0 -> TypeR(0, y(h), x(h), 0, x(h), 51)
    [] y(h) = 0 /\ x(h) # 0 -> TypeI(0, x(h), 0, 1, 103)
    [] y(h) = 0 /\ x(h) = 0 -> TypeI(1, 0, 0, 0, 115)
Rows100_000(h) == Pick(h, Zero, TypeI(y(h), xc(h), 5, xc(h), 19), JrMv(h))               \* srli
Rows100_001(h) == Pick(h, Zero, TypeI(1024 + y(h), xc(h), 5, xc(h), 19), JrMv(h))        \* srai
Rows100_010(h) == Pick(h, Zero, TypeI(y(h), xc(h), 7, xc(h), 19), JrMv(h))               \* andi
Rows100_011(h) ==                                                         \* sub, xor, or, and
  Pick(h, Zero, CASE F(h, 6, 5) = 0 -> TypeR(32, yc(h), xc(h), 0, xc(h), 51)
                  [] F(h, 6, 5) # 0 -> TypeR(0, yc(h), xc(h), <<4, 6, 7>>[F(h, 6, 5)], xc(h), 51), JrMv(h))
Rows100_100(h) == Pick(h, Zero, TypeI(32 + y(h), xc(h), 5, xc(h), 19), JalrAdd(h))       \* srli
Rows100_101(h) == Pick(h, Zero, TypeI(1056 + y(h), xc(h), 5, xc(h), 19), JalrAdd(h))     \* srai
Rows100_110(h) == Pick(h, Zero, TypeI(y(h) - 32, xc(h), 7, xc(h), 19), JalrAdd(h))       \* andi
Rows100_111(h) ==                                                               \* subw, addw
  Pick(h, Zero, Unless(F(h, 6, 5) > 1, TypeR(32 * (1 - F(h, 6, 5)), yc(h), xc(h), 0, xc(h), 59)), JalrAdd(h))

\* The parcels of funct3 101 .. 111.
Rows101(h) ==       \* fsd, j, fsdsp
  Pick(h, TypeS(Ubytes(h, 8), yc(h), xc(h), 3, 39), TypeJ(Jump(h), 0, 111),
          TypeS(UbytesSPst(h, 8), y(h), 2, 3, 39))
Rows110(h) ==       \* sw, beqz, swsp
  Pick(h, TypeS(Ubytes(h, 4), yc(h), xc(h), 2, 35), TypeB(Disp(h), 0, xc(h), 0, 99),
          TypeS(UbytesSPst(h, 4), y(h), 2, 2, 35))
Rows111(h) ==       \* sd, bnez, sdsp
  Pick(h, TypeS(Ubytes(h, 8), yc(h), xc(h), 3, 35), TypeB(Disp(h), 0, xc(h), 1, 99),
          TypeS(UbytesSPst(h, 8), y(h), 2, 3, 35))

RVC64_EXPANDED(h) ==
  LET f == F(h, 15, 13)
      m == F(h, 12, 10)
  IN CASE f = 0 -> Rows000(h) [] f = 1 -> Rows001(h) [] f = 2 -> Rows010(h) [] f = 3 -> Rows011(h)
       [] f = 4 /\ m = 0 -> Rows100_000(h) [] f = 4 /\ m = 1 -> Rows100_001(h)
       [] f = 4 /\ m = 2 -> Rows100_010(h) [] f = 4 /\ m = 3 -> Rows100_011(h)
       [] f = 4 /\ m = 4 -> Rows100_100(h) [] f = 4 /\ m = 5 -> Rows100_101(h)
       [] f = 4 /\ m = 6 -> Rows100_110(h) [] f = 4 /\ m = 7 -> Rows100_111(h)
       [] f = 5 -> Rows101(h) [] f = 6 -> Rows110(h) [] f = 7 -> Rows111(h)
=============================================================================
