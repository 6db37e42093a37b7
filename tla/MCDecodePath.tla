---------------------------- MODULE MCDecodePath ----------------------------
(* Every parcel, with two upper halves; and of the 32-bit instructions every operation of *)
(* RV64IMA, Zicsr, the privileged ones and the FP loads and stores, over the operands     *)
(* Regs and Imms that reach every pseudo-instruction and every immediate's edges, each    *)
(* atomic with every aq and rl, and fences with full, partial and TSO sets.               *)
EXTENDS DecodePath, FiniteSets

Regs == {0, 1, 10, 31}
Imms == {-2048, -1, 0, 5, 2047}
Far == {-1048576, -2, 0, 2048, 1048574}
Near == {-4096, -2, 0, 2048, 4094}
Uppers == {0, 1, 2^19, 2^20 - 1}
AqRl == 0..3                        \* funct7's low bits
Fences == {16, 18, 33, 51, 255, -1997}  \* pred and succ: w,-; w,r; r,w; rw,rw; all; fence.tso

Is(op, f3s) == {T!TypeI(i, a, k, d, op) : i \in Imms, a \in Regs, k \in f3s, d \in Regs}
Ss(op, f3s) == {T!TypeS(i, b, a, k, op) : i \in Imms, b \in Regs, a \in Regs, k \in f3s}
Rs(op, f7s, f3s) == {T!TypeR(f, b, a, k, d, op) : f \in f7s, b \in Regs, a \in Regs, k \in f3s, d \in Regs}
Shifts(op, top, s, k) == {T!TypeI(top + n, a, k, d, op) : n \in s, a \in Regs, d \in Regs}
Csrs == {T!TypeI(c, a, k, d, 115) : c \in {0, 4095} \cup DOMAIN D!CSRS, a \in {0, 7}, k \in {1, 2, 3, 5, 6, 7}, d \in {0, 9}}
Words ==
  UNION {Is(3, 0..6), Is(7, {2, 3}), Is(103, {0}), Is(19, {0, 2, 3, 4, 6, 7}), Is(27, {0}),
         Ss(35, 0..3), Ss(39, {2, 3}),
         Rs(51, {0, 1}, 0..7), Rs(51, {32}, {0, 5}),
         Rs(59, {0}, {0, 1, 5}), Rs(59, {1}, {0, 4, 5, 6, 7}), Rs(59, {32}, {0, 5}),
         Rs(47, {n + o : n \in {0, 4, 12, 16, 32, 48, 64, 80, 96, 112}, o \in AqRl}, {2, 3}),
         {T!TypeR(8 + o, 0, a, k, d, 47) : o \in AqRl, a \in Regs, k \in {2, 3}, d \in Regs},
         {T!TypeR(9, b, a, 0, 0, 115) : a \in Regs, b \in Regs},
         Shifts(19, 0, {0, 31, 32, 63}, 1), Shifts(19, 0, {0, 31, 32, 63}, 5), Shifts(19, 1024, {0, 31, 32, 63}, 5),
         Shifts(27, 0, {0, 31}, 1), Shifts(27, 0, {0, 31}, 5), Shifts(27, 1024, {0, 31}, 5),
         {T!TypeU(u, d, op) : u \in Uppers, d \in Regs, op \in {23, 55}},
         {T!TypeJ(j, d, 111) : j \in Far, d \in Regs},
         {T!TypeB(j, b, a, k, 99) : j \in Near, b \in Regs, a \in Regs, k \in {0, 1, 4, 5, 6, 7}},
         {T!TypeI(n, 0, 0, 0, 115) : n \in {0, 1, 258, 261, 770}},
         {T!TypeI(n, 0, 0, 0, 15) : n \in Fences}, {T!TypeI(0, 0, 1, 0, 15)}, Csrs}

Halves == {{}, 16..31}
Parcel(h) == T!Put(h, 16, 0)
MCInit ==
  \/ \E h \in 0..65535, u \in Halves : h % 4 # 3 /\ LoadBundle(Parcel(h) \cup u)
  \/ \E w \in Words : LoadBundle(w)
MCSpec == MCInit /\ [][Next]_vars
=============================================================================
