------------------------------ MODULE Encoding ------------------------------
(* A client writes an address as a sum, term by term, and passes it with    *)
(* registers and immediates to an instruction; the processor must read from *)
(* the bytes what the client wrote. i is the last instruction emitted, expr *)
(* the RegExp under construction. sum and want are history: what the client *)
(* wrote, in the terms of Processor. A call that throws changes nothing.    *)
EXTENDS Processor, FiniteSets
CONSTANTS AddrTerms,      \* [reg, scale]: terms of addresses
          Offsets, Pointers,      \* displacements and addresses
          Gps, Vecs,      \* registers used as operands
          MemAttrs, RegAttrs,      \* what is written on vector operands: see Attrs
          Imms            \* immediate values
\* The registers that there are.
GpRegs == {Gp(n, bit) : n \in 0..31, bit \in {8, 16, 32, 64}} \cup {Ext8(n) : n \in 4..7}
VecRegs == {Vec(n, bit) : n \in 0..31, bit \in {128, 256, 512}}

\* An opmask, {z} and rounding (1 to 4, or 5 for {sae}) on the first register;
\* with onMem the mask is written on the address.
Attrs == [broadcast : BOOLEAN, mask : 0..7, zero : BOOLEAN, rnd : 0..5, onMem : BOOLEAN]

ASSUME EncodingAssumption ==
  /\ AddrTerms \subseteq [reg : GpRegs \cup VecRegs, scale : Int \ {0}]      \* [reg * 0] is no term
  /\ Offsets \subseteq Int /\ Pointers \subseteq Int /\ Here \in Int
  /\ Gps \subseteq GpRegs /\ Vecs \subseteq VecRegs /\ Imms \subseteq Int
  /\ MemAttrs \subseteq Attrs /\ RegAttrs \subseteq Attrs
VARIABLES expr, sum, i, want
vars == <<expr, sum, i, want>>

None == [none |-> TRUE]
NoAttr == [broadcast |-> FALSE, mask |-> 0, zero |-> FALSE, rnd |-> 0]

(* Instructions, one for each way in which the mnemonics call the encoder.  *)
Op(shape, type) ==
  [shape |-> shape, type |-> type, imm |-> "none", tuple |-> "scalar", element |-> 0, hasV |-> FALSE, sae |-> FALSE]
VecOp(type, tuple, element, hasV) ==
  [Op("vec", type) EXCEPT !.tuple = tuple, !.element = element, !.hasV = hasV]

add == Op("int8", {})
cmov == Op("int", {"0F"})
movzx8 == Op("movx8", {"0F", "DIFF"})
movzx16 == Op("movx16", {"0F", "DIFF"})
addps == Op("vec", {"0F"})
pshufd == [Op("vec", {"66", "0F"}) EXCEPT !.imm = "ib"]
pshufb == Op("vec", {"66", "0F38"})
movbe == Op("int", {"0F38"})
vaddps == VecOp({"0F", "W0", "YMM", "EVEX", "ER_Z", "B32"}, "full", 4, TRUE)
vaddpd == VecOp({"66", "0F", "EW1", "YMM", "EVEX", "ER_Z", "B64"}, "full", 8, TRUE)
vaddss == VecOp({"F3", "0F", "W0", "EVEX", "ER_X", "N4"}, "scalar", 4, TRUE)
vmaxps == [VecOp({"0F", "W0", "YMM", "EVEX", "SAE_Z", "B32"}, "full", 4, TRUE) EXCEPT !.sae = TRUE]
vcvtps2pd == VecOp({"0F", "YMM", "EVEX", "W0", "B32", "N8", "N_VL", "SAE_Y"}, "half", 4, FALSE)
vpmovzxbq == VecOp({"N2", "N_VL", "66", "0F38", "YMM", "EVEX"}, "eighth", 0, FALSE)
vmovddup == VecOp({"DUP", "F2", "0F", "EW1", "YMM", "EVEX"}, "movddup", 0, FALSE)
vextractf32x4 ==
  [VecOp({"N16", "66", "0F3A", "W0", "YMM", "MUST_EVEX", "M_K"}, "mem128", 0, FALSE) EXCEPT !.imm = "ib"]
vgatherdps == [VecOp({"0F38", "66", "YMM", "VSIB", "W0"}, "scalar", 4, TRUE) EXCEPT !.shape = "gather"]
vgatherdpsEvex ==
  [VecOp({"N4", "66", "0F38", "W0", "YMM", "MUST_EVEX", "VSIB"}, "scalar", 4, FALSE) EXCEPT !.shape = "gather"]
andn == [Op("int", {"APX", "0F38", "NF"}) EXCEPT !.hasV = TRUE]
add3 == Op("int8", {"NF", "CODE1"})
cmov3 == Op("int", {"APX", "ND1"})

LegacyOps == {add, cmov, movzx8, movzx16, movbe, addps, pshufb, pshufd}
VexOps == {vaddps, vaddpd, vaddss, vmaxps, vcvtps2pd, vpmovzxbq, vmovddup, vextractf32x4, vgatherdps, vgatherdpsEvex}

-----------------------------------------------------------------------------
(* Sums.                                                                   *)

\* coef counts each register; once is set while none was written twice.
NoSum ==
  [coef |-> Linear(NoReg, NoReg, 0), disp |-> 0, label |-> FALSE, rip |-> FALSE, asPtr |-> FALSE, once |-> TRUE]
RegTerms == [kind : {"reg"}, t : AddrTerms]
Terms == RegTerms \cup [kind : {"disp"}, t : Offsets] \cup [kind : {"ptr"}, t : Pointers]
           \cup [kind : {"label", "rip"}, t : {0}]
ExprOf(x) ==
  CASE x.kind = "reg" -> RegTerm(x.t.reg, x.t.scale)
    [] x.kind = "disp" -> DispTerm(x.t)
    [] x.kind = "ptr" -> PtrTerm(x.t)
    [] x.kind = "label" -> LabelTerm
    [] x.kind = "rip" -> RipTerm
AddTerm(s, x) ==
  CASE x.kind = "reg" ->
         LET regs == DOMAIN s.coef
             old == [r \in regs \cup {x.t.reg} |-> IF r \in regs THEN s.coef[r] ELSE 0]
         IN  [s EXCEPT !.coef = [old EXCEPT ![x.t.reg] = @ + x.t.scale], !.once = s.once /\ x.t.reg \notin regs]
    [] x.kind \in {"disp", "ptr"} -> [s EXCEPT !.disp = SizeT(@ + x.t), !.asPtr = @ \/ x.kind = "ptr"]
    [] x.kind = "label" -> [s EXCEPT !.label = TRUE]
    [] x.kind = "rip" -> [s EXCEPT !.rip = TRUE]

Idle == expr = None /\ i = None
TermOk(x) == x.kind = "reg" => RegTermOk(x.t.reg, x.t.scale)
Init == expr = None /\ sum = NoSum /\ i = None /\ want = None

Start == Idle /\ \E x \in Terms :
  /\ TermOk(x)
  /\ expr' = ExprOf(x) /\ sum' = AddTerm(NoSum, x)
  /\ UNCHANGED <<i, want>>

\* operator+, with the new term on either side. One displacement is enough.
Extend == \E x \in Terms, right \in BOOLEAN :
  LET a == IF right THEN expr ELSE ExprOf(x)
      b == IF right THEN ExprOf(x) ELSE expr
  IN  /\ expr # None /\ TermOk(x) /\ (x.kind \in {"disp", "ptr"} => sum.disp = 0)
      /\ PlusOk(a, b)
      /\ expr' = Plus(a, b) /\ sum' = AddTerm(sum, x)
      /\ UNCHANGED <<i, want>>
Subtract == \E d \in Offsets :
  /\ expr # None /\ sum.disp = 0
  /\ expr' = Minus(expr, d) /\ sum' = [sum EXCEPT !.disp = SizeT(@ - d)]
  /\ UNCHANGED <<i, want>>

-----------------------------------------------------------------------------
(* Instructions. The address is dropped when an instruction has used it.   *)
Written(reg, v, rm, s, regFirst, attr, imm) ==
  [reg |-> reg, v |-> v, rm |-> rm, mem |-> s # None, sum |-> IF s = None THEN NoSum ELSE s,
   regFirst |-> regFirst, attr |-> attr, imm |-> imm]

\* regField says what the reg field of ModRM is; dir is set when it is the first
\* source.
Emit(o, regField, dir, parts, imm, w) ==
  /\ i' = [p |-> parts.p, m |-> parts.m, imm |-> imm,
           opc |-> [shape |-> o.shape, imm |-> o.imm, tuple |-> o.tuple, element |-> o.element, hasV |-> o.hasV,
                    sae |-> o.sae, code1 |-> parts.code1, reg |-> regField, dir |-> dir, type |-> o.type]]
  /\ want' = w
  /\ expr' = None /\ sum' = NoSum

\* The next instruction, or another expression after a call that threw.
Continue == ~Idle /\ expr' = None /\ sum' = NoSum /\ i' = None /\ want' = None
Imm8(o) == IF o.imm = "none" THEN {NoImm} ELSE {Immediate(1, FALSE, 5)}

\* The address of an operand, of any size that the client may state.
HasAddress == expr # None /\ VerifyOk(expr)
MemOp(bit) == Address(bit, FALSE, 0, expr)

\* Registers, or memory of a stated size.
RmOps(bits) == {r \in Gps : Idle /\ r.bit \in bits} \cup {MemOp(b) : b \in {n \in bits : HasAddress}}

\* Registers and sizes that the mnemonics accept (opMovxx, opSSE, movbe); the size
\* of an address may be left open.
SameBit(S, bit) == {r \in S : r.bit = bit}
SourceBit(o, r) == CASE o.shape = "movx8" -> 8 [] o.shape = "movx16" -> 16 [] OTHER -> r.bit
LegacyRegs(o) ==
  CASE o.shape = "vec" -> {r \in Vecs : r.bit = 128 /\ r.idx < 16}
    [] o.shape = "int8" -> Gps
    [] OTHER -> {r \in Gps : r.bit > SourceBit(o, Gp(0, 8))}

\* opRO, opMR, opSSE and opRO_MR with a memory operand. The type2 of opMR is the
\* APX form of movbe, which is in map 4.
SourceSizes(o, r) ==
  IF o.shape \in {"movx8", "movx16"} THEN {SourceBit(o, r)} ELSE {0, r.bit}
LegacyM == HasAddress /\ \E o \in LegacyOps, load \in BOOLEAN :
  (load \/ o = add) /\ \E r \in LegacyRegs(o), imm \in Imm8(o) : \E bit \in SourceSizes(o, r) :
  LET addr == [MemOp(bit) EXCEPT !.immSize = imm.size]
      apx == o = movbe /\ OpROOApplies(NoReg, addr, r, {"APX"})
      parts == IF apx THEN OpROO(NoReg, addr, r, {"APX"}, 0) ELSE OpMR(addr, r, o.type)
  IN  /\ IF apx THEN OpROOOk(addr, r, {"APX"}) ELSE OpMROk(addr, r, o.type)
      /\ Emit(IF apx THEN [o EXCEPT !.type = {"APX"}] ELSE o, "modrm", load, parts, imm,
              Written(r, NoReg, NoReg, sum, load, NoAttr, imm.value))
LegacyR == Idle /\ \E o \in LegacyOps \ {movbe} : \E r1 \in LegacyRegs(o), r2 \in Gps \cup Vecs, imm \in Imm8(o) :
  /\ IF o.shape = "vec" THEN r2 \in LegacyRegs(o) ELSE IsGp(r2)
  /\ o.shape \in {"movx8", "movx16"} => r2.bit = SourceBit(o, r1)
  /\ OpRROk(r1, r2, o.type)
  /\ Emit(o, "modrm", FALSE, OpRR(r1, r2, o.type), imm, Written(r1, NoReg, r2, None, FALSE, NoAttr, imm.value))

\* opVex, called through opAVX_X_X_XM, opCvt1, opGather and opGather2. The index
\* of a gather is as wide as its operand here.
VexRegs(o) == {r \in Vecs : (r.bit > 128 => "YMM" \in o.type) /\ (o = vextractf32x4 => r.bit > 128)}
VectorM == HasAddress /\ \E o \in VexOps, a \in MemAttrs : \E r \in VexRegs(o), imm \in Imm8(o) :
  \E v \in IF o.hasV THEN SameBit(Vecs, r.bit) ELSE {NoReg} :
  LET addr == Address(0, a.broadcast, IF a.onMem THEN a.mask ELSE 0, expr)
      attr == [NoAttr EXCEPT !.mask = IF a.onMem THEN 0 ELSE a.mask, !.zero = a.zero]
      vv == IF o.hasV THEN v ELSE Vec(0, r.bit)
  IN  /\ o.shape = "gather" =>
           /\ IsVsib(expr) /\ expr.index.bit = r.bit /\ expr.index.idx # r.idx
           /\ IF o.hasV THEN attr.mask = 0 /\ r.bit < 512 /\ v.idx \notin {r.idx, expr.index.idx}
              ELSE attr.mask # 0 /\ ~a.zero
      /\ OpVexOk(r, vv, addr, o.type, attr)
      /\ Emit(o, "modrm", TRUE, OpVex(r, vv, addr, o.type, attr, imm.size), imm,
              Written(r, v, NoReg, sum, TRUE,
                      [NoAttr EXCEPT !.broadcast = a.broadcast, !.mask = a.mask, !.zero = a.zero /\ a.mask # 0], imm.value))
VectorR == Idle /\ \E o \in {x \in VexOps : x.hasV /\ x.shape = "vec"}, attr \in RegAttrs :
  \E r \in VexRegs(o) : \E v, r2 \in SameBit(Vecs, r.bit) :
  /\ OpVexOk(r, v, r2, o.type, attr)
  /\ Emit(o, "modrm", TRUE, OpVex(r, v, r2, o.type, attr, 0), NoImm,
          Written(r, v, r2, None, TRUE,
                  [NoAttr EXCEPT !.mask = attr.mask, !.zero = attr.zero /\ attr.mask # 0, !.rnd = attr.rnd], 0))

\* A new destination d (APX): opROO(d, op1, op2), memory on either side.
ThreeM == HasAddress /\ \E o \in {add3, cmov3} : \E d \in Gps, memFirst \in BOOLEAN :
  \E r \in SameBit(Gps, d.bit), bit \in {0, d.bit} :
  LET op1 == IF memFirst THEN MemOp(bit) ELSE r
      op2 == IF memFirst THEN r ELSE MemOp(bit)
  IN  /\ o = cmov3 => memFirst /\ d.bit > 8
      /\ OpROOOk(op1, op2, o.type)
      /\ Emit(o, "modrm", OpROODir(op1, op2), OpROO(d, op1, op2, o.type, 0), NoImm,
              Written(r, d, NoReg, sum, ~memFirst, NoAttr, 0))
ThreeR == Idle /\ \E o \in {add3, cmov3} : \E d \in Gps : \E r1, r2 \in SameBit(Gps, d.bit) :
  /\ (o = cmov3 => d.bit > 8)
  /\ Emit(o, "modrm", OpROODir(r1, r2), OpROO(d, r1, r2, o.type, 0), NoImm,
          Written(r2, d, r1, None, FALSE, NoAttr, 0))

\* opRRO: vex, or the APX form when a register above 15 is there.
VexGp == i = None /\ \E d \in SameBit(Gps, 32) \cup SameBit(Gps, 64) :
  \E r1 \in SameBit(Gps, d.bit), op \in RmOps({0, d.bit}) :
  LET type == andn.type \cup {IF d.bit = 64 THEN "W1" ELSE "W0"}
      apx == HasRex2(d) \/ HasRex2(r1) \/ OpHasRex2(op)
      w == Written(d, r1, IF IsMem(op) THEN NoReg ELSE op, IF IsMem(op) THEN sum ELSE None, TRUE, NoAttr, 0)
  IN  /\ IF apx THEN OpROOOk(op, d, type) ELSE OpVexOk(d, r1, op, type, NoAttr)
      /\ Emit([andn EXCEPT !.type = type], "modrm", TRUE,
              IF apx THEN OpROO(r1, op, d, type, 0) ELSE OpVex(d, r1, op, type, NoAttr, 0), NoImm, w)

-----------------------------------------------------------------------------
(* Immediates. One of 32 bits counts with its sign.                        *)
WrittenRm(v, op, imm) ==
  IF IsMem(op) THEN Written(NoReg, v, NoReg, sum, FALSE, NoAttr, imm)
  ELSE Written(NoReg, v, op, None, FALSE, NoAttr, imm)

\* The short form for al, ax, eax and rax, which has no ModRM.
Accumulator(op, code1) == Parts(RexR(NoReg, op, {}), NoModRM, code1)
ext == 4

\* opOI, as called by add, and_, cmp ...
ArithImm == i = None /\ \E op \in RmOps({8, 16, 32, 64}), imm \in Imms :
  LET w == GetImmBit(op, imm)
      short == IsGp(op) /\ op.idx = 0 /\ (op.bit = w \/ (op.bit = 64 /\ w = 32))
      sx == ~short /\ w < MinBit(op.bit, 32)
  IN  /\ w # 0
      /\ short \/ OpRextOk(op, ext, {}, NoReg)
      /\ Emit([add EXCEPT !.imm = IF sx THEN "ibs" ELSE "iz"], IF short THEN "acc" ELSE "ext", FALSE,
              IF short THEN Accumulator(op, w # 8) ELSE OpRext(op, ext, {}, NoReg, w \div 8),
              Immediate(w \div 8, sx, imm), WrittenRm(NoReg, op, Signed(imm, Half32)))
TestImm == i = None /\ \E op \in RmOps({8, 16, 32, 64}), imm \in Imms :
  LET size == MinBit(op.bit, 32) \div 8
      short == IsGp(op) /\ op.idx = 0
  IN  /\ short \/ OpRextOk(op, 0, {}, NoReg)
      /\ Emit([add EXCEPT !.imm = "iz"], IF short THEN "acc" ELSE "ext", FALSE,
              IF short THEN Accumulator(op, op.bit # 8) ELSE OpRext(op, 0, {}, NoReg, size),
              Immediate(size, FALSE, imm), WrittenRm(NoReg, op, Signed(imm, Half32)))

\* opROI: an arithmetic instruction with a new destination and an immediate.
Arith3Imm == i = None /\ \E d \in Gps, imm \in Imms : \E op \in RmOps({d.bit}) :
  LET w == GetImmBit(d, imm)
      sx == w < MinBit(d.bit, 32)
  IN  /\ w # 0 /\ OpROOOk(op, Gp(ext, d.bit), add3.type)
      /\ Emit([add3 EXCEPT !.imm = IF sx THEN "ibs" ELSE "iz"], "ext", FALSE,
              OpROO(d, op, Gp(ext, d.bit), add3.type, w \div 8),
              Immediate(w \div 8, sx, imm), WrittenRm(d, op, Signed(imm, Half32)))
ImulImm == i = None /\ \E r \in Gps, imm \in Imms : \E op \in RmOps({r.bit}) :
  LET s == InDisp8(imm)
      size == IF s THEN 1 ELSE IF r.bit = 16 THEN 2 ELSE 4
      apx == OpROOApplies(NoReg, op, r, {"APX"})
      o == [Op("int", IF apx THEN {"APX", "NF", "ZU"} ELSE {}) EXCEPT !.imm = IF s THEN "ibs" ELSE "iz"]
      sized == IF IsMem(op) THEN [op EXCEPT !.immSize = size] ELSE op
  IN  /\ r.bit > 8
      /\ IF apx THEN OpROOOk(op, r, o.type) ELSE IF IsMem(op) THEN OpMROk(sized, r, {}) ELSE OpRROk(r, op, {})
      /\ Emit(o, "modrm", FALSE,
              IF apx THEN OpROO(NoReg, op, r, o.type, size)
              ELSE IF IsMem(op) THEN OpMR(sized, r, {}) ELSE OpRR(r, op, {}),
              Immediate(size, s, imm), [WrittenRm(NoReg, op, Signed(imm, Half32)) EXCEPT !.reg = r])

\* opShift, with a new destination d or without.
Shift == i = None /\ \E d \in Gps \cup {NoReg}, imm \in {1, 3} :
  \E op \in RmOps(IF IsGp(d) THEN {d.bit} ELSE {8, 16, 32, 64}) :
  LET type == {"APX", "CODE1", "NF"} \cup (IF IsGp(d) THEN {"ND1"} ELSE {})
      size == IF imm = 1 THEN 0 ELSE 1
  IN  /\ OpRextOk(op, ext, type, d)
      /\ Emit([Op("int8", type) EXCEPT !.imm = IF imm = 1 THEN "none" ELSE "ib"], "ext", FALSE,
              OpRext(op, ext, type, d, size), Immediate(size, FALSE, imm), WrittenRm(d, op, imm))

\* opShxd with an immediate.
Shxd == i = None /\ \E d \in Gps \cup {NoReg}, r \in Gps : \E op \in RmOps({r.bit}) :
  LET type == {"APX", "NF"} \cup (IF IsGp(d) THEN {"ND1"} ELSE {})
      apx == OpROOApplies(d, op, r, type)
      o == [Op("int", IF apx THEN type ELSE {"0F"}) EXCEPT !.imm = "ib"]
      sized == IF IsMem(op) THEN [op EXCEPT !.immSize = 1] ELSE op
  IN  /\ r.bit > 8 /\ (IsGp(d) => d.bit = r.bit)
      /\ IF apx THEN OpROOOk(op, r, type) ELSE IF IsMem(op) THEN OpMROk(sized, r, o.type) ELSE OpRROk(r, op, o.type)
      /\ Emit(o, "modrm", FALSE,
              IF apx THEN OpROO(d, op, r, type, 1)
              ELSE IF IsMem(op) THEN OpMR(sized, r, o.type) ELSE OpRR(r, op, o.type),
              Immediate(1, FALSE, 3), [WrittenRm(d, op, 3) EXCEPT !.reg = r])

\* mov(reg, imm): 32 bits that the processor extends with zeros or with the
\* sign where they are enough.
MovImmReg == Idle /\ \E r \in Gps, imm \in Imms :
  LET zx == r.bit = 64 /\ SizeT(imm) < 2 * Half32
      sx == r.bit = 64 /\ ~zx /\ InInt32(imm)
      size == IF zx \/ sx THEN 4 ELSE r.bit \div 8
      low == [NoModRM EXCEPT !.rm = r.idx % 8]
  IN  Emit([add EXCEPT !.imm = IF sx THEN "iz" ELSE "iv"], IF sx THEN "ext" ELSE "opcode", FALSE,
              Parts(RexR(NoReg, IF zx THEN Gp(r.idx, 32) ELSE r, {}),
                    IF sx THEN SetModRM(3, 0, r.idx) ELSE low, r.bit # 8),
              Immediate(size, FALSE, imm), Written(NoReg, NoReg, r, None, FALSE, NoAttr, imm))
MovImmMem == HasAddress /\ \E bit \in {8, 16, 32, 64}, imm \in Imms :
  LET size == MinBit(bit, 32) \div 8
      addr == [MemOp(bit) EXCEPT !.immSize = size]
  IN  /\ IF bit = 64 THEN InInt32(imm)
         ELSE LET h == HalfOf(bit) IN -2 * h <= Signed(imm, Half64) /\ Signed(imm, Half64) < 2 * h
      /\ OpMROk(addr, Gp(0, bit), {})
      /\ Emit([add EXCEPT !.imm = "iz"], "ext", FALSE, OpMR(addr, Gp(0, bit), {}),
              Immediate(size, FALSE, imm), Written(NoReg, NoReg, NoReg, sum, FALSE, NoAttr, imm))

\* mov al|ax|eax|rax, [disp64] and back.
MovMoffs == HasAddress /\ \E r \in Gps, load \in BOOLEAN :
  /\ r.idx = 0 /\ AddressMode(expr) = "64bitDisp"
  /\ Emit(add, "acc", load,
          Parts(RexR(NoReg, r, {}), [NoModRM EXCEPT !.size = 8, !.disp = expr.disp, !.label = expr.label], r.bit # 8),
          NoImm, Written(NoReg, NoReg, r, sum, load, NoAttr, 0))

\* opPushPop of a register.
Push == Idle /\ \E r \in Gps :
  /\ (HasRex2(r) \/ r.bit \in {16, 64})
  /\ Emit(Op("push", {}), "opcode", FALSE,
          Parts(IF HasRex2(r) THEN Rex2RXB(NoPrefix, NoReg, r, NoReg)
                ELSE [NoPrefix EXCEPT !.pp = IF r.bit = 16 THEN 1 ELSE 0, !.B3 = r.idx >= 8,
                                      !.enc = IF r.idx >= 8 THEN "rex" ELSE "none"],
                [NoModRM EXCEPT !.rm = r.idx % 8], TRUE),
          NoImm, Written(NoReg, NoReg, r, None, FALSE, NoAttr, 0))

Next ==
  \/ Start \/ Extend \/ Subtract \/ Continue
  \/ LegacyM \/ LegacyR \/ VectorM \/ VectorR \/ ThreeM \/ ThreeR \/ VexGp
  \/ ArithImm \/ TestImm \/ Arith3Imm \/ ImulImm \/ Shift \/ Shxd
  \/ MovImmReg \/ MovImmMem \/ MovMoffs \/ Push
Spec == Init /\ [][Next]_vars

-----------------------------------------------------------------------------
(* What the code gets wrong, and the properties leave out.                 *)

\* ah, ch, dh or bh beside a prefix.
HighByteLost ==
  i.p.enc # "none" /\ \E r \in {want.reg, want.v, want.rm} : IsHigh8bit(r)

\* An address of 64 bits in a vex, evex or APX instruction.
Truncated == want.mem /\ ~i.m.present /\ i.m.size # 8

\* An address of 32-bit registers in an APX instruction.
ShortAddress == i.p.enc = "leg" /\ \E r \in DOMAIN want.sum.coef : r.bit = 32

\* A vector index above 15 in a vex instruction.
WideIndex == i.p.enc = "vex" /\ \E r \in DOMAIN want.sum.coef : IsVec(r) /\ r.idx > 15

\* A shift with a new destination and an immediate, of [rip + pointer].
ShiftRip == i.p.enc = "leg" /\ want.sum.rip /\ want.sum.asPtr /\ i.opc.shape = "int8" /\ i.opc.imm = "ib"

\* push of r16w to r31b and so on.
PushWide == i.opc.shape = "push" /\ want.rm.bit # 64 /\ HasRex2(want.rm)

\* The RegExp is the sum that the client wrote, whatever the order of its terms
\* (operator+, operator-, the swap of esp).
ExpressionIsSum ==
  expr # None =>
    /\ sum.coef = Linear(expr.base, expr.index, expr.scale)
    /\ sum.disp = expr.disp /\ sum.label = expr.label /\ sum.rip = expr.rip /\ sum.asPtr = expr.asPtr

Encodable(s) ==
  \E b, x \in DOMAIN s.coef \cup {NoReg}, n \in {1, 2, 4, 8} :
    /\ s.coef = Linear(b, x, n) /\ ~IsVec(b)
    /\ IsGp(x) => x.idx # ESP /\ (b # NoReg => b.bit = x.bit)

\* operator+ and verify refuse a sum of distinct registers only if no base,
\* index and scale stand for it.
RefusedIsUnencodable ==
  expr # None =>
    /\ ~VerifyOk(expr) => ~(sum.once /\ Encodable(sum))
    /\ ~sum.rip => \A x \in RegTerms, right \in BOOLEAN :
         ~(IF right THEN PlusOk(expr, ExprOf(x)) ELSE PlusOk(ExprOf(x), expr)) =>
           ~(AddTerm(sum, x).once /\ Encodable(AddTerm(sum, x)))

\* The address that the processor computes is the sum: base, index, scale,
\* displacement of 8 bits, of 8 bits times N, of 32 or 64 bits, relative to the
\* end of the instruction (setSIB, opAddr, the index and base bits of the prefixes).
AddressKept ==
  i # None /\ want.mem /\ ~Truncated /\ ~ShortAddress /\ ~WideIndex /\ ~ShiftRip =>
    LET fromNext == want.sum.rip /\ ~want.sum.asPtr /\ ~want.sum.label
    IN  AddressRead(i) = [coef |-> want.sum.coef, label |-> want.sum.label,
                          disp |-> SizeT(want.sum.disp + Bit(fromNext, NextInstruction(i)))]

\* The processor reads the registers, their widths, their order, the masks,
\* broadcast and rounding that were written, and the map of the opcode.
SameOperands ==
  /\ ReadReg(i) = want.reg
  /\ ReadV(i) = want.v
  /\ want.rm # NoReg =>
       \/ ReadRm(i) = want.rm
       \/ i.opc.imm = "iv" /\ ReadRm(i) = Gp(want.rm.idx, 32) /\ want.rm.bit = 64
  /\ i.opc.reg = "modrm" => want.regFirst = i.opc.dir
  /\ AttributesRead(i) = want.attr
  /\ i.p.map = IF i.p.enc = "leg" /\ GetMap(i.opc.type) = 0 THEN 4 ELSE GetMap(i.opc.type)
OperandsKept == i # None /\ ~Truncated /\ ~HighByteLost /\ ~PushWide => SameOperands

\* A write of 32 bits clears the upper half of the register.
WrittenBit == IF IsGp(want.rm) THEN want.rm.bit ELSE IntSize(i)

\* As many bytes of immediate as the processor will read, and the value that it
\* makes of them is the one that was written (getImmBit, mov_imm, opOI, test).
ImmediateKept ==
  i # None =>
    /\ i.imm.size = ImmRead(i)
    /\ i.opc.imm # "none" => SizeMod(ImmValue(i), WrittenBit) = SizeMod(want.imm, WrittenBit)
=============================================================================
