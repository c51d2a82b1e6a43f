------------------------------ MODULE Encoder -------------------------------
(* How CodeGenerator turns operands into an instruction: the choice of a    *)
(* prefix (rex, rex2, vex, evex, evexLeg), of ModRM and SIB (setSIB,        *)
(* opAddr), and of an immediate. An instruction is a record of the fields   *)
(* that the bytes have; opcodes other than the bits derived from operands   *)
(* are left out. type is the set of the T_ flags, without T_. For each      *)
(* operator that can throw, ...Ok says when it does not.                    *)
EXTENDS Operands
CONSTANT Here            \* the address of the displacement field

\* pp: 0 none, 1 66, 2 F3, 3 F2. L: 0, 1, 2 for 128, 256, 512 bits. map: 0 legacy
\* opcodes, 1 0F, 2 0F38, 3 0F3A, 4 the legacy map of APX, 5 and 6 those of FP16.
NoPrefix == [enc |-> "none", p67 |-> FALSE, pp |-> 0, map |-> 0, W |-> FALSE,
             R3 |-> FALSE, R4 |-> FALSE, X3 |-> FALSE, X4 |-> FALSE, B3 |-> FALSE, B4 |-> FALSE,
             vvvv |-> 0, V4 |-> FALSE, L |-> 0, b |-> FALSE, aaa |-> 0, z |-> FALSE, ND |-> FALSE]
NoModRM == [present |-> FALSE, mod |-> 0, reg |-> 0, rm |-> 0, sib |-> FALSE,
            ss |-> 0, index |-> 0, base |-> 0, size |-> 0, disp |-> 0, label |-> FALSE]

\* sx: the processor extends an imm8. size is the number of bytes emitted.
NoImm == [size |-> 0, sx |-> FALSE, value |-> 0]

GetPP(type) == IF "66" \in type THEN 1 ELSE IF "F3" \in type THEN 2 ELSE IF "F2" \in type THEN 3 ELSE 0
GetMap(type) ==
  CASE "MAP6" \in type -> 6 [] "MAP5" \in type -> 5 [] "0F" \in type -> 1
    [] "0F38" \in type -> 2 [] "0F3A" \in type -> 3 [] OTHER -> 0

-----------------------------------------------------------------------------
(* Addresses.                                                              *)
SetModRM(mod, reg, rm) ==
  [NoModRM EXCEPT !.present = TRUE, !.mod = mod, !.reg = reg % 8, !.rm = rm % 8]

SetSIBOk(addr) == InInt32(addr.exp.disp)

\* Bug: the remainder is forgotten.
Fits8Rounded(addr) ==
  InDisp8(Signed(addr.exp.disp, Half32) \div (IF addr.disp8N = 0 THEN 1 ELSE addr.disp8N))

\* The displacement is stored in 8 bits, as a multiple of disp8N if there is one.
Fits8(addr) ==
  LET d == Signed(addr.exp.disp, Half32)
      N == IF addr.disp8N = 0 THEN 1 ELSE addr.disp8N
  IN  d % N = 0 /\ InDisp8(d \div N)

\* No displacement, one of 8 bits (mod 1) or one of 32 bits (mod 2, or no base).
SibMod(e, disp, addr) ==
  CASE ~HasBase(e) \/ (e.base.idx % 8 # EBP /\ ~e.label /\ disp = 0) -> 0
    [] HasBase(e) /\ ~e.label /\ ~(e.base.idx % 8 # EBP /\ disp = 0) /\ Fits8(addr) -> 1
    [] OTHER -> 2
DispField(e, disp, addr, mod) ==
  IF mod = 1 THEN [size |-> 1, disp |-> IF addr.disp8N = 0 THEN disp ELSE disp \div addr.disp8N]
  ELSE IF mod = 2 \/ ~HasBase(e) THEN [size |-> 4, disp |-> disp]
  ELSE [size |-> 0, disp |-> 0]
HasSIB(e) == HasIndex(e) \/ e.base.idx % 8 = ESP \/ ~HasBase(e)
LowBase(e) == IF HasBase(e) THEN e.base.idx % 8 ELSE EBP
ScaleBits(e) == CASE e.scale = 8 -> 3 [] e.scale = 4 -> 2 [] e.scale = 2 -> 1 [] OTHER -> 0
SetSIB(addr, reg) ==
  LET e == GetRegExp(addr)
      disp == Signed(e.disp, Half32)
      mod == SibMod(e, disp, addr)
      field == DispField(e, disp, addr, mod)
  IN  [SetModRM(mod, reg, IF HasSIB(e) THEN ESP ELSE LowBase(e)) EXCEPT
         !.sib = HasSIB(e), !.base = IF HasSIB(e) THEN LowBase(e) ELSE 0,
         !.index = IF ~HasSIB(e) THEN 0 ELSE IF HasIndex(e) THEN e.index.idx % 8 ELSE ESP,
         !.ss = IF ~HasSIB(e) THEN 0 ELSE ScaleBits(e),
         !.size = field.size, !.disp = field.disp, !.label = e.label]

\* The displacement of [rip + ...]: a pointer is made relative to the end of
\* the instruction. What the field of a label comes to hold is in Linker.
RipDisp(addr) ==
  SizeT(IF addr.mode = "ripAddr" /\ ~addr.exp.label THEN addr.exp.disp - Here - 4 - addr.immSize ELSE addr.exp.disp)
OpAddrOk(addr) ==
  /\ IsVsib(addr.exp) => addr.permitVsib
  /\ addr.mode = "ModRM" => SetSIBOk(addr)
  /\ addr.mode \in {"rip", "ripAddr"} /\ ~addr.exp.label => InInt32(RipDisp(addr))

\* Nothing is emitted for an address with a displacement of 64 bits.
OpAddr(addr, reg) ==
  CASE addr.mode = "ModRM" -> SetSIB(addr, reg)
    [] addr.mode = "64bitDisp" -> NoModRM
    [] OTHER -> [SetModRM(0, reg, 5) EXCEPT !.size = 4, !.disp = RipDisp(addr), !.label = addr.exp.label]

-----------------------------------------------------------------------------
(* Prefixes.                                                               *)

\* Extension bits of reg, base (or rm) and index, as rexRXB collects them.
RexRXB(p, r, b, x) ==
  [p EXCEPT !.R3 = IsExtIdx(r), !.X3 = IsExtIdx(x), !.B3 = IsExtIdx(b)]
Rex2RXB(p, r, b, x) ==
  [RexRXB(p, r, b, x) EXCEPT !.enc = "rex2", !.R4 = IsExtIdx2(r), !.X4 = IsExtIdx2(x), !.B4 = IsExtIdx2(b)]

\* A 16-bit operand beside one that is not of 32 or 64 bits asks for 66.
P66(bit1, bit2) == (bit1 = 16 /\ bit2 \notin {32, 64}) \/ (bit2 = 16 /\ bit1 \notin {32, 64})

\* The bytes 66, F3 and F2 in the order they are written: beside another prefix
\* 66 is no part of the opcode.
LegacyPP(type, p66) ==
  IF "F3" \in type THEN 2 ELSE IF "F2" \in type THEN 3 ELSE IF "66" \in type \/ p66 THEN 1 ELSE 0
RexOk(rex2, type) == rex2 => type \cap {"0F38", "0F3A"} = {}

\* Without rex2 the map is chosen by the bytes that writeCode puts before the
\* opcode, unless the type is one of APX.
RexWith(rex2, W, ext8, pp, p67, type, r, b, x) ==
  LET p == [NoPrefix EXCEPT !.W = W, !.pp = pp, !.p67 = p67]
      v == RexRXB(p, r, b, x)
  IN  IF rex2 THEN [Rex2RXB(p, r, b, x) EXCEPT !.map = IF "0F" \in type THEN 1 ELSE 0]
      ELSE [v EXCEPT !.enc = IF W \/ v.R3 \/ v.X3 \/ v.B3 \/ ext8 THEN "rex" ELSE "none",
                     !.map = IF "APX" \in type THEN 0 ELSE GetMap(type)]
RexMRex2(addr, r) == HasRex2(r) \/ AddrHasRex2(addr)
RexM(addr, r, type) ==
  RexWith(RexMRex2(addr, r), IsGp(r) /\ r.bit = 64, r.ext8,
          LegacyPP(type, P66(addr.bit, r.bit)),
          Is32bit(addr), type, r, GetRegExp(addr).base, GetRegExp(addr).index)

\* Bug: spl to dil ask for a prefix as one operand only.
RexRSecondOnly(reg, rm, type) ==
  RexWith(HasRex2(reg) \/ HasRex2(rm), \E r \in {reg, rm} : IsGp(r) /\ r.bit = 64, rm.ext8,
          LegacyPP(type, P66(reg.bit, rm.bit)), FALSE, type, reg, rm, NoReg)
RexR(reg, rm, type) ==
  RexWith(HasRex2(reg) \/ HasRex2(rm), \E r \in {reg, rm} : IsGp(r) /\ r.bit = 64, reg.ext8 \/ rm.ext8,
          LegacyPP(type, P66(reg.bit, rm.bit)), FALSE, type, reg, rm, NoReg)

VexOk(reg, base, v) == reg.idx < 16 /\ base.idx < 16 /\ v.idx < 16

\* The form of two bytes has no X, B, W and only the map 0F.
Vex(reg, base, v, x, type) ==
  LET p == [NoPrefix EXCEPT !.enc = "vex", !.pp = GetPP(type), !.R3 = IsExtIdx(reg), !.vvvv = v.idx % 16,
                            !.L = IF "L1" \in type \/ reg.bit = 256 THEN 1 ELSE 0]
      short == ~IsExtIdx(base) /\ ~x /\ "W1" \notin type /\ "0F" \in type
  IN  IF short THEN [p EXCEPT !.map = 1]
      ELSE [p EXCEPT !.map = GetMap(type), !.W = "W1" \in type, !.X3 = x, !.B3 = IsExtIdx(base)]

\* The flag for the width of r.
WidthFlag(r, x, y, z) == CASE r.bit = 128 -> x [] r.bit = 256 -> y [] r.bit = 512 -> z [] OTHER -> "none"

\* rnd is 0, 1 to 4 for a rounding mode, 5 for {sae}. The operand in ModRM must
\* be as wide as the type allows it for.
EvexOk(base, type, rnd) ==
  /\ type \cap {"EVEX", "MUST_EVEX"} # {}
  /\ rnd = 5 => WidthFlag(base, "SAE_X", "SAE_Y", "SAE_Z") \in type
  /\ rnd \in 1..4 => (IF IsGp(base) THEN "ER_R" ELSE WidthFlag(base, "ER_X", "ER_Y", "ER_Z")) \in type
MaxOf(S) == CHOOSE m \in S : \A n \in S : n <= m

\* The unit of an 8-bit displacement.
Disp8N(type, VL, b) ==
  LET t == IF type \cap {"N1", "N2", "N4", "N8", "N16", "N32", "N_VL"} = {} THEN type \cup {"N16", "N_VL"} ELSE type
      n == CASE "N1" \in t -> 1 [] "N2" \in t -> 2 [] "N4" \in t -> 4 [] "N8" \in t -> 8
             [] "N16" \in t -> 16 [] "N32" \in t -> 32 [] OTHER -> 0
  IN  IF b THEN (IF {"B32", "B64"} \subseteq type THEN 2 ELSE IF "B32" \in type THEN 4 ELSE 8)
      ELSE IF "DUP" \in type THEN (IF VL = 128 THEN 8 ELSE IF VL = 256 THEN 32 ELSE 64)
      ELSE IF n = 0 THEN 1
      ELSE IF "N_VL" \in t THEN n * (IF VL = 512 THEN 4 ELSE IF VL = 256 THEN 2 ELSE 1) ELSE n
EvexVL(reg, base, v, x) == MaxOf({reg.bit, base.bit, v.bit, IF IsVec(x) THEN x.bit ELSE 0})

\* x is the index, NoReg for a register form. An operand may carry {k} and {z}.
Evex(reg, base, v, x, type, b, mask, zero, rnd) ==
  LET VL == EvexVL(reg, base, v, x)
  IN  [NoPrefix EXCEPT
        !.enc = "evex", !.map = GetMap(type), !.pp = GetPP(type), !.W = "EW1" \in type,
        !.R3 = IsExtIdx(reg), !.R4 = IsExtIdx2(reg),
        !.X3 = IsExtIdx(x) \/ (IsVec(base) /\ IsExtIdx2(base)), !.X4 = IsGp(x) /\ IsExtIdx2(x),
        !.B3 = IsExtIdx(base), !.B4 = IsGp(base) /\ IsExtIdx2(base),
        !.vvvv = v.idx % 16, !.V4 = IsExtIdx2(v) \/ (IsVec(x) /\ IsExtIdx2(x)),
        !.b = b \/ rnd # 0, !.aaa = mask, !.z = zero /\ mask # 0,
        !.L = IF rnd = 5 THEN 0 ELSE IF rnd # 0 THEN rnd - 1
              ELSE IF VL >= 512 THEN 2 ELSE IF VL = 256 THEN 1 ELSE 0]

\* The EVEX prefix of an APX instruction of the general registers. v is the
\* new destination.
EvexLeg(r, b, x, v, type) ==
  [NoPrefix EXCEPT
    !.enc = "leg", !.map = IF GetMap(type) = 0 THEN 4 ELSE GetMap(type),
    !.R3 = IsExtIdx(r), !.R4 = IsExtIdx2(r), !.X3 = IsExtIdx(x), !.X4 = IsExtIdx2(x),
    !.B3 = IsExtIdx(b), !.B4 = IsExtIdx2(b), !.vvvv = v.idx % 16, !.V4 = IsExtIdx2(v),
    !.W = "W0" \notin type /\ (r.bit = 64 \/ v.bit = 64 \/ "W1" \in type),
    !.pp = IF type \cap {"F2", "F3", "66"} # {} THEN GetPP(type) ELSE IF r.bit = 16 \/ v.bit = 16 THEN 1 ELSE 0,
    !.ND = IF "ND1" \in type THEN TRUE ELSE IF "APX" \in type THEN FALSE ELSE IsGp(v)]

-----------------------------------------------------------------------------
(* Instructions: prefix p, ModRM m, and code1, the bit of the opcode that   *)
(* writeCode sets for operands that are not of 8 bits.                     *)
Parts(p, m, code1) == [p |-> p, m |-> m, code1 |-> code1]
WriteCode(type, r) == (type \ {"DIFF", "ABCDH"} = {} \/ "CODE1" \in type) /\ r.bit # 8
ModRR(reg, rm) == SetModRM(3, reg.idx, rm.idx)

IsBadCombination(r1, r2) == IsHigh8bit(r1) /\ (r2.ext8 \/ r2.idx >= 8)
OpRROk(r1, r2, type) ==
  /\ "DIFF" \in type \/ ~IsGp(r1) \/ ~IsGp(r2) \/ r1.bit = r2.bit
  /\ "ABCDH" \in type \/ (~IsBadCombination(r1, r2) /\ ~IsBadCombination(r2, r1))
  /\ RexOk(HasRex2(r1) \/ HasRex2(r2), type)
OpRR(r1, r2, type) == Parts(RexR(r1, r2, type), ModRR(r1, r2), WriteCode(type, r1))

OpMROk(addr, r, type) ==
  /\ addr.mode # "64bitDisp"
  /\ "DIFF" \in type \/ r.bit > 64 \/ addr.bit \in {0, r.bit}
  /\ RexOk(RexMRex2(addr, r), type)
  /\ OpAddrOk(addr)
OpMR(addr, r, type) == Parts(RexM(addr, r, type), OpAddr(addr, r.idx), WriteCode(type, r))

\* opROO returns false, and another form is taken, unless it has to be APX.
OpROOApplies(d, op1, op2, type) ==
  "MUST_EVEX" \in type \/ IsGp(d) \/ \E op \in {d, op1, op2} : OpHasRex2(op)

\* The bit of the opcode that makes the register the first source.
OpROODir(op1, op2) == ~IsMem(op1) /\ IsMem(op2)
OpROOOk(op1, op2, type) ==
  LET mem == IF IsMem(op1) THEN op1 ELSE op2
  IN  IsMem(mem) => ~(IsMem(op1) /\ IsMem(op2)) /\ OpAddrOk(mem)
OpROO(d, op1, op2, type, immSize) ==
  LET mem == [(IF IsMem(op1) THEN op1 ELSE op2) EXCEPT !.immSize = immSize]
      r == IF IsMem(op1) THEN op2 ELSE op1
      e == GetRegExp(mem)
  IN  IF IsMem(op1) \/ IsMem(op2)
      THEN Parts(EvexLeg(r, e.base, e.index, d, type), OpAddr(mem, r.idx), WriteCode(type, d))
      ELSE Parts(EvexLeg(op2, op1, NoReg, d, type), ModRR(op2, op1), WriteCode(type, d))

\* The operand of an instruction whose reg field is a part of the opcode.
RextReg(op, ext) == Gp(ext, op.bit)
RextAPX(op, type, d) == "APX" \in type /\ (IsGp(d) \/ OpHasRex2(op))
RextDest(op, d) == IF IsGp(d) THEN d ELSE Gp(0, op.bit)
OpRextOk(op, ext, type, d) ==
  IF RextAPX(op, type, d) THEN OpROOOk(op, RextReg(op, ext), type)
  ELSE IF IsMem(op) THEN OpMROk(op, RextReg(op, ext), type)
  ELSE OpRROk(RextReg(op, ext), op, type \cup {"ABCDH"})
OpRext(op, ext, type, d, immSize) ==
  IF RextAPX(op, type, d) THEN OpROO(RextDest(op, d), op, RextReg(op, ext), type, 0)
  ELSE IF IsMem(op) THEN OpMR([op EXCEPT !.immSize = immSize], RextReg(op, ext), type)
  ELSE OpRR(RextReg(op, ext), op, type \cup {"ABCDH"})

\* attr is what the operands carry: a mask and {z} on the first or a mask on
\* the address, and rounding.
NeedsEvex(r, v, op, type, attr) ==
  \/ "MUST_EVEX" \in type \/ attr.mask # 0 \/ attr.rnd # 0
  \/ \E x \in {r, v} : x.bit = 512 \/ IsExtIdx2(x)
  \/ IF IsMem(op) THEN "MEM_EVEX" \in type \/ op.broadcast \/ op.mask # 0 \/ AddrHasRex2(op)
     ELSE op.bit = 512 \/ IsExtIdx2(op)
OpVexOk(r, v, op, type, attr) ==
  LET evex == NeedsEvex(r, v, op, type, attr)
      base == IF IsMem(op) THEN GetRegExp(op).base ELSE op
  IN  /\ IF evex THEN EvexOk(base, type, attr.rnd) ELSE VexOk(r, base, v)
      /\ IsMem(op) =>
           /\ OpAddrOk([op EXCEPT !.permitVsib = "VSIB" \in type])
           /\ ~("M_K" \in type /\ attr.zero)
           /\ evex /\ op.mask # 0 => "M_K" \in type
           /\ evex /\ op.broadcast => type \cap {"B32", "B64"} # {}
OpVex(r, v, op, type, attr, immSize) ==
  LET evex == NeedsEvex(r, v, op, type, attr)
      e == GetRegExp(op)
      mask == IF op.mask # 0 THEN op.mask ELSE attr.mask
      addr == [op EXCEPT !.permitVsib = "VSIB" \in type, !.immSize = immSize,
                 !.disp8N = IF evex THEN Disp8N(type, EvexVL(r, e.base, v, e.index), op.broadcast) ELSE 0]
      pm == IF evex THEN Evex(r, e.base, v, e.index, type, op.broadcast, mask, attr.zero, attr.rnd)
            ELSE Vex(r, e.base, v, IsExtIdx(e.index), type)
  IN  IF IsMem(op) THEN Parts([pm EXCEPT !.p67 = Is32bit(op)], OpAddr(addr, r.idx), FALSE)
      ELSE Parts(IF evex THEN Evex(r, op, v, NoReg, type, FALSE, attr.mask, attr.zero, attr.rnd)
                 ELSE Vex(r, op, v, FALSE, type), ModRR(r, op), FALSE)

-----------------------------------------------------------------------------
(* Immediates.                                                             *)
IsInDisp16relaxed(x) == Signed(x, Half32) \in -65536..65535

\* Bug: 16 bits beside a wider operand.
GetImmBitMin(op, imm) ==
  LET b == IF op.bit = 8 \/ InDisp8(imm) THEN 8 ELSE IF IsInDisp16relaxed(imm) THEN 16 ELSE 32
  IN  IF op.bit < b THEN 0 ELSE b

\* The width of an immediate, 0 where the call throws.
GetImmBit(op, imm) ==
  LET w == IF InDisp8(imm) THEN 8 ELSE IF IsInDisp16relaxed(imm) THEN 16 ELSE 32
      b == IF op.bit = 8 THEN 8 ELSE w
  IN  IF op.bit < b THEN 0 ELSE IF op.bit \in {32, 64} /\ b = 16 THEN 32 ELSE b
HalfOf(bit) == CASE bit = 8 -> 128 [] bit = 16 -> 32768 [] bit = 32 -> Half32 [] OTHER -> Half64
Immediate(size, sx, value) == [size |-> size, sx |-> sx, value |-> value]
MinBit(a, b) == IF a < b THEN a ELSE b
=============================================================================
