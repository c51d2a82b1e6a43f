----------------------------- MODULE Processor ------------------------------
(* How an x86-64 processor reads the fields of an instruction: the rules of *)
(* the manuals, against which Encoding checks what the encoder writes.      *)
(* An instruction i has a prefix p, an opcode opc, a ModRM part m and an    *)
(* immediate imm. opc names what a processor knows by the opcode:          *)
(*   shape  "int8": general operands, of 8 bits when code1 is not set;      *)
(*          "int": general; "movx8", "movx16": a narrower source; "push";   *)
(*          "vec"; "gather": the index is a vector                          *)
(*   imm    "none", "ib" (8 bits), "ibs" (8 bits, extended), "iz" (up to 32 *)
(*          bits, extended), "iv" (as wide as the operand)                  *)
(*   tuple  the tuple type of an EVEX instruction                           *)
(*   reg    what the reg field of ModRM is: "modrm" (a register), "ext" (a  *)
(*          part of the opcode); "acc", "opcode" for a form without ModRM   *)
EXTENDS Encoder

Bit(c, n) == IF c THEN n ELSE 0
IntSize(i) ==
  IF i.opc.shape = "int8" /\ ~i.opc.code1 THEN 8
  ELSE IF i.p.W \/ (i.opc.shape = "push" /\ i.p.pp # 1) THEN 64 ELSE IF i.p.pp = 1 THEN 16 ELSE 32

\* A scalar has 128 bits whatever L says. A register form with b set is of 512
\* bits, and L is the rounding mode; where only {sae} is allowed L says nothing.
EmbeddedRounding(i) == i.p.enc = "evex" /\ i.p.b /\ i.m.mod = 3
VecSize(i) ==
  IF i.opc.shape = "vec" /\ i.opc.tuple = "scalar" THEN 128
  ELSE IF EmbeddedRounding(i) THEN 512 ELSE CASE i.p.L = 0 -> 128 [] i.p.L = 1 -> 256 [] OTHER -> 512
Vector(i) == i.opc.shape \in {"vec", "gather"}

\* Without any prefix the byte registers 4 to 7 are ah, ch, dh and bh.
GpName(i, n, size) ==
  IF size = 8 /\ n \in 4..7 /\ i.p.enc # "none" THEN Ext8(n) ELSE Gp(n, size)

RegNumber(i) == i.m.reg + Bit(i.p.R3, 8) + Bit(i.p.R4, 16)
ReadReg(i) ==
  IF i.opc.reg # "modrm" THEN NoReg
  ELSE IF Vector(i) THEN Vec(RegNumber(i), VecSize(i))
  ELSE GpName(i, RegNumber(i), IntSize(i))
ReadV(i) ==
  LET n == i.p.vvvv + Bit(i.p.V4 /\ i.opc.shape # "gather", 16)
  IN  IF Vector(i) THEN (IF i.opc.hasV THEN Vec(n, VecSize(i)) ELSE NoReg)
      ELSE IF i.opc.hasV \/ (i.p.enc = "leg" /\ i.p.ND) THEN GpName(i, n, IntSize(i)) ELSE NoReg

\* Where there is no ModRM, rm is the register in the opcode or the accumulator, 0.
RmSize(i) == CASE i.opc.shape = "movx8" -> 8 [] i.opc.shape = "movx16" -> 16 [] OTHER -> IntSize(i)

\* The operand of ModRM when it is a register. X3 is bit 4 of a vector register.
ReadRm(i) ==
  LET n == i.m.rm + Bit(i.p.B3, 8)
  IN  IF Vector(i) THEN Vec(n + Bit(i.p.X3, 16), VecSize(i))
      ELSE GpName(i, n + Bit(i.p.B4, 16), RmSize(i))

-----------------------------------------------------------------------------
ImmRead(i) ==
  CASE i.opc.imm = "none" -> 0
    [] i.opc.imm \in {"ib", "ibs"} -> 1
    [] i.opc.imm = "iz" -> MinBit(IntSize(i), 32) \div 8
    [] OTHER -> IntSize(i) \div 8

\* What the processor makes of the bytes: extended with the sign or with zeros.
ImmValue(i) ==
  LET h == HalfOf(8 * ImmRead(i))
  IN  CASE i.opc.imm = "none" -> 0
        [] i.opc.imm \in {"ib", "iv"} -> i.imm.value % (2 * h)
        [] OTHER -> Signed(i.imm.value, h)
SizeMod(x, bit) == x % (2 * HalfOf(bit))

\* The unit of an 8-bit displacement, by the tuple type.
TupleUnit(i) ==
  LET len == VecSize(i) \div 8
  IN  CASE i.p.enc # "evex" -> 1
        [] i.p.enc = "evex" /\ i.p.b -> i.opc.element
        [] i.p.enc = "evex" /\ ~i.p.b ->
             CASE i.opc.tuple \in {"full", "fullmem"} -> len
               [] i.opc.tuple = "half" -> len \div 2
               [] i.opc.tuple = "quarter" -> len \div 4
               [] i.opc.tuple = "eighth" -> len \div 8
               [] i.opc.tuple = "mem128" -> 16
               [] i.opc.tuple = "movddup" -> IF len = 16 THEN 8 ELSE len
               [] OTHER -> i.opc.element                      \* scalar, gather

AddressBit(i) == IF i.p.p67 THEN 32 ELSE 64

\* Without ModRM the address is the number of 64 bits after the opcode.
RipRelative(i) == i.m.present /\ ~i.m.sib /\ i.m.mod = 0 /\ i.m.rm = 5
BaseRead(i) ==
  LET low == IF i.m.sib THEN i.m.base ELSE i.m.rm
  IN  IF ~i.m.present \/ (low = 5 /\ i.m.mod = 0) THEN NoReg
      ELSE Gp(low + Bit(i.p.B3, 8) + Bit(i.p.B4, 16), AddressBit(i))
IndexRead(i) ==
  LET n == i.m.index + Bit(i.p.X3, 8)
  IN  CASE ~i.m.sib -> NoReg
        [] i.m.sib /\ i.opc.shape = "gather" -> Vec(n + Bit(i.p.V4, 16), VecSize(i))
        [] OTHER -> IF n = 4 /\ ~i.p.X4 THEN NoReg ELSE Gp(n + Bit(i.p.X4, 16), AddressBit(i))

\* The displacement field is at Here, the next instruction after the immediate.
NextInstruction(i) == Here + 4 + ImmRead(i)

\* The address as a linear form: how often each register counts, and a constant.
Linear(base, index, n) == [r \in {base, index} \ {NoReg} |-> Bit(r = base, 1) + Bit(r = index, n)]
AddressRead(i) ==
  [coef |-> Linear(BaseRead(i), IndexRead(i), 2^i.m.ss),
   disp |-> SizeT((IF i.m.size = 1 THEN i.m.disp * TupleUnit(i) ELSE i.m.disp)
                  + Bit(RipRelative(i) /\ ~i.m.label, NextInstruction(i))),
   label |-> i.m.label]

\* Broadcast, mask, {z} and rounding.
AttributesRead(i) ==
  [broadcast |-> i.p.b /\ i.m.mod # 3, mask |-> i.p.aaa, zero |-> i.p.z,
   rnd |-> IF ~EmbeddedRounding(i) THEN 0 ELSE IF i.opc.sae THEN 5 ELSE i.p.L + 1]
=============================================================================
