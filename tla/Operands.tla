------------------------------ MODULE Operands ------------------------------
(* Registers, address expressions and addresses of xbyak.h: Reg, RegExp     *)
(* with its operators, and Address. Half32 and Half64 stand for 2^31 and    *)
(* 2^63; displacements are size_t, that is, numbers below 2 * Half64.       *)
EXTENDS Integers
CONSTANTS Half32, Half64
ASSUME OperandsAssumption ==
  /\ Half32 \in Nat \ {0} /\ Half64 \in Nat \ {0} /\ Half32 % 65536 = 0
  /\ Half64 % (2 * Half32) = 0 /\ Half64 > 2 * Half32

\* A number of 2 * half values read with its sign.
Signed(x, half) == ((x + half) % (2 * half)) - half
SizeT(x) == x % (2 * Half64)
InDisp8(x) == Signed(x, Half32) \in -128..127
InInt32(x) == LET s == Signed(x, Half64) IN -Half32 <= s /\ s < Half32

NoReg == [kind |-> "none", idx |-> 0, bit |-> 0, ext8 |-> FALSE]
Gp(idx, bit) == [kind |-> "gp", idx |-> idx, bit |-> bit, ext8 |-> FALSE]
Ext8(idx) == [Gp(idx, 8) EXCEPT !.ext8 = TRUE]           \* spl, bpl, sil, dil
Vec(idx, bit) == [kind |-> "vec", idx |-> idx, bit |-> bit, ext8 |-> FALSE]
ESP == 4
EBP == 5
IsGp(r) == r.kind = "gp"
IsVec(r) == r.kind = "vec"
HasIdxBit(r, k) == (r.idx \div 2^k) % 2 = 1
IsExtIdx(r) == HasIdxBit(r, 3)
IsExtIdx2(r) == HasIdxBit(r, 4)
HasRex2(r) == IsGp(r) /\ IsExtIdx2(r)
IsHigh8bit(r) == IsGp(r) /\ r.bit = 8 /\ ~r.ext8 /\ r.idx \in 4..7   \* ah, ch, dh, bh

-----------------------------------------------------------------------------
Expr(base, index, scale, disp) ==
  [base |-> base, index |-> index, scale |-> scale, disp |-> disp,
   label |-> FALSE, rip |-> FALSE, asPtr |-> FALSE]
RegTermOk(r, scale) == (IsVec(r) \/ (IsGp(r) /\ r.bit \in {32, 64})) /\ scale \in {0, 1, 2, 4, 8}
RegTerm(r, scale) ==
  CASE scale = 0 -> Expr(NoReg, NoReg, 0, 0)
    [] scale # 0 /\ (IsVec(r) \/ scale # 1) -> Expr(NoReg, r, scale, 0)
    [] OTHER -> Expr(r, NoReg, scale, 0)
DispTerm(d) == Expr(NoReg, NoReg, 0, SizeT(d))
LabelTerm == [DispTerm(0) EXCEPT !.label = TRUE]
PtrTerm(p) == [DispTerm(p) EXCEPT !.asPtr = TRUE]
RipTerm == [DispTerm(0) EXCEPT !.rip = TRUE]

HasBase(e) == e.base # NoReg
HasIndex(e) == e.index # NoReg
IsOnlyDisp(e) == ~HasBase(e) /\ ~HasIndex(e)
IsVsib(e) == IsVec(e.index)

\* Bug: [reg + reg] is refused.
PlusOkOneBase(a, b) ==
  ~(HasIndex(a) /\ HasIndex(b)) /\ ~(HasBase(a) /\ HasBase(b)) /\ ~b.rip /\ (a.rip => IsOnlyDisp(b))

\* Where operator+ throws. Two bases leave no room for an index.
PlusOk(a, b) ==
  /\ ~(HasIndex(a) /\ HasIndex(b))
  /\ ~(a.label /\ b.label)
  /\ ~b.rip
  /\ a.rip => IsOnlyDisp(b)
  /\ ~(a.asPtr /\ b.asPtr)
  /\ HasBase(a) /\ HasBase(b) => ~HasIndex(a) /\ ~HasIndex(b)

\* Bug: takes the index of b and not its scale.
PlusKeepsScale(a, b) ==
  [a EXCEPT !.base = IF HasBase(a) THEN a.base ELSE b.base, !.index = IF HasIndex(a) THEN a.index ELSE b.index,
            !.label = a.label \/ b.label, !.asPtr = a.asPtr \/ b.asPtr, !.disp = SizeT(a.disp + b.disp)]

\* base + base becomes base + index * 1, with esp kept out of the index.
Plus(a, b) ==
  LET twoBases == HasBase(a) /\ HasBase(b)
      swap == twoBases /\ b.base.idx = ESP
  IN  [base |-> IF HasBase(a) /\ ~swap THEN a.base ELSE b.base,
       index |-> IF swap THEN a.base ELSE IF twoBases THEN b.base
                 ELSE IF HasIndex(a) THEN a.index ELSE b.index,
       scale |-> IF twoBases THEN 1 ELSE IF HasIndex(a) THEN a.scale ELSE b.scale,
       disp |-> SizeT(a.disp + b.disp),
       label |-> a.label \/ b.label, rip |-> a.rip, asPtr |-> a.asPtr \/ b.asPtr]
Minus(e, d) == [e EXCEPT !.disp = SizeT(e.disp - d)]

\* [reg * 2] => [reg + reg]
Optimize(e) ==
  IF IsGp(e.index) /\ ~HasBase(e) /\ e.scale = 2
  THEN [e EXCEPT !.base = e.index, !.scale = 1]
  ELSE e

VerifyOk(e) ==
  /\ ~IsVec(e.base)
  /\ IsGp(e.index) => e.index.idx # ESP /\ (HasBase(e) => e.base.bit = e.index.bit)

\* Operand of kind MEM. bit is 0 when the size is not given; mask is an opmask.
AddressMode(e) ==
  IF e.rip THEN (IF e.label \/ e.asPtr THEN "ripAddr" ELSE "rip")
  ELSE IF IsOnlyDisp(e) /\ (e.label \/ (Half32 <= e.disp /\ e.disp <= 2 * Half64 - Half32))
       THEN "64bitDisp" ELSE "ModRM"
Address(bit, broadcast, mask, e) ==
  [kind |-> "mem", bit |-> bit, exp |-> e, mode |-> AddressMode(e), immSize |-> 0, disp8N |-> 0,
   permitVsib |-> FALSE, broadcast |-> broadcast, mask |-> mask]
GetRegExp(addr) == Optimize(addr.exp)
Is32bit(addr) == addr.exp.base.bit = 32 \/ addr.exp.index.bit = 32
AddrHasRex2(addr) == HasRex2(addr.exp.base) \/ HasRex2(addr.exp.index)
IsMem(op) == op.kind = "mem"
OpHasRex2(op) == IF IsMem(op) THEN AddrHasRex2(op) ELSE HasRex2(op)
=============================================================================
