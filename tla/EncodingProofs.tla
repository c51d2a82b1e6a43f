--------------------------- MODULE EncodingProofs ---------------------------
(***************************************************************************)
(* Proofs about module Encoding, for every register, scale, displacement   *)
(* and immediate, every width of them, and every order in which the client *)
(* writes the terms of an address:                                         *)
(*   SumIsKept             the RegExp is the sum that the client wrote     *)
(*   RefusalsAreJustified  what throws has no encoding                     *)
(*   ImmediatesAreKept     the processor reads the immediates              *)
(*   AddressesAreKept      the processor computes the addresses            *)
(*   OperandsAreKept       the processor finds the operands                *)
(***************************************************************************)
EXTENDS Encoding, TLAPS

Registers == {t.reg : t \in AddrTerms} \cup {NoReg}
Displacements == 0..(2 * Half64 - 1)
Expressions == [base : Registers, index : Registers, scale : {0, 1, 2, 4, 8},
                disp : Displacements, label : BOOLEAN, rip : BOOLEAN, asPtr : BOOLEAN]
Coefficients == {Linear(b, x, n) : b \in Registers, x \in Registers, n \in {0, 1, 2, 4, 8}}
Sums == [coef : Coefficients, disp : Displacements,
         label : BOOLEAN, rip : BOOLEAN, asPtr : BOOLEAN, once : BOOLEAN]

\* What operator+ makes of the registers: a base is a general register; a
\* general register is the index with scale 1 only beside a base, and esp only
\* beside another esp; a register that was written once is in one place.
Shape(e, s) ==
  /\ e.base # NoReg => IsGp(e.base) /\ e.base.bit \in {32, 64}
  /\ e.index # NoReg =>
       /\ e.scale \in {1, 2, 4, 8}
       /\ IsVec(e.index) \/ (IsGp(e.index) /\ e.index.bit \in {32, 64})
       /\ IsGp(e.index) /\ e.scale = 1 => e.base # NoReg /\ (e.index.idx = ESP => e.base.idx = ESP)
  /\ s.once /\ e.base # NoReg => e.base # e.index
  /\ e.rip => e.base = NoReg /\ e.index = NoReg

IInv == /\ expr \in Expressions \cup {None}
        /\ sum \in Sums
        /\ ExpressionIsSum
        /\ expr # None => Shape(expr, sum)

-----------------------------------------------------------------------------
(* Numbers.                                                                *)

\* Displacements are counted modulo the size of size_t.
LEMMA SizeTFacts ==
  /\ 0 \in Displacements
  /\ \A d \in Int : SizeT(d) \in Displacements
  /\ \A d \in Displacements : SizeT(d) = d
<1> DEFINE m == 2 * Half64
<1>1. m \in Nat /\ m > 0
  BY OperandsAssumption
<1> HIDE DEF m
<1>2. \A d \in Int : d % m \in 0..(m - 1)
  BY <1>1
<1>3. \A d \in 0..(m - 1) : d % m = d
  BY <1>1
<1>4. QED BY <1>1, <1>2, <1>3 DEF SizeT, Displacements, m

-----------------------------------------------------------------------------
(* Linear forms.                                                           *)

\* What AddTerm does to the coefficients.
Added(coef, reg, n) ==
  LET regs == DOMAIN coef
      old == [r \in regs \cup {reg} |-> IF r \in regs THEN coef[r] ELSE 0]
  IN  [old EXCEPT ![reg] = @ + n]

LEMMA AddedIs ==
  ASSUME NEW coef, NEW reg, NEW n
  PROVE  Added(coef, reg, n) =
           [r \in DOMAIN coef \cup {reg} |->
              IF r = reg THEN (IF r \in DOMAIN coef THEN coef[r] ELSE 0) + n ELSE coef[r]]
BY DEF Added

\* A register without a scale becomes the base where there is none.
LEMMA AddBase ==
  ASSUME NEW x, NEW n \in Int, NEW reg, reg # NoReg
  PROVE  Added(Linear(NoReg, x, n), reg, 1) = Linear(reg, x, n)
<1> DEFINE coef == Linear(NoReg, x, n)
           D == ({x} \ {NoReg}) \cup {reg}
<1>1. DOMAIN coef = {x} \ {NoReg} /\ \A r \in {x} \ {NoReg} : coef[r] = n
  BY DEF Linear, Bit
<1>2. Linear(reg, x, n) =
        [r \in D |-> (IF r = reg THEN 1 ELSE 0) + (IF r = x THEN n ELSE 0)]
  <2>1. {reg, x} \ {NoReg} = D
    OBVIOUS
  <2>2. QED BY <2>1 DEF Linear, Bit
<1> HIDE DEF coef
<1>3. \A r \in D : (IF r = reg THEN (IF r \in DOMAIN coef THEN coef[r] ELSE 0) + 1 ELSE coef[r])
                   = (IF r = reg THEN 1 ELSE 0) + (IF r = x THEN n ELSE 0)
  BY <1>1
<1>4. Added(coef, reg, 1) = Linear(reg, x, n)
  BY <1>1, <1>2, <1>3, AddedIs
<1>5. QED BY <1>4 DEF coef

\* A register becomes the index where there is none.
LEMMA AddIndex ==
  ASSUME NEW b, NEW old, NEW reg, reg # NoReg, NEW n \in Int
  PROVE  Added(Linear(b, NoReg, old), reg, n) = Linear(b, reg, n)
<1> DEFINE coef == Linear(b, NoReg, old)
           D == ({b} \ {NoReg}) \cup {reg}
<1>1. DOMAIN coef = {b} \ {NoReg} /\ \A r \in {b} \ {NoReg} : coef[r] = 1
  BY DEF Linear, Bit
<1>2. Linear(b, reg, n) =
        [r \in D |-> (IF r = b THEN 1 ELSE 0) + (IF r = reg THEN n ELSE 0)]
  <2>1. {b, reg} \ {NoReg} = D
    OBVIOUS
  <2>2. QED BY <2>1 DEF Linear, Bit
<1> HIDE DEF coef
<1>3. \A r \in D : (IF r = reg THEN (IF r \in DOMAIN coef THEN coef[r] ELSE 0) + n ELSE coef[r])
                   = (IF r = b THEN 1 ELSE 0) + (IF r = reg THEN n ELSE 0)
  BY <1>1
<1>4. Added(coef, reg, n) = Linear(b, reg, n)
  BY <1>1, <1>2, <1>3, AddedIs
<1>5. QED BY <1>4 DEF coef

\* The swap of esp: base and index * 1 are the same sum in either order.
LEMMA LinearSwap ==
  ASSUME NEW b, NEW x
  PROVE  Linear(b, x, 1) = Linear(x, b, 1)
BY DEF Linear, Bit

\* Without an index the scale does not count.
LEMMA NoIndex ==
  ASSUME NEW b, NEW m, NEW n
  PROVE  Linear(b, NoReg, m) = Linear(b, NoReg, n)
BY DEF Linear, Bit

-----------------------------------------------------------------------------
(* Expressions.                                                            *)

Coef(x) == Linear(x.base, x.index, x.scale)
Matches(x, s) ==
  s.coef = Coef(x) /\ s.disp = x.disp /\ s.label = x.label /\ s.rip = x.rip /\ s.asPtr = x.asPtr

\* What operator+ returns where it does not throw.
IsPlus(p, a, b) ==
  /\ p \in Expressions
  /\ p.disp = SizeT(a.disp + b.disp)
  /\ p.label = (a.label \/ b.label) /\ p.rip = a.rip /\ b.rip = FALSE
  /\ p.asPtr = (a.asPtr \/ b.asPtr)

LEMMA PlusType ==
  ASSUME NEW a \in Expressions, NEW b \in Expressions, PlusOk(a, b), NEW p, p = Plus(a, b)
  PROVE  IsPlus(p, a, b)
<1>1. a.disp + b.disp \in Int
  BY OperandsAssumption DEF Expressions, Displacements
<1>2. /\ p.disp = SizeT(a.disp + b.disp) /\ p.disp \in Displacements
      /\ p.label = (a.label \/ b.label) /\ p.rip = a.rip /\ p.asPtr = (a.asPtr \/ b.asPtr)
  BY <1>1, SizeTFacts DEF Plus
<1>3. p \in Expressions
  BY <1>2 DEF Plus, Expressions
<1>4. b.rip = FALSE
  BY DEF PlusOk, Expressions
<1>5. QED BY <1>2, <1>3, <1>4 DEF IsPlus

\* Where the registers of the two sides go.
LEMMA PlusRegs ==
  ASSUME NEW a, NEW b, PlusOk(a, b), NEW p, p = Plus(a, b)
  PROVE  /\ a.index = NoReg \/ b.index = NoReg
         /\ a.base # NoReg /\ b.base # NoReg =>
              /\ a.index = NoReg /\ b.index = NoReg /\ p.scale = 1
              /\ \/ p.base = a.base /\ p.index = b.base
                 \/ p.base = b.base /\ p.index = a.base
         /\ a.base = NoReg => p.base = b.base
         /\ b.base = NoReg => p.base = a.base
         /\ a.base = NoReg \/ b.base = NoReg =>
              /\ a.index # NoReg => p.index = a.index /\ p.scale = a.scale
              /\ a.index = NoReg => p.index = b.index /\ p.scale = b.scale
<1>1. a.index = NoReg \/ b.index = NoReg
  BY DEF PlusOk, HasIndex
<1>2. ASSUME a.base # NoReg /\ b.base # NoReg
      PROVE  /\ a.index = NoReg /\ b.index = NoReg /\ p.scale = 1
             /\ \/ p.base = a.base /\ p.index = b.base
                \/ p.base = b.base /\ p.index = a.base
  BY <1>2 DEF PlusOk, Plus, HasBase, HasIndex
<1>3. /\ a.base = NoReg => p.base = b.base
      /\ b.base = NoReg => p.base = a.base
  BY DEF Plus, HasBase
<1>4. ASSUME a.base = NoReg \/ b.base = NoReg
      PROVE  /\ a.index # NoReg => p.index = a.index /\ p.scale = a.scale
             /\ a.index = NoReg => p.index = b.index /\ p.scale = b.scale
  BY <1>4 DEF Plus, HasBase, HasIndex
<1>5. QED BY <1>1, <1>2, <1>3, <1>4

\* A register on either side of the sum counts scale times more.
LEMMA PlusRegister ==
  ASSUME NEW x \in Expressions, NEW t \in Expressions, NEW reg, reg # NoReg, NEW n \in {1, 2, 4, 8},
         \/ t.base = reg /\ t.index = NoReg /\ n = 1
         \/ t.base = NoReg /\ t.index = reg /\ t.scale = n,
         NEW p, (PlusOk(x, t) /\ p = Plus(x, t)) \/ (PlusOk(t, x) /\ p = Plus(t, x))
  PROVE  Coef(p) = Added(Coef(x), reg, n)
<1>1. /\ x.index = NoReg \/ t.index = NoReg
      /\ x.base # NoReg /\ t.base # NoReg =>
           /\ x.index = NoReg /\ t.index = NoReg /\ p.scale = 1
           /\ \/ p.base = x.base /\ p.index = t.base
              \/ p.base = t.base /\ p.index = x.base
      /\ x.base = NoReg => p.base = t.base
      /\ t.base = NoReg => p.base = x.base
      /\ x.base = NoReg \/ t.base = NoReg =>
           /\ x.index # NoReg => p.index = x.index /\ p.scale = x.scale
           /\ x.index = NoReg => p.index = t.index
           /\ t.index # NoReg => p.index = t.index /\ p.scale = t.scale
           /\ t.index = NoReg => p.index = x.index
  <2>1. CASE PlusOk(x, t) /\ p = Plus(x, t)
    <3>1. x.index = NoReg \/ t.index = NoReg
      BY <2>1, PlusRegs
    <3>2. QED BY <2>1, <3>1, PlusRegs
  <2>2. CASE PlusOk(t, x) /\ p = Plus(t, x)
    <3>1. x.index = NoReg \/ t.index = NoReg
      BY <2>2, PlusRegs
    <3>2. QED BY <2>2, <3>1, PlusRegs
  <2>3. QED BY <2>1, <2>2
<1>2. x.scale \in Int /\ n \in Int
  BY DEF Expressions
<1>3. CASE t.base = reg /\ t.index = NoReg /\ n = 1 /\ x.base # NoReg
  <2>0. t.base = reg /\ x.base # NoReg /\ t.base # NoReg
    BY <1>3
  <2>1. x.index = NoReg /\ p.scale = 1 /\ ((p.base = x.base /\ p.index = reg) \/ (p.base = reg /\ p.index = x.base))
    <3>1. /\ x.index = NoReg /\ p.scale = 1
          /\ (p.base = x.base /\ p.index = t.base) \/ (p.base = t.base /\ p.index = x.base)
      BY <1>1, <2>0
    <3>2. QED BY <3>1, <2>0
  <2>2. Coef(p) = Linear(x.base, reg, 1)
    BY <2>1, LinearSwap DEF Coef
  <2>3. Coef(x) = Linear(x.base, NoReg, x.scale)
    BY <2>1 DEF Coef
  <2>4. QED BY <1>3, <2>2, <2>3, AddIndex
<1>4. CASE t.base = reg /\ t.index = NoReg /\ n = 1 /\ x.base = NoReg
  <2>1. p.base = reg /\ p.index = x.index /\ (x.index # NoReg => p.scale = x.scale)
    BY <1>1, <1>4
  <2>2. Coef(p) = Linear(reg, x.index, x.scale)
    BY <2>1, NoIndex DEF Coef
  <2>3. QED BY <1>2, <1>4, <2>2, AddBase DEF Coef
<1>5. CASE t.base = NoReg /\ t.index = reg /\ t.scale = n
  <2>1. x.index = NoReg /\ p.base = x.base /\ p.index = reg /\ p.scale = n
    BY <1>1, <1>5
  <2>2. QED BY <1>2, <2>1, AddIndex DEF Coef
<1>6. QED BY <1>3, <1>4, <1>5

\* A term without a register leaves the registers alone.
LEMMA PlusNumber ==
  ASSUME NEW x \in Expressions, NEW t \in Expressions, t.base = NoReg, t.index = NoReg,
         NEW p, (PlusOk(x, t) /\ p = Plus(x, t)) \/ (PlusOk(t, x) /\ p = Plus(t, x))
  PROVE  Coef(p) = Coef(x)
<1>1. p.base = x.base /\ p.index = x.index /\ (x.index # NoReg => p.scale = x.scale)
  <2>1. CASE PlusOk(x, t) /\ p = Plus(x, t)
    BY <2>1, PlusRegs
  <2>2. CASE PlusOk(t, x) /\ p = Plus(t, x)
    BY <2>2, PlusRegs
  <2>3. QED BY <2>1, <2>2
<1>2. QED BY <1>1, NoIndex DEF Coef

-----------------------------------------------------------------------------
(* Terms.                                                                  *)

\* A register with a scale is a base or an index.
LEMMA RegisterTerm ==
  ASSUME NEW x \in Terms, TermOk(x), x.kind = "reg", NEW t, t = ExprOf(x)
  PROVE  /\ t \in Expressions
         /\ x.t.reg # NoReg /\ x.t.scale \in {1, 2, 4, 8}
         /\ \/ t.base = x.t.reg /\ t.index = NoReg /\ x.t.scale = 1
            \/ t.base = NoReg /\ t.index = x.t.reg /\ t.scale = x.t.scale
         /\ t.disp = 0 /\ t.label = FALSE /\ t.rip = FALSE /\ t.asPtr = FALSE
<1>1. x.t \in AddrTerms
  BY DEF Terms, RegTerms
<1>2. x.t.scale \in {1, 2, 4, 8}
  BY <1>1, EncodingAssumption DEF TermOk, RegTermOk
<1>3. x.t.reg # NoReg
  BY DEF TermOk, RegTermOk, IsVec, IsGp, NoReg
<1>4. x.t.reg \in Registers /\ NoReg \in Registers /\ 0 \in Displacements
  BY <1>1, SizeTFacts DEF Registers
<1>5. t = Expr(NoReg, x.t.reg, x.t.scale, 0) \/ (x.t.scale = 1 /\ t = Expr(x.t.reg, NoReg, x.t.scale, 0))
  BY <1>2 DEF ExprOf, RegTerm
<1>6. t \in Expressions
  <2>1. ASSUME NEW b \in Registers, NEW y \in Registers, NEW n \in {1, 2, 4, 8}, t = Expr(b, y, n, 0)
        PROVE  t \in Expressions
    BY <1>4, <2>1 DEF Expr, Expressions
  <2>2. QED BY <1>2, <1>4, <1>5, <2>1
<1>7. QED BY <1>2, <1>3, <1>5, <1>6 DEF Expr

\* The other terms have no register.
LEMMA OtherTerm ==
  ASSUME NEW x \in Terms, x.kind # "reg", NEW t, t = ExprOf(x)
  PROVE  /\ t \in Expressions
         /\ t.base = NoReg /\ t.index = NoReg
         /\ x.t \in Int
         /\ t.disp = IF x.kind \in {"disp", "ptr"} THEN SizeT(x.t) ELSE 0
         /\ t.label = (x.kind = "label") /\ t.rip = (x.kind = "rip") /\ t.asPtr = (x.kind = "ptr")
<1>1. x.kind \in {"disp", "ptr", "label", "rip"} /\ x.t \in Int
  <2>1. \/ x \in [kind : {"disp"}, t : Offsets] \/ x \in [kind : {"ptr"}, t : Pointers]
        \/ x \in [kind : {"label", "rip"}, t : {0}]
    BY DEF Terms, RegTerms
  <2>2. Offsets \subseteq Int /\ Pointers \subseteq Int
    BY EncodingAssumption DEF EncodingAssumption
  <2>3. x.t \in Offsets \/ x.t \in Pointers \/ x.t = 0
    BY <2>1
  <2>4. x.kind = "disp" \/ x.kind = "ptr" \/ x.kind = "label" \/ x.kind = "rip"
    BY <2>1
  <2>5. x.t \in Int
    <3>1. 0 \in Int
      OBVIOUS
    <3>2. QED BY <2>2, <2>3, <3>1, Zenon
  <2>6. QED BY <2>4, <2>5
<1>2. SizeT(x.t) \in Displacements /\ SizeT(0) = 0 /\ NoReg \in Registers /\ 0 \in Displacements
  BY <1>1, SizeTFacts DEF Registers
<1>3. CASE x.kind = "disp"
  BY <1>1, <1>2, <1>3 DEF ExprOf, DispTerm, Expr, Expressions
<1>4. CASE x.kind = "ptr"
  BY <1>1, <1>2, <1>4 DEF ExprOf, PtrTerm, DispTerm, Expr, Expressions
<1>5. CASE x.kind = "label"
  BY <1>1, <1>2, <1>5 DEF ExprOf, LabelTerm, DispTerm, Expr, Expressions
<1>6. CASE x.kind = "rip"
  BY <1>1, <1>2, <1>6 DEF ExprOf, RipTerm, DispTerm, Expr, Expressions
<1>7. QED BY <1>1, <1>3, <1>4, <1>5, <1>6

\* The sum grows by a register, or by a number or a mark.
LEMMA AddRegisterTerm ==
  ASSUME NEW s \in Sums, NEW x, x.kind = "reg", NEW r, r = AddTerm(s, x)
  PROVE  /\ r.coef = Added(s.coef, x.t.reg, x.t.scale)
         /\ r.disp = s.disp /\ r.label = s.label /\ r.rip = s.rip /\ r.asPtr = s.asPtr
         /\ r.once \in BOOLEAN
         /\ r = [coef |-> r.coef, disp |-> r.disp, label |-> r.label, rip |-> r.rip,
                 asPtr |-> r.asPtr, once |-> r.once]
<1> DEFINE c == Added(s.coef, x.t.reg, x.t.scale)
           o == s.once /\ x.t.reg \notin DOMAIN s.coef
<1>1. r = [s EXCEPT !.coef = c, !.once = o]
  BY DEF AddTerm, Added
<1>2. o \in BOOLEAN
  OBVIOUS
<1> HIDE DEF c, o
<1>3. /\ r.coef = c /\ r.once = o
      /\ r.disp = s.disp /\ r.label = s.label /\ r.rip = s.rip /\ r.asPtr = s.asPtr
      /\ r = [coef |-> r.coef, disp |-> r.disp, label |-> r.label, rip |-> r.rip,
              asPtr |-> r.asPtr, once |-> r.once]
  BY <1>1 DEF Sums
<1>4. QED BY <1>2, <1>3 DEF c

LEMMA AddOtherTerm ==
  ASSUME NEW s \in Sums, NEW x \in Terms, x.kind # "reg", NEW r, r = AddTerm(s, x)
  PROVE  /\ r.coef = s.coef /\ r.once = s.once
         /\ r.disp = IF x.kind \in {"disp", "ptr"} THEN SizeT(s.disp + x.t) ELSE s.disp
         /\ r.label = (s.label \/ x.kind = "label") /\ r.rip = (s.rip \/ x.kind = "rip")
         /\ r.asPtr = (s.asPtr \/ x.kind = "ptr")
         /\ r = [coef |-> r.coef, disp |-> r.disp, label |-> r.label, rip |-> r.rip,
                 asPtr |-> r.asPtr, once |-> r.once]
<1>1. x.kind \in {"disp", "ptr", "label", "rip"}
  BY DEF Terms, RegTerms
<1>2. CASE x.kind \in {"disp", "ptr"}
  <2> DEFINE d == SizeT(s.disp + x.t)
             k == s.asPtr \/ x.kind = "ptr"
  <2>1. r = [s EXCEPT !.disp = d, !.asPtr = k]
    BY <1>2 DEF AddTerm
  <2>2. k \in BOOLEAN
    OBVIOUS
  <2> HIDE DEF d, k
  <2>3. /\ r.disp = d /\ r.asPtr = k
        /\ r.coef = s.coef /\ r.once = s.once /\ r.label = s.label /\ r.rip = s.rip
        /\ r = [coef |-> r.coef, disp |-> r.disp, label |-> r.label, rip |-> r.rip,
                asPtr |-> r.asPtr, once |-> r.once]
    BY <2>1 DEF Sums
  <2>4. r.label = (s.label \/ x.kind = "label") /\ r.rip = (s.rip \/ x.kind = "rip")
    BY <1>2, <2>3 DEF Sums
  <2>5. QED BY <1>2, <2>3, <2>4 DEF d, k
<1>3. CASE x.kind = "label"
  BY <1>3 DEF AddTerm, Sums
<1>4. CASE x.kind = "rip"
  BY <1>4 DEF AddTerm, Sums
<1>5. QED BY <1>1, <1>2, <1>3, <1>4

-----------------------------------------------------------------------------
(* Steps.                                                                  *)

\* What a record of sums has to satisfy.
LEMMA IsSum ==
  ASSUME NEW s, NEW x \in Expressions, Matches(x, s), s.once \in BOOLEAN,
         s = [coef |-> s.coef, disp |-> s.disp, label |-> s.label, rip |-> s.rip,
              asPtr |-> s.asPtr, once |-> s.once]
  PROVE  s \in Sums
<1>1. Coef(x) \in Coefficients
  BY DEF Coef, Coefficients, Expressions
<1>2. /\ s.coef \in Coefficients /\ s.disp \in Displacements
      /\ s.label \in BOOLEAN /\ s.rip \in BOOLEAN /\ s.asPtr \in BOOLEAN
  BY <1>1 DEF Matches, Expressions
<1>3. QED BY <1>2 DEF Sums

LEMMA NoSumFacts ==
  /\ NoSum \in Sums
  /\ NoSum.coef = Linear(NoReg, NoReg, 0) /\ NoSum.disp = 0
  /\ NoSum.label = FALSE /\ NoSum.rip = FALSE /\ NoSum.asPtr = FALSE
<1>1. Linear(NoReg, NoReg, 0) \in Coefficients /\ 0 \in Displacements
  BY SizeTFacts DEF Coefficients, Registers
<1>2. QED BY <1>1 DEF NoSum, Sums

\* The first term.
LEMMA FirstTerm ==
  ASSUME NEW x \in Terms, TermOk(x), NEW t, t = ExprOf(x), NEW r, r = AddTerm(NoSum, x)
  PROVE  t \in Expressions /\ r \in Sums /\ Matches(t, r)
<1>1. CASE x.kind = "reg"
  <2>1. Added(NoSum.coef, x.t.reg, x.t.scale) = Coef(t)
    <3>1. x.t.reg # NoReg /\ x.t.scale \in Int
      <4>1. x.t.reg # NoReg /\ x.t.scale \in {1, 2, 4, 8}
        BY <1>1, RegisterTerm
      <4>2. QED BY <4>1
    <3>2. CASE t.base = x.t.reg /\ t.index = NoReg /\ x.t.scale = 1
      <4>1. Added(Linear(NoReg, NoReg, 0), x.t.reg, 1) = Linear(x.t.reg, NoReg, 0)
        BY <3>1, AddBase
      <4>2. QED BY <3>2, <4>1, NoIndex, NoSumFacts DEF Coef
    <3>3. CASE t.base = NoReg /\ t.index = x.t.reg /\ t.scale = x.t.scale
      <4>1. Added(Linear(NoReg, NoReg, 0), x.t.reg, x.t.scale) = Linear(NoReg, x.t.reg, x.t.scale)
        BY <3>1, AddIndex
      <4>2. QED BY <3>3, <4>1, NoSumFacts DEF Coef
    <3>4. QED BY <1>1, <3>2, <3>3, RegisterTerm
  <2>2. t \in Expressions /\ Matches(t, r)
    <3>1. /\ t \in Expressions
          /\ t.disp = 0 /\ t.label = FALSE /\ t.rip = FALSE /\ t.asPtr = FALSE
      BY <1>1, RegisterTerm
    <3>2. /\ r.coef = Added(NoSum.coef, x.t.reg, x.t.scale)
          /\ r.disp = NoSum.disp /\ r.label = NoSum.label /\ r.rip = NoSum.rip /\ r.asPtr = NoSum.asPtr
      BY <1>1, AddRegisterTerm, NoSumFacts
    <3>3. QED BY <2>1, <3>1, <3>2, NoSumFacts DEF Matches
  <2>3. r \in Sums
    BY <1>1, <2>2, AddRegisterTerm, NoSumFacts, IsSum
  <2>4. QED BY <2>2, <2>3
<1>2. CASE x.kind # "reg"
  <2>1. SizeT(0 + x.t) = SizeT(x.t) /\ t \in Expressions
    BY <1>2, OtherTerm
  <2>2. r.coef = Coef(t)
    BY <1>2, OtherTerm, AddOtherTerm, NoSumFacts, NoIndex DEF Coef
  <2>3. Matches(t, r) /\ r.once = NoSum.once
    BY <1>2, <2>1, <2>2, OtherTerm, AddOtherTerm, NoSumFacts DEF Matches
  <2>4. r \in Sums
    <3>1. r.once \in BOOLEAN
      BY <2>3 DEF NoSum
    <3>2. QED BY <1>2, <2>1, <2>3, <3>1, AddOtherTerm, NoSumFacts, IsSum
  <2>5. QED BY <2>1, <2>3, <2>4
<1>3. QED BY <1>1, <1>2

\* Another term, on either side of operator+.
LEMMA NextTerm ==
  ASSUME NEW ex \in Expressions, NEW s \in Sums, Matches(ex, s),
         NEW x \in Terms, TermOk(x), x.kind \in {"disp", "ptr"} => s.disp = 0,
         NEW t, t = ExprOf(x), NEW r, r = AddTerm(s, x), NEW p,
         (PlusOk(ex, t) /\ p = Plus(ex, t)) \/ (PlusOk(t, ex) /\ p = Plus(t, ex))
  PROVE  p \in Expressions /\ r \in Sums /\ Matches(p, r)
<1>1. t \in Expressions
  BY RegisterTerm, OtherTerm
<1>2. /\ p \in Expressions
      /\ p.disp = SizeT(ex.disp + t.disp)
      /\ p.label = (ex.label \/ t.label) /\ p.rip = (ex.rip \/ t.rip) /\ p.asPtr = (ex.asPtr \/ t.asPtr)
  <2>1. CASE PlusOk(ex, t) /\ p = Plus(ex, t)
    <3>1. /\ p \in Expressions /\ p.disp = SizeT(ex.disp + t.disp)
          /\ p.label = (ex.label \/ t.label) /\ p.rip = ex.rip /\ t.rip = FALSE
          /\ p.asPtr = (ex.asPtr \/ t.asPtr)
      <4>1. IsPlus(p, ex, t)
        BY <1>1, <2>1, PlusType
      <4>2. QED BY <4>1 DEF IsPlus
    <3>2. p.rip = (ex.rip \/ t.rip)
      BY <3>1 DEF Expressions
    <3>3. QED BY <3>1, <3>2
  <2>2. CASE PlusOk(t, ex) /\ p = Plus(t, ex)
    <3>1. /\ p \in Expressions /\ p.disp = SizeT(t.disp + ex.disp)
          /\ p.label = (t.label \/ ex.label) /\ p.rip = t.rip /\ ex.rip = FALSE
          /\ p.asPtr = (t.asPtr \/ ex.asPtr)
      <4>1. IsPlus(p, t, ex)
        BY <1>1, <2>2, PlusType
      <4>2. QED BY <4>1 DEF IsPlus
    <3>2. p.rip = (ex.rip \/ t.rip)
      BY <1>1, <3>1 DEF Expressions
    <3>3. t.disp + ex.disp = ex.disp + t.disp
      BY <1>1, OperandsAssumption DEF Expressions, Displacements
    <3>4. QED BY <3>1, <3>2, <3>3
  <2>3. QED BY <2>1, <2>2
<1>3. ex.disp \in Displacements /\ SizeT(ex.disp + 0) = ex.disp
  <2>1. ex.disp \in Displacements /\ ex.disp \in Int
    BY OperandsAssumption DEF Expressions, Displacements
  <2>2. QED BY <2>1, SizeTFacts
<1>4. CASE x.kind = "reg"
  <2>1. Coef(p) = Added(Coef(ex), x.t.reg, x.t.scale)
    <3>1. /\ x.t.reg # NoReg /\ x.t.scale \in {1, 2, 4, 8}
          /\ \/ t.base = x.t.reg /\ t.index = NoReg /\ x.t.scale = 1
             \/ t.base = NoReg /\ t.index = x.t.reg /\ t.scale = x.t.scale
      BY <1>4, RegisterTerm
    <3>2. QED BY <1>1, <3>1, PlusRegister
  <2>2. r.coef = Coef(p)
    BY <1>4, <2>1, AddRegisterTerm DEF Matches
  <2>3. Matches(p, r)
    <3>1. t.disp = 0 /\ t.label = FALSE /\ t.rip = FALSE /\ t.asPtr = FALSE
      BY <1>4, RegisterTerm
    <3>2. r.disp = ex.disp /\ r.label = ex.label /\ r.rip = ex.rip /\ r.asPtr = ex.asPtr
      BY <1>4, AddRegisterTerm DEF Matches
    <3>3. p.label = ex.label /\ p.rip = ex.rip /\ p.asPtr = ex.asPtr
      BY <1>2, <3>1 DEF Expressions
    <3>4. QED BY <1>2, <1>3, <2>2, <3>1, <3>2, <3>3 DEF Matches
  <2>4. r \in Sums
    BY <1>2, <1>4, <2>3, AddRegisterTerm, IsSum
  <2>5. QED BY <1>2, <2>3, <2>4
<1>5. CASE x.kind # "reg"
  <2>1. r.coef = Coef(p)
    BY <1>1, <1>5, OtherTerm, PlusNumber, AddOtherTerm DEF Matches
  <2>2. r.disp = p.disp
    <3>1. CASE x.kind \in {"disp", "ptr"}
      <4>1. /\ s.disp = 0 /\ ex.disp = 0 /\ t.disp = SizeT(x.t) /\ x.t \in Int
            /\ r.disp = SizeT(s.disp + x.t)
        BY <1>5, <3>1, OtherTerm, AddOtherTerm DEF Matches
      <4>2. SizeT(x.t) \in Displacements /\ SizeT(x.t) \in Int
        BY <4>1, SizeTFacts, OperandsAssumption DEF Displacements
      <4>3. 0 + SizeT(x.t) = SizeT(x.t) /\ 0 + x.t = x.t
        BY <4>1, <4>2
      <4>4. QED BY <1>2, <4>1, <4>2, <4>3, SizeTFacts
    <3>2. CASE x.kind \notin {"disp", "ptr"}
      <4>1. t.disp = 0 /\ r.disp = s.disp
        BY <1>5, <3>2, OtherTerm, AddOtherTerm
      <4>2. QED BY <1>2, <1>3, <4>1 DEF Matches
    <3>3. QED BY <3>1, <3>2
  <2>3. r.label = p.label /\ r.rip = p.rip /\ r.asPtr = p.asPtr
    <3>1. /\ r.label = (s.label \/ x.kind = "label") /\ r.rip = (s.rip \/ x.kind = "rip")
          /\ r.asPtr = (s.asPtr \/ x.kind = "ptr")
      BY <1>5, AddOtherTerm
    <3>2. /\ t.label = (x.kind = "label") /\ t.rip = (x.kind = "rip") /\ t.asPtr = (x.kind = "ptr")
      BY <1>5, OtherTerm
    <3>3. QED BY <1>2, <3>1, <3>2 DEF Matches
  <2>4. Matches(p, r) /\ r.once \in BOOLEAN
    BY <1>5, <2>1, <2>2, <2>3, AddOtherTerm DEF Matches, Sums
  <2>5. r \in Sums
    BY <1>2, <1>5, <2>4, AddOtherTerm, IsSum
  <2>6. QED BY <1>2, <2>4, <2>5
<1>6. QED BY <1>4, <1>5

-----------------------------------------------------------------------------
(* The shape of an expression.                                             *)

\* What the registers of a term may be.
LEMMA TermShape ==
  ASSUME NEW x \in Terms, TermOk(x), x.kind = "reg", NEW t, t = ExprOf(x)
  PROVE  /\ t.base = NoReg \/ t.index = NoReg
         /\ t.base # NoReg => t.base = x.t.reg /\ IsGp(t.base) /\ t.base.bit \in {32, 64}
         /\ t.index # NoReg =>
              /\ t.index = x.t.reg /\ t.scale \in {1, 2, 4, 8}
              /\ IsVec(t.index) \/ (IsGp(t.index) /\ t.index.bit \in {32, 64} /\ t.scale # 1)
<1>1. x.t \in AddrTerms
  BY DEF Terms, RegTerms
<1>2. x.t.scale \in {1, 2, 4, 8} /\ RegTermOk(x.t.reg, x.t.scale)
  BY <1>1, RegisterTerm DEF TermOk
<1>3. \/ t = Expr(NoReg, x.t.reg, x.t.scale, 0) /\ (IsVec(x.t.reg) \/ x.t.scale # 1)
      \/ t = Expr(x.t.reg, NoReg, x.t.scale, 0) /\ ~IsVec(x.t.reg)
  BY <1>2 DEF ExprOf, RegTerm
<1>4. QED BY <1>2, <1>3 DEF Expr, RegTermOk, IsVec, IsGp

\* The registers of a sum of two.
LEMMA SumShape ==
  ASSUME NEW a, NEW b, PlusOk(a, b), NEW p, p = Plus(a, b), NEW sa, NEW sb, NEW s,
         Shape(a, sa), Shape(b, sb),
         s.once /\ p.base # NoReg => p.base # p.index
  PROVE  Shape(p, s)
<1>1. p.rip = a.rip /\ ~b.rip /\ (a.rip => b.base = NoReg /\ b.index = NoReg)
  BY DEF PlusOk, Plus, IsOnlyDisp, HasBase, HasIndex
<1>2. p.rip => p.base = NoReg /\ p.index = NoReg
  <2>1. a.rip => a.base = NoReg /\ a.index = NoReg
    BY DEF Shape
  <2>2. QED BY <1>1, <2>1, PlusRegs
<1>3. p.base # NoReg => IsGp(p.base) /\ p.base.bit \in {32, 64}
  BY PlusRegs DEF Shape
<1>4. ASSUME p.index # NoReg
      PROVE  /\ p.scale \in {1, 2, 4, 8}
             /\ IsVec(p.index) \/ (IsGp(p.index) /\ p.index.bit \in {32, 64})
             /\ IsGp(p.index) /\ p.scale = 1 => p.base # NoReg /\ (p.index.idx = ESP => p.base.idx = ESP)
  <2>1. CASE a.base # NoReg /\ b.base # NoReg
    <3>1. /\ p.scale = 1
          /\ \/ p.base = a.base /\ p.index = b.base /\ b.base.idx # ESP
             \/ p.base = b.base /\ p.index = a.base /\ b.base.idx = ESP
      BY <2>1 DEF Plus, HasBase, HasIndex
    <3>2. QED BY <2>1, <3>1 DEF Shape
  <2>2. CASE ~(a.base # NoReg /\ b.base # NoReg) /\ a.index # NoReg
    <3>1. p.index = a.index /\ p.scale = a.scale /\ (a.base # NoReg => p.base = a.base)
      BY <2>2, PlusRegs
    <3>2. QED BY <2>2, <3>1 DEF Shape
  <2>3. CASE ~(a.base # NoReg /\ b.base # NoReg) /\ a.index = NoReg
    <3>1. p.index = b.index /\ p.scale = b.scale /\ (b.base # NoReg => p.base = b.base)
      BY <2>3, PlusRegs
    <3>2. QED BY <1>4, <2>3, <3>1 DEF Shape
  <2>4. QED BY <2>1, <2>2, <2>3
<1>5. QED BY <1>2, <1>3, <1>4 DEF Shape

LEMMA TermHasShape ==
  ASSUME NEW x \in Terms, TermOk(x), NEW t, t = ExprOf(x), NEW s
  PROVE  Shape(t, s)
<1>1. CASE x.kind = "reg"
  <2>1. t.rip = FALSE /\ t.base # t.index
    BY <1>1, RegisterTerm
  <2>2. /\ t.base # NoReg => IsGp(t.base) /\ t.base.bit \in {32, 64}
        /\ t.index # NoReg =>
             /\ t.scale \in {1, 2, 4, 8}
             /\ IsVec(t.index) \/ (IsGp(t.index) /\ t.index.bit \in {32, 64} /\ t.scale # 1)
    BY <1>1, TermShape
  <2>3. ~(IsVec(t.index) /\ IsGp(t.index))
    BY DEF IsVec, IsGp
  <2>4. QED BY <2>1, <2>2, <2>3 DEF Shape
<1>2. CASE x.kind # "reg"
  <2>1. t.base = NoReg /\ t.index = NoReg
    BY <1>2, OtherTerm
  <2>2. QED BY <2>1 DEF Shape
<1>3. QED BY <1>1, <1>2

\* The registers that count in a sum.
LEMMA Counted ==
  ASSUME NEW e, NEW s, Matches(e, s)
  PROVE  DOMAIN s.coef = {e.base, e.index} \ {NoReg}
BY DEF Matches, Coef, Linear

LEMMA NextShape ==
  ASSUME NEW ex \in Expressions, NEW s \in Sums, Matches(ex, s), Shape(ex, s),
         NEW x \in Terms, TermOk(x),
         NEW t, t = ExprOf(x), NEW r, r = AddTerm(s, x), NEW p,
         (PlusOk(ex, t) /\ p = Plus(ex, t)) \/ (PlusOk(t, ex) /\ p = Plus(t, ex))
  PROVE  Shape(p, r)
<1>1. Shape(t, s) /\ DOMAIN s.coef = {ex.base, ex.index} \ {NoReg}
  BY TermHasShape, Counted
<1>2. r.once => s.once /\ (t.base # NoReg => t.base \notin {ex.base, ex.index})
                       /\ (t.index # NoReg => t.index \notin {ex.base, ex.index})
  <2>1. CASE x.kind = "reg"
    <3>1. r.once => s.once /\ x.t.reg \notin DOMAIN s.coef
      BY <2>1 DEF AddTerm, Sums
    <3>2. QED BY <1>1, <2>1, <3>1, TermShape
  <2>2. CASE x.kind # "reg"
    <3>1. r.once = s.once
      BY <2>2, AddOtherTerm
    <3>2. t.base = NoReg /\ t.index = NoReg
      BY <2>2, OtherTerm
    <3>3. QED BY <3>1, <3>2
  <2>3. QED BY <2>1, <2>2
<1>3. t.base = NoReg \/ t.index = NoReg
  BY TermShape, OtherTerm
<1>4. s.once /\ ex.base # NoReg => ex.base # ex.index
  BY DEF Shape
<1>5. CASE PlusOk(ex, t) /\ p = Plus(ex, t)
  <2>1. r.once /\ p.base # NoReg => p.base # p.index
    BY <1>2, <1>3, <1>4, <1>5, PlusRegs
  <2>2. QED BY <1>1, <1>5, <2>1, SumShape
<1>6. CASE PlusOk(t, ex) /\ p = Plus(t, ex)
  <2>1. r.once /\ p.base # NoReg => p.base # p.index
    BY <1>2, <1>3, <1>4, <1>6, PlusRegs
  <2>2. QED BY <1>1, <1>6, <2>1, SumShape
<1>7. QED BY <1>5, <1>6


-----------------------------------------------------------------------------
(* What operator+ and verify refuse.                                       *)

\* The linear forms that an address can have.
LEMMA LinearDomain ==
  ASSUME NEW b, NEW x, NEW n
  PROVE  DOMAIN Linear(b, x, n) = {b, x} \ {NoReg}
BY DEF Linear

LEMMA LinearIndex ==
  ASSUME NEW b, NEW x, NEW n \in Int, x # NoReg
  PROVE  Linear(b, x, n)[x] = IF b = x THEN 1 + n ELSE n
BY DEF Linear, Bit

LEMMA LinearBase ==
  ASSUME NEW b, NEW x, NEW n \in Int, b # NoReg, b # x
  PROVE  Linear(b, x, n)[b] = 1
BY DEF Linear, Bit

\* A sum that verify refuses has esp as its index, or registers of two widths.
LEMMA RefusedByVerify ==
  ASSUME NEW e, NEW s, Matches(e, s), Shape(e, s), ~VerifyOk(e)
  PROVE  ~(s.once /\ Encodable(s))
<1> SUFFICES ASSUME s.once, NEW b, NEW x, NEW n \in {1, 2, 4, 8},
                    s.coef = Linear(b, x, n), ~IsVec(b),
                    IsGp(x) => x.idx # ESP /\ (b # NoReg => b.bit = x.bit)
             PROVE  FALSE
  BY DEF Encodable
<1>1. ~IsVec(e.base)
  <2>1. e.base = NoReg \/ IsGp(e.base)
    BY DEF Shape
  <2>2. QED BY <2>1 DEF IsVec, IsGp, NoReg
<1>2. IsGp(e.index) /\ (e.index.idx = ESP \/ (e.base # NoReg /\ e.base.bit # e.index.bit))
  BY <1>1 DEF VerifyOk, HasBase
<1>3. e.index # NoReg /\ e.scale \in {1, 2, 4, 8}
  <2>1. e.index # NoReg
    BY <1>2 DEF IsGp, NoReg
  <2>2. QED BY <2>1 DEF Shape
<1>4. s.coef = Linear(e.base, e.index, e.scale)
  BY DEF Matches, Coef
<1>5. {b, x} \ {NoReg} = {e.base, e.index} \ {NoReg}
  <2>1. DOMAIN s.coef = {b, x} \ {NoReg}
    <3>1. DOMAIN Linear(b, x, n) = {b, x} \ {NoReg}
      BY LinearDomain
    <3>2. QED BY <3>1
  <2>2. DOMAIN s.coef = {e.base, e.index} \ {NoReg}
    BY Counted
  <2>3. QED BY <2>1, <2>2
<1>6. /\ e.base # e.index => s.coef[e.index] = e.scale
      /\ e.base = e.index => s.coef[e.index] = 1 + e.scale
  <2>1. e.scale \in Int
    BY <1>3
  <2>2. QED BY <1>3, <1>4, <2>1, LinearIndex
<1>7. CASE e.index.idx = ESP
  <2>1. e.scale = 1 => e.base # NoReg /\ e.base # e.index /\ IsGp(e.base) /\ e.base.idx = ESP
    BY <1>2, <1>3, <1>7 DEF Shape
  <2>2. x # e.index
    BY <1>2, <1>7
  <2>3. b = e.index /\ s.coef[e.index] = 1
    <3>1. b = e.index
      BY <1>3, <1>5, <2>2
    <3>2. n \in Int
      OBVIOUS
    <3>3. QED BY <1>3, <2>2, <3>1, <3>2, LinearBase
  <2>4. e.scale = 1
    BY <1>3, <1>6, <2>3
  <2>5. x = e.base
    BY <1>3, <1>5, <2>1, <2>2, <2>3, <2>4
  <2>6. QED BY <1>2, <2>1, <2>4, <2>5
<1>8. CASE e.base # NoReg /\ e.base.bit # e.index.bit
  <2>1. IsGp(e.base) /\ e.base # e.index
    BY <1>8 DEF Shape
  <2>2. (b = e.base /\ x = e.index) \/ (b = e.index /\ x = e.base)
    BY <1>3, <1>5, <1>8, <2>1
  <2>3. QED BY <1>2, <1>3, <1>8, <2>1, <2>2
<1>9. QED BY <1>2, <1>7, <1>8

\* A register that operator+ has no place for would be a third one, or a second
\* one that is neither a base nor has the scale of one.
LEMMA RefusedByPlus ==
  ASSUME NEW e \in Expressions, NEW s \in Sums, Matches(e, s), Shape(e, s), ~s.rip,
         NEW x \in RegTerms, NEW t, t = ExprOf(x), ~PlusOk(e, t) \/ ~PlusOk(t, e),
         NEW r, r = AddTerm(s, x)
  PROVE  ~(r.once /\ Encodable(r))
<1> DEFINE reg == x.t.reg
           m == x.t.scale
<1> SUFFICES ASSUME r.once, NEW b, NEW y, NEW n \in {1, 2, 4, 8}, r.coef = Linear(b, y, n), ~IsVec(b)
             PROVE  FALSE
  BY DEF Encodable
<1>1. reg \in GpRegs \cup VecRegs /\ m \in Int \ {0} /\ x.kind = "reg"
  BY EncodingAssumption DEF RegTerms
<1>2. reg # NoReg
  BY <1>1 DEF GpRegs, VecRegs, Gp, Ext8, Vec, NoReg
<1>3. \/ t = Expr(NoReg, reg, m, 0) /\ (IsVec(reg) \/ m # 1)
      \/ t = Expr(reg, NoReg, m, 0) /\ ~IsVec(reg) /\ m = 1
  BY <1>1 DEF ExprOf, RegTerm
<1>4. /\ ~t.label /\ ~t.rip /\ ~t.asPtr
      /\ \/ t.base = NoReg /\ t.index = reg /\ (IsVec(reg) \/ m # 1)
         \/ t.base = reg /\ t.index = NoReg
  BY <1>3 DEF Expr
<1>5. e.index # NoReg /\ ((t.base = NoReg /\ t.index = reg) \/ e.base # NoReg)
  <2>1. ~e.rip
    BY DEF Matches
  <2>2. QED BY <1>2, <1>4, <2>1 DEF PlusOk, HasBase, HasIndex
<1>6. reg \notin {e.base, e.index} /\ s.once /\ r.coef = Added(s.coef, reg, m)
  <2>1. r.once => s.once /\ reg \notin DOMAIN s.coef
    BY <1>1 DEF AddTerm, Sums
  <2>2. r.coef = Added(s.coef, reg, m)
    BY <1>1, AddRegisterTerm
  <2>3. QED BY <1>2, <2>1, <2>2, Counted
<1> HIDE DEF reg, m
<1>7. e.base # e.index
  BY <1>5, <1>6 DEF Shape
<1>8. s.coef[e.index] = e.scale /\ e.scale \in {1, 2, 4, 8}
  <2>1. e.scale \in {1, 2, 4, 8}
    BY <1>5 DEF Shape
  <2>2. e.scale \in Int
    BY <2>1
  <2>3. Linear(e.base, e.index, e.scale)[e.index] = e.scale
    BY <1>5, <1>7, <2>2, LinearIndex
  <2>4. QED BY <2>1, <2>3 DEF Matches, Coef
<1>9. /\ DOMAIN r.coef = ({e.base, e.index} \ {NoReg}) \cup {reg}
      /\ r.coef[reg] = m /\ r.coef[e.index] = e.scale
  <2>1. DOMAIN s.coef = {e.base, e.index} \ {NoReg}
    BY Counted
  <2>2. /\ DOMAIN r.coef = DOMAIN s.coef \cup {reg}
        /\ \A k \in DOMAIN s.coef \cup {reg} :
             r.coef[k] = IF k = reg THEN (IF k \in DOMAIN s.coef THEN s.coef[k] ELSE 0) + m ELSE s.coef[k]
    BY <1>6, AddedIs
  <2>3. r.coef[reg] = 0 + m
    BY <1>6, <2>1, <2>2
  <2>4. r.coef[e.index] = s.coef[e.index]
    BY <1>5, <1>6, <2>1, <2>2
  <2>5. 0 + m = m
    BY <1>1 DEF m
  <2>6. QED BY <1>8, <2>1, <2>2, <2>3, <2>4, <2>5
<1>10. {b, y} \ {NoReg} = ({e.base, e.index} \ {NoReg}) \cup {reg}
  <2>1. DOMAIN Linear(b, y, n) = {b, y} \ {NoReg}
    BY LinearDomain
  <2>2. QED BY <1>9, <2>1
<1>11. e.base = NoReg /\ ((b = e.index /\ y = reg) \/ (b = reg /\ y = e.index))
  <2>1. reg # NoReg
    BY <1>2 DEF reg
  <2>2. QED BY <1>5, <1>6, <1>7, <1>10, <2>1
<1>12. r.coef[b] = 1
  <2>1. n \in Int /\ b # NoReg /\ b # y
    BY <1>2, <1>5, <1>6, <1>11 DEF reg
  <2>2. Linear(b, y, n)[b] = 1
    BY <2>1, LinearBase
  <2>3. QED BY <2>2
<1>13. CASE b = e.index
  <2>1. e.scale = 1
    BY <1>9, <1>12, <1>13
  <2>2. QED BY <1>5, <1>11, <1>13, <2>1 DEF Shape
<1>14. CASE b = reg
  <2>1. m = 1
    BY <1>9, <1>12, <1>14
  <2>2. QED BY <1>2, <1>4, <1>5, <1>11, <1>14, <2>1 DEF reg, m
<1>15. QED BY <1>11, <1>13, <1>14

-----------------------------------------------------------------------------
(* The invariant.                                                          *)

\* An instruction or an error starts another expression.
Dropped == expr' = None /\ sum' = NoSum

LEMMA StartsAgain == Dropped => IInv'
BY NoSumFacts DEF Dropped, IInv, ExpressionIsSum

LEMMA Steps ==
  ASSUME IInv, Next
  PROVE  IInv'
<1>1. expr # None => expr \in Expressions /\ Matches(expr, sum) /\ Shape(expr, sum)
  BY DEF IInv, ExpressionIsSum, Matches, Coef
<1>2. sum \in Sums
  BY DEF IInv
<1>3. ASSUME expr' \in Expressions, sum' \in Sums, Matches(expr', sum'), Shape(expr', sum')
      PROVE  IInv'
  BY <1>3 DEF IInv, ExpressionIsSum, Matches, Coef
<1>4. CASE Start
  <2>1. PICK x \in Terms : TermOk(x) /\ expr' = ExprOf(x) /\ sum' = AddTerm(NoSum, x)
    BY <1>4 DEF Start
  <2>2. Shape(expr', sum')
    BY <2>1, TermHasShape
  <2>3. QED BY <1>3, <2>1, <2>2, FirstTerm
<1>5. CASE Extend
  <2>1. PICK x \in Terms, right \in BOOLEAN :
          LET a == IF right THEN expr ELSE ExprOf(x)
              b == IF right THEN ExprOf(x) ELSE expr
          IN  /\ expr # None /\ TermOk(x) /\ (x.kind \in {"disp", "ptr"} => sum.disp = 0)
              /\ PlusOk(a, b)
              /\ expr' = Plus(a, b) /\ sum' = AddTerm(sum, x)
    BY <1>5 DEF Extend
  <2>2. Shape(expr', sum')
    BY <1>1, <1>2, <2>1, NextShape
  <2>3. QED BY <1>1, <1>2, <1>3, <2>1, <2>2, NextTerm
<1>6. CASE Subtract
  <2>1. PICK d \in Offsets :
          expr # None /\ expr' = Minus(expr, d) /\ sum' = [sum EXCEPT !.disp = SizeT(@ - d)]
    BY <1>6 DEF Subtract
  <2>2. d \in Int /\ sum.disp = expr.disp /\ expr.disp \in Int
    BY <1>1, <2>1, EncodingAssumption, OperandsAssumption
    DEF EncodingAssumption, Matches, Expressions, Displacements
  <2>3. SizeT(expr.disp - d) \in Displacements
    BY <2>2, SizeTFacts
  <2> DEFINE n == SizeT(expr.disp - d)
  <2>4. expr' = [expr EXCEPT !.disp = n] /\ sum' = [sum EXCEPT !.disp = n] /\ n \in Displacements
    BY <2>1, <2>2, <2>3 DEF Minus
  <2> HIDE DEF n
  <2>5. expr' \in Expressions /\ sum' \in Sums
    BY <1>1, <1>2, <2>1, <2>4 DEF Expressions, Sums
  <2>6. Matches(expr', sum')
    BY <1>1, <1>2, <2>1, <2>4 DEF Matches, Coef, Expressions, Sums
  <2>7. Shape(expr', sum')
    BY <1>1, <1>2, <2>1, <2>4 DEF Shape, Expressions, Sums
  <2>8. QED BY <1>3, <2>5, <2>6, <2>7
<1>7. CASE Continue
  BY <1>7, StartsAgain DEF Continue, Dropped
<1>8. CASE LegacyM
  BY <1>8, StartsAgain DEF LegacyM, Emit, Dropped
<1>9. CASE LegacyR
  BY <1>9, StartsAgain DEF LegacyR, Emit, Dropped
<1>10. CASE VectorM
  BY <1>10, StartsAgain DEF VectorM, Emit, Dropped
<1>11. CASE VectorR
  BY <1>11, StartsAgain DEF VectorR, Emit, Dropped
<1>12. CASE ThreeM
  BY <1>12, StartsAgain DEF ThreeM, Emit, Dropped
<1>13. CASE ThreeR
  BY <1>13, StartsAgain DEF ThreeR, Emit, Dropped
<1>14. CASE VexGp
  BY <1>14, StartsAgain DEF VexGp, Emit, Dropped
<1>15. CASE ArithImm
  BY <1>15, StartsAgain DEF ArithImm, Emit, Dropped
<1>16. CASE TestImm
  BY <1>16, StartsAgain DEF TestImm, Emit, Dropped
<1>17. CASE Arith3Imm
  BY <1>17, StartsAgain DEF Arith3Imm, Emit, Dropped
<1>18. CASE ImulImm
  BY <1>18, StartsAgain DEF ImulImm, Emit, Dropped
<1>19. CASE Shift
  BY <1>19, StartsAgain DEF Shift, Emit, Dropped
<1>20. CASE Shxd
  BY <1>20, StartsAgain DEF Shxd, Emit, Dropped
<1>21. CASE MovImmReg
  BY <1>21, StartsAgain DEF MovImmReg, Emit, Dropped
<1>22. CASE MovImmMem
  BY <1>22, StartsAgain DEF MovImmMem, Emit, Dropped
<1>23. CASE MovMoffs
  BY <1>23, StartsAgain DEF MovMoffs, Emit, Dropped
<1>24. CASE Push
  BY <1>24, StartsAgain DEF Push, Emit, Dropped
<1>25. QED
  BY <1>4, <1>5, <1>6, <1>7, <1>8, <1>9, <1>10, <1>11, <1>12, <1>13, <1>14, <1>15, <1>16, <1>17,
     <1>18, <1>19, <1>20, <1>21, <1>22, <1>23, <1>24 DEF Next

LEMMA InvHolds == Spec => []IInv
<1>1. Init => IInv
  BY NoSumFacts DEF Init, IInv, ExpressionIsSum
<1>2. IInv /\ [Next]_vars => IInv'
  <2>1. CASE Next
    BY <2>1, Steps
  <2>2. CASE UNCHANGED vars
    BY <2>2 DEF vars, IInv, ExpressionIsSum
  <2>3. QED BY <2>1, <2>2
<1>3. QED BY <1>1, <1>2, PTL DEF Spec

LEMMA InvRefused == IInv => RefusedIsUnencodable
<1> SUFFICES ASSUME IInv, expr # None
             PROVE  /\ ~VerifyOk(expr) => ~(sum.once /\ Encodable(sum))
                    /\ ~sum.rip => \A x \in RegTerms, right \in BOOLEAN :
                         ~(IF right THEN PlusOk(expr, ExprOf(x)) ELSE PlusOk(ExprOf(x), expr)) =>
                           ~(AddTerm(sum, x).once /\ Encodable(AddTerm(sum, x)))
  BY DEF RefusedIsUnencodable
<1>1. expr \in Expressions /\ sum \in Sums /\ Matches(expr, sum) /\ Shape(expr, sum)
  BY DEF IInv, ExpressionIsSum, Matches, Coef
<1>2. ~VerifyOk(expr) => ~(sum.once /\ Encodable(sum))
  BY <1>1, RefusedByVerify
<1>3. ASSUME ~sum.rip, NEW x \in RegTerms, NEW right \in BOOLEAN,
             ~(IF right THEN PlusOk(expr, ExprOf(x)) ELSE PlusOk(ExprOf(x), expr))
      PROVE  ~(AddTerm(sum, x).once /\ Encodable(AddTerm(sum, x)))
  BY <1>1, <1>3, RefusedByPlus
<1>4. QED BY <1>2, <1>3

\* Whatever terms the client adds, on whichever side, and however operator+
\* moves them between base and index, the RegExp that operator+ and operator-
\* return stands for the sum that the client wrote (xbyak.h, RegExp).
THEOREM SumIsKept == Spec => []ExpressionIsSum
<1>1. IInv => ExpressionIsSum
  BY DEF IInv
<1>2. QED BY <1>1, InvHolds, PTL

\* operator+ and verify throw only where no base, index and scale can stand for
\* the sum: neither the order in which the terms come nor the place that a
\* register got first makes an address impossible that another order allows
\* (xbyak.h, operator+, RegExp::verify).
THEOREM RefusalsAreJustified == Spec => []RefusedIsUnencodable
BY InvHolds, InvRefused, PTL

-----------------------------------------------------------------------------
(* Registers.                                                              *)

AllRegs == GpRegs \cup VecRegs \cup {NoReg}

LEMMA GpForm ==
  ASSUME NEW r \in GpRegs
  PROVE  /\ r.idx \in 0..31 /\ r.bit \in {8, 16, 32, 64} /\ r.ext8 \in BOOLEAN
         /\ IsGp(r) /\ ~IsVec(r) /\ ~IsMem(r) /\ r # NoReg
         /\ r.ext8 => r.bit = 8 /\ r.idx \in 4..7 /\ r = Ext8(r.idx)
         /\ ~r.ext8 => r = Gp(r.idx, r.bit)
<1>1. CASE r \in {Gp(n, bit) : n \in 0..31, bit \in {8, 16, 32, 64}}
  <2>1. PICK n \in 0..31, bit \in {8, 16, 32, 64} : r = Gp(n, bit)
    BY <1>1
  <2>2. QED BY <2>1 DEF Gp, IsGp, IsVec, IsMem, NoReg
<1>2. CASE r \in {Ext8(n) : n \in 4..7}
  <2>1. PICK n \in 4..7 : r = Ext8(n)
    BY <1>2
  <2>2. QED BY <2>1 DEF Gp, Ext8, IsGp, IsVec, IsMem, NoReg
<1>3. QED BY <1>1, <1>2 DEF GpRegs

LEMMA VecForm ==
  ASSUME NEW r \in VecRegs
  PROVE  /\ r.idx \in 0..31 /\ r.bit \in {128, 256, 512} /\ r.ext8 = FALSE
         /\ ~IsGp(r) /\ IsVec(r) /\ ~IsMem(r) /\ r # NoReg
         /\ r = Vec(r.idx, r.bit)
BY DEF VecRegs, Vec, IsGp, IsVec, IsMem, NoReg

LEMMA NoRegForm ==
  /\ NoReg.idx = 0 /\ NoReg.bit = 0 /\ NoReg.ext8 = FALSE
  /\ ~IsGp(NoReg) /\ ~IsVec(NoReg) /\ ~IsMem(NoReg)
  /\ ~IsExtIdx(NoReg) /\ ~IsExtIdx2(NoReg)
BY DEF NoReg, IsGp, IsVec, IsMem, IsExtIdx, IsExtIdx2, HasIdxBit

\* Where an encoding puts the bits of a register number.
LEMMA NumberBits ==
  ASSUME NEW r, r.idx \in 0..31
  PROVE  /\ IsExtIdx(r) \in BOOLEAN /\ IsExtIdx2(r) \in BOOLEAN
         /\ r.idx % 8 \in 0..7 /\ r.idx % 16 \in 0..15
         /\ (r.idx % 8) + Bit(IsExtIdx(r), 8) + Bit(IsExtIdx2(r), 16) = r.idx
         /\ (r.idx % 8) + Bit(IsExtIdx(r), 8) = r.idx % 16
         /\ (r.idx % 16) + Bit(IsExtIdx2(r), 16) = r.idx
         /\ IsExtIdx2(r) <=> r.idx >= 16
         /\ r.idx >= 8 /\ r.idx < 16 => IsExtIdx(r)
         /\ r.idx < 8 => ~IsExtIdx(r)
<1> DEFINE n == r.idx
<1>1. n \in 0..31
  OBVIOUS
<1>2. /\ IsExtIdx(r) = ((n \div 8) % 2 = 1)
      /\ IsExtIdx2(r) = ((n \div 16) % 2 = 1)
  <2>1. 2^3 = 8 /\ 2^4 = 16
    OBVIOUS
  <2>2. QED BY <2>1 DEF IsExtIdx, IsExtIdx2, HasIdxBit
<1> HIDE DEF n
<1>3. /\ n % 8 \in 0..7 /\ n % 16 \in 0..15
      /\ (n % 8) + (IF (n \div 8) % 2 = 1 THEN 8 ELSE 0) + (IF (n \div 16) % 2 = 1 THEN 16 ELSE 0) = n
      /\ (n % 8) + (IF (n \div 8) % 2 = 1 THEN 8 ELSE 0) = n % 16
      /\ (n % 16) + (IF (n \div 16) % 2 = 1 THEN 16 ELSE 0) = n
      /\ (n \div 16) % 2 = 1 <=> n >= 16
      /\ n >= 8 /\ n < 16 => (n \div 8) % 2 = 1
      /\ n < 8 => (n \div 8) % 2 # 1
  BY <1>1
<1>4. QED BY <1>2, <1>3 DEF Bit, n

LEMMA RegIndex ==
  ASSUME NEW r \in AllRegs
  PROVE  r.idx \in 0..31 /\ ~IsMem(r)
<1>1. CASE r = NoReg
  BY <1>1, NoRegForm
<1>2. CASE r \in GpRegs
  BY <1>2, GpForm
<1>3. CASE r \in VecRegs
  BY <1>3, VecForm, ZenonT(30)
<1>4. QED BY <1>1, <1>2, <1>3 DEF AllRegs

-----------------------------------------------------------------------------
(* Numbers.                                                                *)

Widths == {8, 16, 32, 64}

LEMMA DivMod ==
  ASSUME NEW x \in Int, NEW m \in Nat \ {0}
  PROVE  \E q \in Int : \E r \in 0..(m - 1) : x % m = r /\ x = m * q + r
OBVIOUS

LEMMA NoMultiple ==
  ASSUME NEW d \in Int, NEW m \in Nat \ {0}, NEW r \in 0..(m - 1), NEW s \in 0..(m - 1),
         m * d = r - s
  PROVE  d = 0
<1>1. CASE d >= 1
  <2>1. m * d >= m
    BY <1>1
  <2>2. QED BY <2>1
<1>2. CASE d <= -1
  <2>1. m * d <= -m
    BY <1>2
  <2>2. QED BY <2>1
<1>3. QED BY <1>1, <1>2

LEMMA ModUnique ==
  ASSUME NEW x \in Int, NEW m \in Nat \ {0}, NEW q \in Int, NEW r \in 0..(m - 1), x = m * q + r
  PROVE  x % m = r
<1>1. PICK p \in Int, s \in 0..(m - 1) : x % m = s /\ x = m * p + s
  BY DivMod
<1>2. m * (p - q) = r - s /\ p - q \in Int
  BY <1>1
<1>3. p - q = 0
  BY <1>2, NoMultiple
<1>4. m * (p - q) = 0
  BY <1>3
<1>5. r = s
  BY <1>2, <1>4
<1>6. QED BY <1>1, <1>5

LEMMA ModAdd ==
  ASSUME NEW x \in Int, NEW k \in Int, NEW m \in Nat \ {0}
  PROVE  (x + k * m) % m = x % m
<1>1. PICK q \in Int, r \in 0..(m - 1) : x % m = r /\ x = m * q + r
  BY DivMod
<1>2. x + k * m = m * (q + k) + r /\ q + k \in Int /\ x + k * m \in Int
  BY <1>1
<1>3. (x + k * m) % m = r
  BY <1>2, ModUnique
<1>4. QED BY <1>1, <1>3

LEMMA ModDifference ==
  ASSUME NEW x \in Int, NEW y \in Int, NEW m \in Nat \ {0}, x % m = y % m
  PROVE  \E k \in Int : x = y + k * m
<1>1. ASSUME NEW z \in Int
      PROVE  \E q \in Int : \E r \in 0..(m - 1) : z % m = r /\ z = m * q + r
  BY <1>1, DivMod
<1>2. PICK a \in Int, r \in 0..(m - 1) : x % m = r /\ x = m * a + r
  BY <1>1
<1>3. PICK b \in Int, t \in 0..(m - 1) : y % m = t /\ y = m * b + t
  BY <1>1
<1>4. x = y + (a - b) * m /\ a - b \in Int
  BY <1>2, <1>3
<1>5. QED BY <1>4

LEMMA ModMod ==
  ASSUME NEW x \in Int, NEW m \in Nat \ {0}, NEW k \in Nat \ {0}, NEW n, n = k * m
  PROVE  (x % n) % m = x % m
<1>1. n \in Nat \ {0}
  <2>1. k >= 1 /\ m >= 1
    OBVIOUS
  <2>2. k * m >= m
    BY <2>1
  <2>3. QED BY <2>1, <2>2
<1>2. PICK q \in Int, r \in 0..(n - 1) : x % n = r /\ x = n * q + r
  BY <1>1, DivMod
<1>3. r = x + (-(k * q)) * m /\ -(k * q) \in Int
  BY <1>2
<1>4. r % m = x % m
  BY <1>3, ModAdd
<1>5. QED BY <1>2, <1>4

\* The sign does not change a number modulo its size.
LEMMA SignedMod ==
  ASSUME NEW x \in Int, NEW h \in Nat \ {0}
  PROVE  /\ Signed(x, h) \in Int /\ -h <= Signed(x, h) /\ Signed(x, h) < h
         /\ Signed(x, h) % (2 * h) = x % (2 * h)
<1> DEFINE m == 2 * h
<1>1. m \in Nat \ {0} /\ x + h \in Int
  OBVIOUS
<1>2. PICK q \in Int, r \in 0..(m - 1) : (x + h) % m = r /\ x + h = m * q + r
  BY <1>1, DivMod
<1>3. Signed(x, h) = r - h
  BY <1>2 DEF Signed
<1>4. r - h \in Int /\ -h <= r - h /\ r - h < h
  BY <1>2 DEF m
<1> HIDE DEF m
<1>5. x = (r - h) + q * m
  BY <1>1, <1>2
<1>6. x % m = (r - h) % m
  <2>1. ((r - h) + q * m) % m = (r - h) % m
    BY <1>1, <1>4, ModAdd
  <2>2. QED BY <1>5, <2>1
<1>7. QED BY <1>3, <1>4, <1>6 DEF m

\* A number in the range is itself.
LEMMA SignedSame ==
  ASSUME NEW x \in Int, NEW h \in Nat \ {0}, -h <= x, x < h
  PROVE  Signed(x, h) = x
<1>1. x + h \in 0..(2 * h - 1) /\ x + h = (2 * h) * 0 + (x + h) /\ 2 * h \in Nat \ {0}
  OBVIOUS
<1>2. (x + h) % (2 * h) = x + h
  BY <1>1, ModUnique
<1>3. QED BY <1>2 DEF Signed

\* Two numbers that agree modulo the size have the same value.
LEMMA SignedEqual ==
  ASSUME NEW x \in Int, NEW y \in Int, NEW h \in Nat \ {0}, x % (2 * h) = y % (2 * h)
  PROVE  Signed(x, h) = Signed(y, h)
<1> DEFINE m == 2 * h
<1>1. m \in Nat \ {0}
  OBVIOUS
<1> HIDE DEF m
<1>2. PICK k \in Int : x = y + k * m
  <2>1. x % m = y % m
    BY DEF m
  <2>2. QED BY <1>1, <2>1, ModDifference
<1>3. x + h = (y + h) + k * m
  BY <1>1, <1>2
<1>4. (x + h) % m = (y + h) % m
  <2>1. y + h \in Int
    OBVIOUS
  <2>2. ((y + h) + k * m) % m = (y + h) % m
    BY <1>1, <2>1, ModAdd
  <2>3. QED BY <1>3, <2>2
<1>5. QED BY <1>4 DEF Signed, m

-----------------------------------------------------------------------------
(* Prefixes.                                                               *)

\* The fields that a legacy prefix does not have.
NoVector(p) ==
  p.vvvv = 0 /\ p.V4 = FALSE /\ p.L = 0 /\ p.b = FALSE /\ p.aaa = 0 /\ p.z = FALSE /\ p.ND = FALSE

RexFields(p, rex2, W, ext8, pp, p67, type, r, b, x) ==
  /\ p.W = W /\ p.pp = pp /\ p.p67 = p67
  /\ p.R3 = IsExtIdx(r) /\ p.X3 = IsExtIdx(x) /\ p.B3 = IsExtIdx(b)
  /\ rex2 => p.R4 = IsExtIdx2(r) /\ p.X4 = IsExtIdx2(x) /\ p.B4 = IsExtIdx2(b)
  /\ ~rex2 => p.R4 = FALSE /\ p.X4 = FALSE /\ p.B4 = FALSE
  /\ NoVector(p)
  /\ rex2 => p.enc = "rex2" /\ p.map = IF "0F" \in type THEN 1 ELSE 0
  /\ ~rex2 => /\ p.enc = IF W \/ IsExtIdx(r) \/ IsExtIdx(x) \/ IsExtIdx(b) \/ ext8 THEN "rex" ELSE "none"
              /\ p.map = IF "APX" \in type THEN 0 ELSE GetMap(type)

LEMMA IndexBits == \A r : IsExtIdx(r) \in BOOLEAN /\ IsExtIdx2(r) \in BOOLEAN
BY DEF IsExtIdx, IsExtIdx2, HasIdxBit

LEMMA RexWithIs ==
  ASSUME NEW rex2 \in BOOLEAN, NEW W \in BOOLEAN, NEW ext8 \in BOOLEAN, NEW pp, NEW p67, NEW type,
         NEW r, NEW b, NEW x
  PROVE  RexFields(RexWith(rex2, W, ext8, pp, p67, type, r, b, x), rex2, W, ext8, pp, p67, type, r, b, x)
<1>1. PICK p : p = RexWith(rex2, W, ext8, pp, p67, type, r, b, x)
  OBVIOUS
<1>2. IsExtIdx(r) \in BOOLEAN /\ IsExtIdx(b) \in BOOLEAN /\ IsExtIdx(x) \in BOOLEAN
  BY IndexBits
<1> DEFINE map2 == IF "0F" \in type THEN 1 ELSE 0
           map1 == IF "APX" \in type THEN 0 ELSE GetMap(type)
           p0 == [NoPrefix EXCEPT !.W = W, !.pp = pp, !.p67 = p67]
           v == [p0 EXCEPT !.R3 = IsExtIdx(r), !.X3 = IsExtIdx(x), !.B3 = IsExtIdx(b)]
           enc == IF W \/ IsExtIdx(r) \/ IsExtIdx(x) \/ IsExtIdx(b) \/ ext8 THEN "rex" ELSE "none"
<1>3. v.R3 = IsExtIdx(r) /\ v.X3 = IsExtIdx(x) /\ v.B3 = IsExtIdx(b)
  BY DEF NoPrefix
<1>4. ASSUME rex2 PROVE RexFields(p, rex2, W, ext8, pp, p67, type, r, b, x)
  <2>1. p = [[v EXCEPT !.enc = "rex2", !.R4 = IsExtIdx2(r), !.X4 = IsExtIdx2(x), !.B4 = IsExtIdx2(b)]
               EXCEPT !.map = map2]
    BY <1>1, <1>4 DEF RexWith, Rex2RXB, RexRXB
  <2> HIDE DEF map2
  <2>2. /\ p.W = W /\ p.pp = pp /\ p.p67 = p67
        /\ p.R3 = IsExtIdx(r) /\ p.X3 = IsExtIdx(x) /\ p.B3 = IsExtIdx(b)
        /\ p.R4 = IsExtIdx2(r) /\ p.X4 = IsExtIdx2(x) /\ p.B4 = IsExtIdx2(b)
        /\ p.vvvv = 0 /\ p.V4 = FALSE /\ p.L = 0 /\ p.b = FALSE /\ p.aaa = 0 /\ p.z = FALSE /\ p.ND = FALSE
        /\ p.enc = "rex2" /\ p.map = map2
    BY <2>1 DEF NoPrefix
  <2>3. QED BY <1>4, <2>2 DEF NoVector, map2, RexFields
<1>5. ASSUME ~rex2 PROVE RexFields(p, rex2, W, ext8, pp, p67, type, r, b, x)
  <2>1. p = [v EXCEPT !.enc = IF W \/ v.R3 \/ v.X3 \/ v.B3 \/ ext8 THEN "rex" ELSE "none", !.map = map1]
    BY <1>1, <1>5 DEF RexWith, RexRXB
  <2>2. p = [v EXCEPT !.enc = enc, !.map = map1]
    BY <1>3, <2>1
  <2> HIDE DEF map1, enc
  <2>3. /\ p.W = W /\ p.pp = pp /\ p.p67 = p67
        /\ p.R3 = IsExtIdx(r) /\ p.X3 = IsExtIdx(x) /\ p.B3 = IsExtIdx(b)
        /\ p.R4 = FALSE /\ p.X4 = FALSE /\ p.B4 = FALSE
        /\ p.vvvv = 0 /\ p.V4 = FALSE /\ p.L = 0 /\ p.b = FALSE /\ p.aaa = 0 /\ p.z = FALSE /\ p.ND = FALSE
        /\ p.enc = enc /\ p.map = map1
    BY <2>2 DEF NoPrefix
  <2>4. QED BY <1>5, <2>3 DEF NoVector, map1, enc, RexFields
<1>6. QED BY <1>1, <1>4, <1>5

LegFields(p, r, b, x, v, type) ==
  /\ p.enc = "leg" /\ p.map = IF GetMap(type) = 0 THEN 4 ELSE GetMap(type)
  /\ p.R3 = IsExtIdx(r) /\ p.X3 = IsExtIdx(x) /\ p.B3 = IsExtIdx(b)
  /\ p.R4 = IsExtIdx2(r) /\ p.X4 = IsExtIdx2(x) /\ p.B4 = IsExtIdx2(b)
  /\ p.vvvv = v.idx % 16 /\ p.V4 = IsExtIdx2(v)
  /\ p.W = ("W0" \notin type /\ (r.bit = 64 \/ v.bit = 64 \/ "W1" \in type))
  /\ p.pp = IF type \cap {"F2", "F3", "66"} # {} THEN GetPP(type)
            ELSE IF r.bit = 16 \/ v.bit = 16 THEN 1 ELSE 0
  /\ p.ND = ("ND1" \in type \/ ("APX" \notin type /\ IsGp(v)))
  /\ p.p67 = FALSE /\ p.L = 0 /\ p.b = FALSE /\ p.aaa = 0 /\ p.z = FALSE

LEMMA EvexLegIs ==
  ASSUME NEW type, NEW r, NEW b, NEW x, NEW v
  PROVE  LegFields(EvexLeg(r, b, x, v, type), r, b, x, v, type)
<1>1. PICK p : p = EvexLeg(r, b, x, v, type)
  OBVIOUS
<1> DEFINE map == IF GetMap(type) = 0 THEN 4 ELSE GetMap(type)
           n == v.idx % 16
           W == "W0" \notin type /\ (r.bit = 64 \/ v.bit = 64 \/ "W1" \in type)
           pp == IF type \cap {"F2", "F3", "66"} # {} THEN GetPP(type)
                 ELSE IF r.bit = 16 \/ v.bit = 16 THEN 1 ELSE 0
           nd == IF "ND1" \in type THEN TRUE ELSE IF "APX" \in type THEN FALSE ELSE IsGp(v)
<1>2. p = [NoPrefix EXCEPT !.enc = "leg", !.map = map,
             !.R3 = IsExtIdx(r), !.R4 = IsExtIdx2(r), !.X3 = IsExtIdx(x), !.X4 = IsExtIdx2(x),
             !.B3 = IsExtIdx(b), !.B4 = IsExtIdx2(b), !.vvvv = n, !.V4 = IsExtIdx2(v),
             !.W = W, !.pp = pp, !.ND = nd]
  BY <1>1 DEF EvexLeg
<1>3. nd = ("ND1" \in type \/ ("APX" \notin type /\ IsGp(v)))
  BY DEF IsGp
<1> HIDE DEF map, n, W, pp, nd
<1>4. /\ p.enc = "leg" /\ p.map = map
      /\ p.R3 = IsExtIdx(r) /\ p.X3 = IsExtIdx(x) /\ p.B3 = IsExtIdx(b)
      /\ p.R4 = IsExtIdx2(r) /\ p.X4 = IsExtIdx2(x) /\ p.B4 = IsExtIdx2(b)
      /\ p.vvvv = n /\ p.V4 = IsExtIdx2(v) /\ p.W = W /\ p.pp = pp /\ p.ND = nd
      /\ p.p67 = FALSE /\ p.L = 0 /\ p.b = FALSE /\ p.aaa = 0 /\ p.z = FALSE
  BY <1>2 DEF NoPrefix
<1>5. QED BY <1>1, <1>3, <1>4 DEF map, n, W, pp, LegFields

\* The form of two bytes is taken where the bits that it lacks are clear.
VexFields(p, reg, base, v, x, type) ==
  /\ p.enc = "vex" /\ p.map = GetMap(type) /\ p.pp = GetPP(type)
  /\ p.R3 = IsExtIdx(reg) /\ p.X3 = x /\ p.B3 = IsExtIdx(base)
  /\ p.R4 = FALSE /\ p.X4 = FALSE /\ p.B4 = FALSE /\ p.V4 = FALSE
  /\ p.vvvv = v.idx % 16 /\ p.W = ("W1" \in type)
  /\ p.L = IF "L1" \in type \/ reg.bit = 256 THEN 1 ELSE 0
  /\ p.p67 = FALSE /\ p.b = FALSE /\ p.aaa = 0 /\ p.z = FALSE /\ p.ND = FALSE
  /\ DOMAIN p = DOMAIN NoPrefix

LEMMA VexIs ==
  ASSUME NEW type, NEW reg, NEW base, NEW v, NEW x \in BOOLEAN, "0F" \in type => GetMap(type) = 1
  PROVE  VexFields(Vex(reg, base, v, x, type), reg, base, v, x, type)
<1>1. PICK p : p = Vex(reg, base, v, x, type)
  OBVIOUS
<1>2. IsExtIdx(reg) \in BOOLEAN /\ IsExtIdx(base) \in BOOLEAN
  BY IndexBits
<1> DEFINE n == v.idx % 16
           L == IF "L1" \in type \/ reg.bit = 256 THEN 1 ELSE 0
           W == "W1" \in type
           q == [NoPrefix EXCEPT !.enc = "vex", !.pp = GetPP(type), !.R3 = IsExtIdx(reg), !.vvvv = n, !.L = L]
<1>3. ASSUME ~IsExtIdx(base) /\ ~x /\ "W1" \notin type /\ "0F" \in type
      PROVE  VexFields(p, reg, base, v, x, type)
  <2>1. p = [q EXCEPT !.map = 1]
    BY <1>1, <1>3 DEF Vex
  <2>2. GetMap(type) = 1 /\ ("W1" \in type) = FALSE /\ x = FALSE /\ IsExtIdx(base) = FALSE
    BY <1>2, <1>3
  <2> HIDE DEF n, L
  <2>3. /\ p.enc = "vex" /\ p.map = 1 /\ p.pp = GetPP(type)
        /\ p.R3 = IsExtIdx(reg) /\ p.X3 = FALSE /\ p.B3 = FALSE
        /\ p.R4 = FALSE /\ p.X4 = FALSE /\ p.B4 = FALSE /\ p.V4 = FALSE
        /\ p.vvvv = n /\ p.W = FALSE /\ p.L = L
        /\ p.p67 = FALSE /\ p.b = FALSE /\ p.aaa = 0 /\ p.z = FALSE /\ p.ND = FALSE
    BY <2>1 DEF NoPrefix
  <2>4. DOMAIN p = DOMAIN NoPrefix
    BY <2>1
  <2>5. QED BY <2>2, <2>3, <2>4 DEF n, L, VexFields
<1>4. ASSUME ~(~IsExtIdx(base) /\ ~x /\ "W1" \notin type /\ "0F" \in type)
      PROVE  VexFields(p, reg, base, v, x, type)
  <2>1. p = [q EXCEPT !.map = GetMap(type), !.W = W, !.X3 = x, !.B3 = IsExtIdx(base)]
    BY <1>1, <1>4 DEF Vex
  <2> HIDE DEF n, L, W
  <2>2. /\ p.enc = "vex" /\ p.map = GetMap(type) /\ p.pp = GetPP(type)
        /\ p.R3 = IsExtIdx(reg) /\ p.X3 = x /\ p.B3 = IsExtIdx(base)
        /\ p.R4 = FALSE /\ p.X4 = FALSE /\ p.B4 = FALSE /\ p.V4 = FALSE
        /\ p.vvvv = n /\ p.W = W /\ p.L = L
        /\ p.p67 = FALSE /\ p.b = FALSE /\ p.aaa = 0 /\ p.z = FALSE /\ p.ND = FALSE
    BY <2>1 DEF NoPrefix
  <2>3. DOMAIN p = DOMAIN NoPrefix
    BY <2>1
  <2>4. QED BY <2>2, <2>3 DEF n, L, W, VexFields
<1>5. QED BY <1>1, <1>3, <1>4

EvexFields(p, reg, base, v, x, type, b, mask, zero, rnd) ==
  /\ p.enc = "evex" /\ p.map = GetMap(type) /\ p.pp = GetPP(type)
  /\ p.R3 = IsExtIdx(reg) /\ p.R4 = IsExtIdx2(reg)
  /\ p.X3 = (IsExtIdx(x) \/ (IsVec(base) /\ IsExtIdx2(base))) /\ p.X4 = (IsGp(x) /\ IsExtIdx2(x))
  /\ p.B3 = IsExtIdx(base) /\ p.B4 = (IsGp(base) /\ IsExtIdx2(base))
  /\ p.vvvv = v.idx % 16 /\ p.V4 = (IsExtIdx2(v) \/ (IsVec(x) /\ IsExtIdx2(x)))
  /\ p.W = ("EW1" \in type)
  /\ p.b = (b \/ rnd # 0) /\ p.aaa = mask /\ p.z = (zero /\ mask # 0)
  /\ p.L = IF rnd = 5 THEN 0 ELSE IF rnd # 0 THEN rnd - 1
           ELSE IF EvexVL(reg, base, v, x) >= 512 THEN 2 ELSE IF EvexVL(reg, base, v, x) = 256 THEN 1 ELSE 0
  /\ p.p67 = FALSE /\ p.ND = FALSE
  /\ DOMAIN p = DOMAIN NoPrefix

LEMMA EvexIs ==
  ASSUME NEW type, NEW reg, NEW base, NEW v, NEW x, NEW b \in BOOLEAN, NEW mask, NEW zero \in BOOLEAN, NEW rnd
  PROVE  EvexFields(Evex(reg, base, v, x, type, b, mask, zero, rnd), reg, base, v, x, type, b, mask, zero, rnd)
<1>1. PICK p : p = Evex(reg, base, v, x, type, b, mask, zero, rnd)
  OBVIOUS
<1> DEFINE n == v.idx % 16
           VL == EvexVL(reg, base, v, x)
           L == IF rnd = 5 THEN 0 ELSE IF rnd # 0 THEN rnd - 1 ELSE IF VL >= 512 THEN 2 ELSE IF VL = 256 THEN 1 ELSE 0
           W == "EW1" \in type
           x3 == IsExtIdx(x) \/ (IsVec(base) /\ IsExtIdx2(base))
           x4 == IsGp(x) /\ IsExtIdx2(x)
           b4 == IsGp(base) /\ IsExtIdx2(base)
           v4 == IsExtIdx2(v) \/ (IsVec(x) /\ IsExtIdx2(x))
           bb == b \/ rnd # 0
           z == zero /\ mask # 0
<1>2. p = [NoPrefix EXCEPT
             !.enc = "evex", !.map = GetMap(type), !.pp = GetPP(type), !.W = W,
             !.R3 = IsExtIdx(reg), !.R4 = IsExtIdx2(reg), !.X3 = x3, !.X4 = x4,
             !.B3 = IsExtIdx(base), !.B4 = b4, !.vvvv = n, !.V4 = v4, !.b = bb, !.aaa = mask, !.z = z, !.L = L]
  BY <1>1 DEF Evex
<1> HIDE DEF n, VL, L, W, x3, x4, b4, v4, bb, z
<1>3. /\ p.enc = "evex" /\ p.map = GetMap(type) /\ p.pp = GetPP(type)
      /\ p.R3 = IsExtIdx(reg) /\ p.R4 = IsExtIdx2(reg) /\ p.X3 = x3 /\ p.X4 = x4
      /\ p.B3 = IsExtIdx(base) /\ p.B4 = b4 /\ p.vvvv = n /\ p.V4 = v4 /\ p.W = W
      /\ p.b = bb /\ p.aaa = mask /\ p.z = z /\ p.L = L
      /\ p.p67 = FALSE /\ p.ND = FALSE
  BY <1>2 DEF NoPrefix
<1>4. DOMAIN p = DOMAIN NoPrefix
  BY <1>2
<1>5. QED BY <1>1, <1>3, <1>4 DEF n, VL, L, W, x3, x4, b4, v4, bb, z, EvexFields

-----------------------------------------------------------------------------
(* More about numbers.                                                     *)

LEMMA HalvesNat == Half32 \in Nat \ {0} /\ Half64 \in Nat \ {0}
BY OperandsAssumption

LEMMA Divides ==
  ASSUME NEW x \in Nat \ {0}, NEW m \in Nat \ {0}, x % m = 0
  PROVE  \E k \in Nat \ {0} : x = k * m
<1>1. x \in Int
  OBVIOUS
<1>2. PICK q \in Int, r \in 0..(m - 1) : x % m = r /\ x = m * q + r
  BY <1>1, DivMod
<1>3. x = q * m
  BY <1>2
<1>4. q > 0
  <2>1. CASE q <= 0
    <3>1. q * m <= 0
      BY <2>1
    <3>2. QED BY <1>3, <3>1
  <2>2. QED BY <2>1
<1>5. q \in Nat \ {0}
  BY <1>4
<1>6. QED BY <1>3, <1>5

LEMMA Half32Is == \E k \in Nat \ {0} : Half32 = k * 65536
<1> DEFINE m == 65536
<1>1. Half32 % m = 0 /\ m \in Nat \ {0}
  BY OperandsAssumption
<1> HIDE DEF m
<1>2. \E k \in Nat \ {0} : Half32 = k * m
  BY <1>1, HalvesNat, Divides, ZenonT(30)
<1>3. QED BY <1>2 DEF m

LEMMA Half64Is == \E k \in Nat \ {0} : Half64 = k * (2 * Half32)
<1>1. Half64 % (2 * Half32) = 0 /\ 2 * Half32 \in Nat \ {0}
  BY OperandsAssumption
<1>2. QED BY <1>1, HalvesNat, Divides

\* The number of values of each width divides that of a greater one.
Size(bit) == 2 * HalfOf(bit)

LEMMA HalfIs ==
  /\ HalfOf(8) = 128 /\ HalfOf(16) = 32768 /\ HalfOf(32) = Half32 /\ HalfOf(64) = Half64
  /\ \A bit \in Widths : HalfOf(bit) \in Nat \ {0} /\ Size(bit) \in Nat \ {0}
<1>1. HalfOf(8) = 128 /\ HalfOf(16) = 32768 /\ HalfOf(32) = Half32 /\ HalfOf(64) = Half64
  BY DEF HalfOf
<1>2. QED BY <1>1, HalvesNat DEF Widths, Size

LEMMA SizesDivide ==
  ASSUME NEW a \in Widths, NEW b \in Widths, a <= b
  PROVE  \E k \in Nat \ {0} : Size(b) = k * Size(a)
<1>1. PICK k1 \in Nat \ {0} : Half32 = k1 * 65536
  BY Half32Is
<1>2. PICK k2 \in Nat \ {0} : Half64 = k2 * (2 * Half32)
  BY Half64Is
<1>3. Size(8) = 256 /\ Size(16) = 65536 /\ Size(32) = 2 * Half32 /\ Size(64) = 2 * Half64
  BY HalfIs DEF Size
<1>4. CASE a = b
  <2>1. Size(b) = 1 * Size(a)
    BY <1>4, HalfIs
  <2>2. QED BY <2>1
<1>5. CASE a = 8 /\ b = 16
  <2>1. Size(b) = 256 * Size(a)
    BY <1>3, <1>5
  <2>2. QED BY <2>1
<1>6. CASE a = 8 /\ b = 32
  <2>1. Size(b) = (512 * k1) * Size(a) /\ 512 * k1 \in Nat \ {0}
    BY <1>1, <1>3, <1>6
  <2>2. QED BY <2>1
<1>7. CASE a = 16 /\ b = 32
  <2>1. Size(b) = (2 * k1) * Size(a) /\ 2 * k1 \in Nat \ {0}
    BY <1>1, <1>3, <1>7
  <2>2. QED BY <2>1
<1>8. CASE a = 32 /\ b = 64
  <2>1. Size(b) = (2 * k2) * Size(a) /\ 2 * k2 \in Nat \ {0}
    BY <1>2, <1>3, <1>8, HalvesNat
  <2>2. QED BY <2>1
<1>9. k1 * k2 \in Nat \ {0}
  <2>1. k1 >= 1 /\ k2 >= 1
    OBVIOUS
  <2>2. k1 * k2 >= k1
    BY <2>1
  <2>3. QED BY <2>1, <2>2
<1>10. Half64 = (k1 * k2) * 131072
  BY <1>1, <1>2
<1>11. CASE a = 16 /\ b = 64
  <2>1. Size(b) = (4 * (k1 * k2)) * Size(a) /\ 4 * (k1 * k2) \in Nat \ {0}
    BY <1>3, <1>9, <1>10, <1>11
  <2>2. QED BY <2>1
<1>12. CASE a = 8 /\ b = 64
  <2>1. Size(b) = (1024 * (k1 * k2)) * Size(a) /\ 1024 * (k1 * k2) \in Nat \ {0}
    BY <1>3, <1>9, <1>10, <1>12
  <2>2. QED BY <2>1
<1>13. QED BY <1>4, <1>5, <1>6, <1>7, <1>8, <1>11, <1>12 DEF Widths

\* Numbers that agree in a width agree in a narrower one.
LEMMA Narrower ==
  ASSUME NEW a \in Widths, NEW b \in Widths, a <= b, NEW x \in Int, NEW y \in Int,
         x % Size(b) = y % Size(b)
  PROVE  x % Size(a) = y % Size(a)
<1>1. Size(a) \in Nat \ {0}
  BY HalfIs
<1>2. PICK k \in Nat \ {0} : Size(b) = k * Size(a)
  BY SizesDivide
<1>3. (x % Size(b)) % Size(a) = x % Size(a)
  BY <1>1, <1>2, ModMod
<1>4. (y % Size(b)) % Size(a) = y % Size(a)
  BY <1>1, <1>2, ModMod
<1>5. QED BY <1>3, <1>4

\* A number of 64 bits that fits 32 is the same with either sign.
LEMMA Int32Value ==
  ASSUME NEW x \in Int, InInt32(x)
  PROVE  Signed(x, Half32) = Signed(x, Half64) /\ Signed(x, Half32) % (2 * Half64) = x % (2 * Half64)
<1> DEFINE s == Signed(x, Half64)
<1>1. s \in Int /\ s % (2 * Half64) = x % (2 * Half64)
  BY HalvesNat, SignedMod
<1>2. -Half32 <= s /\ s < Half32
  BY DEF InInt32
<1> HIDE DEF s
<1>3. s % Size(64) = x % Size(64)
  BY <1>1, HalfIs DEF Size
<1>4. s % Size(32) = x % Size(32)
  <2>1. 32 \in Widths /\ 64 \in Widths /\ 32 <= 64
    BY DEF Widths
  <2>2. QED BY <1>1, <1>3, <2>1, Narrower
<1>5. s % (2 * Half32) = x % (2 * Half32)
  BY <1>4, HalfIs DEF Size
<1>6. Signed(x, Half32) = Signed(s, Half32)
  BY <1>1, <1>5, HalvesNat, SignedEqual
<1>7. Signed(s, Half32) = s
  BY <1>1, <1>2, HalvesNat, SignedSame
<1>8. QED BY <1>1, <1>6, <1>7 DEF s

-----------------------------------------------------------------------------
(* Addresses.                                                              *)

\* The registers of an address are registers of a client.
LEMMA RegistersAre == Registers \subseteq AllRegs
BY EncodingAssumption DEF Registers, AllRegs

LEMMA RegKinds ==
  ASSUME NEW r \in AllRegs
  PROVE  /\ IsGp(r) => r \in GpRegs /\ ~IsVec(r) /\ r # NoReg
         /\ IsVec(r) => r \in VecRegs /\ r.bit \in {128, 256, 512} /\ ~IsGp(r) /\ r # NoReg
         /\ r = NoReg \/ IsGp(r) \/ IsVec(r)
<1>1. CASE r = NoReg
  <2>1. ~IsGp(r) /\ ~IsVec(r)
    BY <1>1, NoRegForm
  <2>2. QED BY <1>1, <2>1
<1>2. CASE r \in GpRegs
  BY <1>2, GpForm
<1>3. CASE r \in VecRegs
  <2>1. r.bit \in {128, 256, 512} /\ ~IsGp(r) /\ IsVec(r) /\ r # NoReg
    BY <1>3, VecForm, ZenonT(30)
  <2>2. QED BY <1>3, <2>1
<1>4. QED BY <1>1, <1>2, <1>3 DEF AllRegs

\* A RegExp that stands for a sum and that verify lets through.
Good(e, s) ==
  /\ e \in Expressions /\ s \in Sums /\ Matches(e, s) /\ Shape(e, s) /\ VerifyOk(e)

\* The base and the index as they are written, after optimize.
LEMMA Optimized ==
  ASSUME NEW e0, NEW s, Good(e0, s), NEW e, e = Optimize(e0)
  PROVE  /\ e.base \in GpRegs \cup {NoReg} /\ e.index \in AllRegs
         /\ e.base # NoReg => /\ e.base = Gp(e.base.idx, e.base.bit)
                              /\ e.base.bit = IF Is32bit([exp |-> e0]) THEN 32 ELSE 64
         /\ IsGp(e.index) => /\ e.index = Gp(e.index.idx, e.index.bit) /\ e.index.idx # ESP
                             /\ e.index.bit = IF Is32bit([exp |-> e0]) THEN 32 ELSE 64
         /\ e.index # NoReg => e.scale \in {1, 2, 4, 8}
         /\ e.disp = e0.disp /\ e.label = e0.label
         /\ Linear(e.base, e.index, e.scale) = s.coef
         /\ e.disp \in Displacements /\ e.label \in BOOLEAN
         /\ IsVec(e.index) => e.index = e0.index
         /\ IsVec(e0.index) => e.index = e0.index
         /\ e.base \in {e0.base, e0.index} /\ e.index = e0.index
<1>1. /\ e0.base \in AllRegs /\ e0.index \in AllRegs /\ e0.disp \in Displacements /\ e0.label \in BOOLEAN
      /\ e0.scale \in Int
  BY RegistersAre DEF Good, Expressions
<1>2. /\ e0.base # NoReg => IsGp(e0.base) /\ e0.base.bit \in {32, 64}
      /\ e0.index # NoReg =>
           /\ e0.scale \in {1, 2, 4, 8}
           /\ IsVec(e0.index) \/ (IsGp(e0.index) /\ e0.index.bit \in {32, 64})
  BY DEF Good, Shape
<1>3. IsGp(e0.index) => e0.index.idx # ESP /\ (e0.base # NoReg => e0.base.bit = e0.index.bit)
  BY DEF Good, VerifyOk, HasBase
<1>4. e0.base # NoReg => e0.base \in GpRegs /\ e0.base = Gp(e0.base.idx, e0.base.bit) /\ ~IsVec(e0.base)
  <2>1. SUFFICES ASSUME e0.base # NoReg
                 PROVE  e0.base \in GpRegs /\ e0.base = Gp(e0.base.idx, e0.base.bit) /\ ~IsVec(e0.base)
    OBVIOUS
  <2>2. e0.base \in GpRegs /\ e0.base.bit # 8
    BY <1>1, <1>2, <2>1, RegKinds
  <2>3. QED BY <2>2, GpForm
<1>5. IsGp(e0.index) => e0.index \in GpRegs /\ e0.index = Gp(e0.index.idx, e0.index.bit) /\ ~IsVec(e0.index)
                        /\ e0.index # NoReg
  <2>1. SUFFICES ASSUME IsGp(e0.index)
                 PROVE  /\ e0.index \in GpRegs /\ e0.index = Gp(e0.index.idx, e0.index.bit) /\ ~IsVec(e0.index)
                        /\ e0.index # NoReg
    OBVIOUS
  <2>2. e0.index # NoReg
    BY <2>1, NoRegForm
  <2>3. ~IsVec(e0.index)
    BY <2>1 DEF IsGp, IsVec
  <2>4. e0.index \in GpRegs /\ e0.index.bit # 8
    BY <1>1, <1>2, <2>1, <2>2, <2>3, RegKinds
  <2>5. QED BY <2>2, <2>3, <2>4, GpForm
<1>6. IsVec(e0.index) => e0.index.bit # 32 /\ e0.index # NoReg
  BY <1>1, RegKinds
<1>7. Is32bit([exp |-> e0]) = (e0.base.bit = 32 \/ e0.index.bit = 32)
  BY DEF Is32bit
<1>8. Linear(e0.base, e0.index, e0.scale) = s.coef
  BY DEF Good, Matches, Coef
<1>9. CASE IsGp(e0.index) /\ e0.base = NoReg /\ e0.scale = 2
  <2>1. e.base = e0.index /\ e.scale = 1 /\ e.index = e0.index /\ e.disp = e0.disp /\ e.label = e0.label
    BY <1>9 DEF Optimize, HasBase, Good, Expressions
  <2>2. Linear(e.base, e.index, e.scale) = Linear(e0.base, e0.index, e0.scale)
    BY <1>5, <1>9, <2>1 DEF Linear, Bit
  <2>3. e.base.bit = IF Is32bit([exp |-> e0]) THEN 32 ELSE 64
    <3>1. NoReg.bit # 32
      BY NoRegForm
    <3>2. e0.index.bit \in {32, 64}
      BY <1>2, <1>5, <1>9
    <3>3. QED BY <1>7, <1>9, <2>1, <3>1, <3>2
  <2>4. QED BY <1>1, <1>3, <1>5, <1>8, <1>9, <2>1, <2>2, <2>3
<1>10. CASE ~(IsGp(e0.index) /\ e0.base = NoReg /\ e0.scale = 2)
  <2>1. e = e0
    BY <1>10 DEF Optimize, HasBase
  <2>2. e0.base # NoReg => e0.base.bit = IF Is32bit([exp |-> e0]) THEN 32 ELSE 64
    <3>1. SUFFICES ASSUME e0.base # NoReg
                   PROVE  e0.base.bit = IF Is32bit([exp |-> e0]) THEN 32 ELSE 64
      OBVIOUS
    <3>2. e0.index.bit = 32 => e0.base.bit = 32
      BY <1>2, <1>3, <1>6, <3>1, NoRegForm
    <3>3. QED BY <1>2, <1>7, <3>1, <3>2
  <2>3. IsGp(e0.index) => e0.index.bit = IF Is32bit([exp |-> e0]) THEN 32 ELSE 64
    <3>1. SUFFICES ASSUME IsGp(e0.index)
                   PROVE  e0.index.bit = IF Is32bit([exp |-> e0]) THEN 32 ELSE 64
      OBVIOUS
    <3>2. e0.base.bit = 32 => e0.index.bit = 32
      BY <1>3, <3>1, NoRegForm
    <3>3. e0.index.bit \in {32, 64}
      BY <1>2, <1>5, <3>1 DEF IsGp, IsVec
    <3>4. QED BY <1>7, <3>1, <3>2, <3>3
  <2>4. QED BY <1>1, <1>2, <1>3, <1>4, <1>5, <1>8, <2>1, <2>2, <2>3
<1>11. QED BY <1>9, <1>10

-----------------------------------------------------------------------------
(* Immediates.                                                             *)

ImmKept(j, w) ==
  /\ j.imm.size = ImmRead(j)
  /\ j.opc.imm # "none" =>
       LET bit == IF IsGp(w.rm) THEN w.rm.bit ELSE IntSize(j)
       IN  SizeMod(ImmValue(j), bit) = SizeMod(w.imm, bit)

Emitted(j, o, regField, dir, parts, imm) ==
  /\ j.p = parts.p /\ j.m = parts.m /\ j.imm = imm
  /\ j.opc.shape = o.shape /\ j.opc.imm = o.imm /\ j.opc.tuple = o.tuple /\ j.opc.element = o.element
  /\ j.opc.hasV = o.hasV /\ j.opc.sae = o.sae /\ j.opc.code1 = parts.code1 /\ j.opc.reg = regField
  /\ j.opc.dir = dir /\ j.opc.type = o.type

LEMMA EmitIs ==
  ASSUME NEW o, NEW regField, NEW dir, NEW parts, NEW imm, NEW w, Emit(o, regField, dir, parts, imm, w)
  PROVE  Emitted(i', o, regField, dir, parts, imm) /\ want' = w
BY DEF Emit, Emitted

\* No immediate, and a byte that no one extends.
LEMMA KeptNone ==
  ASSUME NEW j, NEW w, j.opc.imm = "none", j.imm.size = 0
  PROVE  ImmKept(j, w)
BY DEF ImmKept, ImmRead

LEMMA KeptByte ==
  ASSUME NEW j, NEW w, j.opc.imm = "ib", j.imm.size = 1, j.imm.value \in 0..255, w.imm = j.imm.value
  PROVE  ImmKept(j, w)
<1>1. ImmRead(j) = 1
  BY DEF ImmRead
<1>2. HalfOf(8 * ImmRead(j)) = 128
  BY <1>1, HalfIs
<1>3. ImmValue(j) = j.imm.value % 256
  BY <1>2 DEF ImmValue
<1>4. j.imm.value % 256 = j.imm.value
  OBVIOUS
<1>5. QED BY <1>1, <1>3, <1>4 DEF ImmKept

\* A byte that the processor extends with its sign.
LEMMA KeptSigned ==
  ASSUME NEW j, NEW w, j.opc.imm = "ibs", j.imm.size = 1, NEW x \in Int, j.imm.value = x, InDisp8(x),
         w.imm = Signed(x, Half32)
  PROVE  ImmKept(j, w)
<1> DEFINE s == Signed(x, Half32)
<1>1. ImmRead(j) = 1
  BY DEF ImmRead
<1>2. HalfOf(8 * ImmRead(j)) = 128
  BY <1>1, HalfIs
<1>3. ImmValue(j) = Signed(x, 128)
  BY <1>2 DEF ImmValue
<1>4. s \in Int /\ s % (2 * Half32) = x % (2 * Half32) /\ -128 <= s /\ s < 128
  <2>1. s \in Int /\ s % (2 * Half32) = x % (2 * Half32)
    BY HalvesNat, SignedMod
  <2>2. s \in -128..127
    BY DEF InDisp8
  <2> HIDE DEF s
  <2>3. QED BY <2>1, <2>2
<1> HIDE DEF s
<1>5. s % Size(32) = x % Size(32)
  BY <1>4, HalfIs DEF Size
<1>6. s % Size(8) = x % Size(8)
  <2>1. 8 \in Widths /\ 32 \in Widths /\ 8 <= 32
    BY DEF Widths
  <2>2. QED BY <1>4, <1>5, <2>1, Narrower
<1>7. s % (2 * 128) = x % (2 * 128)
  BY <1>6, HalfIs DEF Size
<1>8. Signed(x, 128) = Signed(s, 128) /\ Signed(s, 128) = s
  <2>1. 128 \in Nat \ {0}
    OBVIOUS
  <2>2. Signed(x, 128) = Signed(s, 128)
    BY <1>4, <1>7, <2>1, SignedEqual
  <2>3. Signed(s, 128) = s
    BY <1>4, <2>1, SignedSame
  <2>4. QED BY <2>2, <2>3
<1>9. QED BY <1>1, <1>3, <1>8 DEF ImmKept, s

\* An immediate as wide as the operand, or 32 bits that the processor extends.
LEMMA KeptFull ==
  ASSUME NEW j, NEW w, j.opc.imm = "iz", NEW bit \in Widths, IntSize(j) = bit,
         IsGp(w.rm) => w.rm.bit = bit,
         j.imm.size = MinBit(bit, 32) \div 8, NEW x \in Int, j.imm.value = x,
         w.imm = Signed(x, Half32) \/ (w.imm = x /\ (bit = 64 => InInt32(x)))
  PROVE  ImmKept(j, w)
<1> DEFINE n == MinBit(bit, 32)
<1>1. ImmRead(j) = n \div 8
  BY DEF ImmRead
<1>2. n \in {8, 16, 32} /\ n \in Widths /\ n <= bit /\ (bit # 64 => n = bit) /\ (bit = 64 => n = 32) /\ n <= 32
  BY DEF Widths, MinBit
<1> HIDE DEF n
<1>3. 8 * ImmRead(j) = n
  BY <1>1, <1>2
<1>4. ImmValue(j) = Signed(x, HalfOf(n))
  BY <1>3 DEF ImmValue
<1>5. HalfOf(n) \in Nat \ {0}
  BY <1>2, HalfIs
<1>6. Signed(x, HalfOf(n)) \in Int /\ Signed(x, HalfOf(n)) % Size(n) = x % Size(n)
  BY <1>5, SignedMod DEF Size
<1>7. Signed(x, Half32) \in Int /\ Signed(x, Half32) % Size(32) = x % Size(32)
  <2>1. Signed(x, Half32) \in Int /\ Signed(x, Half32) % (2 * Half32) = x % (2 * Half32)
    BY HalvesNat, SignedMod
  <2>2. QED BY <2>1, HalfIs DEF Size
<1>8. Signed(x, Half32) % Size(n) = x % Size(n)
  <2>1. 32 \in Widths
    BY DEF Widths
  <2>2. QED BY <1>2, <1>7, <2>1, Narrower
<1>9. ImmValue(j) % Size(bit) = w.imm % Size(bit)
  <2>1. CASE bit # 64
    BY <1>2, <1>4, <1>6, <1>8, <2>1
  <2>2. CASE bit = 64 /\ w.imm = Signed(x, Half32)
    BY <1>2, <1>4, <2>2, HalfIs
  <2>3. CASE bit = 64 /\ w.imm = x /\ InInt32(x)
    <3>1. Signed(x, Half32) % (2 * Half64) = x % (2 * Half64)
      BY <2>3, Int32Value
    <3>2. ImmValue(j) = Signed(x, Half32) /\ Size(bit) = 2 * Half64
      BY <1>2, <1>4, <2>3, HalfIs DEF Size
    <3>3. QED BY <2>3, <3>1, <3>2
  <2>4. QED BY <2>1, <2>2, <2>3
<1>10. SizeMod(ImmValue(j), bit) = SizeMod(w.imm, bit)
  BY <1>9 DEF SizeMod, Size
<1>11. QED BY <1>1, <1>10 DEF ImmKept, n

\* An immediate that is not extended: as wide as the operand, or 32 bits in a
\* register of 64.
LEMMA KeptPlain ==
  ASSUME NEW j, NEW w, j.opc.imm = "iv", NEW bit \in Widths, IntSize(j) = bit, IsGp(w.rm),
         NEW x \in Int, j.imm.value = x, w.imm = x, j.imm.size = bit \div 8,
         w.rm.bit = bit \/ (w.rm.bit = 64 /\ bit = 32 /\ SizeT(x) < 2 * Half32)
  PROVE  ImmKept(j, w)
<1>1. ImmRead(j) = bit \div 8
  BY DEF ImmRead
<1>2. 8 * ImmRead(j) = bit
  BY <1>1 DEF Widths
<1>3. ImmValue(j) = x % Size(bit)
  BY <1>2 DEF ImmValue, Size
<1>4. Size(bit) \in Nat \ {0}
  BY HalfIs
<1>5. CASE w.rm.bit = bit
  <2>1. (x % Size(bit)) % Size(bit) = x % Size(bit)
    BY <1>4, ModMod
  <2>2. QED BY <1>1, <1>3, <1>5, <2>1 DEF ImmKept, SizeMod, Size
<1>6. CASE w.rm.bit = 64 /\ bit = 32 /\ SizeT(x) < 2 * Half32
  <2> DEFINE v == x % Size(64)
  <2>1. Size(64) = 2 * Half64 /\ Size(32) = 2 * Half32 /\ Size(64) \in Nat \ {0} /\ Size(32) \in Nat \ {0}
    BY HalfIs DEF Size, Widths
  <2>2. v \in Int /\ 0 <= v /\ v < Size(64) /\ v < Size(32)
    BY <1>6, <2>1 DEF SizeT
  <2>3. v % Size(64) = v /\ v % Size(32) = v
    BY <2>1, <2>2
  <2>4. x % Size(64) = v % Size(64)
    BY <2>3
  <2>5. x % Size(32) = v % Size(32)
    <3> HIDE DEF v
    <3>1. 32 \in Widths /\ 64 \in Widths /\ 32 <= 64
      BY DEF Widths
    <3>2. QED BY <2>2, <2>4, <3>1, Narrower
  <2>6. ImmValue(j) = v
    BY <1>3, <1>6, <2>3, <2>5
  <2>7. SizeMod(ImmValue(j), 64) = SizeMod(x, 64)
    BY <2>3, <2>6 DEF SizeMod, Size
  <2>8. QED BY <1>1, <1>6, <2>7 DEF ImmKept
<1>7. QED BY <1>5, <1>6

\* The operand of an instruction with an immediate: a register, or memory of a
\* stated size.
LEMMA RmOpsAre ==
  ASSUME NEW bits, NEW op \in RmOps(bits)
  PROVE  /\ op.bit \in bits
         /\ \/ op \in Gps /\ op \in GpRegs /\ IsGp(op) /\ ~IsMem(op) /\ Idle
            \/ op = MemOp(op.bit) /\ IsMem(op) /\ ~IsGp(op) /\ HasAddress
<1>1. CASE op \in {r \in Gps : Idle /\ r.bit \in bits}
  <2>1. op \in GpRegs /\ op.bit \in bits /\ op \in Gps /\ Idle
    BY <1>1, EncodingAssumption
  <2>2. QED BY <2>1, GpForm
<1>2. CASE op \in {MemOp(b) : b \in {n \in bits : HasAddress}}
  <2>1. PICK b \in bits : HasAddress /\ op = MemOp(b)
    BY <1>2
  <2>2. op.bit = b /\ op.kind = "mem"
    BY <2>1 DEF MemOp, Address
  <2>3. QED BY <2>1, <2>2 DEF IsMem, IsGp
<1>3. QED BY <1>1, <1>2 DEF RmOps

\* The bits of a prefix that give the operand size are those of a general register.
Prefixed(p, bit) == p.W \in BOOLEAN /\ (p.W <=> bit = 64) /\ (p.pp = 1 <=> bit = 16)

LEMMA SizedRead ==
  ASSUME NEW j, NEW bit \in Widths, Prefixed(j.p, bit),
         \/ j.opc.shape = "int8" /\ (j.opc.code1 <=> bit # 8)
         \/ j.opc.shape = "int" /\ bit # 8
  PROVE  IntSize(j) = bit
BY DEF Prefixed, IntSize, Widths

LEMMA LegacyPPIs ==
  ASSUME NEW a, NEW b, NEW type, type \cap {"F2", "F3", "66"} = {}
  PROVE  LegacyPP(type, P66(a, b)) = IF P66(a, b) THEN 1 ELSE 0
BY DEF LegacyPP

\* The prefixes of an instruction without a new destination.
LEMMA RexMWide ==
  ASSUME NEW addr, NEW r \in GpRegs, NEW type, type \cap {"F2", "F3", "66"} = {}, P66(addr.bit, r.bit) <=> r.bit = 16
  PROVE  Prefixed(RexM(addr, r, type), r.bit)
<1> DEFINE rex2 == RexMRex2(addr, r)
           W == IsGp(r) /\ r.bit = 64
           pp == LegacyPP(type, P66(addr.bit, r.bit))
           p67 == Is32bit(addr)
           e == GetRegExp(addr)
           p == RexM(addr, r, type)
<1>1. p = RexWith(rex2, W, r.ext8, pp, p67, type, r, e.base, e.index)
  BY DEF RexM
<1>2. IsGp(r) /\ r.bit \in Widths /\ r.ext8 \in BOOLEAN
  BY GpForm DEF Widths
<1>3. pp = IF r.bit = 16 THEN 1 ELSE 0
  BY LegacyPPIs
<1>4. W \in BOOLEAN /\ rex2 \in BOOLEAN
  BY DEF RexMRex2, HasRex2, AddrHasRex2, IsExtIdx2, HasIdxBit, IsGp
<1>5. W <=> r.bit = 64
  BY <1>2
<1> HIDE DEF rex2, W, pp, e, p, p67
<1>6. RexFields(p, rex2, W, r.ext8, pp, p67, type, r, e.base, e.index)
  BY <1>1, <1>2, <1>4, RexWithIs
<1>7. p.W = W /\ p.pp = pp
  BY <1>6 DEF RexFields
<1>8. p.pp = 1 <=> r.bit = 16
  BY <1>3, <1>7
<1>9. p.W <=> r.bit = 64
  BY <1>5, <1>7
<1>10. p.W \in BOOLEAN
  BY <1>4, <1>7
<1>11. QED BY <1>8, <1>9, <1>10 DEF Prefixed, p

LEMMA RexMSize ==
  ASSUME NEW addr, NEW r \in GpRegs, NEW type, type \cap {"F2", "F3", "66"} = {}, addr.bit \in {0, r.bit}
  PROVE  Prefixed(RexM(addr, r, type), r.bit)
<1>1. r.bit \in Widths
  BY GpForm DEF Widths
<1>2. P66(addr.bit, r.bit) <=> r.bit = 16
  BY <1>1 DEF P66, Widths
<1>3. QED BY <1>2, RexMWide

LEMMA RexRWide ==
  ASSUME NEW reg, NEW rm, NEW bit, P66(reg.bit, rm.bit) <=> bit = 16,
         (\E r \in {reg, rm} : IsGp(r) /\ r.bit = 64) <=> bit = 64,
         NEW type, type \cap {"F2", "F3", "66"} = {}
  PROVE  Prefixed(RexR(reg, rm, type), bit)
<1> DEFINE rex2 == HasRex2(reg) \/ HasRex2(rm)
           W == \E r \in {reg, rm} : IsGp(r) /\ r.bit = 64
           pp == LegacyPP(type, P66(reg.bit, rm.bit))
           e8 == reg.ext8 \/ rm.ext8
           p == RexR(reg, rm, type)
<1>1. p = RexWith(rex2, W, e8, pp, FALSE, type, reg, rm, NoReg)
  BY DEF RexR
<1>2. pp = IF bit = 16 THEN 1 ELSE 0
  BY LegacyPPIs
<1>3. W \in BOOLEAN /\ rex2 \in BOOLEAN /\ e8 \in BOOLEAN
  BY DEF HasRex2, IsExtIdx2, HasIdxBit, IsGp
<1>4. W <=> bit = 64
  OBVIOUS
<1> HIDE DEF rex2, W, pp, e8, p
<1>5. RexFields(p, rex2, W, e8, pp, FALSE, type, reg, rm, NoReg)
  BY <1>1, <1>3, RexWithIs
<1>6. p.W = W /\ p.pp = pp
  BY <1>5 DEF RexFields
<1>7. p.pp = 1 <=> bit = 16
  BY <1>2, <1>6
<1>8. p.W <=> bit = 64
  BY <1>4, <1>6
<1>9. p.W \in BOOLEAN
  BY <1>3, <1>6
<1>10. QED BY <1>7, <1>8, <1>9 DEF Prefixed, p

LEMMA RexRSize ==
  ASSUME NEW reg, NEW rm \in GpRegs, reg = NoReg \/ (reg \in GpRegs /\ reg.bit = rm.bit),
         NEW type, type \cap {"F2", "F3", "66"} = {}
  PROVE  Prefixed(RexR(reg, rm, type), rm.bit)
<1>1. IsGp(rm) /\ rm.bit \in Widths
  BY GpForm DEF Widths
<1>2. (reg.bit = 0 /\ ~IsGp(reg)) \/ (reg.bit = rm.bit /\ IsGp(reg))
  BY NoRegForm, GpForm
<1>3. P66(reg.bit, rm.bit) <=> rm.bit = 16
  BY <1>1, <1>2 DEF P66, Widths
<1>4. (\E r \in {reg, rm} : IsGp(r) /\ r.bit = 64) <=> rm.bit = 64
  BY <1>1, <1>2
<1>5. QED BY <1>3, <1>4, RexRWide

\* The prefix of the APX form of an instruction of the general registers.
LEMMA EvexLegSize ==
  ASSUME NEW r \in GpRegs, NEW b, NEW x, NEW v, v = NoReg \/ (v \in GpRegs /\ v.bit = r.bit),
         NEW type, type \cap {"F2", "F3", "66", "W0", "W1"} = {}
  PROVE  Prefixed(EvexLeg(r, b, x, v, type), r.bit)
<1> DEFINE p == EvexLeg(r, b, x, v, type)
<1>1. LegFields(p, r, b, x, v, type)
  BY EvexLegIs
<1> HIDE DEF p
<1>2. /\ p.W = ("W0" \notin type /\ (r.bit = 64 \/ v.bit = 64 \/ "W1" \in type))
      /\ p.pp = IF type \cap {"F2", "F3", "66"} # {} THEN GetPP(type) ELSE IF r.bit = 16 \/ v.bit = 16 THEN 1 ELSE 0
  BY <1>1 DEF LegFields
<1>3. v.bit \in {0, r.bit}
  BY NoRegForm
<1>4. r.bit \in Widths
  BY GpForm DEF Widths
<1>5. "W0" \notin type /\ "W1" \notin type /\ type \cap {"F2", "F3", "66"} = {}
  OBVIOUS
<1>6. p.W \in BOOLEAN
  BY <1>2
<1>7. p.W <=> r.bit = 64
  <2>1. p.W <=> r.bit = 64 \/ v.bit = 64
    BY <1>2, <1>5, Zenon
  <2>2. QED BY <1>3, <1>4, <2>1
<1>8. p.pp = 1 <=> r.bit = 16
  BY <1>2, <1>3, <1>4, <1>5 DEF Widths
<1>9. QED BY <1>6, <1>7, <1>8 DEF Prefixed, p

LEMMA GpIs ==
  ASSUME NEW n \in 0..31, NEW bit \in Widths
  PROVE  Gp(n, bit) \in GpRegs /\ Gp(n, bit).bit = bit /\ Gp(n, bit).idx = n
         /\ IsGp(Gp(n, bit)) /\ Gp(n, bit).ext8 = FALSE /\ ~IsMem(Gp(n, bit))
<1>1. Gp(n, bit) \in GpRegs
  BY DEF GpRegs, Widths
<1>2. QED BY <1>1 DEF Gp, IsGp, IsMem

LEMMA WriteCodeIs ==
  ASSUME NEW type, NEW r, type \subseteq {"DIFF", "ABCDH"} \/ "CODE1" \in type
  PROVE  WriteCode(type, r) <=> r.bit # 8
BY DEF WriteCode

\* What the forms with one register and an operand of the same width emit.
LEMMA OpMRSize ==
  ASSUME NEW addr, NEW r \in GpRegs, NEW type, type \cap {"DIFF", "F2", "F3", "66"} = {}, OpMROk(addr, r, type)
  PROVE  /\ Prefixed(OpMR(addr, r, type).p, r.bit)
         /\ OpMR(addr, r, type).code1 = WriteCode(type, r)
<1>1. addr.bit \in {0, r.bit}
  <2>1. r.bit \in {8, 16, 32, 64}
    BY GpForm
  <2>2. QED BY <2>1 DEF OpMROk
<1>2. OpMR(addr, r, type).p = RexM(addr, r, type) /\ OpMR(addr, r, type).code1 = WriteCode(type, r)
  BY DEF OpMR, Parts
<1>3. QED BY <1>1, <1>2, RexMSize

LEMMA OpRRSize ==
  ASSUME NEW r \in GpRegs, NEW op \in GpRegs, r.bit = op.bit, NEW type, type \cap {"F2", "F3", "66"} = {}
  PROVE  /\ Prefixed(OpRR(r, op, type).p, op.bit)
         /\ OpRR(r, op, type).code1 = WriteCode(type, r)
<1>1. OpRR(r, op, type).p = RexR(r, op, type) /\ OpRR(r, op, type).code1 = WriteCode(type, r)
  BY DEF OpRR, Parts
<1>2. QED BY <1>1, RexRSize

LEMMA OpROOSize ==
  ASSUME NEW d, NEW op, NEW r \in GpRegs, d = NoReg \/ (d \in GpRegs /\ d.bit = r.bit),
         NEW type, type \cap {"F2", "F3", "66", "W0", "W1"} = {}, NEW n
  PROVE  /\ Prefixed(OpROO(d, op, r, type, n).p, r.bit)
         /\ OpROO(d, op, r, type, n).code1 = WriteCode(type, d)
<1>1. ~IsMem(r)
  BY GpForm
<1>2. \E b, x : OpROO(d, op, r, type, n).p = EvexLeg(r, b, x, d, type)
  <2>1. CASE IsMem(op)
    <3> DEFINE e == GetRegExp([op EXCEPT !.immSize = n])
    <3>1. OpROO(d, op, r, type, n).p = EvexLeg(r, e.base, e.index, d, type)
      BY <2>1 DEF OpROO, Parts
    <3>2. QED BY <3>1
  <2>2. CASE ~IsMem(op)
    <3>1. OpROO(d, op, r, type, n).p = EvexLeg(r, op, NoReg, d, type)
      BY <1>1, <2>2 DEF OpROO, Parts
    <3>2. QED BY <3>1
  <2>3. QED BY <2>1, <2>2
<1>3. OpROO(d, op, r, type, n).code1 = WriteCode(type, d)
  <2>1. CASE IsMem(op)
    BY <2>1 DEF OpROO, Parts
  <2>2. CASE ~IsMem(op)
    BY <1>1, <2>2 DEF OpROO, Parts
  <2>3. QED BY <2>1, <2>2
<1>4. QED BY <1>2, <1>3, EvexLegSize

\* A part of the opcode in the reg field is as wide as the operand.
LEMMA OpRextSize ==
  ASSUME NEW bit \in Widths, NEW op, op.bit = bit, op \in GpRegs \/ IsMem(op), NEW n \in 0..7, NEW size, OpRextOk(op, n, {}, NoReg)
  PROVE  /\ Prefixed(OpRext(op, n, {}, NoReg, size).p, bit)
         /\ OpRext(op, n, {}, NoReg, size).code1 <=> bit # 8
<1> DEFINE r == RextReg(op, n)
<1>1. r \in GpRegs /\ r.bit = bit
  <2>1. r = Gp(n, bit) /\ n \in 0..31
    BY DEF RextReg
  <2>2. Gp(n, bit) \in GpRegs /\ Gp(n, bit).bit = bit
    BY <2>1, GpIs
  <2>3. QED BY <2>1, <2>2
<1>2. ~RextAPX(op, {}, NoReg)
  BY DEF RextAPX
<1> HIDE DEF r
<1>3. CASE IsMem(op)
  <2> DEFINE a == [op EXCEPT !.immSize = size]
  <2>1. OpRext(op, n, {}, NoReg, size) = OpMR(a, r, {})
    BY <1>2, <1>3 DEF OpRext, r
  <2>2. a.bit \in {0, r.bit}
    <3>1. DOMAIN a = DOMAIN op
      OBVIOUS
    <3>2. a.bit = op.bit
      OBVIOUS
    <3>3. QED BY <1>1, <3>2
  <2> HIDE DEF a
  <2>3. OpMR(a, r, {}).p = RexM(a, r, {}) /\ OpMR(a, r, {}).code1 = WriteCode({}, r)
    BY DEF OpMR, Parts
  <2>4. Prefixed(RexM(a, r, {}), r.bit)
    BY <1>1, <2>2, RexMSize
  <2>5. QED BY <1>1, <2>1, <2>3, <2>4, WriteCodeIs
<1>4. CASE ~IsMem(op)
  <2> DEFINE t == {} \cup {"ABCDH"}
  <2>1. OpRext(op, n, {}, NoReg, size) = OpRR(r, op, t)
    BY <1>2, <1>4 DEF OpRext, r
  <2>2. t \cap {"F2", "F3", "66"} = {} /\ t \subseteq {"DIFF", "ABCDH"}
    OBVIOUS
  <2> HIDE DEF t
  <2>3. Prefixed(OpRR(r, op, t).p, op.bit) /\ OpRR(r, op, t).code1 = WriteCode(t, r)
    BY <1>1, <1>4, <2>2, OpRRSize
  <2>4. QED BY <1>1, <2>1, <2>2, <2>3, WriteCodeIs
<1>5. QED BY <1>3, <1>4

LEMMA AccumulatorSize ==
  ASSUME NEW op \in GpRegs, NEW code1
  PROVE  Prefixed(Accumulator(op, code1).p, op.bit) /\ Accumulator(op, code1).code1 = code1
<1>1. Accumulator(op, code1).p = RexR(NoReg, op, {}) /\ Accumulator(op, code1).code1 = code1
  BY DEF Accumulator, Parts
<1>2. QED BY <1>1, RexRSize

LEMMA WrittenRmIs ==
  ASSUME NEW v, NEW op, NEW imm
  PROVE  /\ WrittenRm(v, op, imm).imm = imm
         /\ IsMem(op) => WrittenRm(v, op, imm).rm = NoReg
         /\ ~IsMem(op) => WrittenRm(v, op, imm).rm = op
BY DEF WrittenRm, Written

\* getImmBit: 8 bits only for a value that has 8 bits with its sign.
LEMMA ImmBit ==
  ASSUME NEW op, op.bit \in Widths, NEW x, NEW w, w = GetImmBit(op, x), w # 0
  PROVE  /\ w \in {8, 16, 32} /\ w <= op.bit
         /\ op.bit \in {32, 64} => w # 16
         /\ w = 8 /\ op.bit # 8 => InDisp8(x)
BY DEF GetImmBit, Widths

LEMMA ArithImmKeeps == ASSUME ArithImm PROVE ImmKept(i', want')
<1>1. PICK op \in RmOps({8, 16, 32, 64}), imm \in Imms :
        LET w == GetImmBit(op, imm)
            short == IsGp(op) /\ op.idx = 0 /\ (op.bit = w \/ (op.bit = 64 /\ w = 32))
            sx == ~short /\ w < MinBit(op.bit, 32)
        IN  /\ w # 0
            /\ short \/ OpRextOk(op, ext, {}, NoReg)
            /\ Emit([add EXCEPT !.imm = IF sx THEN "ibs" ELSE "iz"], IF short THEN "acc" ELSE "ext", FALSE,
                    IF short THEN Accumulator(op, w # 8) ELSE OpRext(op, ext, {}, NoReg, w \div 8),
                    Immediate(w \div 8, sx, imm), WrittenRm(NoReg, op, Signed(imm, Half32)))
  BY DEF ArithImm
<1> DEFINE w == GetImmBit(op, imm)
           short == IsGp(op) /\ op.idx = 0 /\ (op.bit = w \/ (op.bit = 64 /\ w = 32))
           sx == ~short /\ w < MinBit(op.bit, 32)
           o == [add EXCEPT !.imm = IF sx THEN "ibs" ELSE "iz"]
           how == IF sx THEN "ibs" ELSE "iz"
           where == IF short THEN "acc" ELSE "ext"
           parts == IF short THEN Accumulator(op, w # 8) ELSE OpRext(op, ext, {}, NoReg, w \div 8)
           wr == WrittenRm(NoReg, op, Signed(imm, Half32))
<1>2. /\ w # 0 /\ (short \/ OpRextOk(op, ext, {}, NoReg))
      /\ Emit(o, where, FALSE, parts, Immediate(w \div 8, sx, imm), wr)
  BY <1>1
<1>3. o.shape = "int8" /\ o.imm = how
  BY DEF add, Op
<1>4. imm \in Int
  BY EncodingAssumption
<1>5. op.bit \in Widths /\ ((op \in GpRegs /\ IsGp(op) /\ ~IsMem(op)) \/ (IsMem(op) /\ ~IsGp(op)))
  BY RmOpsAre DEF Widths
<1>6. w \in {8, 16, 32} /\ w <= op.bit /\ (op.bit \in {32, 64} => w # 16) /\ (w = 8 /\ op.bit # 8 => InDisp8(imm))
  BY <1>2, <1>5, ImmBit
<1> HIDE DEF w, o
<1>7. CASE sx
  <2>1. w = 8 /\ InDisp8(imm)
    BY <1>5, <1>6, <1>7 DEF MinBit, Widths
  <2>2. how = "ibs"
    BY <1>7
  <2> HIDE DEF how, where, parts, wr, sx, short
  <2>3. i'.opc.imm = "ibs" /\ i'.imm.size = 1 /\ i'.imm.value = imm /\ want' = wr
    <3>1. Emitted(i', o, where, FALSE, parts, Immediate(w \div 8, sx, imm)) /\ want' = wr
      BY <1>2, EmitIs
    <3>2. QED BY <1>3, <2>1, <2>2, <3>1 DEF Emitted, Immediate
  <2>4. want'.imm = Signed(imm, Half32)
    BY <2>3, WrittenRmIs DEF wr
  <2>5. QED BY <1>4, <2>1, <2>3, <2>4, KeptSigned
<1>8. CASE ~sx
  <2>1. w = MinBit(op.bit, 32)
    BY <1>5, <1>6, <1>8 DEF MinBit, Widths
  <2>2. how = "iz"
    BY <1>8
  <2>3. Prefixed(parts.p, op.bit) /\ (parts.code1 <=> op.bit # 8)
    <3>1. CASE short
      <4>1. op \in GpRegs
        BY <1>5, <3>1
      <4>2. parts = Accumulator(op, w # 8)
        BY <3>1
      <4>3. w # 8 <=> op.bit # 8
        BY <1>5, <2>1 DEF MinBit, Widths
      <4>4. QED BY <4>1, <4>2, <4>3, AccumulatorSize
    <3>2. CASE ~short
      <4>1. parts = OpRext(op, ext, {}, NoReg, w \div 8) /\ OpRextOk(op, ext, {}, NoReg)
        BY <1>2, <3>2
      <4>2. ext \in 0..7
        BY DEF ext
      <4>3. QED BY <1>5, <4>1, <4>2, OpRextSize
    <3>3. QED BY <3>1, <3>2
  <2> HIDE DEF how, where, parts, wr, sx, short
  <2>4. /\ i'.opc.imm = "iz" /\ i'.imm.size = w \div 8 /\ i'.imm.value = imm /\ want' = wr
        /\ i'.opc.shape = "int8" /\ i'.p = parts.p /\ i'.opc.code1 = parts.code1
    <3>1. Emitted(i', o, where, FALSE, parts, Immediate(w \div 8, sx, imm)) /\ want' = wr
      BY <1>2, EmitIs
    <3>2. QED BY <1>3, <2>1, <2>2, <3>1 DEF Emitted, Immediate
  <2>5. IntSize(i') = op.bit
    <3>1. Prefixed(i'.p, op.bit) /\ (i'.opc.code1 <=> op.bit # 8)
      BY <2>3, <2>4
    <3>2. QED BY <1>5, <2>4, <3>1, SizedRead
  <2>6. want'.imm = Signed(imm, Half32) /\ (IsGp(want'.rm) => want'.rm.bit = op.bit)
    BY <1>5, <2>4, WrittenRmIs, NoRegForm DEF wr
  <2>7. QED BY <1>4, <1>5, <2>1, <2>4, <2>5, <2>6, KeptFull
<1>9. QED BY <1>7, <1>8

LEMMA TestImmKeeps == ASSUME TestImm PROVE ImmKept(i', want')
<1>1. PICK op \in RmOps({8, 16, 32, 64}), imm \in Imms :
        LET size == MinBit(op.bit, 32) \div 8
            short == IsGp(op) /\ op.idx = 0
        IN  /\ short \/ OpRextOk(op, 0, {}, NoReg)
            /\ Emit([add EXCEPT !.imm = "iz"], IF short THEN "acc" ELSE "ext", FALSE,
                    IF short THEN Accumulator(op, op.bit # 8) ELSE OpRext(op, 0, {}, NoReg, size),
                    Immediate(size, FALSE, imm), WrittenRm(NoReg, op, Signed(imm, Half32)))
  BY DEF TestImm
<1> DEFINE size == MinBit(op.bit, 32) \div 8
           short == IsGp(op) /\ op.idx = 0
           o == [add EXCEPT !.imm = "iz"]
           where == IF short THEN "acc" ELSE "ext"
           parts == IF short THEN Accumulator(op, op.bit # 8) ELSE OpRext(op, 0, {}, NoReg, size)
           wr == WrittenRm(NoReg, op, Signed(imm, Half32))
<1>2. /\ short \/ OpRextOk(op, 0, {}, NoReg)
      /\ Emit(o, where, FALSE, parts, Immediate(size, FALSE, imm), wr)
  BY <1>1
<1>3. o.shape = "int8" /\ o.imm = "iz"
  BY DEF add, Op
<1>4. imm \in Int
  BY EncodingAssumption
<1>5. op.bit \in Widths /\ ((op \in GpRegs /\ IsGp(op) /\ ~IsMem(op)) \/ (IsMem(op) /\ ~IsGp(op)))
  BY RmOpsAre DEF Widths
<1>6. Prefixed(parts.p, op.bit) /\ (parts.code1 <=> op.bit # 8)
  <2>1. CASE short
    <3>1. op \in GpRegs /\ parts = Accumulator(op, op.bit # 8)
      BY <1>5, <2>1
    <3>2. QED BY <3>1, AccumulatorSize
  <2>2. CASE ~short
    <3>1. parts = OpRext(op, 0, {}, NoReg, size) /\ OpRextOk(op, 0, {}, NoReg) /\ 0 \in 0..7
      BY <1>2, <2>2
    <3>2. QED BY <1>5, <3>1, OpRextSize
  <2>3. QED BY <2>1, <2>2
<1> HIDE DEF o, where, parts, wr, size
<1>7. Emitted(i', o, where, FALSE, parts, Immediate(size, FALSE, imm)) /\ want' = wr
  BY <1>2, EmitIs
<1>8. /\ i'.opc.imm = "iz" /\ i'.imm.size = size /\ i'.imm.value = imm
      /\ i'.opc.shape = "int8" /\ i'.p = parts.p /\ i'.opc.code1 = parts.code1
  BY <1>3, <1>7 DEF Emitted, Immediate
<1>9. IntSize(i') = op.bit
  <2>1. Prefixed(i'.p, op.bit) /\ (i'.opc.code1 <=> op.bit # 8)
    BY <1>6, <1>8
  <2>2. QED BY <1>5, <1>8, <2>1, SizedRead
<1>10. want'.imm = Signed(imm, Half32) /\ (IsGp(want'.rm) => want'.rm.bit = op.bit)
  BY <1>5, <1>7, WrittenRmIs, NoRegForm DEF wr
<1>11. QED BY <1>4, <1>5, <1>8, <1>9, <1>10, KeptFull DEF size

LEMMA Arith3ImmKeeps == ASSUME Arith3Imm PROVE ImmKept(i', want')
<1>1. PICK d \in Gps, imm \in Imms : \E op \in RmOps({d.bit}) :
        LET w == GetImmBit(d, imm)
            sx == w < MinBit(d.bit, 32)
        IN  /\ w # 0
            /\ Emit([add3 EXCEPT !.imm = IF sx THEN "ibs" ELSE "iz"], "ext", FALSE,
                    OpROO(d, op, Gp(ext, d.bit), add3.type, w \div 8),
                    Immediate(w \div 8, sx, imm), WrittenRm(d, op, Signed(imm, Half32)))
  BY DEF Arith3Imm
<1>2. PICK op \in RmOps({d.bit}) :
        LET w == GetImmBit(d, imm)
            sx == w < MinBit(d.bit, 32)
        IN  /\ w # 0
            /\ Emit([add3 EXCEPT !.imm = IF sx THEN "ibs" ELSE "iz"], "ext", FALSE,
                    OpROO(d, op, Gp(ext, d.bit), add3.type, w \div 8),
                    Immediate(w \div 8, sx, imm), WrittenRm(d, op, Signed(imm, Half32)))
  BY <1>1
<1> DEFINE w == GetImmBit(d, imm)
           sx == w < MinBit(d.bit, 32)
           how == IF sx THEN "ibs" ELSE "iz"
           o == [add3 EXCEPT !.imm = how]
           r == Gp(ext, d.bit)
           type == add3.type
           parts == OpROO(d, op, r, type, w \div 8)
           wr == WrittenRm(d, op, Signed(imm, Half32))
<1>3. w # 0 /\ Emit(o, "ext", FALSE, parts, Immediate(w \div 8, sx, imm), wr)
  BY <1>2
<1>4. o.shape = "int8" /\ o.imm = how /\ type = {"NF", "CODE1"}
  BY DEF add3, Op
<1>5. imm \in Int /\ d \in GpRegs
  BY EncodingAssumption
<1>6. d.bit \in Widths
  BY <1>5, GpForm DEF Widths
<1>7. op.bit = d.bit /\ ((op \in GpRegs /\ IsGp(op) /\ ~IsMem(op)) \/ (IsMem(op) /\ ~IsGp(op)))
  BY RmOpsAre
<1>8. w \in {8, 16, 32} /\ w <= d.bit /\ (d.bit \in {32, 64} => w # 16) /\ (w = 8 /\ d.bit # 8 => InDisp8(imm))
  BY <1>3, <1>6, ImmBit
<1>9. r \in GpRegs /\ r.bit = d.bit
  <2>1. ext \in 0..31
    BY DEF ext
  <2>2. QED BY <1>6, <2>1, GpIs
<1> HIDE DEF w, o, r, type
<1>10. Prefixed(parts.p, d.bit) /\ (parts.code1 <=> d.bit # 8)
  <2>1. Prefixed(parts.p, r.bit) /\ parts.code1 = WriteCode(type, d)
    BY <1>4, <1>5, <1>9, OpROOSize
  <2>2. WriteCode(type, d) <=> d.bit # 8
    BY <1>4, WriteCodeIs
  <2>3. QED BY <1>9, <2>1, <2>2
<1> HIDE DEF parts, wr, sx, how
<1>11. Emitted(i', o, "ext", FALSE, parts, Immediate(w \div 8, sx, imm)) /\ want' = wr
  BY <1>3, EmitIs
<1>12. /\ i'.opc.imm = how /\ i'.imm.size = w \div 8 /\ i'.imm.value = imm
       /\ i'.opc.shape = "int8" /\ i'.p = parts.p /\ i'.opc.code1 = parts.code1
  BY <1>4, <1>11 DEF Emitted, Immediate
<1>13. want'.imm = Signed(imm, Half32) /\ (IsGp(want'.rm) => want'.rm.bit = d.bit)
  BY <1>7, <1>11, WrittenRmIs, NoRegForm DEF wr
<1>14. CASE sx
  <2>1. w = 8 /\ InDisp8(imm)
    BY <1>6, <1>8, <1>14 DEF MinBit, Widths, sx
  <2>2. how = "ibs" /\ i'.imm.size = 1
    BY <1>12, <1>14, <2>1 DEF how
  <2>3. QED BY <1>5, <1>12, <1>13, <2>1, <2>2, KeptSigned
<1>15. CASE ~sx
  <2>1. w = MinBit(d.bit, 32)
    BY <1>6, <1>8, <1>15 DEF MinBit, Widths, sx
  <2>2. how = "iz"
    BY <1>15 DEF how
  <2>3. IntSize(i') = d.bit
    <3>1. Prefixed(i'.p, d.bit) /\ (i'.opc.code1 <=> d.bit # 8)
      BY <1>10, <1>12
    <3>2. QED BY <1>6, <1>12, <3>1, SizedRead
  <2>4. QED BY <1>5, <1>6, <1>12, <1>13, <2>1, <2>2, <2>3, KeptFull
<1>16. QED BY <1>14, <1>15

LEMMA ImulImmKeeps == ASSUME ImulImm PROVE ImmKept(i', want')
<1>1. PICK r \in Gps, imm \in Imms : \E op \in RmOps({r.bit}) :
        LET s == InDisp8(imm)
            size == IF s THEN 1 ELSE IF r.bit = 16 THEN 2 ELSE 4
            apx == OpROOApplies(NoReg, op, r, {"APX"})
            o == [Op("int", IF apx THEN {"APX", "NF", "ZU"} ELSE {}) EXCEPT !.imm = IF s THEN "ibs" ELSE "iz"]
            sized == IF IsMem(op) THEN [op EXCEPT !.immSize = size] ELSE op
        IN  /\ r.bit > 8
            /\ IF apx THEN OpROOOk(op, r, o.type) ELSE IF IsMem(op) THEN OpMROk(sized, r, {}) ELSE OpRROk(r, op, {})
            /\ Emit(o, "modrm", FALSE,
                    IF apx THEN OpROO(NoReg, op, r, o.type, size)
                    ELSE IF IsMem(op) THEN OpMR(sized, r, {}) ELSE OpRR(r, op, {}),
                    Immediate(size, s, imm), [WrittenRm(NoReg, op, Signed(imm, Half32)) EXCEPT !.reg = r])
  BY DEF ImulImm
<1>2. PICK op \in RmOps({r.bit}) :
        LET s == InDisp8(imm)
            size == IF s THEN 1 ELSE IF r.bit = 16 THEN 2 ELSE 4
            apx == OpROOApplies(NoReg, op, r, {"APX"})
            o == [Op("int", IF apx THEN {"APX", "NF", "ZU"} ELSE {}) EXCEPT !.imm = IF s THEN "ibs" ELSE "iz"]
            sized == IF IsMem(op) THEN [op EXCEPT !.immSize = size] ELSE op
        IN  /\ r.bit > 8
            /\ IF apx THEN OpROOOk(op, r, o.type) ELSE IF IsMem(op) THEN OpMROk(sized, r, {}) ELSE OpRROk(r, op, {})
            /\ Emit(o, "modrm", FALSE,
                    IF apx THEN OpROO(NoReg, op, r, o.type, size)
                    ELSE IF IsMem(op) THEN OpMR(sized, r, {}) ELSE OpRR(r, op, {}),
                    Immediate(size, s, imm), [WrittenRm(NoReg, op, Signed(imm, Half32)) EXCEPT !.reg = r])
  BY <1>1
<1> DEFINE s == InDisp8(imm)
           size == IF s THEN 1 ELSE IF r.bit = 16 THEN 2 ELSE 4
           apx == OpROOApplies(NoReg, op, r, {"APX"})
           how == IF s THEN "ibs" ELSE "iz"
           type == IF apx THEN {"APX", "NF", "ZU"} ELSE {}
           o == [Op("int", type) EXCEPT !.imm = how]
           sized == IF IsMem(op) THEN [op EXCEPT !.immSize = size] ELSE op
           parts == IF apx THEN OpROO(NoReg, op, r, o.type, size)
                    ELSE IF IsMem(op) THEN OpMR(sized, r, {}) ELSE OpRR(r, op, {})
           wr == [WrittenRm(NoReg, op, Signed(imm, Half32)) EXCEPT !.reg = r]
<1>3. /\ r.bit > 8
      /\ IF apx THEN OpROOOk(op, r, o.type) ELSE IF IsMem(op) THEN OpMROk(sized, r, {}) ELSE OpRROk(r, op, {})
      /\ Emit(o, "modrm", FALSE, parts, Immediate(size, s, imm), wr)
  BY <1>2
<1>4. o.shape = "int" /\ o.imm = how /\ o.type = type
  BY DEF Op
<1>5. imm \in Int /\ r \in GpRegs
  BY EncodingAssumption
<1>6. r.bit \in Widths /\ r.bit # 8
  BY <1>3, <1>5, GpForm DEF Widths
<1>7. op.bit = r.bit /\ ((op \in GpRegs /\ IsGp(op) /\ ~IsMem(op)) \/ (IsMem(op) /\ ~IsGp(op)))
  BY RmOpsAre
<1> HIDE DEF o, s, size, how
<1>8. Prefixed(parts.p, r.bit)
  <2>1. CASE apx
    <3>1. type \cap {"F2", "F3", "66", "W0", "W1"} = {}
      OBVIOUS
    <3>2. parts = OpROO(NoReg, op, r, type, size)
      BY <1>4, <2>1
    <3> HIDE DEF type, parts
    <3>3. Prefixed(OpROO(NoReg, op, r, type, size).p, r.bit)
      BY <1>5, <3>1, OpROOSize
    <3>4. QED BY <3>2, <3>3
  <2>2. CASE ~apx /\ IsMem(op)
    <3>1. parts = OpMR(sized, r, {}) /\ OpMROk(sized, r, {})
      BY <1>3, <2>2
    <3> HIDE DEF parts, sized
    <3>2. {} \cap {"DIFF", "F2", "F3", "66"} = {}
      OBVIOUS
    <3>3. QED BY <1>5, <3>1, <3>2, OpMRSize
  <2>3. CASE ~apx /\ ~IsMem(op)
    <3>1. parts = OpRR(r, op, {})
      BY <2>3
    <3> HIDE DEF parts
    <3>2. {} \cap {"F2", "F3", "66"} = {} /\ op \in GpRegs
      BY <1>7, <2>3
    <3>3. Prefixed(OpRR(r, op, {}).p, op.bit)
      BY <1>5, <1>7, <3>2, OpRRSize
    <3>4. QED BY <1>7, <3>1, <3>3
  <2>4. QED BY <2>1, <2>2, <2>3
<1>9. wr.imm = Signed(imm, Half32) /\ (IsGp(wr.rm) => wr.rm.bit = r.bit)
  <2> DEFINE x == WrittenRm(NoReg, op, Signed(imm, Half32))
  <2>1. wr.imm = x.imm /\ wr.rm = x.rm
    BY DEF WrittenRm, Written
  <2>2. x.imm = Signed(imm, Half32) /\ (IsMem(op) => x.rm = NoReg) /\ (~IsMem(op) => x.rm = op)
    BY WrittenRmIs
  <2> HIDE DEF x, wr
  <2>3. QED BY <1>7, <2>1, <2>2, NoRegForm
<1> HIDE DEF parts, wr, apx, type, sized
<1>10. Emitted(i', o, "modrm", FALSE, parts, Immediate(size, s, imm)) /\ want' = wr
  BY <1>3, EmitIs
<1>11. /\ i'.opc.imm = how /\ i'.imm.size = size /\ i'.imm.value = imm
       /\ i'.opc.shape = "int" /\ i'.p = parts.p
  BY <1>4, <1>10 DEF Emitted, Immediate
<1>12. CASE s
  <2>1. i'.opc.imm = "ibs" /\ i'.imm.size = 1 /\ InDisp8(imm)
    BY <1>11, <1>12 DEF how, size, s
  <2>2. QED BY <1>5, <1>9, <1>10, <1>11, <2>1, KeptSigned
<1>13. CASE ~s
  <2>1. i'.opc.imm = "iz" /\ i'.imm.size = MinBit(r.bit, 32) \div 8
    BY <1>6, <1>11, <1>13 DEF how, size, MinBit, Widths
  <2>2. IntSize(i') = r.bit
    <3>1. Prefixed(i'.p, r.bit)
      BY <1>8, <1>11
    <3>2. QED BY <1>6, <1>11, <3>1, SizedRead
  <2>3. want'.imm = Signed(imm, Half32) /\ (IsGp(want'.rm) => want'.rm.bit = r.bit)
    BY <1>9, <1>10
  <2>4. QED BY <1>5, <1>6, <1>11, <2>1, <2>2, <2>3, KeptFull
<1>14. QED BY <1>12, <1>13

LEMMA MovImmRegKeeps == ASSUME MovImmReg PROVE ImmKept(i', want')
<1>1. PICK r \in Gps, imm \in Imms :
        LET zx == r.bit = 64 /\ SizeT(imm) < 2 * Half32
            sx == r.bit = 64 /\ ~zx /\ InInt32(imm)
            size == IF zx \/ sx THEN 4 ELSE r.bit \div 8
            low == [NoModRM EXCEPT !.rm = r.idx % 8]
        IN  Emit([add EXCEPT !.imm = IF sx THEN "iz" ELSE "iv"], IF sx THEN "ext" ELSE "opcode", FALSE,
                    Parts(RexR(NoReg, IF zx THEN Gp(r.idx, 32) ELSE r, {}),
                          IF sx THEN SetModRM(3, 0, r.idx) ELSE low, r.bit # 8),
                    Immediate(size, FALSE, imm), Written(NoReg, NoReg, r, None, FALSE, NoAttr, imm))
  BY DEF MovImmReg
<1> DEFINE zx == r.bit = 64 /\ SizeT(imm) < 2 * Half32
           sx == r.bit = 64 /\ ~zx /\ InInt32(imm)
           size == IF zx \/ sx THEN 4 ELSE r.bit \div 8
           low == [NoModRM EXCEPT !.rm = r.idx % 8]
           how == IF sx THEN "iz" ELSE "iv"
           o == [add EXCEPT !.imm = how]
           where == IF sx THEN "ext" ELSE "opcode"
           g == IF zx THEN Gp(r.idx, 32) ELSE r
           m == IF sx THEN SetModRM(3, 0, r.idx) ELSE low
           parts == Parts(RexR(NoReg, g, {}), m, r.bit # 8)
           wr == Written(NoReg, NoReg, r, None, FALSE, NoAttr, imm)
<1>2. Emit(o, where, FALSE, parts, Immediate(size, FALSE, imm), wr)
  BY <1>1
<1>3. o.shape = "int8" /\ o.imm = how
  BY DEF add, Op
<1>4. imm \in Int /\ r \in GpRegs
  BY EncodingAssumption
<1>5. r.bit \in Widths /\ IsGp(r) /\ r.idx \in 0..31
  BY <1>4, GpForm DEF Widths
<1>6. g \in GpRegs /\ g.bit = IF zx THEN 32 ELSE r.bit
  <2>1. 32 \in Widths
    BY DEF Widths
  <2>2. Gp(r.idx, 32) \in GpRegs /\ Gp(r.idx, 32).bit = 32
    BY <1>5, <2>1, GpIs, ZenonT(30)
  <2>3. QED BY <1>4, <2>2
<1>7. parts.p = RexR(NoReg, g, {}) /\ (parts.code1 <=> r.bit # 8)
  BY DEF Parts
<1>8. wr.imm = imm /\ wr.rm = r
  BY DEF Written
<1> HIDE DEF o, where, g, m, parts, wr, how, size
<1>9. Prefixed(parts.p, g.bit)
  <2>1. {} \cap {"F2", "F3", "66"} = {}
    OBVIOUS
  <2>2. Prefixed(RexR(NoReg, g, {}), g.bit)
    BY <1>6, <2>1, RexRSize
  <2>3. QED BY <1>7, <2>2
<1>10. Emitted(i', o, where, FALSE, parts, Immediate(size, FALSE, imm)) /\ want' = wr
  BY <1>2, EmitIs
<1>11. /\ i'.opc.imm = how /\ i'.imm.size = size /\ i'.imm.value = imm
       /\ i'.opc.shape = "int8" /\ i'.p = parts.p /\ i'.opc.code1 = parts.code1
  BY <1>3, <1>10 DEF Emitted, Immediate
<1>12. g.bit \in Widths /\ (g.bit # 8 <=> r.bit # 8)
  BY <1>5, <1>6 DEF Widths
<1>13. IntSize(i') = g.bit
  <2>1. Prefixed(i'.p, g.bit) /\ (i'.opc.code1 <=> g.bit # 8)
    BY <1>7, <1>9, <1>11, <1>12
  <2>2. QED BY <1>11, <1>12, <2>1, SizedRead
<1>14. want'.imm = imm /\ IsGp(want'.rm) /\ want'.rm.bit = r.bit
  BY <1>5, <1>8, <1>10
<1>15. CASE sx
  <2>1. g.bit = 64 /\ r.bit = 64 /\ InInt32(imm) /\ i'.opc.imm = "iz"
    BY <1>6, <1>11, <1>15 DEF how
  <2>2. i'.imm.size = MinBit(g.bit, 32) \div 8
    BY <1>11, <1>15, <2>1 DEF size, MinBit
  <2>3. QED BY <1>4, <1>11, <1>12, <1>13, <1>14, <2>1, <2>2, KeptFull
<1>16. CASE ~sx
  <2>1. i'.opc.imm = "iv"
    BY <1>11, <1>16 DEF how
  <2>2. i'.imm.size = g.bit \div 8
    BY <1>6, <1>11, <1>16 DEF size
  <2>3. r.bit = g.bit \/ (r.bit = 64 /\ g.bit = 32 /\ SizeT(imm) < 2 * Half32)
    BY <1>6
  <2>4. QED BY <1>4, <1>11, <1>12, <1>13, <1>14, <2>1, <2>2, <2>3, KeptPlain
<1>17. QED BY <1>15, <1>16

LEMMA MovImmMemKeeps == ASSUME MovImmMem PROVE ImmKept(i', want')
<1>1. PICK bit \in {8, 16, 32, 64}, imm \in Imms :
        LET size == MinBit(bit, 32) \div 8
            addr == [MemOp(bit) EXCEPT !.immSize = size]
        IN  /\ bit = 64 => InInt32(imm)
            /\ OpMROk(addr, Gp(0, bit), {})
            /\ Emit([add EXCEPT !.imm = "iz"], "ext", FALSE, OpMR(addr, Gp(0, bit), {}),
                    Immediate(size, FALSE, imm), Written(NoReg, NoReg, NoReg, sum, FALSE, NoAttr, imm))
  BY ZenonT(30) DEF MovImmMem
<1> DEFINE size == MinBit(bit, 32) \div 8
           addr == [MemOp(bit) EXCEPT !.immSize = size]
           r == Gp(0, bit)
           o == [add EXCEPT !.imm = "iz"]
           parts == OpMR(addr, r, {})
           wr == Written(NoReg, NoReg, NoReg, sum, FALSE, NoAttr, imm)
<1>2. /\ bit = 64 => InInt32(imm)
      /\ OpMROk(addr, r, {})
      /\ Emit(o, "ext", FALSE, parts, Immediate(size, FALSE, imm), wr)
  BY <1>1
<1>3. o.shape = "int8" /\ o.imm = "iz"
  BY DEF add, Op
<1>4. imm \in Int /\ bit \in Widths
  BY EncodingAssumption DEF Widths
<1>5. r \in GpRegs /\ r.bit = bit
  <2>1. 0 \in 0..31
    OBVIOUS
  <2>2. Gp(0, bit) \in GpRegs
    BY <1>4 DEF GpRegs, Widths
  <2>3. Gp(0, bit).bit = bit
    BY DEF Gp
  <2>4. QED BY <2>2, <2>3
<1>6. wr.imm = imm /\ ~IsGp(wr.rm)
  <2>1. wr.imm = imm /\ wr.rm = NoReg
    BY DEF Written
  <2>2. QED BY <2>1, NoRegForm
<1> HIDE DEF o, addr, r, wr
<1>7. Prefixed(parts.p, bit) /\ (parts.code1 <=> bit # 8)
  <2>1. {} \cap {"DIFF", "F2", "F3", "66"} = {} /\ {} \subseteq {"DIFF", "ABCDH"}
    OBVIOUS
  <2>2. Prefixed(parts.p, r.bit) /\ parts.code1 = WriteCode({}, r)
    BY <1>2, <1>5, <2>1, OpMRSize
  <2>3. WriteCode({}, r) <=> r.bit # 8
    BY <2>1, WriteCodeIs
  <2>4. QED BY <1>5, <2>2, <2>3
<1> HIDE DEF parts, size
<1>8. Emitted(i', o, "ext", FALSE, parts, Immediate(size, FALSE, imm)) /\ want' = wr
  BY <1>2, EmitIs
<1>9. /\ i'.opc.imm = "iz" /\ i'.imm.size = size /\ i'.imm.value = imm
      /\ i'.opc.shape = "int8" /\ i'.p = parts.p /\ i'.opc.code1 = parts.code1
  BY <1>3, <1>8 DEF Emitted, Immediate
<1>10. IntSize(i') = bit
  <2>1. Prefixed(i'.p, bit) /\ (i'.opc.code1 <=> bit # 8)
    BY <1>7, <1>9
  <2>2. QED BY <1>4, <1>9, <2>1, SizedRead
<1>11. want'.imm = imm /\ ~IsGp(want'.rm)
  BY <1>6, <1>8
<1>12. QED BY <1>2, <1>4, <1>9, <1>10, <1>11, KeptFull DEF size

\* A byte, or none, as the mnemonic has it.
LEMMA KeptImm8 ==
  ASSUME NEW j, NEW w, NEW o, o.imm \in {"none", "ib"}, NEW imm \in Imm8(o), j.opc.imm = o.imm, j.imm = imm,
         w.imm = imm.value
  PROVE  ImmKept(j, w)
<1>1. CASE o.imm = "none"
  <2>1. imm.size = 0
    BY <1>1 DEF Imm8, NoImm
  <2>2. QED BY <1>1, <2>1, KeptNone
<1>2. CASE o.imm = "ib"
  <2>1. imm.size = 1 /\ imm.value = 5
    BY <1>2 DEF Imm8, Immediate
  <2>2. j.imm.size = 1 /\ j.imm.value \in 0..255 /\ w.imm = j.imm.value
    BY <2>1
  <2>3. QED BY <1>2, <2>2, KeptByte
<1>3. QED BY <1>1, <1>2

LEMMA KeptNoImm ==
  ASSUME NEW j, NEW w, j.opc.imm = "none", j.imm = NoImm
  PROVE  ImmKept(j, w)
<1>1. j.imm.size = 0
  BY DEF NoImm
<1>2. QED BY <1>1, KeptNone

\* What the table of vector instructions says of each.
IsVecOp(o, type, tuple, element, hasV, shape, imm, sae) ==
  /\ o.type = type /\ o.tuple = tuple /\ o.element = element /\ o.hasV = hasV
  /\ o.shape = shape /\ o.imm = imm /\ o.sae = sae

LEMMA VexOpsAre ==
  /\ IsVecOp(vaddps, vaddps.type, "full", 4, TRUE, "vec", "none", FALSE)
  /\ vaddps.type = {"0F", "W0", "YMM", "EVEX", "ER_Z", "B32"}
  /\ IsVecOp(vaddpd, vaddpd.type, "full", 8, TRUE, "vec", "none", FALSE)
  /\ vaddpd.type = {"66", "0F", "EW1", "YMM", "EVEX", "ER_Z", "B64"}
  /\ IsVecOp(vaddss, vaddss.type, "scalar", 4, TRUE, "vec", "none", FALSE)
  /\ vaddss.type = {"F3", "0F", "W0", "EVEX", "ER_X", "N4"}
  /\ IsVecOp(vmaxps, vmaxps.type, "full", 4, TRUE, "vec", "none", TRUE)
  /\ vmaxps.type = {"0F", "W0", "YMM", "EVEX", "SAE_Z", "B32"}
  /\ IsVecOp(vcvtps2pd, vcvtps2pd.type, "half", 4, FALSE, "vec", "none", FALSE)
  /\ vcvtps2pd.type = {"0F", "YMM", "EVEX", "W0", "B32", "N8", "N_VL", "SAE_Y"}
  /\ IsVecOp(vpmovzxbq, vpmovzxbq.type, "eighth", 0, FALSE, "vec", "none", FALSE)
  /\ vpmovzxbq.type = {"N2", "N_VL", "66", "0F38", "YMM", "EVEX"}
  /\ IsVecOp(vmovddup, vmovddup.type, "movddup", 0, FALSE, "vec", "none", FALSE)
  /\ vmovddup.type = {"DUP", "F2", "0F", "EW1", "YMM", "EVEX"}
  /\ IsVecOp(vextractf32x4, vextractf32x4.type, "mem128", 0, FALSE, "vec", "ib", FALSE)
  /\ vextractf32x4.type = {"N16", "66", "0F3A", "W0", "YMM", "MUST_EVEX", "M_K"}
  /\ IsVecOp(vgatherdps, vgatherdps.type, "scalar", 4, TRUE, "gather", "none", FALSE)
  /\ vgatherdps.type = {"0F38", "66", "YMM", "VSIB", "W0"}
  /\ IsVecOp(vgatherdpsEvex, vgatherdpsEvex.type, "scalar", 4, FALSE, "gather", "none", FALSE)
  /\ vgatherdpsEvex.type = {"N4", "66", "0F38", "W0", "YMM", "MUST_EVEX", "VSIB"}
<1>1. IsVecOp(vaddps, vaddps.type, "full", 4, TRUE, "vec", "none", FALSE) /\ vaddps.type = {"0F", "W0", "YMM", "EVEX", "ER_Z", "B32"}
  BY DEF vaddps, VecOp, Op, IsVecOp
<1>2. IsVecOp(vaddpd, vaddpd.type, "full", 8, TRUE, "vec", "none", FALSE) /\ vaddpd.type = {"66", "0F", "EW1", "YMM", "EVEX", "ER_Z", "B64"}
  BY DEF vaddpd, VecOp, Op, IsVecOp
<1>3. IsVecOp(vaddss, vaddss.type, "scalar", 4, TRUE, "vec", "none", FALSE) /\ vaddss.type = {"F3", "0F", "W0", "EVEX", "ER_X", "N4"}
  BY DEF vaddss, VecOp, Op, IsVecOp
<1>4. IsVecOp(vmaxps, vmaxps.type, "full", 4, TRUE, "vec", "none", TRUE) /\ vmaxps.type = {"0F", "W0", "YMM", "EVEX", "SAE_Z", "B32"}
  BY DEF vmaxps, VecOp, Op, IsVecOp
<1>5. IsVecOp(vcvtps2pd, vcvtps2pd.type, "half", 4, FALSE, "vec", "none", FALSE) /\ vcvtps2pd.type = {"0F", "YMM", "EVEX", "W0", "B32", "N8", "N_VL", "SAE_Y"}
  BY DEF vcvtps2pd, VecOp, Op, IsVecOp
<1>6. IsVecOp(vpmovzxbq, vpmovzxbq.type, "eighth", 0, FALSE, "vec", "none", FALSE) /\ vpmovzxbq.type = {"N2", "N_VL", "66", "0F38", "YMM", "EVEX"}
  BY DEF vpmovzxbq, VecOp, Op, IsVecOp
<1>7. IsVecOp(vmovddup, vmovddup.type, "movddup", 0, FALSE, "vec", "none", FALSE) /\ vmovddup.type = {"DUP", "F2", "0F", "EW1", "YMM", "EVEX"}
  BY DEF vmovddup, VecOp, Op, IsVecOp
<1>8. IsVecOp(vextractf32x4, vextractf32x4.type, "mem128", 0, FALSE, "vec", "ib", FALSE) /\ vextractf32x4.type = {"N16", "66", "0F3A", "W0", "YMM", "MUST_EVEX", "M_K"}
  BY DEF vextractf32x4, VecOp, Op, IsVecOp
<1>9. IsVecOp(vgatherdps, vgatherdps.type, "scalar", 4, TRUE, "gather", "none", FALSE) /\ vgatherdps.type = {"0F38", "66", "YMM", "VSIB", "W0"}
  BY DEF vgatherdps, VecOp, Op, IsVecOp
<1>10. IsVecOp(vgatherdpsEvex, vgatherdpsEvex.type, "scalar", 4, FALSE, "gather", "none", FALSE) /\ vgatherdpsEvex.type = {"N4", "66", "0F38", "W0", "YMM", "MUST_EVEX", "VSIB"}
  BY DEF vgatherdpsEvex, VecOp, Op, IsVecOp
<1>11. QED BY <1>1, <1>2, <1>3, <1>4, <1>5, <1>6, <1>7, <1>8, <1>9, <1>10

LEMMA OpsImm ==
  /\ \A o \in LegacyOps \cup VexOps : o.imm \in {"none", "ib"}
  /\ \A o \in VexOps : o.hasV /\ o.shape = "vec" => o.imm = "none"
  /\ add3.imm = "none" /\ cmov3.imm = "none" /\ andn.imm = "none" /\ add.imm = "none"
<1>1. \A o \in LegacyOps : o.imm \in {"none", "ib"}
  BY DEF LegacyOps, add, cmov, movzx8, movzx16, movbe, addps, pshufb, pshufd, Op
<1>2. \A o \in VexOps : o.imm \in {"none", "ib"} /\ (o.hasV /\ o.shape = "vec" => o.imm = "none")
  BY VexOpsAre DEF VexOps, IsVecOp
<1>3. add3.imm = "none" /\ cmov3.imm = "none" /\ andn.imm = "none" /\ add.imm = "none"
  BY DEF add3, cmov3, andn, add, Op
<1>4. QED BY <1>1, <1>2, <1>3

LEMMA LegacyMKeeps == ASSUME LegacyM PROVE ImmKept(i', want')
<1>1. PICK o \in LegacyOps, load \in BOOLEAN : \E r \in LegacyRegs(o), imm \in Imm8(o) :
        \E oo, p, w : (oo = o \/ oo = [o EXCEPT !.type = {"APX"}]) /\ w.imm = imm.value /\ Emit(oo, "modrm", load, p, imm, w)
  <2>1. PICK o \in LegacyOps, load \in BOOLEAN : (load \/ o = add) /\ \E r \in LegacyRegs(o), imm \in Imm8(o) :
          \E bit \in SourceSizes(o, r) :
          LET addr == [MemOp(bit) EXCEPT !.immSize = imm.size]
              apx == o = movbe /\ OpROOApplies(NoReg, addr, r, {"APX"})
              parts == IF apx THEN OpROO(NoReg, addr, r, {"APX"}, 0) ELSE OpMR(addr, r, o.type)
          IN  /\ IF apx THEN OpROOOk(addr, r, {"APX"}) ELSE OpMROk(addr, r, o.type)
              /\ Emit(IF apx THEN [o EXCEPT !.type = {"APX"}] ELSE o, "modrm", load, parts, imm,
                      Written(r, NoReg, NoReg, sum, load, NoAttr, imm.value))
    BY DEF LegacyM
  <2>2. PICK r \in LegacyRegs(o), imm \in Imm8(o) : \E bit \in SourceSizes(o, r) :
          LET addr == [MemOp(bit) EXCEPT !.immSize = imm.size]
              apx == o = movbe /\ OpROOApplies(NoReg, addr, r, {"APX"})
              parts == IF apx THEN OpROO(NoReg, addr, r, {"APX"}, 0) ELSE OpMR(addr, r, o.type)
          IN  /\ IF apx THEN OpROOOk(addr, r, {"APX"}) ELSE OpMROk(addr, r, o.type)
              /\ Emit(IF apx THEN [o EXCEPT !.type = {"APX"}] ELSE o, "modrm", load, parts, imm,
                      Written(r, NoReg, NoReg, sum, load, NoAttr, imm.value))
    BY <2>1
  <2>3. PICK bit \in SourceSizes(o, r) :
          LET addr == [MemOp(bit) EXCEPT !.immSize = imm.size]
              apx == o = movbe /\ OpROOApplies(NoReg, addr, r, {"APX"})
              parts == IF apx THEN OpROO(NoReg, addr, r, {"APX"}, 0) ELSE OpMR(addr, r, o.type)
          IN  /\ IF apx THEN OpROOOk(addr, r, {"APX"}) ELSE OpMROk(addr, r, o.type)
              /\ Emit(IF apx THEN [o EXCEPT !.type = {"APX"}] ELSE o, "modrm", load, parts, imm,
                      Written(r, NoReg, NoReg, sum, load, NoAttr, imm.value))
    BY <2>2
  <2> DEFINE addr == [MemOp(bit) EXCEPT !.immSize = imm.size]
             apx == o = movbe /\ OpROOApplies(NoReg, addr, r, {"APX"})
             parts == IF apx THEN OpROO(NoReg, addr, r, {"APX"}, 0) ELSE OpMR(addr, r, o.type)
             oo == IF apx THEN [o EXCEPT !.type = {"APX"}] ELSE o
             w == Written(r, NoReg, NoReg, sum, load, NoAttr, imm.value)
  <2>4. Emit(oo, "modrm", load, parts, imm, w)
    BY <2>3
  <2>5. w.imm = imm.value
    BY DEF Written
  <2>6. oo = o \/ oo = [o EXCEPT !.type = {"APX"}]
    OBVIOUS
  <2> HIDE DEF addr, apx, parts, oo, w
  <2>7. QED BY <2>4, <2>5, <2>6
<1>2. PICK r \in LegacyRegs(o), imm \in Imm8(o) :
        \E oo, p, w : (oo = o \/ oo = [o EXCEPT !.type = {"APX"}]) /\ w.imm = imm.value /\ Emit(oo, "modrm", load, p, imm, w)
  BY <1>1
<1>3. PICK oo, p, w : (oo = o \/ oo = [o EXCEPT !.type = {"APX"}]) /\ w.imm = imm.value /\ Emit(oo, "modrm", load, p, imm, w)
  BY <1>2
<1>4. Emitted(i', oo, "modrm", load, p, imm) /\ want' = w
  BY <1>3, EmitIs
<1>5. oo.imm = o.imm
  <2>1. [o EXCEPT !.type = {"APX"}].imm = o.imm
    OBVIOUS
  <2>2. QED BY <1>3, <2>1
<1>6. i'.opc.imm = o.imm /\ i'.imm = imm /\ want'.imm = imm.value
  BY <1>3, <1>4, <1>5 DEF Emitted
<1>7. o.imm \in {"none", "ib"}
  BY OpsImm
<1>8. QED BY <1>6, <1>7, KeptImm8

LEMMA LegacyRKeeps == ASSUME LegacyR PROVE ImmKept(i', want')
<1>1. PICK o \in LegacyOps \ {movbe} : \E r1 \in LegacyRegs(o), r2 \in Gps \cup Vecs, imm \in Imm8(o) :
        Emit(o, "modrm", FALSE, OpRR(r1, r2, o.type), imm, Written(r1, NoReg, r2, None, FALSE, NoAttr, imm.value))
  BY DEF LegacyR
<1>2. PICK r1 \in LegacyRegs(o), r2 \in Gps \cup Vecs, imm \in Imm8(o) :
        Emit(o, "modrm", FALSE, OpRR(r1, r2, o.type), imm, Written(r1, NoReg, r2, None, FALSE, NoAttr, imm.value))
  BY <1>1
<1> DEFINE w == Written(r1, NoReg, r2, None, FALSE, NoAttr, imm.value)
<1>3. Emitted(i', o, "modrm", FALSE, OpRR(r1, r2, o.type), imm) /\ want' = w
  BY <1>2, EmitIs
<1>4. i'.opc.imm = o.imm /\ i'.imm = imm /\ want'.imm = imm.value
  BY <1>3 DEF Emitted, Written
<1>5. o.imm \in {"none", "ib"}
  BY OpsImm
<1>6. QED BY <1>4, <1>5, KeptImm8

LEMMA VectorMKeeps == ASSUME VectorM PROVE ImmKept(i', want')
<1>1. PICK o \in VexOps, a \in MemAttrs : \E r \in VexRegs(o), imm \in Imm8(o) :
        \E parts, w : w.imm = imm.value /\ Emit(o, "modrm", TRUE, parts, imm, w)
  <2>1. PICK o \in VexOps, a \in MemAttrs : \E r \in VexRegs(o), imm \in Imm8(o) :
          \E v \in IF o.hasV THEN SameBit(Vecs, r.bit) ELSE {NoReg} :
          LET addr == Address(0, a.broadcast, IF a.onMem THEN a.mask ELSE 0, expr)
              attr == [NoAttr EXCEPT !.mask = IF a.onMem THEN 0 ELSE a.mask, !.zero = a.zero]
              vv == IF o.hasV THEN v ELSE Vec(0, r.bit)
          IN  /\ o.shape = "gather" =>
                   /\ IsVsib(expr) /\ expr.index.bit = r.bit /\ expr.index.idx # r.idx
                   /\ IF o.hasV THEN attr.mask = 0 /\ r.bit < 512 /\ v.idx \notin {r.idx, expr.index.idx}
                      ELSE attr.mask # 0 /\ ~a.zero
              /\ OpVexOk(r, vv, addr, o.type, attr)
              /\ Emit(o, "modrm", TRUE, OpVex(r, vv, addr, o.type, attr, imm.size), imm,
                      Written(r, v, NoReg, sum, TRUE,
                              [NoAttr EXCEPT !.broadcast = a.broadcast, !.mask = a.mask, !.zero = a.zero /\ a.mask # 0],
                              imm.value))
    BY DEF VectorM
  <2>2. PICK r \in VexRegs(o), imm \in Imm8(o) :
          \E v \in IF o.hasV THEN SameBit(Vecs, r.bit) ELSE {NoReg} :
          LET addr == Address(0, a.broadcast, IF a.onMem THEN a.mask ELSE 0, expr)
              attr == [NoAttr EXCEPT !.mask = IF a.onMem THEN 0 ELSE a.mask, !.zero = a.zero]
              vv == IF o.hasV THEN v ELSE Vec(0, r.bit)
          IN  /\ o.shape = "gather" =>
                   /\ IsVsib(expr) /\ expr.index.bit = r.bit /\ expr.index.idx # r.idx
                   /\ IF o.hasV THEN attr.mask = 0 /\ r.bit < 512 /\ v.idx \notin {r.idx, expr.index.idx}
                      ELSE attr.mask # 0 /\ ~a.zero
              /\ OpVexOk(r, vv, addr, o.type, attr)
              /\ Emit(o, "modrm", TRUE, OpVex(r, vv, addr, o.type, attr, imm.size), imm,
                      Written(r, v, NoReg, sum, TRUE,
                              [NoAttr EXCEPT !.broadcast = a.broadcast, !.mask = a.mask, !.zero = a.zero /\ a.mask # 0],
                              imm.value))
    BY <2>1
  <2>3. PICK v \in IF o.hasV THEN SameBit(Vecs, r.bit) ELSE {NoReg} :
          LET addr == Address(0, a.broadcast, IF a.onMem THEN a.mask ELSE 0, expr)
              attr == [NoAttr EXCEPT !.mask = IF a.onMem THEN 0 ELSE a.mask, !.zero = a.zero]
              vv == IF o.hasV THEN v ELSE Vec(0, r.bit)
          IN  /\ o.shape = "gather" =>
                   /\ IsVsib(expr) /\ expr.index.bit = r.bit /\ expr.index.idx # r.idx
                   /\ IF o.hasV THEN attr.mask = 0 /\ r.bit < 512 /\ v.idx \notin {r.idx, expr.index.idx}
                      ELSE attr.mask # 0 /\ ~a.zero
              /\ OpVexOk(r, vv, addr, o.type, attr)
              /\ Emit(o, "modrm", TRUE, OpVex(r, vv, addr, o.type, attr, imm.size), imm,
                      Written(r, v, NoReg, sum, TRUE,
                              [NoAttr EXCEPT !.broadcast = a.broadcast, !.mask = a.mask, !.zero = a.zero /\ a.mask # 0],
                              imm.value))
    BY <2>2
  <2> DEFINE addr == Address(0, a.broadcast, IF a.onMem THEN a.mask ELSE 0, expr)
             attr == [NoAttr EXCEPT !.mask = IF a.onMem THEN 0 ELSE a.mask, !.zero = a.zero]
             vv == IF o.hasV THEN v ELSE Vec(0, r.bit)
             parts == OpVex(r, vv, addr, o.type, attr, imm.size)
             at == [NoAttr EXCEPT !.broadcast = a.broadcast, !.mask = a.mask, !.zero = a.zero /\ a.mask # 0]
             w == Written(r, v, NoReg, sum, TRUE, at, imm.value)
  <2>4. Emit(o, "modrm", TRUE, parts, imm, w)
    BY <2>3
  <2> HIDE DEF at, parts
  <2>5. w.imm = imm.value
    BY DEF Written
  <2> HIDE DEF w
  <2>6. QED BY <2>4, <2>5
<1>2. PICK r \in VexRegs(o), imm \in Imm8(o) :
        \E parts, w : w.imm = imm.value /\ Emit(o, "modrm", TRUE, parts, imm, w)
  BY <1>1
<1>3. PICK parts, w : w.imm = imm.value /\ Emit(o, "modrm", TRUE, parts, imm, w)
  BY <1>2
<1>4. Emitted(i', o, "modrm", TRUE, parts, imm) /\ want' = w
  BY <1>3, EmitIs
<1>5. i'.opc.imm = o.imm /\ i'.imm = imm /\ want'.imm = imm.value
  BY <1>3, <1>4 DEF Emitted
<1>6. o.imm \in {"none", "ib"}
  BY OpsImm
<1>7. QED BY <1>5, <1>6, KeptImm8

\* Instructions without an immediate.
LEMMA KeptBare ==
  ASSUME NEW o, NEW field, NEW dir, NEW parts, NEW w, Emit(o, field, dir, parts, NoImm, w), o.imm = "none"
  PROVE  ImmKept(i', want')
<1>1. Emitted(i', o, field, dir, parts, NoImm)
  BY EmitIs
<1>2. i'.opc.imm = "none" /\ i'.imm = NoImm
  BY <1>1 DEF Emitted
<1>3. QED BY <1>2, KeptNoImm

LEMMA VectorRKeeps == ASSUME VectorR PROVE ImmKept(i', want')
<1>1. PICK o \in {x \in VexOps : x.hasV /\ x.shape = "vec"}, attr \in RegAttrs :
        \E r \in VexRegs(o) : \E v, r2 \in SameBit(Vecs, r.bit) :
          Emit(o, "modrm", TRUE, OpVex(r, v, r2, o.type, attr, 0), NoImm,
               Written(r, v, r2, None, TRUE,
                       [NoAttr EXCEPT !.mask = attr.mask, !.zero = attr.zero /\ attr.mask # 0, !.rnd = attr.rnd], 0))
  BY ZenonT(30) DEF VectorR
<1>2. PICK r \in VexRegs(o) : \E v, r2 \in SameBit(Vecs, r.bit) :
          Emit(o, "modrm", TRUE, OpVex(r, v, r2, o.type, attr, 0), NoImm,
               Written(r, v, r2, None, TRUE,
                       [NoAttr EXCEPT !.mask = attr.mask, !.zero = attr.zero /\ attr.mask # 0, !.rnd = attr.rnd], 0))
  BY <1>1
<1>3. \E parts, w : Emit(o, "modrm", TRUE, parts, NoImm, w)
  BY <1>2
<1>4. o.imm = "none"
  BY OpsImm
<1>5. QED BY <1>3, <1>4, KeptBare

LEMMA ThreeMKeeps == ASSUME ThreeM PROVE ImmKept(i', want')
<1>1. PICK o \in {add3, cmov3} : \E dir, parts, w : Emit(o, "modrm", dir, parts, NoImm, w)
  BY DEF ThreeM
<1>2. o.imm = "none"
  BY OpsImm
<1>3. QED BY <1>1, <1>2, KeptBare

LEMMA ThreeRKeeps == ASSUME ThreeR PROVE ImmKept(i', want')
<1>1. PICK o \in {add3, cmov3} : \E dir, parts, w : Emit(o, "modrm", dir, parts, NoImm, w)
  BY DEF ThreeR
<1>2. o.imm = "none"
  BY OpsImm
<1>3. QED BY <1>1, <1>2, KeptBare

LEMMA VexGpKeeps == ASSUME VexGp PROVE ImmKept(i', want')
<1>1. PICK type, parts, w : Emit([andn EXCEPT !.type = type], "modrm", TRUE, parts, NoImm, w)
  <2>1. PICK d \in SameBit(Gps, 32) \cup SameBit(Gps, 64) : \E r1 \in SameBit(Gps, d.bit), op \in RmOps({0, d.bit}) :
          LET type == andn.type \cup {IF d.bit = 64 THEN "W1" ELSE "W0"}
              apx == HasRex2(d) \/ HasRex2(r1) \/ OpHasRex2(op)
              w == Written(d, r1, IF IsMem(op) THEN NoReg ELSE op, IF IsMem(op) THEN sum ELSE None, TRUE, NoAttr, 0)
          IN  /\ IF apx THEN OpROOOk(op, d, type) ELSE OpVexOk(d, r1, op, type, NoAttr)
              /\ Emit([andn EXCEPT !.type = type], "modrm", TRUE,
                      IF apx THEN OpROO(r1, op, d, type, 0) ELSE OpVex(d, r1, op, type, NoAttr, 0), NoImm, w)
    BY DEF VexGp
  <2> DEFINE type == andn.type \cup {IF d.bit = 64 THEN "W1" ELSE "W0"}
  <2>2. \E parts, w : Emit([andn EXCEPT !.type = type], "modrm", TRUE, parts, NoImm, w)
    BY <2>1
  <2> HIDE DEF type
  <2>3. QED BY <2>2
<1> DEFINE o == [andn EXCEPT !.type = type]
<1>2. o.imm = "none"
  BY DEF andn, Op
<1> HIDE DEF o
<1>3. Emit(o, "modrm", TRUE, parts, NoImm, w)
  BY <1>1 DEF o
<1>4. QED BY <1>2, <1>3, KeptBare

LEMMA MovMoffsKeeps == ASSUME MovMoffs PROVE ImmKept(i', want')
<1>1. PICK dir, parts, w : Emit(add, "acc", dir, parts, NoImm, w)
  BY DEF MovMoffs
<1>2. QED BY <1>1, OpsImm, KeptBare

LEMMA PushKeeps == ASSUME Push PROVE ImmKept(i', want')
<1>1. PICK parts, w : Emit(Op("push", {}), "opcode", FALSE, parts, NoImm, w)
  BY ZenonT(30) DEF Push
<1>2. Op("push", {}).imm = "none"
  BY DEF Op
<1>3. QED BY <1>1, <1>2, KeptBare

LEMMA ShiftKeeps == ASSUME Shift PROVE ImmKept(i', want')
<1>1. PICK d \in Gps \cup {NoReg}, imm \in {1, 3} : \E op \in RmOps(IF IsGp(d) THEN {d.bit} ELSE {8, 16, 32, 64}) :
        LET type == {"APX", "CODE1", "NF"} \cup (IF IsGp(d) THEN {"ND1"} ELSE {})
            size == IF imm = 1 THEN 0 ELSE 1
        IN  Emit([Op("int8", type) EXCEPT !.imm = IF imm = 1 THEN "none" ELSE "ib"], "ext", FALSE,
                 OpRext(op, ext, type, d, size), Immediate(size, FALSE, imm), WrittenRm(d, op, imm))
  BY ZenonT(30) DEF Shift
<1>2. PICK op \in RmOps(IF IsGp(d) THEN {d.bit} ELSE {8, 16, 32, 64}) :
        LET type == {"APX", "CODE1", "NF"} \cup (IF IsGp(d) THEN {"ND1"} ELSE {})
            size == IF imm = 1 THEN 0 ELSE 1
        IN  Emit([Op("int8", type) EXCEPT !.imm = IF imm = 1 THEN "none" ELSE "ib"], "ext", FALSE,
                 OpRext(op, ext, type, d, size), Immediate(size, FALSE, imm), WrittenRm(d, op, imm))
  BY <1>1
<1> DEFINE type == {"APX", "CODE1", "NF"} \cup (IF IsGp(d) THEN {"ND1"} ELSE {})
           size == IF imm = 1 THEN 0 ELSE 1
           how == IF imm = 1 THEN "none" ELSE "ib"
           o == [Op("int8", type) EXCEPT !.imm = how]
           parts == OpRext(op, ext, type, d, size)
           w == WrittenRm(d, op, imm)
<1>3. Emit(o, "ext", FALSE, parts, Immediate(size, FALSE, imm), w)
  BY <1>2
<1>4. o.imm = how
  BY DEF Op
<1>5. w.imm = imm
  BY WrittenRmIs
<1> HIDE DEF type, o, parts, w
<1>6. Emitted(i', o, "ext", FALSE, parts, Immediate(size, FALSE, imm)) /\ want' = w
  BY <1>3, EmitIs
<1>7. i'.opc.imm = how /\ i'.imm.size = size /\ i'.imm.value = imm /\ want'.imm = imm
  BY <1>4, <1>5, <1>6 DEF Emitted, Immediate
<1>8. CASE imm = 1
  BY <1>7, <1>8, KeptNone
<1>9. CASE imm = 3
  <2>1. i'.opc.imm = "ib" /\ i'.imm.size = 1 /\ i'.imm.value \in 0..255 /\ want'.imm = i'.imm.value
    BY <1>7, <1>9
  <2>2. QED BY <2>1, KeptByte
<1>10. QED BY <1>8, <1>9

LEMMA ShxdKeeps == ASSUME Shxd PROVE ImmKept(i', want')
<1>1. PICK d \in Gps \cup {NoReg}, r \in Gps : \E op \in RmOps({r.bit}) :
        LET type == {"APX", "NF"} \cup (IF IsGp(d) THEN {"ND1"} ELSE {})
            apx == OpROOApplies(d, op, r, type)
            o == [Op("int", IF apx THEN type ELSE {"0F"}) EXCEPT !.imm = "ib"]
            sized == IF IsMem(op) THEN [op EXCEPT !.immSize = 1] ELSE op
        IN  /\ r.bit > 8 /\ (IsGp(d) => d.bit = r.bit)
            /\ IF apx THEN OpROOOk(op, r, type) ELSE IF IsMem(op) THEN OpMROk(sized, r, o.type) ELSE OpRROk(r, op, o.type)
            /\ Emit(o, "modrm", FALSE,
                    IF apx THEN OpROO(d, op, r, type, 1)
                    ELSE IF IsMem(op) THEN OpMR(sized, r, o.type) ELSE OpRR(r, op, o.type),
                    Immediate(1, FALSE, 3), [WrittenRm(d, op, 3) EXCEPT !.reg = r])
  BY DEF Shxd
<1>2. PICK op \in RmOps({r.bit}) :
        LET type == {"APX", "NF"} \cup (IF IsGp(d) THEN {"ND1"} ELSE {})
            apx == OpROOApplies(d, op, r, type)
            o == [Op("int", IF apx THEN type ELSE {"0F"}) EXCEPT !.imm = "ib"]
            sized == IF IsMem(op) THEN [op EXCEPT !.immSize = 1] ELSE op
        IN  /\ r.bit > 8 /\ (IsGp(d) => d.bit = r.bit)
            /\ IF apx THEN OpROOOk(op, r, type) ELSE IF IsMem(op) THEN OpMROk(sized, r, o.type) ELSE OpRROk(r, op, o.type)
            /\ Emit(o, "modrm", FALSE,
                    IF apx THEN OpROO(d, op, r, type, 1)
                    ELSE IF IsMem(op) THEN OpMR(sized, r, o.type) ELSE OpRR(r, op, o.type),
                    Immediate(1, FALSE, 3), [WrittenRm(d, op, 3) EXCEPT !.reg = r])
  BY <1>1
<1>3. PICK type, parts :
        Emit([Op("int", type) EXCEPT !.imm = "ib"], "modrm", FALSE, parts, Immediate(1, FALSE, 3),
             [WrittenRm(d, op, 3) EXCEPT !.reg = r])
  BY <1>2
<1> DEFINE o == [Op("int", type) EXCEPT !.imm = "ib"]
           w == [WrittenRm(d, op, 3) EXCEPT !.reg = r]
<1>4. o.imm = "ib"
  BY DEF Op
<1>5. w.imm = 3
  BY DEF WrittenRm, Written
<1> HIDE DEF o, w
<1>6. Emit(o, "modrm", FALSE, parts, Immediate(1, FALSE, 3), w)
  BY <1>3 DEF o, w
<1>7. Emitted(i', o, "modrm", FALSE, parts, Immediate(1, FALSE, 3)) /\ want' = w
  BY <1>6, EmitIs
<1>8. i'.opc.imm = "ib" /\ i'.imm.size = 1 /\ i'.imm.value = 3 /\ want'.imm = 3
  BY <1>4, <1>5, <1>7 DEF Emitted, Immediate
<1>9. i'.imm.value \in 0..255 /\ want'.imm = i'.imm.value
  BY <1>8
<1>10. QED BY <1>8, <1>9, KeptByte

-----------------------------------------------------------------------------
LEMMA InvImmediate == Spec => []ImmediateKept
<1>1. Init => ImmediateKept
  BY DEF Init, ImmediateKept
<1>2. ImmKept(i, want) => ImmediateKept
  BY DEF ImmKept, ImmediateKept, WrittenBit
<1>3. ASSUME ImmKept(i', want') PROVE ImmediateKept'
  BY <1>3 DEF ImmKept, ImmediateKept, WrittenBit
<1>4. ImmediateKept /\ [Next]_vars => ImmediateKept'
  <2> SUFFICES ASSUME ImmediateKept, [Next]_vars PROVE ImmediateKept'
    OBVIOUS
  <2>1. CASE UNCHANGED <<i, want>>
    BY <2>1 DEF ImmediateKept, WrittenBit
  <2>2. CASE i' = None
    BY <2>2 DEF ImmediateKept
  <2>3. UNCHANGED <<i, want>> \/ i' = None \/ ImmKept(i', want')
    <3>1. CASE Start \/ Extend \/ Subtract \/ UNCHANGED vars
      BY <3>1 DEF Start, Extend, Subtract, vars
    <3>2. CASE Continue
      BY <3>2 DEF Continue
    <3>3. CASE LegacyM \/ LegacyR \/ VectorM \/ VectorR \/ ThreeM \/ ThreeR \/ VexGp
      BY <3>3, LegacyMKeeps, LegacyRKeeps, VectorMKeeps, VectorRKeeps, ThreeMKeeps, ThreeRKeeps, VexGpKeeps
    <3>4. CASE ArithImm \/ TestImm \/ Arith3Imm \/ ImulImm \/ Shift \/ Shxd
      BY <3>4, ArithImmKeeps, TestImmKeeps, Arith3ImmKeeps, ImulImmKeeps, ShiftKeeps, ShxdKeeps
    <3>5. CASE MovImmReg \/ MovImmMem \/ MovMoffs \/ Push
      BY <3>5, MovImmRegKeeps, MovImmMemKeeps, MovMoffsKeeps, PushKeeps
    <3>6. QED BY <3>1, <3>2, <3>3, <3>4, <3>5 DEF Next
  <2>4. QED BY <1>3, <2>1, <2>2, <2>3
<1>5. QED BY <1>1, <1>4, PTL DEF Spec

\* As many bytes of immediate follow an instruction as the processor reads, and
\* the value that it makes of them is the one written, for every register,
\* address and value: getImmBit, opOI, opROI, test, imul and mov_imm choose a
\* short form only where the sign extension gives the number back (xbyak.h).
THEOREM ImmediatesAreKept == Spec => []ImmediateKept
BY InvImmediate, PTL

\* What setModRM writes.
ModRMFields(m, mod, reg, rm) ==
  /\ m.present = TRUE /\ m.mod = mod /\ m.reg = reg % 8 /\ m.rm = rm % 8 /\ m.sib = FALSE
  /\ m.ss = 0 /\ m.index = 0 /\ m.base = 0 /\ m.size = 0 /\ m.disp = 0 /\ m.label = FALSE

LEMMA SetModRMIs ==
  ASSUME NEW mod, NEW reg, NEW rm
  PROVE  ModRMFields(SetModRM(mod, reg, rm), mod, reg, rm)
<1> DEFINE r == reg % 8
           b == rm % 8
<1>1. PICK m : m = SetModRM(mod, reg, rm)
  OBVIOUS
<1>2. m = [NoModRM EXCEPT !.present = TRUE, !.mod = mod, !.reg = r, !.rm = b]
  BY <1>1 DEF SetModRM
<1> HIDE DEF r, b
<1>3. /\ m.present = TRUE /\ m.mod = mod /\ m.reg = r /\ m.rm = b /\ m.sib = FALSE
      /\ m.ss = 0 /\ m.index = 0 /\ m.base = 0 /\ m.size = 0 /\ m.disp = 0 /\ m.label = FALSE
  BY <1>2 DEF NoModRM
<1>4. QED BY <1>1, <1>3 DEF r, b, ModRMFields

\* What setSIB writes.
SibFields(m, e, mod, disp, addr, reg) ==
  /\ m.present = TRUE /\ m.mod = mod /\ m.reg = reg % 8
  /\ m.rm = (IF HasSIB(e) THEN ESP ELSE LowBase(e)) % 8
  /\ m.sib = HasSIB(e) /\ m.base = IF HasSIB(e) THEN LowBase(e) ELSE 0
  /\ m.index = IF ~HasSIB(e) THEN 0 ELSE IF HasIndex(e) THEN e.index.idx % 8 ELSE ESP
  /\ m.ss = IF ~HasSIB(e) THEN 0 ELSE ScaleBits(e)
  /\ m.size = DispField(e, disp, addr, mod).size /\ m.disp = DispField(e, disp, addr, mod).disp
  /\ m.label = e.label

LEMMA SetSIBIs ==
  ASSUME NEW addr, NEW reg, NEW e, e = GetRegExp(addr),
         NEW disp, disp = Signed(e.disp, Half32), NEW mod, mod = SibMod(e, disp, addr)
  PROVE  SibFields(SetSIB(addr, reg), e, mod, disp, addr, reg)
<1> DEFINE rm == IF HasSIB(e) THEN ESP ELSE LowBase(e)
           r == reg % 8
           b == rm % 8
           base == IF HasSIB(e) THEN LowBase(e) ELSE 0
           index == IF ~HasSIB(e) THEN 0 ELSE IF HasIndex(e) THEN e.index.idx % 8 ELSE ESP
           ss == IF ~HasSIB(e) THEN 0 ELSE ScaleBits(e)
           f == DispField(e, disp, addr, mod)
<1>1. PICK m : m = SetSIB(addr, reg)
  OBVIOUS
<1>2. m = [[NoModRM EXCEPT !.present = TRUE, !.mod = mod, !.reg = r, !.rm = b]
             EXCEPT !.sib = HasSIB(e), !.base = base, !.index = index, !.ss = ss,
                    !.size = f.size, !.disp = f.disp, !.label = e.label]
  BY <1>1 DEF SetSIB, SetModRM
<1> HIDE DEF rm, r, b, base, index, ss, f
<1>3. /\ m.present = TRUE /\ m.mod = mod /\ m.reg = r /\ m.rm = b
      /\ m.sib = HasSIB(e) /\ m.base = base /\ m.index = index /\ m.ss = ss
      /\ m.size = f.size /\ m.disp = f.disp /\ m.label = e.label
  BY <1>2 DEF NoModRM
<1>4. QED BY <1>1, <1>3 DEF rm, r, b, base, index, ss, f, SibFields

-----------------------------------------------------------------------------
(* How an address is read.                                                 *)

\* The registers of an optimized RegExp, and the bits of the prefix for them.
Tidy(e) ==
  /\ e.base \in GpRegs \cup {NoReg} /\ e.index \in AllRegs
  /\ e.base # NoReg => e.base = Gp(e.base.idx, e.base.bit)
  /\ IsGp(e.index) => e.index = Gp(e.index.idx, e.index.bit) /\ e.index.idx # ESP
  /\ e.index # NoReg => e.scale \in {1, 2, 4, 8}

Reaches(p, e) ==
  /\ p.B3 = IsExtIdx(e.base) /\ p.B4 = IsExtIdx2(e.base)
  /\ p.X3 = IsExtIdx(e.index) /\ p.X4 = (IsGp(e.index) /\ IsExtIdx2(e.index))

LEMMA SibModIs ==
  ASSUME NEW e, NEW disp, NEW addr, NEW mod, mod = SibMod(e, disp, addr)
  PROVE  /\ mod \in {0, 1, 2}
         /\ mod = 0 => e.base = NoReg \/ (e.base.idx % 8 # 5 /\ ~e.label /\ disp = 0)
         /\ e.base = NoReg => mod = 0
         /\ mod = 1 => Fits8(addr) /\ ~e.label
<1>1. CASE ~HasBase(e) \/ (e.base.idx % 8 # EBP /\ ~e.label /\ disp = 0)
  <2>1. mod = 0
    BY <1>1 DEF SibMod
  <2>2. QED BY <1>1, <2>1 DEF HasBase, EBP
<1>2. CASE ~(~HasBase(e) \/ (e.base.idx % 8 # EBP /\ ~e.label /\ disp = 0))
  <2>1. e.base # NoReg
    BY <1>2 DEF HasBase
  <2>2. CASE HasBase(e) /\ ~e.label /\ ~(e.base.idx % 8 # EBP /\ disp = 0) /\ Fits8(addr)
    <3>1. mod = 1
      BY <1>2, <2>2 DEF SibMod
    <3>2. QED BY <2>1, <2>2, <3>1
  <2>3. CASE ~(HasBase(e) /\ ~e.label /\ ~(e.base.idx % 8 # EBP /\ disp = 0) /\ Fits8(addr))
    <3>1. mod = 2
      BY <1>2, <2>3 DEF SibMod
    <3>2. QED BY <2>1, <3>1
  <2>4. QED BY <2>2, <2>3
<1>3. QED BY <1>1, <1>2

LEMMA SibBase ==
  ASSUME NEW e, Tidy(e), NEW j, NEW disp, NEW addr, NEW reg, NEW mod, mod = SibMod(e, disp, addr),
         SibFields(j.m, e, mod, disp, addr, reg), Reaches(j.p, e),
         e.base # NoReg => AddressBit(j) = e.base.bit
  PROVE  BaseRead(j) = e.base /\ ~RipRelative(j)
<1>1. /\ mod = 0 => e.base = NoReg \/ e.base.idx % 8 # 5
      /\ e.base = NoReg => mod = 0
  BY SibModIs
<1>2. /\ j.m.present = TRUE /\ j.m.mod = mod /\ j.m.rm = (IF HasSIB(e) THEN ESP ELSE LowBase(e)) % 8
      /\ j.m.sib = HasSIB(e) /\ j.m.base = IF HasSIB(e) THEN LowBase(e) ELSE 0
  BY DEF SibFields
<1>3. CASE e.base = NoReg
  <2>1. HasSIB(e) /\ LowBase(e) = 5
    BY <1>3 DEF HasSIB, LowBase, HasBase, EBP
  <2>2. j.m.sib /\ j.m.base = 5 /\ j.m.mod = 0
    BY <1>1, <1>2, <1>3, <2>1
  <2>3. QED BY <1>3, <2>2 DEF BaseRead, RipRelative
<1>4. CASE e.base # NoReg
  <2> DEFINE n == e.base.idx
             low == n % 8
  <2>1. e.base \in GpRegs /\ n \in 0..31 /\ e.base = Gp(n, e.base.bit)
    BY <1>4, GpForm DEF Tidy
  <2>2. low \in 0..7 /\ low + Bit(IsExtIdx(e.base), 8) + Bit(IsExtIdx2(e.base), 16) = n
    BY <2>1, NumberBits
  <2>3. LowBase(e) = low
    BY <1>4 DEF LowBase, HasBase
  <2> HIDE DEF low, n
  <2>4. (IF j.m.sib THEN j.m.base ELSE j.m.rm) = low
    <3>1. low % 8 = low
      BY <2>2
    <3>2. QED BY <1>2, <2>3, <3>1
  <2>5. low = 5 => j.m.mod # 0
    BY <1>1, <1>2, <1>4 DEF low, n
  <2>6. BaseRead(j) = Gp(low + Bit(j.p.B3, 8) + Bit(j.p.B4, 16), AddressBit(j))
    BY <1>2, <2>4, <2>5 DEF BaseRead
  <2>7. j.p.B3 = IsExtIdx(e.base) /\ j.p.B4 = IsExtIdx2(e.base)
    BY DEF Reaches
  <2>8. BaseRead(j) = Gp(n, e.base.bit)
    BY <1>4, <2>2, <2>6, <2>7
  <2>9. ~RipRelative(j)
    BY <2>4, <2>5 DEF RipRelative
  <2>10. QED BY <2>1, <2>8, <2>9
<1>5. QED BY <1>3, <1>4

LEMMA SibIndex ==
  ASSUME NEW e, Tidy(e), NEW j, NEW disp, NEW addr, NEW reg, NEW mod,
         SibFields(j.m, e, mod, disp, addr, reg), Reaches(j.p, e),
         IsVec(e.index) <=> j.opc.shape = "gather",
         IsGp(e.index) => AddressBit(j) = e.index.bit,
         IsVec(e.index) => VecSize(j) = e.index.bit /\ (j.p.V4 <=> IsExtIdx2(e.index))
  PROVE  IndexRead(j) = e.index /\ (e.index # NoReg => 2^j.m.ss = e.scale)
<1>1. /\ j.m.sib = HasSIB(e)
      /\ j.m.index = IF ~HasSIB(e) THEN 0 ELSE IF HasIndex(e) THEN e.index.idx % 8 ELSE ESP
      /\ j.m.ss = IF ~HasSIB(e) THEN 0 ELSE ScaleBits(e)
  BY DEF SibFields
<1>2. j.p.X3 = IsExtIdx(e.index) /\ j.p.X4 = (IsGp(e.index) /\ IsExtIdx2(e.index))
  BY DEF Reaches
<1>3. CASE e.index = NoReg
  <2>1. ~IsExtIdx(e.index) /\ ~IsGp(e.index) /\ ~IsVec(e.index)
    BY <1>3, NoRegForm
  <2>2. ~j.p.X3 /\ ~j.p.X4 /\ j.opc.shape # "gather"
    BY <1>2, <2>1
  <2>3. j.m.sib => j.m.index = 4
    BY <1>1, <1>3 DEF HasIndex, ESP
  <2>4. j.m.sib => j.m.index + Bit(j.p.X3, 8) = 4
    BY <2>2, <2>3 DEF Bit
  <2>5. j.m.sib \in BOOLEAN
    BY <1>1 DEF HasSIB, HasIndex
  <2>6. CASE ~j.m.sib
    BY <1>3, <2>6 DEF IndexRead
  <2>7. CASE j.m.sib
    BY <1>3, <2>2, <2>4, <2>7 DEF IndexRead
  <2>8. QED BY <1>3, <2>5, <2>6, <2>7
<1>4. CASE e.index # NoReg
  <2> DEFINE n == e.index.idx
             low == n % 8
             low2 == n % 16
  <2>1. j.m.sib = TRUE /\ j.m.index = low /\ j.m.ss = ScaleBits(e)
    BY <1>1, <1>4 DEF HasSIB, HasIndex
  <2>2. n \in 0..31
    BY RegIndex DEF Tidy
  <2>3. /\ low \in 0..7 /\ low2 \in 0..15 /\ low + Bit(IsExtIdx(e.index), 8) = low2
        /\ low2 + Bit(IsExtIdx2(e.index), 16) = n
        /\ IsExtIdx2(e.index) <=> n >= 16
    BY <2>2, NumberBits
  <2>4. 2^j.m.ss = e.scale
    <3>1. 2^0 = 1 /\ 2^1 = 2 /\ 2^2 = 4 /\ 2^3 = 8
      OBVIOUS
    <3>2. e.scale \in {1, 2, 4, 8}
      BY <1>4 DEF Tidy
    <3>3. QED BY <2>1, <3>1, <3>2 DEF ScaleBits
  <2> HIDE DEF low, low2
  <2>5. j.m.index + Bit(j.p.X3, 8) = low2
    BY <1>2, <2>1, <2>3
  <2>6. IsGp(e.index) \/ IsVec(e.index)
    BY <1>4, RegKinds DEF Tidy
  <2>7. CASE IsVec(e.index)
    <3>1. IndexRead(j) = Vec(low2 + Bit(j.p.V4, 16), VecSize(j))
      BY <2>1, <2>5, <2>7 DEF IndexRead
    <3>2. Bit(j.p.V4, 16) = Bit(IsExtIdx2(e.index), 16)
      BY <2>7 DEF Bit
    <3>3. e.index \in VecRegs
      BY <2>7, RegKinds DEF Tidy
    <3>4. e.index = Vec(n, e.index.bit)
      BY <3>3, VecForm
    <3>5. QED BY <2>3, <2>4, <2>7, <3>1, <3>2, <3>4
  <2>8. CASE IsGp(e.index)
    <3>1. j.opc.shape # "gather"
      BY <2>8 DEF IsGp, IsVec
    <3>2. e.index = Gp(n, e.index.bit) /\ n # 4
      BY <2>8 DEF Tidy, ESP
    <3>3. Bit(j.p.X4, 16) = Bit(IsExtIdx2(e.index), 16)
      BY <1>2, <2>8 DEF Bit
    <3>4. ~(low2 = 4 /\ ~j.p.X4)
      <4>1. j.p.X4 <=> IsExtIdx2(e.index)
        BY <1>2, <2>8
      <4>2. ~IsExtIdx2(e.index) => low2 = n
        BY <2>2, <2>3 DEF Bit
      <4>3. QED BY <3>2, <4>1, <4>2
    <3>5. IndexRead(j) = Gp(low2 + Bit(j.p.X4, 16), AddressBit(j))
      BY <2>1, <2>5, <3>1, <3>4 DEF IndexRead
    <3>6. QED BY <2>3, <2>4, <2>8, <3>2, <3>3, <3>5
  <2>9. QED BY <2>6, <2>7, <2>8
<1>5. QED BY <1>3, <1>4

LEMMA Multiple ==
  ASSUME NEW d \in Int, NEW n \in Nat \ {0}, d % n = 0
  PROVE  (d \div n) * n = d /\ d \div n \in Int
<1>1. \E q \in Int : \E r \in 0..(n - 1) : d \div n = q /\ d % n = r /\ d = n * q + r
  OBVIOUS
<1>2. PICK q \in Int : d \div n = q /\ d = n * q
  BY <1>1
<1>3. QED BY <1>2

\* The displacement as it is read from a field of 8 or 32 bits.
DispRead(j) == IF j.m.size = 1 THEN j.m.disp * TupleUnit(j) ELSE j.m.disp
DispIs(j, x) == DispRead(j) \in Int /\ SizeT(DispRead(j)) = x

LEMMA SibDisp ==
  ASSUME NEW e, e.disp \in Displacements, InInt32(e.disp), NEW j, NEW addr, addr.exp.disp = e.disp,
         NEW disp, disp = Signed(e.disp, Half32), NEW reg, NEW mod, mod = SibMod(e, disp, addr),
         SibFields(j.m, e, mod, disp, addr, reg), NEW u, u = TupleUnit(j),
         \/ addr.disp8N = 0 /\ u = 1
         \/ addr.disp8N = u /\ u \in Nat \ {0}
  PROVE  DispIs(j, e.disp)
<1>1. disp \in Int /\ SizeT(disp) = e.disp
  <2>1. e.disp \in Int
    BY HalvesNat DEF Displacements
  <2>2. disp \in Int
    BY <2>1, HalvesNat, SignedMod
  <2>3. disp % (2 * Half64) = e.disp % (2 * Half64)
    BY <2>1, Int32Value
  <2>4. SizeT(e.disp) = e.disp
    BY SizeTFacts
  <2>5. QED BY <2>2, <2>3, <2>4 DEF SizeT
<1>2. j.m.size = DispField(e, disp, addr, mod).size /\ j.m.disp = DispField(e, disp, addr, mod).disp
  BY DEF SibFields
<1>3. /\ mod \in {0, 1, 2}
      /\ mod = 0 => e.base = NoReg \/ disp = 0
      /\ mod = 1 => Fits8(addr)
  BY SibModIs
<1>4. u \in Int
  OBVIOUS
<1> DEFINE d == IF j.m.size = 1 THEN j.m.disp * u ELSE j.m.disp
<1> SUFFICES d \in Int /\ SizeT(d) = e.disp
  BY DEF DispIs, DispRead
<1>5. CASE mod = 1
  <2>1. j.m.size = 1 /\ j.m.disp = IF addr.disp8N = 0 THEN disp ELSE disp \div addr.disp8N
    BY <1>2, <1>5 DEF DispField
  <2>2. CASE addr.disp8N = 0
    <3>1. u = 1 /\ j.m.disp = disp
      BY <2>1, <2>2
    <3>2. d = disp
      BY <1>1, <2>1, <3>1
    <3>3. QED BY <1>1, <3>2
  <2>3. CASE addr.disp8N # 0
    <3>1. u \in Nat \ {0} /\ j.m.disp = disp \div u /\ addr.disp8N = u
      BY <2>1, <2>3
    <3>2. disp % u = 0
      BY <1>3, <1>5, <2>3, <3>1 DEF Fits8
    <3>3. (disp \div u) * u = disp
      BY <1>1, <3>1, <3>2, Multiple
    <3>4. d = disp
      BY <2>1, <3>1, <3>3
    <3>5. QED BY <1>1, <3>4
  <2>4. QED BY <2>2, <2>3
<1>6. CASE mod # 1
  <2>1. CASE mod = 2 \/ e.base = NoReg
    <3>1. j.m.size = 4 /\ j.m.disp = disp
      BY <1>2, <1>6, <2>1 DEF DispField, HasBase
    <3>2. QED BY <1>1, <3>1
  <2>2. CASE ~(mod = 2 \/ e.base = NoReg)
    <3>1. j.m.size = 0 /\ j.m.disp = 0 /\ disp = 0
      BY <1>2, <1>3, <1>6, <2>2 DEF DispField, HasBase
    <3>2. QED BY <1>1, <3>1
  <2>3. QED BY <2>1, <2>2
<1>7. QED BY <1>5, <1>6

\* An address relative to the next instruction.
LEMMA RipRead ==
  ASSUME NEW addr, NEW reg, NEW j, j.m = OpAddr(addr, reg), addr.mode \in {"rip", "ripAddr"},
         NEW x \in Int, addr.exp.disp = x, NEW label \in BOOLEAN, addr.exp.label = label,
         NEW asPtr \in BOOLEAN, addr.mode = IF label \/ asPtr THEN "ripAddr" ELSE "rip",
         NEW n \in Int, ImmRead(j) = n, asPtr /\ ~label => addr.immSize = n
  PROVE  /\ BaseRead(j) = NoReg /\ IndexRead(j) = NoReg /\ j.m.label = label /\ j.m.size = 4
         /\ SizeT(j.m.disp + Bit(RipRelative(j) /\ ~j.m.label, NextInstruction(j)))
              = SizeT(x + Bit(~asPtr /\ ~label, NextInstruction(j)))
<1> DEFINE d == RipDisp(addr)
<1>1. j.m = [[NoModRM EXCEPT !.present = TRUE, !.mod = 0, !.reg = reg % 8, !.rm = 5 % 8]
               EXCEPT !.size = 4, !.disp = d, !.label = label]
  BY DEF OpAddr, SetModRM
<1> HIDE DEF d
<1>2. j.m.present = TRUE /\ j.m.mod = 0 /\ j.m.rm = 5 /\ j.m.sib = FALSE /\ j.m.size = 4 /\ j.m.disp = d /\ j.m.label = label
  BY <1>1 DEF NoModRM
<1>3. RipRelative(j) = TRUE
  BY <1>2 DEF RipRelative
<1>4. BaseRead(j) = NoReg /\ IndexRead(j) = NoReg
  BY <1>2 DEF BaseRead, IndexRead
<1> DEFINE m == 2 * Half64
           next == NextInstruction(j)
<1>5. m \in Nat \ {0} /\ next \in Int /\ next = Here + 4 + n /\ Here \in Int
  BY HalvesNat, EncodingAssumption DEF NextInstruction
<1>6. \A a \in Int : SizeT(a) = a % m
  BY DEF SizeT
<1> HIDE DEF m, next
\* A remainder in a sum counts as the number it comes from.
<1>7. ASSUME NEW a \in Int, NEW b \in Int
      PROVE  ((a % m) + b) % m = (a + b) % m
  <2>1. PICK q \in Int, r \in 0..(m - 1) : a % m = r /\ a = m * q + r
    BY <1>5, DivMod
  <2>2. a + b = (r + b) + q * m /\ r + b \in Int
    BY <1>5, <2>1
  <2>3. ((r + b) + q * m) % m = (r + b) % m
    BY <1>5, <2>2, ModAdd
  <2>4. QED BY <2>1, <2>2, <2>3
<1>8. CASE label
  <2>1. d = x % m
    BY <1>6, <1>8 DEF d, RipDisp
  <2>2. SizeT(d) = SizeT(x)
    <3>1. ((x % m) + 0) % m = (x + 0) % m
      BY <1>7
    <3>2. x % m \in Int /\ (x % m) + 0 = x % m /\ x + 0 = x
      BY <1>5
    <3>3. QED BY <1>6, <2>1, <3>1, <3>2
  <2>3. d \in Int
    BY <1>5, <2>1
  <2>4. QED BY <1>2, <1>4, <1>8, <2>2, <2>3 DEF Bit
<1>9. CASE ~label /\ asPtr
  <2>1. d = (x - next) % m
    <3>1. x - Here - 4 - addr.immSize = x - next
      BY <1>5, <1>9
    <3>2. d = SizeT(x - Here - 4 - addr.immSize)
      BY <1>9 DEF d, RipDisp
    <3>3. QED BY <1>5, <1>6, <3>1, <3>2
  <2>2. x - next \in Int /\ (x - next) + next = x
    BY <1>5
  <2>3. (d + next) % m = x % m
    <3>1. (((x - next) % m) + next) % m = ((x - next) + next) % m
      BY <1>5, <1>7, <2>2
    <3>2. QED BY <2>1, <2>2, <3>1
  <2>4. d \in Int
    BY <1>5, <2>1, <2>2
  <2>5. SizeT(d + next) = SizeT(x)
    BY <1>5, <1>6, <2>3, <2>4
  <2>6. QED BY <1>2, <1>3, <1>4, <1>9, <2>5 DEF Bit, next
<1>10. CASE ~label /\ ~asPtr
  <2>1. d = x % m
    BY <1>6, <1>10 DEF d, RipDisp
  <2>2. (d + next) % m = (x + next) % m
    BY <1>5, <1>7, <2>1
  <2>3. d \in Int
    BY <1>5, <2>1
  <2>4. SizeT(d + next) = SizeT(x + next)
    BY <1>5, <1>6, <2>2, <2>3
  <2>5. QED BY <1>2, <1>3, <1>4, <1>10, <2>4 DEF Bit, next
<1>11. QED BY <1>8, <1>9, <1>10

AddressIs(j, s) ==
  AddressRead(j) = [coef |-> s.coef, label |-> s.label,
                    disp |-> SizeT(s.disp + Bit(s.rip /\ ~s.asPtr /\ ~s.label, NextInstruction(j)))]

\* What the processor must find in an instruction besides the address: the unit
\* of an 8-bit displacement, the width of the registers, the index of a gather.
Suits(j, addr, e) ==
  /\ j.p.p67 <=> Is32bit(addr)
  /\ \/ addr.disp8N = 0 /\ TupleUnit(j) = 1
     \/ addr.disp8N = TupleUnit(j) /\ TupleUnit(j) \in Nat \ {0}
  /\ IsVec(e.index) <=> j.opc.shape = "gather"
  /\ IsVec(e.index) => VecSize(j) = e.index.bit /\ (j.p.V4 <=> IsExtIdx2(e.index))

LEMMA OptimizedTidy ==
  ASSUME NEW e0, NEW s, Good(e0, s), NEW e, e = Optimize(e0)
  PROVE  /\ Tidy(e) /\ e.disp = e0.disp /\ e.label = e0.label
         /\ Linear(e.base, e.index, e.scale) = s.coef
         /\ e.base # NoReg => e.base.bit = IF Is32bit([exp |-> e0]) THEN 32 ELSE 64
         /\ IsGp(e.index) => e.index.bit = IF Is32bit([exp |-> e0]) THEN 32 ELSE 64
<1>1. /\ e.base \in GpRegs \cup {NoReg} /\ e.index \in AllRegs
      /\ e.base # NoReg => /\ e.base = Gp(e.base.idx, e.base.bit)
                           /\ e.base.bit = IF Is32bit([exp |-> e0]) THEN 32 ELSE 64
      /\ IsGp(e.index) => /\ e.index = Gp(e.index.idx, e.index.bit) /\ e.index.idx # ESP
                          /\ e.index.bit = IF Is32bit([exp |-> e0]) THEN 32 ELSE 64
      /\ e.index # NoReg => e.scale \in {1, 2, 4, 8}
      /\ e.disp = e0.disp /\ e.label = e0.label
      /\ Linear(e.base, e.index, e.scale) = s.coef
  BY Optimized
<1>2. QED BY <1>1 DEF Tidy

LEMMA SameLinear ==
  ASSUME NEW b, NEW x, NEW m, NEW n, x # NoReg => m = n
  PROVE  Linear(b, x, m) = Linear(b, x, n)
BY NoIndex

LEMMA SibAddress ==
  ASSUME NEW e0, NEW s, Good(e0, s), NEW addr, addr.exp = e0, addr.mode = "ModRM", AddressMode(e0) = "ModRM",
         InInt32(e0.disp), NEW j, NEW reg, j.m = OpAddr(addr, reg), NEW e, e = Optimize(e0),
         Reaches(j.p, e), Suits(j, addr, e)
  PROVE  AddressIs(j, s)
<1> DEFINE disp == Signed(e.disp, Half32)
           mod == SibMod(e, disp, addr)
           u == TupleUnit(j)
           d == DispRead(j)
<1>1. e = GetRegExp(addr)
  BY DEF GetRegExp
<1>2. j.m = SetSIB(addr, reg)
  BY DEF OpAddr
<1>3. SibFields(j.m, e, mod, disp, addr, reg)
  BY <1>1, <1>2, SetSIBIs
<1>4. /\ Tidy(e) /\ e.disp = e0.disp /\ e.label = e0.label
      /\ Linear(e.base, e.index, e.scale) = s.coef
      /\ e.base # NoReg => e.base.bit = IF Is32bit([exp |-> e0]) THEN 32 ELSE 64
      /\ IsGp(e.index) => e.index.bit = IF Is32bit([exp |-> e0]) THEN 32 ELSE 64
  BY OptimizedTidy
<1>5. AddressBit(j) = IF Is32bit([exp |-> e0]) THEN 32 ELSE 64
  <2>1. Is32bit([exp |-> e0]) <=> Is32bit(addr)
    BY DEF Is32bit
  <2>2. j.p.p67 <=> Is32bit(addr)
    BY DEF Suits
  <2>3. QED BY <2>1, <2>2 DEF AddressBit
<1>6. /\ \/ addr.disp8N = 0 /\ u = 1
         \/ addr.disp8N = u /\ u \in Nat \ {0}
      /\ IsVec(e.index) <=> j.opc.shape = "gather"
      /\ IsVec(e.index) => VecSize(j) = e.index.bit /\ (j.p.V4 <=> IsExtIdx2(e.index))
  BY DEF Suits
<1>7. e.disp \in Displacements /\ InInt32(e.disp) /\ addr.exp.disp = e.disp
  <2>1. e0.disp \in Displacements
    BY DEF Good, Expressions
  <2>2. InInt32(e0.disp)
    OBVIOUS
  <2>3. QED BY <1>4, <2>1, <2>2
<1> HIDE DEF disp, mod, u
<1>8. BaseRead(j) = e.base /\ ~RipRelative(j)
  BY <1>3, <1>4, <1>5, SibBase DEF mod
<1>9. IndexRead(j) = e.index /\ (e.index # NoReg => 2^j.m.ss = e.scale)
  BY <1>3, <1>4, <1>5, <1>6, SibIndex
<1>10. d \in Int /\ SizeT(d) = e.disp
  <2>1. disp = Signed(e.disp, Half32)
    BY DEF disp
  <2>2. mod = SibMod(e, disp, addr)
    BY DEF mod
  <2>3. u = TupleUnit(j)
    BY DEF u
  <2>4. e.disp \in Displacements /\ InInt32(e.disp) /\ addr.exp.disp = e.disp
    BY <1>7
  <2>5. \/ addr.disp8N = 0 /\ u = 1
        \/ addr.disp8N = u /\ u \in Nat \ {0}
    BY <1>6
  <2>6. DispIs(j, e.disp)
    BY <1>3, <2>1, <2>2, <2>3, <2>4, <2>5, SibDisp
  <2>7. QED BY <2>6 DEF DispIs
<1>11. j.m.label = e.label
  BY <1>3 DEF SibFields
<1>12. ~s.rip /\ s.disp = e.disp /\ s.label = e.label /\ e.disp \in Int /\ SizeT(e.disp) = e.disp
  <2>1. s.disp = e0.disp /\ s.label = e0.label /\ s.rip = e0.rip /\ ~e0.rip
    BY DEF Good, Matches, AddressMode
  <2>2. e.disp \in Int /\ SizeT(e.disp) = e.disp
    BY <1>7, HalvesNat, SizeTFacts DEF Displacements
  <2>3. QED BY <1>4, <2>1, <2>2
<1>13. Linear(BaseRead(j), IndexRead(j), 2^j.m.ss) = s.coef
  <2>1. Linear(e.base, e.index, 2^j.m.ss) = Linear(e.base, e.index, e.scale)
    BY <1>9, SameLinear
  <2>2. QED BY <1>4, <1>8, <1>9, <2>1
<1>14. SizeT(d + Bit(RipRelative(j) /\ ~j.m.label, NextInstruction(j))) = e.disp
  <2>1. Bit(RipRelative(j) /\ ~j.m.label, NextInstruction(j)) = 0
    BY <1>8 DEF Bit
  <2> HIDE DEF d
  <2>2. d + 0 = d
    BY <1>10
  <2>3. QED BY <1>10, <2>1, <2>2
<1>15. SizeT(s.disp + Bit(s.rip /\ ~s.asPtr /\ ~s.label, NextInstruction(j))) = e.disp
  <2>1. Bit(s.rip /\ ~s.asPtr /\ ~s.label, NextInstruction(j)) = 0
    BY <1>12 DEF Bit
  <2>2. e.disp + 0 = e.disp
    BY <1>12
  <2>3. QED BY <1>12, <2>1, <2>2
<1>16. AddressRead(j) = [coef |-> s.coef, disp |-> e.disp, label |-> e.label]
  BY <1>11, <1>13, <1>14 DEF AddressRead, DispRead
<1>17. QED BY <1>12, <1>15, <1>16 DEF AddressIs

LEMMA RipAddress ==
  ASSUME NEW e0, NEW s, Good(e0, s), NEW addr, addr.exp = e0, addr.mode = AddressMode(e0),
         addr.mode \in {"rip", "ripAddr"}, NEW j, NEW reg, j.m = OpAddr(addr, reg),
         NEW n \in Int, ImmRead(j) = n, s.rip /\ s.asPtr => addr.immSize = n
  PROVE  AddressIs(j, s)
<1>1. /\ s.disp = e0.disp /\ s.label = e0.label /\ s.rip = e0.rip /\ s.asPtr = e0.asPtr
      /\ s.coef = Linear(e0.base, e0.index, e0.scale)
  BY DEF Good, Matches, Coef
<1>2. e0.rip /\ addr.mode = IF e0.label \/ e0.asPtr THEN "ripAddr" ELSE "rip"
  BY DEF AddressMode
<1>3. e0.base = NoReg /\ e0.index = NoReg
  BY <1>2 DEF Good, Shape
<1>4. e0.label \in BOOLEAN /\ e0.asPtr \in BOOLEAN /\ e0.disp \in Int
  BY HalvesNat DEF Good, Expressions, Displacements
<1> DEFINE x == e0.disp
           label == e0.label
           asPtr == e0.asPtr
<1>5. /\ BaseRead(j) = NoReg /\ IndexRead(j) = NoReg /\ j.m.label = label /\ j.m.size = 4
      /\ SizeT(j.m.disp + Bit(RipRelative(j) /\ ~j.m.label, NextInstruction(j)))
           = SizeT(x + Bit(~asPtr /\ ~label, NextInstruction(j)))
  <2>1. asPtr /\ ~label => addr.immSize = n
    BY <1>1, <1>2
  <2>2. x \in Int /\ addr.exp.disp = x /\ label \in BOOLEAN /\ addr.exp.label = label /\ asPtr \in BOOLEAN
    BY <1>4
  <2> HIDE DEF x, label, asPtr
  <2>3. addr.mode = IF label \/ asPtr THEN "ripAddr" ELSE "rip"
    BY <1>2 DEF label, asPtr
  <2>4. QED BY <2>1, <2>2, <2>3, RipRead
<1>6. Linear(BaseRead(j), IndexRead(j), 2^j.m.ss) = s.coef
  <2>1. Linear(NoReg, NoReg, 2^j.m.ss) = Linear(NoReg, NoReg, e0.scale)
    BY NoIndex
  <2>2. QED BY <1>1, <1>3, <1>5, <2>1
<1>7. Bit(s.rip /\ ~s.asPtr /\ ~s.label, NextInstruction(j)) = Bit(~asPtr /\ ~label, NextInstruction(j))
  BY <1>1, <1>2 DEF Bit
<1> HIDE DEF x, label, asPtr
<1>8. AddressRead(j) = [coef |-> s.coef, disp |-> SizeT(x + Bit(~asPtr /\ ~label, NextInstruction(j))), label |-> label]
  BY <1>5, <1>6 DEF AddressRead
<1>9. s.disp = x /\ s.label = label
  BY <1>1 DEF x, label
<1>10. QED BY <1>7, <1>8, <1>9 DEF AddressIs

\* An address that is emitted reads as it was written when the prefix has the
\* bits of its registers.
LEMMA AddressHolds ==
  ASSUME NEW e0, NEW s, Good(e0, s), NEW addr, addr.exp = e0, addr.mode = AddressMode(e0),
         addr.mode = "ModRM" => InInt32(e0.disp), NEW j, NEW reg, j.m = OpAddr(addr, reg),
         j.m.present \/ j.m.size = 8, NEW e, e = Optimize(e0), Reaches(j.p, e), Suits(j, addr, e),
         s.rip /\ s.asPtr => addr.immSize = ImmRead(j), ImmRead(j) \in Int
  PROVE  AddressIs(j, s)
<1>1. addr.mode \in {"ModRM", "64bitDisp", "rip", "ripAddr"}
  BY DEF AddressMode
<1>2. CASE addr.mode = "ModRM"
  BY <1>2, SibAddress
<1>3. CASE addr.mode = "64bitDisp"
  <2>1. j.m = NoModRM
    BY <1>3 DEF OpAddr
  <2>2. QED BY <2>1 DEF NoModRM
<1>4. CASE addr.mode \in {"rip", "ripAddr"}
  <2>1. PICK n \in Int : ImmRead(j) = n
    OBVIOUS
  <2>2. s.rip /\ s.asPtr => addr.immSize = n
    BY <2>1
  <2>3. QED BY <1>4, <2>1, <2>2, RipAddress
<1>5. QED BY <1>1, <1>2, <1>3, <1>4

\* A memory operand of a general instruction.
IsMemOp(a, e0) ==
  /\ a.kind = "mem" /\ a.exp = e0 /\ a.mode = AddressMode(e0) /\ a.disp8N = 0 /\ a.permitVsib = FALSE
  /\ a.broadcast = FALSE /\ a.mask = 0
  /\ DOMAIN a = {"kind", "bit", "exp", "mode", "immSize", "disp8N", "permitVsib", "broadcast", "mask"}

LEMMA MemOpIs == \A bit : IsMemOp(MemOp(bit), expr) /\ MemOp(bit).bit = bit /\ MemOp(bit).immSize = 0
BY DEF MemOp, Address, IsMemOp

LEMMA MemOpSized ==
  ASSUME NEW a, NEW e0, IsMemOp(a, e0), NEW n
  PROVE  /\ IsMemOp([a EXCEPT !.immSize = n], e0)
         /\ [a EXCEPT !.immSize = n].immSize = n /\ [a EXCEPT !.immSize = n].bit = a.bit
BY DEF IsMemOp

LEMMA ExprRegs ==
  ASSUME NEW e0, NEW s, Good(e0, s), NEW e, e = Optimize(e0)
  PROVE  /\ e.base \in {e0.base, e0.index} /\ e.index = e0.index
         /\ e0.base \in AllRegs /\ e0.index \in AllRegs
         /\ (IsGp(e.base) \/ e.base = NoReg) /\ ~IsVec(e.base)
         /\ e.base.idx \in 0..31 /\ e.index.idx \in 0..31
         /\ (IsExtIdx2(e.base) => IsGp(e.base))
         /\ ((~HasRex2(e0.base) /\ ~HasRex2(e0.index)) => (~IsExtIdx2(e.base) /\ (IsGp(e.index) => ~IsExtIdx2(e.index))))
         /\ ((IsExtIdx2(e.index) /\ ~IsVec(e.index)) => IsGp(e.index))
<1>1. /\ e.base \in {e0.base, e0.index} /\ e.index = e0.index
      /\ e.base \in GpRegs \cup {NoReg}
  BY Optimized
<1>2. e0.base \in AllRegs /\ e0.index \in AllRegs
  BY RegistersAre DEF Good, Expressions
<1>3. e.base \in AllRegs
  BY <1>1 DEF AllRegs
<1>4. (IsGp(e.base) \/ e.base = NoReg) /\ ~IsVec(e.base)
  BY <1>1, GpForm, NoRegForm
<1>5. e.base.idx \in 0..31 /\ e.index.idx \in 0..31
  BY <1>1, <1>2, <1>3, RegIndex
<1>6. IsExtIdx2(e.base) => IsGp(e.base)
  BY <1>4, NoRegForm
<1>7. (IsExtIdx2(e.index) /\ ~IsVec(e.index)) => IsGp(e.index)
  BY <1>1, <1>2, RegKinds, NoRegForm
<1>8. (~HasRex2(e0.base) /\ ~HasRex2(e0.index)) => (~IsExtIdx2(e.base) /\ (IsGp(e.index) => ~IsExtIdx2(e.index)))
  BY <1>1, <1>6 DEF HasRex2
<1>9. QED BY <1>1, <1>2, <1>4, <1>5, <1>6, <1>7, <1>8

LEMMA RexReaches ==
  ASSUME NEW e0, NEW s, Good(e0, s), NEW e, e = Optimize(e0), NEW addr, addr.exp = e0, ~IsVec(e0.index),
         NEW r, r.ext8 \in BOOLEAN, NEW type
  PROVE  /\ Reaches(RexM(addr, r, type), e)
         /\ RexM(addr, r, type).p67 = Is32bit(addr) /\ RexM(addr, r, type).enc \in {"rex2", "rex", "none"}
<1> DEFINE rex2 == RexMRex2(addr, r)
           W == IsGp(r) /\ r.bit = 64
           pp == LegacyPP(type, P66(addr.bit, r.bit))
           p67 == Is32bit(addr)
           p == RexM(addr, r, type)
<1>1. e = GetRegExp(addr)
  BY DEF GetRegExp
<1>2. p = RexWith(rex2, W, r.ext8, pp, p67, type, r, e.base, e.index)
  BY <1>1 DEF RexM
<1>3. W \in BOOLEAN /\ rex2 \in BOOLEAN
  BY DEF RexMRex2, HasRex2, AddrHasRex2, IsExtIdx2, HasIdxBit, IsGp
<1>4. ~rex2 => ~HasRex2(e0.base) /\ ~HasRex2(e0.index)
  BY DEF RexMRex2, AddrHasRex2
<1> HIDE DEF rex2, W, pp, p, p67
<1>5. RexFields(p, rex2, W, r.ext8, pp, p67, type, r, e.base, e.index)
  BY <1>2, <1>3, RexWithIs
<1>6. p.p67 = p67 /\ p.B3 = IsExtIdx(e.base) /\ p.X3 = IsExtIdx(e.index)
  BY <1>5 DEF RexFields
<1>7. p.enc \in {"rex2", "rex", "none"}
  BY <1>5 DEF RexFields
<1>8. (IsGp(e.index) \in BOOLEAN) /\ IsExtIdx2(e.index) \in BOOLEAN /\ IsExtIdx2(e.base) \in BOOLEAN
  BY IndexBits DEF IsGp
<1>9. /\ e.index = e0.index
      /\ ((~HasRex2(e0.base) /\ ~HasRex2(e0.index)) => (~IsExtIdx2(e.base) /\ (IsGp(e.index) => ~IsExtIdx2(e.index))))
      /\ ((IsExtIdx2(e.index) /\ ~IsVec(e.index)) => IsGp(e.index))
  BY ExprRegs
<1>10. p.B4 = IsExtIdx2(e.base) /\ p.X4 = (IsGp(e.index) /\ IsExtIdx2(e.index))
  <2>1. CASE rex2
    <3>1. p.B4 = IsExtIdx2(e.base) /\ p.X4 = IsExtIdx2(e.index)
      BY <1>5, <2>1 DEF RexFields
    <3>2. IsExtIdx2(e.index) <=> (IsGp(e.index) /\ IsExtIdx2(e.index))
      BY <1>9
    <3>3. QED BY <1>8, <3>1, <3>2
  <2>2. CASE ~rex2
    <3>1. p.B4 = FALSE /\ p.X4 = FALSE
      BY <1>5, <2>2 DEF RexFields
    <3>2. ~IsExtIdx2(e.base) /\ ~(IsGp(e.index) /\ IsExtIdx2(e.index))
      BY <1>4, <1>9, <2>2
    <3>3. QED BY <1>8, <3>1, <3>2
  <2>3. QED BY <2>1, <2>2
<1>11. QED BY <1>6, <1>7, <1>10 DEF Reaches, p, p67

LEMMA LegReaches ==
  ASSUME NEW e0, NEW s, Good(e0, s), NEW e, e = Optimize(e0), ~IsVec(e0.index), NEW r, NEW d, NEW type
  PROVE  /\ Reaches(EvexLeg(r, e.base, e.index, d, type), e)
         /\ EvexLeg(r, e.base, e.index, d, type).p67 = FALSE /\ EvexLeg(r, e.base, e.index, d, type).enc = "leg"
<1> DEFINE p == EvexLeg(r, e.base, e.index, d, type)
<1>1. LegFields(p, r, e.base, e.index, d, type)
  BY EvexLegIs
<1> HIDE DEF p
<1>2. /\ p.B3 = IsExtIdx(e.base) /\ p.X3 = IsExtIdx(e.index) /\ p.B4 = IsExtIdx2(e.base)
      /\ p.X4 = IsExtIdx2(e.index) /\ p.p67 = FALSE /\ p.enc = "leg"
  BY <1>1 DEF LegFields
<1>3. e.index = e0.index /\ ((IsExtIdx2(e.index) /\ ~IsVec(e.index)) => IsGp(e.index))
  BY ExprRegs
<1>4. (IsGp(e.index) \in BOOLEAN) /\ IsExtIdx2(e.index) \in BOOLEAN
  BY IndexBits DEF IsGp
<1>5. IsExtIdx2(e.index) <=> (IsGp(e.index) /\ IsExtIdx2(e.index))
  BY <1>3
<1>6. QED BY <1>2, <1>4, <1>5 DEF Reaches, p

\* No register of 32 bits is in the sum when the address is not one of 32 bits.
LEMMA ShortIs ==
  ASSUME NEW e0, NEW s, Good(e0, s), NEW addr, addr.exp = e0, Is32bit(addr)
  PROVE  \E r \in DOMAIN s.coef : r.bit = 32
<1>1. DOMAIN s.coef = {e0.base, e0.index} \ {NoReg}
  <2>1. s.coef = Linear(e0.base, e0.index, e0.scale)
    BY DEF Good, Matches, Coef
  <2>2. DOMAIN Linear(e0.base, e0.index, e0.scale) = {e0.base, e0.index} \ {NoReg}
    BY LinearDomain
  <2>3. QED BY <2>1, <2>2
<1>2. e0.base.bit = 32 \/ e0.index.bit = 32
  BY DEF Is32bit
<1>3. NoReg.bit = 0
  BY NoRegForm
<1>4. QED BY <1>1, <1>2, <1>3

LEMMA AddrOkIs ==
  ASSUME NEW e0, NEW a, IsMemOp(a, e0), OpAddrOk(a)
  PROVE  ~IsVec(e0.index) /\ (AddressMode(e0) = "ModRM" => InInt32(e0.disp))
BY DEF OpAddrOk, SetSIBOk, IsVsib, IsMemOp

LEMMA MRAddress ==
  ASSUME NEW e0, NEW s, Good(e0, s), NEW addr, IsMemOp(addr, e0), NEW r, r.ext8 \in BOOLEAN, NEW type,
         ~IsVec(e0.index), AddressMode(e0) = "ModRM" => InInt32(e0.disp), NEW j, j.p = OpMR(addr, r, type).p, j.m = OpMR(addr, r, type).m,
         j.opc.shape # "gather", j.m.present \/ j.m.size = 8,
         addr.immSize = ImmRead(j), ImmRead(j) \in Int
  PROVE  AddressIs(j, s)
<1> DEFINE e == Optimize(e0)
<1>1. addr.exp = e0 /\ addr.mode = AddressMode(e0) /\ addr.disp8N = 0 /\ addr.permitVsib = FALSE
  BY DEF IsMemOp
<1>2. j.p = RexM(addr, r, type) /\ j.m = OpAddr(addr, r.idx)
  BY DEF OpMR, Parts
<1>3. ~IsVec(e0.index) /\ (addr.mode = "ModRM" => InInt32(e0.disp))
  BY <1>1
<1> HIDE DEF e
<1>4. /\ Reaches(RexM(addr, r, type), e)
      /\ RexM(addr, r, type).p67 = Is32bit(addr) /\ RexM(addr, r, type).enc \in {"rex2", "rex", "none"}
  BY <1>1, <1>3, RexReaches DEF e
<1>5. e.index = e0.index
  BY ExprRegs DEF e
<1>6. TupleUnit(j) = 1
  BY <1>2, <1>4 DEF TupleUnit
<1>7. Suits(j, addr, e)
  BY <1>1, <1>2, <1>3, <1>4, <1>5, <1>6 DEF Suits
<1>8. Reaches(j.p, e)
  BY <1>2, <1>4
<1>9. QED BY <1>1, <1>2, <1>3, <1>7, <1>8, AddressHolds DEF e

LEMMA ROOAddress ==
  ASSUME NEW e0, NEW s, Good(e0, s), NEW a, IsMemOp(a, e0), NEW r, NEW d, NEW op1, NEW op2,
         \/ op1 = a /\ op2 = r /\ ~IsMem(r)
         \/ op2 = a /\ op1 = r /\ ~IsMem(r),
         NEW type, NEW n, OpROOOk(op1, op2, type),
         NEW j, j.p = OpROO(d, op1, op2, type, n).p, j.m = OpROO(d, op1, op2, type, n).m,
         j.opc.shape # "gather", j.m.present \/ j.m.size = 8, ImmRead(j) \in Int,
         s.rip /\ s.asPtr => n = ImmRead(j),
         ~\E x \in DOMAIN s.coef : x.bit = 32
  PROVE  AddressIs(j, s) /\ j.p.enc = "leg"
<1> DEFINE e == Optimize(e0)
           mem == [a EXCEPT !.immSize = n]
<1>1. IsMem(a)
  BY DEF IsMemOp, IsMem
<1>2. IsMemOp(mem, e0) /\ mem.immSize = n
  BY MemOpSized
<1>3. ~IsVec(e0.index) /\ (AddressMode(e0) = "ModRM" => InInt32(e0.disp))
  <2>1. OpAddrOk(a)
    BY <1>1 DEF OpROOOk
  <2>2. QED BY <2>1, AddrOkIs
<1>4. j.p = EvexLeg(r, GetRegExp(mem).base, GetRegExp(mem).index, d, type) /\ j.m = OpAddr(mem, r.idx)
  BY <1>1 DEF OpROO, Parts
<1> HIDE DEF e, mem
<1>5. mem.exp = e0 /\ mem.mode = AddressMode(e0) /\ mem.disp8N = 0 /\ mem.permitVsib = FALSE
  BY <1>2 DEF IsMemOp
<1>6. GetRegExp(mem) = e
  BY <1>5 DEF GetRegExp, e
<1>7. Reaches(j.p, e) /\ j.p.p67 = FALSE /\ j.p.enc = "leg"
  <2>1. j.p = EvexLeg(r, e.base, e.index, d, type)
    BY <1>4, <1>6
  <2>2. e = Optimize(e0)
    BY DEF e
  <2>3. /\ Reaches(EvexLeg(r, e.base, e.index, d, type), e)
        /\ EvexLeg(r, e.base, e.index, d, type).p67 = FALSE /\ EvexLeg(r, e.base, e.index, d, type).enc = "leg"
    BY <1>3, <2>2, LegReaches, ZenonT(30)
  <2>4. QED BY <2>1, <2>3
<1>8. ~Is32bit(mem)
  BY <1>5, ShortIs
<1>9. e.index = e0.index
  BY ExprRegs DEF e
<1>10. TupleUnit(j) = 1
  BY <1>7 DEF TupleUnit
<1>11. Suits(j, mem, e)
  BY <1>3, <1>5, <1>7, <1>8, <1>9, <1>10 DEF Suits
<1>12. s.rip /\ s.asPtr => mem.immSize = ImmRead(j)
  BY <1>2
<1>13. QED BY <1>3, <1>4, <1>5, <1>7, <1>11, <1>12, AddressHolds DEF e

-----------------------------------------------------------------------------
(* Vector instructions.                                                    *)

LEMMA MaxIs ==
  ASSUME NEW S, S \subseteq Int, NEW m \in S, \A n \in S : n <= m
  PROVE  MaxOf(S) = m
<1>1. \E k \in S : \A n \in S : n <= k
  OBVIOUS
<1>2. MaxOf(S) \in S /\ \A n \in S : n <= MaxOf(S)
  BY <1>1 DEF MaxOf
<1>3. MaxOf(S) <= m /\ m <= MaxOf(S)
  BY <1>2
<1> DEFINE k == MaxOf(S)
<1>4. k \in Int /\ m \in Int /\ k <= m /\ m <= k
  BY <1>2, <1>3
<1> HIDE DEF k
<1>5. k = m
  BY <1>4
<1>6. QED BY <1>5 DEF k

LEMMA EvexVLIs ==
  ASSUME NEW r, r.bit \in {128, 256, 512}, NEW base, base.bit \in {0, 8, 16, 32, 64, r.bit}, NEW v, v.bit = r.bit,
         NEW x, IsVec(x) => x.bit = r.bit
  PROVE  EvexVL(r, base, v, x) = r.bit
<1> DEFINE n == IF IsVec(x) THEN x.bit ELSE 0
           S == {r.bit, base.bit, v.bit, n}
<1>1. n \in {0, r.bit}
  OBVIOUS
<1> HIDE DEF n
<1>2. S \subseteq Int /\ r.bit \in S /\ \A k \in S : k <= r.bit
  BY <1>1
<1> HIDE DEF S
<1>3. MaxOf(S) = r.bit
  BY <1>2, MaxIs
<1>4. QED BY <1>3 DEF EvexVL, S, n

\* A memory operand of a vector instruction.
IsVecMem(a, e0) ==
  /\ a.kind = "mem" /\ a.exp = e0 /\ a.mode = AddressMode(e0) /\ a.disp8N = 0 /\ a.broadcast \in BOOLEAN
  /\ DOMAIN a = {"kind", "bit", "exp", "mode", "immSize", "disp8N", "permitVsib", "broadcast", "mask"}

LEMMA IsVecMemOp == \A a, e0 : IsMemOp(a, e0) => IsVecMem(a, e0)
BY DEF IsMemOp, IsVecMem

LEMMA AddressIsVecMem ==
  ASSUME NEW b \in BOOLEAN, NEW k
  PROVE  /\ IsVecMem(Address(0, b, k, expr), expr)
         /\ Address(0, b, k, expr).broadcast = b /\ Address(0, b, k, expr).mask = k
BY DEF Address, IsVecMem

LEMMA VecMemSized ==
  ASSUME NEW a, NEW e0, IsVecMem(a, e0), NEW permit, NEW n, NEW N
  PROVE  LET m == [a EXCEPT !.permitVsib = permit, !.immSize = n, !.disp8N = N]
         IN  m.exp = e0 /\ m.mode = AddressMode(e0) /\ m.immSize = n /\ m.disp8N = N
BY DEF IsVecMem

\* A memory operand is never read as a register.
LEMMA MemMod ==
  ASSUME NEW addr, NEW reg, NEW m, m = OpAddr(addr, reg)
  PROVE  m.mod # 3
<1>1. CASE addr.mode = "ModRM"
  <2> DEFINE e == GetRegExp(addr)
             disp == Signed(e.disp, Half32)
             mod == SibMod(e, disp, addr)
  <2>1. m = SetSIB(addr, reg)
    BY <1>1 DEF OpAddr
  <2>2. SibFields(SetSIB(addr, reg), e, mod, disp, addr, reg)
    BY SetSIBIs
  <2>3. mod \in {0, 1, 2}
    BY SibModIs
  <2> HIDE DEF mod, disp, e
  <2>4. m.mod = mod
    BY <2>1, <2>2 DEF SibFields
  <2>5. QED BY <2>3, <2>4
<1>2. CASE addr.mode = "64bitDisp"
  BY <1>2 DEF OpAddr, NoModRM
<1>3. CASE addr.mode \notin {"ModRM", "64bitDisp"}
  <2> DEFINE f == SetModRM(0, reg, 5)
             d == RipDisp(addr)
  <2>1. m = [f EXCEPT !.size = 4, !.disp = d, !.label = addr.exp.label]
    BY <1>3 DEF OpAddr
  <2> HIDE DEF d
  <2>2. f.mod = 0 /\ DOMAIN f = DOMAIN NoModRM
    BY DEF SetModRM, NoModRM
  <2>3. "mod" \in DOMAIN f
    BY <2>2 DEF NoModRM
  <2> HIDE DEF f
  <2>4. m.mod = 0
    BY <2>1, <2>2, <2>3
  <2>5. QED BY <2>4
<1>4. QED BY <1>1, <1>2, <1>3

\* The prefix of an address of 32 bits is written before.
WithP67(p, op) == [p EXCEPT !.p67 = Is32bit(op)]
VexReads(p, reg, type, op) ==
  /\ p.p67 = Is32bit(op) /\ p.enc = "vex" /\ p.V4 = FALSE
  /\ p.L = IF "L1" \in type \/ reg.bit = 256 THEN 1 ELSE 0
EvexReads(p, reg, v, e, b, op) ==
  /\ p.p67 = Is32bit(op) /\ p.enc = "evex" /\ p.b = b
  /\ p.V4 = (IsExtIdx2(v) \/ (IsVec(e.index) /\ IsExtIdx2(e.index)))
  /\ p.L = IF EvexVL(reg, e.base, v, e.index) >= 512 THEN 2
           ELSE IF EvexVL(reg, e.base, v, e.index) = 256 THEN 1 ELSE 0

LEMMA VexReaches ==
  ASSUME NEW e0, NEW s, Good(e0, s), NEW e, e = Optimize(e0), NEW reg, NEW v, NEW type,
         "0F" \in type => GetMap(type) = 1, ~HasRex2(e0.base), ~HasRex2(e0.index), NEW op
  PROVE  /\ Reaches(WithP67(Vex(reg, e.base, v, IsExtIdx(e.index), type), op), e)
         /\ VexReads(WithP67(Vex(reg, e.base, v, IsExtIdx(e.index), type), op), reg, type, op)
<1>1. PICK p : p = WithP67(Vex(reg, e.base, v, IsExtIdx(e.index), type), op)
  OBVIOUS
<1> DEFINE p67 == Is32bit(op)
           q == Vex(reg, e.base, v, IsExtIdx(e.index), type)
           L == IF "L1" \in type \/ reg.bit = 256 THEN 1 ELSE 0
<1>2. VexFields(q, reg, e.base, v, IsExtIdx(e.index), type)
  BY IndexBits, VexIs
<1> HIDE DEF q, L, p67
<1>3. /\ q.B3 = IsExtIdx(e.base) /\ q.X3 = IsExtIdx(e.index) /\ q.B4 = FALSE /\ q.X4 = FALSE
      /\ q.enc = "vex" /\ q.V4 = FALSE /\ q.L = L /\ DOMAIN q = DOMAIN NoPrefix
  BY <1>2 DEF VexFields, L
<1>4. {"B3", "X3", "B4", "X4", "enc", "V4", "L", "p67"} \subseteq DOMAIN q
  BY <1>3 DEF NoPrefix
<1>5. p = [q EXCEPT !.p67 = p67]
  BY <1>1 DEF q, p67, WithP67
<1>6. /\ p.B3 = IsExtIdx(e.base) /\ p.X3 = IsExtIdx(e.index) /\ p.B4 = FALSE /\ p.X4 = FALSE
      /\ p.enc = "vex" /\ p.V4 = FALSE /\ p.L = L /\ p.p67 = p67
  BY <1>3, <1>4, <1>5
<1>7. ~IsExtIdx2(e.base) /\ (IsGp(e.index) => ~IsExtIdx2(e.index))
  BY ExprRegs
<1>8. IsExtIdx2(e.base) = FALSE /\ (IsGp(e.index) /\ IsExtIdx2(e.index)) = FALSE
  BY <1>7, IndexBits
<1>9. Reaches(p, e) /\ VexReads(p, reg, type, op)
  BY <1>6, <1>8 DEF Reaches, VexReads, L, p67
<1>10. QED BY <1>1, <1>9

LEMMA EvexReaches ==
  ASSUME NEW e0, NEW s, Good(e0, s), NEW e, e = Optimize(e0), NEW reg, NEW v, NEW type,
         NEW b \in BOOLEAN, NEW mask, NEW zero \in BOOLEAN, NEW op
  PROVE  /\ Reaches(WithP67(Evex(reg, e.base, v, e.index, type, b, mask, zero, 0), op), e)
         /\ EvexReads(WithP67(Evex(reg, e.base, v, e.index, type, b, mask, zero, 0), op), reg, v, e, b, op)
<1>1. PICK p : p = WithP67(Evex(reg, e.base, v, e.index, type, b, mask, zero, 0), op)
  OBVIOUS
<1> DEFINE p67 == Is32bit(op)
           q == Evex(reg, e.base, v, e.index, type, b, mask, zero, 0)
           VL == EvexVL(reg, e.base, v, e.index)
           L == IF VL >= 512 THEN 2 ELSE IF VL = 256 THEN 1 ELSE 0
           v4 == IsExtIdx2(v) \/ (IsVec(e.index) /\ IsExtIdx2(e.index))
           x3 == IsExtIdx(e.index) \/ (IsVec(e.base) /\ IsExtIdx2(e.base))
           x4 == IsGp(e.index) /\ IsExtIdx2(e.index)
           b4 == IsGp(e.base) /\ IsExtIdx2(e.base)
<1>2. EvexFields(q, reg, e.base, v, e.index, type, b, mask, zero, 0)
  BY EvexIs
<1> HIDE DEF q
<1>3. /\ q.B3 = IsExtIdx(e.base) /\ q.X3 = x3 /\ q.B4 = b4 /\ q.X4 = x4
      /\ q.enc = "evex" /\ q.V4 = v4
  BY <1>2 DEF EvexFields
<1>4. q.L = L /\ DOMAIN q = DOMAIN NoPrefix
  BY <1>2 DEF EvexFields
<1>5. q.b = (b \/ 0 # 0)
  BY <1>2 DEF EvexFields
<1>6. {"B3", "X3", "B4", "X4", "enc", "V4", "L", "b", "p67"} \subseteq DOMAIN q
  BY <1>4 DEF NoPrefix
<1> HIDE DEF L, v4, x3, x4, b4, p67
<1>7. p = [q EXCEPT !.p67 = p67]
  BY <1>1 DEF q, p67, WithP67
<1>8. /\ p.B3 = IsExtIdx(e.base) /\ p.X3 = x3 /\ p.B4 = b4 /\ p.X4 = x4
      /\ p.enc = "evex" /\ p.V4 = v4 /\ p.L = L /\ p.p67 = p67 /\ p.b = q.b
  BY <1>3, <1>4, <1>6, <1>7
<1>9. q.b = b
  BY <1>5
<1>10. ~IsVec(e.base) /\ (IsExtIdx2(e.base) => IsGp(e.base))
  BY ExprRegs
<1>11. x3 = IsExtIdx(e.index) /\ b4 = IsExtIdx2(e.base)
  <2>1. IsExtIdx(e.index) \in BOOLEAN /\ IsExtIdx2(e.base) \in BOOLEAN /\ (IsGp(e.base) \in BOOLEAN)
    BY IndexBits DEF IsGp
  <2>2. (x3 <=> IsExtIdx(e.index)) /\ (b4 <=> IsExtIdx2(e.base))
    BY <1>10 DEF x3, b4
  <2>3. x3 \in BOOLEAN /\ b4 \in BOOLEAN
    BY DEF x3, b4
  <2>4. QED BY <2>1, <2>2, <2>3
<1>12. Reaches(p, e) /\ EvexReads(p, reg, v, e, b, op)
  BY <1>8, <1>9, <1>11 DEF Reaches, EvexReads, L, VL, p67, v4, x4
<1>13. QED BY <1>1, <1>12

VexMem(op, type, n, N) == [op EXCEPT !.permitVsib = "VSIB" \in type, !.immSize = n, !.disp8N = N]
LEMMA OpVexMVex ==
  ASSUME NEW op, IsMem(op), NEW r, NEW v, NEW type, NEW attr, NEW n, NEW e, e = GetRegExp(op),
         ~NeedsEvex(r, v, op, type, attr)
  PROVE  /\ OpVex(r, v, op, type, attr, n).p = WithP67(Vex(r, e.base, v, IsExtIdx(e.index), type), op)
         /\ OpVex(r, v, op, type, attr, n).m = OpAddr(VexMem(op, type, n, 0), r.idx)
BY DEF OpVex, Parts, WithP67, VexMem

MemMask(op, attr) == IF op.mask # 0 THEN op.mask ELSE attr.mask
LEMMA OpVexMEvex ==
  ASSUME NEW op, IsMem(op), NEW r, NEW v, NEW type, NEW attr, NEW n, NEW e, e = GetRegExp(op),
         NeedsEvex(r, v, op, type, attr)
  PROVE  /\ OpVex(r, v, op, type, attr, n).p =
              WithP67(Evex(r, e.base, v, e.index, type, op.broadcast, MemMask(op, attr), attr.zero, attr.rnd), op)
         /\ OpVex(r, v, op, type, attr, n).m =
              OpAddr(VexMem(op, type, n, Disp8N(type, EvexVL(r, e.base, v, e.index), op.broadcast)), r.idx)
BY DEF OpVex, Parts, WithP67, VexMem, MemMask

LEMMA OpVexMOk ==
  ASSUME NEW e0, NEW op, IsVecMem(op, e0), NEW r, NEW v, NEW type, NEW attr, OpVexOk(r, v, op, type, attr)
  PROVE  /\ IsMem(op) /\ (AddressMode(e0) = "ModRM" => InInt32(e0.disp)) /\ (IsVec(e0.index) => "VSIB" \in type)
         /\ GetRegExp(op) = Optimize(e0)
         /\ NeedsEvex(r, v, op, type, attr) =>
              /\ type \cap {"EVEX", "MUST_EVEX"} # {}
              /\ (op.broadcast => type \cap {"B32", "B64"} # {})
         /\ ~NeedsEvex(r, v, op, type, attr) =>
              /\ ~HasRex2(e0.base) /\ ~HasRex2(e0.index)
              /\ r.bit # 512 /\ ~op.broadcast /\ op.mask = 0
              /\ r.idx < 16 /\ v.idx < 16
<1>1. IsMem(op)
  BY DEF IsVecMem, IsMem
<1>2. OpAddrOk([op EXCEPT !.permitVsib = "VSIB" \in type])
  BY <1>1 DEF OpVexOk
<1>3. (AddressMode(e0) = "ModRM" => InInt32(e0.disp)) /\ (IsVec(e0.index) => "VSIB" \in type)
  BY <1>2 DEF OpAddrOk, SetSIBOk, IsVsib, IsVecMem
<1>4. GetRegExp(op) = Optimize(e0)
  BY DEF GetRegExp, IsVecMem
<1>5. NeedsEvex(r, v, op, type, attr) =>
        /\ type \cap {"EVEX", "MUST_EVEX"} # {}
        /\ (op.broadcast => type \cap {"B32", "B64"} # {})
  BY <1>1 DEF OpVexOk, EvexOk
<1>6. ~NeedsEvex(r, v, op, type, attr) =>
        /\ ~HasRex2(e0.base) /\ ~HasRex2(e0.index)
        /\ r.bit # 512 /\ ~op.broadcast /\ op.mask = 0
        /\ r.idx < 16 /\ v.idx < 16
  BY <1>1 DEF NeedsEvex, AddrHasRex2, IsVecMem, OpVexOk, VexOk
<1>7. QED BY <1>1, <1>3, <1>4, <1>5, <1>6

LEMMA VexAddress ==
  ASSUME NEW e0, NEW s, Good(e0, s), NEW op, IsVecMem(op, e0), NEW r, NEW v, NEW type, NEW attr, NEW n,
         "0F" \in type => GetMap(type) = 1, OpVexOk(r, v, op, type, attr), ~NeedsEvex(r, v, op, type, attr),
         NEW j, j.p = OpVex(r, v, op, type, attr, n).p, j.m = OpVex(r, v, op, type, attr, n).m,
         j.m.present \/ j.m.size = 8, ImmRead(j) \in Int, s.rip /\ s.asPtr => n = ImmRead(j),
         j.p.enc = "vex" => ~\E x \in DOMAIN s.coef : IsVec(x) /\ x.idx > 15,
         IsVec(e0.index) <=> j.opc.shape = "gather",
         IsVec(e0.index) => e0.index.bit = r.bit /\ r.bit \in {128, 256} /\ "L1" \notin type
  PROVE  AddressIs(j, s) /\ j.p.enc = "vex"
<1> DEFINE e == Optimize(e0)
           addr == VexMem(op, type, n, 0)
           p67 == Is32bit(op)
<1>1. /\ IsMem(op) /\ (AddressMode(e0) = "ModRM" => InInt32(e0.disp))
      /\ GetRegExp(op) = e /\ ~HasRex2(e0.base) /\ ~HasRex2(e0.index)
  BY OpVexMOk
<1> HIDE DEF e, addr, p67
<1>2. j.p = WithP67(Vex(r, e.base, v, IsExtIdx(e.index), type), op) /\ j.m = OpAddr(addr, r.idx)
  BY <1>1, OpVexMVex DEF addr
<1>3. /\ Reaches(j.p, e) /\ j.p.p67 = p67 /\ j.p.enc = "vex" /\ j.p.V4 = FALSE
      /\ j.p.L = IF "L1" \in type \/ r.bit = 256 THEN 1 ELSE 0
  <2>1. e = Optimize(e0)
    BY DEF e
  <2>2. /\ Reaches(WithP67(Vex(r, e.base, v, IsExtIdx(e.index), type), op), e)
        /\ VexReads(WithP67(Vex(r, e.base, v, IsExtIdx(e.index), type), op), r, type, op)
    BY <1>1, <2>1, VexReaches, ZenonT(30)
  <2>3. Reaches(j.p, e) /\ VexReads(j.p, r, type, op)
    BY <1>2, <2>2
  <2>4. QED BY <2>3 DEF VexReads, p67
<1>4. addr.exp = e0 /\ addr.mode = AddressMode(e0) /\ addr.immSize = n /\ addr.disp8N = 0
  BY VecMemSized DEF addr, VexMem
<1>5. e.index = e0.index /\ e.index.idx \in 0..31 /\ e0.index \in AllRegs
  BY ExprRegs DEF e
<1>6. TupleUnit(j) = 1
  BY <1>3 DEF TupleUnit
<1>7. p67 <=> Is32bit(addr)
  BY <1>4 DEF p67, Is32bit, IsVecMem
<1>8. ASSUME IsVec(e.index) PROVE VecSize(j) = e.index.bit /\ (j.p.V4 <=> IsExtIdx2(e.index))
  <2>1. e.index \in DOMAIN s.coef
    <3>1. DOMAIN Linear(e0.base, e0.index, e0.scale) = {e0.base, e0.index} \ {NoReg}
      BY DEF Linear
    <3>2. e0.index # NoReg
      BY <1>5, <1>8, RegKinds
    <3>3. s.coef = Linear(e0.base, e0.index, e0.scale)
      BY DEF Good, Matches, Coef
    <3>4. QED BY <1>5, <3>1, <3>2, <3>3
  <2>2. e.index.idx <= 15
    BY <1>3, <1>5, <1>8, <2>1
  <2>3. ~IsExtIdx2(e.index)
    BY <1>5, <2>2, NumberBits
  <2>4. j.p.L = IF r.bit = 256 THEN 1 ELSE 0
    BY <1>3, <1>5, <1>8
  <2>5. j.opc.shape = "gather" /\ e.index.bit = r.bit /\ r.bit \in {128, 256}
    BY <1>5, <1>8
  <2>6. VecSize(j) = r.bit
    BY <1>3, <2>4, <2>5 DEF VecSize, EmbeddedRounding
  <2>7. QED BY <1>3, <2>3, <2>5, <2>6
<1>9. Suits(j, addr, e)
  BY <1>3, <1>4, <1>5, <1>6, <1>7, <1>8 DEF Suits
<1>10. e = Optimize(e0)
  BY DEF e
<1>11. AddressIs(j, s)
  BY <1>1, <1>2, <1>3, <1>4, <1>9, <1>10, AddressHolds
<1>12. QED BY <1>3, <1>11

\* The unit of a displacement that the encoder uses is that of the tuple type.
OpUnit(o, bit, b, j) == Disp8N(o.type, bit, b) = TupleUnit(j) /\ TupleUnit(j) \in Nat \ {0}

LEMMA TupleIs ==
  ASSUME NEW o \in VexOps, o.type \cap {"EVEX", "MUST_EVEX"} # {}, NEW bit \in {128, 256, 512}, NEW b \in BOOLEAN,
         b => o.type \cap {"B32", "B64"} # {}, NEW j, j.p.enc = "evex", j.p.b = b,
         j.opc.tuple = o.tuple, j.opc.element = o.element,
         VecSize(j) = IF o.shape = "vec" /\ o.tuple = "scalar" THEN 128 ELSE bit
  PROVE  OpUnit(o, bit, b, j)
<1>1. CASE o = vaddps
  <2>1. o.type = {"0F", "W0", "YMM", "EVEX", "ER_Z", "B32"} /\ o.tuple = "full" /\ o.element = 4
    BY <1>1, VexOpsAre DEF IsVecOp
  <2>2. QED BY <2>1 DEF OpUnit, Disp8N, TupleUnit
<1>2. CASE o = vaddpd
  <2>1. o.type = {"66", "0F", "EW1", "YMM", "EVEX", "ER_Z", "B64"} /\ o.tuple = "full" /\ o.element = 8
    BY <1>2, VexOpsAre DEF IsVecOp
  <2>2. QED BY <2>1 DEF OpUnit, Disp8N, TupleUnit
<1>3. CASE o = vaddss
  <2>1. o.type = {"F3", "0F", "W0", "EVEX", "ER_X", "N4"} /\ o.tuple = "scalar" /\ o.element = 4
    BY <1>3, VexOpsAre DEF IsVecOp
  <2>2. QED BY <2>1 DEF OpUnit, Disp8N, TupleUnit
<1>4. CASE o = vmaxps
  <2>1. o.type = {"0F", "W0", "YMM", "EVEX", "SAE_Z", "B32"} /\ o.tuple = "full" /\ o.element = 4
    BY <1>4, VexOpsAre DEF IsVecOp
  <2>2. QED BY <2>1 DEF OpUnit, Disp8N, TupleUnit
<1>5. CASE o = vcvtps2pd
  <2>1. o.type = {"0F", "YMM", "EVEX", "W0", "B32", "N8", "N_VL", "SAE_Y"} /\ o.tuple = "half" /\ o.element = 4
    BY <1>5, VexOpsAre DEF IsVecOp
  <2>2. QED BY <2>1 DEF OpUnit, Disp8N, TupleUnit
<1>6. CASE o = vpmovzxbq
  <2>1. o.type = {"N2", "N_VL", "66", "0F38", "YMM", "EVEX"} /\ o.tuple = "eighth"
    BY <1>6, VexOpsAre DEF IsVecOp
  <2>2. QED BY <2>1 DEF OpUnit, Disp8N, TupleUnit
<1>7. CASE o = vmovddup
  <2>1. o.type = {"DUP", "F2", "0F", "EW1", "YMM", "EVEX"} /\ o.tuple = "movddup"
    BY <1>7, VexOpsAre DEF IsVecOp
  <2>2. QED BY <2>1 DEF OpUnit, Disp8N, TupleUnit
<1>8. CASE o = vextractf32x4
  <2>1. o.type = {"N16", "66", "0F3A", "W0", "YMM", "MUST_EVEX", "M_K"} /\ o.tuple = "mem128"
    BY <1>8, VexOpsAre DEF IsVecOp
  <2>2. QED BY <2>1 DEF OpUnit, Disp8N, TupleUnit
<1>9. CASE o = vgatherdps
  <2>1. o.type = {"0F38", "66", "YMM", "VSIB", "W0"}
    BY <1>9, VexOpsAre DEF IsVecOp
  <2>2. QED BY <2>1
<1>10. CASE o = vgatherdpsEvex
  <2>1. o.type = {"N4", "66", "0F38", "W0", "YMM", "MUST_EVEX", "VSIB"} /\ o.tuple = "scalar" /\ o.element = 4
    BY <1>10, VexOpsAre DEF IsVecOp
  <2>2. QED BY <2>1 DEF OpUnit, Disp8N, TupleUnit
<1>11. QED BY <1>1, <1>2, <1>3, <1>4, <1>5, <1>6, <1>7, <1>8, <1>9, <1>10 DEF VexOps

LEMMA EvexPrefix ==
  ASSUME NEW e0, NEW s, Good(e0, s), NEW op, IsMem(op), GetRegExp(op) = Optimize(e0), op.broadcast \in BOOLEAN,
         NEW r, NEW v, NEW type, NEW attr, attr.rnd = 0, attr.zero \in BOOLEAN, NeedsEvex(r, v, op, type, attr), NEW n
  PROVE  /\ Reaches(OpVex(r, v, op, type, attr, n).p, Optimize(e0))
         /\ EvexReads(OpVex(r, v, op, type, attr, n).p, r, v, Optimize(e0), op.broadcast, op)
<1>1. PICK e : e = Optimize(e0)
  OBVIOUS
<1>2. PICK b \in BOOLEAN : b = op.broadcast
  OBVIOUS
<1>3. PICK z \in BOOLEAN : z = attr.zero
  OBVIOUS
<1>4. PICK k : k = MemMask(op, attr)
  OBVIOUS
<1>5. OpVex(r, v, op, type, attr, n).p = WithP67(Evex(r, e.base, v, e.index, type, op.broadcast, MemMask(op, attr), attr.zero, attr.rnd), op)
  BY <1>1, OpVexMEvex
<1>6. OpVex(r, v, op, type, attr, n).p = WithP67(Evex(r, e.base, v, e.index, type, b, k, z, 0), op)
  BY <1>2, <1>3, <1>4, <1>5
<1>7. /\ Reaches(WithP67(Evex(r, e.base, v, e.index, type, b, k, z, 0), op), e)
      /\ EvexReads(WithP67(Evex(r, e.base, v, e.index, type, b, k, z, 0), op), r, v, e, b, op)
  BY <1>1, EvexReaches
<1>8. QED BY <1>1, <1>2, <1>6, <1>7

LEMMA EvexAddress ==
  ASSUME NEW e0, NEW s, Good(e0, s), NEW op, IsVecMem(op, e0), NEW r, r.bit \in {128, 256, 512},
         NEW v, v.bit = r.bit, NEW o \in VexOps, NEW attr, attr.rnd = 0, attr.zero \in BOOLEAN, NEW n,
         OpVexOk(r, v, op, o.type, attr), NeedsEvex(r, v, op, o.type, attr),
         NEW j, j.p = OpVex(r, v, op, o.type, attr, n).p, j.m = OpVex(r, v, op, o.type, attr, n).m,
         j.opc.shape = o.shape, j.opc.tuple = o.tuple, j.opc.element = o.element,
         j.m.present \/ j.m.size = 8, ImmRead(j) \in Int, s.rip /\ s.asPtr => n = ImmRead(j),
         IsVec(e0.index) <=> o.shape = "gather",
         IsVec(e0.index) => e0.index.bit = r.bit /\ ~IsExtIdx2(v)
  PROVE  AddressIs(j, s)
<1> DEFINE e == Optimize(e0)
           mask == MemMask(op, attr)
           b == op.broadcast
           N == Disp8N(o.type, EvexVL(r, e.base, v, e.index), b)
           addr == VexMem(op, o.type, n, N)
<1>1. /\ IsMem(op) /\ (AddressMode(e0) = "ModRM" => InInt32(e0.disp)) /\ GetRegExp(op) = e
      /\ o.type \cap {"EVEX", "MUST_EVEX"} # {} /\ (b => o.type \cap {"B32", "B64"} # {})
  BY OpVexMOk
<1>2. b \in BOOLEAN
  BY DEF IsVecMem
<1>3. /\ e.index = e0.index /\ e.index.idx \in 0..31 /\ e0.index \in AllRegs
      /\ (IsGp(e.base) \/ e.base = NoReg) /\ ~IsVec(e.base)
  BY ExprRegs
<1>4. e.base.bit \in {0, 32, 64}
  <2>1. e.base # NoReg => e.base.bit = IF Is32bit([exp |-> e0]) THEN 32 ELSE 64
    BY Optimized
  <2>2. NoReg.bit = 0
    BY NoRegForm
  <2> HIDE DEF e
  <2>3. QED BY <2>1, <2>2
<1> HIDE DEF e, mask, b, N, addr
<1>5. EvexVL(r, e.base, v, e.index) = r.bit
  <2>1. e.base.bit \in {0, 8, 16, 32, 64, r.bit}
    BY <1>4
  <2>2. IsVec(e.index) => e.index.bit = r.bit
    BY <1>3
  <2>3. QED BY <2>1, <2>2, EvexVLIs
<1>6. j.m = OpAddr(addr, r.idx)
  BY <1>1, OpVexMEvex DEF addr, N, b
<1>7. j.p = OpVex(r, v, op, o.type, attr, n).p
  OBVIOUS
<1>8. Reaches(j.p, e) /\ EvexReads(j.p, r, v, e, b, op)
  BY <1>1, <1>2, <1>7, EvexPrefix DEF e, b
<1>9. /\ j.p.p67 = Is32bit(op) /\ j.p.enc = "evex" /\ j.p.b = b
      /\ j.p.V4 = (IsExtIdx2(v) \/ (IsVec(e.index) /\ IsExtIdx2(e.index)))
      /\ j.p.L = IF r.bit >= 512 THEN 2 ELSE IF r.bit = 256 THEN 1 ELSE 0
  BY <1>5, <1>8 DEF EvexReads
<1>10. j.m.mod # 3
  BY <1>6, MemMod
<1>11. VecSize(j) = IF o.shape = "vec" /\ o.tuple = "scalar" THEN 128 ELSE r.bit
  <2>1. ~EmbeddedRounding(j)
    BY <1>10 DEF EmbeddedRounding
  <2>2. QED BY <1>9, <2>1 DEF VecSize
<1>12. OpUnit(o, r.bit, b, j)
  BY <1>1, <1>2, <1>9, <1>11, TupleIs
<1>13. N = TupleUnit(j) /\ TupleUnit(j) \in Nat \ {0}
  BY <1>5, <1>12 DEF OpUnit, N
<1>14. addr.exp = e0 /\ addr.mode = AddressMode(e0) /\ addr.immSize = n /\ addr.disp8N = N
  BY VecMemSized DEF addr, VexMem
<1>15. Is32bit(op) <=> Is32bit(addr)
  BY <1>14 DEF Is32bit, IsVecMem
<1>16. IsVec(e.index) => VecSize(j) = e.index.bit /\ (j.p.V4 <=> IsExtIdx2(e.index))
  <2>1. ASSUME IsVec(e.index) PROVE VecSize(j) = e.index.bit
    BY <1>3, <1>11, <2>1
  <2>2. ASSUME IsVec(e.index) PROVE j.p.V4 <=> IsExtIdx2(e.index)
    BY <1>3, <1>9, <2>2, ZenonT(30)
  <2>3. QED BY <2>1, <2>2
<1>17. Suits(j, addr, e)
  BY <1>3, <1>9, <1>13, <1>14, <1>15, <1>16 DEF Suits
<1>18. e = Optimize(e0)
  BY DEF e
<1>19. QED BY <1>1, <1>6, <1>8, <1>14, <1>17, <1>18, AddressHolds

-----------------------------------------------------------------------------
(* Actions.                                                                *)

AddrKept(j, w) ==
  /\ w.mem
  /\ ~(~j.m.present /\ j.m.size # 8)
  /\ ~(j.p.enc = "leg" /\ \E r \in DOMAIN w.sum.coef : r.bit = 32)
  /\ ~(j.p.enc = "vex" /\ \E r \in DOMAIN w.sum.coef : IsVec(r) /\ r.idx > 15)
  /\ ~(j.p.enc = "leg" /\ w.sum.rip /\ w.sum.asPtr /\ j.opc.shape = "int8" /\ j.opc.imm = "ib")
  => AddressIs(j, w.sum)

LEMMA GoodIs == IInv /\ HasAddress => Good(expr, sum)
BY DEF IInv, HasAddress, Good, Matches, Coef, ExpressionIsSum

LEMMA ImmReadInt == \A j : ImmRead(j) \in Int
<1> TAKE j
<1>1. IntSize(j) \in {8, 16, 32, 64}
  BY DEF IntSize
<1>2. QED BY <1>1 DEF ImmRead, MinBit

LEMMA SumIsNone ==
  ASSUME IInv
  PROVE  sum # None
BY DEF IInv, Sums, None

LEMMA RmWritten ==
  ASSUME IInv, NEW v, NEW op, NEW x
  PROVE  /\ ~IsMem(op) => WrittenRm(v, op, x).mem = FALSE
         /\ IsMem(op) => WrittenRm(v, op, x).sum = sum
BY SumIsNone DEF WrittenRm, Written

LEMMA NotMemory == \A j, w : w.mem = FALSE => AddrKept(j, w)
BY DEF AddrKept

LEMMA KeptMR ==
  ASSUME IInv, HasAddress, NEW j, NEW w, w.sum = sum, NEW a, IsMemOp(a, expr), NEW r, r.ext8 \in BOOLEAN, NEW type,
         NEW a0, IsMemOp(a0, expr), OpAddrOk(a0),
         j.p = OpMR(a, r, type).p, j.m = OpMR(a, r, type).m, j.opc.shape # "gather",
         a.immSize = j.imm.size, ImmKept(j, w)
  PROVE  AddrKept(j, w)
<1>1. Good(expr, sum)
  BY GoodIs
<1>2. ~IsVec(expr.index) /\ (AddressMode(expr) = "ModRM" => InInt32(expr.disp))
  BY AddrOkIs
<1>3. a.immSize = ImmRead(j) /\ ImmRead(j) \in Int
  BY ImmReadInt DEF ImmKept
<1>4. j.m.present \/ j.m.size = 8 => AddressIs(j, sum)
  BY <1>1, <1>2, <1>3, MRAddress
<1>5. QED BY <1>4 DEF AddrKept

LEMMA KeptROO ==
  ASSUME IInv, HasAddress, NEW j, NEW w, w.sum = sum, NEW a, IsMemOp(a, expr), NEW r, ~IsMem(r), NEW d, NEW type, NEW n,
         NEW op1, NEW op2, (op1 = a /\ op2 = r) \/ (op2 = a /\ op1 = r), OpROOOk(op1, op2, type),
         j.p = OpROO(d, op1, op2, type, n).p, j.m = OpROO(d, op1, op2, type, n).m,
         j.opc.shape # "gather", j.imm.size = n \/ (j.opc.shape = "int8" /\ j.opc.imm = "ib"), ImmKept(j, w)
  PROVE  AddrKept(j, w)
<1>1. Good(expr, sum)
  BY GoodIs
<1>2. j.p.enc = "leg"
  <2>1. IsMem(a)
    BY DEF IsMem, IsMemOp
  <2>2. \E b, x : j.p = EvexLeg(r, b, x, d, type)
    BY <2>1 DEF OpROO, Parts
  <2>3. PICK b, x : j.p = EvexLeg(r, b, x, d, type)
    BY <2>2
  <2>4. LegFields(j.p, r, b, x, d, type)
    BY <2>3, EvexLegIs
  <2>5. QED BY <2>4 DEF LegFields
<1>3. SUFFICES ASSUME j.m.present \/ j.m.size = 8, ~\E x \in DOMAIN sum.coef : x.bit = 32,
                      ~(sum.rip /\ sum.asPtr /\ j.opc.shape = "int8" /\ j.opc.imm = "ib")
               PROVE  AddressIs(j, sum)
  BY <1>2 DEF AddrKept
<1>4. j.imm.size = ImmRead(j) /\ ImmRead(j) \in Int
  BY ImmReadInt DEF ImmKept
<1>5. sum.rip /\ sum.asPtr => n = ImmRead(j)
  BY <1>3, <1>4
<1>6. QED BY <1>1, <1>3, <1>4, <1>5, ROOAddress

LEMMA KeptRext ==
  ASSUME IInv, NEW bits, NEW op \in RmOps(bits), NEW n \in 0..7, NEW type, NEW d, NEW size, NEW j, NEW w,
         IsMem(op) => /\ OpRextOk(op, n, type, d)
                      /\ j.p = OpRext(op, n, type, d, size).p /\ j.m = OpRext(op, n, type, d, size).m
         , j.opc.shape = "int8", j.imm.size = size, NEW v, NEW x, w = WrittenRm(v, op, x), ImmKept(j, w),
         RextAPX(op, type, d) => size = 0 \/ j.opc.imm = "ib"
  PROVE  AddrKept(j, w)
<1>1. CASE ~IsMem(op)
  BY <1>1, RmWritten, NotMemory
<1>2. CASE IsMem(op)
  <2> DEFINE r == RextReg(op, n)
             a == [op EXCEPT !.immSize = size]
             rd == RextDest(op, d)
  <2>1. op = MemOp(op.bit) /\ HasAddress /\ w.sum = sum
    BY <1>2, RmOpsAre, RmWritten
  <2>2. IsMemOp(op, expr)
    BY <2>1, MemOpIs
  <2>3. IsMemOp(a, expr) /\ a.immSize = size
    BY <2>2, MemOpSized
  <2>4. r.ext8 = FALSE /\ ~IsMem(r)
    BY DEF RextReg, Gp, IsMem
  <2> HIDE DEF r, a, rd
  <2>5. CASE RextAPX(op, type, d)
    <3>1. OpROOOk(op, r, type)
      BY <1>2, <2>5 DEF OpRextOk, r
    <3>2. j.p = OpROO(rd, op, r, type, 0).p /\ j.m = OpROO(rd, op, r, type, 0).m
      BY <1>2, <2>5 DEF OpRext, r, rd
    <3>3. j.imm.size = 0 \/ (j.opc.shape = "int8" /\ j.opc.imm = "ib")
      BY <2>5
    <3>4. QED BY <2>1, <2>2, <2>4, <3>1, <3>2, <3>3, KeptROO
  <2>6. CASE ~RextAPX(op, type, d)
    <3>1. OpAddrOk(op)
      BY <1>2, <2>6 DEF OpRextOk, OpMROk
    <3>2. j.p = OpMR(a, r, type).p /\ j.m = OpMR(a, r, type).m
      BY <1>2, <2>6 DEF OpRext, r, a
    <3>3. a.immSize = j.imm.size
      BY <2>3
    <3>4. j.opc.shape # "gather"
      OBVIOUS
    <3>5. r.ext8 \in BOOLEAN
      BY <2>4
    <3>6. QED BY <2>1, <2>2, <2>3, <3>1, <3>2, <3>3, <3>4, <3>5, KeptMR
  <2>7. QED BY <2>5, <2>6
<1>3. QED BY <1>1, <1>2

LEMMA ArithImmAddr == ASSUME IInv, ArithImm PROVE AddrKept(i', want')
<1>1. PICK op \in RmOps({8, 16, 32, 64}), imm \in Imms :
        LET w == GetImmBit(op, imm)
            short == IsGp(op) /\ op.idx = 0 /\ (op.bit = w \/ (op.bit = 64 /\ w = 32))
            sx == ~short /\ w < MinBit(op.bit, 32)
        IN  /\ w # 0
            /\ short \/ OpRextOk(op, ext, {}, NoReg)
            /\ Emit([add EXCEPT !.imm = IF sx THEN "ibs" ELSE "iz"], IF short THEN "acc" ELSE "ext", FALSE,
                    IF short THEN Accumulator(op, w # 8) ELSE OpRext(op, ext, {}, NoReg, w \div 8),
                    Immediate(w \div 8, sx, imm), WrittenRm(NoReg, op, Signed(imm, Half32)))
  BY DEF ArithImm
<1> DEFINE w == GetImmBit(op, imm)
           short == IsGp(op) /\ op.idx = 0 /\ (op.bit = w \/ (op.bit = 64 /\ w = 32))
           sx == ~short /\ w < MinBit(op.bit, 32)
           how == IF sx THEN "ibs" ELSE "iz"
           o == [add EXCEPT !.imm = how]
           where == IF short THEN "acc" ELSE "ext"
           size == w \div 8
           parts == IF short THEN Accumulator(op, w # 8) ELSE OpRext(op, ext, {}, NoReg, size)
           x == Signed(imm, Half32)
           wr == WrittenRm(NoReg, op, x)
<1>2. /\ short \/ OpRextOk(op, ext, {}, NoReg)
      /\ Emit(o, where, FALSE, parts, Immediate(size, sx, imm), wr)
  BY <1>1
<1>3. o.shape = "int8"
  BY DEF add, Op
<1>4. IsMem(op) => /\ OpRextOk(op, ext, {}, NoReg)
                   /\ parts = OpRext(op, ext, {}, NoReg, size)
  BY <1>2, RmOpsAre
<1> HIDE DEF how, o, where, parts, wr, sx, short, size, x
<1>5. Emitted(i', o, where, FALSE, parts, Immediate(size, sx, imm)) /\ want' = wr
  BY <1>2, EmitIs
<1>6. i'.p = parts.p /\ i'.m = parts.m /\ i'.opc.shape = "int8" /\ i'.imm.size = size
  BY <1>3, <1>5 DEF Emitted, Immediate
<1>7. ImmKept(i', want')
  BY ArithImmKeeps
<1>8. ext \in 0..7 /\ ~RextAPX(op, {}, NoReg)
  BY DEF ext, RextAPX
<1>9. want' = WrittenRm(NoReg, op, x)
  BY <1>5 DEF wr
<1>10. IsMem(op) => /\ OpRextOk(op, ext, {}, NoReg)
                    /\ i'.p = OpRext(op, ext, {}, NoReg, size).p /\ i'.m = OpRext(op, ext, {}, NoReg, size).m
  BY <1>4, <1>6
<1>11. QED BY <1>6, <1>7, <1>8, <1>9, <1>10, KeptRext

LEMMA TestImmAddr == ASSUME IInv, TestImm PROVE AddrKept(i', want')
<1>1. PICK op \in RmOps({8, 16, 32, 64}), imm \in Imms :
        LET size == MinBit(op.bit, 32) \div 8
            short == IsGp(op) /\ op.idx = 0
        IN  /\ short \/ OpRextOk(op, 0, {}, NoReg)
            /\ Emit([add EXCEPT !.imm = "iz"], IF short THEN "acc" ELSE "ext", FALSE,
                    IF short THEN Accumulator(op, op.bit # 8) ELSE OpRext(op, 0, {}, NoReg, size),
                    Immediate(size, FALSE, imm), WrittenRm(NoReg, op, Signed(imm, Half32)))
  BY DEF TestImm
<1> DEFINE size == MinBit(op.bit, 32) \div 8
           short == IsGp(op) /\ op.idx = 0
           o == [add EXCEPT !.imm = "iz"]
           where == IF short THEN "acc" ELSE "ext"
           parts == IF short THEN Accumulator(op, op.bit # 8) ELSE OpRext(op, 0, {}, NoReg, size)
           x == Signed(imm, Half32)
           wr == WrittenRm(NoReg, op, x)
<1>2. /\ short \/ OpRextOk(op, 0, {}, NoReg)
      /\ Emit(o, where, FALSE, parts, Immediate(size, FALSE, imm), wr)
  BY <1>1
<1>3. o.shape = "int8"
  BY DEF add, Op
<1>4. IsMem(op) => /\ OpRextOk(op, 0, {}, NoReg)
                   /\ parts = OpRext(op, 0, {}, NoReg, size)
  BY <1>2, RmOpsAre
<1> HIDE DEF o, where, parts, wr, short, size, x
<1>5. Emitted(i', o, where, FALSE, parts, Immediate(size, FALSE, imm)) /\ want' = wr
  BY <1>2, EmitIs
<1>6. i'.p = parts.p /\ i'.m = parts.m /\ i'.opc.shape = "int8" /\ i'.imm.size = size
  BY <1>3, <1>5 DEF Emitted, Immediate
<1>7. ImmKept(i', want')
  BY TestImmKeeps
<1>8. 0 \in 0..7 /\ ~RextAPX(op, {}, NoReg)
  BY DEF RextAPX
<1>9. want' = WrittenRm(NoReg, op, x)
  BY <1>5 DEF wr
<1>10. IsMem(op) => /\ OpRextOk(op, 0, {}, NoReg)
                    /\ i'.p = OpRext(op, 0, {}, NoReg, size).p /\ i'.m = OpRext(op, 0, {}, NoReg, size).m
  BY <1>4, <1>6
<1>11. PICK n \in 0..7 : n = 0
  BY <1>8
<1>12. QED BY <1>6, <1>7, <1>8, <1>9, <1>10, <1>11, KeptRext

LEMMA ShiftAddr == ASSUME IInv, Shift PROVE AddrKept(i', want')
<1>1. PICK d \in Gps \cup {NoReg}, imm \in {1, 3} : \E op \in RmOps(IF IsGp(d) THEN {d.bit} ELSE {8, 16, 32, 64}) :
        LET type == {"APX", "CODE1", "NF"} \cup (IF IsGp(d) THEN {"ND1"} ELSE {})
            size == IF imm = 1 THEN 0 ELSE 1
        IN  /\ OpRextOk(op, ext, type, d)
            /\ Emit([Op("int8", type) EXCEPT !.imm = IF imm = 1 THEN "none" ELSE "ib"], "ext", FALSE,
                    OpRext(op, ext, type, d, size), Immediate(size, FALSE, imm), WrittenRm(d, op, imm))
  BY DEF Shift
<1>2. PICK op \in RmOps(IF IsGp(d) THEN {d.bit} ELSE {8, 16, 32, 64}) :
        LET type == {"APX", "CODE1", "NF"} \cup (IF IsGp(d) THEN {"ND1"} ELSE {})
            size == IF imm = 1 THEN 0 ELSE 1
        IN  /\ OpRextOk(op, ext, type, d)
            /\ Emit([Op("int8", type) EXCEPT !.imm = IF imm = 1 THEN "none" ELSE "ib"], "ext", FALSE,
                    OpRext(op, ext, type, d, size), Immediate(size, FALSE, imm), WrittenRm(d, op, imm))
  BY <1>1
<1> DEFINE type == {"APX", "CODE1", "NF"} \cup (IF IsGp(d) THEN {"ND1"} ELSE {})
           size == IF imm = 1 THEN 0 ELSE 1
           how == IF imm = 1 THEN "none" ELSE "ib"
           o == [Op("int8", type) EXCEPT !.imm = how]
           parts == OpRext(op, ext, type, d, size)
           wr == WrittenRm(d, op, imm)
<1>3. OpRextOk(op, ext, type, d) /\ Emit(o, "ext", FALSE, parts, Immediate(size, FALSE, imm), wr)
  BY <1>2
<1>4. o.shape = "int8" /\ o.imm = how
  BY DEF Op
<1>5. size = 0 \/ how = "ib"
  OBVIOUS
<1> HIDE DEF how, o, parts, wr, type, size
<1>6. Emitted(i', o, "ext", FALSE, parts, Immediate(size, FALSE, imm)) /\ want' = wr
  BY <1>3, EmitIs
<1>7. i'.p = parts.p /\ i'.m = parts.m /\ i'.opc.shape = "int8" /\ i'.imm.size = size /\ i'.opc.imm = how
  BY <1>4, <1>6 DEF Emitted, Immediate
<1>8. ImmKept(i', want')
  BY ShiftKeeps
<1>9. ext \in 0..7
  BY DEF ext
<1>10. want' = WrittenRm(d, op, imm)
  BY <1>6 DEF wr
<1>11. i'.p = OpRext(op, ext, type, d, size).p /\ i'.m = OpRext(op, ext, type, d, size).m
  BY <1>7 DEF parts
<1>12. size = 0 \/ i'.opc.imm = "ib"
  BY <1>5, <1>7
<1>13. QED BY <1>3, <1>7, <1>8, <1>9, <1>10, <1>11, <1>12, KeptRext

LEMMA Arith3ImmAddr == ASSUME IInv, Arith3Imm PROVE AddrKept(i', want')
<1>1. PICK d \in Gps, imm \in Imms : \E op \in RmOps({d.bit}) :
        LET w == GetImmBit(d, imm)
            sx == w < MinBit(d.bit, 32)
        IN  /\ w # 0 /\ OpROOOk(op, Gp(ext, d.bit), add3.type)
            /\ Emit([add3 EXCEPT !.imm = IF sx THEN "ibs" ELSE "iz"], "ext", FALSE,
                    OpROO(d, op, Gp(ext, d.bit), add3.type, w \div 8),
                    Immediate(w \div 8, sx, imm), WrittenRm(d, op, Signed(imm, Half32)))
  BY DEF Arith3Imm
<1>2. PICK op \in RmOps({d.bit}) :
        LET w == GetImmBit(d, imm)
            sx == w < MinBit(d.bit, 32)
        IN  /\ w # 0 /\ OpROOOk(op, Gp(ext, d.bit), add3.type)
            /\ Emit([add3 EXCEPT !.imm = IF sx THEN "ibs" ELSE "iz"], "ext", FALSE,
                    OpROO(d, op, Gp(ext, d.bit), add3.type, w \div 8),
                    Immediate(w \div 8, sx, imm), WrittenRm(d, op, Signed(imm, Half32)))
  BY <1>1
<1> DEFINE size == GetImmBit(d, imm) \div 8
           sx == GetImmBit(d, imm) < MinBit(d.bit, 32)
           how == IF sx THEN "ibs" ELSE "iz"
           o == [add3 EXCEPT !.imm = how]
           r == Gp(ext, d.bit)
           type == add3.type
           parts == OpROO(d, op, r, type, size)
           x == Signed(imm, Half32)
           wr == WrittenRm(d, op, x)
<1>3. OpROOOk(op, r, type) /\ Emit(o, "ext", FALSE, parts, Immediate(size, sx, imm), wr)
  BY <1>2
<1>4. o.shape = "int8"
  BY DEF add3, Op
<1>5. ~IsMem(r)
  BY DEF IsMem, Gp
<1> HIDE DEF how, o, parts, wr, type, size, sx, r, x
<1>6. Emitted(i', o, "ext", FALSE, parts, Immediate(size, sx, imm)) /\ want' = wr
  BY <1>3, EmitIs
<1>7. i'.p = parts.p /\ i'.m = parts.m /\ i'.opc.shape # "gather" /\ i'.imm.size = size
  BY <1>4, <1>6 DEF Emitted, Immediate
<1>8. ImmKept(i', want')
  BY Arith3ImmKeeps
<1>9. CASE ~IsMem(op)
  BY <1>6, <1>9, RmWritten, NotMemory DEF wr
<1>10. CASE IsMem(op)
  <2>1. op = MemOp(op.bit) /\ HasAddress /\ want'.sum = sum
    BY <1>6, <1>10, RmOpsAre, RmWritten DEF wr
  <2>2. IsMemOp(op, expr)
    BY <2>1, MemOpIs
  <2>3. i'.p = OpROO(d, op, r, type, size).p /\ i'.m = OpROO(d, op, r, type, size).m
    BY <1>7 DEF parts
  <2>4. QED BY <1>3, <1>5, <1>7, <1>8, <2>1, <2>2, <2>3, KeptROO
<1>11. QED BY <1>9, <1>10

LEMMA MovImmMemAddr == ASSUME IInv, MovImmMem PROVE AddrKept(i', want')
<1>1. HasAddress
  BY DEF MovImmMem
<1>2. PICK bit \in {8, 16, 32, 64}, imm \in Imms :
        LET size == MinBit(bit, 32) \div 8
            addr == [MemOp(bit) EXCEPT !.immSize = size]
        IN  /\ OpMROk(addr, Gp(0, bit), {})
            /\ Emit([add EXCEPT !.imm = "iz"], "ext", FALSE, OpMR(addr, Gp(0, bit), {}),
                    Immediate(size, FALSE, imm), Written(NoReg, NoReg, NoReg, sum, FALSE, NoAttr, imm))
  BY ZenonT(30) DEF MovImmMem
<1> DEFINE size == MinBit(bit, 32) \div 8
           addr == [MemOp(bit) EXCEPT !.immSize = size]
           r == Gp(0, bit)
           o == [add EXCEPT !.imm = "iz"]
           parts == OpMR(addr, r, {})
           wr == Written(NoReg, NoReg, NoReg, sum, FALSE, NoAttr, imm)
<1>3. OpMROk(addr, r, {}) /\ Emit(o, "ext", FALSE, parts, Immediate(size, FALSE, imm), wr)
  BY <1>2
<1>4. o.shape = "int8" /\ r.ext8 \in BOOLEAN
  BY DEF add, Op, Gp
<1>5. wr.sum = sum
  BY SumIsNone DEF Written
<1> HIDE DEF size
<1>6. IsMemOp(addr, expr) /\ addr.immSize = size
  BY MemOpIs, MemOpSized
<1>7. OpAddrOk(addr)
  BY <1>3 DEF OpMROk
<1> HIDE DEF o, addr, r, wr, parts
<1>8. Emitted(i', o, "ext", FALSE, parts, Immediate(size, FALSE, imm)) /\ want' = wr
  BY <1>3, EmitIs
<1>9. i'.p = parts.p /\ i'.m = parts.m /\ i'.opc.shape # "gather" /\ i'.imm.size = size
  BY <1>4, <1>8 DEF Emitted, Immediate
<1>10. ImmKept(i', want')
  BY MovImmMemKeeps
<1>11. i'.p = OpMR(addr, r, {}).p /\ i'.m = OpMR(addr, r, {}).m
  BY <1>9 DEF parts
<1>12. want'.sum = sum /\ addr.immSize = i'.imm.size
  BY <1>5, <1>6, <1>8, <1>9
<1>13. QED BY <1>1, <1>4, <1>6, <1>7, <1>9, <1>10, <1>11, <1>12, KeptMR

\* opROO, or opMR, of the same memory operand.
LEMMA KeptEither ==
  ASSUME IInv, HasAddress, NEW j, NEW w, w.sum = sum, NEW a, IsMemOp(a, expr), NEW r, ~IsMem(r), r.ext8 \in BOOLEAN,
         NEW d, NEW type, NEW type2, NEW size, NEW apx, NEW sized, IsMemOp(sized, expr), sized.immSize = size,
         apx => OpROOOk(a, r, type) /\ j.p = OpROO(d, a, r, type, size).p /\ j.m = OpROO(d, a, r, type, size).m,
         ~apx => OpMROk(sized, r, type2) /\ j.p = OpMR(sized, r, type2).p /\ j.m = OpMR(sized, r, type2).m,
         j.opc.shape # "gather", j.imm.size = size, ImmKept(j, w)
  PROVE  AddrKept(j, w)
<1>1. CASE apx
  <2>1. OpROOOk(a, r, type) /\ j.p = OpROO(d, a, r, type, size).p /\ j.m = OpROO(d, a, r, type, size).m
    BY <1>1
  <2>2. QED BY <2>1, KeptROO
<1>2. CASE ~apx
  <2>1. OpMROk(sized, r, type2) /\ j.p = OpMR(sized, r, type2).p /\ j.m = OpMR(sized, r, type2).m
    BY <1>2
  <2>2. OpAddrOk(sized)
    BY <2>1 DEF OpMROk
  <2>3. sized.immSize = j.imm.size
    OBVIOUS
  <2>4. QED BY <2>1, <2>2, <2>3, KeptMR
<1>3. QED BY <1>1, <1>2

Sized(a, n) == [a EXCEPT !.immSize = n]
LEMMA SizedIs ==
  ASSUME NEW a, NEW e0, IsMemOp(a, e0), NEW n
  PROVE  IsMemOp(Sized(a, n), e0) /\ Sized(a, n).immSize = n
BY MemOpSized DEF Sized

WithReg(w, r) == [w EXCEPT !.reg = r]
LEMMA RegSet ==
  ASSUME IInv, NEW v, NEW op, NEW x, NEW r
  PROVE  /\ ~IsMem(op) => WithReg(WrittenRm(v, op, x), r).mem = FALSE
         /\ IsMem(op) => WithReg(WrittenRm(v, op, x), r).sum = sum
BY SumIsNone DEF WrittenRm, Written, WithReg

LEMMA ImulImmAddr == ASSUME IInv, ImulImm PROVE AddrKept(i', want')
<1>1. PICK r \in Gps, imm \in Imms : \E op \in RmOps({r.bit}) :
        LET s == InDisp8(imm)
            size == IF s THEN 1 ELSE IF r.bit = 16 THEN 2 ELSE 4
            apx == OpROOApplies(NoReg, op, r, {"APX"})
            o == [Op("int", IF apx THEN {"APX", "NF", "ZU"} ELSE {}) EXCEPT !.imm = IF s THEN "ibs" ELSE "iz"]
            sized == IF IsMem(op) THEN [op EXCEPT !.immSize = size] ELSE op
        IN  /\ r.bit > 8
            /\ IF apx THEN OpROOOk(op, r, o.type) ELSE IF IsMem(op) THEN OpMROk(sized, r, {}) ELSE OpRROk(r, op, {})
            /\ Emit(o, "modrm", FALSE,
                    IF apx THEN OpROO(NoReg, op, r, o.type, size)
                    ELSE IF IsMem(op) THEN OpMR(sized, r, {}) ELSE OpRR(r, op, {}),
                    Immediate(size, s, imm), [WrittenRm(NoReg, op, Signed(imm, Half32)) EXCEPT !.reg = r])
  BY DEF ImulImm
<1>2. PICK op \in RmOps({r.bit}) :
        LET s == InDisp8(imm)
            size == IF s THEN 1 ELSE IF r.bit = 16 THEN 2 ELSE 4
            apx == OpROOApplies(NoReg, op, r, {"APX"})
            o == [Op("int", IF apx THEN {"APX", "NF", "ZU"} ELSE {}) EXCEPT !.imm = IF s THEN "ibs" ELSE "iz"]
            sized == IF IsMem(op) THEN [op EXCEPT !.immSize = size] ELSE op
        IN  /\ r.bit > 8
            /\ IF apx THEN OpROOOk(op, r, o.type) ELSE IF IsMem(op) THEN OpMROk(sized, r, {}) ELSE OpRROk(r, op, {})
            /\ Emit(o, "modrm", FALSE,
                    IF apx THEN OpROO(NoReg, op, r, o.type, size)
                    ELSE IF IsMem(op) THEN OpMR(sized, r, {}) ELSE OpRR(r, op, {}),
                    Immediate(size, s, imm), [WrittenRm(NoReg, op, Signed(imm, Half32)) EXCEPT !.reg = r])
  BY <1>1
<1> DEFINE s == InDisp8(imm)
           size == IF s THEN 1 ELSE IF r.bit = 16 THEN 2 ELSE 4
           apx == OpROOApplies(NoReg, op, r, {"APX"})
           how == IF s THEN "ibs" ELSE "iz"
           type == IF apx THEN {"APX", "NF", "ZU"} ELSE {}
           o == [Op("int", type) EXCEPT !.imm = how]
           sized == IF IsMem(op) THEN [op EXCEPT !.immSize = size] ELSE op
           parts == IF apx THEN OpROO(NoReg, op, r, o.type, size)
                    ELSE IF IsMem(op) THEN OpMR(sized, r, {}) ELSE OpRR(r, op, {})
           x == Signed(imm, Half32)
           wr == WithReg(WrittenRm(NoReg, op, x), r)
<1>3. /\ IF apx THEN OpROOOk(op, r, o.type) ELSE IF IsMem(op) THEN OpMROk(sized, r, {}) ELSE OpRROk(r, op, {})
      /\ Emit(o, "modrm", FALSE, parts, Immediate(size, s, imm), wr)
  BY <1>2 DEF WithReg
<1>4. o.shape = "int" /\ o.type = type
  BY DEF Op
<1>5. ~IsMem(r) /\ r.ext8 \in BOOLEAN
  BY EncodingAssumption, GpForm
<1> HIDE DEF how, o, type, size, x, s, wr
<1>6. apx => OpROOOk(op, r, type) /\ parts = OpROO(NoReg, op, r, type, size)
  BY <1>3, <1>4
<1>7. IsMem(op) /\ ~apx => OpMROk(sized, r, {}) /\ parts = OpMR(sized, r, {})
  BY <1>3
<1>8. IsMem(op) => sized = Sized(op, size)
  BY DEF Sized
<1> HIDE DEF parts, apx, sized
<1>9. Emitted(i', o, "modrm", FALSE, parts, Immediate(size, s, imm)) /\ want' = wr
  BY <1>3, EmitIs
<1>10. i'.p = parts.p /\ i'.m = parts.m /\ i'.opc.shape # "gather" /\ i'.imm.size = size
  BY <1>4, <1>9 DEF Emitted, Immediate
<1>11. ImmKept(i', want')
  BY ImulImmKeeps
<1>12. CASE ~IsMem(op)
  BY <1>9, <1>12, RegSet, NotMemory DEF wr
<1>13. CASE IsMem(op)
  <2>1. op = MemOp(op.bit) /\ HasAddress /\ want'.sum = sum
    BY <1>9, <1>13, RmOpsAre, RegSet DEF wr
  <2>2. IsMemOp(op, expr)
    BY <2>1, MemOpIs
  <2>3. apx => OpROOOk(op, r, type) /\ i'.p = OpROO(NoReg, op, r, type, size).p /\ i'.m = OpROO(NoReg, op, r, type, size).m
    BY <1>6, <1>10
  <2>4. ~apx => OpMROk(sized, r, {}) /\ i'.p = OpMR(sized, r, {}).p /\ i'.m = OpMR(sized, r, {}).m
    BY <1>7, <1>10, <1>13
  <2>5. IsMemOp(sized, expr) /\ sized.immSize = size
    BY <1>8, <1>13, <2>2, SizedIs
  <2>6. QED BY <1>5, <1>10, <1>11, <2>1, <2>2, <2>3, <2>4, <2>5, KeptEither
<1>14. QED BY <1>12, <1>13

LEMMA ShxdAddr == ASSUME IInv, Shxd PROVE AddrKept(i', want')
<1>1. PICK d \in Gps \cup {NoReg}, r \in Gps : \E op \in RmOps({r.bit}) :
        LET type == {"APX", "NF"} \cup (IF IsGp(d) THEN {"ND1"} ELSE {})
            apx == OpROOApplies(d, op, r, type)
            o == [Op("int", IF apx THEN type ELSE {"0F"}) EXCEPT !.imm = "ib"]
            sized == IF IsMem(op) THEN [op EXCEPT !.immSize = 1] ELSE op
        IN  /\ r.bit > 8 /\ (IsGp(d) => d.bit = r.bit)
            /\ IF apx THEN OpROOOk(op, r, type) ELSE IF IsMem(op) THEN OpMROk(sized, r, o.type) ELSE OpRROk(r, op, o.type)
            /\ Emit(o, "modrm", FALSE,
                    IF apx THEN OpROO(d, op, r, type, 1)
                    ELSE IF IsMem(op) THEN OpMR(sized, r, o.type) ELSE OpRR(r, op, o.type),
                    Immediate(1, FALSE, 3), [WrittenRm(d, op, 3) EXCEPT !.reg = r])
  BY DEF Shxd
<1>2. PICK op \in RmOps({r.bit}) :
        LET type == {"APX", "NF"} \cup (IF IsGp(d) THEN {"ND1"} ELSE {})
            apx == OpROOApplies(d, op, r, type)
            o == [Op("int", IF apx THEN type ELSE {"0F"}) EXCEPT !.imm = "ib"]
            sized == IF IsMem(op) THEN [op EXCEPT !.immSize = 1] ELSE op
        IN  /\ r.bit > 8 /\ (IsGp(d) => d.bit = r.bit)
            /\ IF apx THEN OpROOOk(op, r, type) ELSE IF IsMem(op) THEN OpMROk(sized, r, o.type) ELSE OpRROk(r, op, o.type)
            /\ Emit(o, "modrm", FALSE,
                    IF apx THEN OpROO(d, op, r, type, 1)
                    ELSE IF IsMem(op) THEN OpMR(sized, r, o.type) ELSE OpRR(r, op, o.type),
                    Immediate(1, FALSE, 3), [WrittenRm(d, op, 3) EXCEPT !.reg = r])
  BY <1>1
<1> DEFINE type == {"APX", "NF"} \cup (IF IsGp(d) THEN {"ND1"} ELSE {})
           apx == OpROOApplies(d, op, r, type)
           otype == IF apx THEN type ELSE {"0F"}
           o == [Op("int", otype) EXCEPT !.imm = "ib"]
           sized == IF IsMem(op) THEN [op EXCEPT !.immSize = 1] ELSE op
           parts == IF apx THEN OpROO(d, op, r, type, 1)
                    ELSE IF IsMem(op) THEN OpMR(sized, r, o.type) ELSE OpRR(r, op, o.type)
           x == 3
           n == 1
           wr == WithReg(WrittenRm(d, op, x), r)
<1>3. /\ IF apx THEN OpROOOk(op, r, type) ELSE IF IsMem(op) THEN OpMROk(sized, r, o.type) ELSE OpRROk(r, op, o.type)
      /\ Emit(o, "modrm", FALSE, parts, Immediate(1, FALSE, 3), wr)
  BY <1>2 DEF WithReg
<1>4. o.shape = "int"
  BY DEF Op
<1>5. ~IsMem(r) /\ r.ext8 \in BOOLEAN
  BY EncodingAssumption, GpForm
<1> HIDE DEF o, type, wr, x, n
<1>6. apx => OpROOOk(op, r, type) /\ parts = OpROO(d, op, r, type, n)
  BY <1>3 DEF n
<1>7. IsMem(op) /\ ~apx => OpMROk(sized, r, o.type) /\ parts = OpMR(sized, r, o.type)
  BY <1>3
<1>8. IsMem(op) => sized = Sized(op, n)
  BY DEF Sized, n
<1> HIDE DEF parts, apx, sized
<1>9. Emitted(i', o, "modrm", FALSE, parts, Immediate(1, FALSE, 3)) /\ want' = wr
  BY <1>3, EmitIs
<1>10. i'.p = parts.p /\ i'.m = parts.m /\ i'.opc.shape # "gather" /\ i'.imm.size = n
  BY <1>4, <1>9 DEF Emitted, Immediate, n
<1>11. ImmKept(i', want')
  BY ShxdKeeps
<1>12. CASE ~IsMem(op)
  BY <1>9, <1>12, RegSet, NotMemory DEF wr
<1>13. CASE IsMem(op)
  <2>1. op = MemOp(op.bit) /\ HasAddress /\ want'.sum = sum
    BY <1>9, <1>13, RmOpsAre, RegSet DEF wr
  <2>2. IsMemOp(op, expr)
    BY <2>1, MemOpIs
  <2>3. apx => OpROOOk(op, r, type) /\ i'.p = OpROO(d, op, r, type, n).p /\ i'.m = OpROO(d, op, r, type, n).m
    BY <1>6, <1>10
  <2>4. ~apx => OpMROk(sized, r, o.type) /\ i'.p = OpMR(sized, r, o.type).p /\ i'.m = OpMR(sized, r, o.type).m
    BY <1>7, <1>10, <1>13
  <2>5. IsMemOp(sized, expr) /\ sized.immSize = n
    BY <1>8, <1>13, <2>2, SizedIs
  <2>6. QED BY <1>5, <1>10, <1>11, <2>1, <2>2, <2>3, <2>4, <2>5, KeptEither
<1>14. QED BY <1>12, <1>13

LEMMA LegacyShape ==
  /\ \A o \in LegacyOps : o.shape # "gather" /\ (o = movbe => o.imm = "none")
  /\ add.shape # "gather" /\ add3.shape # "gather" /\ cmov3.shape # "gather" /\ andn.shape = "int"
BY DEF LegacyOps, add, cmov, movzx8, movzx16, movbe, addps, pshufb, pshufd, add3, cmov3, andn, Op

LEMMA LegacyRegsAre ==
  ASSUME NEW o, NEW r \in LegacyRegs(o)
  PROVE  r \in GpRegs \cup VecRegs
BY EncodingAssumption DEF LegacyRegs

LEMMA WrittenSum ==
  ASSUME IInv, NEW a, NEW b, NEW c, NEW d, NEW e, NEW f
  PROVE  Written(a, b, c, sum, d, e, f).sum = sum
BY SumIsNone DEF Written

LEMMA LegacyMAddr == ASSUME IInv, LegacyM PROVE AddrKept(i', want')
<1>1. HasAddress
  BY DEF LegacyM
<1>2. PICK o \in LegacyOps, load \in BOOLEAN : (load \/ o = add) /\ \E r \in LegacyRegs(o), imm \in Imm8(o) :
        \E bit \in SourceSizes(o, r) :
        LET addr == [MemOp(bit) EXCEPT !.immSize = imm.size]
            apx == o = movbe /\ OpROOApplies(NoReg, addr, r, {"APX"})
            parts == IF apx THEN OpROO(NoReg, addr, r, {"APX"}, 0) ELSE OpMR(addr, r, o.type)
        IN  /\ IF apx THEN OpROOOk(addr, r, {"APX"}) ELSE OpMROk(addr, r, o.type)
            /\ Emit(IF apx THEN [o EXCEPT !.type = {"APX"}] ELSE o, "modrm", load, parts, imm,
                    Written(r, NoReg, NoReg, sum, load, NoAttr, imm.value))
  BY DEF LegacyM
<1>3. PICK r \in LegacyRegs(o), imm \in Imm8(o) : \E bit \in SourceSizes(o, r) :
        LET addr == [MemOp(bit) EXCEPT !.immSize = imm.size]
            apx == o = movbe /\ OpROOApplies(NoReg, addr, r, {"APX"})
            parts == IF apx THEN OpROO(NoReg, addr, r, {"APX"}, 0) ELSE OpMR(addr, r, o.type)
        IN  /\ IF apx THEN OpROOOk(addr, r, {"APX"}) ELSE OpMROk(addr, r, o.type)
            /\ Emit(IF apx THEN [o EXCEPT !.type = {"APX"}] ELSE o, "modrm", load, parts, imm,
                    Written(r, NoReg, NoReg, sum, load, NoAttr, imm.value))
  BY <1>2
<1>4. PICK bit \in SourceSizes(o, r) :
        LET addr == [MemOp(bit) EXCEPT !.immSize = imm.size]
            apx == o = movbe /\ OpROOApplies(NoReg, addr, r, {"APX"})
            parts == IF apx THEN OpROO(NoReg, addr, r, {"APX"}, 0) ELSE OpMR(addr, r, o.type)
        IN  /\ IF apx THEN OpROOOk(addr, r, {"APX"}) ELSE OpMROk(addr, r, o.type)
            /\ Emit(IF apx THEN [o EXCEPT !.type = {"APX"}] ELSE o, "modrm", load, parts, imm,
                    Written(r, NoReg, NoReg, sum, load, NoAttr, imm.value))
  BY <1>3
<1> DEFINE addr == Sized(MemOp(bit), imm.size)
           apx == o = movbe /\ OpROOApplies(NoReg, addr, r, {"APX"})
           parts == IF apx THEN OpROO(NoReg, addr, r, {"APX"}, 0) ELSE OpMR(addr, r, o.type)
           oo == IF apx THEN [o EXCEPT !.type = {"APX"}] ELSE o
           w == Written(r, NoReg, NoReg, sum, load, NoAttr, imm.value)
<1>5. /\ IF apx THEN OpROOOk(addr, r, {"APX"}) ELSE OpMROk(addr, r, o.type)
      /\ Emit(oo, "modrm", load, parts, imm, w)
  BY <1>4 DEF Sized
<1>6. oo.shape = o.shape
  OBVIOUS
<1>7. w.sum = sum
  BY WrittenSum
<1>8. IsMemOp(addr, expr) /\ addr.immSize = imm.size
  BY MemOpIs, SizedIs
<1>9. ~IsMem(r) /\ r.ext8 \in BOOLEAN
  BY LegacyRegsAre, GpForm, VecForm, ZenonT(30)
<1>10. o.shape # "gather" /\ (o = movbe => imm.size = 0)
  <2>1. o.shape # "gather" /\ (o = movbe => o.imm = "none")
    BY LegacyShape
  <2>2. o.imm = "none" => imm.size = 0
    BY DEF Imm8, NoImm
  <2>3. QED BY <2>1, <2>2
<1>11. /\ apx => OpROOOk(addr, r, {"APX"}) /\ parts = OpROO(NoReg, addr, r, {"APX"}, 0) /\ o = movbe
       /\ ~apx => OpMROk(addr, r, o.type) /\ parts = OpMR(addr, r, o.type)
  BY <1>5
<1> HIDE DEF addr, apx, parts, oo, w
<1>12. Emitted(i', oo, "modrm", load, parts, imm) /\ want' = w
  BY <1>5, EmitIs
<1>13. i'.p = parts.p /\ i'.m = parts.m /\ i'.opc.shape # "gather" /\ i'.imm.size = imm.size /\ want'.sum = sum
  BY <1>6, <1>7, <1>10, <1>12 DEF Emitted
<1>14. ImmKept(i', want')
  BY LegacyMKeeps
<1>15. CASE apx
  <2>1. PICK n : n = 0
    OBVIOUS
  <2>2. PICK type : type = {"APX"}
    OBVIOUS
  <2>3. OpROOOk(addr, r, type) /\ i'.p = OpROO(NoReg, addr, r, type, n).p /\ i'.m = OpROO(NoReg, addr, r, type, n).m
    BY <1>11, <1>13, <1>15, <2>1, <2>2
  <2>4. i'.imm.size = n
    BY <1>10, <1>11, <1>13, <1>15, <2>1
  <2>5. QED BY <1>1, <1>8, <1>9, <1>13, <1>14, <2>3, <2>4, KeptROO
<1>16. CASE ~apx
  <2>1. i'.p = OpMR(addr, r, o.type).p /\ i'.m = OpMR(addr, r, o.type).m /\ OpAddrOk(addr)
    BY <1>11, <1>13, <1>16 DEF OpMROk
  <2>2. addr.immSize = i'.imm.size
    BY <1>8, <1>13
  <2>3. QED BY <1>1, <1>8, <1>9, <1>13, <1>14, <2>1, <2>2, KeptMR
<1>17. QED BY <1>15, <1>16

LEMMA ThreeMAddr == ASSUME IInv, ThreeM PROVE AddrKept(i', want')
<1>1. HasAddress
  BY DEF ThreeM
<1>2. PICK o \in {add3, cmov3} : \E d \in Gps, memFirst \in BOOLEAN :
        \E r \in SameBit(Gps, d.bit), bit \in {0, d.bit} :
        LET op1 == IF memFirst THEN MemOp(bit) ELSE r
            op2 == IF memFirst THEN r ELSE MemOp(bit)
        IN  /\ o = cmov3 => memFirst /\ d.bit > 8
            /\ OpROOOk(op1, op2, o.type)
            /\ Emit(o, "modrm", OpROODir(op1, op2), OpROO(d, op1, op2, o.type, 0), NoImm,
                    Written(r, d, NoReg, sum, ~memFirst, NoAttr, 0))
  BY DEF ThreeM
<1>3. PICK d \in Gps, memFirst \in BOOLEAN : \E r \in SameBit(Gps, d.bit), bit \in {0, d.bit} :
        LET op1 == IF memFirst THEN MemOp(bit) ELSE r
            op2 == IF memFirst THEN r ELSE MemOp(bit)
        IN  /\ OpROOOk(op1, op2, o.type)
            /\ Emit(o, "modrm", OpROODir(op1, op2), OpROO(d, op1, op2, o.type, 0), NoImm,
                    Written(r, d, NoReg, sum, ~memFirst, NoAttr, 0))
  BY <1>2
<1>4. PICK r \in SameBit(Gps, d.bit), bit \in {0, d.bit} :
        LET op1 == IF memFirst THEN MemOp(bit) ELSE r
            op2 == IF memFirst THEN r ELSE MemOp(bit)
        IN  /\ OpROOOk(op1, op2, o.type)
            /\ Emit(o, "modrm", OpROODir(op1, op2), OpROO(d, op1, op2, o.type, 0), NoImm,
                    Written(r, d, NoReg, sum, ~memFirst, NoAttr, 0))
  BY <1>3
<1> DEFINE a == MemOp(bit)
           op1 == IF memFirst THEN a ELSE r
           op2 == IF memFirst THEN r ELSE a
           n == 0
           parts == OpROO(d, op1, op2, o.type, n)
           dir == OpROODir(op1, op2)
           w == Written(r, d, NoReg, sum, ~memFirst, NoAttr, 0)
<1>5. OpROOOk(op1, op2, o.type) /\ Emit(o, "modrm", dir, parts, NoImm, w)
  BY <1>4
<1>6. w.sum = sum
  BY WrittenSum
<1>7. IsMemOp(a, expr)
  BY MemOpIs
<1>8. ~IsMem(r)
  BY EncodingAssumption, GpForm DEF SameBit
<1>9. (op1 = a /\ op2 = r) \/ (op2 = a /\ op1 = r)
  OBVIOUS
<1>10. o.shape # "gather" /\ NoImm.size = n
  BY LegacyShape DEF NoImm
<1> HIDE DEF a, op1, op2, n, parts, dir, w
<1>11. Emitted(i', o, "modrm", dir, parts, NoImm) /\ want' = w
  BY <1>5, EmitIs
<1>12. i'.p = parts.p /\ i'.m = parts.m /\ i'.opc.shape # "gather" /\ i'.imm.size = n /\ want'.sum = sum
  BY <1>6, <1>10, <1>11 DEF Emitted
<1>13. ImmKept(i', want')
  BY ThreeMKeeps
<1>14. i'.p = OpROO(d, op1, op2, o.type, n).p /\ i'.m = OpROO(d, op1, op2, o.type, n).m
  BY <1>12 DEF parts
<1>15. QED BY <1>1, <1>5, <1>7, <1>8, <1>9, <1>12, <1>13, <1>14, KeptROO

-----------------------------------------------------------------------------
(* Instructions of registers.                                              *)
LEMMA NoMemory ==
  ASSUME NEW o, NEW field, NEW dir, NEW parts, NEW imm, NEW a, NEW b, NEW c, NEW d, NEW e, NEW f,
         Emit(o, field, dir, parts, imm, Written(a, b, c, None, d, e, f))
  PROVE  AddrKept(i', want')
<1>1. Written(a, b, c, None, d, e, f).mem = FALSE
  BY DEF Written
<1>2. want' = Written(a, b, c, None, d, e, f)
  BY DEF Emit
<1>3. want'.mem = FALSE
  BY <1>1, <1>2
<1>4. QED BY <1>3, NotMemory

LEMMA LegacyRAddr == ASSUME LegacyR PROVE AddrKept(i', want')
<1>1. \E o, field, dir, parts, imm, a, b, c, d, e, f : Emit(o, field, dir, parts, imm, Written(a, b, c, None, d, e, f))
  BY DEF LegacyR
<1>2. QED BY <1>1, NoMemory

LEMMA VectorRAddr == ASSUME VectorR PROVE AddrKept(i', want')
<1>1. \E o, field, dir, parts, imm, a, b, c, d, e, f : Emit(o, field, dir, parts, imm, Written(a, b, c, None, d, e, f))
  BY ZenonT(30) DEF VectorR
<1>2. QED BY <1>1, NoMemory

LEMMA ThreeRAddr == ASSUME ThreeR PROVE AddrKept(i', want')
<1>1. \E o, field, dir, parts, imm, a, b, c, d, e, f : Emit(o, field, dir, parts, imm, Written(a, b, c, None, d, e, f))
  BY DEF ThreeR
<1>2. QED BY <1>1, NoMemory

LEMMA MovImmRegAddr == ASSUME MovImmReg PROVE AddrKept(i', want')
<1>1. PICK r \in Gps, imm \in Imms :
        LET zx == r.bit = 64 /\ SizeT(imm) < 2 * Half32
            sx == r.bit = 64 /\ ~zx /\ InInt32(imm)
            size == IF zx \/ sx THEN 4 ELSE r.bit \div 8
            low == [NoModRM EXCEPT !.rm = r.idx % 8]
        IN  Emit([add EXCEPT !.imm = IF sx THEN "iz" ELSE "iv"], IF sx THEN "ext" ELSE "opcode", FALSE,
                    Parts(RexR(NoReg, IF zx THEN Gp(r.idx, 32) ELSE r, {}),
                          IF sx THEN SetModRM(3, 0, r.idx) ELSE low, r.bit # 8),
                    Immediate(size, FALSE, imm), Written(NoReg, NoReg, r, None, FALSE, NoAttr, imm))
  BY DEF MovImmReg
<1> DEFINE zx == r.bit = 64 /\ SizeT(imm) < 2 * Half32
           sx == r.bit = 64 /\ ~zx /\ InInt32(imm)
           size == IF zx \/ sx THEN 4 ELSE r.bit \div 8
           low == [NoModRM EXCEPT !.rm = r.idx % 8]
           o == [add EXCEPT !.imm = IF sx THEN "iz" ELSE "iv"]
           where == IF sx THEN "ext" ELSE "opcode"
           parts == Parts(RexR(NoReg, IF zx THEN Gp(r.idx, 32) ELSE r, {}),
                          IF sx THEN SetModRM(3, 0, r.idx) ELSE low, r.bit # 8)
           im == Immediate(size, FALSE, imm)
<1>2. Emit(o, where, FALSE, parts, im, Written(NoReg, NoReg, r, None, FALSE, NoAttr, imm))
  BY <1>1
<1> HIDE DEF o, where, parts, im
<1>3. QED BY <1>2, NoMemory

LEMMA PushAddr == ASSUME Push PROVE AddrKept(i', want')
<1>1. PICK r \in Gps : \E o, parts :
        Emit(o, "opcode", FALSE, parts, NoImm, Written(NoReg, NoReg, r, None, FALSE, NoAttr, 0))
  BY ZenonT(30) DEF Push
<1>2. QED BY <1>1, NoMemory

-----------------------------------------------------------------------------
(* The address of 64 bits of mov, and vector instructions.                 *)

LEMMA MovMoffsAddr == ASSUME IInv, MovMoffs PROVE AddrKept(i', want')
<1>1. HasAddress
  BY DEF MovMoffs
<1>2. PICK r \in Gps, load \in BOOLEAN :
        /\ AddressMode(expr) = "64bitDisp"
        /\ Emit(add, "acc", load,
                Parts(RexR(NoReg, r, {}), [NoModRM EXCEPT !.size = 8, !.disp = expr.disp, !.label = expr.label], r.bit # 8),
                NoImm, Written(NoReg, NoReg, r, sum, load, NoAttr, 0))
  BY DEF MovMoffs
<1> DEFINE m == [NoModRM EXCEPT !.size = 8, !.disp = expr.disp, !.label = expr.label]
           parts == Parts(RexR(NoReg, r, {}), m, r.bit # 8)
           w == Written(NoReg, NoReg, r, sum, load, NoAttr, 0)
<1>3. Emit(add, "acc", load, parts, NoImm, w)
  BY <1>2
<1>4. w.sum = sum
  BY WrittenSum
<1>5. /\ m.present = FALSE /\ m.sib = FALSE /\ m.size = 8 /\ m.disp = expr.disp /\ m.label = expr.label
      /\ m.ss = 0
  BY DEF NoModRM
<1>6. parts.m = m
  BY DEF Parts
<1> HIDE DEF m, parts, w
<1>7. Emitted(i', add, "acc", load, parts, NoImm) /\ want' = w
  BY <1>3, EmitIs
<1>8. PICK j : j = i'
  OBVIOUS
<1>9. j.m = m /\ want'.sum = sum
  BY <1>4, <1>6, <1>7, <1>8 DEF Emitted
<1>10. Good(expr, sum) /\ IsOnlyDisp(expr) /\ ~expr.rip
  <2>1. IsOnlyDisp(expr) /\ ~expr.rip
    BY <1>2 DEF AddressMode
  <2>2. QED BY <1>1, <2>1, GoodIs
<1>11. expr.base = NoReg /\ expr.index = NoReg
  BY <1>10 DEF IsOnlyDisp, HasBase, HasIndex
<1>12. BaseRead(j) = NoReg /\ IndexRead(j) = NoReg /\ ~RipRelative(j)
  BY <1>5, <1>9 DEF BaseRead, IndexRead, RipRelative
<1>13. sum.coef = Linear(NoReg, NoReg, 2^j.m.ss)
  <2>1. sum.coef = Linear(NoReg, NoReg, expr.scale)
    BY <1>10, <1>11 DEF Good, Matches, Coef
  <2>2. \A k, n : Linear(NoReg, NoReg, k) = Linear(NoReg, NoReg, n)
    BY DEF Linear
  <2>3. QED BY <2>1, <2>2
<1>14. sum.disp = expr.disp /\ sum.label = expr.label /\ ~sum.rip
  BY <1>10 DEF Good, Matches
<1>15. expr.disp \in Int /\ sum.disp \in Int
  BY <1>10, <1>14 DEF Good, Expressions, Displacements
<1>16. AddressIs(j, sum)
  <2>1. Bit(RipRelative(j) /\ ~j.m.label, NextInstruction(j)) = 0
    BY <1>12 DEF Bit
  <2>2. Bit(sum.rip /\ ~sum.asPtr /\ ~sum.label, NextInstruction(j)) = 0
    BY <1>14 DEF Bit
  <2>3. j.m.size # 1 /\ j.m.disp = sum.disp /\ j.m.label = sum.label
    BY <1>5, <1>9, <1>14
  <2>4. QED BY <1>12, <1>13, <1>15, <2>1, <2>2, <2>3 DEF AddressIs, AddressRead
<1>17. QED BY <1>8, <1>9, <1>16 DEF AddrKept

LEMMA KeptVex ==
  ASSUME IInv, HasAddress, NEW j, NEW w, w.sum = sum, NEW op, IsVecMem(op, expr), NEW r, NEW v, NEW type, NEW attr, NEW n,
         "0F" \in type => GetMap(type) = 1, OpVexOk(r, v, op, type, attr), ~NeedsEvex(r, v, op, type, attr),
         j.p = OpVex(r, v, op, type, attr, n).p, j.m = OpVex(r, v, op, type, attr, n).m,
         j.imm.size = n, ImmKept(j, w), IsVec(expr.index) <=> j.opc.shape = "gather",
         IsVec(expr.index) => expr.index.bit = r.bit /\ r.bit \in {128, 256} /\ "L1" \notin type
  PROVE  AddrKept(j, w)
<1>1. Good(expr, sum)
  BY GoodIs
<1>2. n = ImmRead(j) /\ ImmRead(j) \in Int
  BY ImmReadInt DEF ImmKept
<1>3. SUFFICES ASSUME j.m.present \/ j.m.size = 8,
                      ~(j.p.enc = "vex" /\ \E x \in DOMAIN sum.coef : IsVec(x) /\ x.idx > 15)
               PROVE  AddressIs(j, sum)
  BY DEF AddrKept
<1>4. j.p.enc = "vex" => ~\E x \in DOMAIN sum.coef : IsVec(x) /\ x.idx > 15
  BY <1>3
<1>5. QED BY <1>1, <1>2, <1>3, <1>4, VexAddress

LEMMA KeptEvex ==
  ASSUME IInv, HasAddress, NEW j, NEW w, w.sum = sum, NEW op, IsVecMem(op, expr), NEW r, r.bit \in {128, 256, 512},
         NEW v, v.bit = r.bit, NEW o \in VexOps, NEW attr, attr.rnd = 0, attr.zero \in BOOLEAN, NEW n,
         OpVexOk(r, v, op, o.type, attr), NeedsEvex(r, v, op, o.type, attr),
         j.p = OpVex(r, v, op, o.type, attr, n).p, j.m = OpVex(r, v, op, o.type, attr, n).m,
         j.opc.shape = o.shape, j.opc.tuple = o.tuple, j.opc.element = o.element,
         j.imm.size = n, ImmKept(j, w), IsVec(expr.index) <=> o.shape = "gather",
         IsVec(expr.index) => expr.index.bit = r.bit /\ ~IsExtIdx2(v)
  PROVE  AddrKept(j, w)
<1>1. Good(expr, sum)
  BY GoodIs
<1>2. n = ImmRead(j) /\ ImmRead(j) \in Int
  BY ImmReadInt DEF ImmKept
<1>3. SUFFICES ASSUME j.m.present \/ j.m.size = 8
               PROVE  AddressIs(j, sum)
  BY DEF AddrKept
<1>4. QED BY <1>1, <1>2, <1>3, EvexAddress, SMTT(20)

LEMMA VexOpFacts ==
  ASSUME NEW o \in VexOps
  PROVE  /\ "0F" \in o.type => GetMap(o.type) = 1
         /\ o.shape = "gather" <=> "VSIB" \in o.type
         /\ "L1" \notin o.type
         /\ o.shape = "gather" => (o.hasV <=> "MUST_EVEX" \notin o.type)
         /\ o.shape = "gather" /\ o.hasV => "EVEX" \notin o.type
         /\ o.hasV \in BOOLEAN
<1>1. CASE o = vaddps
  <2>1. o.type = {"0F", "W0", "YMM", "EVEX", "ER_Z", "B32"} /\ o.shape = "vec" /\ o.hasV = TRUE
    BY <1>1, VexOpsAre DEF IsVecOp
  <2>2. QED BY <2>1 DEF GetMap
<1>2. CASE o = vaddpd
  <2>1. o.type = {"66", "0F", "EW1", "YMM", "EVEX", "ER_Z", "B64"} /\ o.shape = "vec" /\ o.hasV = TRUE
    BY <1>2, VexOpsAre DEF IsVecOp
  <2>2. QED BY <2>1 DEF GetMap
<1>3. CASE o = vaddss
  <2>1. o.type = {"F3", "0F", "W0", "EVEX", "ER_X", "N4"} /\ o.shape = "vec" /\ o.hasV = TRUE
    BY <1>3, VexOpsAre DEF IsVecOp
  <2>2. QED BY <2>1 DEF GetMap
<1>4. CASE o = vmaxps
  <2>1. o.type = {"0F", "W0", "YMM", "EVEX", "SAE_Z", "B32"} /\ o.shape = "vec" /\ o.hasV = TRUE
    BY <1>4, VexOpsAre DEF IsVecOp
  <2>2. QED BY <2>1 DEF GetMap
<1>5. CASE o = vcvtps2pd
  <2>1. o.type = {"0F", "YMM", "EVEX", "W0", "B32", "N8", "N_VL", "SAE_Y"} /\ o.shape = "vec" /\ o.hasV = FALSE
    BY <1>5, VexOpsAre DEF IsVecOp
  <2>2. QED BY <2>1 DEF GetMap
<1>6. CASE o = vpmovzxbq
  <2>1. o.type = {"N2", "N_VL", "66", "0F38", "YMM", "EVEX"} /\ o.shape = "vec" /\ o.hasV = FALSE
    BY <1>6, VexOpsAre DEF IsVecOp
  <2>2. QED BY <2>1 DEF GetMap
<1>7. CASE o = vmovddup
  <2>1. o.type = {"DUP", "F2", "0F", "EW1", "YMM", "EVEX"} /\ o.shape = "vec" /\ o.hasV = FALSE
    BY <1>7, VexOpsAre DEF IsVecOp
  <2>2. QED BY <2>1 DEF GetMap
<1>8. CASE o = vextractf32x4
  <2>1. o.type = {"N16", "66", "0F3A", "W0", "YMM", "MUST_EVEX", "M_K"} /\ o.shape = "vec" /\ o.hasV = FALSE
    BY <1>8, VexOpsAre DEF IsVecOp
  <2>2. QED BY <2>1 DEF GetMap
<1>9. CASE o = vgatherdps
  <2>1. o.type = {"0F38", "66", "YMM", "VSIB", "W0"} /\ o.shape = "gather" /\ o.hasV = TRUE
    BY <1>9, VexOpsAre DEF IsVecOp
  <2>2. QED BY <2>1 DEF GetMap
<1>10. CASE o = vgatherdpsEvex
  <2>1. o.type = {"N4", "66", "0F38", "W0", "YMM", "MUST_EVEX", "VSIB"} /\ o.shape = "gather" /\ o.hasV = FALSE
    BY <1>10, VexOpsAre DEF IsVecOp
  <2>2. QED BY <2>1 DEF GetMap
<1>11. QED BY <1>1, <1>2, <1>3, <1>4, <1>5, <1>6, <1>7, <1>8, <1>9, <1>10 DEF VexOps

\* opVex with a memory operand, either prefix.
LEMMA KeptVector ==
  ASSUME IInv, HasAddress, NEW j, NEW w, w.sum = sum, NEW op, IsVecMem(op, expr), NEW r, r.bit \in {128, 256, 512},
         NEW v, v.bit = r.bit, NEW o \in VexOps, NEW attr, attr.rnd = 0, attr.zero \in BOOLEAN, NEW n,
         OpVexOk(r, v, op, o.type, attr),
         j.p = OpVex(r, v, op, o.type, attr, n).p, j.m = OpVex(r, v, op, o.type, attr, n).m,
         j.opc.shape = o.shape, j.opc.tuple = o.tuple, j.opc.element = o.element,
         j.imm.size = n, ImmKept(j, w),
         o.shape = "gather" => /\ IsVec(expr.index) /\ expr.index.bit = r.bit
                               /\ (o.hasV => r.bit < 512) /\ (~o.hasV => ~IsExtIdx2(v))
  PROVE  AddrKept(j, w)
<1>1. IsVec(expr.index) <=> o.shape = "gather"
  BY OpVexMOk, VexOpFacts
<1>2. CASE NeedsEvex(r, v, op, o.type, attr)
  <2>1. o.type \cap {"EVEX", "MUST_EVEX"} # {}
    BY <1>2, OpVexMOk
  <2>2. o.shape = "gather" => ~o.hasV
    BY <2>1, VexOpFacts
  <2>3. IsVec(expr.index) => expr.index.bit = r.bit /\ ~IsExtIdx2(v)
    BY <1>1, <2>2
  <2>4. QED BY <1>1, <1>2, <2>3, KeptEvex
<1>3. CASE ~NeedsEvex(r, v, op, o.type, attr)
  <2>1. "MUST_EVEX" \notin o.type
    BY <1>3 DEF NeedsEvex
  <2>2. o.shape = "gather" => o.hasV
    BY <2>1, VexOpFacts
  <2>3. IsVec(expr.index) => expr.index.bit = r.bit /\ r.bit \in {128, 256} /\ "L1" \notin o.type
    BY <1>1, <2>2, VexOpFacts
  <2>4. IsVec(expr.index) <=> j.opc.shape = "gather"
    BY <1>1
  <2>5. "0F" \in o.type => GetMap(o.type) = 1
    BY VexOpFacts
  <2>6. QED BY <1>3, <2>3, <2>4, <2>5, KeptVex
<1>4. QED BY <1>2, <1>3

LEMMA VectorMAddr == ASSUME IInv, VectorM PROVE AddrKept(i', want')
<1>1. HasAddress
  BY DEF VectorM
<1>2. PICK o \in VexOps, a \in MemAttrs : \E r \in VexRegs(o), imm \in Imm8(o) :
        \E v \in IF o.hasV THEN SameBit(Vecs, r.bit) ELSE {NoReg} :
        LET addr == Address(0, a.broadcast, IF a.onMem THEN a.mask ELSE 0, expr)
            attr == [NoAttr EXCEPT !.mask = IF a.onMem THEN 0 ELSE a.mask, !.zero = a.zero]
            vv == IF o.hasV THEN v ELSE Vec(0, r.bit)
        IN  /\ o.shape = "gather" =>
                 /\ IsVsib(expr) /\ expr.index.bit = r.bit /\ expr.index.idx # r.idx
                 /\ IF o.hasV THEN attr.mask = 0 /\ r.bit < 512 /\ v.idx \notin {r.idx, expr.index.idx}
                    ELSE attr.mask # 0 /\ ~a.zero
            /\ OpVexOk(r, vv, addr, o.type, attr)
            /\ Emit(o, "modrm", TRUE, OpVex(r, vv, addr, o.type, attr, imm.size), imm,
                    Written(r, v, NoReg, sum, TRUE,
                            [NoAttr EXCEPT !.broadcast = a.broadcast, !.mask = a.mask, !.zero = a.zero /\ a.mask # 0],
                            imm.value))
  BY DEF VectorM
<1>3. PICK r \in VexRegs(o), imm \in Imm8(o) :
        \E v \in IF o.hasV THEN SameBit(Vecs, r.bit) ELSE {NoReg} :
        LET addr == Address(0, a.broadcast, IF a.onMem THEN a.mask ELSE 0, expr)
            attr == [NoAttr EXCEPT !.mask = IF a.onMem THEN 0 ELSE a.mask, !.zero = a.zero]
            vv == IF o.hasV THEN v ELSE Vec(0, r.bit)
        IN  /\ o.shape = "gather" =>
                 /\ IsVsib(expr) /\ expr.index.bit = r.bit /\ expr.index.idx # r.idx
                 /\ IF o.hasV THEN attr.mask = 0 /\ r.bit < 512 /\ v.idx \notin {r.idx, expr.index.idx}
                    ELSE attr.mask # 0 /\ ~a.zero
            /\ OpVexOk(r, vv, addr, o.type, attr)
            /\ Emit(o, "modrm", TRUE, OpVex(r, vv, addr, o.type, attr, imm.size), imm,
                    Written(r, v, NoReg, sum, TRUE,
                            [NoAttr EXCEPT !.broadcast = a.broadcast, !.mask = a.mask, !.zero = a.zero /\ a.mask # 0],
                            imm.value))
  BY <1>2
<1>4. PICK v \in IF o.hasV THEN SameBit(Vecs, r.bit) ELSE {NoReg} :
        LET addr == Address(0, a.broadcast, IF a.onMem THEN a.mask ELSE 0, expr)
            attr == [NoAttr EXCEPT !.mask = IF a.onMem THEN 0 ELSE a.mask, !.zero = a.zero]
            vv == IF o.hasV THEN v ELSE Vec(0, r.bit)
        IN  /\ o.shape = "gather" =>
                 /\ IsVsib(expr) /\ expr.index.bit = r.bit /\ expr.index.idx # r.idx
                 /\ IF o.hasV THEN attr.mask = 0 /\ r.bit < 512 /\ v.idx \notin {r.idx, expr.index.idx}
                    ELSE attr.mask # 0 /\ ~a.zero
            /\ OpVexOk(r, vv, addr, o.type, attr)
            /\ Emit(o, "modrm", TRUE, OpVex(r, vv, addr, o.type, attr, imm.size), imm,
                    Written(r, v, NoReg, sum, TRUE,
                            [NoAttr EXCEPT !.broadcast = a.broadcast, !.mask = a.mask, !.zero = a.zero /\ a.mask # 0],
                            imm.value))
  BY <1>3
<1> DEFINE addr == Address(0, a.broadcast, IF a.onMem THEN a.mask ELSE 0, expr)
           attr == [NoAttr EXCEPT !.mask = IF a.onMem THEN 0 ELSE a.mask, !.zero = a.zero]
           vv == IF o.hasV THEN v ELSE Vec(0, r.bit)
           parts == OpVex(r, vv, addr, o.type, attr, imm.size)
           at == [NoAttr EXCEPT !.broadcast = a.broadcast, !.mask = a.mask, !.zero = a.zero /\ a.mask # 0]
           w == Written(r, v, NoReg, sum, TRUE, at, imm.value)
<1>5. /\ o.shape = "gather" => /\ IsVsib(expr) /\ expr.index.bit = r.bit
                               /\ (o.hasV => r.bit < 512)
      /\ OpVexOk(r, vv, addr, o.type, attr)
      /\ Emit(o, "modrm", TRUE, parts, imm, w)
  BY <1>4
<1> HIDE DEF at, parts
<1>6. w.sum = sum
  BY WrittenSum
<1>7. attr.rnd = 0 /\ attr.zero = a.zero
  BY DEF NoAttr
<1>8. a.broadcast \in BOOLEAN /\ a.zero \in BOOLEAN
  BY EncodingAssumption DEF Attrs
<1>9. IsVecMem(addr, expr)
  <2>1. PICK k : k = IF a.onMem THEN a.mask ELSE 0
    OBVIOUS
  <2>2. addr = Address(0, a.broadcast, k, expr)
    BY <2>1
  <2>3. QED BY <1>8, <2>2, AddressIsVecMem
<1>10. r \in VecRegs
  BY EncodingAssumption DEF VexRegs
<1>11. r.bit \in {128, 256, 512}
  BY <1>10, VecForm, ZenonT(30)
<1>12. vv.bit = r.bit /\ (~o.hasV => ~IsExtIdx2(vv))
  <2>1. CASE o.hasV
    BY <2>1 DEF SameBit
  <2>2. CASE ~o.hasV
    <3>1. vv = Vec(0, r.bit)
      BY <2>2
    <3>2. Vec(0, r.bit).bit = r.bit /\ Vec(0, r.bit).idx = 0
      BY DEF Vec
    <3>3. ~IsExtIdx2(Vec(0, r.bit))
      BY <3>2 DEF IsExtIdx2, HasIdxBit
    <3>4. QED BY <3>1, <3>2, <3>3
  <2>3. QED BY <2>1, <2>2
<1> HIDE DEF addr, attr, vv, w
<1>13. Emitted(i', o, "modrm", TRUE, parts, imm) /\ want' = w
  BY <1>5, EmitIs
<1>14. /\ i'.p = parts.p /\ i'.m = parts.m /\ i'.imm.size = imm.size /\ want'.sum = sum
       /\ i'.opc.shape = o.shape /\ i'.opc.tuple = o.tuple /\ i'.opc.element = o.element
  BY <1>6, <1>13 DEF Emitted
<1>15. ImmKept(i', want')
  BY VectorMKeeps
<1>16. i'.p = OpVex(r, vv, addr, o.type, attr, imm.size).p /\ i'.m = OpVex(r, vv, addr, o.type, attr, imm.size).m
  BY <1>14 DEF parts
<1>17. o.shape = "gather" => /\ IsVec(expr.index) /\ expr.index.bit = r.bit
                             /\ (o.hasV => r.bit < 512) /\ (~o.hasV => ~IsExtIdx2(vv))
  BY <1>5, <1>12 DEF IsVsib
<1>18. attr.zero \in BOOLEAN
  BY <1>7, <1>8
<1>19. QED BY <1>1, <1>5, <1>7, <1>9, <1>11, <1>12, <1>14, <1>15, <1>16, <1>17, <1>18, KeptVector

LEMMA VexGpAddr == ASSUME IInv, VexGp PROVE AddrKept(i', want')
<1>1. PICK d \in SameBit(Gps, 32) \cup SameBit(Gps, 64) : \E r1 \in SameBit(Gps, d.bit), op \in RmOps({0, d.bit}) :
        LET type == andn.type \cup {IF d.bit = 64 THEN "W1" ELSE "W0"}
            apx == HasRex2(d) \/ HasRex2(r1) \/ OpHasRex2(op)
            w == Written(d, r1, IF IsMem(op) THEN NoReg ELSE op, IF IsMem(op) THEN sum ELSE None, TRUE, NoAttr, 0)
        IN  /\ IF apx THEN OpROOOk(op, d, type) ELSE OpVexOk(d, r1, op, type, NoAttr)
            /\ Emit([andn EXCEPT !.type = type], "modrm", TRUE,
                    IF apx THEN OpROO(r1, op, d, type, 0) ELSE OpVex(d, r1, op, type, NoAttr, 0), NoImm, w)
  BY DEF VexGp
<1>2. PICK r1 \in SameBit(Gps, d.bit), op \in RmOps({0, d.bit}) :
        LET type == andn.type \cup {IF d.bit = 64 THEN "W1" ELSE "W0"}
            apx == HasRex2(d) \/ HasRex2(r1) \/ OpHasRex2(op)
            w == Written(d, r1, IF IsMem(op) THEN NoReg ELSE op, IF IsMem(op) THEN sum ELSE None, TRUE, NoAttr, 0)
        IN  /\ IF apx THEN OpROOOk(op, d, type) ELSE OpVexOk(d, r1, op, type, NoAttr)
            /\ Emit([andn EXCEPT !.type = type], "modrm", TRUE,
                    IF apx THEN OpROO(r1, op, d, type, 0) ELSE OpVex(d, r1, op, type, NoAttr, 0), NoImm, w)
  BY <1>1
<1> DEFINE type == andn.type \cup {IF d.bit = 64 THEN "W1" ELSE "W0"}
           apx == HasRex2(d) \/ HasRex2(r1) \/ OpHasRex2(op)
           rm == IF IsMem(op) THEN NoReg ELSE op
           s == IF IsMem(op) THEN sum ELSE None
           w == Written(d, r1, rm, s, TRUE, NoAttr, 0)
           o == [andn EXCEPT !.type = type]
           n == 0
           attr == NoAttr
           parts == IF apx THEN OpROO(r1, op, d, type, n) ELSE OpVex(d, r1, op, type, attr, n)
<1>3. /\ IF apx THEN OpROOOk(op, d, type) ELSE OpVexOk(d, r1, op, type, attr)
      /\ Emit(o, "modrm", TRUE, parts, NoImm, w)
  BY <1>2
<1>4. o.shape = "int"
  BY LegacyShape
<1>5. {"0F", "VSIB", "MUST_EVEX", "MEM_EVEX"} \cap type = {}
  BY DEF andn, Op
<1>6. (~IsMem(op) => w.mem = FALSE) /\ (IsMem(op) => w.sum = sum)
  BY SumIsNone DEF Written
<1>7. attr.mask = 0 /\ attr.rnd = 0 /\ NoImm.size = n
  BY DEF NoAttr, NoImm
<1>8. d \in GpRegs /\ r1 \in GpRegs /\ d.bit \in {32, 64} /\ r1.bit = d.bit
  BY EncodingAssumption DEF SameBit
<1>9. IsGp(d) /\ IsGp(r1) /\ ~IsMem(d)
  BY <1>8, GpForm
<1>10. /\ apx => OpROOOk(op, d, type) /\ parts = OpROO(r1, op, d, type, n)
       /\ ~apx => OpVexOk(d, r1, op, type, attr) /\ parts = OpVex(d, r1, op, type, attr, n)
  BY <1>3
<1> HIDE DEF type, rm, s, w, o, n, attr, parts
<1>11. Emitted(i', o, "modrm", TRUE, parts, NoImm) /\ want' = w
  BY <1>3, EmitIs
<1>12. i'.p = parts.p /\ i'.m = parts.m /\ i'.opc.shape = "int" /\ i'.imm.size = n
  BY <1>4, <1>7, <1>11 DEF Emitted
<1>13. ImmKept(i', want')
  BY VexGpKeeps
<1>14. CASE ~IsMem(op)
  BY <1>6, <1>11, <1>14, NotMemory
<1>15. CASE IsMem(op)
  <2>1. op = MemOp(op.bit) /\ HasAddress /\ want'.sum = sum
    BY <1>6, <1>11, <1>15, RmOpsAre
  <2>2. IsMemOp(op, expr)
    BY <2>1, MemOpIs
  <2>3. CASE apx
    <3>1. i'.p = OpROO(r1, op, d, type, n).p /\ i'.m = OpROO(r1, op, d, type, n).m /\ OpROOOk(op, d, type)
      BY <1>10, <1>12, <2>3
    <3>2. i'.opc.shape # "gather"
      BY <1>12
    <3>3. QED BY <1>9, <1>12, <1>13, <2>1, <2>2, <3>1, <3>2, KeptROO
  <2>4. CASE ~apx
    <3>1. i'.p = OpVex(d, r1, op, type, attr, n).p /\ i'.m = OpVex(d, r1, op, type, attr, n).m /\ OpVexOk(d, r1, op, type, attr)
      BY <1>10, <1>12, <2>4
    <3>2. op.broadcast = FALSE /\ op.mask = 0
      BY <2>2 DEF IsMemOp
    <3>3. ~IsExtIdx2(d) /\ ~IsExtIdx2(r1) /\ ~AddrHasRex2(op)
      BY <1>9, <1>15, <2>4 DEF HasRex2, OpHasRex2
    <3>4. ~NeedsEvex(d, r1, op, type, attr)
      BY <1>5, <1>7, <1>8, <1>15, <3>2, <3>3 DEF NeedsEvex
    <3>5. IsVecMem(op, expr)
      BY <2>2, IsVecMemOp
    <3>6. ~IsVec(expr.index)
      BY <1>5, <3>1, <3>5, OpVexMOk
    <3>7. "0F" \notin type /\ i'.opc.shape # "gather"
      BY <1>5, <1>12
    <3>8. QED BY <1>12, <1>13, <2>1, <3>1, <3>4, <3>5, <3>6, <3>7, KeptVex
  <2>5. QED BY <2>3, <2>4
<1>16. QED BY <1>14, <1>15

LEMMA AddressStep == IInv /\ AddressKept /\ [Next]_vars => AddressKept'
<1>1. ASSUME AddrKept(i', want') PROVE AddressKept'
  BY <1>1 DEF AddrKept, AddressIs, AddressKept, Truncated, ShortAddress, WideIndex, ShiftRip
<1> SUFFICES ASSUME IInv, AddressKept, [Next]_vars PROVE AddressKept'
  OBVIOUS
<1>2. CASE i' = None
  BY <1>2 DEF AddressKept
<1>3. CASE UNCHANGED <<i, want>>
  <2>1. i = None \/ AddrKept(i, want)
    BY DEF AddrKept, AddressIs, AddressKept, Truncated, ShortAddress, WideIndex, ShiftRip
  <2>2. i' = None \/ AddrKept(i', want')
    BY <1>3, <2>1
  <2>3. QED BY <1>1, <1>2, <2>2
<1>4. UNCHANGED <<i, want>> \/ i' = None \/ AddrKept(i', want')
  <2>1. CASE Start \/ Extend \/ Subtract \/ UNCHANGED vars
    BY <2>1 DEF Start, Extend, Subtract, vars
  <2>2. CASE Continue
    BY <2>2 DEF Continue
  <2>3. CASE LegacyM \/ LegacyR \/ VectorM \/ VectorR \/ ThreeM \/ ThreeR \/ VexGp
    BY <2>3, LegacyMAddr, LegacyRAddr, VectorMAddr, VectorRAddr, ThreeMAddr, ThreeRAddr, VexGpAddr
  <2>4. CASE ArithImm \/ TestImm \/ Arith3Imm \/ ImulImm \/ Shift \/ Shxd
    BY <2>4, ArithImmAddr, TestImmAddr, Arith3ImmAddr, ImulImmAddr, ShiftAddr, ShxdAddr
  <2>5. CASE MovImmReg \/ MovImmMem \/ MovMoffs \/ Push
    BY <2>5, MovImmRegAddr, MovImmMemAddr, MovMoffsAddr, PushAddr
  <2>6. QED BY <2>1, <2>2, <2>3, <2>4, <2>5 DEF Next
<1>5. QED BY <1>1, <1>3, <1>2, <1>4

\* The address that the processor computes is the sum that the client wrote: the
\* fields of setSIB and opAddr, with the index and base bits that rex, rex2, vex,
\* evex and evexLeg put in the prefix, read back as base, index, scale and
\* displacement (of 8 bits, of 8 bits times N, of 32 or of 64, or from the end of
\* the instruction). Nothing is claimed in the four cases that AddressKept leaves
\* out: no ModRM byte was written, 32-bit registers under the leg form of EVEX, an
\* index above 15 in VEX, rip as a pointer before the immediate of a leg form.
THEOREM AddressesAreKept == Spec => []AddressKept
<1>1. Init => AddressKept
  BY DEF Init, AddressKept
<1>2. Spec => []IInv
  BY InvHolds
<1>3. QED BY <1>1, <1>2, AddressStep, PTL DEF Spec

-----------------------------------------------------------------------------
(* Operands.                                                               *)

\* OperandsKept, said of an instruction and a history.
SameOps(j, w) ==
  /\ ReadReg(j) = w.reg
  /\ ReadV(j) = w.v
  /\ w.rm # NoReg =>
       \/ ReadRm(j) = w.rm
       \/ j.opc.imm = "iv" /\ ReadRm(j) = Gp(w.rm.idx, 32) /\ w.rm.bit = 64
  /\ j.opc.reg = "modrm" => w.regFirst = j.opc.dir
  /\ AttributesRead(j) = w.attr
  /\ j.p.map = IF j.p.enc = "leg" /\ GetMap(j.opc.type) = 0 THEN 4 ELSE GetMap(j.opc.type)
Lost(j, w) == j.p.enc # "none" /\ \E r \in {w.reg, w.v, w.rm} : IsHigh8bit(r)
Whole(j, w) == w.mem => j.m.present \/ j.m.size = 8
OpsKept(j, w) ==
  Whole(j, w) /\ ~Lost(j, w) /\ ~(j.opc.shape = "push" /\ w.rm.bit # 64 /\ HasRex2(w.rm)) => SameOps(j, w)

\* A register of 8 bits has the name that the prefix gives it.
LEMMA GpNameIs ==
  ASSUME NEW j, NEW r \in GpRegs, r.ext8 => j.p.enc # "none", ~(j.p.enc # "none" /\ IsHigh8bit(r))
  PROVE  GpName(j, r.idx, r.bit) = r
<1>1. CASE r.ext8
  <2>1. r.bit = 8 /\ r.idx \in 4..7 /\ r = Ext8(r.idx)
    BY <1>1, GpForm
  <2>2. QED BY <1>1, <2>1 DEF GpName
<1>2. CASE ~r.ext8
  <2>1. IsGp(r) /\ r = Gp(r.idx, r.bit)
    BY <1>2, GpForm
  <2>2. ~(r.bit = 8 /\ r.idx \in 4..7 /\ j.p.enc # "none")
    BY <1>2, <2>1 DEF IsHigh8bit
  <2>3. GpName(j, r.idx, r.bit) = Gp(r.idx, r.bit)
    BY <2>2 DEF GpName
  <2>4. QED BY <2>1, <2>3
<1>3. QED BY <1>1, <1>2

\* The bits of a register in the prefix.
RegBits(p, r) == (p.R3 <=> IsExtIdx(r)) /\ (p.R4 <=> IsExtIdx2(r))
RmBits(p, r) == (p.B3 <=> IsExtIdx(r)) /\ (p.B4 <=> IsExtIdx2(r))
VBits(p, r) == p.vvvv = r.idx % 16 /\ (p.V4 <=> IsExtIdx2(r))

\* General registers where the processor looks for them.
InReg(j, r) == /\ r \in GpRegs /\ j.m.reg = r.idx % 8 /\ RegBits(j.p, r) /\ IntSize(j) = r.bit
               /\ (r.ext8 => j.p.enc # "none")
InV(j, r) == r \in GpRegs /\ VBits(j.p, r) /\ IntSize(j) = r.bit /\ (r.ext8 => j.p.enc # "none")
InRm(j, r) == /\ r \in GpRegs /\ j.m.rm = r.idx % 8 /\ RmBits(j.p, r) /\ RmSize(j) = r.bit
              /\ (r.ext8 => j.p.enc # "none")
Clean(p) == p.enc # "evex" /\ p.b = FALSE /\ p.aaa = 0 /\ p.z = FALSE

LEMMA NumberIs ==
  ASSUME NEW r, r.idx \in 0..31, NEW n, n = r.idx % 8, NEW b3, b3 <=> IsExtIdx(r), NEW b4, b4 <=> IsExtIdx2(r)
  PROVE  n + Bit(b3, 8) + Bit(b4, 16) = r.idx
<1>1. (r.idx % 8) + Bit(IsExtIdx(r), 8) + Bit(IsExtIdx2(r), 16) = r.idx
  BY NumberBits
<1>2. Bit(b3, 8) = Bit(IsExtIdx(r), 8) /\ Bit(b4, 16) = Bit(IsExtIdx2(r), 16)
  BY DEF Bit
<1>3. QED BY <1>1, <1>2

LEMMA ReadRegGp ==
  ASSUME NEW j, ~Vector(j), j.opc.reg = "modrm", NEW r, InReg(j, r), ~(j.p.enc # "none" /\ IsHigh8bit(r))
  PROVE  ReadReg(j) = r
<1>1. r \in GpRegs /\ r.idx \in 0..31
  BY GpForm DEF InReg
<1>2. RegNumber(j) = r.idx
  BY <1>1, NumberIs DEF InReg, RegBits, RegNumber
<1>3. ReadReg(j) = GpName(j, RegNumber(j), IntSize(j))
  BY DEF ReadReg
<1>4. GpName(j, r.idx, r.bit) = r
  BY <1>1, GpNameIs DEF InReg
<1>5. QED BY <1>2, <1>3, <1>4 DEF InReg

LEMMA ReadRmGp ==
  ASSUME NEW j, ~Vector(j), NEW r, InRm(j, r), ~(j.p.enc # "none" /\ IsHigh8bit(r))
  PROVE  ReadRm(j) = r
<1>1. r \in GpRegs /\ r.idx \in 0..31
  BY GpForm DEF InRm
<1> DEFINE n == j.m.rm + Bit(j.p.B3, 8) + Bit(j.p.B4, 16)
<1>2. n = r.idx
  BY <1>1, NumberIs DEF InRm, RmBits
<1>3. ReadRm(j) = GpName(j, n, RmSize(j))
  BY DEF ReadRm
<1>4. GpName(j, r.idx, r.bit) = r
  BY <1>1, GpNameIs DEF InRm
<1> HIDE DEF n
<1>5. QED BY <1>2, <1>3, <1>4 DEF InRm

LEMMA ReadVGp ==
  ASSUME NEW j, ~Vector(j), j.opc.hasV \/ (j.p.enc = "leg" /\ j.p.ND), NEW r, InV(j, r),
         ~(j.p.enc # "none" /\ IsHigh8bit(r))
  PROVE  ReadV(j) = r
<1>1. r \in GpRegs /\ r.idx \in 0..31
  BY GpForm DEF InV
<1>2. j.opc.shape # "gather"
  BY DEF Vector
<1> DEFINE n == j.p.vvvv + Bit(j.p.V4 /\ j.opc.shape # "gather", 16)
<1>3. n = r.idx
  <2>1. (r.idx % 16) + Bit(IsExtIdx2(r), 16) = r.idx
    BY <1>1, NumberBits
  <2>2. Bit(j.p.V4 /\ j.opc.shape # "gather", 16) = Bit(IsExtIdx2(r), 16)
    BY <1>2 DEF Bit, InV, VBits
  <2>3. QED BY <2>1, <2>2 DEF InV, VBits
<1>4. ReadV(j) = GpName(j, n, IntSize(j))
  BY DEF ReadV
<1>5. GpName(j, r.idx, r.bit) = r
  BY <1>1, GpNameIs DEF InV
<1> HIDE DEF n
<1>6. QED BY <1>3, <1>4, <1>5 DEF InV

\* An instruction of the general registers.
Reads(j, w) ==
  /\ j.opc.reg # "modrm" => w.reg = NoReg
  /\ j.opc.reg = "modrm" => InReg(j, w.reg) /\ w.regFirst = j.opc.dir
  /\ ~(j.opc.hasV \/ (j.p.enc = "leg" /\ j.p.ND)) => w.v = NoReg
  /\ j.opc.hasV \/ (j.p.enc = "leg" /\ j.p.ND) => InV(j, w.v)
  /\ w.rm # NoReg => InRm(j, w.rm)
Coded(j) ==
  /\ Clean(j.p)
  /\ j.p.map = IF j.p.enc = "leg" /\ GetMap(j.opc.type) = 0 THEN 4 ELSE GetMap(j.opc.type)

LEMMA CleanReads ==
  ASSUME NEW j, Clean(j.p)
  PROVE  AttributesRead(j) = NoAttr
<1>1. ~EmbeddedRounding(j)
  BY DEF Clean, EmbeddedRounding
<1>2. QED BY <1>1 DEF Clean, AttributesRead, NoAttr

LEMMA GeneralOps ==
  ASSUME NEW j, NEW w, ~Vector(j), Coded(j), w.attr = NoAttr, Whole(j, w) => Reads(j, w)
  PROVE  OpsKept(j, w)
<1> SUFFICES ASSUME Whole(j, w), ~Lost(j, w)
             PROVE  SameOps(j, w)
  BY DEF OpsKept
<1>1. Reads(j, w)
  OBVIOUS
<1>2. \A r \in {w.reg, w.v, w.rm} : ~(j.p.enc # "none" /\ IsHigh8bit(r))
  BY DEF Lost
<1>3. ReadReg(j) = w.reg
  <2>1. CASE j.opc.reg = "modrm"
    BY <1>1, <1>2, <2>1, ReadRegGp DEF Reads
  <2>2. CASE j.opc.reg # "modrm"
    BY <1>1, <2>2 DEF Reads, ReadReg
  <2>3. QED BY <2>1, <2>2
<1>4. ReadV(j) = w.v
  <2>1. CASE j.opc.hasV \/ (j.p.enc = "leg" /\ j.p.ND)
    BY <1>1, <1>2, <2>1, ReadVGp DEF Reads
  <2>2. CASE ~(j.opc.hasV \/ (j.p.enc = "leg" /\ j.p.ND))
    BY <1>1, <2>2 DEF Reads, ReadV
  <2>3. QED BY <2>1, <2>2
<1>5. w.rm # NoReg => ReadRm(j) = w.rm
  BY <1>1, <1>2, ReadRmGp DEF Reads
<1>6. AttributesRead(j) = w.attr
  BY CleanReads DEF Coded
<1>7. QED BY <1>1, <1>3, <1>4, <1>5, <1>6 DEF SameOps, Reads, Coded

\* Flags of an instruction that has a REX or REX2 form.
RexType(type) == type \cap {"MAP5", "MAP6"} = {} /\ ("APX" \in type => type \cap {"0F", "0F38", "0F3A"} = {})
Rexed(p, type) == Clean(p) /\ p.enc # "leg" /\ p.map = GetMap(type)
\* No register that a prefix without REX2 cannot name, but for general ones.
Plain(r) == r.ext8 \in BOOLEAN /\ (IsExtIdx2(r) => IsGp(r))

\* What matters of a REX or REX2 prefix for the operands.
RexBits(p, rex2, e8, type, r, b) ==
  /\ p.enc \in {"rex2", "rex", "none"} /\ (e8 => p.enc # "none") /\ NoVector(p)
  /\ p.R3 = IsExtIdx(r) /\ p.B3 = IsExtIdx(b)
  /\ p.R4 = IF rex2 THEN IsExtIdx2(r) ELSE FALSE
  /\ p.B4 = IF rex2 THEN IsExtIdx2(b) ELSE FALSE
  /\ p.map = IF rex2 THEN IF "0F" \in type THEN 1 ELSE 0 ELSE IF "APX" \in type THEN 0 ELSE GetMap(type)

LEMMA RexMap ==
  ASSUME NEW p, NEW rex2, NEW e8, NEW type, RexType(type), RexOk(rex2, type), NEW r, NEW b,
         RexBits(p, rex2, e8, type, r, b)
  PROVE  Rexed(p, type)
<1>1. Clean(p) /\ p.enc # "leg"
  BY DEF Clean, RexBits, NoVector
<1>2. p.map = GetMap(type)
  <2>1. "MAP5" \notin type /\ "MAP6" \notin type
    BY DEF RexType
  <2>2. CASE rex2
    <3>1. "0F38" \notin type /\ "0F3A" \notin type
      BY <2>2 DEF RexOk
    <3>2. p.map = IF "0F" \in type THEN 1 ELSE 0
      BY <2>2 DEF RexBits
    <3>3. QED BY <2>1, <3>1, <3>2 DEF GetMap
  <2>3. CASE ~rex2
    <3>1. p.map = IF "APX" \in type THEN 0 ELSE GetMap(type)
      BY <2>3 DEF RexBits
    <3>2. "APX" \in type => GetMap(type) = 0
      BY <2>1 DEF RexType, GetMap
    <3>3. QED BY <3>1, <3>2
  <2>4. QED BY <2>2, <2>3
<1>3. QED BY <1>1, <1>2 DEF Rexed

LEMMA RexMOps ==
  ASSUME NEW addr, NEW r, Plain(r), NEW type, RexType(type), RexOk(RexMRex2(addr, r), type)
  PROVE  LET p == RexM(addr, r, type)
         IN  Rexed(p, type) /\ RegBits(p, r) /\ (r.ext8 => p.enc # "none")
<1> DEFINE rex2 == RexMRex2(addr, r)
           W == IsGp(r) /\ r.bit = 64
           pp == LegacyPP(type, P66(addr.bit, r.bit))
           p67 == Is32bit(addr)
           e == GetRegExp(addr)
           p == RexM(addr, r, type)
<1>1. p = RexWith(rex2, W, r.ext8, pp, p67, type, r, e.base, e.index)
  BY DEF RexM
<1>2. W \in BOOLEAN /\ rex2 \in BOOLEAN
  BY DEF RexMRex2, HasRex2, AddrHasRex2, IsExtIdx2, HasIdxBit, IsGp
<1>3. r.ext8 \in BOOLEAN /\ (IsExtIdx2(r) => rex2)
  BY DEF Plain, RexMRex2, HasRex2
<1>4. RexOk(rex2, type)
  OBVIOUS
<1> HIDE DEF rex2, W, pp, e, p, p67
<1>5. RexFields(p, rex2, W, r.ext8, pp, p67, type, r, e.base, e.index)
  BY <1>1, <1>2, <1>3, RexWithIs
<1>6. RexBits(p, rex2, r.ext8, type, r, e.base)
  BY <1>2, <1>5 DEF RexFields, RexBits
<1>7. Rexed(p, type)
  BY <1>4, <1>6, RexMap
<1>8. RegBits(p, r) /\ (r.ext8 => p.enc # "none")
  BY <1>3, <1>6 DEF RegBits, RexBits
<1>9. QED BY <1>7, <1>8 DEF p

LEMMA RexROps ==
  ASSUME NEW reg, Plain(reg), NEW rm, Plain(rm), NEW type, RexType(type), RexOk(HasRex2(reg) \/ HasRex2(rm), type)
  PROVE  LET p == RexR(reg, rm, type)
         IN  /\ Rexed(p, type) /\ RegBits(p, reg) /\ RmBits(p, rm)
             /\ (reg.ext8 \/ rm.ext8 => p.enc # "none")
<1> DEFINE rex2 == HasRex2(reg) \/ HasRex2(rm)
           W == \E r \in {reg, rm} : IsGp(r) /\ r.bit = 64
           pp == LegacyPP(type, P66(reg.bit, rm.bit))
           e8 == reg.ext8 \/ rm.ext8
           p == RexR(reg, rm, type)
<1>1. p = RexWith(rex2, W, e8, pp, FALSE, type, reg, rm, NoReg)
  BY DEF RexR
<1>2. W \in BOOLEAN /\ rex2 \in BOOLEAN /\ e8 \in BOOLEAN
  BY DEF HasRex2, IsExtIdx2, HasIdxBit, IsGp
<1>3. (IsExtIdx2(reg) => rex2) /\ (IsExtIdx2(rm) => rex2)
  BY DEF Plain, HasRex2
<1>4. RexOk(rex2, type)
  OBVIOUS
<1>5. reg.ext8 \/ rm.ext8 <=> e8
  OBVIOUS
<1> HIDE DEF rex2, W, pp, e8, p
<1>6. RexFields(p, rex2, W, e8, pp, FALSE, type, reg, rm, NoReg)
  BY <1>1, <1>2, RexWithIs
<1>7. RexBits(p, rex2, e8, type, reg, rm)
  BY <1>2, <1>6 DEF RexFields, RexBits
<1>8. Rexed(p, type)
  BY <1>4, <1>7, RexMap
<1>9. RegBits(p, reg) /\ RmBits(p, rm) /\ (e8 => p.enc # "none")
  BY <1>3, <1>7 DEF RegBits, RmBits, RexBits
<1>10. QED BY <1>5, <1>8, <1>9 DEF p

\* The ModRM byte of an address holds the register.
LEMMA OpAddrReg ==
  ASSUME NEW addr, NEW n, NEW m, m = OpAddr(addr, n), m.present \/ m.size = 8
  PROVE  m.reg = n % 8
<1>1. CASE addr.mode = "ModRM"
  <2> DEFINE e == GetRegExp(addr)
             disp == Signed(e.disp, Half32)
             mod == SibMod(e, disp, addr)
  <2>1. m = SetSIB(addr, n)
    BY <1>1 DEF OpAddr
  <2>2. SibFields(SetSIB(addr, n), e, mod, disp, addr, n)
    BY SetSIBIs
  <2>3. QED BY <2>1, <2>2 DEF SibFields
<1>2. CASE addr.mode = "64bitDisp"
  <2>1. m = NoModRM
    BY <1>2 DEF OpAddr
  <2>2. QED BY <2>1 DEF NoModRM
<1>3. CASE addr.mode # "ModRM" /\ addr.mode # "64bitDisp"
  <2> DEFINE q == SetModRM(0, n, 5)
             d == RipDisp(addr)
             label == addr.exp.label
  <2>1. m = [q EXCEPT !.size = 4, !.disp = d, !.label = label]
    BY <1>3 DEF OpAddr
  <2>2. ModRMFields(q, 0, n, 5)
    BY SetModRMIs
  <2> HIDE DEF q, d, label
  <2>3. q.reg = n % 8
    BY <2>2 DEF ModRMFields
  <2>4. m.reg = q.reg
    BY <2>1
  <2>5. QED BY <2>3, <2>4
<1>4. QED BY <1>1, <1>2, <1>3

\* An instruction with r in the reg field of ModRM, or a part of the opcode that
\* stands for one, and op in the rest of it, where an address may be missing.
Formed(j, r, op) ==
  /\ (IsMem(op) => j.m.present \/ j.m.size = 8) => j.m.reg = r.idx % 8
  /\ RegBits(j.p, r) /\ (r.ext8 => j.p.enc # "none")
  /\ ~IsMem(op) => j.m.rm = op.idx % 8 /\ RmBits(j.p, op) /\ (op.ext8 => j.p.enc # "none")
Legged(p, d, type) ==
  /\ Clean(p) /\ p.enc = "leg" /\ p.map = (IF GetMap(type) = 0 THEN 4 ELSE GetMap(type)) /\ VBits(p, d)
  /\ p.ND <=> ("ND1" \in type \/ ("APX" \notin type /\ IsGp(d)))

\* The register form of ModRM holds both numbers.
Registered(m, r, op) == m.reg = r.idx % 8 /\ m.rm = op.idx % 8 /\ m.mod = 3 /\ m.present = TRUE
LEMMA RegisterForm ==
  ASSUME NEW r, NEW op, NEW m, m = ModRR(r, op)
  PROVE  Registered(m, r, op)
<1> DEFINE a == r.idx
           b == op.idx
           q == SetModRM(3, a, b)
<1>1. m = q
  BY DEF ModRR
<1> HIDE DEF a, b
<1>2. ModRMFields(q, 3, a, b)
  BY SetModRMIs
<1> HIDE DEF q
<1>3. q.reg = a % 8 /\ q.rm = b % 8 /\ q.mod = 3 /\ q.present = TRUE
  BY <1>2 DEF ModRMFields
<1>4. m.reg = a % 8 /\ m.rm = b % 8 /\ m.mod = 3 /\ m.present = TRUE
  BY <1>1, <1>3
<1>5. QED BY <1>4 DEF a, b, Registered

LEMMA MROps ==
  ASSUME NEW addr, NEW op, IsMem(op), NEW r, Plain(r), NEW type, RexType(type), RexOk(RexMRex2(addr, r), type),
         NEW j, j.p = OpMR(addr, r, type).p, j.m = OpMR(addr, r, type).m
  PROVE  Formed(j, r, op) /\ Rexed(j.p, type)
<1>1. j.p = RexM(addr, r, type) /\ j.m = OpAddr(addr, r.idx)
  BY DEF OpMR, Parts
<1>2. Rexed(j.p, type) /\ RegBits(j.p, r) /\ (r.ext8 => j.p.enc # "none")
  BY <1>1, RexMOps
<1>3. j.m.present \/ j.m.size = 8 => j.m.reg = r.idx % 8
  BY <1>1, OpAddrReg
<1>4. QED BY <1>2, <1>3 DEF Formed

LEMMA RROps ==
  ASSUME NEW r, Plain(r), NEW op, Plain(op), NEW type, RexType(type), RexOk(HasRex2(r) \/ HasRex2(op), type),
         NEW j, j.p = OpRR(r, op, type).p, j.m = OpRR(r, op, type).m
  PROVE  Formed(j, r, op) /\ Rexed(j.p, type)
<1>1. j.p = RexR(r, op, type) /\ j.m = ModRR(r, op)
  BY DEF OpRR, Parts
<1>2. Rexed(j.p, type) /\ RegBits(j.p, r) /\ RmBits(j.p, op) /\ (r.ext8 \/ op.ext8 => j.p.enc # "none")
  BY <1>1, RexROps
<1>3. Registered(j.m, r, op)
  BY <1>1, RegisterForm
<1>4. QED BY <1>2, <1>3 DEF Formed, Registered

LEMMA LegOps ==
  ASSUME NEW r, NEW b, NEW x, NEW d, NEW type, NEW p, p = EvexLeg(r, b, x, d, type)
  PROVE  Legged(p, d, type) /\ RegBits(p, r) /\ RmBits(p, b)
<1>1. LegFields(p, r, b, x, d, type)
  BY EvexLegIs
<1>2. RegBits(p, r) /\ RmBits(p, b) /\ VBits(p, d)
  BY <1>1 DEF LegFields, RegBits, RmBits, VBits
<1>3. Clean(p)
  BY <1>1 DEF LegFields, Clean
<1>4. p.enc = "leg" /\ p.map = (IF GetMap(type) = 0 THEN 4 ELSE GetMap(type))
  BY <1>1 DEF LegFields
<1>5. p.ND <=> ("ND1" \in type \/ ("APX" \notin type /\ IsGp(d)))
  BY <1>1 DEF LegFields
<1>6. QED BY <1>2, <1>3, <1>4, <1>5 DEF Legged

LEMMA ROOMem ==
  ASSUME NEW op, IsMem(op), NEW r, ~IsMem(r), NEW d, NEW op1, NEW op2, (op1 = op /\ op2 = r) \/ (op2 = op /\ op1 = r),
         NEW type, NEW n, NEW j, j.p = OpROO(d, op1, op2, type, n).p, j.m = OpROO(d, op1, op2, type, n).m
  PROVE  Formed(j, r, op) /\ Legged(j.p, d, type)
<1> DEFINE mem == [op EXCEPT !.immSize = n]
           e == GetRegExp(mem)
<1>1. j.p = EvexLeg(r, e.base, e.index, d, type) /\ j.m = OpAddr(mem, r.idx)
  BY DEF OpROO, Parts
<1> HIDE DEF mem, e
<1>2. Legged(j.p, d, type) /\ RegBits(j.p, r)
  BY <1>1, LegOps
<1>3. j.m.present \/ j.m.size = 8 => j.m.reg = r.idx % 8
  BY <1>1, OpAddrReg
<1>4. j.p.enc # "none"
  BY <1>2 DEF Legged
<1>5. QED BY <1>2, <1>3, <1>4 DEF Formed

LEMMA ROOReg ==
  ASSUME NEW op, ~IsMem(op), NEW r, ~IsMem(r), NEW d, NEW type, NEW n,
         NEW j, j.p = OpROO(d, op, r, type, n).p, j.m = OpROO(d, op, r, type, n).m
  PROVE  Formed(j, r, op) /\ Legged(j.p, d, type)
<1>1. j.p = EvexLeg(r, op, NoReg, d, type) /\ j.m = ModRR(r, op)
  BY DEF OpROO, Parts
<1>2. Legged(j.p, d, type) /\ RegBits(j.p, r) /\ RmBits(j.p, op)
  BY <1>1, LegOps
<1>3. Registered(j.m, r, op)
  BY <1>1, RegisterForm
<1>4. j.p.enc # "none"
  BY <1>2 DEF Legged
<1>5. QED BY <1>2, <1>3, <1>4 DEF Formed, Registered

LEMMA ROOOps ==
  ASSUME NEW op, NEW r, ~IsMem(r), NEW d, NEW type, NEW n,
         NEW j, j.p = OpROO(d, op, r, type, n).p, j.m = OpROO(d, op, r, type, n).m
  PROVE  Formed(j, r, op) /\ Legged(j.p, d, type)
BY ROOMem, ROOReg

\* A part of the opcode has no extension bits.
LEMMA RextIs ==
  ASSUME NEW op, NEW n \in 0..7
  PROVE  Plain(RextReg(op, n)) /\ ~HasRex2(RextReg(op, n)) /\ ~IsMem(RextReg(op, n))
<1> DEFINE r == RextReg(op, n)
<1>1. r.idx = n /\ r.ext8 = FALSE /\ r.kind = "gp"
  BY DEF RextReg, Gp
<1>2. r.idx \in 0..31
  BY <1>1
<1> HIDE DEF r
<1>3. ~IsExtIdx2(r)
  BY <1>1, <1>2, NumberBits
<1>4. QED BY <1>1, <1>3 DEF Plain, HasRex2, IsMem, r

LEMMA RextOps ==
  ASSUME NEW op, IsMem(op) \/ Plain(op), NEW n \in 0..7, NEW type, RexType(type), type \cap {"0F38", "0F3A"} = {}, NEW d, NEW size,
         NEW j, j.p = OpRext(op, n, type, d, size).p, j.m = OpRext(op, n, type, d, size).m
  PROVE  /\ Formed(j, RextReg(op, n), op)
         /\ RextAPX(op, type, d) => Legged(j.p, RextDest(op, d), type)
         /\ ~RextAPX(op, type, d) => Rexed(j.p, type)
<1> DEFINE r == RextReg(op, n)
<1>1. Plain(r) /\ ~IsMem(r)
  BY RextIs
<1>2. CASE RextAPX(op, type, d)
  <2>1. OpRext(op, n, type, d, size) = OpROO(RextDest(op, d), op, r, type, 0)
    BY <1>2 DEF OpRext
  <2>2. QED BY <1>1, <1>2, <2>1, ROOOps
<1>3. CASE ~RextAPX(op, type, d) /\ IsMem(op)
  <2> DEFINE a == [op EXCEPT !.immSize = size]
  <2>1. OpRext(op, n, type, d, size) = OpMR(a, r, type)
    BY <1>3 DEF OpRext
  <2>2. RexOk(RexMRex2(a, r), type)
    BY DEF RexOk
  <2> HIDE DEF a, r
  <2>3. Formed(j, r, op) /\ Rexed(j.p, type)
    BY <1>1, <1>3, <2>1, <2>2, MROps
  <2>4. QED BY <1>3, <2>3 DEF r
<1>4. CASE ~RextAPX(op, type, d) /\ ~IsMem(op)
  <2> DEFINE t == type \cup {"ABCDH"}
  <2>1. OpRext(op, n, type, d, size) = OpRR(r, op, t)
    BY <1>4 DEF OpRext
  <2>2. RexOk(HasRex2(r) \/ HasRex2(op), t)
    BY DEF RexOk
  <2>3. RexType(t)
    BY DEF RexType
  <2>4. GetMap(t) = GetMap(type)
    BY DEF GetMap
  <2> HIDE DEF t, r
  <2>5. Formed(j, r, op) /\ Rexed(j.p, t)
    BY <1>1, <1>4, <2>1, <2>2, <2>3, RROps
  <2>6. Rexed(j.p, type)
    BY <2>4, <2>5 DEF Rexed
  <2>7. QED BY <1>4, <2>5, <2>6 DEF r
<1>5. QED BY <1>2, <1>3, <1>4

\* What is written down of an instruction.
IsWritten(w, reg, v, rm, mem, first, attr) ==
  w.reg = reg /\ w.v = v /\ w.rm = rm /\ (w.mem <=> mem) /\ w.regFirst = first /\ w.attr = attr
RmOf(op) == IF IsMem(op) THEN NoReg ELSE op

LEMMA MemWritten ==
  ASSUME IInv, NEW reg, NEW v, NEW first, NEW attr, NEW x
  PROVE  IsWritten(Written(reg, v, NoReg, sum, first, attr, x), reg, v, NoReg, TRUE, first, attr)
BY SumIsNone DEF Written, IsWritten

LEMMA RegWrittenIs ==
  ASSUME NEW reg, NEW v, NEW rm, NEW first, NEW attr, NEW x
  PROVE  IsWritten(Written(reg, v, rm, None, first, attr, x), reg, v, rm, FALSE, first, attr)
BY DEF Written, IsWritten

LEMMA WrittenRmOps ==
  ASSUME IInv, NEW v, NEW op, NEW x
  PROVE  IsWritten(WrittenRm(v, op, x), NoReg, v, RmOf(op), IsMem(op), FALSE, NoAttr)
<1> DEFINE a == Written(NoReg, v, NoReg, sum, FALSE, NoAttr, x)
           b == Written(NoReg, v, op, None, FALSE, NoAttr, x)
<1>1. CASE IsMem(op)
  <2>1. a.reg = NoReg /\ a.v = v /\ a.rm = NoReg /\ a.mem /\ a.regFirst = FALSE /\ a.attr = NoAttr
    BY SumIsNone DEF Written
  <2>2. WrittenRm(v, op, x) = a
    BY <1>1 DEF WrittenRm
  <2>3. RmOf(op) = NoReg
    BY <1>1 DEF RmOf
  <2> HIDE DEF a
  <2>4. QED BY <1>1, <2>1, <2>2, <2>3 DEF IsWritten
<1>2. CASE ~IsMem(op)
  <2>1. b.reg = NoReg /\ b.v = v /\ b.rm = op /\ b.mem = FALSE /\ b.regFirst = FALSE /\ b.attr = NoAttr
    BY DEF Written
  <2>2. WrittenRm(v, op, x) = b
    BY <1>2 DEF WrittenRm
  <2>3. RmOf(op) = op
    BY <1>2 DEF RmOf
  <2> HIDE DEF b
  <2>4. QED BY <1>2, <2>1, <2>2, <2>3 DEF IsWritten
<1>3. QED BY <1>1, <1>2

LEMMA WithRegOps ==
  ASSUME IInv, NEW v, NEW op, NEW x, NEW r
  PROVE  IsWritten(WithReg(WrittenRm(v, op, x), r), r, v, RmOf(op), IsMem(op), FALSE, NoAttr)
<1> DEFINE u == WrittenRm(v, op, x)
           w == WithReg(u, r)
<1>1. IsWritten(u, NoReg, v, RmOf(op), IsMem(op), FALSE, NoAttr)
  BY WrittenRmOps
<1>2. w.v = u.v /\ w.rm = u.rm /\ w.mem = u.mem /\ w.regFirst = u.regFirst /\ w.attr = u.attr
  BY DEF WithReg
<1>3. w.reg = r
  <2>1. "reg" \in DOMAIN u
    BY DEF WrittenRm, Written
  <2> HIDE DEF u
  <2>2. QED BY <2>1 DEF WithReg
<1> HIDE DEF u, w
<1>4. IsWritten(w, r, v, RmOf(op), IsMem(op), FALSE, NoAttr)
  BY <1>1, <1>2, <1>3 DEF IsWritten
<1>5. QED BY <1>4 DEF u, w

\* An instruction of the general registers with a rex or rex2 prefix, or with the
\* EVEX prefix of APX and the destination d.
RegWritten(j, r, reg, first) ==
  /\ j.opc.reg # "modrm" => reg = NoReg
  /\ j.opc.reg = "modrm" => reg = r /\ r \in GpRegs /\ IntSize(j) = r.bit /\ first = j.opc.dir
RmWrittenAs(j, op) == ~IsMem(op) => op \in GpRegs /\ RmSize(j) = op.bit

LEMMA FormedReads ==
  ASSUME NEW j, NEW r, NEW op, Formed(j, r, op), NEW w, NEW reg, NEW v, NEW first,
         IsWritten(w, reg, v, RmOf(op), IsMem(op), first, NoAttr), Whole(j, w),
         RegWritten(j, r, reg, first), RmWrittenAs(j, op),
         ~(j.opc.hasV \/ (j.p.enc = "leg" /\ j.p.ND)) => v = NoReg,
         j.opc.hasV \/ (j.p.enc = "leg" /\ j.p.ND) => InV(j, v)
  PROVE  Reads(j, w)
<1>1. IsMem(op) => j.m.present \/ j.m.size = 8
  BY DEF Whole, IsWritten
<1>2. j.m.reg = r.idx % 8 /\ RegBits(j.p, r) /\ (r.ext8 => j.p.enc # "none")
  BY <1>1 DEF Formed
<1>3. j.opc.reg = "modrm" => InReg(j, w.reg) /\ w.regFirst = j.opc.dir
  BY <1>2 DEF RegWritten, IsWritten, InReg
<1>4. j.opc.reg # "modrm" => w.reg = NoReg
  BY DEF RegWritten, IsWritten
<1>5. w.rm # NoReg => InRm(j, w.rm)
  BY DEF RmOf, RmWrittenAs, IsWritten, Formed, InRm
<1>6. w.v = v
  BY DEF IsWritten
<1>7. QED BY <1>3, <1>4, <1>5, <1>6 DEF Reads

LEMMA KeptRexed ==
  ASSUME NEW j, ~Vector(j), j.opc.hasV = FALSE, NEW r, NEW op, Formed(j, r, op), Rexed(j.p, j.opc.type),
         NEW w, NEW reg, NEW first, IsWritten(w, reg, NoReg, RmOf(op), IsMem(op), first, NoAttr),
         RegWritten(j, r, reg, first), RmWrittenAs(j, op)
  PROVE  OpsKept(j, w)
<1>1. Coded(j) /\ j.p.enc # "leg"
  BY DEF Coded, Rexed
<1>2. w.attr = NoAttr
  BY DEF IsWritten
<1>3. Whole(j, w) => Reads(j, w)
  BY <1>1, FormedReads
<1>4. QED BY <1>1, <1>2, <1>3, GeneralOps

LEMMA KeptLegged ==
  ASSUME NEW j, ~Vector(j), NEW r, NEW op, Formed(j, r, op), NEW d, Legged(j.p, d, j.opc.type),
         NEW w, NEW reg, NEW v, NEW first, IsWritten(w, reg, v, RmOf(op), IsMem(op), first, NoAttr),
         RegWritten(j, r, reg, first), RmWrittenAs(j, op),
         j.opc.hasV \/ j.p.ND => v = d /\ d \in GpRegs /\ IntSize(j) = d.bit,
         ~(j.opc.hasV \/ j.p.ND) => v = NoReg
  PROVE  OpsKept(j, w)
<1>1. Coded(j) /\ j.p.enc = "leg" /\ VBits(j.p, d)
  BY DEF Coded, Legged
<1>2. w.attr = NoAttr
  BY DEF IsWritten
<1>3. j.opc.hasV \/ j.p.ND => InV(j, v)
  BY <1>1 DEF InV
<1>4. Whole(j, w) => Reads(j, w)
  BY <1>1, <1>3, FormedReads
<1>5. QED BY <1>1, <1>2, <1>4, GeneralOps

\* An instruction of the vector registers.
VecIn(j, r) == r \in VecRegs /\ VecSize(j) = r.bit
VecV(j, v) ==
  /\ VecIn(j, v) /\ j.p.vvvv = v.idx % 16
  /\ IF j.opc.shape = "gather" THEN ~IsExtIdx2(v) ELSE j.p.V4 <=> IsExtIdx2(v)
VecRm(j, r) ==
  VecIn(j, r) /\ j.m.rm = r.idx % 8 /\ (j.p.B3 <=> IsExtIdx(r)) /\ (j.p.X3 <=> IsExtIdx2(r))
VecReads(j, w) ==
  /\ j.opc.reg = "modrm" /\ w.regFirst = j.opc.dir
  /\ VecIn(j, w.reg) /\ j.m.reg = w.reg.idx % 8 /\ RegBits(j.p, w.reg)
  /\ j.opc.hasV => VecV(j, w.v)
  /\ ~j.opc.hasV => w.v = NoReg
  /\ w.rm # NoReg => VecRm(j, w.rm)

LEMMA VecIs ==
  ASSUME NEW j, NEW r, VecIn(j, r), NEW n, n = r.idx
  PROVE  Vec(n, VecSize(j)) = r
<1>1. r = Vec(r.idx, r.bit)
  BY VecForm, Zenon DEF VecIn
<1>2. QED BY <1>1 DEF VecIn

LEMMA ReadRegVec ==
  ASSUME NEW j, Vector(j), j.opc.reg = "modrm", NEW r, VecIn(j, r), j.m.reg = r.idx % 8, RegBits(j.p, r)
  PROVE  ReadReg(j) = r
<1>1. r.idx \in 0..31
  BY VecForm, Zenon DEF VecIn
<1>2. RegNumber(j) = r.idx
  BY <1>1, NumberIs DEF RegBits, RegNumber
<1>3. ReadReg(j) = Vec(RegNumber(j), VecSize(j))
  BY DEF ReadReg
<1>4. QED BY <1>2, <1>3, VecIs

LEMMA ReadVVec ==
  ASSUME NEW j, Vector(j), j.opc.hasV, NEW r, VecV(j, r)
  PROVE  ReadV(j) = r
<1>1. VecIn(j, r)
  BY DEF VecV
<1>2. r.idx \in 0..31
  BY <1>1, VecForm, Zenon DEF VecIn
<1> DEFINE n == j.p.vvvv + Bit(j.p.V4 /\ j.opc.shape # "gather", 16)
<1>3. n = r.idx
  <2>1. (r.idx % 16) + Bit(IsExtIdx2(r), 16) = r.idx
    BY <1>2, NumberBits
  <2>2. Bit(j.p.V4 /\ j.opc.shape # "gather", 16) = Bit(IsExtIdx2(r), 16)
    BY DEF Bit, VecV
  <2>3. QED BY <2>1, <2>2 DEF VecV
<1>4. ReadV(j) = Vec(n, VecSize(j))
  BY DEF ReadV
<1> HIDE DEF n
<1>5. QED BY <1>1, <1>3, <1>4, VecIs

LEMMA ReadRmVec ==
  ASSUME NEW j, Vector(j), NEW r, VecRm(j, r)
  PROVE  ReadRm(j) = r
<1>1. VecIn(j, r)
  BY DEF VecRm
<1>2. r.idx \in 0..31
  BY <1>1, VecForm, Zenon DEF VecIn
<1> DEFINE n == (j.m.rm + Bit(j.p.B3, 8)) + Bit(j.p.X3, 16)
<1>3. n = r.idx
  BY <1>2, NumberIs DEF VecRm
<1>4. ReadRm(j) = Vec(n, VecSize(j))
  BY DEF ReadRm
<1> HIDE DEF n
<1>5. QED BY <1>1, <1>3, <1>4, VecIs

Mapped(j) == j.p.map = IF j.p.enc = "leg" /\ GetMap(j.opc.type) = 0 THEN 4 ELSE GetMap(j.opc.type)

LEMMA VectorOps ==
  ASSUME NEW j, NEW w, Vector(j), Mapped(j), Whole(j, w) => VecReads(j, w) /\ AttributesRead(j) = w.attr
  PROVE  OpsKept(j, w)
<1> SUFFICES ASSUME Whole(j, w)
             PROVE  SameOps(j, w)
  BY DEF OpsKept
<1>1. VecReads(j, w) /\ AttributesRead(j) = w.attr
  OBVIOUS
<1>2. ReadReg(j) = w.reg
  BY <1>1, ReadRegVec DEF VecReads
<1>3. ReadV(j) = w.v
  <2>1. CASE j.opc.hasV
    BY <1>1, <2>1, ReadVVec DEF VecReads
  <2>2. CASE ~j.opc.hasV
    BY <1>1, <2>2 DEF VecReads, ReadV
  <2>3. QED BY <2>1, <2>2
<1>4. w.rm # NoReg => ReadRm(j) = w.rm
  BY <1>1, ReadRmVec DEF VecReads
<1>5. QED BY <1>1, <1>2, <1>3, <1>4 DEF SameOps, VecReads, Mapped

\* The instructions without a new prefix.
LEMMA LegacyOpsAre ==
  ASSUME NEW o \in LegacyOps
  PROVE  /\ o.hasV = FALSE /\ o.tuple = "scalar" /\ RexType(o.type)
         /\ o.shape \in {"vec", "int8", "int", "movx8", "movx16"}
         /\ o.shape # "vec" => o.type \cap {"F2", "F3", "66"} = {}
         /\ o.shape = "int8" => o.type = {}
         /\ o.shape \in {"movx8", "movx16"} <=> "DIFF" \in o.type
         /\ "APX" \notin o.type
<1> DEFINE Fine(x) == /\ x.hasV = FALSE /\ x.tuple = "scalar" /\ RexType(x.type)
                      /\ x.shape \in {"vec", "int8", "int", "movx8", "movx16"}
                      /\ x.shape # "vec" => x.type \cap {"F2", "F3", "66"} = {}
                      /\ x.shape = "int8" => x.type = {}
                      /\ x.shape \in {"movx8", "movx16"} <=> "DIFF" \in x.type
                      /\ "APX" \notin x.type
<1>1. Fine(add) /\ Fine(cmov) /\ Fine(movbe)
  BY DEF add, cmov, movbe, Op, RexType
<1>2. Fine(movzx8) /\ Fine(movzx16)
  BY DEF movzx8, movzx16, Op, RexType
<1>3. Fine(addps) /\ Fine(pshufb) /\ Fine(pshufd)
  BY DEF addps, pshufb, pshufd, Op, RexType
<1> HIDE DEF Fine
<1>4. Fine(o)
  BY <1>1, <1>2, <1>3 DEF LegacyOps
<1>5. QED BY <1>4 DEF Fine

LEMMA LegacyGp ==
  ASSUME NEW o \in LegacyOps, o.shape # "vec", NEW r \in LegacyRegs(o)
  PROVE  /\ r \in GpRegs /\ (o.shape # "int8" => r.bit > 8) /\ (o.shape = "movx16" => r.bit > 16)
         /\ o.shape \notin {"movx8", "movx16"} => SourceBit(o, r) = r.bit
         /\ o.shape = "movx8" => SourceBit(o, r) = 8
         /\ o.shape = "movx16" => SourceBit(o, r) = 16
<1>1. o.shape \in {"int8", "int", "movx8", "movx16"}
  BY LegacyOpsAre
<1>2. \A x : SourceBit(o, x) = IF o.shape = "movx8" THEN 8 ELSE IF o.shape = "movx16" THEN 16 ELSE x.bit
  BY DEF SourceBit
<1>3. Gp(0, 8).bit = 8
  BY DEF Gp
<1>4. r \in Gps /\ (o.shape # "int8" => r.bit > SourceBit(o, Gp(0, 8)))
  BY <1>1 DEF LegacyRegs
<1>5. r \in GpRegs
  BY <1>4, EncodingAssumption
<1>6. r.bit \in {8, 16, 32, 64}
  BY <1>5, GpForm
<1>7. o.shape # "int8" => r.bit > 8
  BY <1>1, <1>2, <1>3, <1>4, <1>6
<1>8. o.shape = "movx16" => r.bit > 16
  BY <1>2, <1>4
<1>9. QED BY <1>1, <1>2, <1>5, <1>7, <1>8

LEMMA LegacyVec ==
  ASSUME NEW o \in LegacyOps, o.shape = "vec", NEW r \in LegacyRegs(o)
  PROVE  r \in VecRegs /\ r.bit = 128 /\ ~IsExtIdx2(r) /\ Plain(r)
<1>1. r \in VecRegs /\ r.bit = 128 /\ r.idx < 16
  BY EncodingAssumption DEF LegacyRegs
<1>2. r.idx \in 0..31 /\ r.ext8 = FALSE
  BY <1>1, VecForm, ZenonT(30)
<1>3. ~IsExtIdx2(r)
  BY <1>1, <1>2, NumberBits
<1>4. QED BY <1>1, <1>2, <1>3 DEF Plain

LEMMA LegacySizes ==
  ASSUME NEW o \in LegacyOps, o.shape # "vec", NEW r \in LegacyRegs(o), NEW j, j.opc.shape = o.shape,
         Prefixed(j.p, r.bit), j.opc.code1 = WriteCode(o.type, r)
  PROVE  IntSize(j) = r.bit /\ RmSize(j) = SourceBit(o, r)
<1>1. r.bit \in Widths
  BY LegacyGp, GpForm DEF Widths
<1>2. o.shape = "int8" => (j.opc.code1 <=> r.bit # 8)
  BY LegacyOpsAre, WriteCodeIs
<1>3. IntSize(j) = r.bit
  <2>1. o.shape \in {"int8", "int", "movx8", "movx16"} /\ (o.shape # "int8" => r.bit > 8)
    BY LegacyGp, LegacyOpsAre
  <2>2. QED BY <1>1, <1>2, <2>1 DEF IntSize, Prefixed, Widths
<1>4. RmSize(j) = SourceBit(o, r)
  BY <1>3, LegacyGp, LegacyOpsAre DEF RmSize
<1>5. QED BY <1>3, <1>4

LEMMA GpPlain ==
  ASSUME NEW r \in GpRegs
  PROVE  Plain(r) /\ ~IsMem(r)
BY GpForm DEF Plain

\* A narrower source does not disturb the width of the operation.
LEMMA LegacyPrefixes ==
  ASSUME NEW o \in LegacyOps, o.shape # "vec", NEW r \in LegacyRegs(o), NEW bit, bit = SourceBit(o, r) \/ bit \in {0, r.bit}
  PROVE  /\ P66(bit, r.bit) <=> r.bit = 16
         /\ P66(r.bit, bit) <=> r.bit = 16
         /\ bit = 64 => r.bit = 64
<1>1. r.bit \in Widths
  BY LegacyGp, GpForm DEF Widths
<1>2. \/ bit \in {0, r.bit}
      \/ bit = 8 /\ r.bit > 8
      \/ bit = 16 /\ r.bit > 16
  BY LegacyGp, LegacyOpsAre
<1>3. QED BY <1>1, <1>2 DEF P66, Widths

NoX3(p) == p.X3 = FALSE
LEMMA RexRIndex ==
  ASSUME NEW reg, NEW rm, NEW type
  PROVE  NoX3(RexR(reg, rm, type))
<1> DEFINE rex2 == HasRex2(reg) \/ HasRex2(rm)
           W == \E r \in {reg, rm} : IsGp(r) /\ r.bit = 64
           pp == LegacyPP(type, P66(reg.bit, rm.bit))
           e8 == reg.ext8 \/ rm.ext8
           p == RexR(reg, rm, type)
<1>1. p = RexWith(rex2, W, e8, pp, FALSE, type, reg, rm, NoReg)
  BY DEF RexR
<1>2. W \in BOOLEAN /\ rex2 \in BOOLEAN /\ e8 \in BOOLEAN
  BY DEF HasRex2, IsExtIdx2, HasIdxBit, IsGp
<1> HIDE DEF rex2, W, pp, e8, p
<1>3. RexFields(p, rex2, W, e8, pp, FALSE, type, reg, rm, NoReg)
  BY <1>1, <1>2, RexWithIs
<1>4. p.X3 = IsExtIdx(NoReg)
  BY <1>3 DEF RexFields
<1>5. p.X3 = FALSE
  BY <1>4, NoRegForm, IndexBits
<1>6. QED BY <1>5 DEF p, NoX3

\* An instruction of the xmm registers with a rex or rex2 prefix.
LEMMA KeptLegacyVec ==
  ASSUME NEW j, j.opc.shape = "vec", j.opc.tuple = "scalar", j.opc.hasV = FALSE, j.opc.reg = "modrm",
         NEW r, NEW op, Formed(j, r, op), Rexed(j.p, j.opc.type), r \in VecRegs, r.bit = 128,
         ~IsMem(op) => op \in VecRegs /\ op.bit = 128 /\ ~IsExtIdx2(op) /\ NoX3(j.p),
         NEW w, NEW first, IsWritten(w, r, NoReg, RmOf(op), IsMem(op), first, NoAttr), first = j.opc.dir
  PROVE  OpsKept(j, w)
<1>1. Vector(j) /\ VecSize(j) = 128
  BY DEF Vector, VecSize
<1>2. Mapped(j)
  BY DEF Mapped, Rexed
<1>3. AttributesRead(j) = w.attr
  BY CleanReads DEF Rexed, IsWritten
<1>4. ASSUME Whole(j, w) PROVE VecReads(j, w)
  <2>1. IsMem(op) => j.m.present \/ j.m.size = 8
    BY <1>4 DEF Whole, IsWritten
  <2>2. j.m.reg = r.idx % 8 /\ RegBits(j.p, r)
    BY <2>1 DEF Formed
  <2>3. w.rm # NoReg => VecRm(j, w.rm)
    BY <1>1 DEF RmOf, IsWritten, Formed, VecRm, VecIn, RmBits, NoX3
  <2>4. VecIn(j, r)
    BY <1>1 DEF VecIn
  <2>5. w.reg = r /\ w.v = NoReg /\ w.regFirst = j.opc.dir
    BY DEF IsWritten
  <2>6. QED BY <2>2, <2>3, <2>4, <2>5 DEF VecReads
<1>5. QED BY <1>1, <1>2, <1>3, <1>4, VectorOps

LEMMA LegacyROps == ASSUME LegacyR PROVE OpsKept(i', want')
<1>1. PICK o \in LegacyOps \ {movbe} : \E r1 \in LegacyRegs(o), r2 \in Gps \cup Vecs, imm \in Imm8(o) :
        /\ IF o.shape = "vec" THEN r2 \in LegacyRegs(o) ELSE IsGp(r2)
        /\ o.shape \in {"movx8", "movx16"} => r2.bit = SourceBit(o, r1)
        /\ OpRROk(r1, r2, o.type)
        /\ Emit(o, "modrm", FALSE, OpRR(r1, r2, o.type), imm, Written(r1, NoReg, r2, None, FALSE, NoAttr, imm.value))
  BY DEF LegacyR
<1>2. PICK r1 \in LegacyRegs(o), r2 \in Gps \cup Vecs, imm \in Imm8(o) :
        /\ IF o.shape = "vec" THEN r2 \in LegacyRegs(o) ELSE IsGp(r2)
        /\ o.shape \in {"movx8", "movx16"} => r2.bit = SourceBit(o, r1)
        /\ OpRROk(r1, r2, o.type)
        /\ Emit(o, "modrm", FALSE, OpRR(r1, r2, o.type), imm, Written(r1, NoReg, r2, None, FALSE, NoAttr, imm.value))
  BY <1>1
<1> DEFINE w == Written(r1, NoReg, r2, None, FALSE, NoAttr, imm.value)
           parts == OpRR(r1, r2, o.type)
<1>3. /\ IF o.shape = "vec" THEN r2 \in LegacyRegs(o) ELSE IsGp(r2)
      /\ o.shape \in {"movx8", "movx16"} => r2.bit = SourceBit(o, r1)
      /\ OpRROk(r1, r2, o.type)
  BY <1>2
<1>4. Emitted(i', o, "modrm", FALSE, parts, imm) /\ want' = w
  BY <1>2, EmitIs
<1>5. IsWritten(w, r1, NoReg, r2, FALSE, FALSE, NoAttr)
  BY RegWrittenIs
<1> HIDE DEF w, parts
<1>6. /\ i'.p = parts.p /\ i'.m = parts.m /\ i'.opc.shape = o.shape /\ i'.opc.tuple = o.tuple /\ i'.opc.hasV = o.hasV
      /\ i'.opc.reg = "modrm" /\ i'.opc.dir = FALSE /\ i'.opc.type = o.type /\ i'.opc.code1 = parts.code1
  BY <1>4 DEF Emitted
<1>7. RexType(o.type) /\ o.hasV = FALSE /\ o.tuple = "scalar" /\ o.shape \in {"vec", "int8", "int", "movx8", "movx16"}
  BY LegacyOpsAre
<1>8. RexOk(HasRex2(r1) \/ HasRex2(r2), o.type)
  BY <1>3 DEF OpRROk
<1>9. parts.p = RexR(r1, r2, o.type) /\ parts.code1 = WriteCode(o.type, r1)
  BY DEF parts, OpRR, Parts
<1>10. CASE o.shape = "vec"
  <2>1. /\ r1 \in VecRegs /\ r1.bit = 128 /\ Plain(r1)
        /\ r2 \in VecRegs /\ r2.bit = 128 /\ ~IsExtIdx2(r2) /\ Plain(r2)
    BY <1>3, <1>10, LegacyVec
  <2>2. ~IsMem(r2)
    BY <2>1, VecForm, Zenon
  <2>3. Formed(i', r1, r2) /\ Rexed(i'.p, o.type)
    BY <1>6, <1>7, <1>8, <2>1, RROps DEF parts
  <2>4. NoX3(i'.p)
    BY <1>6, <1>9, RexRIndex
  <2> DEFINE first == FALSE
  <2>5. IsWritten(want', r1, NoReg, RmOf(r2), IsMem(r2), first, NoAttr) /\ first = i'.opc.dir
    BY <1>4, <1>5, <1>6, <2>2 DEF RmOf, IsWritten
  <2> HIDE DEF first
  <2>6. i'.opc.shape = "vec" /\ i'.opc.tuple = "scalar" /\ i'.opc.hasV = FALSE /\ Rexed(i'.p, i'.opc.type)
    BY <1>6, <1>7, <1>10, <2>3
  <2>7. QED BY <1>6, <2>1, <2>3, <2>4, <2>5, <2>6, KeptLegacyVec
<1>11. CASE o.shape # "vec"
  <2>1. r1 \in GpRegs
    BY <1>11, LegacyGp
  <2>2. r2 \in GpRegs
    <3>1. r2 \in GpRegs \/ r2 \in VecRegs
      BY EncodingAssumption
    <3>2. r2 \in VecRegs => ~IsGp(r2)
      BY VecForm, Zenon
    <3>3. QED BY <1>3, <1>11, <3>1, <3>2
  <2>3. r2.bit = SourceBit(o, r1)
    <3>1. CASE o.shape \in {"movx8", "movx16"}
      BY <1>3, <3>1
    <3>2. CASE o.shape \notin {"movx8", "movx16"}
      <4>1. "DIFF" \notin o.type
        BY <3>2, LegacyOpsAre
      <4>2. r1.bit = r2.bit
        BY <1>3, <2>1, <2>2, <4>1, GpForm DEF OpRROk
      <4>3. QED BY <1>11, <3>2, <4>2, LegacyGp
    <3>3. QED BY <3>1, <3>2
  <2>4. Plain(r1) /\ Plain(r2) /\ ~IsMem(r2) /\ IsGp(r1) /\ IsGp(r2)
    BY <2>1, <2>2, GpPlain, GpForm
  <2>5. Formed(i', r1, r2) /\ Rexed(i'.p, o.type)
    BY <1>6, <1>7, <1>8, <2>4, RROps DEF parts
  <2>6. (P66(r1.bit, r2.bit) <=> r1.bit = 16) /\ (r2.bit = 64 => r1.bit = 64)
    BY <1>11, <2>3, LegacyPrefixes
  <2>7. (\E r \in {r1, r2} : IsGp(r) /\ r.bit = 64) <=> r1.bit = 64
    BY <2>4, <2>6
  <2>8. o.type \cap {"F2", "F3", "66"} = {}
    BY <1>11, LegacyOpsAre
  <2>9. Prefixed(i'.p, r1.bit)
    BY <1>6, <1>9, <2>6, <2>7, <2>8, RexRWide
  <2>10. IntSize(i') = r1.bit /\ RmSize(i') = r2.bit
    BY <1>6, <1>9, <1>11, <2>3, <2>9, LegacySizes
  <2>11. IsWritten(want', r1, NoReg, RmOf(r2), IsMem(r2), FALSE, NoAttr)
    BY <1>4, <1>5, <2>4 DEF RmOf, IsWritten
  <2>12. RegWritten(i', r1, r1, FALSE) /\ RmWrittenAs(i', r2)
    BY <1>6, <2>1, <2>2, <2>10 DEF RegWritten, RmWrittenAs
  <2>13. ~Vector(i') /\ i'.opc.hasV = FALSE
    BY <1>6, <1>7, <1>11 DEF Vector
  <2>14. QED BY <1>6, <2>5, <2>11, <2>12, <2>13, KeptRexed
<1>12. QED BY <1>10, <1>11

LEMMA MemSizedIs ==
  ASSUME NEW bit, NEW n
  PROVE  IsMem(Sized(MemOp(bit), n)) /\ Sized(MemOp(bit), n).bit = bit
<1>1. IsMemOp(MemOp(bit), expr) /\ MemOp(bit).bit = bit
  BY MemOpIs
<1>2. IsMemOp(Sized(MemOp(bit), n), expr) /\ Sized(MemOp(bit), n).bit = MemOp(bit).bit
  BY <1>1, MemOpSized DEF Sized
<1>3. QED BY <1>1, <1>2 DEF IsMem, IsMemOp

\* The first operand of KeptLegged when the APX form has no new destination.
LEMMA NoDestination ==
  ASSUME NEW p, NEW type, "APX" \in type, "ND1" \notin type, NEW d, Legged(p, d, type)
  PROVE  ~p.ND
BY DEF Legged

LEMMA LegacyMOps == ASSUME IInv, LegacyM PROVE OpsKept(i', want')
<1>2. PICK o \in LegacyOps, load \in BOOLEAN : (load \/ o = add) /\ \E r \in LegacyRegs(o), imm \in Imm8(o) :
        \E bit \in SourceSizes(o, r) :
        LET addr == [MemOp(bit) EXCEPT !.immSize = imm.size]
            apx == o = movbe /\ OpROOApplies(NoReg, addr, r, {"APX"})
            parts == IF apx THEN OpROO(NoReg, addr, r, {"APX"}, 0) ELSE OpMR(addr, r, o.type)
        IN  /\ IF apx THEN OpROOOk(addr, r, {"APX"}) ELSE OpMROk(addr, r, o.type)
            /\ Emit(IF apx THEN [o EXCEPT !.type = {"APX"}] ELSE o, "modrm", load, parts, imm,
                    Written(r, NoReg, NoReg, sum, load, NoAttr, imm.value))
  BY DEF LegacyM
<1>3. PICK r \in LegacyRegs(o), imm \in Imm8(o) : \E bit \in SourceSizes(o, r) :
        LET addr == [MemOp(bit) EXCEPT !.immSize = imm.size]
            apx == o = movbe /\ OpROOApplies(NoReg, addr, r, {"APX"})
            parts == IF apx THEN OpROO(NoReg, addr, r, {"APX"}, 0) ELSE OpMR(addr, r, o.type)
        IN  /\ IF apx THEN OpROOOk(addr, r, {"APX"}) ELSE OpMROk(addr, r, o.type)
            /\ Emit(IF apx THEN [o EXCEPT !.type = {"APX"}] ELSE o, "modrm", load, parts, imm,
                    Written(r, NoReg, NoReg, sum, load, NoAttr, imm.value))
  BY <1>2
<1>4. PICK bit \in SourceSizes(o, r) :
        LET addr == [MemOp(bit) EXCEPT !.immSize = imm.size]
            apx == o = movbe /\ OpROOApplies(NoReg, addr, r, {"APX"})
            parts == IF apx THEN OpROO(NoReg, addr, r, {"APX"}, 0) ELSE OpMR(addr, r, o.type)
        IN  /\ IF apx THEN OpROOOk(addr, r, {"APX"}) ELSE OpMROk(addr, r, o.type)
            /\ Emit(IF apx THEN [o EXCEPT !.type = {"APX"}] ELSE o, "modrm", load, parts, imm,
                    Written(r, NoReg, NoReg, sum, load, NoAttr, imm.value))
  BY <1>3
<1> DEFINE addr == Sized(MemOp(bit), imm.size)
           apx == o = movbe /\ OpROOApplies(NoReg, addr, r, {"APX"})
           parts == IF apx THEN OpROO(NoReg, addr, r, {"APX"}, 0) ELSE OpMR(addr, r, o.type)
           oo == IF apx THEN [o EXCEPT !.type = {"APX"}] ELSE o
           w == Written(r, NoReg, NoReg, sum, load, NoAttr, imm.value)
<1>5. /\ IF apx THEN OpROOOk(addr, r, {"APX"}) ELSE OpMROk(addr, r, o.type)
      /\ Emit(oo, "modrm", load, parts, imm, w)
  BY <1>4 DEF Sized
<1>6. IsWritten(w, r, NoReg, NoReg, TRUE, load, NoAttr)
  BY MemWritten
<1>7. IsMem(addr) /\ addr.bit = bit
  BY MemSizedIs
<1>8. /\ oo.shape = o.shape /\ oo.hasV = o.hasV /\ oo.tuple = o.tuple
      /\ ~apx => oo.type = o.type
  OBVIOUS
<1>9. /\ apx => parts = OpROO(NoReg, addr, r, {"APX"}, 0) /\ o = movbe
      /\ ~apx => OpMROk(addr, r, o.type) /\ parts = OpMR(addr, r, o.type)
  BY <1>5
<1>10. apx => oo.type = {"APX"}
  BY DEF movbe, Op
<1> HIDE DEF addr, apx, parts, oo, w
<1>11. Emitted(i', oo, "modrm", load, parts, imm) /\ want' = w
  BY <1>5, EmitIs
<1>12. /\ i'.p = parts.p /\ i'.m = parts.m /\ i'.opc.shape = o.shape /\ i'.opc.tuple = o.tuple /\ i'.opc.hasV = o.hasV
       /\ i'.opc.reg = "modrm" /\ i'.opc.dir = load /\ i'.opc.type = oo.type /\ i'.opc.code1 = parts.code1
  BY <1>8, <1>11 DEF Emitted
<1>13. RexType(o.type) /\ o.hasV = FALSE /\ o.tuple = "scalar" /\ o.shape \in {"vec", "int8", "int", "movx8", "movx16"}
  BY LegacyOpsAre
<1>14. IsWritten(want', r, NoReg, RmOf(addr), IsMem(addr), load, NoAttr) /\ load = i'.opc.dir
  BY <1>6, <1>7, <1>11, <1>12 DEF RmOf, IsWritten
<1>15. CASE o.shape = "vec"
  <2>1. r \in VecRegs /\ r.bit = 128 /\ Plain(r)
    BY <1>15, LegacyVec
  <2>2. ~apx
    BY <1>9, <1>15 DEF movbe, Op
  <2>3. RexOk(RexMRex2(addr, r), o.type)
    BY <1>9, <2>2 DEF OpMROk
  <2>4. Formed(i', r, addr) /\ Rexed(i'.p, o.type)
    BY <1>7, <1>9, <1>12, <1>13, <2>1, <2>2, <2>3, MROps
  <2>5. i'.opc.shape = "vec" /\ i'.opc.tuple = "scalar" /\ i'.opc.hasV = FALSE /\ Rexed(i'.p, i'.opc.type)
    BY <1>8, <1>12, <1>13, <1>15, <2>2, <2>4
  <2>6. QED BY <1>7, <1>12, <1>14, <2>1, <2>4, <2>5, KeptLegacyVec
<1>16. CASE o.shape # "vec"
  <2>1. r \in GpRegs /\ Plain(r) /\ ~IsMem(r)
    BY <1>16, LegacyGp, GpPlain
  <2>2. ~Vector(i') /\ i'.opc.hasV = FALSE
    BY <1>12, <1>13, <1>16 DEF Vector
  <2>3. RmWrittenAs(i', addr)
    BY <1>7 DEF RmWrittenAs
  <2>4. CASE apx
    <3>1. PICK n : n = 0
      OBVIOUS
    <3>2. PICK type : type = {"APX"}
      OBVIOUS
    <3>3. i'.p = OpROO(NoReg, addr, r, type, n).p /\ i'.m = OpROO(NoReg, addr, r, type, n).m /\ i'.opc.type = type
      BY <1>9, <1>10, <1>12, <2>4, <3>1, <3>2
    <3>4. Formed(i', r, addr) /\ Legged(i'.p, NoReg, type)
      BY <2>1, <3>3, ROOOps
    <3>5. type \cap {"F2", "F3", "66", "W0", "W1"} = {} /\ "APX" \in type /\ "ND1" \notin type
      BY <3>2
    <3>6. Prefixed(i'.p, r.bit)
      BY <2>1, <3>3, <3>5, OpROOSize
    <3>7. ~i'.p.ND
      BY <3>4, <3>5, NoDestination
    <3>8. o.shape = "int"
      BY <1>9, <2>4 DEF movbe, Op
    <3>9. r.bit > 8 /\ r.bit \in Widths
      BY <1>16, <2>1, <3>8, LegacyGp, GpForm DEF Widths
    <3>10. IntSize(i') = r.bit
      BY <1>12, <3>6, <3>8, <3>9, SizedRead
    <3>11. RegWritten(i', r, r, load)
      BY <1>12, <2>1, <3>10 DEF RegWritten
    <3>12. Legged(i'.p, NoReg, i'.opc.type)
      BY <3>3, <3>4
    <3>13. QED BY <1>14, <2>2, <2>3, <3>4, <3>7, <3>11, <3>12, KeptLegged
  <2>5. CASE ~apx
    <3>1. RexOk(RexMRex2(addr, r), o.type)
      BY <1>9, <2>5 DEF OpMROk
    <3>2. parts = OpMR(addr, r, o.type)
      BY <1>9, <2>5
    <3>3. Formed(i', r, addr) /\ Rexed(i'.p, o.type)
      BY <1>7, <1>12, <1>13, <2>1, <3>1, <3>2, MROps
    <3>4. parts.p = RexM(addr, r, o.type) /\ parts.code1 = WriteCode(o.type, r)
      BY <3>2 DEF OpMR, Parts
    <3>5. bit = SourceBit(o, r) \/ bit \in {0, r.bit}
      BY DEF SourceSizes
    <3>6. P66(addr.bit, r.bit) <=> r.bit = 16
      BY <1>7, <1>16, <3>5, LegacyPrefixes
    <3>7. o.type \cap {"F2", "F3", "66"} = {}
      BY <1>16, LegacyOpsAre
    <3>8. Prefixed(i'.p, r.bit)
      BY <1>12, <2>1, <3>4, <3>6, <3>7, RexMWide
    <3>9. IntSize(i') = r.bit
      BY <1>12, <1>16, <3>4, <3>8, LegacySizes
    <3>10. RegWritten(i', r, r, load)
      BY <1>12, <2>1, <3>9 DEF RegWritten
    <3>11. Rexed(i'.p, i'.opc.type)
      BY <1>8, <1>12, <2>5, <3>3
    <3>12. QED BY <1>14, <2>2, <2>3, <3>3, <3>10, <3>11, KeptRexed
  <2>6. QED BY <2>4, <2>5
<1>17. QED BY <1>15, <1>16

LEMMA ROOMemSize ==
  ASSUME NEW op, IsMem(op), NEW r \in GpRegs, NEW d, d = NoReg \/ (d \in GpRegs /\ d.bit = r.bit),
         NEW op1, NEW op2, (op1 = op /\ op2 = r) \/ (op2 = op /\ op1 = r),
         NEW type, type \cap {"F2", "F3", "66", "W0", "W1"} = {}, NEW n
  PROVE  /\ Prefixed(OpROO(d, op1, op2, type, n).p, r.bit)
         /\ OpROO(d, op1, op2, type, n).code1 = WriteCode(type, d)
<1> DEFINE e == GetRegExp([op EXCEPT !.immSize = n])
<1>1. ~IsMem(r)
  BY GpForm
<1>2. /\ OpROO(d, op1, op2, type, n).p = EvexLeg(r, e.base, e.index, d, type)
      /\ OpROO(d, op1, op2, type, n).code1 = WriteCode(type, d)
  BY <1>1 DEF OpROO, Parts
<1> HIDE DEF e
<1>3. QED BY <1>2, EvexLegSize

\* Instructions with a new destination.
LEMMA ThreeOpsAre ==
  ASSUME NEW o \in {add3, cmov3}, NEW d \in GpRegs, o = cmov3 => d.bit > 8, NEW p, Legged(p, d, o.type)
  PROVE  /\ o.hasV = FALSE /\ o.shape \in {"int8", "int"} /\ p.ND
         /\ o.type \cap {"F2", "F3", "66", "W0", "W1"} = {}
         /\ \/ o.shape = "int8" /\ (WriteCode(o.type, d) <=> d.bit # 8)
            \/ o.shape = "int" /\ d.bit # 8
<1>1. IsGp(d)
  BY GpForm
<1>2. CASE o = add3
  <2>1. o.type = {"NF", "CODE1"} /\ o.shape = "int8" /\ o.hasV = FALSE
    BY <1>2 DEF add3, Op
  <2>2. p.ND
    BY <1>1, <2>1 DEF Legged
  <2>3. WriteCode(o.type, d) <=> d.bit # 8
    BY <2>1, WriteCodeIs
  <2>4. QED BY <2>1, <2>2, <2>3
<1>3. CASE o = cmov3
  <2>1. o.type = {"APX", "ND1"} /\ o.shape = "int" /\ o.hasV = FALSE
    BY <1>3 DEF cmov3, Op
  <2>2. p.ND
    BY <2>1 DEF Legged
  <2>3. QED BY <1>3, <2>1, <2>2
<1>4. QED BY <1>2, <1>3

LEMMA KeptThree ==
  ASSUME NEW o \in {add3, cmov3}, NEW d \in GpRegs, o = cmov3 => d.bit > 8,
         NEW r \in GpRegs, r.bit = d.bit, NEW op, ~IsMem(op) => op \in GpRegs /\ op.bit = d.bit,
         NEW j, Formed(j, r, op), Legged(j.p, d, o.type), Prefixed(j.p, r.bit), j.opc.code1 = WriteCode(o.type, d),
         j.opc.shape = o.shape, j.opc.hasV = o.hasV, j.opc.type = o.type, j.opc.reg = "modrm",
         NEW w, NEW first, IsWritten(w, r, d, RmOf(op), IsMem(op), first, NoAttr), first = j.opc.dir
  PROVE  OpsKept(j, w)
<1>1. /\ o.hasV = FALSE /\ o.shape \in {"int8", "int"} /\ j.p.ND
      /\ \/ o.shape = "int8" /\ (WriteCode(o.type, d) <=> d.bit # 8)
         \/ o.shape = "int" /\ d.bit # 8
  BY ThreeOpsAre
<1>2. d.bit \in Widths
  BY GpForm DEF Widths
<1>3. IntSize(j) = d.bit
  BY <1>1, <1>2, SizedRead
<1>4. RmSize(j) = IntSize(j)
  BY <1>1 DEF RmSize
<1>5. ~Vector(j)
  BY <1>1 DEF Vector
<1>6. RegWritten(j, r, r, first) /\ RmWrittenAs(j, op)
  BY <1>3, <1>4 DEF RegWritten, RmWrittenAs
<1>7. Legged(j.p, d, j.opc.type)
  OBVIOUS
<1>8. QED BY <1>1, <1>3, <1>5, <1>6, <1>7, KeptLegged

LEMMA ThreeMOps == ASSUME IInv, ThreeM PROVE OpsKept(i', want')
<1>2. PICK o \in {add3, cmov3} : \E d \in Gps, memFirst \in BOOLEAN :
        \E r \in SameBit(Gps, d.bit), bit \in {0, d.bit} :
        LET op1 == IF memFirst THEN MemOp(bit) ELSE r
            op2 == IF memFirst THEN r ELSE MemOp(bit)
        IN  /\ o = cmov3 => memFirst /\ d.bit > 8
            /\ OpROOOk(op1, op2, o.type)
            /\ Emit(o, "modrm", OpROODir(op1, op2), OpROO(d, op1, op2, o.type, 0), NoImm,
                    Written(r, d, NoReg, sum, ~memFirst, NoAttr, 0))
  BY DEF ThreeM
<1>3. PICK d \in Gps, memFirst \in BOOLEAN : \E r \in SameBit(Gps, d.bit), bit \in {0, d.bit} :
        LET op1 == IF memFirst THEN MemOp(bit) ELSE r
            op2 == IF memFirst THEN r ELSE MemOp(bit)
        IN  /\ o = cmov3 => memFirst /\ d.bit > 8
            /\ Emit(o, "modrm", OpROODir(op1, op2), OpROO(d, op1, op2, o.type, 0), NoImm,
                    Written(r, d, NoReg, sum, ~memFirst, NoAttr, 0))
  BY <1>2
<1>4. PICK r \in SameBit(Gps, d.bit), bit \in {0, d.bit} :
        LET op1 == IF memFirst THEN MemOp(bit) ELSE r
            op2 == IF memFirst THEN r ELSE MemOp(bit)
        IN  /\ o = cmov3 => memFirst /\ d.bit > 8
            /\ Emit(o, "modrm", OpROODir(op1, op2), OpROO(d, op1, op2, o.type, 0), NoImm,
                    Written(r, d, NoReg, sum, ~memFirst, NoAttr, 0))
  BY <1>3
<1> DEFINE op == MemOp(bit)
           op1 == IF memFirst THEN op ELSE r
           op2 == IF memFirst THEN r ELSE op
           n == 0
           dir == OpROODir(op1, op2)
           first == ~memFirst
           parts == OpROO(d, op1, op2, o.type, n)
           w == Written(r, d, NoReg, sum, first, NoAttr, 0)
<1>5. (o = cmov3 => d.bit > 8) /\ Emit(o, "modrm", dir, parts, NoImm, w)
  BY <1>4
<1>6. d \in GpRegs /\ r \in GpRegs /\ r.bit = d.bit
  BY EncodingAssumption DEF SameBit
<1>7. ~IsMem(r)
  BY <1>6, GpForm
<1>8. IsMem(op)
  BY MemOpIs DEF IsMemOp, IsMem
<1>9. (op1 = op /\ op2 = r) \/ (op2 = op /\ op1 = r)
  OBVIOUS
<1>10. dir = first
  BY <1>7, <1>8 DEF OpROODir
<1> HIDE DEF first
<1>11. IsWritten(w, r, d, NoReg, TRUE, first, NoAttr)
  BY MemWritten
<1> HIDE DEF op, op1, op2, dir, parts, w, n
<1>12. Emitted(i', o, "modrm", dir, parts, NoImm) /\ want' = w
  BY <1>5, EmitIs
<1>13. /\ i'.p = parts.p /\ i'.m = parts.m /\ i'.opc.shape = o.shape /\ i'.opc.hasV = o.hasV
       /\ i'.opc.reg = "modrm" /\ i'.opc.dir = dir /\ i'.opc.type = o.type /\ i'.opc.code1 = parts.code1
  BY <1>12 DEF Emitted
<1>14. Formed(i', r, op) /\ Legged(i'.p, d, o.type)
  BY <1>7, <1>8, <1>9, <1>13, ROOMem DEF parts
<1>15. o.type \cap {"F2", "F3", "66", "W0", "W1"} = {}
  BY <1>5, <1>6, <1>14, ThreeOpsAre
<1>16. Prefixed(i'.p, r.bit) /\ i'.opc.code1 = WriteCode(o.type, d)
  BY <1>6, <1>8, <1>9, <1>13, <1>15, ROOMemSize DEF parts
<1>17. IsWritten(want', r, d, RmOf(op), IsMem(op), first, NoAttr) /\ first = i'.opc.dir
  BY <1>8, <1>10, <1>11, <1>12, <1>13 DEF RmOf, IsWritten
<1>18. QED BY <1>5, <1>6, <1>8, <1>13, <1>14, <1>16, <1>17, KeptThree

LEMMA ThreeROps == ASSUME ThreeR PROVE OpsKept(i', want')
<1>1. PICK o \in {add3, cmov3} : \E d \in Gps : \E r1, r2 \in SameBit(Gps, d.bit) :
        /\ (o = cmov3 => d.bit > 8)
        /\ Emit(o, "modrm", OpROODir(r1, r2), OpROO(d, r1, r2, o.type, 0), NoImm,
                Written(r2, d, r1, None, FALSE, NoAttr, 0))
  BY DEF ThreeR
<1>2. PICK d \in Gps : \E r1, r2 \in SameBit(Gps, d.bit) :
        /\ (o = cmov3 => d.bit > 8)
        /\ Emit(o, "modrm", OpROODir(r1, r2), OpROO(d, r1, r2, o.type, 0), NoImm,
                Written(r2, d, r1, None, FALSE, NoAttr, 0))
  BY <1>1
<1>3. PICK r1, r2 \in SameBit(Gps, d.bit) :
        /\ (o = cmov3 => d.bit > 8)
        /\ Emit(o, "modrm", OpROODir(r1, r2), OpROO(d, r1, r2, o.type, 0), NoImm,
                Written(r2, d, r1, None, FALSE, NoAttr, 0))
  BY <1>2
<1> DEFINE n == 0
           dir == OpROODir(r1, r2)
           first == FALSE
           parts == OpROO(d, r1, r2, o.type, n)
           w == Written(r2, d, r1, None, first, NoAttr, 0)
<1>4. (o = cmov3 => d.bit > 8) /\ Emit(o, "modrm", dir, parts, NoImm, w)
  BY <1>3
<1>5. d \in GpRegs /\ r1 \in GpRegs /\ r2 \in GpRegs /\ r1.bit = d.bit /\ r2.bit = d.bit
  BY EncodingAssumption DEF SameBit
<1>6. ~IsMem(r1) /\ ~IsMem(r2)
  BY <1>5, GpForm
<1>7. dir = first
  BY <1>6 DEF OpROODir
<1> HIDE DEF first
<1>8. IsWritten(w, r2, d, r1, FALSE, first, NoAttr)
  BY RegWrittenIs
<1> HIDE DEF dir, parts, w, n
<1>9. Emitted(i', o, "modrm", dir, parts, NoImm) /\ want' = w
  BY <1>4, EmitIs
<1>10. /\ i'.p = parts.p /\ i'.m = parts.m /\ i'.opc.shape = o.shape /\ i'.opc.hasV = o.hasV
       /\ i'.opc.reg = "modrm" /\ i'.opc.dir = dir /\ i'.opc.type = o.type /\ i'.opc.code1 = parts.code1
  BY <1>9 DEF Emitted
<1>11. Formed(i', r2, r1) /\ Legged(i'.p, d, o.type)
  BY <1>6, <1>10, ROOReg DEF parts
<1>12. o.type \cap {"F2", "F3", "66", "W0", "W1"} = {}
  BY <1>4, <1>5, <1>11, ThreeOpsAre
<1>13. Prefixed(i'.p, r2.bit) /\ i'.opc.code1 = WriteCode(o.type, d)
  BY <1>5, <1>10, <1>12, OpROOSize DEF parts
<1>14. IsWritten(want', r2, d, RmOf(r1), IsMem(r1), first, NoAttr) /\ first = i'.opc.dir
  BY <1>6, <1>7, <1>8, <1>9, <1>10 DEF RmOf, IsWritten
<1>15. QED BY <1>4, <1>5, <1>10, <1>11, <1>13, <1>14, KeptThree

LEMMA NoRegPlain == Plain(NoReg) /\ ~HasRex2(NoReg)
BY NoRegForm DEF Plain, HasRex2

\* A register in the opcode, or the accumulator.
LEMMA OpcodeOps ==
  ASSUME NEW op \in GpRegs, NEW j, j.p = RexR(NoReg, op, {}), j.m.reg = 0, j.m.rm = op.idx % 8
  PROVE  Formed(j, NoReg, op) /\ Rexed(j.p, {})
<1>1. RexType({}) /\ RexOk(HasRex2(NoReg) \/ HasRex2(op), {})
  BY DEF RexType, RexOk
<1>2. Plain(op) /\ ~IsMem(op)
  BY GpPlain
<1>3. /\ Rexed(j.p, {}) /\ RegBits(j.p, NoReg) /\ RmBits(j.p, op)
      /\ (NoReg.ext8 \/ op.ext8 => j.p.enc # "none")
  BY <1>1, <1>2, NoRegPlain, RexROps
<1>4. NoReg.idx % 8 = 0
  BY NoRegForm
<1>5. QED BY <1>2, <1>3, <1>4 DEF Formed

LEMMA AccumulatorOps ==
  ASSUME NEW op \in GpRegs, op.idx = 0, NEW c, NEW j, j.p = Accumulator(op, c).p, j.m = Accumulator(op, c).m
  PROVE  Formed(j, NoReg, op) /\ Rexed(j.p, {})
<1>1. j.p = RexR(NoReg, op, {}) /\ j.m = NoModRM
  BY DEF Accumulator, Parts
<1>2. j.m.reg = 0 /\ j.m.rm = 0
  BY <1>1 DEF NoModRM
<1>3. op.idx % 8 = 0
  OBVIOUS
<1>4. QED BY <1>1, <1>2, <1>3, OpcodeOps

LEMMA PlainRext ==
  ASSUME NEW op, op \in GpRegs \/ IsMem(op), NEW n \in 0..7, NEW size,
         NEW j, j.p = OpRext(op, n, {}, NoReg, size).p, j.m = OpRext(op, n, {}, NoReg, size).m
  PROVE  Formed(j, RextReg(op, n), op) /\ Rexed(j.p, {})
<1>1. RexType({}) /\ {} \cap {"0F38", "0F3A"} = {}
  BY DEF RexType
<1>2. ~RextAPX(op, {}, NoReg)
  BY DEF RextAPX
<1>3. IsMem(op) \/ Plain(op)
  BY GpPlain
<1>4. QED BY <1>1, <1>2, <1>3, RextOps

\* An instruction whose only register is that of the operand.
LEMMA KeptExt ==
  ASSUME NEW op, op.bit \in Widths, op \in GpRegs \/ IsMem(op), NEW j, NEW r, Formed(j, r, op), Rexed(j.p, {}),
         Prefixed(j.p, op.bit), j.opc.code1 <=> op.bit # 8, j.opc.shape = "int8", j.opc.hasV = FALSE,
         j.opc.type = {}, j.opc.reg # "modrm", NEW w, NEW first,
         IsWritten(w, NoReg, NoReg, RmOf(op), IsMem(op), first, NoAttr)
  PROVE  OpsKept(j, w)
<1>1. IntSize(j) = op.bit
  BY SizedRead
<1>2. RmSize(j) = op.bit
  BY <1>1 DEF RmSize
<1>3. RegWritten(j, r, NoReg, first) /\ RmWrittenAs(j, op)
  BY <1>2 DEF RegWritten, RmWrittenAs
<1>4. ~Vector(j)
  BY DEF Vector
<1>5. QED BY <1>3, <1>4, KeptRexed

LEMMA ArithImmOps == ASSUME IInv, ArithImm PROVE OpsKept(i', want')
<1>1. PICK op \in RmOps({8, 16, 32, 64}), imm \in Imms :
        LET w == GetImmBit(op, imm)
            short == IsGp(op) /\ op.idx = 0 /\ (op.bit = w \/ (op.bit = 64 /\ w = 32))
            sx == ~short /\ w < MinBit(op.bit, 32)
        IN  /\ w # 0
            /\ short \/ OpRextOk(op, ext, {}, NoReg)
            /\ Emit([add EXCEPT !.imm = IF sx THEN "ibs" ELSE "iz"], IF short THEN "acc" ELSE "ext", FALSE,
                    IF short THEN Accumulator(op, w # 8) ELSE OpRext(op, ext, {}, NoReg, w \div 8),
                    Immediate(w \div 8, sx, imm), WrittenRm(NoReg, op, Signed(imm, Half32)))
  BY DEF ArithImm
<1> DEFINE w == GetImmBit(op, imm)
           short == IsGp(op) /\ op.idx = 0 /\ (op.bit = w \/ (op.bit = 64 /\ w = 32))
           sx == ~short /\ w < MinBit(op.bit, 32)
           o == [add EXCEPT !.imm = IF sx THEN "ibs" ELSE "iz"]
           where == IF short THEN "acc" ELSE "ext"
           size == w \div 8
           wide == w # 8
           parts == IF short THEN Accumulator(op, wide) ELSE OpRext(op, ext, {}, NoReg, size)
           wr == WrittenRm(NoReg, op, Signed(imm, Half32))
<1>2. (short \/ OpRextOk(op, ext, {}, NoReg)) /\ Emit(o, where, FALSE, parts, Immediate(size, sx, imm), wr)
  BY <1>1
<1>3. o.shape = "int8" /\ o.hasV = FALSE /\ o.type = {}
  BY DEF add, Op
<1>4. op.bit \in Widths /\ ((op \in GpRegs /\ IsGp(op) /\ ~IsMem(op)) \/ (IsMem(op) /\ ~IsGp(op)))
  BY RmOpsAre DEF Widths
<1>5. where # "modrm"
  OBVIOUS
<1>6. short => op \in GpRegs /\ op.idx = 0 /\ (wide <=> op.bit # 8)
  BY <1>4
<1>7. (short => parts = Accumulator(op, wide)) /\ (~short => parts = OpRext(op, ext, {}, NoReg, size))
  OBVIOUS
<1>8. IsWritten(wr, NoReg, NoReg, RmOf(op), IsMem(op), FALSE, NoAttr)
  BY WrittenRmOps
<1>9. ext \in 0..7
  BY DEF ext
<1> HIDE DEF w, short, sx, o, where, size, wide, parts, wr
<1>10. Emitted(i', o, where, FALSE, parts, Immediate(size, sx, imm)) /\ want' = wr
  BY <1>2, EmitIs
<1>11. /\ i'.p = parts.p /\ i'.m = parts.m /\ i'.opc.shape = "int8" /\ i'.opc.hasV = FALSE /\ i'.opc.type = {}
       /\ i'.opc.reg # "modrm" /\ i'.opc.code1 = parts.code1
  BY <1>3, <1>5, <1>10 DEF Emitted
<1>12. CASE short
  <2>1. parts = Accumulator(op, wide) /\ op \in GpRegs /\ op.idx = 0 /\ (wide <=> op.bit # 8)
    BY <1>6, <1>7, <1>12
  <2>2. Prefixed(i'.p, op.bit) /\ (i'.opc.code1 <=> op.bit # 8)
    BY <1>11, <2>1, AccumulatorSize
  <2>3. Formed(i', NoReg, op) /\ Rexed(i'.p, {})
    BY <1>11, <2>1, AccumulatorOps
  <2>4. QED BY <1>4, <1>8, <1>10, <1>11, <2>2, <2>3, KeptExt
<1>13. CASE ~short
  <2>1. parts = OpRext(op, ext, {}, NoReg, size) /\ OpRextOk(op, ext, {}, NoReg)
    BY <1>2, <1>7, <1>13
  <2>2. Prefixed(i'.p, op.bit) /\ (i'.opc.code1 <=> op.bit # 8)
    BY <1>4, <1>9, <1>11, <2>1, OpRextSize
  <2>3. Formed(i', RextReg(op, ext), op) /\ Rexed(i'.p, {})
    BY <1>4, <1>9, <1>11, <2>1, PlainRext
  <2>4. QED BY <1>4, <1>8, <1>10, <1>11, <2>2, <2>3, KeptExt
<1>14. QED BY <1>12, <1>13

LEMMA TestImmOps == ASSUME IInv, TestImm PROVE OpsKept(i', want')
<1>1. PICK op \in RmOps({8, 16, 32, 64}), imm \in Imms :
        LET size == MinBit(op.bit, 32) \div 8
            short == IsGp(op) /\ op.idx = 0
        IN  /\ short \/ OpRextOk(op, 0, {}, NoReg)
            /\ Emit([add EXCEPT !.imm = "iz"], IF short THEN "acc" ELSE "ext", FALSE,
                    IF short THEN Accumulator(op, op.bit # 8) ELSE OpRext(op, 0, {}, NoReg, size),
                    Immediate(size, FALSE, imm), WrittenRm(NoReg, op, Signed(imm, Half32)))
  BY DEF TestImm
<1> DEFINE size == MinBit(op.bit, 32) \div 8
           short == IsGp(op) /\ op.idx = 0
           o == [add EXCEPT !.imm = "iz"]
           where == IF short THEN "acc" ELSE "ext"
           wide == op.bit # 8
           n == 0
           parts == IF short THEN Accumulator(op, wide) ELSE OpRext(op, n, {}, NoReg, size)
           wr == WrittenRm(NoReg, op, Signed(imm, Half32))
<1>2. (short \/ OpRextOk(op, n, {}, NoReg)) /\ Emit(o, where, FALSE, parts, Immediate(size, FALSE, imm), wr)
  BY <1>1
<1>3. o.shape = "int8" /\ o.hasV = FALSE /\ o.type = {}
  BY DEF add, Op
<1>4. op.bit \in Widths /\ ((op \in GpRegs /\ IsGp(op) /\ ~IsMem(op)) \/ (IsMem(op) /\ ~IsGp(op)))
  BY RmOpsAre DEF Widths
<1>5. where # "modrm"
  OBVIOUS
<1>6. short => op \in GpRegs /\ op.idx = 0
  BY <1>4
<1>7. (short => parts = Accumulator(op, wide)) /\ (~short => parts = OpRext(op, n, {}, NoReg, size))
  OBVIOUS
<1>8. IsWritten(wr, NoReg, NoReg, RmOf(op), IsMem(op), FALSE, NoAttr)
  BY WrittenRmOps
<1>9. n \in 0..7 /\ (wide <=> op.bit # 8)
  OBVIOUS
<1> HIDE DEF short, o, where, size, wide, parts, wr, n
<1>10. Emitted(i', o, where, FALSE, parts, Immediate(size, FALSE, imm)) /\ want' = wr
  BY <1>2, EmitIs
<1>11. /\ i'.p = parts.p /\ i'.m = parts.m /\ i'.opc.shape = "int8" /\ i'.opc.hasV = FALSE /\ i'.opc.type = {}
       /\ i'.opc.reg # "modrm" /\ i'.opc.code1 = parts.code1
  BY <1>3, <1>5, <1>10 DEF Emitted
<1>12. CASE short
  <2>1. parts = Accumulator(op, wide) /\ op \in GpRegs /\ op.idx = 0
    BY <1>6, <1>7, <1>12
  <2>2. Prefixed(i'.p, op.bit) /\ (i'.opc.code1 <=> op.bit # 8)
    BY <1>9, <1>11, <2>1, AccumulatorSize
  <2>3. Formed(i', NoReg, op) /\ Rexed(i'.p, {})
    BY <1>11, <2>1, AccumulatorOps
  <2>4. QED BY <1>4, <1>8, <1>10, <1>11, <2>2, <2>3, KeptExt
<1>13. CASE ~short
  <2>1. parts = OpRext(op, n, {}, NoReg, size) /\ OpRextOk(op, n, {}, NoReg)
    BY <1>2, <1>7, <1>13
  <2>2. Prefixed(i'.p, op.bit) /\ (i'.opc.code1 <=> op.bit # 8)
    BY <1>4, <1>9, <1>11, <2>1, OpRextSize
  <2>3. Formed(i', RextReg(op, n), op) /\ Rexed(i'.p, {})
    BY <1>4, <1>9, <1>11, <2>1, PlainRext
  <2>4. QED BY <1>4, <1>8, <1>10, <1>11, <2>2, <2>3, KeptExt
<1>14. QED BY <1>12, <1>13

LEMMA Arith3ImmOps == ASSUME IInv, Arith3Imm PROVE OpsKept(i', want')
<1>1. PICK d \in Gps, imm \in Imms : \E op \in RmOps({d.bit}) :
        LET w == GetImmBit(d, imm)
            sx == w < MinBit(d.bit, 32)
        IN  /\ w # 0
            /\ Emit([add3 EXCEPT !.imm = IF sx THEN "ibs" ELSE "iz"], "ext", FALSE,
                    OpROO(d, op, Gp(ext, d.bit), add3.type, w \div 8),
                    Immediate(w \div 8, sx, imm), WrittenRm(d, op, Signed(imm, Half32)))
  BY DEF Arith3Imm
<1>2. PICK op \in RmOps({d.bit}) :
        LET w == GetImmBit(d, imm)
            sx == w < MinBit(d.bit, 32)
        IN  /\ w # 0
            /\ Emit([add3 EXCEPT !.imm = IF sx THEN "ibs" ELSE "iz"], "ext", FALSE,
                    OpROO(d, op, Gp(ext, d.bit), add3.type, w \div 8),
                    Immediate(w \div 8, sx, imm), WrittenRm(d, op, Signed(imm, Half32)))
  BY <1>1
<1> DEFINE size == GetImmBit(d, imm) \div 8
           sx == GetImmBit(d, imm) < MinBit(d.bit, 32)
           how == IF sx THEN "ibs" ELSE "iz"
           o == [add3 EXCEPT !.imm = how]
           r == Gp(ext, d.bit)
           type == add3.type
           parts == OpROO(d, op, r, type, size)
           wr == WrittenRm(d, op, Signed(imm, Half32))
<1>3. Emit(o, "ext", FALSE, parts, Immediate(size, sx, imm), wr)
  BY <1>2
<1>4. o.shape = "int8" /\ o.hasV = FALSE /\ o.type = type /\ type = {"NF", "CODE1"}
  BY DEF add3, Op
<1>5. d \in GpRegs /\ d.bit \in Widths /\ IsGp(d)
  BY EncodingAssumption, GpForm DEF Widths
<1>6. op.bit = d.bit /\ (op \in GpRegs \/ IsMem(op))
  BY RmOpsAre
<1>7. r \in GpRegs /\ r.bit = d.bit /\ ~IsMem(r)
  <2>1. ext \in 0..31
    BY DEF ext
  <2>2. QED BY <1>5, <2>1, GpIs
<1>8. IsWritten(wr, NoReg, d, RmOf(op), IsMem(op), FALSE, NoAttr)
  BY WrittenRmOps
<1> HIDE DEF size, sx, how, o, r, type, parts, wr
<1>9. Emitted(i', o, "ext", FALSE, parts, Immediate(size, sx, imm)) /\ want' = wr
  BY <1>3, EmitIs
<1>10. /\ i'.p = parts.p /\ i'.m = parts.m /\ i'.opc.shape = "int8" /\ i'.opc.hasV = FALSE /\ i'.opc.type = type
       /\ i'.opc.reg # "modrm" /\ i'.opc.code1 = parts.code1
  BY <1>4, <1>9 DEF Emitted
<1>11. Formed(i', r, op) /\ Legged(i'.p, d, i'.opc.type)
  BY <1>7, <1>10, ROOOps DEF parts
<1>12. IntSize(i') = d.bit
  <2>1. Prefixed(parts.p, r.bit) /\ parts.code1 = WriteCode(type, d)
    BY <1>4, <1>5, <1>7, OpROOSize DEF parts
  <2>2. WriteCode(type, d) <=> d.bit # 8
    BY <1>4, WriteCodeIs
  <2>3. Prefixed(i'.p, d.bit) /\ (i'.opc.code1 <=> d.bit # 8)
    BY <1>7, <1>10, <2>1, <2>2
  <2>4. QED BY <1>5, <1>10, <2>3, SizedRead
<1>13. RmSize(i') = op.bit
  BY <1>6, <1>10, <1>12 DEF RmSize
<1>14. RegWritten(i', r, NoReg, FALSE) /\ RmWrittenAs(i', op) /\ ~Vector(i')
  BY <1>6, <1>10, <1>13 DEF RegWritten, RmWrittenAs, Vector
<1>15. i'.p.ND
  BY <1>4, <1>5, <1>10, <1>11 DEF Legged
<1>16. QED BY <1>5, <1>8, <1>9, <1>11, <1>12, <1>14, <1>15, KeptLegged

LEMMA MovImmMemOps == ASSUME IInv, MovImmMem PROVE OpsKept(i', want')
<1>1. PICK bit \in {8, 16, 32, 64}, imm \in Imms :
        LET size == MinBit(bit, 32) \div 8
            addr == [MemOp(bit) EXCEPT !.immSize = size]
        IN  /\ OpMROk(addr, Gp(0, bit), {})
            /\ Emit([add EXCEPT !.imm = "iz"], "ext", FALSE, OpMR(addr, Gp(0, bit), {}),
                    Immediate(size, FALSE, imm), Written(NoReg, NoReg, NoReg, sum, FALSE, NoAttr, imm))
  BY ZenonT(30) DEF MovImmMem
<1> DEFINE size == MinBit(bit, 32) \div 8
           addr == Sized(MemOp(bit), size)
           r == Gp(0, bit)
           o == [add EXCEPT !.imm = "iz"]
           parts == OpMR(addr, r, {})
           first == FALSE
           wr == Written(NoReg, NoReg, NoReg, sum, first, NoAttr, imm)
<1>2. OpMROk(addr, r, {}) /\ Emit(o, "ext", FALSE, parts, Immediate(size, FALSE, imm), wr)
  BY <1>1 DEF Sized
<1>3. o.shape = "int8" /\ o.hasV = FALSE /\ o.type = {}
  BY DEF add, Op
<1>4. bit \in Widths
  BY DEF Widths
<1>5. r \in GpRegs /\ r.bit = bit
  <2>1. Gp(0, bit) \in GpRegs
    BY <1>4 DEF GpRegs, Widths
  <2>2. Gp(0, bit).bit = bit
    BY DEF Gp
  <2>3. QED BY <2>1, <2>2
<1>6. IsMem(addr) /\ addr.bit = bit
  BY MemSizedIs
<1> HIDE DEF first
<1>7. IsWritten(wr, NoReg, NoReg, NoReg, TRUE, first, NoAttr)
  BY MemWritten
<1> HIDE DEF o, addr, r, wr, parts, size
<1>8. Emitted(i', o, "ext", FALSE, parts, Immediate(size, FALSE, imm)) /\ want' = wr
  BY <1>2, EmitIs
<1>9. /\ i'.p = parts.p /\ i'.m = parts.m /\ i'.opc.shape = "int8" /\ i'.opc.hasV = FALSE /\ i'.opc.type = {}
      /\ i'.opc.reg # "modrm" /\ i'.opc.code1 = parts.code1
  BY <1>3, <1>8 DEF Emitted
<1>10. Prefixed(i'.p, addr.bit) /\ (i'.opc.code1 <=> addr.bit # 8)
  <2>1. {} \cap {"DIFF", "F2", "F3", "66"} = {} /\ {} \subseteq {"DIFF", "ABCDH"}
    OBVIOUS
  <2>2. Prefixed(parts.p, r.bit) /\ parts.code1 = WriteCode({}, r)
    BY <1>2, <1>5, <2>1, OpMRSize DEF parts
  <2>3. WriteCode({}, r) <=> r.bit # 8
    BY <2>1, WriteCodeIs
  <2>4. QED BY <1>5, <1>6, <1>9, <2>2, <2>3
<1>11. Formed(i', r, addr) /\ Rexed(i'.p, {})
  <2>1. RexType({}) /\ RexOk(RexMRex2(addr, r), {})
    BY DEF RexType, RexOk
  <2>2. Plain(r)
    BY <1>5, GpPlain
  <2>3. QED BY <1>6, <1>9, <2>1, <2>2, MROps DEF parts
<1>12. IsWritten(want', NoReg, NoReg, RmOf(addr), IsMem(addr), first, NoAttr)
  BY <1>6, <1>7, <1>8 DEF RmOf, IsWritten
<1>13. addr.bit \in Widths
  BY <1>4, <1>6
<1>14. QED BY <1>6, <1>9, <1>10, <1>11, <1>12, <1>13, KeptExt

\* A write of the lower half of a register, which clears the upper half.
LEMMA MovImmRegOps == ASSUME MovImmReg PROVE OpsKept(i', want')
<1>1. PICK r \in Gps, imm \in Imms :
        LET zx == r.bit = 64 /\ SizeT(imm) < 2 * Half32
            sx == r.bit = 64 /\ ~zx /\ InInt32(imm)
            size == IF zx \/ sx THEN 4 ELSE r.bit \div 8
            low == [NoModRM EXCEPT !.rm = r.idx % 8]
        IN  Emit([add EXCEPT !.imm = IF sx THEN "iz" ELSE "iv"], IF sx THEN "ext" ELSE "opcode", FALSE,
                    Parts(RexR(NoReg, IF zx THEN Gp(r.idx, 32) ELSE r, {}),
                          IF sx THEN SetModRM(3, 0, r.idx) ELSE low, r.bit # 8),
                    Immediate(size, FALSE, imm), Written(NoReg, NoReg, r, None, FALSE, NoAttr, imm))
  BY DEF MovImmReg
<1> DEFINE zx == r.bit = 64 /\ SizeT(imm) < 2 * Half32
           sx == r.bit = 64 /\ ~zx /\ InInt32(imm)
           size == IF zx \/ sx THEN 4 ELSE r.bit \div 8
           low == [NoModRM EXCEPT !.rm = r.idx % 8]
           how == IF sx THEN "iz" ELSE "iv"
           o == [add EXCEPT !.imm = how]
           where == IF sx THEN "ext" ELSE "opcode"
           g == IF zx THEN Gp(r.idx, 32) ELSE r
           m == IF sx THEN SetModRM(3, 0, r.idx) ELSE low
           wide == r.bit # 8
           parts == Parts(RexR(NoReg, g, {}), m, wide)
           first == FALSE
           wr == Written(NoReg, NoReg, r, None, first, NoAttr, imm)
<1>2. Emit(o, where, FALSE, parts, Immediate(size, FALSE, imm), wr)
  BY <1>1
<1>3. o.shape = "int8" /\ o.imm = how /\ o.hasV = FALSE /\ o.type = {}
  BY DEF add, Op
<1>4. r \in GpRegs /\ r.bit \in Widths /\ r.idx \in 0..31 /\ ~IsMem(r)
  BY EncodingAssumption, GpForm DEF Widths
<1>5. /\ g \in GpRegs /\ g.idx = r.idx /\ ~IsMem(g)
      /\ g.bit = IF zx THEN 32 ELSE r.bit
  <2>1. 32 \in Widths
    BY DEF Widths
  <2>2. Gp(r.idx, 32) \in GpRegs /\ Gp(r.idx, 32).bit = 32 /\ Gp(r.idx, 32).idx = r.idx /\ ~IsMem(Gp(r.idx, 32))
    BY <1>4, <2>1, GpIs, ZenonT(30)
  <2>3. QED BY <1>4, <2>2
<1>6. m.reg = 0 /\ m.rm = r.idx % 8
  <2>1. low.reg = 0 /\ low.rm = r.idx % 8
    BY DEF NoModRM
  <2>2. ModRMFields(SetModRM(3, 0, r.idx), 3, 0, r.idx)
    BY SetModRMIs
  <2> DEFINE q == SetModRM(3, 0, r.idx)
  <2>3. q.reg = 0 /\ q.rm = r.idx % 8
    <3> HIDE DEF q
    <3>1. ModRMFields(q, 3, 0, r.idx)
      BY <2>2 DEF q
    <3>2. QED BY <3>1 DEF ModRMFields
  <2> HIDE DEF q, low
  <2>4. m = q \/ m = low
    BY DEF q
  <2>5. QED BY <2>1, <2>3, <2>4
<1>7. parts.p = RexR(NoReg, g, {}) /\ parts.m = m /\ (parts.code1 <=> r.bit # 8)
  BY DEF Parts
<1> HIDE DEF first
<1>8. IsWritten(wr, NoReg, NoReg, r, FALSE, first, NoAttr)
  BY RegWrittenIs
<1>9. where # "modrm" /\ (zx => how = "iv" /\ r.bit = 64 /\ g = Gp(r.idx, 32)) /\ (~zx => g = r)
  OBVIOUS
<1> HIDE DEF o, where, g, m, parts, wr, how, size, wide
<1>10. Emitted(i', o, where, FALSE, parts, Immediate(size, FALSE, imm)) /\ want' = wr
  BY <1>2, EmitIs
<1>11. /\ i'.p = RexR(NoReg, g, {}) /\ i'.m = m /\ i'.opc.shape = "int8" /\ i'.opc.hasV = FALSE /\ i'.opc.type = {}
       /\ i'.opc.imm = how /\ i'.opc.reg # "modrm" /\ (i'.opc.code1 <=> r.bit # 8)
  BY <1>3, <1>7, <1>9, <1>10 DEF Emitted
<1>12. Formed(i', NoReg, g) /\ Rexed(i'.p, {})
  BY <1>5, <1>6, <1>11, OpcodeOps
<1>13. g.bit \in Widths /\ (i'.opc.code1 <=> g.bit # 8)
  BY <1>4, <1>5, <1>11 DEF Widths
<1>14. Prefixed(i'.p, g.bit)
  <2>1. {} \cap {"F2", "F3", "66"} = {}
    OBVIOUS
  <2>2. QED BY <1>5, <1>11, <2>1, RexRSize
<1>15. CASE ~zx
  <2>1. IsWritten(want', NoReg, NoReg, RmOf(g), IsMem(g), first, NoAttr)
    BY <1>4, <1>8, <1>9, <1>10, <1>15 DEF RmOf, IsWritten
  <2>2. QED BY <1>5, <1>11, <1>12, <1>13, <1>14, <2>1, KeptExt
<1>16. CASE zx
  <2> DEFINE u == [want' EXCEPT !.rm = g]
  <2>1. IsWritten(want', NoReg, NoReg, r, FALSE, first, NoAttr) /\ i'.opc.imm = "iv" /\ g = Gp(r.idx, 32) /\ r.bit = 64
    BY <1>8, <1>9, <1>10, <1>11, <1>16
  <2>2. u.reg = NoReg /\ u.v = NoReg /\ u.rm = g /\ (u.mem <=> FALSE) /\ u.regFirst = first /\ u.attr = NoAttr
    <3>1. "rm" \in DOMAIN want'
      BY <1>10 DEF wr, Written
    <3>2. QED BY <2>1, <3>1 DEF IsWritten
  <2> HIDE DEF u
  <2>3. IsWritten(u, NoReg, NoReg, RmOf(g), IsMem(g), first, NoAttr)
    BY <1>5, <2>2 DEF RmOf, IsWritten
  <2>4. OpsKept(i', u)
    BY <1>5, <1>11, <1>12, <1>13, <1>14, <2>3, KeptExt
  <2>5. ~IsHigh8bit(NoReg) /\ ~IsHigh8bit(g)
    <3>1. g.bit = 32
      BY <1>5, <1>16
    <3>2. QED BY <3>1, NoRegForm DEF IsHigh8bit
  <2>6. Whole(i', u) /\ ~Lost(i', u)
    BY <2>2, <2>5 DEF Whole, Lost
  <2>7. SameOps(i', u)
    BY <1>11, <2>4, <2>6 DEF OpsKept
  <2>8. ReadRm(i') = g
    <3>1. g # NoReg
      BY <1>5, GpForm
    <3>2. ~(i'.opc.imm = "iv" /\ ReadRm(i') = Gp(g.idx, 32) /\ g.bit = 64)
      BY <1>5, <1>16
    <3>3. QED BY <2>2, <2>7, <3>1, <3>2 DEF SameOps
  <2>9. SameOps(i', want')
    BY <2>1, <2>2, <2>7, <2>8 DEF SameOps, IsWritten
  <2>10. QED BY <2>9 DEF OpsKept
<1>17. QED BY <1>15, <1>16

LEMMA MovMoffsOps == ASSUME MovMoffs PROVE OpsKept(i', want')
<1>1. PICK r \in Gps, load \in BOOLEAN :
        /\ r.idx = 0
        /\ Emit(add, "acc", load,
                Parts(RexR(NoReg, r, {}), [NoModRM EXCEPT !.size = 8, !.disp = expr.disp, !.label = expr.label], r.bit # 8),
                NoImm, Written(NoReg, NoReg, r, sum, load, NoAttr, 0))
  BY DEF MovMoffs
<1> DEFINE m == [NoModRM EXCEPT !.size = 8, !.disp = expr.disp, !.label = expr.label]
           wide == r.bit # 8
           parts == Parts(RexR(NoReg, r, {}), m, wide)
           w == Written(NoReg, NoReg, r, sum, load, NoAttr, 0)
<1>2. Emit(add, "acc", load, parts, NoImm, w)
  BY <1>1
<1>3. add.shape = "int8" /\ add.hasV = FALSE /\ add.type = {}
  BY DEF add, Op
<1>4. r \in GpRegs /\ r.bit \in Widths /\ r.idx % 8 = 0 /\ ~IsMem(r)
  BY <1>1, EncodingAssumption, GpForm DEF Widths
<1>5. m.reg = 0 /\ m.rm = 0
  BY DEF NoModRM
<1>6. parts.p = RexR(NoReg, r, {}) /\ parts.m = m /\ (parts.code1 <=> r.bit # 8)
  BY DEF Parts
<1>7. w.reg = NoReg /\ w.v = NoReg /\ w.rm = r /\ w.attr = NoAttr
  BY DEF Written
<1> HIDE DEF m, wide, parts, w
<1>8. Emitted(i', add, "acc", load, parts, NoImm) /\ want' = w
  BY <1>2, EmitIs
<1>9. /\ i'.p = RexR(NoReg, r, {}) /\ i'.m = m /\ i'.opc.shape = "int8" /\ i'.opc.hasV = FALSE /\ i'.opc.type = {}
      /\ i'.opc.reg = "acc" /\ (i'.opc.code1 <=> r.bit # 8)
  BY <1>3, <1>6, <1>8 DEF Emitted
<1>10. i'.m.reg = 0 /\ i'.m.rm = r.idx % 8
  BY <1>4, <1>5, <1>9
<1>11. Formed(i', NoReg, r) /\ Rexed(i'.p, {})
  BY <1>4, <1>9, <1>10, OpcodeOps
<1>12. RmSize(i') = r.bit
  <2>1. {} \cap {"F2", "F3", "66"} = {}
    OBVIOUS
  <2>2. Prefixed(i'.p, r.bit)
    BY <1>4, <1>9, <2>1, RexRSize
  <2>3. IntSize(i') = r.bit
    BY <1>4, <1>9, <2>2, SizedRead
  <2>4. QED BY <1>9, <2>3 DEF RmSize
<1>13. InRm(i', r)
  BY <1>4, <1>10, <1>11, <1>12 DEF InRm, Formed
<1>14. i'.p.enc # "leg" /\ Coded(i')
  BY <1>9, <1>11 DEF Rexed, Coded
<1>15. Reads(i', want') /\ want'.attr = NoAttr
  BY <1>7, <1>8, <1>9, <1>13, <1>14 DEF Reads
<1>16. ~Vector(i')
  BY <1>9 DEF Vector
<1>17. QED BY <1>14, <1>15, <1>16, GeneralOps

\* The prefix of push and pop.
PushBits(p, r) ==
  /\ p.enc \in {"rex2", "rex", "none"} /\ NoVector(p) /\ p.map = 0 /\ p.W = FALSE /\ RmBits(p, r)
  /\ IF HasRex2(r) THEN p.enc = "rex2" /\ p.pp # 1 ELSE p.pp = 1 <=> r.bit = 16
LEMMA PushPrefix ==
  ASSUME NEW r \in GpRegs
  PROVE  PushBits(IF HasRex2(r) THEN Rex2RXB(NoPrefix, NoReg, r, NoReg)
                  ELSE [NoPrefix EXCEPT !.pp = IF r.bit = 16 THEN 1 ELSE 0, !.B3 = r.idx >= 8,
                                        !.enc = IF r.idx >= 8 THEN "rex" ELSE "none"], r)
<1>1. r.idx \in 0..31 /\ IsGp(r)
  BY GpForm
<1>2. CASE HasRex2(r)
  <2> DEFINE b3 == IsExtIdx(r)
             b4 == IsExtIdx2(r)
             r3 == IsExtIdx(NoReg)
             r4 == IsExtIdx2(NoReg)
             p == Rex2RXB(NoPrefix, NoReg, r, NoReg)
  <2>1. p = [[NoPrefix EXCEPT !.R3 = r3, !.X3 = r3, !.B3 = b3] EXCEPT !.enc = "rex2", !.R4 = r4, !.X4 = r4, !.B4 = b4]
    BY DEF Rex2RXB, RexRXB
  <2> HIDE DEF b3, b4, r3, r4, p
  <2>2. /\ p.enc = "rex2" /\ p.map = 0 /\ p.W = FALSE /\ p.B3 = b3 /\ p.B4 = b4 /\ p.pp = 0
        /\ p.vvvv = 0 /\ p.V4 = FALSE /\ p.L = 0 /\ p.b = FALSE /\ p.aaa = 0 /\ p.z = FALSE /\ p.ND = FALSE
    BY <2>1 DEF NoPrefix
  <2>3. PushBits(p, r)
    BY <1>2, <2>2 DEF PushBits, NoVector, RmBits, b3, b4
  <2>4. QED BY <1>2, <2>3 DEF p
<1>3. CASE ~HasRex2(r)
  <2> DEFINE b3 == r.idx >= 8
             pp == IF r.bit = 16 THEN 1 ELSE 0
             enc == IF r.idx >= 8 THEN "rex" ELSE "none"
             p == [NoPrefix EXCEPT !.pp = pp, !.B3 = b3, !.enc = enc]
  <2>1. ~IsExtIdx2(r)
    BY <1>1, <1>3 DEF HasRex2
  <2>2. (b3 <=> IsExtIdx(r)) /\ (pp = 1 <=> r.bit = 16) /\ enc \in {"rex", "none"}
    BY <1>1, <2>1, NumberBits
  <2> HIDE DEF b3, pp, enc
  <2>3. /\ p.enc = enc /\ p.map = 0 /\ p.W = FALSE /\ p.B3 = b3 /\ p.B4 = FALSE /\ p.pp = pp
        /\ p.vvvv = 0 /\ p.V4 = FALSE /\ p.L = 0 /\ p.b = FALSE /\ p.aaa = 0 /\ p.z = FALSE /\ p.ND = FALSE
    BY DEF NoPrefix
  <2> HIDE DEF p
  <2>4. PushBits(p, r)
    BY <1>3, <2>1, <2>2, <2>3 DEF PushBits, NoVector, RmBits
  <2>5. QED BY <1>3, <2>4 DEF p, b3, pp, enc
<1>4. QED BY <1>2, <1>3

LEMMA PushOps == ASSUME Push PROVE OpsKept(i', want')
<1>1. PICK r \in Gps :
        /\ (HasRex2(r) \/ r.bit \in {16, 64})
        /\ Emit(Op("push", {}), "opcode", FALSE,
                Parts(IF HasRex2(r) THEN Rex2RXB(NoPrefix, NoReg, r, NoReg)
                      ELSE [NoPrefix EXCEPT !.pp = IF r.bit = 16 THEN 1 ELSE 0, !.B3 = r.idx >= 8,
                                            !.enc = IF r.idx >= 8 THEN "rex" ELSE "none"],
                      [NoModRM EXCEPT !.rm = r.idx % 8], TRUE),
                NoImm, Written(NoReg, NoReg, r, None, FALSE, NoAttr, 0))
  BY DEF Push
<1> DEFINE p == IF HasRex2(r) THEN Rex2RXB(NoPrefix, NoReg, r, NoReg)
                ELSE [NoPrefix EXCEPT !.pp = IF r.bit = 16 THEN 1 ELSE 0, !.B3 = r.idx >= 8,
                                      !.enc = IF r.idx >= 8 THEN "rex" ELSE "none"]
           m == [NoModRM EXCEPT !.rm = r.idx % 8]
           o == Op("push", {})
           parts == Parts(p, m, TRUE)
           w == Written(NoReg, NoReg, r, None, FALSE, NoAttr, 0)
<1>2. Emit(o, "opcode", FALSE, parts, NoImm, w)
  BY <1>1
<1>3. o.shape = "push" /\ o.hasV = FALSE /\ o.type = {}
  BY DEF Op
<1>4. r \in GpRegs /\ (r.ext8 => r.bit = 8) /\ (HasRex2(r) \/ r.bit \in {16, 64})
  BY <1>1, EncodingAssumption, GpForm
<1>5. PushBits(p, r)
  BY <1>4, PushPrefix
<1>6. m.rm = r.idx % 8
  BY DEF NoModRM
<1>7. w.reg = NoReg /\ w.v = NoReg /\ w.rm = r /\ w.attr = NoAttr
  BY DEF Written
<1> HIDE DEF p, m
<1>8. parts.p = p /\ parts.m = m
  BY DEF Parts
<1> HIDE DEF o, parts, w
<1>9. Emitted(i', o, "opcode", FALSE, parts, NoImm) /\ want' = w
  BY <1>2, EmitIs
<1>10. /\ i'.p = p /\ i'.m = m /\ i'.opc.shape = "push" /\ i'.opc.hasV = FALSE /\ i'.opc.type = {}
       /\ i'.opc.reg = "opcode"
  BY <1>3, <1>8, <1>9 DEF Emitted
<1>11. CASE r.bit # 64 /\ HasRex2(r)
  BY <1>7, <1>9, <1>10, <1>11 DEF OpsKept
<1>12. CASE ~(r.bit # 64 /\ HasRex2(r))
  <2>1. r.bit \in {16, 64} /\ ~r.ext8
    BY <1>4, <1>12
  <2>2. i'.p.pp = 1 <=> r.bit = 16
    BY <1>5, <1>10, <1>12 DEF PushBits
  <2>3. i'.p.W = FALSE /\ RmBits(i'.p, r)
    BY <1>5, <1>10 DEF PushBits
  <2>4. RmSize(i') = r.bit
    BY <1>10, <2>1, <2>2, <2>3 DEF RmSize, IntSize
  <2>5. InRm(i', r)
    BY <1>4, <1>6, <1>10, <2>1, <2>3, <2>4 DEF InRm
  <2>6. i'.p.enc # "leg" /\ Coded(i')
    <3>1. GetMap({}) = 0
      BY DEF GetMap
    <3>2. i'.p.enc \in {"rex2", "rex", "none"} /\ NoVector(i'.p) /\ i'.p.map = 0
      BY <1>5, <1>10 DEF PushBits
    <3>3. QED BY <1>10, <3>1, <3>2 DEF Coded, Clean, NoVector
  <2>7. Reads(i', want') /\ want'.attr = NoAttr
    BY <1>7, <1>9, <1>10, <2>5, <2>6 DEF Reads
  <2>8. ~Vector(i')
    BY <1>10 DEF Vector
  <2>9. QED BY <2>6, <2>7, <2>8, GeneralOps
<1>13. QED BY <1>11, <1>12

\* The width of the operation, in an instruction whose reg field is a part of the
\* opcode and whose opcode tells bytes from wider operands.
LEMMA RextSize ==
  ASSUME NEW bit \in Widths, NEW op, op.bit = bit, op \in GpRegs \/ IsMem(op), NEW n \in 0..7,
         NEW type, type \cap {"DIFF", "F2", "F3", "66", "W0", "W1"} = {}, "CODE1" \in type,
         NEW d, d = NoReg \/ (d \in GpRegs /\ d.bit = bit), NEW size
  PROVE  /\ Prefixed(OpRext(op, n, type, d, size).p, bit)
         /\ OpRext(op, n, type, d, size).code1 <=> bit # 8
<1> DEFINE r == RextReg(op, n)
<1>1. r \in GpRegs /\ r.bit = bit
  <2>1. r = Gp(n, bit) /\ n \in 0..31
    BY DEF RextReg
  <2>2. Gp(n, bit) \in GpRegs /\ Gp(n, bit).bit = bit
    BY <2>1, GpIs
  <2>3. QED BY <2>1, <2>2
<1> HIDE DEF r
<1>2. CASE RextAPX(op, type, d)
  <2> DEFINE e == RextDest(op, d)
             k == 0
  <2>1. OpRext(op, n, type, d, size) = OpROO(e, op, r, type, k)
    BY <1>2 DEF OpRext, r
  <2>2. e \in GpRegs /\ e.bit = bit
    <3>1. Gp(0, bit) \in GpRegs
      BY DEF GpRegs, Widths
    <3>2. Gp(0, bit).bit = bit
      BY DEF Gp
    <3>3. QED BY <3>1, <3>2, NoRegForm DEF RextDest
  <2> HIDE DEF e, k
  <2>3. Prefixed(OpROO(e, op, r, type, k).p, r.bit) /\ OpROO(e, op, r, type, k).code1 = WriteCode(type, e)
    BY <1>1, <2>2, OpROOSize
  <2>4. QED BY <1>1, <2>1, <2>2, <2>3, WriteCodeIs
<1>3. CASE ~RextAPX(op, type, d) /\ IsMem(op)
  <2> DEFINE a == [op EXCEPT !.immSize = size]
  <2>1. OpRext(op, n, type, d, size) = OpMR(a, r, type)
    BY <1>3 DEF OpRext, r
  <2>2. a.bit = op.bit
    OBVIOUS
  <2> HIDE DEF a
  <2>3. OpMR(a, r, type).p = RexM(a, r, type) /\ OpMR(a, r, type).code1 = WriteCode(type, r)
    BY DEF OpMR, Parts
  <2>4. Prefixed(RexM(a, r, type), r.bit)
    BY <1>1, <2>2, RexMSize
  <2>5. QED BY <1>1, <2>1, <2>3, <2>4, WriteCodeIs
<1>4. CASE ~RextAPX(op, type, d) /\ ~IsMem(op)
  <2> DEFINE t == type \cup {"ABCDH"}
  <2>1. OpRext(op, n, type, d, size) = OpRR(r, op, t)
    BY <1>4 DEF OpRext, r
  <2>2. t \cap {"F2", "F3", "66"} = {} /\ "CODE1" \in t
    OBVIOUS
  <2> HIDE DEF t
  <2>3. Prefixed(OpRR(r, op, t).p, op.bit) /\ OpRR(r, op, t).code1 = WriteCode(t, r)
    BY <1>1, <1>4, <2>2, OpRRSize
  <2>4. QED BY <1>1, <2>1, <2>2, <2>3, WriteCodeIs
<1>5. QED BY <1>2, <1>3, <1>4

LEMMA ShiftOps == ASSUME IInv, Shift PROVE OpsKept(i', want')
<1>1. PICK d \in Gps \cup {NoReg}, imm \in {1, 3} : \E op \in RmOps(IF IsGp(d) THEN {d.bit} ELSE {8, 16, 32, 64}) :
        LET type == {"APX", "CODE1", "NF"} \cup (IF IsGp(d) THEN {"ND1"} ELSE {})
            size == IF imm = 1 THEN 0 ELSE 1
        IN  Emit([Op("int8", type) EXCEPT !.imm = IF imm = 1 THEN "none" ELSE "ib"], "ext", FALSE,
                 OpRext(op, ext, type, d, size), Immediate(size, FALSE, imm), WrittenRm(d, op, imm))
  BY ZenonT(30) DEF Shift
<1>2. PICK op \in RmOps(IF IsGp(d) THEN {d.bit} ELSE {8, 16, 32, 64}) :
        LET type == {"APX", "CODE1", "NF"} \cup (IF IsGp(d) THEN {"ND1"} ELSE {})
            size == IF imm = 1 THEN 0 ELSE 1
        IN  Emit([Op("int8", type) EXCEPT !.imm = IF imm = 1 THEN "none" ELSE "ib"], "ext", FALSE,
                 OpRext(op, ext, type, d, size), Immediate(size, FALSE, imm), WrittenRm(d, op, imm))
  BY <1>1
<1> DEFINE type == {"APX", "CODE1", "NF"} \cup (IF IsGp(d) THEN {"ND1"} ELSE {})
           size == IF imm = 1 THEN 0 ELSE 1
           how == IF imm = 1 THEN "none" ELSE "ib"
           o == [Op("int8", type) EXCEPT !.imm = how]
           parts == OpRext(op, ext, type, d, size)
           w == WrittenRm(d, op, imm)
<1>3. Emit(o, "ext", FALSE, parts, Immediate(size, FALSE, imm), w)
  BY <1>2
<1>4. o.shape = "int8" /\ o.hasV = FALSE /\ o.type = type
  BY DEF Op
<1>5. (d \in GpRegs /\ IsGp(d)) \/ (d = NoReg /\ ~IsGp(d))
  BY EncodingAssumption, GpForm, NoRegForm
<1>6. /\ "APX" \in type /\ "CODE1" \in type /\ ("ND1" \in type <=> IsGp(d)) /\ RexType(type)
      /\ type \cap {"DIFF", "F2", "F3", "66", "W0", "W1"} = {} /\ type \cap {"0F38", "0F3A"} = {}
  BY DEF RexType
<1>7. op.bit \in Widths /\ (IsGp(d) => op.bit = d.bit) /\ (op \in GpRegs \/ IsMem(op))
  <2>1. IsGp(d) => d.bit \in Widths
    BY <1>5, GpForm DEF Widths
  <2>2. QED BY <2>1, RmOpsAre DEF Widths
<1>8. IsMem(op) \/ Plain(op)
  BY <1>7, GpPlain
<1>9. ext \in 0..7
  BY DEF ext
<1>10. IsWritten(w, NoReg, d, RmOf(op), IsMem(op), FALSE, NoAttr)
  BY WrittenRmOps
<1> HIDE DEF type, o, parts, w, size, how
<1>11. Emitted(i', o, "ext", FALSE, parts, Immediate(size, FALSE, imm)) /\ want' = w
  BY <1>3, EmitIs
<1>12. /\ i'.p = parts.p /\ i'.m = parts.m /\ i'.opc.shape = "int8" /\ i'.opc.hasV = FALSE /\ i'.opc.type = type
       /\ i'.opc.reg # "modrm" /\ i'.opc.code1 = parts.code1
  BY <1>4, <1>11 DEF Emitted
<1>13. Prefixed(i'.p, op.bit) /\ (i'.opc.code1 <=> op.bit # 8)
  BY <1>5, <1>6, <1>7, <1>9, <1>12, RextSize DEF parts
<1>14. IntSize(i') = op.bit /\ RmSize(i') = op.bit
  <2>1. IntSize(i') = op.bit
    BY <1>7, <1>12, <1>13, SizedRead
  <2>2. QED BY <1>12, <2>1 DEF RmSize
<1> DEFINE r == RextReg(op, ext)
           e == RextDest(op, d)
<1> HIDE DEF r, e
<1>15. RegWritten(i', r, NoReg, FALSE) /\ RmWrittenAs(i', op) /\ ~Vector(i')
  BY <1>7, <1>12, <1>14 DEF RegWritten, RmWrittenAs, Vector
<1>16. /\ Formed(i', r, op)
       /\ RextAPX(op, type, d) => Legged(i'.p, e, type)
       /\ ~RextAPX(op, type, d) => Rexed(i'.p, type)
  BY <1>6, <1>8, <1>9, <1>12, RextOps DEF parts, r, e
<1>17. CASE RextAPX(op, type, d)
  <2>1. Legged(i'.p, e, i'.opc.type)
    BY <1>12, <1>16, <1>17
  <2>2. i'.p.ND <=> IsGp(d)
    BY <1>6, <1>12, <2>1 DEF Legged
  <2>3. i'.opc.hasV \/ i'.p.ND => d = e /\ e \in GpRegs /\ IntSize(i') = e.bit
    BY <1>5, <1>7, <1>12, <1>14, <2>2 DEF e, RextDest
  <2>4. ~(i'.opc.hasV \/ i'.p.ND) => d = NoReg
    BY <1>5, <2>2
  <2>5. QED BY <1>10, <1>11, <1>15, <1>16, <2>1, <2>3, <2>4, KeptLegged
<1>18. CASE ~RextAPX(op, type, d)
  <2>1. d = NoReg
    BY <1>5, <1>6, <1>18 DEF RextAPX
  <2>2. Rexed(i'.p, i'.opc.type) /\ i'.opc.hasV = FALSE
    BY <1>12, <1>16, <1>18
  <2>3. QED BY <1>10, <1>11, <1>15, <1>16, <2>1, <2>2, KeptRexed
<1>19. QED BY <1>17, <1>18

\* opROO, or opMR or opRR, with the same operands.
ByROO(j, r, op, d, type, size) ==
  /\ j.p = OpROO(d, op, r, type, size).p /\ j.m = OpROO(d, op, r, type, size).m /\ j.opc.type = type
  /\ "APX" \in type /\ ("ND1" \in type <=> IsGp(d)) /\ type \cap {"F2", "F3", "66", "W0", "W1"} = {}
ByRex(j, r, op, type, sized) ==
  /\ j.opc.type = type /\ RexType(type) /\ type \cap {"F2", "F3", "66", "0F38", "0F3A"} = {}
  /\ IsMem(op) => sized.bit = op.bit /\ j.p = OpMR(sized, r, type).p /\ j.m = OpMR(sized, r, type).m
  /\ ~IsMem(op) => j.p = OpRR(r, op, type).p /\ j.m = OpRR(r, op, type).m

LEMMA KeptByROO ==
  ASSUME NEW r \in GpRegs, r.bit # 8, NEW op, op.bit = r.bit, op \in GpRegs \/ IsMem(op),
         NEW d, (d \in GpRegs /\ d.bit = r.bit) \/ d = NoReg, NEW j, NEW type, NEW size, ByROO(j, r, op, d, type, size),
         j.opc.shape = "int", j.opc.hasV = FALSE, j.opc.reg = "modrm",
         NEW w, NEW first, IsWritten(w, r, d, RmOf(op), IsMem(op), first, NoAttr), first = j.opc.dir
  PROVE  OpsKept(j, w)
<1>1. r.bit \in Widths /\ ~IsMem(r)
  BY GpForm DEF Widths
<1>2. (d \in GpRegs /\ IsGp(d)) \/ (d = NoReg /\ ~IsGp(d))
  BY GpForm, NoRegForm
<1>3. Formed(j, r, op) /\ Legged(j.p, d, j.opc.type)
  BY <1>1, ROOOps DEF ByROO
<1>4. Prefixed(j.p, r.bit)
  BY OpROOSize DEF ByROO
<1>5. IntSize(j) = r.bit
  BY <1>1, <1>4, SizedRead
<1>6. RmSize(j) = op.bit
  BY <1>5 DEF RmSize
<1>7. RegWritten(j, r, r, first) /\ RmWrittenAs(j, op) /\ ~Vector(j)
  BY <1>5, <1>6 DEF RegWritten, RmWrittenAs, Vector
<1>8. j.p.ND <=> IsGp(d)
  BY <1>3 DEF Legged, ByROO
<1>9. j.opc.hasV \/ j.p.ND => d \in GpRegs /\ IntSize(j) = d.bit
  BY <1>2, <1>5, <1>8, NoRegForm
<1>10. ~(j.opc.hasV \/ j.p.ND) => d = NoReg
  BY <1>2, <1>8
<1>11. QED BY <1>3, <1>7, <1>9, <1>10, KeptLegged

LEMMA KeptByRex ==
  ASSUME NEW r \in GpRegs, r.bit # 8, NEW op, op.bit = r.bit, op \in GpRegs \/ IsMem(op),
         NEW j, NEW type, NEW sized, ByRex(j, r, op, type, sized),
         j.opc.shape = "int", j.opc.hasV = FALSE, j.opc.reg = "modrm",
         NEW w, NEW first, IsWritten(w, r, NoReg, RmOf(op), IsMem(op), first, NoAttr), first = j.opc.dir
  PROVE  OpsKept(j, w)
<1>1. r.bit \in Widths /\ Plain(r)
  BY GpForm, GpPlain DEF Widths
<1>2. RexType(type) /\ type \cap {"F2", "F3", "66"} = {} /\ (\A rex2 : RexOk(rex2, type)) /\ j.opc.type = type
  BY DEF ByRex, RexOk
<1>3. Formed(j, r, op) /\ Rexed(j.p, type) /\ Prefixed(j.p, r.bit)
  <2>1. CASE IsMem(op)
    <3>1. sized.bit = r.bit /\ j.p = OpMR(sized, r, type).p /\ j.m = OpMR(sized, r, type).m
      BY <2>1 DEF ByRex
    <3>2. Formed(j, r, op) /\ Rexed(j.p, type)
      BY <1>1, <1>2, <2>1, <3>1, MROps
    <3>3. j.p = RexM(sized, r, type)
      BY <3>1 DEF OpMR, Parts
    <3>4. QED BY <1>2, <3>1, <3>2, <3>3, RexMSize
  <2>2. CASE ~IsMem(op)
    <3>1. j.p = OpRR(r, op, type).p /\ j.m = OpRR(r, op, type).m
      BY <2>2 DEF ByRex
    <3>2. op \in GpRegs /\ Plain(op)
      BY <2>2, GpPlain
    <3>3. Formed(j, r, op) /\ Rexed(j.p, type)
      BY <1>1, <1>2, <2>2, <3>1, <3>2, RROps
    <3>4. Prefixed(OpRR(r, op, type).p, op.bit)
      BY <1>2, <3>2, OpRRSize
    <3>5. QED BY <3>1, <3>3, <3>4
  <2>3. QED BY <2>1, <2>2
<1>4. IntSize(j) = r.bit
  BY <1>1, <1>3, SizedRead
<1>5. RmSize(j) = op.bit
  BY <1>4 DEF RmSize
<1>6. RegWritten(j, r, r, first) /\ RmWrittenAs(j, op) /\ ~Vector(j)
  BY <1>4, <1>5 DEF RegWritten, RmWrittenAs, Vector
<1>7. QED BY <1>2, <1>3, <1>6, KeptRexed

LEMMA ImulImmOps == ASSUME IInv, ImulImm PROVE OpsKept(i', want')
<1>1. PICK r \in Gps, imm \in Imms : \E op \in RmOps({r.bit}) :
        LET s == InDisp8(imm)
            size == IF s THEN 1 ELSE IF r.bit = 16 THEN 2 ELSE 4
            apx == OpROOApplies(NoReg, op, r, {"APX"})
            o == [Op("int", IF apx THEN {"APX", "NF", "ZU"} ELSE {}) EXCEPT !.imm = IF s THEN "ibs" ELSE "iz"]
            sized == IF IsMem(op) THEN [op EXCEPT !.immSize = size] ELSE op
        IN  /\ r.bit > 8
            /\ IF apx THEN OpROOOk(op, r, o.type) ELSE IF IsMem(op) THEN OpMROk(sized, r, {}) ELSE OpRROk(r, op, {})
            /\ Emit(o, "modrm", FALSE,
                    IF apx THEN OpROO(NoReg, op, r, o.type, size)
                    ELSE IF IsMem(op) THEN OpMR(sized, r, {}) ELSE OpRR(r, op, {}),
                    Immediate(size, s, imm), [WrittenRm(NoReg, op, Signed(imm, Half32)) EXCEPT !.reg = r])
  BY DEF ImulImm
<1>2. PICK op \in RmOps({r.bit}) :
        LET s == InDisp8(imm)
            size == IF s THEN 1 ELSE IF r.bit = 16 THEN 2 ELSE 4
            apx == OpROOApplies(NoReg, op, r, {"APX"})
            o == [Op("int", IF apx THEN {"APX", "NF", "ZU"} ELSE {}) EXCEPT !.imm = IF s THEN "ibs" ELSE "iz"]
            sized == IF IsMem(op) THEN [op EXCEPT !.immSize = size] ELSE op
        IN  /\ r.bit > 8
            /\ IF apx THEN OpROOOk(op, r, o.type) ELSE IF IsMem(op) THEN OpMROk(sized, r, {}) ELSE OpRROk(r, op, {})
            /\ Emit(o, "modrm", FALSE,
                    IF apx THEN OpROO(NoReg, op, r, o.type, size)
                    ELSE IF IsMem(op) THEN OpMR(sized, r, {}) ELSE OpRR(r, op, {}),
                    Immediate(size, s, imm), [WrittenRm(NoReg, op, Signed(imm, Half32)) EXCEPT !.reg = r])
  BY <1>1
<1> DEFINE s == InDisp8(imm)
           size == IF s THEN 1 ELSE IF r.bit = 16 THEN 2 ELSE 4
           apx == OpROOApplies(NoReg, op, r, {"APX"})
           how == IF s THEN "ibs" ELSE "iz"
           type == IF apx THEN {"APX", "NF", "ZU"} ELSE {}
           o == [Op("int", type) EXCEPT !.imm = how]
           sized == IF IsMem(op) THEN [op EXCEPT !.immSize = size] ELSE op
           parts == IF apx THEN OpROO(NoReg, op, r, o.type, size)
                    ELSE IF IsMem(op) THEN OpMR(sized, r, {}) ELSE OpRR(r, op, {})
           x == Signed(imm, Half32)
           wr == WithReg(WrittenRm(NoReg, op, x), r)
<1>3. r.bit > 8 /\ Emit(o, "modrm", FALSE, parts, Immediate(size, s, imm), wr)
  BY <1>2 DEF WithReg
<1>4. o.shape = "int" /\ o.type = type /\ o.hasV = FALSE
  BY DEF Op
<1>5. r \in GpRegs /\ r.bit # 8
  BY <1>3, EncodingAssumption
<1>6. op.bit = r.bit /\ (op \in GpRegs \/ IsMem(op))
  BY RmOpsAre
<1>7. IsWritten(wr, r, NoReg, RmOf(op), IsMem(op), FALSE, NoAttr)
  BY WithRegOps
<1>8. (apx => type = {"APX", "NF", "ZU"}) /\ (~apx => type = {})
  OBVIOUS
<1>9. IsMem(op) => sized.bit = op.bit
  OBVIOUS
<1> HIDE DEF how, o, type, size, x, s, wr
<1>10. /\ apx => parts = OpROO(NoReg, op, r, type, size)
       /\ ~apx /\ IsMem(op) => parts = OpMR(sized, r, {})
       /\ ~apx /\ ~IsMem(op) => parts = OpRR(r, op, {})
  BY <1>4
<1> HIDE DEF parts, apx, sized
<1>11. Emitted(i', o, "modrm", FALSE, parts, Immediate(size, s, imm)) /\ want' = wr
  BY <1>3, EmitIs
<1>12. /\ i'.p = parts.p /\ i'.m = parts.m /\ i'.opc.shape = "int" /\ i'.opc.hasV = FALSE /\ i'.opc.type = type
       /\ i'.opc.reg = "modrm" /\ i'.opc.dir = FALSE
  BY <1>4, <1>11 DEF Emitted
<1> DEFINE first == FALSE
<1>13. IsWritten(want', r, NoReg, RmOf(op), IsMem(op), first, NoAttr) /\ first = i'.opc.dir
  BY <1>7, <1>11, <1>12
<1> HIDE DEF first
<1>14. CASE apx
  <2>1. ~IsGp(NoReg)
    BY NoRegForm
  <2>2. ByROO(i', r, op, NoReg, type, size)
    BY <1>8, <1>10, <1>12, <1>14, <2>1 DEF ByROO
  <2>3. QED BY <1>5, <1>6, <1>12, <1>13, <2>2, KeptByROO
<1>15. CASE ~apx
  <2>1. ByRex(i', r, op, {}, sized)
    BY <1>8, <1>9, <1>10, <1>12, <1>15 DEF ByRex, RexType
  <2>2. QED BY <1>5, <1>6, <1>12, <1>13, <2>1, KeptByRex
<1>16. QED BY <1>14, <1>15

LEMMA ShxdOps == ASSUME IInv, Shxd PROVE OpsKept(i', want')
<1>1. PICK d \in Gps \cup {NoReg}, r \in Gps : \E op \in RmOps({r.bit}) :
        LET type == {"APX", "NF"} \cup (IF IsGp(d) THEN {"ND1"} ELSE {})
            apx == OpROOApplies(d, op, r, type)
            o == [Op("int", IF apx THEN type ELSE {"0F"}) EXCEPT !.imm = "ib"]
            sized == IF IsMem(op) THEN [op EXCEPT !.immSize = 1] ELSE op
        IN  /\ r.bit > 8 /\ (IsGp(d) => d.bit = r.bit)
            /\ IF apx THEN OpROOOk(op, r, type) ELSE IF IsMem(op) THEN OpMROk(sized, r, o.type) ELSE OpRROk(r, op, o.type)
            /\ Emit(o, "modrm", FALSE,
                    IF apx THEN OpROO(d, op, r, type, 1)
                    ELSE IF IsMem(op) THEN OpMR(sized, r, o.type) ELSE OpRR(r, op, o.type),
                    Immediate(1, FALSE, 3), [WrittenRm(d, op, 3) EXCEPT !.reg = r])
  BY DEF Shxd
<1>2. PICK op \in RmOps({r.bit}) :
        LET type == {"APX", "NF"} \cup (IF IsGp(d) THEN {"ND1"} ELSE {})
            apx == OpROOApplies(d, op, r, type)
            o == [Op("int", IF apx THEN type ELSE {"0F"}) EXCEPT !.imm = "ib"]
            sized == IF IsMem(op) THEN [op EXCEPT !.immSize = 1] ELSE op
        IN  /\ r.bit > 8 /\ (IsGp(d) => d.bit = r.bit)
            /\ IF apx THEN OpROOOk(op, r, type) ELSE IF IsMem(op) THEN OpMROk(sized, r, o.type) ELSE OpRROk(r, op, o.type)
            /\ Emit(o, "modrm", FALSE,
                    IF apx THEN OpROO(d, op, r, type, 1)
                    ELSE IF IsMem(op) THEN OpMR(sized, r, o.type) ELSE OpRR(r, op, o.type),
                    Immediate(1, FALSE, 3), [WrittenRm(d, op, 3) EXCEPT !.reg = r])
  BY <1>1
<1> DEFINE type == {"APX", "NF"} \cup (IF IsGp(d) THEN {"ND1"} ELSE {})
           apx == OpROOApplies(d, op, r, type)
           otype == IF apx THEN type ELSE {"0F"}
           o == [Op("int", otype) EXCEPT !.imm = "ib"]
           sized == IF IsMem(op) THEN [op EXCEPT !.immSize = 1] ELSE op
           n == 1
           parts == IF apx THEN OpROO(d, op, r, type, n)
                    ELSE IF IsMem(op) THEN OpMR(sized, r, o.type) ELSE OpRR(r, op, o.type)
           x == 3
           wr == WithReg(WrittenRm(d, op, x), r)
<1>3. r.bit > 8 /\ (IsGp(d) => d.bit = r.bit) /\ Emit(o, "modrm", FALSE, parts, Immediate(1, FALSE, 3), wr)
  BY <1>2 DEF WithReg
<1>4. o.shape = "int" /\ o.type = otype /\ o.hasV = FALSE
  BY DEF Op
<1>5. r \in GpRegs /\ r.bit # 8
  BY <1>3, EncodingAssumption
<1>6. op.bit = r.bit /\ (op \in GpRegs \/ IsMem(op))
  BY RmOpsAre
<1>7. (d \in GpRegs /\ IsGp(d) /\ d.bit = r.bit) \/ (d = NoReg /\ ~IsGp(d))
  BY <1>3, EncodingAssumption, GpForm, NoRegForm
<1> HIDE DEF x
<1>8. IsWritten(wr, r, d, RmOf(op), IsMem(op), FALSE, NoAttr)
  BY WithRegOps
<1>9. "APX" \in type /\ ("ND1" \in type <=> IsGp(d)) /\ type \cap {"F2", "F3", "66", "W0", "W1"} = {}
  OBVIOUS
<1>10. ~apx => d = NoReg
  BY <1>7 DEF OpROOApplies
<1>11. IsMem(op) => sized.bit = op.bit
  OBVIOUS
<1> HIDE DEF o, type, wr, n
<1>12. /\ apx => parts = OpROO(d, op, r, type, n) /\ otype = type
       /\ ~apx => otype = {"0F"}
       /\ ~apx /\ IsMem(op) => parts = OpMR(sized, r, {"0F"})
       /\ ~apx /\ ~IsMem(op) => parts = OpRR(r, op, {"0F"})
  BY <1>4
<1> HIDE DEF parts, apx, sized, otype
<1>13. Emitted(i', o, "modrm", FALSE, parts, Immediate(1, FALSE, 3)) /\ want' = wr
  BY <1>3, EmitIs
<1>14. /\ i'.p = parts.p /\ i'.m = parts.m /\ i'.opc.shape = "int" /\ i'.opc.hasV = FALSE /\ i'.opc.type = otype
       /\ i'.opc.reg = "modrm" /\ i'.opc.dir = FALSE
  BY <1>4, <1>13 DEF Emitted
<1> DEFINE first == FALSE
<1>15. IsWritten(want', r, d, RmOf(op), IsMem(op), first, NoAttr) /\ first = i'.opc.dir
  BY <1>8, <1>13, <1>14
<1> HIDE DEF first
<1>16. CASE apx
  <2>1. ByROO(i', r, op, d, type, n)
    BY <1>9, <1>12, <1>14, <1>16 DEF ByROO
  <2>2. (d \in GpRegs /\ d.bit = r.bit) \/ d = NoReg
    BY <1>7
  <2>3. QED BY <1>5, <1>6, <1>14, <1>15, <2>1, <2>2, KeptByROO
<1>17. CASE ~apx
  <2>1. ByRex(i', r, op, {"0F"}, sized)
    BY <1>11, <1>12, <1>14, <1>17 DEF ByRex, RexType
  <2>2. IsWritten(want', r, NoReg, RmOf(op), IsMem(op), first, NoAttr)
    BY <1>10, <1>15, <1>17
  <2>3. QED BY <1>5, <1>6, <1>14, <1>15, <2>1, <2>2, KeptByRex
<1>18. QED BY <1>16, <1>17

-----------------------------------------------------------------------------
(* Operands of the vector registers.                                       *)

\* The prefixes, without the extension bits of an address.
VexVec(p, r, v, type) ==
  /\ p.enc = "vex" /\ p.map = GetMap(type) /\ (p.R3 <=> IsExtIdx(r)) /\ p.R4 = FALSE /\ p.V4 = FALSE
  /\ p.vvvv = v.idx % 16 /\ p.L = IF "L1" \in type \/ r.bit = 256 THEN 1 ELSE 0
  /\ p.b = FALSE /\ p.aaa = 0 /\ p.z = FALSE
EvexVec(p, r, v, x, type, b, mask, zero, rnd, bit) ==
  /\ p.enc = "evex" /\ p.map = GetMap(type) /\ RegBits(p, r)
  /\ p.vvvv = v.idx % 16 /\ (p.V4 <=> IsExtIdx2(v) \/ (IsVec(x) /\ IsExtIdx2(x)))
  /\ p.b = (b \/ rnd # 0) /\ p.aaa = mask /\ p.z = (zero /\ mask # 0)
  /\ p.L = IF rnd = 5 THEN 0 ELSE IF rnd # 0 THEN rnd - 1
           ELSE IF bit >= 512 THEN 2 ELSE IF bit = 256 THEN 1 ELSE 0

VecFields == {"enc", "map", "R3", "R4", "V4", "vvvv", "L", "b", "aaa", "z"}
Alike(p, q) ==
  /\ p.enc = q.enc /\ p.map = q.map /\ p.R3 = q.R3 /\ p.R4 = q.R4 /\ p.V4 = q.V4
  /\ p.vvvv = q.vvvv /\ p.L = q.L /\ p.b = q.b /\ p.aaa = q.aaa /\ p.z = q.z
LEMMA WithP67Is ==
  ASSUME NEW q, DOMAIN q = DOMAIN NoPrefix, NEW op
  PROVE  Alike(WithP67(q, op), q)
<1>1. VecFields \subseteq DOMAIN q
  BY DEF NoPrefix, VecFields
<1> DEFINE b == Is32bit(op)
           p == [q EXCEPT !.p67 = b]
<1> HIDE DEF b
<1>2. Alike(p, q)
  BY <1>1 DEF Alike, VecFields
<1>3. QED BY <1>2 DEF WithP67, b

LEMMA VexMemory ==
  ASSUME NEW op, IsMem(op), NEW r, NEW v, NEW type, "0F" \in type => GetMap(type) = 1, NEW attr, NEW n,
         ~NeedsEvex(r, v, op, type, attr)
  PROVE  VexVec(OpVex(r, v, op, type, attr, n).p, r, v, type)
<1>1. PICK e : e = GetRegExp(op)
  OBVIOUS
<1>2. PICK x \in BOOLEAN : x = IsExtIdx(e.index)
  BY IndexBits
<1>3. PICK base : base = e.base
  OBVIOUS
<1>4. PICK q : q = Vex(r, base, v, x, type)
  OBVIOUS
<1>5. OpVex(r, v, op, type, attr, n).p = WithP67(q, op)
  BY <1>1, <1>2, <1>3, <1>4, OpVexMVex
<1>6. VexFields(q, r, base, v, x, type)
  BY <1>2, <1>4, VexIs
<1>7. Alike(WithP67(q, op), q)
  BY <1>6, WithP67Is DEF VexFields
<1>8. VexVec(WithP67(q, op), r, v, type)
  BY <1>6, <1>7 DEF VexFields, Alike, VexVec
<1>9. QED BY <1>5, <1>8

LEMMA EvexMemory ==
  ASSUME NEW op, IsMem(op), op.broadcast \in BOOLEAN, NEW r, NEW v, NEW type, NEW attr, attr.zero \in BOOLEAN,
         attr.rnd = 0, NEW n, NeedsEvex(r, v, op, type, attr), NEW e, e = GetRegExp(op),
         NEW bit, EvexVL(r, e.base, v, e.index) = bit
  PROVE  EvexVec(OpVex(r, v, op, type, attr, n).p, r, v, e.index, type, op.broadcast, MemMask(op, attr), attr.zero, 0, bit)
<1>1. PICK x : x = e.index
  OBVIOUS
<1>2. PICK base : base = e.base
  OBVIOUS
<1>3. PICK b \in BOOLEAN : b = op.broadcast
  OBVIOUS
<1>4. PICK zero \in BOOLEAN : zero = attr.zero
  OBVIOUS
<1>5. PICK mask : mask = MemMask(op, attr)
  OBVIOUS
<1>6. PICK rnd : rnd = 0
  OBVIOUS
<1>7. PICK q : q = Evex(r, base, v, x, type, b, mask, zero, rnd)
  OBVIOUS
<1>8. OpVex(r, v, op, type, attr, n).p =
        WithP67(Evex(r, e.base, v, e.index, type, op.broadcast, MemMask(op, attr), attr.zero, attr.rnd), op)
  BY OpVexMEvex
<1>9. OpVex(r, v, op, type, attr, n).p = WithP67(q, op)
  BY <1>1, <1>2, <1>3, <1>4, <1>5, <1>6, <1>7, <1>8
<1>10. EvexFields(q, r, base, v, x, type, b, mask, zero, rnd)
  BY <1>7, EvexIs
<1>11. Alike(WithP67(q, op), q)
  BY <1>10, WithP67Is DEF EvexFields
<1>12. EvexVL(r, base, v, x) = bit
  BY <1>1, <1>2
<1>13. EvexVec(WithP67(q, op), r, v, x, type, b, mask, zero, rnd, bit)
  <2>1. PICK p : p = WithP67(q, op)
    OBVIOUS
  <2>2. /\ p.enc = q.enc /\ p.map = q.map /\ p.R3 = q.R3 /\ p.R4 = q.R4 /\ p.V4 = q.V4
        /\ p.vvvv = q.vvvv /\ p.L = q.L /\ p.b = q.b /\ p.aaa = q.aaa /\ p.z = q.z
    BY <1>11, <2>1 DEF Alike
  <2>3. EvexVec(q, r, v, x, type, b, mask, zero, rnd, bit)
    <3>1. q.L = IF rnd = 5 THEN 0 ELSE IF rnd # 0 THEN rnd - 1
                ELSE IF bit >= 512 THEN 2 ELSE IF bit = 256 THEN 1 ELSE 0
      BY <1>10, <1>12 DEF EvexFields
    <3>2. q.V4 <=> IsExtIdx2(v) \/ (IsVec(x) /\ IsExtIdx2(x))
      BY <1>10 DEF EvexFields
    <3>3. q.b = (b \/ rnd # 0) /\ q.aaa = mask /\ q.z = (zero /\ mask # 0)
      BY <1>10 DEF EvexFields
    <3>4. q.enc = "evex" /\ q.map = GetMap(type) /\ RegBits(q, r) /\ q.vvvv = v.idx % 16
      BY <1>10 DEF EvexFields, RegBits
    <3>5. QED BY <3>1, <3>2, <3>3, <3>4, Zenon DEF EvexVec
  <2>4. EvexVec(p, r, v, x, type, b, mask, zero, rnd, bit)
    BY <2>2, <2>3 DEF EvexVec, RegBits
  <2>5. QED BY <2>1, <2>4
<1>14. QED BY <1>1, <1>3, <1>4, <1>5, <1>6, <1>9, <1>13

\* The register forms.
LEMMA OpVexRVex ==
  ASSUME NEW op, ~IsMem(op), NEW r, NEW v, NEW type, NEW attr, NEW n, ~NeedsEvex(r, v, op, type, attr)
  PROVE  /\ OpVex(r, v, op, type, attr, n).p = Vex(r, op, v, FALSE, type)
         /\ OpVex(r, v, op, type, attr, n).m = ModRR(r, op)
BY DEF OpVex, Parts
RmIn(p, op) == (p.B3 <=> IsExtIdx(op)) /\ (p.X3 <=> IsExtIdx2(op))
LEMMA VexRegister ==
  ASSUME NEW op \in VecRegs, op.idx < 16, NEW r, NEW v, NEW type, "0F" \in type => GetMap(type) = 1, NEW attr, NEW n,
         ~NeedsEvex(r, v, op, type, attr)
  PROVE  /\ VexVec(OpVex(r, v, op, type, attr, n).p, r, v, type)
         /\ RmIn(OpVex(r, v, op, type, attr, n).p, op)
         /\ Registered(OpVex(r, v, op, type, attr, n).m, r, op)
<1>1. ~IsMem(op) /\ op.idx \in 0..31
  BY VecForm, ZenonT(30)
<1>2. ~IsExtIdx2(op)
  BY <1>1, NumberBits
<1>3. PICK x \in BOOLEAN : x = FALSE
  OBVIOUS
<1>4. PICK p : p = Vex(r, op, v, x, type)
  OBVIOUS
<1>5. OpVex(r, v, op, type, attr, n).p = p /\ OpVex(r, v, op, type, attr, n).m = ModRR(r, op)
  BY <1>1, <1>3, <1>4, OpVexRVex
<1>6. VexFields(p, r, op, v, x, type)
  BY <1>4, VexIs
<1>7. VexVec(p, r, v, type)
  BY <1>6 DEF VexFields, VexVec
<1>8. RmIn(p, op)
  BY <1>2, <1>3, <1>6 DEF VexFields, RmIn
<1>9. Registered(ModRR(r, op), r, op)
  BY RegisterForm
<1>10. QED BY <1>5, <1>7, <1>8, <1>9

EvexForm(q, r, v, op, type, attr) ==
  /\ EvexVec(q.p, r, v, NoReg, type, FALSE, attr.mask, attr.zero, attr.rnd, r.bit)
  /\ RmIn(q.p, op) /\ Registered(q.m, r, op)
LEMMA EvexRegister ==
  ASSUME NEW op \in VecRegs, NEW r, r.bit = op.bit, NEW v, v.bit = op.bit, NEW type, NEW attr, attr.zero \in BOOLEAN, NEW n,
         NeedsEvex(r, v, op, type, attr)
  PROVE  EvexForm(OpVex(r, v, op, type, attr, n), r, v, op, type, attr)
<1>1. ~IsMem(op) /\ IsVec(op) /\ r.bit \in {128, 256, 512}
  BY VecForm, ZenonT(30)
<1>2. PICK x : x = NoReg
  OBVIOUS
<1>3. PICK b \in BOOLEAN : b = FALSE
  OBVIOUS
<1>4. PICK zero \in BOOLEAN : zero = attr.zero
  OBVIOUS
<1>5. PICK mask : mask = attr.mask
  OBVIOUS
<1>6. PICK rnd : rnd = attr.rnd
  OBVIOUS
<1>7. PICK p : p = Evex(r, op, v, x, type, b, mask, zero, rnd)
  OBVIOUS
<1>8. OpVex(r, v, op, type, attr, n).p = p /\ OpVex(r, v, op, type, attr, n).m = ModRR(r, op)
  <2>1. /\ OpVex(r, v, op, type, attr, n).p = Evex(r, op, v, NoReg, type, b, attr.mask, attr.zero, attr.rnd)
        /\ OpVex(r, v, op, type, attr, n).m = ModRR(r, op)
    BY <1>1, <1>3 DEF OpVex, Parts
  <2>2. p = Evex(r, op, v, NoReg, type, b, attr.mask, attr.zero, attr.rnd)
    BY <1>2, <1>4, <1>5, <1>6, <1>7
  <2>3. QED BY <2>1, <2>2
<1>9. EvexFields(p, r, op, v, x, type, b, mask, zero, rnd)
  BY <1>7, EvexIs
<1>10. ~IsVec(x) /\ ~IsExtIdx(x)
  BY <1>2, NoRegForm
<1>11. EvexVL(r, op, v, x) = r.bit
  BY <1>1, <1>10, EvexVLIs
<1>12. EvexVec(p, r, v, x, type, b, mask, zero, rnd, r.bit)
  <2>1. p.L = IF rnd = 5 THEN 0 ELSE IF rnd # 0 THEN rnd - 1
              ELSE IF r.bit >= 512 THEN 2 ELSE IF r.bit = 256 THEN 1 ELSE 0
    BY <1>9, <1>11 DEF EvexFields
  <2>2. p.V4 <=> IsExtIdx2(v) \/ (IsVec(x) /\ IsExtIdx2(x))
    BY <1>9 DEF EvexFields
  <2>3. p.b = (b \/ rnd # 0) /\ p.aaa = mask /\ p.z = (zero /\ mask # 0)
    BY <1>9 DEF EvexFields
  <2>4. p.enc = "evex" /\ p.map = GetMap(type) /\ RegBits(p, r) /\ p.vvvv = v.idx % 16
    BY <1>9 DEF EvexFields, RegBits
  <2>5. QED BY <2>1, <2>2, <2>3, <2>4, Zenon DEF EvexVec
<1>13. RmIn(p, op)
  BY <1>1, <1>9, <1>10 DEF EvexFields, RmIn
<1>14. Registered(ModRR(r, op), r, op)
  BY RegisterForm
<1>15. QED BY <1>2, <1>3, <1>4, <1>5, <1>6, <1>8, <1>12, <1>13, <1>14 DEF EvexForm

\* What each vector instruction takes: rounding of 512 bits or of scalars,
\* {sae} of 512 bits, and no wide registers for scalars.
LEMMA VexOpRounds ==
  ASSUME NEW o \in VexOps
  PROVE  /\ o.shape \in {"vec", "gather"}
         /\ o.shape = "vec" /\ o.tuple = "scalar" => "YMM" \notin o.type
         /\ o.hasV => {"SAE_X", "SAE_Y", "ER_Y", "none"} \cap o.type = {}
         /\ o.hasV /\ "ER_X" \in o.type => o.tuple = "scalar" /\ o.sae = FALSE
         /\ o.hasV /\ "ER_Z" \in o.type => o.sae = FALSE
         /\ o.hasV /\ "SAE_Z" \in o.type => o.sae = TRUE
<1> DEFINE Fine(x) == /\ x.shape \in {"vec", "gather"}
                      /\ x.shape = "vec" /\ x.tuple = "scalar" => "YMM" \notin x.type
                      /\ x.hasV => {"SAE_X", "SAE_Y", "ER_Y", "none"} \cap x.type = {}
                      /\ x.hasV /\ "ER_X" \in x.type => x.tuple = "scalar" /\ x.sae = FALSE
                      /\ x.hasV /\ "ER_Z" \in x.type => x.sae = FALSE
                      /\ x.hasV /\ "SAE_Z" \in x.type => x.sae = TRUE
<1>1. Fine(vaddps) /\ Fine(vaddpd)
  BY VexOpsAre DEF IsVecOp
<1>2. Fine(vaddss) /\ Fine(vmaxps)
  BY VexOpsAre DEF IsVecOp
<1>3. Fine(vcvtps2pd) /\ Fine(vpmovzxbq) /\ Fine(vmovddup)
  BY VexOpsAre DEF IsVecOp
<1>4. Fine(vextractf32x4) /\ Fine(vgatherdps) /\ Fine(vgatherdpsEvex)
  BY VexOpsAre DEF IsVecOp
<1> HIDE DEF Fine
<1>5. Fine(o)
  BY <1>1, <1>2, <1>3, <1>4 DEF VexOps
<1>6. QED BY <1>5 DEF Fine

LEMMA VecNumber == \A r \in VecRegs : r.idx \in 0..31
BY VecForm, ZenonT(30)
LEMMA VecWidth == \A r \in VecRegs : r.bit \in {128, 256, 512}
BY VecForm, ZenonT(30)

LEMMA VexRegsAre ==
  ASSUME NEW o \in VexOps, NEW r \in VexRegs(o)
  PROVE  r \in VecRegs /\ r.bit \in {128, 256, 512} /\ (o.shape = "vec" /\ o.tuple = "scalar" => r.bit = 128)
<1>1. r \in VecRegs
  BY EncodingAssumption DEF VexRegs
<1>2. r.bit \in {128, 256, 512}
  BY <1>1, VecWidth
<1>3. r.bit > 128 => "YMM" \in o.type
  BY DEF VexRegs
<1>4. o.shape = "vec" /\ o.tuple = "scalar" => "YMM" \notin o.type
  BY VexOpRounds
<1>5. QED BY <1>1, <1>2, <1>3, <1>4

\* What the processor makes of the vex prefix.
LEMMA VexReadBack ==
  ASSUME NEW j, Vector(j), NEW r \in VecRegs, r.bit # 512, r.idx < 16, NEW v, NEW type, "L1" \notin type,
         VexVec(j.p, r, v, type), j.opc.shape = "vec" /\ j.opc.tuple = "scalar" => r.bit = 128
  PROVE  VecIn(j, r) /\ RegBits(j.p, r) /\ AttributesRead(j) = NoAttr
<1>1. r.bit \in {128, 256} /\ r.idx \in 0..31
  BY VecWidth, VecNumber
<1>2. ~IsExtIdx2(r)
  BY <1>1, NumberBits
<1>3. RegBits(j.p, r)
  BY <1>2 DEF RegBits, VexVec
<1>4. EmbeddedRounding(j) = FALSE
  BY DEF EmbeddedRounding, VexVec
<1>5. VecSize(j) = r.bit
  BY <1>1, <1>4 DEF VecSize, VexVec
<1>6. AttributesRead(j) = NoAttr
  BY <1>4 DEF AttributesRead, NoAttr, VexVec
<1>7. QED BY <1>3, <1>5, <1>6 DEF VecIn

LEMMA VexReadV ==
  ASSUME NEW j, NEW r, VecIn(j, r), NEW v \in VecRegs, v.bit = r.bit, v.idx < 16, NEW type, VexVec(j.p, r, v, type)
  PROVE  VecV(j, v)
<1>1. v.idx \in 0..31
  BY VecNumber
<1>2. ~IsExtIdx2(v)
  BY <1>1, NumberBits
<1>3. QED BY <1>2 DEF VecV, VecIn, VexVec

\* What is written on the operands, a field at a time.
AttrRec(b, mask, zero, rnd) == [broadcast |-> b, mask |-> mask, zero |-> zero, rnd |-> rnd]
OnMem(a, b, mask, zero) == [a EXCEPT !.broadcast = b, !.mask = mask, !.zero = zero]
OnReg(a, mask, zero, rnd) == [a EXCEPT !.mask = mask, !.zero = zero, !.rnd = rnd]
LEMMA RecExcept ==
  ASSUME NEW b, NEW mask, NEW zero, NEW rnd, NEW no, NEW n, NEW a, a = AttrRec(no, n, no, n)
  PROVE  OnMem(a, b, mask, zero) = AttrRec(b, mask, zero, n) /\ OnReg(a, mask, zero, rnd) = AttrRec(no, mask, zero, rnd)
<1>1. a = [broadcast |-> no, mask |-> n, zero |-> no, rnd |-> n]
  BY DEF AttrRec
<1>2. \A c : [[broadcast |-> c, mask |-> n, zero |-> no, rnd |-> n] EXCEPT !.mask = mask] =
              [broadcast |-> c, mask |-> mask, zero |-> no, rnd |-> n]
  OBVIOUS
<1>3. \A c : [[broadcast |-> c, mask |-> mask, zero |-> no, rnd |-> n] EXCEPT !.zero = zero] =
              [broadcast |-> c, mask |-> mask, zero |-> zero, rnd |-> n]
  OBVIOUS
<1>4. [[broadcast |-> no, mask |-> n, zero |-> no, rnd |-> n] EXCEPT !.broadcast = b] =
        [broadcast |-> b, mask |-> n, zero |-> no, rnd |-> n]
  OBVIOUS
<1>5. [[broadcast |-> no, mask |-> mask, zero |-> zero, rnd |-> n] EXCEPT !.rnd = rnd] =
        [broadcast |-> no, mask |-> mask, zero |-> zero, rnd |-> rnd]
  OBVIOUS
<1>6. [[broadcast |-> no, mask |-> n, zero |-> no, rnd |-> n] EXCEPT !.broadcast = b, !.mask = mask, !.zero = zero] =
        [broadcast |-> b, mask |-> mask, zero |-> zero, rnd |-> n]
  BY <1>2, <1>3, <1>4
<1>7. [[broadcast |-> no, mask |-> n, zero |-> no, rnd |-> n] EXCEPT !.mask = mask, !.zero = zero, !.rnd = rnd] =
        [broadcast |-> no, mask |-> mask, zero |-> zero, rnd |-> rnd]
  BY <1>2, <1>3, <1>5
<1>8. /\ [a EXCEPT !.broadcast = b, !.mask = mask, !.zero = zero] =
           [broadcast |-> b, mask |-> mask, zero |-> zero, rnd |-> n]
      /\ [a EXCEPT !.mask = mask, !.zero = zero, !.rnd = rnd] =
           [broadcast |-> no, mask |-> mask, zero |-> zero, rnd |-> rnd]
  BY <1>1, <1>6, <1>7
<1>9. QED BY <1>8 DEF AttrRec, OnMem, OnReg
LEMMA AttrExcept ==
  ASSUME NEW b, NEW mask, NEW zero, NEW rnd
  PROVE  /\ OnMem(NoAttr, b, mask, zero) = AttrRec(b, mask, zero, NoAttr.rnd)
         /\ OnReg(NoAttr, mask, zero, rnd) = AttrRec(NoAttr.zero, mask, zero, rnd)
<1>1. PICK n : n = NoAttr.rnd
  OBVIOUS
<1>2. PICK no : no = NoAttr.zero
  OBVIOUS
<1>3. NoAttr = AttrRec(no, n, no, n)
  BY <1>1, <1>2 DEF NoAttr, AttrRec
<1>4. OnMem(NoAttr, b, mask, zero) = AttrRec(b, mask, zero, n) /\ OnReg(NoAttr, mask, zero, rnd) = AttrRec(no, mask, zero, rnd)
  BY <1>3, RecExcept
<1>5. QED BY <1>1, <1>2, <1>4

\* What the processor makes of the evex prefix.
EvexSeen(j, r, v, x, type, b, mask, zero, rnd, z) ==
  /\ Vector(j) /\ r \in VecRegs /\ (j.opc.shape = "vec" /\ j.opc.tuple = "scalar" => r.bit = 128)
  /\ b \in BOOLEAN /\ zero \in BOOLEAN /\ rnd \in 0..5 /\ EvexVec(j.p, r, v, x, type, b, mask, zero, rnd, r.bit)
  /\ z = (zero /\ mask # 0)
LEMMA EvexReadMem ==
  ASSUME NEW j, j.m.mod # 3, NEW r, NEW v, NEW x, NEW type, NEW b, NEW mask, NEW zero, NEW rnd, NEW z, rnd = 0,
         EvexSeen(j, r, v, x, type, b, mask, zero, rnd, z)
  PROVE  VecIn(j, r) /\ RegBits(j.p, r) /\ AttributesRead(j) = OnMem(NoAttr, b, mask, z)
<1>1. r.bit \in {128, 256, 512}
  BY VecWidth DEF EvexSeen
<1>2. EmbeddedRounding(j) = FALSE
  BY DEF EmbeddedRounding, EvexSeen, EvexVec
<1>3. VecSize(j) = r.bit
  BY <1>1, <1>2 DEF VecSize, EvexSeen, EvexVec
<1>4. RegBits(j.p, r)
  BY DEF EvexSeen, EvexVec
<1>5. (j.p.b /\ j.m.mod # 3) = b /\ j.p.aaa = mask /\ j.p.z = z
  BY DEF EvexSeen, EvexVec
<1>6. NoAttr.rnd = 0 /\ NoAttr.zero = FALSE
  BY DEF NoAttr
<1>7. AttributesRead(j) = AttrRec(b, mask, z, NoAttr.rnd)
  BY <1>2, <1>5, <1>6 DEF AttributesRead, AttrRec
<1>8. OnMem(NoAttr, b, mask, z) = AttrRec(b, mask, z, NoAttr.rnd)
  BY AttrExcept
<1>9. QED BY <1>3, <1>4, <1>7, <1>8 DEF VecIn, EvexSeen

LEMMA EvexReadReg ==
  ASSUME NEW j, j.m.mod = 3, NEW r, NEW v, NEW x, NEW type, NEW b, NEW mask, NEW zero, NEW rnd, NEW z, b = FALSE,
         EvexSeen(j, r, v, x, type, b, mask, zero, rnd, z),
         rnd # 0 => r.bit = 512 \/ (j.opc.shape = "vec" /\ j.opc.tuple = "scalar"),
         rnd = 5 => j.opc.sae, rnd \in 1..4 => ~j.opc.sae
  PROVE  VecIn(j, r) /\ RegBits(j.p, r) /\ AttributesRead(j) = OnReg(NoAttr, mask, z, rnd)
<1>1. r.bit \in {128, 256, 512}
  BY VecWidth DEF EvexSeen
<1>2. EmbeddedRounding(j) <=> rnd # 0
  BY DEF EmbeddedRounding, EvexSeen, EvexVec
<1>3. VecSize(j) = r.bit
  BY <1>1, <1>2 DEF VecSize, EvexSeen, EvexVec
<1>4. RegBits(j.p, r)
  BY DEF EvexSeen, EvexVec
<1>5. (j.p.b /\ j.m.mod # 3) = FALSE /\ j.p.aaa = mask /\ j.p.z = z
  BY DEF EvexSeen, EvexVec
<1>6. (IF ~EmbeddedRounding(j) THEN 0 ELSE IF j.opc.sae THEN 5 ELSE j.p.L + 1) = rnd
  <2>1. CASE rnd = 0
    BY <1>2, <2>1
  <2>2. CASE rnd = 5
    BY <1>2, <2>2
  <2>3. CASE rnd \in 1..4
    <3>1. j.p.L = rnd - 1
      BY <2>3 DEF EvexSeen, EvexVec
    <3>2. QED BY <1>2, <2>3, <3>1
  <2>4. QED BY <2>1, <2>2, <2>3 DEF EvexSeen
<1>7. NoAttr.rnd = 0 /\ NoAttr.zero = FALSE
  BY DEF NoAttr
<1>8. AttributesRead(j) = AttrRec(NoAttr.zero, mask, z, rnd)
  BY <1>5, <1>6, <1>7 DEF AttributesRead, AttrRec
<1>9. OnReg(NoAttr, mask, z, rnd) = AttrRec(NoAttr.zero, mask, z, rnd)
  BY AttrExcept
<1>10. QED BY <1>3, <1>4, <1>8, <1>9 DEF VecIn, EvexSeen

LEMMA EvexReadV ==
  ASSUME NEW j, NEW r, VecIn(j, r), NEW v \in VecRegs, v.bit = r.bit, NEW x, ~IsVec(x), j.opc.shape # "gather",
         NEW type, NEW b, NEW mask, NEW zero, NEW rnd, NEW bit, EvexVec(j.p, r, v, x, type, b, mask, zero, rnd, bit)
  PROVE  VecV(j, v)
BY DEF VecV, VecIn, EvexVec

\* The length of an evex instruction with an address is that of its registers.
LEMMA EvexLength ==
  ASSUME NEW e0, NEW s, Good(e0, s), NEW e, e = Optimize(e0), NEW r, r.bit \in {128, 256, 512}, NEW v, v.bit = r.bit,
         IsVec(e0.index) => e0.index.bit = r.bit
  PROVE  EvexVL(r, e.base, v, e.index) = r.bit /\ e.index = e0.index
<1>1. e.index = e0.index
  BY ExprRegs
<1>2. e.base.bit \in {0, 8, 16, 32, 64, r.bit}
  <2>1. e.base # NoReg => e.base.bit = IF Is32bit([exp |-> e0]) THEN 32 ELSE 64
    BY Optimized
  <2>2. NoReg.bit = 0
    BY NoRegForm
  <2>3. QED BY <2>1, <2>2
<1>3. IsVec(e.index) => e.index.bit = r.bit
  BY <1>1
<1>4. QED BY <1>1, <1>2, <1>3, EvexVLIs

MemRead(j, r, v, b, k, z) ==
  /\ VecIn(j, r) /\ RegBits(j.p, r) /\ (j.opc.hasV => VecV(j, v))
  /\ AttributesRead(j) = OnMem(NoAttr, b, k, z) /\ j.p.enc # "leg" /\ j.p.map = GetMap(j.opc.type)

\* opVex with a memory operand: b, k and z are what it carries.
MemSeen(op, o, r, v, attr, n, j, b, k, z) ==
  /\ IsMem(op) /\ op.broadcast \in BOOLEAN /\ o \in VexOps /\ r \in VecRegs
  /\ (o.shape = "vec" /\ o.tuple = "scalar" => r.bit = 128)
  /\ (o.hasV => v \in VecRegs /\ v.bit = r.bit) /\ attr.zero \in BOOLEAN /\ attr.rnd = 0
  /\ j.p = OpVex(r, v, op, o.type, attr, n).p
  /\ j.opc.shape = o.shape /\ j.opc.tuple = o.tuple /\ j.opc.hasV = o.hasV /\ j.opc.type = o.type
  /\ b = op.broadcast /\ k = MemMask(op, attr) /\ z = (attr.zero /\ k # 0)

LEMMA VexMemRead ==
  ASSUME NEW op, NEW o, NEW r, NEW v, NEW attr, NEW n, NEW j, NEW b, NEW k, NEW z,
         MemSeen(op, o, r, v, attr, n, j, b, k, z), ~NeedsEvex(r, v, op, o.type, attr),
         op.mask = 0, ~op.broadcast, attr.mask = 0, r.bit # 512, r.idx < 16, o.hasV => v.idx < 16
  PROVE  Vector(j) /\ MemRead(j, r, v, b, k, z)
<1>0. /\ IsMem(op) /\ op.broadcast \in BOOLEAN /\ o \in VexOps /\ r \in VecRegs
      /\ (o.shape = "vec" /\ o.tuple = "scalar" => r.bit = 128)
      /\ (o.hasV => v \in VecRegs /\ v.bit = r.bit) /\ attr.zero \in BOOLEAN /\ attr.rnd = 0
      /\ j.p = OpVex(r, v, op, o.type, attr, n).p
      /\ j.opc.shape = o.shape /\ j.opc.tuple = o.tuple /\ j.opc.hasV = o.hasV /\ j.opc.type = o.type
      /\ b = op.broadcast /\ k = MemMask(op, attr) /\ z = (attr.zero /\ k # 0)
  BY DEF MemSeen
<1>1. Vector(j)
  <2>1. o \in VexOps
    BY <1>0
  <2>2. o.shape \in {"vec", "gather"}
    BY <2>1, VexOpRounds
  <2>3. j.opc.shape = o.shape
    BY <1>0
  <2>4. QED BY <2>2, <2>3 DEF Vector
<1>2. "L1" \notin o.type /\ ("0F" \in o.type => GetMap(o.type) = 1)
  BY <1>0, VexOpFacts
<1>3. VexVec(j.p, r, v, o.type)
  BY <1>0, <1>2, VexMemory
<1>4. VecIn(j, r) /\ RegBits(j.p, r) /\ AttributesRead(j) = NoAttr
  BY <1>0, <1>1, <1>2, <1>3, VexReadBack
<1>5. j.opc.hasV => VecV(j, v)
  BY <1>0, <1>3, <1>4, VexReadV
<1>6. k = 0 /\ z = FALSE
  BY <1>0 DEF MemMask
<1>7. NoAttr = OnMem(NoAttr, b, k, z)
  <2>1. NoAttr = AttrRec(b, k, z, NoAttr.rnd)
    BY <1>0, <1>6 DEF NoAttr, AttrRec
  <2>2. QED BY <1>0, <2>1, AttrExcept
<1>8. j.p.enc # "leg" /\ j.p.map = GetMap(j.opc.type)
  BY <1>0, <1>3 DEF VexVec
<1>9. QED BY <1>0, <1>1, <1>4, <1>5, <1>7, <1>8 DEF MemRead

LEMMA EvexMemRead ==
  ASSUME NEW op, NEW o, NEW r, NEW v, NEW attr, NEW n, NEW j, NEW b, NEW k, NEW z,
         MemSeen(op, o, r, v, attr, n, j, b, k, z), NeedsEvex(r, v, op, o.type, attr),
         NEW e, e = GetRegExp(op), EvexVL(r, e.base, v, e.index) = r.bit,
         o.hasV => o.shape # "gather" /\ ~IsVec(e.index), j.m.mod # 3
  PROVE  Vector(j) /\ MemRead(j, r, v, b, k, z)
<1>1. /\ IsMem(op) /\ op.broadcast \in BOOLEAN /\ o \in VexOps /\ r \in VecRegs
      /\ (o.shape = "vec" /\ o.tuple = "scalar" => r.bit = 128)
      /\ (o.hasV => v \in VecRegs /\ v.bit = r.bit) /\ attr.zero \in BOOLEAN /\ attr.rnd = 0
      /\ j.p = OpVex(r, v, op, o.type, attr, n).p
      /\ j.opc.shape = o.shape /\ j.opc.tuple = o.tuple /\ j.opc.hasV = o.hasV /\ j.opc.type = o.type
      /\ b = op.broadcast /\ k = MemMask(op, attr) /\ z = (attr.zero /\ k # 0)
  BY DEF MemSeen
<1>2. Vector(j)
  <2>1. o \in VexOps
    BY <1>1
  <2>2. o.shape \in {"vec", "gather"}
    BY <2>1, VexOpRounds
  <2>3. j.opc.shape = o.shape
    BY <1>1
  <2>4. QED BY <2>2, <2>3 DEF Vector
<1>3. PICK c : c = op.broadcast
  BY <1>1
<1>4. PICK zero : zero = attr.zero
  BY <1>1
<1>5. PICK x : x = e.index
  BY <1>1
<1>6. PICK type : type = o.type
  BY <1>1
<1>7. PICK rnd : rnd = 0
  BY <1>1
<1>8. EvexVec(j.p, r, v, x, type, c, k, zero, rnd, r.bit)
  <2>1. EvexVec(OpVex(r, v, op, type, attr, n).p, r, v, e.index, type, op.broadcast, MemMask(op, attr), attr.zero, 0, r.bit)
    BY <1>1, <1>6, EvexMemory
  <2>2. QED BY <1>1, <1>3, <1>4, <1>5, <1>6, <1>7, <2>1
<1>9. VecIn(j, r) /\ RegBits(j.p, r) /\ AttributesRead(j) = OnMem(NoAttr, b, k, z)
  <2>1. c \in BOOLEAN /\ zero \in BOOLEAN /\ z = (zero /\ k # 0) /\ rnd \in 0..5
    BY <1>1, <1>3, <1>4, <1>7
  <2>2. j.opc.shape = "vec" /\ j.opc.tuple = "scalar" => r.bit = 128
    BY <1>1
  <2>3. EvexSeen(j, r, v, x, type, c, k, zero, rnd, z)
    BY <1>1, <1>2, <1>8, <2>1, <2>2 DEF EvexSeen
  <2>4. QED BY <1>1, <1>3, <1>7, <2>3, EvexReadMem
<1>10. j.opc.hasV => VecV(j, v)
  BY <1>1, <1>5, <1>8, <1>9, EvexReadV
<1>11. j.p.enc # "leg" /\ j.p.map = GetMap(j.opc.type)
  BY <1>1, <1>6, <1>8 DEF EvexVec
<1>12. QED BY <1>1, <1>2, <1>9, <1>10, <1>11 DEF MemRead

\* opVex with a memory operand, either prefix.
LEMMA VectorMemRead ==
  ASSUME IInv, HasAddress, NEW op, IsVecMem(op, expr), NEW o \in VexOps, NEW r \in VexRegs(o),
         NEW v, v.bit = r.bit, o.hasV => v \in VecRegs, NEW attr, attr.rnd = 0, attr.zero \in BOOLEAN, NEW n,
         OpVexOk(r, v, op, o.type, attr),
         NEW j, j.p = OpVex(r, v, op, o.type, attr, n).p, j.m = OpVex(r, v, op, o.type, attr, n).m,
         j.opc.shape = o.shape, j.opc.tuple = o.tuple, j.opc.hasV = o.hasV, j.opc.type = o.type,
         o.shape = "gather" => expr.index.bit = r.bit,
         NEW b, b = op.broadcast, NEW k, k = MemMask(op, attr), NEW z, z = (attr.zero /\ k # 0)
  PROVE  /\ Vector(j) /\ MemRead(j, r, v, b, k, z)
         /\ j.m.present \/ j.m.size = 8 => j.m.reg = r.idx % 8
<1>1. Good(expr, sum)
  BY GoodIs
<1>2. r \in VecRegs /\ r.bit \in {128, 256, 512} /\ (o.shape = "vec" /\ o.tuple = "scalar" => r.bit = 128)
  BY VexRegsAre
<1>3. PICK e : e = Optimize(expr)
  OBVIOUS
<1>4. PICK type : type = o.type
  OBVIOUS
<1>5. /\ IsMem(op) /\ GetRegExp(op) = e /\ (IsVec(expr.index) => "VSIB" \in type)
      /\ ~NeedsEvex(r, v, op, type, attr) => r.bit # 512 /\ ~op.broadcast /\ op.mask = 0 /\ r.idx < 16 /\ v.idx < 16
      /\ NeedsEvex(r, v, op, type, attr) => type \cap {"EVEX", "MUST_EVEX"} # {}
  BY <1>3, <1>4, OpVexMOk
<1>6. op.broadcast \in BOOLEAN
  BY DEF IsVecMem
<1>7. IsVec(expr.index) => o.shape = "gather" /\ expr.index.bit = r.bit
  BY <1>4, <1>5, VexOpFacts
<1>8. EvexVL(r, e.base, v, e.index) = r.bit /\ e.index = expr.index
  BY <1>1, <1>2, <1>3, <1>7, EvexLength
<1>12. MemSeen(op, o, r, v, attr, n, j, b, k, z)
  BY <1>2, <1>5, <1>6 DEF MemSeen
<1>9. CASE ~NeedsEvex(r, v, op, type, attr)
  <2>1. attr.mask = 0
    BY <1>9 DEF NeedsEvex
  <2>2. b = FALSE
    BY <1>5, <1>6, <1>9
  <2>3. PICK m : m = OpAddr(VexMem(op, type, n, 0), r.idx)
    OBVIOUS
  <2>4. j.m = m
    BY <1>4, <1>5, <1>9, <2>3, OpVexMVex
  <2>5. m.present \/ m.size = 8 => m.reg = r.idx % 8
    BY <2>3, OpAddrReg
  <2>6. op.mask = 0 /\ r.bit # 512 /\ r.idx < 16 /\ (o.hasV => v \in VecRegs /\ v.bit = r.bit /\ v.idx < 16)
    BY <1>5, <1>9
  <2>7. ~NeedsEvex(r, v, op, o.type, attr)
    BY <1>4, <1>9
  <2>8. Vector(j) /\ MemRead(j, r, v, b, k, z)
    BY <1>5, <1>9, <1>12, <2>1, <2>2, <2>6, <2>7, VexMemRead
  <2>9. QED BY <2>4, <2>5, <2>8
<1>10. CASE NeedsEvex(r, v, op, type, attr)
  <2>1. PICK N : N = Disp8N(type, EvexVL(r, e.base, v, e.index), op.broadcast)
    OBVIOUS
  <2>2. PICK m : m = OpAddr(VexMem(op, type, n, N), r.idx)
    OBVIOUS
  <2>3. j.m = m
    BY <1>4, <1>5, <1>10, <2>1, <2>2, OpVexMEvex
  <2>4. m.present \/ m.size = 8 => m.reg = r.idx % 8
    BY <2>2, OpAddrReg
  <2>5. j.m.mod # 3
    BY <2>2, <2>3, MemMod
  <2>6. o.hasV => o.shape # "gather" /\ ~IsVec(e.index)
    <3>1. o.shape = "gather" /\ o.hasV => "EVEX" \notin o.type /\ "MUST_EVEX" \notin o.type
      BY VexOpFacts
    <3>2. o.shape = "gather" => ~o.hasV
      BY <1>4, <1>5, <1>10, <3>1
    <3>3. QED BY <1>7, <1>8, <3>2
  <2>7. NeedsEvex(r, v, op, o.type, attr) /\ e = GetRegExp(op)
    BY <1>4, <1>5, <1>10
  <2>9. Vector(j) /\ MemRead(j, r, v, b, k, z)
    BY <1>8, <1>12, <2>5, <2>6, <2>7, EvexMemRead
  <2>10. QED BY <2>3, <2>4, <2>9
<1>11. QED BY <1>9, <1>10

\* A mask on the address or on the register, whichever was written.
LEMMA MemMaskIs ==
  ASSUME NEW a, NEW op, NEW attr, op.mask = IF a.onMem THEN a.mask ELSE 0, attr.mask = IF a.onMem THEN 0 ELSE a.mask
  PROVE  MemMask(op, attr) = a.mask
BY DEF MemMask

LEMMA VectorMOps == ASSUME IInv, VectorM PROVE OpsKept(i', want')
<1>1. HasAddress
  BY DEF VectorM
<1>2. PICK o \in VexOps, a \in MemAttrs : \E r \in VexRegs(o), imm \in Imm8(o) :
        \E v \in IF o.hasV THEN SameBit(Vecs, r.bit) ELSE {NoReg} :
        LET addr == Address(0, a.broadcast, IF a.onMem THEN a.mask ELSE 0, expr)
            attr == [NoAttr EXCEPT !.mask = IF a.onMem THEN 0 ELSE a.mask, !.zero = a.zero]
            vv == IF o.hasV THEN v ELSE Vec(0, r.bit)
        IN  /\ o.shape = "gather" =>
                 /\ IsVsib(expr) /\ expr.index.bit = r.bit /\ expr.index.idx # r.idx
                 /\ IF o.hasV THEN attr.mask = 0 /\ r.bit < 512 /\ v.idx \notin {r.idx, expr.index.idx}
                    ELSE attr.mask # 0 /\ ~a.zero
            /\ OpVexOk(r, vv, addr, o.type, attr)
            /\ Emit(o, "modrm", TRUE, OpVex(r, vv, addr, o.type, attr, imm.size), imm,
                    Written(r, v, NoReg, sum, TRUE,
                            [NoAttr EXCEPT !.broadcast = a.broadcast, !.mask = a.mask, !.zero = a.zero /\ a.mask # 0],
                            imm.value))
  BY DEF VectorM
<1>3. PICK r \in VexRegs(o), imm \in Imm8(o) :
        \E v \in IF o.hasV THEN SameBit(Vecs, r.bit) ELSE {NoReg} :
        LET addr == Address(0, a.broadcast, IF a.onMem THEN a.mask ELSE 0, expr)
            attr == [NoAttr EXCEPT !.mask = IF a.onMem THEN 0 ELSE a.mask, !.zero = a.zero]
            vv == IF o.hasV THEN v ELSE Vec(0, r.bit)
        IN  /\ o.shape = "gather" =>
                 /\ IsVsib(expr) /\ expr.index.bit = r.bit /\ expr.index.idx # r.idx
                 /\ IF o.hasV THEN attr.mask = 0 /\ r.bit < 512 /\ v.idx \notin {r.idx, expr.index.idx}
                    ELSE attr.mask # 0 /\ ~a.zero
            /\ OpVexOk(r, vv, addr, o.type, attr)
            /\ Emit(o, "modrm", TRUE, OpVex(r, vv, addr, o.type, attr, imm.size), imm,
                    Written(r, v, NoReg, sum, TRUE,
                            [NoAttr EXCEPT !.broadcast = a.broadcast, !.mask = a.mask, !.zero = a.zero /\ a.mask # 0],
                            imm.value))
  BY <1>2
<1>4. PICK v \in IF o.hasV THEN SameBit(Vecs, r.bit) ELSE {NoReg} :
        LET addr == Address(0, a.broadcast, IF a.onMem THEN a.mask ELSE 0, expr)
            attr == [NoAttr EXCEPT !.mask = IF a.onMem THEN 0 ELSE a.mask, !.zero = a.zero]
            vv == IF o.hasV THEN v ELSE Vec(0, r.bit)
        IN  /\ o.shape = "gather" =>
                 /\ IsVsib(expr) /\ expr.index.bit = r.bit /\ expr.index.idx # r.idx
                 /\ IF o.hasV THEN attr.mask = 0 /\ r.bit < 512 /\ v.idx \notin {r.idx, expr.index.idx}
                    ELSE attr.mask # 0 /\ ~a.zero
            /\ OpVexOk(r, vv, addr, o.type, attr)
            /\ Emit(o, "modrm", TRUE, OpVex(r, vv, addr, o.type, attr, imm.size), imm,
                    Written(r, v, NoReg, sum, TRUE,
                            [NoAttr EXCEPT !.broadcast = a.broadcast, !.mask = a.mask, !.zero = a.zero /\ a.mask # 0],
                            imm.value))
  BY <1>3
<1> DEFINE op == Address(0, a.broadcast, IF a.onMem THEN a.mask ELSE 0, expr)
           attr == [NoAttr EXCEPT !.mask = IF a.onMem THEN 0 ELSE a.mask, !.zero = a.zero]
           vv == IF o.hasV THEN v ELSE Vec(0, r.bit)
           n == imm.size
           x == imm.value
           parts == OpVex(r, vv, op, o.type, attr, n)
           at == OnMem(NoAttr, a.broadcast, a.mask, a.zero /\ a.mask # 0)
           first == TRUE
           w == Written(r, v, NoReg, sum, first, at, x)
<1>5. /\ o.shape = "gather" => expr.index.bit = r.bit
      /\ OpVexOk(r, vv, op, o.type, attr)
      /\ Emit(o, "modrm", first, parts, imm, w)
  BY <1>4 DEF OnMem
<1> HIDE DEF at, parts, n, x
<1>6. w.reg = r /\ w.v = v /\ w.rm = NoReg /\ w.mem = TRUE /\ w.regFirst = first /\ w.attr = at
  BY SumIsNone DEF Written
<1>7. attr.rnd = 0 /\ attr.zero = a.zero /\ attr.mask = IF a.onMem THEN 0 ELSE a.mask
  BY DEF NoAttr
<1>8. a.broadcast \in BOOLEAN /\ a.zero \in BOOLEAN
  BY EncodingAssumption DEF Attrs
<1>9. IsVecMem(op, expr) /\ op.broadcast = a.broadcast /\ op.mask = IF a.onMem THEN a.mask ELSE 0
  <2>1. PICK k : k = IF a.onMem THEN a.mask ELSE 0
    OBVIOUS
  <2>2. op = Address(0, a.broadcast, k, expr)
    BY <2>1
  <2>3. IsVecMem(op, expr) /\ op.broadcast = a.broadcast /\ op.mask = k
    BY <1>8, <2>2, AddressIsVecMem
  <2>4. QED BY <2>1, <2>3
<1>10. r \in VecRegs /\ r.bit \in {128, 256, 512}
  BY VexRegsAre
<1>11. vv.bit = r.bit /\ (o.hasV => vv \in VecRegs /\ vv = v) /\ (~o.hasV => v = NoReg)
  <2>1. CASE o.hasV
    BY <2>1, EncodingAssumption DEF SameBit
  <2>2. CASE ~o.hasV
    <3>1. vv = Vec(0, r.bit) /\ v = NoReg
      BY <2>2
    <3>2. Vec(0, r.bit).bit = r.bit
      BY DEF Vec
    <3>3. QED BY <2>2, <3>1, <3>2
  <2>3. QED BY <2>1, <2>2
<1> HIDE DEF op, attr, vv, w
<1>12. PICK z : z = (a.zero /\ a.mask # 0)
  OBVIOUS
<1>13. PICK k : k = MemMask(op, attr)
  OBVIOUS
<1>14. PICK b : b = op.broadcast
  OBVIOUS
<1>15. k = a.mask
  BY <1>7, <1>9, <1>13, MemMaskIs
<1>16. at = OnMem(NoAttr, b, k, z)
  BY <1>9, <1>12, <1>14, <1>15 DEF at
<1>17. z = (attr.zero /\ k # 0)
  BY <1>7, <1>12, <1>15
<1>18. Emitted(i', o, "modrm", first, parts, imm) /\ want' = w
  BY <1>5, EmitIs
<1>19. /\ i'.p = parts.p /\ i'.m = parts.m /\ i'.opc.type = o.type /\ i'.opc.hasV = o.hasV
       /\ i'.opc.shape = o.shape /\ i'.opc.tuple = o.tuple /\ i'.opc.reg = "modrm" /\ i'.opc.dir = first
  BY <1>18 DEF Emitted
<1>20. i'.p = OpVex(r, vv, op, o.type, attr, n).p /\ i'.m = OpVex(r, vv, op, o.type, attr, n).m
  BY <1>19 DEF parts
<1>21. attr.rnd = 0 /\ attr.zero \in BOOLEAN
  BY <1>7, <1>8
<1>22. /\ Vector(i') /\ MemRead(i', r, vv, b, k, z)
       /\ i'.m.present \/ i'.m.size = 8 => i'.m.reg = r.idx % 8
  BY <1>1, <1>5, <1>9, <1>11, <1>13, <1>14, <1>17, <1>19, <1>20, <1>21, VectorMemRead
<1>23. PICK u : u = want'
  OBVIOUS
<1>24. PICK j : j = i'
  OBVIOUS
<1>25. u.reg = r /\ u.v = v /\ u.rm = NoReg /\ u.mem = TRUE /\ u.regFirst = first /\ u.attr = OnMem(NoAttr, b, k, z)
  BY <1>6, <1>16, <1>18, <1>23
<1>26. /\ Vector(j) /\ MemRead(j, r, vv, b, k, z) /\ j.opc.reg = "modrm" /\ j.opc.dir = first /\ j.opc.hasV = o.hasV
       /\ j.m.present \/ j.m.size = 8 => j.m.reg = r.idx % 8
  BY <1>19, <1>22, <1>24
<1>27. Mapped(j)
  BY <1>26 DEF Mapped, MemRead
<1>28. Whole(j, u) => VecReads(j, u) /\ AttributesRead(j) = u.attr
  <2> SUFFICES ASSUME Whole(j, u)
               PROVE  VecReads(j, u) /\ AttributesRead(j) = u.attr
    OBVIOUS
  <2>1. j.m.reg = r.idx % 8
    BY <1>25, <1>26 DEF Whole
  <2>2. VecIn(j, r) /\ RegBits(j.p, r) /\ (j.opc.hasV => VecV(j, vv)) /\ AttributesRead(j) = OnMem(NoAttr, b, k, z)
    BY <1>26 DEF MemRead
  <2>3. j.opc.hasV => VecV(j, u.v)
    BY <1>11, <1>25, <1>26, <2>2
  <2>4. ~j.opc.hasV => u.v = NoReg
    BY <1>11, <1>25, <1>26
  <2>5. VecReads(j, u)
    BY <1>25, <1>26, <2>1, <2>2, <2>3, <2>4 DEF VecReads
  <2>6. QED BY <1>25, <2>2, <2>5
<1>29. OpsKept(j, u)
  BY <1>26, <1>27, <1>28, VectorOps
<1>30. QED BY <1>23, <1>24, <1>29

\* evex allows rounding and {sae} where the processor knows them.
LEMMA RoundsAre ==
  ASSUME NEW o \in VexOps, o.hasV, o.shape = "vec", NEW op \in VecRegs, NEW rnd \in 0..5, EvexOk(op, o.type, rnd)
  PROVE  /\ rnd # 0 => op.bit = 512 \/ (o.shape = "vec" /\ o.tuple = "scalar")
         /\ rnd = 5 => o.sae
         /\ rnd \in 1..4 => ~o.sae
<1>1. op.bit \in {128, 256, 512}
  BY VecWidth
<1>2. ~IsGp(op)
  BY VecForm, ZenonT(30)
<1>3. \A x, y, z : WidthFlag(op, x, y, z) = IF op.bit = 128 THEN x ELSE IF op.bit = 256 THEN y ELSE z
  BY <1>1 DEF WidthFlag
<1>4. rnd = 5 => (IF op.bit = 128 THEN "SAE_X" ELSE IF op.bit = 256 THEN "SAE_Y" ELSE "SAE_Z") \in o.type
  BY <1>3 DEF EvexOk
<1>5. rnd \in 1..4 => (IF op.bit = 128 THEN "ER_X" ELSE IF op.bit = 256 THEN "ER_Y" ELSE "ER_Z") \in o.type
  BY <1>2, <1>3 DEF EvexOk
<1>6. "SAE_X" \notin o.type /\ "SAE_Y" \notin o.type /\ "ER_Y" \notin o.type
  BY VexOpRounds
<1>7. /\ "ER_X" \in o.type => o.tuple = "scalar" /\ o.sae = FALSE
      /\ "ER_Z" \in o.type => o.sae = FALSE
      /\ "SAE_Z" \in o.type => o.sae = TRUE
  BY VexOpRounds
<1>8. rnd = 5 => op.bit = 512 /\ o.sae
  BY <1>1, <1>4, <1>6, <1>7
<1>9. rnd \in 1..4 => (op.bit = 512 \/ o.tuple = "scalar") /\ ~o.sae
  BY <1>1, <1>5, <1>6, <1>7
<1>10. QED BY <1>8, <1>9

\* A register form of opVex with its three operands.
RegSeen(op, o, r, v, attr, n, j, k, m, z) ==
  /\ o \in VexOps /\ o.hasV /\ o.shape = "vec" /\ r \in VecRegs /\ v \in VecRegs /\ op \in VecRegs
  /\ v.bit = r.bit /\ op.bit = r.bit /\ (o.tuple = "scalar" => r.bit = 128)
  /\ attr.zero \in BOOLEAN /\ attr.rnd \in 0..5 /\ OpVexOk(r, v, op, o.type, attr)
  /\ j.p = OpVex(r, v, op, o.type, attr, n).p /\ j.m = OpVex(r, v, op, o.type, attr, n).m
  /\ j.opc.shape = o.shape /\ j.opc.tuple = o.tuple /\ j.opc.hasV = o.hasV /\ j.opc.type = o.type /\ j.opc.sae = o.sae
  /\ k = attr.rnd /\ m = attr.mask /\ z = (attr.zero /\ attr.mask # 0)
RegRead(j, r, v, op, m, z, k) ==
  /\ Vector(j) /\ Mapped(j) /\ VecIn(j, r) /\ j.m.reg = r.idx % 8 /\ RegBits(j.p, r) /\ VecV(j, v) /\ VecRm(j, op)
  /\ AttributesRead(j) = OnReg(NoAttr, m, z, k)

LEMMA VexRegRead ==
  ASSUME NEW op, NEW o, NEW r, NEW v, NEW attr, NEW n, NEW j, NEW k, NEW m, NEW z,
         RegSeen(op, o, r, v, attr, n, j, k, m, z), ~NeedsEvex(r, v, op, o.type, attr)
  PROVE  RegRead(j, r, v, op, m, z, k)
<1>1. /\ o \in VexOps /\ o.hasV /\ o.shape = "vec" /\ r \in VecRegs /\ v \in VecRegs /\ op \in VecRegs
      /\ v.bit = r.bit /\ op.bit = r.bit /\ (o.tuple = "scalar" => r.bit = 128)
      /\ OpVexOk(r, v, op, o.type, attr)
      /\ j.p = OpVex(r, v, op, o.type, attr, n).p /\ j.m = OpVex(r, v, op, o.type, attr, n).m
      /\ j.opc.shape = o.shape /\ j.opc.tuple = o.tuple /\ j.opc.type = o.type
      /\ k = attr.rnd /\ m = attr.mask /\ z = (attr.zero /\ attr.mask # 0)
  BY DEF RegSeen
<1>2. ~IsMem(op)
  BY <1>1, VecForm, ZenonT(30)
<1>3. r.idx < 16 /\ v.idx < 16 /\ op.idx < 16
  BY <1>1, <1>2 DEF OpVexOk, VexOk
<1>4. r.bit # 512 /\ attr.mask = 0 /\ attr.rnd = 0
  BY DEF NeedsEvex
<1>5. "L1" \notin o.type /\ ("0F" \in o.type => GetMap(o.type) = 1)
  BY <1>1, VexOpFacts
<1>6. VexVec(j.p, r, v, o.type) /\ RmIn(j.p, op) /\ Registered(j.m, r, op)
  BY <1>1, <1>3, <1>5, VexRegister
<1>7. Vector(j)
  BY <1>1 DEF Vector
<1>8. VecIn(j, r) /\ RegBits(j.p, r) /\ AttributesRead(j) = NoAttr
  BY <1>1, <1>3, <1>4, <1>5, <1>6, <1>7, VexReadBack
<1>9. VecV(j, v)
  BY <1>1, <1>3, <1>6, <1>8, VexReadV
<1>10. VecRm(j, op)
  BY <1>1, <1>6, <1>8 DEF VecRm, VecIn, RmIn, Registered
<1>11. NoAttr = OnReg(NoAttr, m, z, k)
  <2>1. k = 0 /\ m = 0 /\ z = FALSE
    BY <1>1, <1>4
  <2>2. NoAttr = AttrRec(NoAttr.zero, m, z, k)
    BY <2>1 DEF NoAttr, AttrRec
  <2>3. QED BY <2>2, AttrExcept
<1>12. Mapped(j)
  BY <1>1, <1>6 DEF Mapped, VexVec
<1>13. QED BY <1>6, <1>7, <1>8, <1>9, <1>10, <1>11, <1>12 DEF RegRead, Registered

LEMMA EvexRegRead ==
  ASSUME NEW op, NEW o, NEW r, NEW v, NEW attr, NEW n, NEW j, NEW k, NEW m, NEW z,
         RegSeen(op, o, r, v, attr, n, j, k, m, z), NeedsEvex(r, v, op, o.type, attr)
  PROVE  RegRead(j, r, v, op, m, z, k)
<1>1. /\ o \in VexOps /\ o.hasV /\ o.shape = "vec" /\ r \in VecRegs /\ v \in VecRegs /\ op \in VecRegs
      /\ v.bit = r.bit /\ op.bit = r.bit /\ (o.tuple = "scalar" => r.bit = 128)
      /\ attr.zero \in BOOLEAN /\ attr.rnd \in 0..5 /\ OpVexOk(r, v, op, o.type, attr)
      /\ j.p = OpVex(r, v, op, o.type, attr, n).p /\ j.m = OpVex(r, v, op, o.type, attr, n).m
      /\ j.opc.shape = o.shape /\ j.opc.tuple = o.tuple /\ j.opc.type = o.type /\ j.opc.sae = o.sae
      /\ k = attr.rnd /\ m = attr.mask /\ z = (attr.zero /\ attr.mask # 0)
  BY DEF RegSeen
<1>2. ~IsMem(op)
  BY <1>1, VecForm, ZenonT(30)
<1>3. EvexOk(op, o.type, k)
  BY <1>1, <1>2 DEF OpVexOk
<1>4. k \in 0..5
  BY <1>1
<1>5. /\ k # 0 => op.bit = 512 \/ (o.shape = "vec" /\ o.tuple = "scalar")
      /\ k = 5 => o.sae
      /\ k \in 1..4 => ~o.sae
  BY <1>1, <1>3, <1>4, RoundsAre
<1>6. PICK x : x = NoReg
  OBVIOUS
<1>7. PICK b : b = FALSE
  OBVIOUS
<1>8. PICK type : type = o.type
  OBVIOUS
<1>9. PICK zero : zero = attr.zero
  OBVIOUS
<1>11. EvexVec(j.p, r, v, x, type, b, m, zero, k, r.bit) /\ RmIn(j.p, op) /\ Registered(j.m, r, op)
  <2>1. EvexForm(OpVex(r, v, op, type, attr, n), r, v, op, type, attr)
    <3>1. op \in VecRegs /\ r.bit = op.bit /\ v.bit = op.bit /\ attr.zero \in BOOLEAN /\ NeedsEvex(r, v, op, type, attr)
      BY <1>1, <1>8
    <3>2. QED BY <3>1, EvexRegister
  <2>2. EvexForm(j, r, v, op, type, attr)
    BY <1>1, <1>8, <2>1 DEF EvexForm
  <2>3. QED BY <1>1, <1>6, <1>7, <1>9, <2>2 DEF EvexForm
<1>12. Vector(j)
  BY <1>1 DEF Vector
<1>13. EvexSeen(j, r, v, x, type, b, m, zero, k, z)
  BY <1>1, <1>4, <1>7, <1>9, <1>11, <1>12 DEF EvexSeen
<1>14. /\ k # 0 => r.bit = 512 \/ (j.opc.shape = "vec" /\ j.opc.tuple = "scalar")
       /\ k = 5 => j.opc.sae
       /\ k \in 1..4 => ~j.opc.sae
  BY <1>1, <1>5
<1>15. j.m.mod = 3
  BY <1>11 DEF Registered
<1>16. VecIn(j, r) /\ RegBits(j.p, r) /\ AttributesRead(j) = OnReg(NoAttr, m, z, k)
  BY <1>7, <1>13, <1>14, <1>15, EvexReadReg
<1>17. ~IsVec(x) /\ j.opc.shape # "gather"
  BY <1>1, <1>6, NoRegForm
<1>18. VecV(j, v)
  BY <1>1, <1>11, <1>16, <1>17, EvexReadV
<1>19. VecRm(j, op)
  BY <1>1, <1>11, <1>16 DEF VecRm, VecIn, RmIn, Registered
<1>20. Mapped(j)
  BY <1>1, <1>8, <1>11 DEF Mapped, EvexVec
<1>21. QED BY <1>11, <1>12, <1>16, <1>18, <1>19, <1>20 DEF RegRead, Registered

LEMMA VectorROps == ASSUME VectorR PROVE OpsKept(i', want')
<1>1. PICK o \in {x \in VexOps : x.hasV /\ x.shape = "vec"}, attr \in RegAttrs :
        \E r \in VexRegs(o) : \E v, r2 \in SameBit(Vecs, r.bit) :
        /\ OpVexOk(r, v, r2, o.type, attr)
        /\ Emit(o, "modrm", TRUE, OpVex(r, v, r2, o.type, attr, 0), NoImm,
                Written(r, v, r2, None, TRUE,
                        [NoAttr EXCEPT !.mask = attr.mask, !.zero = attr.zero /\ attr.mask # 0, !.rnd = attr.rnd], 0))
  BY DEF VectorR
<1>2. PICK r \in VexRegs(o) : \E v, r2 \in SameBit(Vecs, r.bit) :
        /\ OpVexOk(r, v, r2, o.type, attr)
        /\ Emit(o, "modrm", TRUE, OpVex(r, v, r2, o.type, attr, 0), NoImm,
                Written(r, v, r2, None, TRUE,
                        [NoAttr EXCEPT !.mask = attr.mask, !.zero = attr.zero /\ attr.mask # 0, !.rnd = attr.rnd], 0))
  BY <1>1
<1>3. PICK v \in SameBit(Vecs, r.bit), op \in SameBit(Vecs, r.bit) :
        /\ OpVexOk(r, v, op, o.type, attr)
        /\ Emit(o, "modrm", TRUE, OpVex(r, v, op, o.type, attr, 0), NoImm,
                Written(r, v, op, None, TRUE,
                        [NoAttr EXCEPT !.mask = attr.mask, !.zero = attr.zero /\ attr.mask # 0, !.rnd = attr.rnd], 0))
  BY <1>2
<1> DEFINE n == 0
           at == OnReg(NoAttr, attr.mask, attr.zero /\ attr.mask # 0, attr.rnd)
           first == TRUE
           x == 0
           w == Written(r, v, op, None, first, at, x)
           parts == OpVex(r, v, op, o.type, attr, n)
<1>4. OpVexOk(r, v, op, o.type, attr) /\ Emit(o, "modrm", first, parts, NoImm, w)
  BY <1>3 DEF OnReg
<1>5. r \in VecRegs /\ (o.tuple = "scalar" => r.bit = 128)
  BY VexRegsAre
<1>6. v \in VecRegs /\ op \in VecRegs /\ v.bit = r.bit /\ op.bit = r.bit
  BY EncodingAssumption DEF SameBit
<1>7. attr.zero \in BOOLEAN /\ attr.rnd \in 0..5
  BY EncodingAssumption DEF Attrs
<1> HIDE DEF at, x, n
<1>8. w.reg = r /\ w.v = v /\ w.rm = op /\ w.mem = FALSE /\ w.regFirst = first /\ w.attr = at
  BY DEF Written
<1> HIDE DEF w, parts
<1>9. Emitted(i', o, "modrm", first, parts, NoImm) /\ want' = w
  BY <1>4, EmitIs
<1>10. PICK u : u = want'
  OBVIOUS
<1>11. PICK j : j = i'
  OBVIOUS
<1>12. /\ j.p = parts.p /\ j.m = parts.m /\ j.opc.type = o.type /\ j.opc.hasV = o.hasV /\ j.opc.sae = o.sae
       /\ j.opc.shape = o.shape /\ j.opc.tuple = o.tuple /\ j.opc.reg = "modrm" /\ j.opc.dir = first
  BY <1>9, <1>11 DEF Emitted
<1>13. j.p = OpVex(r, v, op, o.type, attr, n).p /\ j.m = OpVex(r, v, op, o.type, attr, n).m
  BY <1>12 DEF parts
<1>14. PICK k : k = attr.rnd
  OBVIOUS
<1>15. PICK m : m = attr.mask
  OBVIOUS
<1>16. PICK z : z = (attr.zero /\ attr.mask # 0)
  OBVIOUS
<1>17. at = OnReg(NoAttr, m, z, k)
  BY <1>14, <1>15, <1>16 DEF at
<1>18. RegSeen(op, o, r, v, attr, n, j, k, m, z)
  BY <1>4, <1>5, <1>6, <1>7, <1>12, <1>13, <1>14, <1>15, <1>16 DEF RegSeen
<1>19. RegRead(j, r, v, op, m, z, k)
  BY <1>18, VexRegRead, EvexRegRead
<1>20. u.reg = r /\ u.v = v /\ u.rm = op /\ u.regFirst = first /\ u.attr = OnReg(NoAttr, m, z, k)
  BY <1>8, <1>9, <1>10, <1>17
<1>21. VecReads(j, u) /\ AttributesRead(j) = u.attr
  BY <1>12, <1>19, <1>20 DEF RegRead, VecReads
<1>22. Vector(j) /\ Mapped(j)
  BY <1>19 DEF RegRead
<1>23. OpsKept(j, u)
  BY <1>21, <1>22, VectorOps
<1>24. QED BY <1>10, <1>11, <1>23

\* A vex instruction of the general registers.
VexInt(p, r, v, type) ==
  /\ p.enc = "vex" /\ p.map = GetMap(type) /\ p.pp = GetPP(type) /\ p.W = ("W1" \in type)
  /\ (p.R3 <=> IsExtIdx(r)) /\ p.R4 = FALSE /\ p.V4 = FALSE /\ p.vvvv = v.idx % 16
  /\ p.b = FALSE /\ p.aaa = 0 /\ p.z = FALSE
LEMMA WithP67Int ==
  ASSUME NEW q, DOMAIN q = DOMAIN NoPrefix, NEW op, NEW r, NEW v, NEW type, VexInt(q, r, v, type)
  PROVE  VexInt(WithP67(q, op), r, v, type)
<1>1. VecFields \cup {"W", "pp"} \subseteq DOMAIN q
  BY DEF NoPrefix, VecFields
<1> DEFINE b == Is32bit(op)
           p == [q EXCEPT !.p67 = b]
<1> HIDE DEF b
<1>2. p.W = q.W /\ p.pp = q.pp
  BY <1>1
<1>3. Alike(p, q)
  BY <1>1 DEF Alike, VecFields
<1>4. WithP67(q, op) = p
  BY DEF WithP67, b
<1> HIDE DEF p
<1>5. VexInt(p, r, v, type)
  BY <1>2, <1>3 DEF Alike, VexInt
<1>6. QED BY <1>4, <1>5

LEMMA VexIntMemory ==
  ASSUME NEW op, IsMem(op), NEW r, NEW v, NEW type, "0F" \in type => GetMap(type) = 1, NEW attr, NEW n,
         ~NeedsEvex(r, v, op, type, attr)
  PROVE  VexInt(OpVex(r, v, op, type, attr, n).p, r, v, type)
<1>1. PICK e : e = GetRegExp(op)
  OBVIOUS
<1>2. PICK x \in BOOLEAN : x = IsExtIdx(e.index)
  BY IndexBits
<1>3. PICK base : base = e.base
  OBVIOUS
<1>4. PICK q : q = Vex(r, base, v, x, type)
  OBVIOUS
<1>5. OpVex(r, v, op, type, attr, n).p = WithP67(q, op)
  BY <1>1, <1>2, <1>3, <1>4, OpVexMVex
<1>6. VexFields(q, r, base, v, x, type)
  BY <1>2, <1>4, VexIs
<1>7. VexInt(q, r, v, type) /\ DOMAIN q = DOMAIN NoPrefix
  BY <1>6 DEF VexFields, VexInt
<1>8. VexInt(WithP67(q, op), r, v, type)
  BY <1>7, WithP67Int
<1>9. QED BY <1>5, <1>8

GpRm(p, op) == (p.B3 <=> IsExtIdx(op)) /\ p.B4 = FALSE
LEMMA VexIntRegister ==
  ASSUME NEW op, ~IsMem(op), NEW r, NEW v, NEW type, "0F" \in type => GetMap(type) = 1, NEW attr, NEW n,
         ~NeedsEvex(r, v, op, type, attr)
  PROVE  /\ VexInt(OpVex(r, v, op, type, attr, n).p, r, v, type)
         /\ GpRm(OpVex(r, v, op, type, attr, n).p, op)
         /\ Registered(OpVex(r, v, op, type, attr, n).m, r, op)
<1>1. PICK x \in BOOLEAN : x = FALSE
  OBVIOUS
<1>2. PICK p : p = Vex(r, op, v, x, type)
  OBVIOUS
<1>3. OpVex(r, v, op, type, attr, n).p = p /\ OpVex(r, v, op, type, attr, n).m = ModRR(r, op)
  BY <1>1, <1>2, OpVexRVex
<1>4. VexFields(p, r, op, v, x, type)
  BY <1>2, VexIs
<1>5. VexInt(p, r, v, type) /\ GpRm(p, op)
  BY <1>4 DEF VexFields, VexInt, GpRm
<1>6. Registered(ModRR(r, op), r, op)
  BY RegisterForm
<1>7. QED BY <1>3, <1>5, <1>6

LEMMA VexFormed ==
  ASSUME NEW op, op \in GpRegs \/ IsMem(op), NEW r \in GpRegs, NEW v \in GpRegs, NEW type, "0F" \in type => GetMap(type) = 1,
         NEW attr, NEW n, ~NeedsEvex(r, v, op, type, attr),
         NEW j, j.p = OpVex(r, v, op, type, attr, n).p, j.m = OpVex(r, v, op, type, attr, n).m
  PROVE  Formed(j, r, op) /\ VexInt(j.p, r, v, type)
<1>1. ~IsExtIdx2(r)
  BY DEF NeedsEvex
<1>2. CASE IsMem(op)
  <2>1. VexInt(j.p, r, v, type)
    BY <1>2, VexIntMemory
  <2>2. (j.m.present \/ j.m.size = 8) => j.m.reg = r.idx % 8
    <3>1. PICK addr : addr = VexMem(op, type, n, 0)
      OBVIOUS
    <3>2. PICK k : k = r.idx
      OBVIOUS
    <3>3. j.m = OpAddr(addr, k)
      BY <1>2, <3>1, <3>2, OpVexMVex
    <3>4. QED BY <3>2, <3>3, OpAddrReg
  <2>3. QED BY <1>1, <1>2, <2>1, <2>2 DEF Formed, RegBits, VexInt
<1>3. CASE ~IsMem(op)
  <2>1. VexInt(j.p, r, v, type) /\ GpRm(j.p, op) /\ Registered(j.m, r, op)
    BY <1>3, VexIntRegister
  <2>2. ~IsExtIdx2(op)
    BY <1>3 DEF NeedsEvex
  <2>3. QED BY <1>1, <1>3, <2>1, <2>2 DEF Formed, RegBits, RmBits, VexInt, GpRm, Registered
<1>4. QED BY <1>2, <1>3

\* Both prefixes of andn say the width.
LEMMA AndnType ==
  ASSUME NEW bit \in {32, 64}, NEW type, type = andn.type \cup {IF bit = 64 THEN "W1" ELSE "W0"}
  PROVE  /\ {"0F", "VSIB", "MUST_EVEX", "MEM_EVEX", "F2", "F3", "66", "ND1"} \cap type = {} /\ GetPP(type) = 0
         /\ ("W1" \in type <=> bit = 64) /\ ("W0" \in type <=> bit = 32)
<1>1. type = {"APX", "0F38", "NF"} \cup {IF bit = 64 THEN "W1" ELSE "W0"}
  BY DEF andn, Op
<1>2. QED BY <1>1 DEF GetPP

\* andn with what it was given.
VexGpSeen(j, u, d, r1, op, type) ==
  /\ d \in GpRegs /\ r1 \in GpRegs /\ d.bit \in {32, 64} /\ r1.bit = d.bit
  /\ op \in GpRegs \/ IsMem(op)
  /\ ~IsMem(op) => op.bit = d.bit
  /\ type = andn.type \cup {IF d.bit = 64 THEN "W1" ELSE "W0"}
  /\ j.opc.shape = "int" /\ j.opc.hasV = TRUE /\ j.opc.reg = "modrm" /\ j.opc.dir = TRUE /\ j.opc.type = type
  /\ IsWritten(u, d, r1, RmOf(op), IsMem(op), j.opc.dir, NoAttr)

LEMMA VexGpSized ==
  ASSUME NEW j, NEW u, NEW d, NEW r1, NEW op, NEW type, VexGpSeen(j, u, d, r1, op, type), NEW bit, bit = d.bit,
         j.p.W = (bit = 64), j.p.pp = 0
  PROVE  /\ IntSize(j) = bit /\ RegWritten(j, d, d, j.opc.dir) /\ RmWrittenAs(j, op) /\ ~Vector(j)
<1>1. IntSize(j) = bit
  <2>1. bit \in {32, 64} /\ j.opc.shape = "int"
    BY DEF VexGpSeen
  <2>2. j.p.W <=> bit = 64
    OBVIOUS
  <2>3. QED BY <2>1, <2>2 DEF IntSize
<1>2. RmSize(j) = bit
  BY <1>1 DEF RmSize, VexGpSeen
<1>3. QED BY <1>1, <1>2 DEF VexGpSeen, RegWritten, RmWrittenAs, Vector

LEMMA VexGpVex ==
  ASSUME NEW j, NEW u, NEW d, NEW r1, NEW op, NEW type, VexGpSeen(j, u, d, r1, op, type), NEW attr, NEW n,
         ~NeedsEvex(d, r1, op, type, attr),
         j.p = OpVex(d, r1, op, type, attr, n).p, j.m = OpVex(d, r1, op, type, attr, n).m
  PROVE  OpsKept(j, u)
<1>1. PICK bit : bit = d.bit
  OBVIOUS
<1>2. bit \in {32, 64} /\ type = andn.type \cup {IF bit = 64 THEN "W1" ELSE "W0"}
  BY <1>1 DEF VexGpSeen
<1>3. "0F" \notin type /\ GetPP(type) = 0 /\ ("W1" \in type <=> bit = 64)
  BY <1>2, AndnType
<1>4. d \in GpRegs /\ r1 \in GpRegs /\ (op \in GpRegs \/ IsMem(op)) /\ r1.bit = bit
  BY <1>1 DEF VexGpSeen
<1>5. Formed(j, d, op) /\ VexInt(j.p, d, r1, type)
  BY <1>3, <1>4, VexFormed
<1>6. j.p.W = (bit = 64) /\ j.p.pp = 0
  BY <1>3, <1>5 DEF VexInt
<1>7. IntSize(j) = bit /\ RegWritten(j, d, d, j.opc.dir) /\ RmWrittenAs(j, op) /\ ~Vector(j)
  BY <1>1, <1>6, VexGpSized
<1>8. ~IsExtIdx2(r1)
  BY DEF NeedsEvex
<1>9. InV(j, r1)
  BY <1>4, <1>5, <1>7, <1>8 DEF InV, VBits, VexInt
<1>10. j.opc.hasV /\ j.opc.type = type /\ IsWritten(u, d, r1, RmOf(op), IsMem(op), j.opc.dir, NoAttr)
  BY DEF VexGpSeen
<1>11. Whole(j, u) => Reads(j, u)
  BY <1>5, <1>7, <1>9, <1>10, FormedReads
<1>12. Coded(j)
  BY <1>5, <1>10 DEF Coded, Clean, VexInt
<1>13. u.attr = NoAttr
  BY <1>10 DEF IsWritten
<1>14. QED BY <1>7, <1>11, <1>12, <1>13, GeneralOps

LEMMA VexGpLegged ==
  ASSUME NEW j, NEW u, NEW d, NEW r1, NEW op, NEW type, VexGpSeen(j, u, d, r1, op, type), NEW n,
         j.p = OpROO(r1, op, d, type, n).p, j.m = OpROO(r1, op, d, type, n).m
  PROVE  OpsKept(j, u)
<1>1. PICK bit : bit = d.bit
  OBVIOUS
<1>2. bit \in {32, 64} /\ type = andn.type \cup {IF bit = 64 THEN "W1" ELSE "W0"}
  BY <1>1 DEF VexGpSeen
<1>3. {"F2", "F3", "66"} \cap type = {} /\ ("W1" \in type <=> bit = 64) /\ ("W0" \in type <=> bit = 32)
  BY <1>2, AndnType
<1>4. d \in GpRegs /\ r1 \in GpRegs /\ (op \in GpRegs \/ IsMem(op)) /\ r1.bit = bit /\ (~IsMem(op) => op.bit = bit)
  BY <1>1 DEF VexGpSeen
<1>5. ~IsMem(d)
  BY <1>4, GpPlain
<1>6. Formed(j, d, op) /\ Legged(j.p, r1, type)
  BY <1>5, ROOOps
<1>7. j.p.W = (bit = 64) /\ j.p.pp = 0
  <2>1. PICK a, b, x : j.p = EvexLeg(a, b, x, r1, type) /\ a.bit \in {0, bit}
    <3>1. CASE IsMem(op)
      BY <1>1, <1>5, <3>1 DEF OpROO, Parts
    <3>2. CASE ~IsMem(op)
      BY <1>1, <1>5, <3>2 DEF OpROO, Parts
    <3>3. QED BY <3>1, <3>2
  <2>2. LegFields(j.p, a, b, x, r1, type)
    BY <2>1, EvexLegIs
  <2>3. QED BY <1>2, <1>3, <1>4, <2>1, <2>2 DEF LegFields
<1>8. IntSize(j) = bit /\ RegWritten(j, d, d, j.opc.dir) /\ RmWrittenAs(j, op) /\ ~Vector(j)
  BY <1>1, <1>7, VexGpSized
<1>9. j.opc.hasV /\ j.opc.type = type /\ IsWritten(u, d, r1, RmOf(op), IsMem(op), j.opc.dir, NoAttr)
  BY DEF VexGpSeen
<1>10. QED BY <1>4, <1>6, <1>8, <1>9, KeptLegged

LEMMA VexGpOps == ASSUME IInv, VexGp PROVE OpsKept(i', want')
<1>1. PICK d \in SameBit(Gps, 32) \cup SameBit(Gps, 64) : \E r1 \in SameBit(Gps, d.bit), op \in RmOps({0, d.bit}) :
        LET type == andn.type \cup {IF d.bit = 64 THEN "W1" ELSE "W0"}
            apx == HasRex2(d) \/ HasRex2(r1) \/ OpHasRex2(op)
            w == Written(d, r1, IF IsMem(op) THEN NoReg ELSE op, IF IsMem(op) THEN sum ELSE None, TRUE, NoAttr, 0)
        IN  /\ IF apx THEN OpROOOk(op, d, type) ELSE OpVexOk(d, r1, op, type, NoAttr)
            /\ Emit([andn EXCEPT !.type = type], "modrm", TRUE,
                    IF apx THEN OpROO(r1, op, d, type, 0) ELSE OpVex(d, r1, op, type, NoAttr, 0), NoImm, w)
  BY DEF VexGp
<1>2. PICK r1 \in SameBit(Gps, d.bit), op \in RmOps({0, d.bit}) :
        LET type == andn.type \cup {IF d.bit = 64 THEN "W1" ELSE "W0"}
            apx == HasRex2(d) \/ HasRex2(r1) \/ OpHasRex2(op)
            w == Written(d, r1, IF IsMem(op) THEN NoReg ELSE op, IF IsMem(op) THEN sum ELSE None, TRUE, NoAttr, 0)
        IN  /\ IF apx THEN OpROOOk(op, d, type) ELSE OpVexOk(d, r1, op, type, NoAttr)
            /\ Emit([andn EXCEPT !.type = type], "modrm", TRUE,
                    IF apx THEN OpROO(r1, op, d, type, 0) ELSE OpVex(d, r1, op, type, NoAttr, 0), NoImm, w)
  BY <1>1
<1> DEFINE type == andn.type \cup {IF d.bit = 64 THEN "W1" ELSE "W0"}
           apx == HasRex2(d) \/ HasRex2(r1) \/ OpHasRex2(op)
           first == TRUE
           n == 0
           w == Written(d, r1, IF IsMem(op) THEN NoReg ELSE op, IF IsMem(op) THEN sum ELSE None, first, NoAttr, n)
           o == [andn EXCEPT !.type = type]
           attr == NoAttr
           parts == IF apx THEN OpROO(r1, op, d, type, n) ELSE OpVex(d, r1, op, type, attr, n)
<1>3. Emit(o, "modrm", first, parts, NoImm, w)
  BY <1>2
<1>4. o.shape = "int" /\ o.hasV = TRUE /\ o.type = type
  BY DEF andn, Op
<1>5. d \in GpRegs /\ r1 \in GpRegs /\ d.bit \in {32, 64} /\ r1.bit = d.bit
  BY EncodingAssumption DEF SameBit
<1>6. (op \in GpRegs \/ IsMem(op)) /\ (~IsMem(op) => op.bit = d.bit)
  <2>1. (op \in GpRegs \/ IsMem(op)) /\ op.bit \in {0, d.bit}
    BY RmOpsAre
  <2>2. op \in GpRegs => op.bit # 0
    BY GpForm
  <2>3. QED BY <2>1, <2>2
<1>7. attr.mask = 0 /\ attr.rnd = 0
  BY DEF NoAttr
<1>8. apx => parts = OpROO(r1, op, d, type, n)
  OBVIOUS
<1>9. ~apx => parts = OpVex(d, r1, op, type, attr, n)
  OBVIOUS
<1>10. type = andn.type \cup {IF d.bit = 64 THEN "W1" ELSE "W0"} /\ first = TRUE
  OBVIOUS
<1> HIDE DEF type, first, n, attr
<1>11. IsWritten(w, d, r1, RmOf(op), IsMem(op), first, NoAttr)
  <2>1. CASE IsMem(op)
    <3>1. w = Written(d, r1, NoReg, sum, first, NoAttr, n) /\ RmOf(op) = NoReg
      BY <2>1 DEF RmOf
    <3>2. IsWritten(Written(d, r1, NoReg, sum, first, NoAttr, n), d, r1, NoReg, TRUE, first, NoAttr)
      BY MemWritten
    <3>3. QED BY <2>1, <3>1, <3>2 DEF IsWritten
  <2>2. CASE ~IsMem(op)
    <3>1. w = Written(d, r1, op, None, first, NoAttr, n) /\ RmOf(op) = op
      BY <2>2 DEF RmOf
    <3>2. IsWritten(Written(d, r1, op, None, first, NoAttr, n), d, r1, op, FALSE, first, NoAttr)
      BY RegWrittenIs
    <3>3. QED BY <2>2, <3>1, <3>2 DEF IsWritten
  <2>3. QED BY <2>1, <2>2
<1> HIDE DEF w, o, parts
<1>12. Emitted(i', o, "modrm", first, parts, NoImm) /\ want' = w
  BY <1>3, EmitIs
<1>13. PICK u : u = want'
  OBVIOUS
<1>14. PICK j : j = i'
  OBVIOUS
<1>15. /\ j.p = parts.p /\ j.m = parts.m /\ j.opc.shape = "int" /\ j.opc.hasV = TRUE
       /\ j.opc.type = type /\ j.opc.reg = "modrm" /\ j.opc.dir = first
  BY <1>4, <1>12, <1>14 DEF Emitted
<1>16. VexGpSeen(j, u, d, r1, op, type)
  BY <1>5, <1>6, <1>10, <1>11, <1>12, <1>13, <1>15 DEF VexGpSeen
<1>17. CASE apx
  <2>1. j.p = OpROO(r1, op, d, type, n).p /\ j.m = OpROO(r1, op, d, type, n).m
    BY <1>8, <1>15, <1>17
  <2>2. OpsKept(j, u)
    BY <1>16, <2>1, VexGpLegged
  <2>3. QED BY <1>13, <1>14, <2>2
<1>18. CASE ~apx
  <2>1. j.p = OpVex(d, r1, op, type, attr, n).p /\ j.m = OpVex(d, r1, op, type, attr, n).m
    BY <1>9, <1>15, <1>18
  <2>2. {"0F", "VSIB", "MUST_EVEX", "MEM_EVEX"} \cap type = {}
    BY <1>5, <1>10, AndnType
  <2>3. IsGp(d) /\ IsGp(r1) /\ ~IsMem(d)
    BY <1>5, GpForm
  <2>4. ~NeedsEvex(d, r1, op, type, attr)
    <3>1. CASE IsMem(op)
      <4>1. op.broadcast = FALSE /\ op.mask = 0
        <5>1. op = MemOp(op.bit)
          BY <3>1, RmOpsAre
        <5>2. QED BY <5>1, MemOpIs DEF IsMemOp
      <4>2. ~IsExtIdx2(d) /\ ~IsExtIdx2(r1) /\ ~AddrHasRex2(op)
        BY <1>18, <2>3, <3>1 DEF HasRex2, OpHasRex2
      <4>3. QED BY <1>5, <1>7, <2>2, <3>1, <4>1, <4>2 DEF NeedsEvex
    <3>2. CASE ~IsMem(op)
      <4>1. IsGp(op) /\ op.bit \in {32, 64}
        BY <1>5, <1>6, <3>2, GpForm
      <4>2. ~IsExtIdx2(d) /\ ~IsExtIdx2(r1) /\ ~IsExtIdx2(op)
        BY <1>18, <2>3, <3>2, <4>1 DEF HasRex2, OpHasRex2
      <4>3. QED BY <1>5, <1>7, <2>2, <3>2, <4>1, <4>2 DEF NeedsEvex
    <3>3. QED BY <3>1, <3>2
  <2>5. OpsKept(j, u)
    BY <1>16, <2>1, <2>4, VexGpVex
  <2>6. QED BY <1>13, <1>14, <2>5
<1>19. QED BY <1>17, <1>18

LEMMA OperandStep == IInv /\ OperandsKept /\ [Next]_vars => OperandsKept'
<1>1. ASSUME OpsKept(i', want') PROVE OperandsKept'
  BY <1>1 DEF OpsKept, SameOps, Lost, Whole, OperandsKept, SameOperands, Truncated, HighByteLost, PushWide
<1> SUFFICES ASSUME IInv, OperandsKept, [Next]_vars PROVE OperandsKept'
  OBVIOUS
<1>2. CASE i' = None
  BY <1>2 DEF OperandsKept
<1>3. CASE UNCHANGED <<i, want>>
  <2>1. i = None \/ OpsKept(i, want)
    BY DEF OpsKept, SameOps, Lost, Whole, OperandsKept, SameOperands, Truncated, HighByteLost, PushWide
  <2>2. i' = None \/ OpsKept(i', want')
    BY <1>3, <2>1
  <2>3. QED BY <1>1, <1>2, <2>2
<1>4. UNCHANGED <<i, want>> \/ i' = None \/ OpsKept(i', want')
  <2>1. CASE Start \/ Extend \/ Subtract \/ UNCHANGED vars
    BY <2>1 DEF Start, Extend, Subtract, vars
  <2>2. CASE Continue
    BY <2>2 DEF Continue
  <2>3. CASE LegacyM \/ LegacyR \/ VectorM \/ VectorR \/ ThreeM \/ ThreeR \/ VexGp
    BY <2>3, LegacyMOps, LegacyROps, VectorMOps, VectorROps, ThreeMOps, ThreeROps, VexGpOps
  <2>4. CASE ArithImm \/ TestImm \/ Arith3Imm \/ ImulImm \/ Shift \/ Shxd
    BY <2>4, ArithImmOps, TestImmOps, Arith3ImmOps, ImulImmOps, ShiftOps, ShxdOps
  <2>5. CASE MovImmReg \/ MovImmMem \/ MovMoffs \/ Push
    BY <2>5, MovImmRegOps, MovImmMemOps, MovMoffsOps, PushOps
  <2>6. QED BY <2>1, <2>2, <2>3, <2>4, <2>5 DEF Next
<1>5. QED BY <1>1, <1>2, <1>3, <1>4

\* The processor finds the operands that the client wrote: each register's number
\* and width, from the fields of ModRM, the bits that rex, rex2, vex, evex or
\* evexLeg add to them, vvvv, L, W and the operand-size prefix; which of the two
\* is the first source; the mask, {z}, broadcast and rounding; and the opcode map.
\* Nothing is claimed where OperandsKept leaves something out: no ModRM byte was
\* written, ah to dh beside a prefix, push and pop of a narrow register above 15.
THEOREM OperandsAreKept == Spec => []OperandsKept
<1>1. Init => OperandsKept
  BY DEF Init, OperandsKept
<1>2. Spec => []IInv
  BY InvHolds
<1>3. QED BY <1>1, <1>2, OperandStep, PTL DEF Spec

=============================================================================
