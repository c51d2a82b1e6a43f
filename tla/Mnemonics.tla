----------------------------- MODULE Mnemonics ------------------------------
(* The vector, mask and tile instructions that gen/ writes, with those of   *)
(* BMI: each assembled by opVex, or by opROO where an operand is one that   *)
(* only APX has, from the flags of its row and the operands its form allows.*)
EXTENDS Processor, VexTable, EvexTable

KmovType(size, gp) ==
  P0F \cup CASE size = 8 -> {"W0", "66"} [] size = 16 -> {"W0"}
             [] size = 32 -> IF gp THEN {"W0", "F2"} ELSE {"W1", "66"}
             [] OTHER -> IF gp THEN {"W1", "F2"} ELSE {"W1"}

\* The code of a kmov row is the size of the move; the operands give the opcode.
KmovRow(row, code, form, gp) == [row EXCEPT !.code = code, !.form = form, !.type = KmovType(row.code, gp)]
opKmov(row) ==
  LET gp == IF row.code = 64 THEN "q" ELSE "r"
  IN  {KmovRow(row, \h90, "kke", FALSE), KmovRow(row, \h91, "km", FALSE),
       KmovRow(row, \h92, "k" \o gp, TRUE), KmovRow(row, \h93, gp \o "k", TRUE)}
WrittenRows ==
  UNION {X_X_XM, Sha512, Arith, X_XM, M_X, AddSub, MaskMov, Perm, MovHL, Fma, Broadcasts, Extract, ShiftImm,
         Blend, Mov, Cvt, NeConvert, Bmi, Gather, Vnni, P64, CmpX, Amx, putOpmask, putVcmp, putX_XM, putM_X,
         putX_X_XM_IMM, AVX10, putShift, putExtractInsert, putBroadcast, putCvt, putGather, putScatter, putShuff,
         putMov, putX_XM_IMM, putMisc, putFP16_1, putFP16_FMA, putFP16_FMA2, putAVX10_2, putAMX_TTRorI,
         putVmovrs, putBsr, putTileMov, putTop, putFp8}
Rows == UNION {IF row.form = "kmov" THEN opKmov(row) ELSE {row} : row \in WrittenRows}

-----------------------------------------------------------------------------
(* Operands. A form gives the widths it is for and, for a width, what       *)
(* becomes the reg field, vvvv and ModRM: "v" a vector register of the      *)
(* width, "h" of the next narrower one, "x" of 128 bits, "digit" the fixed  *)
(* reg field, "i" an address with an index of the width ("ih", "ix"         *)
(* narrower), "m" an address, "-" nothing; the rest as in MnemonicTable.    *)
(* Typed: the widths that T_YMM allows. The registers are those that reach  *)
(* opVex: a conversion (opCvt) passes on the width of its source, a mask    *)
(* that of what it classifies.                                             *)
Typed == {}
All == {128, 256, 512}
Wide == {256, 512}
E(h) == {h, "m"}
Forms == [
  xxe |-> <<Typed, "v", "v", E("v")>>, xxx |-> <<Typed, "v", "v", {"v"}>>, xxm |-> <<Typed, "v", "v", {"m"}>>,
  movHL |-> <<Typed, "v", "v", E("v")>>, xe |-> <<Typed, "v", "-", E("v")>>, xm |-> <<Typed, "v", "-", {"m"}>>,
  xx |-> <<Typed, "v", "-", {"v"}>>, digitE |-> <<Typed, "digit", "v", E("v")>>,
  digitM |-> <<{128}, "digit", "-", {"m"}>>, bx |-> <<Typed, "v", "-", E("x")>>,
  lowM |-> <<{128}, "v", "-", {"m"}>>, highM |-> <<{128}, "v", "-", {"m"}>>,
  yye |-> <<Wide, "v", "v", E("v")>>, yyx |-> <<Wide, "v", "v", E("x")>>, ye |-> <<Wide, "v", "-", E("v")>>,
  ym |-> <<Wide, "v", "-", {"m"}>>, yx |-> <<Wide, "v", "-", E("x")>>, yToX |-> <<Wide, "v", "-", E("x")>>,
  yFromX |-> <<{256}, "v", "-", {"x"}>>, yFromY |-> <<{256}, "v", "-", {"v"}>>,
  yyFromX |-> <<{256}, "v", "v", {"x"}>>,
  zzy |-> <<{512}, "v", "v", E("h")>>, zy |-> <<{512}, "v", "-", E("h")>>, zToY |-> <<{512}, "v", "-", E("h")>>,
  ze |-> <<{512}, "v", "-", E("v")>>, zm |-> <<{512}, "v", "-", {"m"}>>,
  vm |-> <<All, "v", "-", {"m"}>>, vx |-> <<All, "v", "-", E("x")>>, vh |-> <<All, "v", "-", E("h")>>,
  cvt2 |-> <<All, "v", "-", E("v")>>, cvt4 |-> <<All, "v", "-", E("v")>>, cvt5 |-> <<All, "v", "-", E("v")>>,
  cvt6 |-> <<All, "h", "v", E("v")>>, cvt7 |-> <<All, "x", "v", E("v")>>,
  vk |-> <<All, "v", "-", {"k"}>>, kv |-> <<All, "k", "-", {"v"}>>, kxe |-> <<All, "k", "v", E("v")>>,
  ke |-> <<All, "kv", "-", E("v")>>, kx |-> <<{128}, "k", "-", E("x")>>,
  kkk |-> <<{128}, "k", "k", {"k"}>>, kk |-> <<{128}, "k", "-", {"k"}>>, kke |-> <<{128}, "k", "-", E("k")>>,
  km |-> <<{128}, "k", "-", {"m"}>>, kr |-> <<{128}, "k", "-", {"r"}>>, kq |-> <<{128}, "k", "-", {"q"}>>,
  rk |-> <<{128}, "r", "-", {"k"}>>, qk |-> <<{128}, "q", "-", {"k"}>>,
  vr |-> <<All, "v", "-", {"r"}>>, vq |-> <<All, "v", "-", {"q"}>>, rx |-> <<{128, 256}, "v", "-", {"v"}>>,
  ge |-> <<{128}, "r", "-", E("x")>>, qe |-> <<{128}, "q", "-", E("x")>>,
  xxr |-> <<{128}, "v", "v", E("r")>>, xxq |-> <<{128}, "v", "v", E("q")>>, xq |-> <<{128}, "v", "-", {"q"}>>,
  xToR |-> <<{128}, "v", "-", E("r")>>, xToQ |-> <<{128}, "v", "-", E("q")>>,
  xToQReg |-> <<{128}, "v", "-", {"q"}>>, pextrw |-> <<{128}, "v", "-", {"x"}>>,
  y_vx_y |-> <<{128, 256}, "v", "v", {"ix"}>>, y_vy_y |-> <<{128, 256}, "v", "v", {"i"}>>,
  x_vy_x |-> <<{128, 256}, "v", "v", {"i"}>>, xx_yy_zz |-> <<All, "v", "-", {"i"}>>,
  xx_yx_zy |-> <<All, "v", "-", {"ih"}>>, xx_xy_yz |-> <<All, "h", "-", {"i"}>>,
  fetchZ |-> <<{512}, "digit", "-", {"i"}>>, fetchY |-> <<{512}, "digit", "-", {"ih"}>>,
  RRO |-> <<{32, 64}, "g", "g", E("g")>>, RRM |-> <<{32, 64}, "g", "g", {"m"}>>,
  RO |-> <<{32, 64}, "g", "-", E("g")>>,
  digitRO |-> <<{32, 64}, "gdigit", "g", E("g")>>,
  ttt |-> <<{128}, "t", "t", {"t"}>>, tilezero |-> <<{128}, "t", "-", {"t"}>>, tm |-> <<{128}, "t", "-", {"m"}>>,
  ztr |-> <<{512}, "v", "r", {"t"}>>, zt |-> <<{512}, "v", "-", {"t"}>>, tz |-> <<{512}, "t", "-", {"v"}>>,
  tzr |-> <<{512}, "t", "r", {"v"}>>, tzz |-> <<{512}, "t", "v", {"v"}>>,
  bzm |-> <<{512}, "b", "v", E("v")>>, bm |-> <<{512}, "b", "-", {"m"}>>, bsrinit |-> <<{512}, "b", "-", {"b"}>>]

Narrower(w) == IF w = 512 THEN 256 ELSE 128
Other(kind, bit) == [kind |-> kind, idx |-> 1, bit |-> bit, ext8 |-> FALSE]

\* The base is rax or r16, which only REX2 and EVEX forms can have.
Disp == 64
Memory(n, index, broadcast) == Address(0, broadcast, 0, Expr(Gp(n, 64), index, 2, Disp))

\* The operand that h asks for in place k of a row; n is 0 or 16.
Operand(h, w, k, n, row) ==
  CASE h = "v" -> Vec(n + k, w) [] h = "h" -> Vec(n + k, Narrower(w)) [] h = "x" -> Vec(n + k, 128)
    [] h = "digit" -> Vec(row.digit, w) [] h = "gdigit" -> Gp(row.digit, w)
    [] h = "r" -> Gp(n + k, 32) [] h = "q" -> Gp(n + k, 64) [] h = "g" -> Gp(n + k, w)
    [] h = "k" -> Other("k", 64) [] h = "kv" -> Other("k", w)
    [] h = "t" -> Other("t", 8192) [] h = "b" -> Other("b", 1024)
    [] h = "m" -> Memory(n, Gp(1, 64), FALSE) [] h = "mb" -> Memory(n, Gp(1, 64), TRUE)
    [] h = "i" -> Memory(n, Vec(n + 4, w), FALSE) [] h = "ix" -> Memory(n, Vec(n + 4, 128), FALSE)
    [] h = "ih" -> Memory(n, Vec(n + 4, Narrower(w)), FALSE)
    [] OTHER -> NoReg

\* What a call passes on.
Shapes(row, n) ==
  LET f == Forms[row.form]
      widths == IF f[1] # Typed THEN f[1] ELSE IF "YMM" \in row.type THEN All ELSE {128}
      rms == IF "m" \in f[4] THEN f[4] \cup {"mb"} ELSE f[4]
  IN  IF (row.form \in {"lowM", "pextrw"} /\ n # 0) \/ (row.form = "highM" /\ n = 0) THEN {}
      ELSE {[row |-> row, w |-> w, n |-> n, r |-> Operand(f[2], w, 1, n, row), v |-> Operand(f[3], w, 2, n, row),
             rm |-> Operand(h, w, 3, n, row)] : w \in widths, h \in rms}

\* opRRO completes the type with the width; opGather2 asks for a mask.
General == {"RRO", "RRM", "RO", "digitRO"}
TypeOf(s) == s.row.type \cup IF s.row.form \notin General THEN {} ELSE IF s.w = 64 THEN {"W1"} ELSE {"W0"}
Attributes(s) ==
  [mask |-> IF s.row.form \in {"xx_yy_zz", "xx_yx_zy", "xx_xy_yz"} THEN 1 ELSE 0, zero |-> FALSE, rnd |-> 0]

\* opRRO, opKmov and opAMX take the APX form for r16 to r31.
UsesApx(s) ==
  /\ s.row.form \in General \cup {"tm", "kke", "km", "kr", "kq", "rk", "qk"}
  /\ \E op \in {s.r, s.v, s.rm} : OpHasRex2(op)
Accepted(s) == IF UsesApx(s) THEN OpROOOk(s.rm, s.r, TypeOf(s)) ELSE OpVexOk(s.r, s.v, s.rm, TypeOf(s), Attributes(s))
Assembled(s) ==
  LET immSize == IF s.row.imm THEN 1 ELSE 0
      parts == IF UsesApx(s) THEN OpROO(s.v, s.rm, s.r, TypeOf(s) \cup {"APX"}, immSize)
               ELSE OpVex(s.r, s.v, s.rm, TypeOf(s), Attributes(s), immSize)
  IN  [p |-> parts.p, m |-> parts.m, code |-> s.row.code, shape |-> s]
=============================================================================
