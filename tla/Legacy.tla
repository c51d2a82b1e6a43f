------------------------------- MODULE Legacy --------------------------------
(* The instructions of LegacyTable, each assembled by the function of       *)
(* CodeGenerator that its form stands for.                                  *)
EXTENDS Mnemonics, LegacyTable

LegacyRows ==
  UNION {Mmx, MmxSized, MmxShiftImm, Shuffles, SseMoves, SseArith, SseRegisters, SseMisc, SseConvert, Prefetch,
         MovHalf, Conditional, Cfcmov, Loop, Generic, GenericFpu, Arithmetic, AtomicMemory, IncDec, BitTest, MulDiv,
         Shifts, DoubleShifts, BitScan, Counts, SupplementalSse, State, NonTemporal, Extensions, CarryAdds, InOut,
         Bounds, IntegerMisc, Crc32, SseElements, FpuMemory, FpuFpu, FpuOne, SseX_XM, SseXM, Sha, SseAddSub,
         Generic64, Integers64, KeyLocker, HandWritten}

(* A form gives the function that assembles it, the widths it is for, and   *)
(* for a width what becomes the reg field, the new destination of APX and   *)
(* ModRM: "s" a register of SSE, "n" of MMX, "d" a bound, "g" a general     *)
(* register of the width, "c" one that is not extended, "a" the             *)
(* accumulator, "f" the register that holds the flags of ccmp, "M" memory   *)
(* of the width, and the rest as in Mnemonics!Forms; "g8" to "M32" have the *)
(* width they say. The functions:                                           *)
(*   "ro" opMR and opRR, "rext" opRext, "roo" opROO, "apx" opROO where an   *)
(*   operand is one that only APX has and another form of the name where    *)
(*   none is, "seg" opLoadSeg, "fpu" opFpuMem; without ModRM "acc" (rex and *)
(*   the opcode) and "op"; "byte" with one that is a part of the opcode;    *)
(*   "st" opFpu and opFpuFpu.                                               *)
Wider == {16, 32, 64}
Every == {8, 16, 32, 64}
G(m) == {"g", m}
LegacyForms == [
  nn |-> <<"ro", {64}, "n", "-", {"n", "M"}>>, ss |-> <<"ro", {128}, "s", "-", {"s", "M"}>>,
  digitN |-> <<"ro", {32}, "gdigit", "-", {"n"}>>, digitS |-> <<"ro", {32}, "gdigit", "-", {"s"}>>,
  sm |-> <<"ro", {128}, "s", "-", {"M"}>>, sS |-> <<"ro", {128}, "s", "-", {"s"}>>,
  sn |-> <<"ro", {64}, "s", "-", {"n", "M"}>>, ns |-> <<"ro", {64}, "n", "-", {"s", "M"}>>,
  nN |-> <<"ro", {64}, "n", "-", {"n"}>>, sN |-> <<"ro", {64}, "s", "-", {"n"}>>,
  nS |-> <<"ro", {64}, "n", "-", {"s"}>>, nm |-> <<"ro", {64}, "n", "-", {"M"}>>,
  sg |-> <<"ro", {32, 64}, "s", "-", G("M")>>, gs |-> <<"ro", {32, 64}, "g", "-", {"s", "M"}>>,
  gS |-> <<"ro", {32, 64}, "g", "-", {"s"}>>, gn |-> <<"ro", {32, 64}, "g", "-", {"n"}>>,
  sg32 |-> <<"ro", {32}, "s", "-", G("m")>>, ng32 |-> <<"ro", {32}, "n", "-", G("m")>>,
  nq |-> <<"ro", {64}, "n", "-", {"g"}>>, sq |-> <<"ro", {64}, "s", "-", {"g"}>>,
  cq |-> <<"ro", {64}, "c", "-", G("m")>>, wm |-> <<"ro", {16}, "c", "-", {"m"}>>,
  digit32 |-> <<"ro", {32}, "gdigit", "-", {"m"}>>,
  digitM64 |-> <<"ro", {64}, "gdigit", "-", {"m"}>>, digitR |-> <<"ro", {32}, "gdigit", "-", {"g"}>>,
  digitG16 |-> <<"ro", Wider, "gdigit", "-", {"g"}>>, digitG32 |-> <<"ro", {32, 64}, "gdigit", "-", {"g"}>>,
  digitQ |-> <<"ro", {64}, "gdigit", "-", {"g"}>>, digitM8 |-> <<"ro", Every, "gdigit", "-", {"M"}>>,
  digitS_M |-> <<"ro", {128}, "digit", "-", {"m"}>>,
  r16 |-> <<"ro", Wider, "g", "-", G("M")>>, g16 |-> <<"ro", Wider, "g", "-", G("M")>>,
  g8 |-> <<"ro", Every, "g", "-", G("M")>>, gm8 |-> <<"ro", Every, "g", "-", {"M"}>>,
  gm16 |-> <<"ro", Wider, "g", "-", {"M"}>>, gm32 |-> <<"ro", {32, 64}, "g", "-", {"M"}>>,
  gB |-> <<"ro", {8}, "g", "-", G("M")>>, gmB |-> <<"ro", {8}, "g", "-", {"M"}>>,
  g32 |-> <<"ro", {32, 64}, "g", "-", G("M")>>, rm |-> <<"ro", {32}, "g", "-", {"M"}>>,
  r32 |-> <<"ro", {32}, "c", "-", G("m")>>, rr |-> <<"ro", {32}, "g", "-", {"g"}>>,
  dd |-> <<"ro", {128}, "d", "-", {"d", "m"}>>, dm |-> <<"ro", {128}, "d", "-", {"m"}>>,
  movx8 |-> <<"ro", Wider, "g", "-", {"g8", "M8"}>>, movx16 |-> <<"ro", {32, 64}, "g", "-", {"g16", "M16"}>>,
  movsxd |-> <<"ro", {64}, "g", "-", {"g32", "M32"}>>, crc8 |-> <<"ro", {32, 64}, "g", "-", {"g8", "M8"}>>,
  crc16 |-> <<"ro", {32}, "g", "-", {"g16", "M16"}>>,
  segR |-> <<"ro", Wider, "c8", "-", G("M")>>, segR32 |-> <<"ro", {32}, "c8", "-", G("M")>>,
  stack |-> <<"ro", {64}, "rdigit", "-", {"M"}>>, stack16 |-> <<"ro", {16}, "rdigit", "-", {"M"}>>,
  near |-> <<"rext", {16, 32}, "-", "-", G("M")>>, far |-> <<"rext", Wider, "-", "-", {"M"}>>,
  digit8 |-> <<"rext", Every, "-", "-", G("M")>>, digit16 |-> <<"rext", Wider, "-", "-", G("M")>>,
  setcc |-> <<"rext", {8}, "-", "-", G("M")>>,
  nddigit8 |-> <<"roo", Every, "gdigit", "g", G("M")>>, nddigit16 |-> <<"roo", Wider, "gdigit", "g", G("M")>>,
  nddigitB |-> <<"roo", {8}, "gdigit", "g", G("M")>>, nddigitW |-> <<"roo", {16}, "gdigit", "g", G("M")>>,
  nddigit32 |-> <<"roo", {32, 64}, "gdigit", "g", G("M")>>,
  nd8 |-> <<"roo", Every, "g", "g", G("M")>>, ndm8 |-> <<"roo", Every, "g", "g", {"M"}>>,
  nd16 |-> <<"roo", Wider, "g", "g", G("M")>>, nd32 |-> <<"roo", {32, 64}, "g", "g", G("M")>>,
  ndq |-> <<"roo", {64}, "gdigit", "g", {"g"}>>,
  must16M |-> <<"roo", Wider, "g", "-", {"M"}>>, must16 |-> <<"roo", Wider, "g", "-", G("M")>>,
  must16nd |-> <<"roo", Wider, "g", "g", G("M")>>,
  ccmp |-> <<"roo", Every, "g", "f", G("M")>>, ccmpM |-> <<"roo", Every, "g", "f", {"M"}>>,
  ccmpi |-> <<"roo", Every, "f", "f", G("M")>>, ccmpi16 |-> <<"roo", Wider, "f", "f", G("M")>>,
  ctesti |-> <<"roo", Every, "a", "f", G("M")>>,
  apx16 |-> <<"apx", Wider, "g", "-", G("M")>>, apx32 |-> <<"apx", {32, 64}, "g", "-", G("M")>>,
  apxM16 |-> <<"apx", Wider, "g", "-", {"M"}>>, apxM32 |-> <<"apx", {32, 64}, "g", "-", {"M"}>>,
  apxRm |-> <<"apx", {32}, "g", "-", {"M"}>>, apxRr |-> <<"apx", {32}, "g", "-", {"g"}>>,
  apxCrc8 |-> <<"apx", {32, 64}, "g", "-", {"g8", "M8"}>>, apxCrc16 |-> <<"apx", {32}, "g", "-", {"g16", "M16"}>>,
  apxSm |-> <<"apx", {128}, "s", "-", {"m"}>>, apxDigitM |-> <<"apx", {128}, "digit", "-", {"m"}>>,
  setccApx |-> <<"apx", {8}, "-", "-", G("M")>>,
  op |-> <<"op", {0}, "-", "-", {"-"}>>, byte |-> <<"byte", {0}, "-", "-", {"-"}>>,
  st |-> <<"st", {0}, "-", "-", {"-"}>>, acc |-> <<"acc", Every, "a", "-", {"-"}>>,
  seg |-> <<"seg", Wider, "g", "-", {"M"}>>,
  fpu16 |-> <<"fpu", {16}, "-", "-", {"M"}>>, fpu32 |-> <<"fpu", {32}, "-", "-", {"M"}>>,
  fpu64 |-> <<"fpu", {64}, "-", "-", {"M"}>>]

MemoryOf(n, bit) == [Memory(n, Gp(1, 64), FALSE) EXCEPT !.bit = bit]
LegacyOperand(h, w, k, n, row) ==
  CASE h = "s" -> Vec(k, 128) [] h = "n" -> Other("mmx", 64) [] h = "d" -> Other("bnd", 128)
    [] h = "c" -> Gp(k, w) [] h = "c8" -> Gp(k, 8) [] h = "a" -> Gp(0, w) [] h = "f" -> Gp(15, w)
    [] h = "rdigit" -> Gp(row.digit, 32) [] h = "M" -> MemoryOf(n, w)
    [] h = "g8" -> Gp(n + k, 8) [] h = "g16" -> Gp(n + k, 16) [] h = "g32" -> Gp(n + k, 32)
    [] h = "M8" -> MemoryOf(n, 8) [] h = "M16" -> MemoryOf(n, 16) [] h = "M32" -> MemoryOf(n, 32)
    [] OTHER -> Operand(h, w, k, n, row)
LegacyShapes(row, n) ==
  LET f == LegacyForms[row.form]
  IN  {[row |-> row, w |-> w, n |-> n, r |-> LegacyOperand(f[3], w, 1, n, row), v |-> LegacyOperand(f[4], w, 2, n, row),
        rm |-> LegacyOperand(h, w, 3, n, row)] : w \in f[2], h \in f[5]}

-----------------------------------------------------------------------------
(* Marks are bytes that the code writes itself: 9B (fwait) before the rest, *)
(* the prefix 67, and the prefixes of instructions without operands.        *)
Marks == {"9B", "67", "REX2", "VEX", "nf"}
Flags(s) == s.row.type \ Marks
How(s) == LegacyForms[s.row.form][1]

\* Functions of these names take opROO first.
Promoted == {row.name : row \in {r \in LegacyRows : LegacyForms[r.form][1] = "apx"}}
LegacyAccepted(s) ==
  LET type == Flags(s)
      promoted == s.n = 16 /\ s.row.name \in Promoted /\ "APX" \notin type
  IN  CASE How(s) = "ro" -> ~promoted /\ (IF IsMem(s.rm) THEN OpMROk(s.rm, s.r, type) ELSE OpRROk(s.r, s.rm, type))
        [] How(s) = "rext" -> ~promoted /\ OpRextOk(s.rm, s.row.digit, type, NoReg)
        [] How(s) = "roo" -> OpROOOk(s.rm, s.r, type)
        [] How(s) = "apx" -> s.n = 16 /\ OpROOOk(s.rm, s.r, type)
        [] How(s) \in {"op", "byte", "st", "acc"} -> s.n = 0
        [] OTHER -> OpAddrOk(s.rm)

\* What the code writes for an instruction without operands.
Alone(s) ==
  LET type == s.row.type
  IN  [NoPrefix EXCEPT !.pp = LegacyPP(type, FALSE), !.map = GetMap(type), !.W = "W1" \in type, !.p67 = "67" \in type,
         !.enc = CASE "VEX" \in type -> "vex" [] "REX2" \in type -> "rex2" [] "W1" \in type -> "rex" [] OTHER -> "none",
         !.L = IF "L1" \in type THEN 1 ELSE 0]
LegacyParts(s) ==
  LET type == Flags(s)
      immSize == IF s.row.imm THEN 1 ELSE 0
      digit == s.row.digit
      St0 == Other("fpu", 32)
  IN  CASE How(s) = "ro" -> IF IsMem(s.rm) THEN OpMR([s.rm EXCEPT !.immSize = immSize], s.r, type)
                            ELSE OpRR(s.r, s.rm, type)
        [] How(s) = "rext" -> OpRext(s.rm, digit, type, NoReg, immSize)
        [] How(s) \in {"roo", "apx"} -> OpROO(s.v, s.rm, s.r, type, immSize)
        [] How(s) = "acc" -> Parts(RexR(NoReg, s.r, {}), NoModRM, WriteCode({}, s.r))
        [] How(s) = "op" -> Parts(Alone(s), NoModRM, FALSE)
        [] How(s) = "byte" -> Parts(Alone(s), SetModRM(digit \div 64, (digit \div 8) % 8, digit), FALSE)
        [] How(s) = "st" -> Parts(NoPrefix, SetModRM(3, digit, 1), FALSE)
        [] How(s) = "fpu" -> Parts(RexM(s.rm, St0, {}), OpAddr(s.rm, digit), FALSE)
        [] How(s) = "seg" -> Parts(RexM(s.rm, s.r, type), OpAddr(s.rm, s.r.idx), FALSE)

\* opLoadSeg writes 0F after REX2 as well: there it is the opcode, and the opcode
\* is what the processor takes for ModRM.
Shifted(a) == a.code = \h0F

\* A condition of ccmp and ctest takes the bits of V4 and of aaa; NF is one of
\* those.
LegacyAssembled(s) ==
  LET parts == LegacyParts(s)
      shifted == How(s) = "seg" /\ parts.p.enc = "rex2"
      conditional == LegacyForms[s.row.form][4] = "f"
      aaa == CASE conditional -> s.row.digit % 8 [] "nf" \in s.row.type -> 4 [] OTHER -> parts.p.aaa
  IN  [p |-> [parts.p EXCEPT !.aaa = aaa, !.V4 = IF conditional THEN s.row.digit < 8 ELSE @],
       m |-> IF shifted THEN SetModRM(s.row.code \div 64, s.row.code \div 8, s.row.code) ELSE parts.m, shape |-> s,
       code |-> IF shifted THEN \h0F
                ELSE IF parts.code1 /\ s.row.code % 2 = 0 THEN s.row.code + 1 ELSE s.row.code]
=============================================================================
