---------------------------- MODULE LegacyTable -----------------------------
(* The instructions without a VEX form: MMX and SSE, x87, and those of the  *)
(* general registers with their APX forms. One definition for each table of *)
(* gen_code.cpp, in its order, then the functions that are written by hand. *)
(* Legacy!LegacyForms says what each form checks and where it puts its      *)
(* operands. In a form s is an SSE register, n one of MMX, g one of the     *)
(* general registers; a form without ModRM is "op", or "byte" where the     *)
(* ModRM byte is a part of the opcode and "st" where it ends in st(i).      *)
EXTENDS MnemonicTable

Just66 == {"66"}
F3 == {"F3"}
F2 == {"F2"}

\* opMMX and opMMX_IMM add 66 for a register of SSE.
Both64And128(rows) ==
  Table("nn", {rows}) \cup Table("ss", {{[row EXCEPT !.type = row.type \cup Just66] : row \in rows}})

Mmx ==
  Both64And128(T(P0F, [packssdw |-> \h6B, packsswb |-> \h63, packuswb |-> \h67, pand |-> \hDB, pandn |-> \hDF,
    pmaddwd |-> \hF5, pmulhuw |-> \hE4, pmulhw |-> \hE5, pmullw |-> \hD5, por |-> \hEB, punpckhbw |-> \h68,
    punpckhwd |-> \h69, punpckhdq |-> \h6A, punpcklbw |-> \h60, punpcklwd |-> \h61, punpckldq |-> \h62,
    pxor |-> \hEF, pavgb |-> \hE0, pavgw |-> \hE3, pmaxsw |-> \hEE, pmaxub |-> \hDE, pminsw |-> \hEA,
    pminub |-> \hDA, psadbw |-> \hF6, paddq |-> \hD4, pmuludq |-> \hF4, psubq |-> \hFB]))

\* A size adds its number to the opcode.
Size == [b |-> 0, w |-> 1, d |-> 2, q |-> 3]
Sized(name, code, digit, sizes) == {Row(name \o s, P0F, code + Size[s], digit, digit # 0) : s \in sizes}
MmxSized ==
  Both64And128(UNION {
    Sized("padd", \hFC, 0, {"b", "w", "d"}), Sized("padds", \hEC, 0, {"b", "w"}),
    Sized("paddus", \hDC, 0, {"b", "w"}), Sized("pcmpeq", \h74, 0, {"b", "w", "d"}),
    Sized("pcmpgt", \h64, 0, {"b", "w", "d"}), Sized("psll", \hF0, 0, {"w", "d", "q"}),
    Sized("psra", \hE0, 0, {"w", "d"}), Sized("psrl", \hD0, 0, {"w", "d", "q"}),
    Sized("psub", \hF8, 0, {"b", "w", "d"}), Sized("psubs", \hE8, 0, {"b", "w"}),
    Sized("psubus", \hD8, 0, {"b", "w"})})
MmxShiftImm ==
  LET rows == Sized("psll", \h70, 6, {"w", "d", "q"}) \cup Sized("psra", \h70, 4, {"w", "d"})
                \cup Sized("psrl", \h70, 2, {"w", "d", "q"})
  IN  Table("digitN", {rows})
        \cup Table("digitS", {{[row EXCEPT !.type = P66_0F] : row \in rows},
                              Di(P66_0F, [pslldq |-> <<\h73, 7>>, psrldq |-> <<\h73, 3>>])})
Shuffles ==
  Table("nn", {Ti(P0F, [pshufw |-> \h70])})
    \cup Table("ss", {Ti(F2_0F, [pshuflw |-> \h70]), Ti(F3_0F, [pshufhw |-> \h70]), Ti(P66_0F, [pshufd |-> \h70])})

SseMoves ==
  Table("ss", {
    T(P66_0F, [movdqa |-> \h6F, movapd |-> \h28, movupd |-> \h10]), T(F3_0F, [movdqu |-> \h6F, movss |-> \h10]),
    T(P0F, [movaps |-> \h28, movups |-> \h10]), T(F2_0F, [movsd |-> \h10])}) \cup
  Table("sm", {
    T(P66_0F, [movdqa |-> \h7F, movapd |-> \h29, movupd |-> \h11]), T(F3_0F, [movdqu |-> \h7F, movss |-> \h11]),
    T(P0F, [movaps |-> \h29, movups |-> \h11]), T(F2_0F, [movsd |-> \h11])})
SseArith ==
  LET all == [add |-> \h58, div |-> \h5E, max |-> \h5F, min |-> \h5D, mul |-> \h59, sqrt |-> \h51, sub |-> \h5C]
      packed == [andn |-> \h55, and |-> \h54, or |-> \h56, unpckh |-> \h15, unpckl |-> \h14, xor |-> \h57]
      single == [rcp |-> \h53, rsqrt |-> \h52]
  IN  Table("ss", {
        Named("", all, "ps", P0F), Named("", all, "ss", F3_0F), Named("", all, "pd", P66_0F),
        Named("", all, "sd", F2_0F), Named("", packed, "ps", P0F), Named("", packed, "pd", P66_0F),
        Named("", single, "ps", P0F), Named("", single, "ss", F3_0F),
        Ti(P0F, [cmpps |-> \hC2, shufps |-> \hC6]), Ti(P66_0F, [cmppd |-> \hC2, shufpd |-> \hC6]),
        Ti(F3_0F, [cmpss |-> \hC2]), Ti(F2_0F, [cmpsd |-> \hC2])})
SseRegisters ==
  Table("sS", {T(P66_0F, [maskmovdqu |-> \hF7]), T(P0F, [movhlps |-> \h12, movlhps |-> \h16])})
SseMisc ==
  Table("ss", {
    T(P66_0F, [punpckhqdq |-> \h6D, punpcklqdq |-> \h6C, comisd |-> \h2F, ucomisd |-> \h2E, cvtpd2ps |-> \h5A,
      cvttpd2dq |-> \hE6, cvtps2dq |-> \h5B]),
    T(P0F, [comiss |-> \h2F, ucomiss |-> \h2E, cvtps2pd |-> \h5A, cvtdq2ps |-> \h5B]),
    T(F2_0F, [cvtsd2ss |-> \h5A, cvtpd2dq |-> \hE6]),
    T(F3_0F, [cvtss2sd |-> \h5A, cvtdq2pd |-> \hE6, cvttps2dq |-> \h5B])})
SseConvert ==
  Table("sn", {T(P0F, [cvtpi2ps |-> \h2A]), T(P66_0F, [cvtpi2pd |-> \h2A])}) \cup
  Table("ns", {T(P0F, [cvtps2pi |-> \h2D, cvttps2pi |-> \h2C]), T(P66_0F, [cvtpd2pi |-> \h2D, cvttpd2pi |-> \h2C])}) \cup
  Table("sg", {T(F3_0F, [cvtsi2ss |-> \h2A]), T(F2_0F, [cvtsi2sd |-> \h2A])}) \cup
  Table("gs", {T(F3_0F, [cvtss2si |-> \h2D, cvttss2si |-> \h2C]), T(F2_0F, [cvtsd2si |-> \h2D, cvttsd2si |-> \h2C])})
Prefetch ==
  Table("digit32", {D(P0F \cup {"DIFF"}, [prefetcht0 |-> <<\h18, 1>>, prefetcht1 |-> <<\h18, 2>>,
    prefetcht2 |-> <<\h18, 3>>, prefetchnta |-> <<\h18, 0>>, prefetchw |-> <<\h0D, 1>>, prefetchit0 |-> <<\h18, 7>>,
    prefetchit1 |-> <<\h18, 6>>, prefetchrst2 |-> <<\h18, 4>>])})
MovHalf ==
  Table("sm", {
    T(P0F, [movhps |-> \h16, movlps |-> \h12]), T(P66_0F, [movhpd |-> \h16, movlpd |-> \h12]),
    T(P0F, [movhps |-> \h17, movlps |-> \h13]), T(P66_0F, [movhpd |-> \h17, movlpd |-> \h13])})

-----------------------------------------------------------------------------
\* Conditions. Beside a condition that has other names, see Instructions!Synonyms.
CC ==
  [o |-> 0, no |-> 1, b |-> 2, c |-> 2, nae |-> 2, nb |-> 3, ae |-> 3, nc |-> 3, e |-> 4, z |-> 4, ne |-> 5, nz |-> 5,
   be |-> 6, na |-> 6, nbe |-> 7, a |-> 7, s |-> 8, ns |-> 9, p |-> 10, pe |-> 10, np |-> 11, po |-> 11,
   l |-> 12, nge |-> 12, nl |-> 13, ge |-> 13, le |-> 14, ng |-> 14, nle |-> 15, g |-> 15]
OnCondition(op, type, code) == {Row(op \o cc, type, code + CC[cc], 0, FALSE) : cc \in DOMAIN CC}

\* Conditions 10 and 11 of ccmp and ctest are true and false.
Scc(cc) == CASE CC[cc] = 10 -> "t" [] CC[cc] = 11 -> "f" [] OTHER -> cc
OnScc(op, type, code, imm) == {Row(op \o Scc(cc), type, code, CC[cc], imm) : cc \in DOMAIN CC}
Conditional ==
  Table("r16", {OnCondition("cmov", P0F, \h40)}) \cup
  Table("nd16", {OnCondition("cmov", {"APX", "ND1"}, \h40)}) \cup
  Table("op", {OnCondition("j", {}, \h70), OnCondition("j", P0F, \h80)}) \cup
  Table("setcc", {OnCondition("set", P0F, \h90)}) \cup
  Table("setccApx", {OnCondition("set", {"APX", "ZU", "F2"}, \h40)}) \cup
  Table("ccmp", {OnScc("ccmp", {"APX", "CODE1"}, \h38, FALSE), OnScc("ctest", {"APX", "CODE1"}, \h84, FALSE)}) \cup
  Table("ccmpM", {OnScc("ccmp", {"APX", "CODE1"}, \h3A, FALSE)}) \cup
  Table("ccmpi", {OnScc("ccmp", {"APX", "CODE1"}, \h80, TRUE)}) \cup
  Table("ccmpi16", {OnScc("ccmp", {"APX", "CODE1"}, \h82, TRUE)}) \cup
  Table("ctesti", {OnScc("ctest", {"APX", "CODE1"}, \hF6, TRUE)})

\* "nf": T_nf is set on an operand.
Cfcmov ==
  LET ops == [o |-> \h40, no |-> \h41, b |-> \h42, nb |-> \h43, z |-> \h44, nz |-> \h45, be |-> \h46, nbe |-> \h47,
              s |-> \h48, ns |-> \h49, p |-> \h4A, np |-> \h4B, l |-> \h4C, nl |-> \h4D, le |-> \h4E, nle |-> \h4F]
  IN  Table("must16M", {Named("cfcmov", ops, "", {"MUST_EVEX"})}) \cup
      Table("must16", {Named("cfcmov", ops, "", {"MUST_EVEX", "NF", "nf"})}) \cup
      Table("must16nd", {Named("cfcmov", ops, "", {"MUST_EVEX", "NF", "nf"})})
Loop == Table("op", {T({}, [loop |-> \hE2, loope |-> \hE1, loopne |-> \hE0])})

-----------------------------------------------------------------------------
(* Instructions without operands, and prefixes.                            *)
Generic ==
  Table("op", {
    T({}, [bnd |-> \hF2, cdq |-> \h99, clc |-> \hF8, cld |-> \hFC, cli |-> \hFA, cmc |-> \hF5, cwde |-> \h98,
      cmpsb |-> \hA6, cmpsd |-> \hA7, hlt |-> \hF4, int3 |-> \hCC, scasb |-> \hAE, scasd |-> \hAF, movsb |-> \hA4,
      leave |-> \hC9, lodsb |-> \hAC, lodsd |-> \hAD, movsd |-> \hA5, outsb |-> \h6E, outsd |-> \h6F,
      stosb |-> \hAA, stosd |-> \hAB, rep |-> \hF3, repe |-> \hF3, repz |-> \hF3, repne |-> \hF2, repnz |-> \hF2,
      lahf |-> \h9F, lock |-> \hF0, sahf |-> \h9E, stc |-> \hF9, std |-> \hFD, sti |-> \hFB, wait |-> \h9B,
      fwait |-> \h9B, xlatb |-> \hD7, popf |-> \h9D, pushf |-> \h9C]),
    T(Just66, [cbw |-> \h98, cwd |-> \h99, cmpsw |-> \hA7, scasw |-> \hAF, lodsw |-> \hAD, movsw |-> \hA5,
      outsw |-> \h6F, stosw |-> \hAB]),
    T(P0F, [cpuid |-> \hA2, sysenter |-> \h34, sysexit |-> \h35, emms |-> \h77, rdmsr |-> \h32, rdpmc |-> \h33,
      rdtsc |-> \h31, ud2 |-> \h0B, wbinvd |-> \h09, wrmsr |-> \h30]),
    T(F3, [pause |-> \h90]), T(P0F \cup {"VEX"}, [vzeroupper |-> \h77]),
    T(P0F \cup {"VEX", "L1"}, [vzeroall |-> \h77]), Ti({}, [enter |-> \hC8, int_ |-> \hCD])}) \cup
  Table("byte", {
    D(P0F, [serialize |-> <<\h01, \hE8>>, rdtscp |-> <<\h01, \hF9>>, sfence |-> <<\hAE, \hF8>>,
      lfence |-> <<\hAE, \hE8>>, mfence |-> <<\hAE, \hF0>>, monitor |-> <<\h01, \hC8>>, mwait |-> <<\h01, \hC9>>,
      xend |-> <<\h01, \hD5>>, stac |-> <<\h01, \hCB>>, xgetbv |-> <<\h01, \hD0>>, monitorx |-> <<\h01, \hFA>>,
      mwaitx |-> <<\h01, \hFB>>, clzero |-> <<\h01, \hFC>>]),
    D(F3_0F, [endbr32 |-> <<\h1E, \hFB>>, endbr64 |-> <<\h1E, \hFA>>]),
    D(F2_0F, [xresldtrk |-> <<\h01, \hE9>>, xsusldtrk |-> <<\h01, \hE8>>])}) \cup
  Table("seg", {T(P0F, [lss |-> \hB2, lfs |-> \hB4, lgs |-> \hB5])})
GenericFpu ==
  LET D9 == [f2xm1 |-> \hF0, fabs |-> \hE1, fchs |-> \hE0, fcos |-> \hFF, fdecstp |-> \hF6, fincstp |-> \hF7,
             fld1 |-> \hE8, fldl2t |-> \hE9, fldl2e |-> \hEA, fldpi |-> \hEB, fldlg2 |-> \hEC, fldln2 |-> \hED,
             fldz |-> \hEE, fnop |-> \hD0, fpatan |-> \hF3, fprem |-> \hF8, fprem1 |-> \hF5, fptan |-> \hF2,
             frndint |-> \hFC, fscale |-> \hFD, fsin |-> \hFE, fsincos |-> \hFB, fsqrt |-> \hFA, ftst |-> \hE4,
             fxam |-> \hE5, fxch |-> \hC9, fxtract |-> \hF4, fyl2x |-> \hF1, fyl2xp1 |-> \hF9]
  IN  Table("byte", {
        {Row(n, {}, \hD9, D9[n], FALSE) : n \in DOMAIN D9},
        D({}, [fcom |-> <<\hD8, \hD1>>, fcomp |-> <<\hD8, \hD9>>, fcompp |-> <<\hDE, \hD9>>, faddp |-> <<\hDE, \hC1>>,
          fdivp |-> <<\hDE, \hF9>>, fdivrp |-> <<\hDE, \hF1>>, fmulp |-> <<\hDE, \hC9>>, fsubp |-> <<\hDE, \hE9>>,
          fsubrp |-> <<\hDE, \hE1>>, fnclex |-> <<\hDB, \hE2>>, fninit |-> <<\hDB, \hE3>>, fucom |-> <<\hDD, \hE1>>,
          fucomp |-> <<\hDD, \hE9>>, fucompp |-> <<\hDA, \hE9>>]),
        D({"9B"}, [fclex |-> <<\hDB, \hE2>>, finit |-> <<\hDB, \hE3>>])})

-----------------------------------------------------------------------------
(* The general registers.                                                  *)

\* A direction or a size that is a bit of the opcode makes a row of its own.
Offset(k, type, codes) == {Row(n, type, codes[n] + k, 0, FALSE) : n \in DOMAIN codes}
Digits(code, type, digits, imm) == {Row(n, type, code, digits[n], imm) : n \in DOMAIN digits}

Arithmetic ==
  LET codes == [adc |-> \h10, add |-> \h00, and_ |-> \h20, cmp |-> \h38, or_ |-> \h08, sbb |-> \h18, sub |-> \h28,
                xor_ |-> \h30]
      exts == [adc |-> 2, add |-> 0, and_ |-> 4, cmp |-> 7, or_ |-> 1, sbb |-> 3, sub |-> 5, xor_ |-> 6]
      Types == [adc |-> {}, sbb |-> {}, add |-> {"NF", "CODE1"}, and_ |-> {"NF", "CODE1"}, or_ |-> {"NF", "CODE1"},
                sub |-> {"NF", "CODE1"}, xor_ |-> {"NF", "CODE1"}]
  IN  Table("g8", {Offset(0, {}, codes)}) \cup Table("gm8", {Offset(2, {}, codes)}) \cup
      Table("acc", Imm({Offset(4, {}, codes)})) \cup
      Table("digit8", {Digits(\h80, {}, exts, TRUE)}) \cup Table("digit16", {Digits(\h82, {}, exts, TRUE)}) \cup
      Table("nd8", {{Row(n, Types[n], codes[n], 0, FALSE) : n \in DOMAIN Types}}) \cup
      Table("ndm8", {{Row(n, Types[n], codes[n] + 2, 0, FALSE) : n \in DOMAIN Types}}) \cup
      Table("nddigit8", {{Row(n, Types[n], \h80, exts[n], TRUE) : n \in DOMAIN Types}}) \cup
      Table("nddigit16", {{Row(n, Types[n], \h82, exts[n], TRUE) : n \in DOMAIN Types}})
AtomicMemory ==
  LET prefixes == [aadd |-> {}, aand |-> Just66, aor |-> F2, axor |-> F3]
  IN  Table("gm32", {{Row(n, P0F38 \cup prefixes[n], \hFC, 0, FALSE) : n \in DOMAIN prefixes}}) \cup
      Table("apxM32", {{Row(n, {"APX"} \cup prefixes[n], \hFC, 0, FALSE) : n \in DOMAIN prefixes}})
IncDec ==
  LET exts == [dec |-> 1, inc |-> 0]
      type == {"APX", "NF", "ND1"}
  IN  Table("digit8", {Digits(\hFE, {}, exts, FALSE)}) \cup Table("nddigitB", {Digits(\hFE, type, exts, FALSE)}) \cup
      Table("nddigitW", {Digits(\hFF, type \cup Just66, exts, FALSE)}) \cup
      Table("nddigit32", {Digits(\hFF, type, exts, FALSE)})
BitTest ==
  Table("g16", {T(P0F, [bt |-> \hA3, bts |-> \hAB, btr |-> \hB3, btc |-> \hBB])}) \cup
  Table("digit16", {Digits(\hBA, P0F, [bt |-> 4, bts |-> 5, btr |-> 6, btc |-> 7], TRUE)})
MulDiv ==
  LET type == {"APX", "CODE1"}
      NF == {"NF"}
  IN  Table("digit8", {Digits(\hF6, type \cup NF, [div |-> 6, idiv |-> 7, imul |-> 5, mul |-> 4, neg |-> 3], FALSE),
                       Digits(\hF6, type, [not_ |-> 2], FALSE)}) \cup
      Table("nddigit8", {Digits(\hF6, type \cup {"ND1"} \cup NF, [neg |-> 3], FALSE),
                         Digits(\hF6, type \cup {"ND1"}, [not_ |-> 2], FALSE)}) \cup
      Table("g16", {T(P0F, [imul |-> \hAF])}) \cup Table("apx16", {T({"APX", "NF"}, [imul |-> \hAF])}) \cup
      Table("nd16", {T({"APX", "ND1", "NF"}, [imul |-> \hAF])})

\* By 1, by a number, by cl.
Shifts ==
  LET exts == [rol |-> 0, ror |-> 1, sar |-> 7, shl |-> 4, shr |-> 5, sal |-> 4]
      carry == [rcl |-> 2, rcr |-> 3]
      Forms(form, nd) ==
        LET type == {"APX", "CODE1"} \cup nd
        IN  Table(form, UNION {{Digits(code, type \cup {"NF"}, exts, code = \hC0), Digits(code, type, carry, code = \hC0)} :
                                 code \in {\hC0, \hD0, \hD2}})
  IN  Forms("digit8", {}) \cup Forms("nddigit8", {"ND1"})
DoubleShifts ==
  LET type == {"APX", "NF"}
      byCl == [shld |-> \hA5, shrd |-> \hAD]
      byImm == [shld |-> \h24, shrd |-> \h2C]
  IN  Table("g16", {T(P0F, byCl), Ti(P0F, [shld |-> \hA4, shrd |-> \hAC])}) \cup
      Table("apx16", {T(type, byCl), Ti(type, byImm)}) \cup
      Table("nd16", {T(type \cup {"ND1"}, byCl), Ti(type \cup {"ND1"}, byImm)})
BitScan == Table("g16", {T(P0F, [bsf |-> \hBC, bsr |-> \hBD])})
Counts ==
  Table("g16", {T(F3_0F, [popcnt |-> \hB8, tzcnt |-> \hBC, lzcnt |-> \hBD])}) \cup
  Table("apx16", {T({"APX", "NF"}, [tzcnt |-> \hF4, lzcnt |-> \hF5])})

-----------------------------------------------------------------------------
(* More SSE, and the instructions that came with it.                       *)
SupplementalSse ==
  Both64And128(T(P0F38, [pshufb |-> \h00, phaddw |-> \h01, phaddd |-> \h02, phaddsw |-> \h03, pmaddubsw |-> \h04,
    phsubw |-> \h05, phsubd |-> \h06, phsubsw |-> \h07, psignb |-> \h08, psignw |-> \h09, psignd |-> \h0A,
    pmulhrsw |-> \h0B, pabsb |-> \h1C, pabsw |-> \h1D, pabsd |-> \h1E]) \cup Ti(P0F3A, [palignr |-> \h0F]))
State ==
  LET fpu == [fbld |-> <<\hDF, 4>>, fbstp |-> <<\hDF, 6>>, fldcw |-> <<\hD9, 5>>, fldenv |-> <<\hD9, 4>>,
              frstor |-> <<\hDD, 4>>, fnsave |-> <<\hDD, 6>>, fnstcw |-> <<\hD9, 7>>, fnstenv |-> <<\hD9, 6>>,
              fnstsw |-> <<\hDD, 7>>]
      waiting == [fsave |-> <<\hDD, 6>>, fstcw |-> <<\hD9, 7>>, fstenv |-> <<\hD9, 6>>, fstsw |-> <<\hDD, 7>>]
  IN  Table("digit32", {
        D(P0F, [ldmxcsr |-> <<\hAE, 2>>, stmxcsr |-> <<\hAE, 3>>]),
        D(P0F \cup {"DIFF"}, [clflush |-> <<\hAE, 7>>, fxrstor |-> <<\hAE, 1>>]),
        D(P66_0F \cup {"DIFF"}, [clflushopt |-> <<\hAE, 7>>]), D({"DIFF"}, fpu), D({"DIFF", "9B"}, waiting)}) \cup
      Table("byte", {D({"9B"}, [fstsw |-> <<\hDF, \hE0>>]), D({}, [fnstsw |-> <<\hDF, \hE0>>])})

\* The register is passed as one of 16 bits, which puts 66.
NonTemporal == Table("wm", {T(P0F, [movntpd |-> \h2B, movntdq |-> \hE7])})
Extensions ==
  Table("movx8", {T(P0F \cup {"DIFF"}, [movsx |-> \hBE, movzx |-> \hB6])}) \cup
  Table("movx16", {T(P0F \cup {"DIFF"}, [movsx |-> \hBF, movzx |-> \hB7])})
CarryAdds ==
  Table("g32", {T(P66_0F38, [adcx |-> \hF6]), T(F3_0F38, [adox |-> \hF6])}) \cup
  Table("apx32", {T(Just66, [adcx |-> \h66]), T(F3, [adox |-> \h66])}) \cup
  Table("nd32", {T(Just66, [adcx |-> \h66]), T(F3, [adox |-> \h66])})
InOut ==
  LET byte == [in_ |-> \hE4, out_ |-> \hE6]
      dx == [in_ |-> \hEC, out_ |-> \hEE]
  IN  Table("op", Imm({T({}, byte), Offset(1, {}, byte), Offset(1, Just66, byte)})
                    \cup {T({}, dx), Offset(1, {}, dx), Offset(1, Just66, dx)})
Bounds ==
  Table("r32", {T(F3_0F, [bndcl |-> \h1A]), T(F2_0F, [bndcu |-> \h1A, bndcn |-> \h1B])}) \cup
  Table("dd", {T(P66_0F, [bndmov |-> \h1A])}) \cup
  Table("dm", {T(P0F, [bndldx |-> \h1A, bndstx |-> \h1B]), T(F3_0F, [bndmk |-> \h1B]), T(P66_0F, [bndmov |-> \h1B])})

\* The rows of misc, by the kind of their operands.
IntegerMisc ==
  Table("gm16", {T({"DIFF"}, [lea |-> \h8D]), T(P0F38, [movbe |-> \hF0]), T(P0F38, [movbe |-> \hF1])}) \cup
  Table("apxM16", {T({"APX"}, [movbe |-> \h60]), T({"APX"}, [movbe |-> \h61])}) \cup
  Table("op", {T({}, [ret |-> \hC3, retf |-> \hCB]), Ti({}, [ret |-> \hC2, retf |-> \hCA])}) \cup
  Table("gB", {T(P0F, [xadd |-> \hC0, cmpxchg |-> \hB0])}) \cup
  Table("g16", {T(P0F, [xadd |-> \hC1, cmpxchg |-> \hB1])}) \cup
  Table("gm32", {T(P0F38, [movdiri |-> \hF9]), T(P0F, [movnti |-> \hC3])}) \cup
  Table("apxM32", {T({"APX"}, [movdiri |-> \hF9])}) \cup
  Table("rm", {T(P66_0F38 \cup {"DIFF"}, [movdir64b |-> \hF8])}) \cup
  Table("apxRm", {T(Just66 \cup {"APX"}, [movdir64b |-> \hF8])}) \cup
  Table("digit32", {D(P0F \cup {"DIFF"}, [cmpxchg8b |-> <<\hC7, 1>>, cldemote |-> <<\h1C, 0>>]),
                   D(P66_0F \cup {"DIFF"}, [clwb |-> <<\hAE, 6>>])}) \cup
  Table("digitG16", {D(P0F, [rdrand |-> <<\hC7, 6>>, rdseed |-> <<\hC7, 7>>])}) \cup
  Table("digitR", {D(P66_0F, [tpause |-> <<\hAE, 6>>]), D(F3_0F, [umonitor |-> <<\hAE, 6>>]),
                   D(F2_0F, [umwait |-> <<\hAE, 6>>])}) \cup
  Table("byte", {Di({}, [xabort |-> <<\hC6, \hF8>>, xbegin |-> <<\hC7, \hF8>>])})
Crc32 ==
  LET legacy == F2_0F38 \cup {"DIFF"}
      apx == {"APX", "DIFF"}
  IN  Table("crc8", {T(legacy, [crc32 |-> \hF0])}) \cup Table("apxCrc8", {T(apx, [crc32 |-> \hF0])}) \cup
      Table("crc16", {T(legacy \cup Just66, [crc32 |-> \hF1])}) \cup
      Table("apxCrc16", {T(apx \cup Just66, [crc32 |-> \hF1])}) \cup
      Table("g32", {T(legacy, [crc32 |-> \hF1])}) \cup Table("apx32", {T(apx, [crc32 |-> \hF1])})
SseElements ==
  Table("gn", {Ti(P0F, [pextrw |-> \hC5]), T(P0F, [pmovmskb |-> \hD7])}) \cup
  Table("gS", {Ti(P66_0F, [pextrw |-> \hC5]), T(P66_0F, [pmovmskb |-> \hD7, movmskpd |-> \h50]),
               T(P0F, [movmskps |-> \h50])}) \cup
  Table("sm", {Ti(P66_0F3A, [pextrw |-> \h15]), T(P0F, [movntps |-> \h2B]), T(P66_0F38, [movntdqa |-> \h2A]),
               T(F2_0F, [lddqu |-> \hF0]), T(P66_0F, [movq |-> \hD6])}) \cup
  Table("sg", {Ti(P66_0F3A, [pextrb |-> \h14, pextrd |-> \h16, extractps |-> \h17, pinsrb |-> \h20, pinsrd |-> \h22])})
    \cup
  Table("ng32", {Ti(P0F, [pinsrw |-> \hC4]), T(P0F \cup {"DIFF"}, [movd |-> \h7E]), T(P0F \cup {"DIFF"}, [movd |-> \h6E])})
    \cup
  Table("sg32", {Ti(P66_0F, [pinsrw |-> \hC4]), T(P66_0F \cup {"DIFF"}, [movd |-> \h7E]),
                 T(P66_0F \cup {"DIFF"}, [movd |-> \h6E])}) \cup
  Table("ss", {Ti(P66_0F3A, [insertps |-> \h21]), T(F3_0F \cup {"DIFF"}, [movq |-> \h7E])}) \cup
  Table("nn", {T(P0F \cup {"DIFF"}, [movq |-> \h6F])}) \cup
  Table("nm", {T(P0F, [movntq |-> \hE7]), T(P0F \cup {"DIFF"}, [movq |-> \h7F])}) \cup
  Table("nN", {T(P0F, [maskmovq |-> \hF7])}) \cup
  Table("sN", {T(F3_0F, [movq2dq |-> \hD6])}) \cup Table("nS", {T(F2_0F, [movdq2q |-> \hD6])})

-----------------------------------------------------------------------------
(* x87. A row of an operand in memory has the opcode of one size; a row of  *)
(* two registers, one of which is st0, that of one direction.              *)
FpuMemory ==
  LET float == [fadd |-> 0, fcom |-> 2, fcomp |-> 3, fdiv |-> 6, fdivr |-> 7, fmul |-> 1, fsub |-> 4, fsubr |-> 5]
      store == [fld |-> 0, fst |-> 2, fstp |-> 3]
      int == [fiadd |-> 0, ficom |-> 2, ficomp |-> 3, fidiv |-> 6, fidivr |-> 7, fimul |-> 1, fisub |-> 4, fisubr |-> 5]
      convert == [fild |-> 0, fist |-> 2, fistp |-> 3, fisttp |-> 1]
  IN  Table("fpu16", {Digits(\hDE, {}, int, FALSE), Digits(\hDF, {}, convert, FALSE)}) \cup
      Table("fpu32", {Digits(\hD8, {}, float, FALSE), Digits(\hDA, {}, int, FALSE), Digits(\hDB, {}, convert, FALSE),
                      Digits(\hD9, {}, store, FALSE)}) \cup
      Table("fpu64", {Digits(\hDC, {}, float, FALSE), Digits(\hDD, {}, store, FALSE),
                      D({}, [fild |-> <<\hDF, 5>>, fistp |-> <<\hDF, 7>>, fisttp |-> <<\hDD, 1>>])})

\* code1 for st0 as the first register, code2 for st0 as the second. A code2 of
\* 00C0 is one too: its opcode is 0.
FpuFpu ==
  LET ops == [fadd |-> 0, fmul |-> 1, fsub |-> 4, fsubr |-> 5, fdiv |-> 6, fdivr |-> 7]
      to == [fadd |-> 0, fmul |-> 1, fsub |-> 5, fsubr |-> 4, fdiv |-> 7, fdivr |-> 6]
      pop == [faddp |-> 0, fmulp |-> 1, fsubp |-> 5, fsubrp |-> 4, fdivp |-> 7, fdivrp |-> 6]
      on == [fcmovb |-> <<\hDA, 0>>, fcmove |-> <<\hDA, 1>>, fcmovbe |-> <<\hDA, 2>>, fcmovu |-> <<\hDA, 3>>,
             fcmovnb |-> <<\hDB, 0>>, fcmovne |-> <<\hDB, 1>>, fcmovnbe |-> <<\hDB, 2>>, fcmovnu |-> <<\hDB, 3>>,
             fcomi |-> <<\hDB, 6>>, fcomip |-> <<\hDF, 6>>, fucomi |-> <<\hDB, 5>>, fucomip |-> <<\hDF, 5>>]
  IN  Table("st", {Digits(\hD8, {}, ops, FALSE), Digits(\hDC, {}, to, FALSE), Digits(\hDE, {}, pop, FALSE), D({}, on),
                   {Row(n, {}, 0, on[n][2], FALSE) : n \in DOMAIN on}})
FpuOne ==
  Table("st", {D({}, [fcom |-> <<\hD8, 2>>, fcomp |-> <<\hD8, 3>>, ffree |-> <<\hDD, 0>>, fld |-> <<\hD9, 0>>,
    fst |-> <<\hDD, 2>>, fstp |-> <<\hDD, 3>>, fucom |-> <<\hDD, 4>>, fucomp |-> <<\hDD, 5>>, fxch |-> <<\hD9, 1>>])})

-----------------------------------------------------------------------------
(* The rows of tables for both SSE and AVX that are for SSE.               *)
SseX_XM ==
  Table("ss", {
    Ti(P66_0F3A, [blendpd |-> \h0D, blendps |-> \h0C, dppd |-> \h41, dpps |-> \h40, mpsadbw |-> \h42, pblendw |-> \h0E,
      roundsd |-> \h0B, roundss |-> \h0A, pclmulqdq |-> \h44, gf2p8affineinvqb |-> \hCF, gf2p8affineqb |-> \hCE]),
    T(P66_0F38, [packusdw |-> \h2B, pcmpeqq |-> \h29, pcmpgtq |-> \h37, pmaxsb |-> \h3C, pmaxsd |-> \h3D,
      pmaxuw |-> \h3E, pmaxud |-> \h3F, pminsb |-> \h38, pminsd |-> \h39, pminuw |-> \h3A, pminud |-> \h3B,
      pmulld |-> \h40, pmuldq |-> \h28, gf2p8mulb |-> \hCF])})
SseXM ==
  Table("ss", {
    T(P66_0F38, [blendvpd |-> \h15, blendvps |-> \h14, pblendvb |-> \h10, aesimc |-> \hDB, phminposuw |-> \h41,
      pmovsxbw |-> \h20, pmovsxbd |-> \h21, pmovsxbq |-> \h22, pmovsxwd |-> \h23, pmovsxwq |-> \h24, pmovsxdq |-> \h25,
      pmovzxbw |-> \h30, pmovzxbd |-> \h31, pmovzxbq |-> \h32, pmovzxwd |-> \h33, pmovzxwq |-> \h34, pmovzxdq |-> \h35,
      ptest |-> \h17]),
    Ti(P66_0F3A, [aeskeygenassist |-> \hDF, roundpd |-> \h09, roundps |-> \h08, pcmpestri |-> \h61, pcmpestrm |-> \h60,
      pcmpistri |-> \h63, pcmpistrm |-> \h62]),
    T(F2_0F, [movddup |-> \h12]), T(F3_0F, [movshdup |-> \h16, movsldup |-> \h12])})
Sha ==
  Table("ss", {T(P0F38, [sha1nexte |-> \hC8, sha1msg1 |-> \hC9, sha1msg2 |-> \hCA, sha256rnds2 |-> \hCB,
                         sha256msg1 |-> \hCC, sha256msg2 |-> \hCD]), Ti(P0F3A, [sha1rnds4 |-> \hCC])}) \cup
  Table("apxSm", {T({"MUST_EVEX"}, [sha1nexte |-> \hD8, sha1msg1 |-> \hD9, sha1msg2 |-> \hDA, sha256rnds2 |-> \hDB,
                                    sha256msg1 |-> \hDC, sha256msg2 |-> \hDD]), Ti({"MUST_EVEX"}, [sha1rnds4 |-> \hD4])})
SseAddSub ==
  Table("ss", {T(P66_0F, [addsubpd |-> \hD0, haddpd |-> \h7C, hsubpd |-> \h7D]),
               T(F2_0F, [addsubps |-> \hD0, haddps |-> \h7C, hsubps |-> \h7D]),
               T(P66_0F38, [aesenc |-> \hDC, aesenclast |-> \hDD, aesdec |-> \hDE, aesdeclast |-> \hDF])})

-----------------------------------------------------------------------------
(* put64: what only 64-bit code has.                                       *)
Generic64 ==
  Table("op", {
    T({"W1"}, [cdqe |-> \h98, cqo |-> \h99, cmpsq |-> \hA7, lodsq |-> \hAD, movsq |-> \hA5, scasq |-> \hAF,
      stosq |-> \hAB]),
    T({}, [popfq |-> \h9D, pushfq |-> \h9C, jrcxz |-> \hE3]), T({"67"}, [jecxz |-> \hE3]),
    T(P0F, [syscall |-> \h05, sysret |-> \h07]), Ti({"REX2"}, [jmpabs |-> \hA1])} \cup
    {{Row("pushp", {"REX2", "W1"}, \h50 + k, 0, FALSE), Row("popp", {"REX2", "W1"}, \h58 + k, 0, FALSE)} : k \in 0..7}) \cup
  Table("byte", {D(F3_0F, [clui |-> <<\h01, \hEE>>, stui |-> <<\h01, \hEF>>, testui |-> <<\h01, \hED>>,
                           uiret |-> <<\h01, \hEC>>])})
Integers64 ==
  Table("digitM64", {D(P0F \cup {"DIFF"}, [cmpxchg16b |-> <<\hC7, 1>>, fxrstor64 |-> <<\hAE, 1>>])}) \cup
  Table("nq", {T(P0F, [movq |-> \h7E]), T(P0F, [movq |-> \h6E])}) \cup
  Table("sq", {T(P66_0F, [movq |-> \h7E]), T(P66_0F, [movq |-> \h6E])}) \cup
  Table("gmB", {T(P0F38, [movrs |-> \h8A])}) \cup Table("gm16", {T(P0F38, [movrs |-> \h8B])}) \cup
  Table("movsxd", {T({"DIFF"}, [movsxd |-> \h63])}) \cup
  Table("cq", {Ti(P66_0F3A, [pextrq |-> \h16, pinsrq |-> \h22])}) \cup
  Table("digitR", {D(F3_0F, [senduipi |-> <<\hC7, 6>>])}) \cup
  Table("ndq", {D({"APX", "ND1", "W0"}, [push2 |-> <<\hFF, 6>>, pop2 |-> <<\h8F, 0>>]),
                D({"APX", "ND1", "W1"}, [push2p |-> <<\hFF, 6>>, pop2p |-> <<\h8F, 0>>])}) \cup
  Table("digitG32", {D(F3_0F \cup {"DIFF"}, [rdfsbase |-> <<\hAE, 0>>, rdgsbase |-> <<\hAE, 1>>,
                                           wrfsbase |-> <<\hAE, 2>>, wrgsbase |-> <<\hAE, 3>>])})

\* The opcode is the same in both encodings.
KeyLocker ==
  LET one == [aesdec128kl |-> \hDD, aesdec256kl |-> \hDF, aesenc128kl |-> \hDC, aesenc256kl |-> \hDE]
      wide == [aesdecwide128kl |-> <<\hD8, 1>>, aesdecwide256kl |-> <<\hD8, 3>>, aesencwide128kl |-> <<\hD8, 0>>,
               aesencwide256kl |-> <<\hD8, 2>>]
      apx == F3 \cup {"MUST_EVEX"}
  IN  Table("sm", {T(F3_0F38, one)}) \cup Table("apxSm", {T(apx, one)}) \cup
      Table("digitS_M", {D(F3_0F38, wide)}) \cup Table("apxDigitM", {D(apx, wide)}) \cup
      Table("rr", {T(F3_0F38, [encodekey128 |-> \hFA, encodekey256 |-> \hFB])}) \cup
      Table("apxRr", {T(apx, [encodekey128 |-> \hDA, encodekey256 |-> \hDB])})

-----------------------------------------------------------------------------
(* xbyak.h: test, jmp, call, imul, push, pop, mov, xchg, bswap and nop. A   *)
(* register in the opcode makes a row for each.                            *)
InOpcode(name, type, code, imm, registers) == {Row(name, type, code + k, 0, imm) : k \in registers}
HandWritten ==
  Table("g8", {T({}, [test |-> \h84, mov |-> \h88, xchg |-> \h86])}) \cup Table("gm8", {T({}, [mov |-> \h8A])}) \cup
  Table("acc", {Ti({}, [test |-> \hA8]), T({}, [mov |-> \hA0]), T({}, [mov |-> \hA2])}) \cup
  Table("digit8", {Di({}, [test |-> <<\hF6, 0>>])}) \cup
  Table("digitM8", {Di({}, [mov |-> <<\hC6, 0>>])}) \cup Table("digitQ", {Di({}, [mov |-> <<\hC7, 0>>])}) \cup
  Table("g16", {Ti({}, [imul |-> \h69]), Ti({}, [imul |-> \h6B])}) \cup
  Table("apx16", {Ti({"APX", "NF", "ZU"}, [imul |-> \h69]), Ti({"APX", "NF", "ZU"}, [imul |-> \h6B])}) \cup
  Table("near", {D({}, [jmp |-> <<\hFF, 4>>, call |-> <<\hFF, 2>>])}) \cup
  Table("far", {D({}, [jmp |-> <<\hFF, 5>>, call |-> <<\hFF, 3>>])}) \cup
  Table("stack", {D({"DIFF"}, [push |-> <<\hFF, 6>>, pop |-> <<\h8F, 0>>])}) \cup
  Table("stack16", {D({"DIFF", "66"}, [push |-> <<\hFF, 6>>, pop |-> <<\h8F, 0>>])}) \cup
  Table("segR", {T({"DIFF", "ABCDH"}, [mov |-> \h8C])}) \cup Table("segR32", {T({"DIFF", "ABCDH"}, [mov |-> \h8E])}) \cup
  Table("op", {
    T({}, [jmp |-> \hEB, call |-> \hE8, nop |-> \h90]), T({}, [jmp |-> \hE9]),
    Ti({}, [push |-> \h6A]), Ti({}, [push |-> \h68]), Ti(Just66, [push |-> \h68])} \cup
    {InOpcode("bswap", P0F \cup W, \hC8, FALSE, 0..7) : W \in {{}, {"W1"}}} \cup
    {T({}, [push |-> \h06, pop |-> \h07]), T({}, [push |-> \h0E]), T({}, [push |-> \h16, pop |-> \h17]),
     T({}, [push |-> \h1E, pop |-> \h1F]), T(P0F, [push |-> \hA0, pop |-> \hA1]),
     T(P0F, [push |-> \hA8, pop |-> \hA9])} \cup
    {InOpcode("push", type, \h50, FALSE, 0..7) : type \in {{}, Just66}} \cup
    {InOpcode("pop", type, \h58, FALSE, 0..7) : type \in {{}, Just66}} \cup
    {InOpcode("mov", {}, \hB0, TRUE, 0..7)} \cup
    {InOpcode("mov", type, \hB8, TRUE, 0..7) : type \in {{}, Just66, {"W1"}}} \cup
    {InOpcode("xchg", type, \h90, FALSE, 1..7) : type \in {{}, Just66, {"W1"}}})
=============================================================================
