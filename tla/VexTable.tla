----------------------------- MODULE VexTable -------------------------------
(* The AVX instructions that gen_code.cpp generates: one definition for each *)
(* of its tables, in its order. See MnemonicTable for the notation.         *)
EXTENDS MnemonicTable

X_X_XM ==
  Table("xxe", {
    Ti(P66_0F3A \cup {"W0", "YMM"}, [vblendpd |-> \h0D, vblendps |-> \h0C, vdpps |-> \h40, vpblendw |-> \h0E,
      vpblendd |-> \h02]), Ti(P66_0F3A \cup {"W0"}, [vdppd |-> \h41, vroundsd |-> \h0B, vroundss |-> \h0A]),
    Ti(P66_0F3A \cup Both \cup {"W0"}, [vpclmulqdq |-> \h44]),
    T(P66_0F38 \cup BothD, [vpermilps |-> \h0C, vpsllvd |-> \h47, vpsravd |-> \h46, vpsrlvd |-> \h45,
      vpackusdw |-> \h2B, vpmaxsd |-> \h3D, vpmaxud |-> \h3F, vpminsd |-> \h39, vpminud |-> \h3B,
      vpmulld |-> \h40]), T(P66_0F38 \cup BothQ \cup {"W0"}, [vpermilpd |-> \h0D]),
    T(P66_0F38 \cup BothQ \cup {"W1"}, [vpsllvq |-> \h47, vpsrlvq |-> \h45]),
    Ti(P66_0F \cup {"YMM"}, [vcmppd |-> \hC2]), Ti(P0F \cup {"YMM"}, [vcmpps |-> \hC2]),
    Ti(F2_0F, [vcmpsd |-> \hC2]), Ti(F3_0F, [vcmpss |-> \hC2]),
    T(F2_0F \cup BothSD \cup {"ER_X"}, [vcvtsd2ss |-> \h5A, vsqrtsd |-> \h51]),
    T(F3_0F \cup BothSS \cup {"SAE_X"}, [vcvtss2sd |-> \h5A]), Ti(P66_0F3A \cup BothSS, [vinsertps |-> \h21]),
    T(P66_0F \cup Both, [vpacksswb |-> \h63, vpackuswb |-> \h67, vpaddb |-> \hFC, vpaddw |-> \hFD, vpaddsb |-> \hEC,
      vpaddsw |-> \hED, vpaddusb |-> \hDC, vpaddusw |-> \hDD, vpavgb |-> \hE0, vpavgw |-> \hE3, vpmaddwd |-> \hF5,
      vpmaxsw |-> \hEE, vpmaxub |-> \hDE, vpminsw |-> \hEA, vpminub |-> \hDA, vpmulhuw |-> \hE4, vpmulhw |-> \hE5,
      vpmullw |-> \hD5, vpsadbw |-> \hF6, vpsubb |-> \hF8, vpsubw |-> \hF9, vpsubsb |-> \hE8, vpsubsw |-> \hE9,
      vpsubusb |-> \hD8, vpsubusw |-> \hD9, vpunpckhbw |-> \h68, vpunpckhwd |-> \h69, vpunpcklbw |-> \h60,
      vpunpcklwd |-> \h61]),
    T(P66_0F \cup BothD, [vpackssdw |-> \h6B, vpaddd |-> \hFE, vpsubd |-> \hFA, vpunpckhdq |-> \h6A,
      vpunpckldq |-> \h62]),
    T(P66_0F \cup BothQ, [vpaddq |-> \hD4, vpmuludq |-> \hF4, vpsubq |-> \hFB, vpunpckhqdq |-> \h6D,
      vpunpcklqdq |-> \h6C, vunpckhpd |-> \h15, vunpcklpd |-> \h14]), Ti(P66_0F3A \cup Both, [vpalignr |-> \h0F]),
    T(P66_0F \cup {"YMM"}, [vpand |-> \hDB, vpandn |-> \hDF, vpcmpeqb |-> \h74, vpcmpeqw |-> \h75,
      vpcmpeqd |-> \h76, vpcmpgtb |-> \h64, vpcmpgtw |-> \h65, vpcmpgtd |-> \h66, vpor |-> \hEB, vpxor |-> \hEF]),
    T(P66_0F38 \cup {"YMM"}, [vpcmpeqq |-> \h29, vpcmpgtq |-> \h37, vphaddw |-> \h01, vphaddd |-> \h02,
      vphaddsw |-> \h03, vphsubw |-> \h05, vphsubd |-> \h06, vphsubsw |-> \h07, vpsignb |-> \h08, vpsignw |-> \h09,
      vpsignd |-> \h0A]),
    T(P66_0F38 \cup Both, [vpmaddubsw |-> \h04, vpmaxsb |-> \h3C, vpmaxuw |-> \h3E, vpminsb |-> \h38,
      vpminuw |-> \h3A, vpmulhrsw |-> \h0B, vpshufb |-> \h00]), T(P66_0F38 \cup BothQ, [vpmuldq |-> \h28]),
    T(P66_0F \cup Both \cup {"N16"}, [vpsllw |-> \hF1, vpsraw |-> \hE1, vpsrlw |-> \hD1]),
    T(P66_0F \cup Both \cup {"N16", "W0"}, [vpslld |-> \hF2, vpsrad |-> \hE2, vpsrld |-> \hD2]),
    T(P66_0F \cup Both \cup {"EW1", "N16"}, [vpsllq |-> \hF3, vpsrlq |-> \hD3]),
    T(F3_0F, [vrcpss |-> \h53, vrsqrtss |-> \h52]), Ti(P66_0F \cup BothQ, [vshufpd |-> \hC6]),
    Ti(P0F \cup BothD, [vshufps |-> \hC6]), T(F3_0F \cup BothSS \cup {"ER_X"}, [vsqrtss |-> \h51]),
    T(P0F \cup BothD, [vunpckhps |-> \h15, vunpcklps |-> \h14]),
    Ti(P66_0F3A \cup BothQ \cup {"SAE_Z", "W1"}, [vgf2p8affineinvqb |-> \hCF, vgf2p8affineqb |-> \hCE]),
    T(P66_0F38 \cup Both \cup {"SAE_Z", "W0"}, [vgf2p8mulb |-> \hCF]),
    T(P0F38 \cup {"EVEX", "W0"}, [vsm3msg1 |-> \hDA]), T(P66_0F38 \cup {"EVEX", "W0"}, [vsm3msg2 |-> \hDA]),
    Ti(P66_0F3A \cup {"EVEX", "W0"}, [vsm3rnds2 |-> \hDE]), T(F3_0F38 \cup {"EVEX", "W0"}, [vsm4key4 |-> \hDA]),
    T(F2_0F38 \cup {"EVEX", "W0"}, [vsm4rnds4 |-> \hDA])})

Sha512 ==
  Table("yFromX", {T(F2_0F38 \cup {"W0", "YMM"}, [vsha512msg1 |-> \hCC])}) \cup
  Table("yFromY", {T(F2_0F38 \cup {"W0", "YMM"}, [vsha512msg2 |-> \hCD])}) \cup
  Table("yyFromX", {T(F2_0F38 \cup {"W0", "YMM"}, [vsha512rnds2 |-> \hCB])})

Arith ==
  LET er == [add |-> \h58, sub |-> \h5C, mul |-> \h59, div |-> \h5E]
      sae == [max |-> \h5F, min |-> \h5D]
      only == [and |-> \h54, andn |-> \h55, or |-> \h56, xor |-> \h57]
      Vector(ops, rnd) ==
        Named("v", ops, "pd", P66_0F \cup BothQ \cup rnd) \cup Named("v", ops, "ps", P0F \cup BothD \cup rnd)
      Scalar(ops, rnd) ==
        Named("v", ops, "sd", F2_0F \cup BothSD \cup rnd) \cup Named("v", ops, "ss", F3_0F \cup BothSS \cup rnd)
  IN  Table("xxe", {Vector(er, {"ER_Z"}), Vector(sae, {"SAE_Z"}), Vector(only, {}),
                    Scalar(er, {"ER_X"}), Scalar(sae, {"SAE_X"})})

X_XM ==
  Table("xe", {
    Ti(P66_0F3A, [vaeskeygenassist |-> \hDF, vpcmpestri |-> \h61, vpcmpestrm |-> \h60, vpcmpistri |-> \h63,
      vpcmpistrm |-> \h62]), T(P66_0F38 \cup {"W0"}, [vaesimc |-> \hDB]),
    Ti(P66_0F3A \cup {"YMM"}, [vroundpd |-> \h09, vroundps |-> \h08]),
    Ti(P66_0F3A \cup BothQ, [vpermilpd |-> \h05]), Ti(P66_0F3A \cup BothD, [vpermilps |-> \h04]),
    T(P66_0F38 \cup {"YMM"}, [vtestps |-> \h0E, vtestpd |-> \h0F, vptest |-> \h17]),
    T(P66_0F \cup BothSD \cup {"SAE_X"}, [vcomisd |-> \h2F, vucomisd |-> \h2E]),
    T(P0F \cup BothSS \cup {"SAE_X"}, [vcomiss |-> \h2F, vucomiss |-> \h2E]),
    T(P0F \cup BothD \cup {"ER_Z"}, [vcvtdq2ps |-> \h5B, vsqrtps |-> \h51]),
    T(P66_0F \cup BothD \cup {"ER_Z"}, [vcvtps2dq |-> \h5B]),
    T(F3_0F \cup BothD \cup {"SAE_Z"}, [vcvttps2dq |-> \h5B]),
    T(P66_0F \cup Both \cup {"EW1"}, [vmovapd |-> \h28, vmovupd |-> \h10]),
    T(P0F \cup Both \cup {"W0"}, [vmovaps |-> \h28, vmovups |-> \h10]),
    T(F2_0F \cup Both \cup {"DUP", "EW1"}, [vmovddup |-> \h12]), T(P66_0F \cup {"YMM"}, [vmovdqa |-> \h6F]),
    T(F3_0F \cup {"YMM"}, [vmovdqu |-> \h6F]),
    T(F3_0F \cup Both \cup {"W0"}, [vmovshdup |-> \h16, vmovsldup |-> \h12]),
    T(P66_0F38 \cup Both, [vpabsb |-> \h1C, vpabsw |-> \h1D]), T(P66_0F38 \cup BothD, [vpabsd |-> \h1E]),
    T(P66_0F38, [vphminposuw |-> \h41]),
    T(P66_0F38 \cup Both \cup {"N8", "N_VL"}, [vpmovsxbw |-> \h20, vpmovsxwd |-> \h23, vpmovzxbw |-> \h30,
      vpmovzxwd |-> \h33]),
    T(P66_0F38 \cup Both \cup {"N4", "N_VL"}, [vpmovsxbd |-> \h21, vpmovsxwq |-> \h24, vpmovzxbd |-> \h31,
      vpmovzxwq |-> \h34]), T(P66_0F38 \cup Both \cup {"N2", "N_VL"}, [vpmovsxbq |-> \h22, vpmovzxbq |-> \h32]),
    T(P66_0F38 \cup Both \cup {"N8", "N_VL", "W0"}, [vpmovsxdq |-> \h25, vpmovzxdq |-> \h35]),
    Ti(P66_0F \cup BothD, [vpshufd |-> \h70]), Ti(F3_0F \cup Both, [vpshufhw |-> \h70]),
    Ti(F2_0F \cup Both, [vpshuflw |-> \h70]), T(P0F \cup {"YMM"}, [vrcpps |-> \h53, vrsqrtps |-> \h52]),
    T(P66_0F \cup BothQ \cup {"ER_Z"}, [vsqrtpd |-> \h51])})

M_X ==
  Table("xm", {
    T(P66_0F \cup Both \cup {"EW1", "M_K"}, [vmovapd |-> \h29, vmovupd |-> \h11]),
    T(P0F \cup Both \cup {"M_K", "W0"}, [vmovaps |-> \h29, vmovups |-> \h11]),
    T(P66_0F \cup {"YMM"}, [vmovdqa |-> \h7F]), T(F3_0F \cup {"YMM"}, [vmovdqu |-> \h7F])})

AddSub ==
  Table("xxe", {
    T(P66_0F \cup {"YMM"}, [vaddsubpd |-> \hD0, vhaddpd |-> \h7C, vhsubpd |-> \h7D]),
    T(F2_0F \cup {"YMM"}, [vaddsubps |-> \hD0, vhaddps |-> \h7C, vhsubps |-> \h7D]),
    T(P66_0F38 \cup Both, [vaesenc |-> \hDC, vaesenclast |-> \hDD, vaesdec |-> \hDE, vaesdeclast |-> \hDF])})

MaskMov ==
  Table("xxm", {
    T(P66_0F38 \cup {"W0", "YMM"}, [vmaskmovps |-> \h2C, vmaskmovpd |-> \h2D, vpmaskmovd |-> \h8C]),
    T(P66_0F38 \cup {"W1", "YMM"}, [vpmaskmovq |-> \h8C]),
    T(P66_0F38 \cup {"W0", "YMM"}, [vmaskmovps |-> \h2E, vmaskmovpd |-> \h2F, vpmaskmovd |-> \h8E]),
    T(P66_0F38 \cup {"W1", "YMM"}, [vpmaskmovq |-> \h8E])})

Perm ==
  Table("yye", {
    T(P66_0F38 \cup BothD, [vpermd |-> \h36, vpermps |-> \h16]), T(P66_0F38 \cup BothQ, [vpermq |-> \h36]),
    T(P66_0F38 \cup EvexQ, [vpermpd |-> \h16])}) \cup
  Table("ye", {
    Ti(P66_0F3A \cup BothQ \cup {"W1"}, [vpermq |-> \h00, vpermpd |-> \h01])})

MovHL ==
  Table("movHL", {
    T(P66_0F \cup BothSD, [vmovhpd |-> \h16, vmovlpd |-> \h12]),
    T(P0F \cup {"EVEX", "N8", "W0"}, [vmovhps |-> \h16, vmovlps |-> \h12])}) \cup
  Table("xm", {
    T(P66_0F \cup BothSD, [vmovhpd |-> \h17, vmovlpd |-> \h13]),
    T(P0F \cup {"EVEX", "N8", "W0"}, [vmovhps |-> \h17, vmovlps |-> \h13])})

Fma ==
  LET packed == [vfmadd |-> \h08, vfmaddsub |-> \h06, vfmsubadd |-> \h07, vfmsub |-> \h0A,
                 vfnmadd |-> \h0C, vfnmsub |-> \h0E]
      scalar == [vfmadd |-> \h09, vfmsub |-> \h0B, vfnmadd |-> \h0D, vfnmsub |-> \h0F]
  IN  Table("xxe",
        {Orders(packed, "pd", P66_0F38 \cup BothQ \cup {"W1", "ER_Z"}),
         Orders(packed, "ps", P66_0F38 \cup BothD \cup {"ER_Z"}),
         Orders(scalar, "sd", P66_0F38 \cup BothSD \cup {"W1", "ER_X"}),
         Orders(scalar, "ss", P66_0F38 \cup BothSS \cup {"ER_X"})})

\* Bug: the flags of a scalar of 32 bits.
BroadcastsOfSingle ==
  Table("ym", {
    T(P66_0F38 \cup {"W0", "YMM"}, [vbroadcastf128 |-> \h1A, vbroadcasti128 |-> \h5A])}) \cup
  Table("yx", {
    T(P66_0F38 \cup BothSS \cup {"W0", "YMM"}, [vbroadcastsd |-> \h19])})
Broadcasts ==
  Table("ym", {
    T(P66_0F38 \cup {"W0", "YMM"}, [vbroadcastf128 |-> \h1A, vbroadcasti128 |-> \h5A])}) \cup
  Table("yx", {
    T(P66_0F38 \cup BothSD \cup {"W0", "YMM"}, [vbroadcastsd |-> \h19])})

Extract ==
  Table("bx", {
    T(P66_0F38 \cup BothSS \cup {"YMM"}, [vbroadcastss |-> \h18, vpbroadcastd |-> \h58]),
    T(P66_0F38 \cup Both \cup {"N1", "W0"}, [vpbroadcastb |-> \h78]),
    T(P66_0F38 \cup Both \cup {"N2", "W0"}, [vpbroadcastw |-> \h79]),
    T(P66_0F38 \cup BothSD \cup {"W0", "YMM"}, [vpbroadcastq |-> \h59])}) \cup
  Table("yToX", {
    Ti(P66_0F3A \cup {"W0", "YMM"}, [vextractf128 |-> \h19, vextracti128 |-> \h39])}) \cup
  Table("xToR", {
    Ti(P66_0F3A \cup BothSS, [vextractps |-> \h17, vpextrd |-> \h16]),
    Ti(P66_0F3A \cup {"EVEX", "N1"}, [vpextrb |-> \h14]), Ti(P66_0F3A \cup {"EVEX", "N2"}, [vpextrw |-> \h15])}) \cup
  Table("xToQ", {
    Ti(P66_0F3A \cup BothSD \cup {"W1"}, [vpextrq |-> \h16])}) \cup
  Table("pextrw", {
    Ti(P66_0F, [vpextrw |-> \hC5])}) \cup
  Table("yyx", {
    Ti(P66_0F3A \cup {"W0", "YMM"}, [vinsertf128 |-> \h18, vinserti128 |-> \h38])}) \cup
  Table("yye", {
    Ti(P66_0F3A \cup {"W0", "YMM"}, [vperm2f128 |-> \h06, vperm2i128 |-> \h46])}) \cup
  Table("xm", {
    T(F2_0F \cup {"W0", "YMM"}, [vlddqu |-> \hF0])}) \cup
  Table("digitM", {
    D(P0F, [vldmxcsr |-> <<\hAE, 2>>, vstmxcsr |-> <<\hAE, 3>>])}) \cup
  Table("xx", {
    T(P66_0F, [vmaskmovdqu |-> \hF7])}) \cup
  Table("xxr", {
    Ti(P66_0F3A \cup {"EVEX", "N1"}, [vpinsrb |-> \h20]), Ti(P66_0F \cup {"EVEX", "N2"}, [vpinsrw |-> \hC4]),
    Ti(P66_0F3A \cup BothSS, [vpinsrd |-> \h22])}) \cup
  Table("xxq", {
    Ti(P66_0F3A \cup BothSD \cup {"W1"}, [vpinsrq |-> \h22])}) \cup
  Table("rx", {
    T(P66_0F \cup {"YMM"}, [vpmovmskb |-> \hD7])})

ShiftImm ==
  Table("digitE", {
    Di(P66_0F \cup Both \cup {"MEM_EVEX"}, [vpslldq |-> <<\h73, 7>>, vpsrldq |-> <<\h73, 3>>,
      vpsllw |-> <<\h71, 6>>, vpsraw |-> <<\h71, 4>>, vpsrlw |-> <<\h71, 2>>]),
    Di(P66_0F \cup BothD \cup {"MEM_EVEX"}, [vpslld |-> <<\h72, 6>>, vpsrad |-> <<\h72, 4>>,
      vpsrld |-> <<\h72, 2>>]),
    Di(P66_0F \cup BothQ \cup {"MEM_EVEX"}, [vpsllq |-> <<\h73, 6>>, vpsrlq |-> <<\h73, 2>>])})

Blend ==
  Table("xxe", {
    Ti(P66_0F3A \cup {"YMM"}, [vblendvpd |-> \h4B, vblendvps |-> \h4A, vpblendvb |-> \h4C])})

Mov ==
  Table("lowM", {
    T(F3_0F, [vmovq |-> \h7E])}) \cup
  Table("highM", {
    T(P66_0F \cup BothSD, [vmovq |-> \h6E]), T(P66_0F \cup BothSD, [vmovq |-> \h7E])}) \cup
  Table("lowM", {
    T(P66_0F \cup BothSD, [vmovq |-> \hD6])}) \cup
  Table("xx", {
    T(F3_0F \cup BothSD, [vmovq |-> \h7E])}) \cup
  Table("xxx", {
    T(P0F \cup {"EVEX", "W0"}, [vmovhlps |-> \h12, vmovlhps |-> \h16]), T(F2_0F \cup BothSD, [vmovsd |-> \h10]),
    T(F3_0F \cup BothSS, [vmovss |-> \h10])}) \cup
  Table("rx", {
    T(P66_0F \cup {"W0", "YMM"}, [vmovmskpd |-> \h50]), T(P0F \cup {"W0", "YMM"}, [vmovmskps |-> \h50])}) \cup
  Table("xm", {
    T(P66_0F \cup Both \cup {"W0"}, [vmovntdq |-> \hE7]), T(P66_0F \cup Both \cup {"EW1"}, [vmovntpd |-> \h2B]),
    T(P0F \cup Both \cup {"W0"}, [vmovntps |-> \h2B]), T(P66_0F38 \cup Both \cup {"W0"}, [vmovntdqa |-> \h2A]),
    T(F2_0F \cup BothSD, [vmovsd |-> \h10]), T(F2_0F \cup BothSD \cup {"M_K"}, [vmovsd |-> \h11]),
    T(F3_0F \cup BothSS, [vmovss |-> \h10]), T(F3_0F \cup BothSS \cup {"M_K"}, [vmovss |-> \h11])})

Cvt ==
  Table("ge", {
    T(F3_0F \cup {"ER_X", "EVEX", "N8", "W0"}, [vcvtss2si |-> \h2D]),
    T(F3_0F \cup {"EVEX", "N8", "SAE_X", "W0"}, [vcvttss2si |-> \h2C]),
    T(F2_0F \cup BothSS \cup {"ER_X"}, [vcvtsd2si |-> \h2D]),
    T(F2_0F \cup BothSS \cup {"SAE_X"}, [vcvttsd2si |-> \h2C])}) \cup
  Table("xxr", {
    T(F3_0F \cup {"EVEX", "ER_R", "W0", "N4"}, [vcvtsi2ss |-> \h2A]),
    T(F2_0F \cup {"EVEX", "W0", "N4"}, [vcvtsi2sd |-> \h2A])}) \cup
  Table("xxq", {
    T(F3_0F \cup {"EVEX", "ER_R", "W1", "EW1", "N8"}, [vcvtsi2ss |-> \h2A]),
    T(F2_0F \cup {"EVEX", "ER_R", "W1", "EW1", "N8"}, [vcvtsi2sd |-> \h2A])}) \cup
  Table("vh", {
    T(P0F \cup BothD \cup {"N8", "N_VL", "SAE_Y"}, [vcvtps2pd |-> \h5A]),
    T(F3_0F \cup BothD \cup {"N8", "N_VL"}, [vcvtdq2pd |-> \hE6]),
    T(P66_0F38 \cup {"EVEX", "N8", "N_VL", "SAE_Y", "W0"}, [vcvtph2ps |-> \h13]),
    Ti(P66_0F3A \cup {"EVEX", "M_K", "N8", "N_VL", "SAE_Y", "W0"}, [vcvtps2ph |-> \h1D])}) \cup
  Table("cvt2", {
    T(P66_0F \cup BothQ \cup {"ER_Z"}, [vcvtpd2ps |-> \h5A]),
    T(F2_0F \cup BothQ \cup {"ER_Z"}, [vcvtpd2dq |-> \hE6]),
    T(P66_0F \cup BothQ \cup {"SAE_Z"}, [vcvttpd2dq |-> \hE6])})

NeConvert ==
  Table("xm", {
    T(F3_0F38 \cup {"B32", "B64", "W0", "YMM"}, [vbcstnebf162ps |-> \hB1]),
    T(P66_0F38 \cup {"B32", "B64", "W0", "YMM"}, [vbcstnesh2ps |-> \hB1]),
    T(F3_0F38 \cup {"W0", "YMM"}, [vcvtneebf162ps |-> \hB0]),
    T(P66_0F38 \cup {"W0", "YMM"}, [vcvtneeph2ps |-> \hB0]),
    T(F2_0F38 \cup {"W0", "YMM"}, [vcvtneobf162ps |-> \hB0]),
    T(P0F38 \cup {"W0", "YMM"}, [vcvtneoph2ps |-> \hB0])}) \cup
  Table("cvt2", Encodings(F3_0F38 \cup {"W0", "YMM", "SAE_Z", "B32"}, {}, {}, [vcvtneps2bf16 |-> \h72]))

Bmi ==
  Table("RRO", {
    T(P0F38 \cup {"APX", "NF"}, [andn |-> \hF2, bextr |-> \hF7, bzhi |-> \hF5]),
    T(F2_0F38 \cup {"APX"}, [mulx |-> \hF6, pdep |-> \hF5, shrx |-> \hF7]),
    T(F3_0F38 \cup {"APX"}, [pext |-> \hF5, sarx |-> \hF7]), T(P66_0F38 \cup {"APX"}, [shlx |-> \hF7])}) \cup
  Table("RO", {
    Ti(F2_0F3A \cup {"APX"}, [rorx |-> \hF0])}) \cup
  Table("digitRO", {
    D(P0F38 \cup {"APX", "NF"}, [blsi |-> <<\hF3, 3>>, blsmsk |-> <<\hF3, 2>>, blsr |-> <<\hF3, 1>>])})

Gather ==
  LET W(w) == P66_0F38 \cup {"YMM", "VSIB", w}
  IN  Table("y_vx_y", {T(W("W1"), [vgatherdpd |-> \h92, vpgatherdq |-> \h90])}) \cup
      Table("y_vy_y", {T(W("W1"), [vgatherqpd |-> \h93, vpgatherqq |-> \h91]),
                        T(W("W0"), [vgatherdps |-> \h92, vpgatherdd |-> \h90])}) \cup
      Table("x_vy_x", {T(W("W0"), [vgatherqps |-> \h93, vpgatherqd |-> \h91])})

Vnni ==
  Table("xxe", Encodings(P66_0F38 \cup {"B32", "SAE_Z", "W0", "YMM"}, {}, {},
    [vpdpbusd |-> \h50, vpdpbusds |-> \h51, vpdpwssd |-> \h52, vpdpwssds |-> \h53]))

P64 ==
  Table("qe", {
    T(F3_0F \cup BothSD \cup {"ER_X", "W1"}, [vcvtss2si |-> \h2D]),
    T(F3_0F \cup BothSD \cup {"SAE_X", "W1"}, [vcvttss2si |-> \h2C]),
    T(F2_0F \cup {"ER_X", "EVEX", "EW1", "N4", "W1"}, [vcvtsd2si |-> \h2D]),
    T(F2_0F \cup {"EVEX", "EW1", "N4", "SAE_X", "W1"}, [vcvttsd2si |-> \h2C])}) \cup
  Table("xq", {
    T(P66_0F \cup {"EVEX", "EW1", "W1"}, [vmovq |-> \h6E])}) \cup
  Table("xToQReg", {
    T(P66_0F \cup {"EVEX", "EW1", "W1"}, [vmovq |-> \h7E])})

CmpX ==
  Table("RRM", {
    T(P66_0F38 \cup {"APX"}, [cmpbexadd |-> \hE6, cmpbxadd |-> \hE2, cmplexadd |-> \hEE, cmplxadd |-> \hEC,
      cmpnbexadd |-> \hE7, cmpnbxadd |-> \hE3, cmpnlexadd |-> \hEF, cmpnlxadd |-> \hED, cmpnoxadd |-> \hE1,
      cmpnpxadd |-> \hEB, cmpnsxadd |-> \hE9, cmpnzxadd |-> \hE5, cmpoxadd |-> \hE0, cmppxadd |-> \hEA,
      cmpsxadd |-> \hE8, cmpzxadd |-> \hE4])})

Amx ==
  Table("ttt", {
    T(F2_0F38 \cup {"W0"}, [tdpbssd |-> \h5E, tdpfp16ps |-> \h5C]),
    T(F3_0F38 \cup {"W0"}, [tdpbsud |-> \h5E, tdpbf16ps |-> \h5C]),
    T(P66_0F38 \cup {"W0"}, [tdpbusd |-> \h5E, tcmmimfp16ps |-> \h6C]),
    T(P0F38 \cup {"W0"}, [tdpbuud |-> \h5E, tcmmrlfp16ps |-> \h6C]), T(MAP5 \cup {"W0"}, [tdpbf8ps |-> \hFD]),
    T(F2_MAP5 \cup {"W0"}, [tdpbhf8ps |-> \hFD]), T(F3_MAP5 \cup {"W0"}, [tdphbf8ps |-> \hFD]),
    T(P66_MAP5 \cup {"W0"}, [tdphf8ps |-> \hFD])}) \cup
  Table("tilezero", {
    T(F2_0F38 \cup {"W0"}, [tilezero |-> \h49])}) \cup
  Table("tm", {
    T(P0F38 \cup {"W0"}, [ldtilecfg |-> \h49]), T(P66_0F38 \cup {"W0"}, [sttilecfg |-> \h49]),
    T(F3_0F38 \cup {"W0"}, [tilestored |-> \h4B]), T(F2_0F38 \cup {"W0"}, [tileloadd |-> \h4B, tileloaddrs |-> \h4A]),
    T(P66_0F38 \cup {"W0"}, [tileloaddt1 |-> \h4B, tileloaddrst1 |-> \h4A])})
=============================================================================
