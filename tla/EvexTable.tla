----------------------------- MODULE EvexTable ------------------------------
(* The AVX-512, AMX and APX instructions that gen_avx512.cpp generates: one *)
(* definition for each of its functions. See MnemonicTable for the notation. *)
EXTENDS MnemonicTable

putOpmask ==
  LET three == [kadd |-> \h4A, kand |-> \h41, kandn |-> \h42, kor |-> \h45, kxnor |-> \h46, kxor |-> \h47]
      two == [knot |-> \h44, kortest |-> \h98, ktest |-> \h99]
      Sizes(ops, L) ==
        {Named("", ops, "w", P0F \cup L \cup {"W0"}), Named("", ops, "q", P0F \cup L \cup {"W1"}),
         Named("", ops, "b", P66_0F \cup L \cup {"W0"}), Named("", ops, "d", P66_0F \cup L \cup {"W1"})}
  IN  Table("kkk", Sizes(three, {"L1"}) \cup {
        T(P66_0F \cup {"L1", "W0"}, [kunpckbw |-> \h4B]), T(P0F \cup {"L1", "W0"}, [kunpckwd |-> \h4B]),
        T(P0F \cup {"L1", "W1"}, [kunpckdq |-> \h4B])}) \cup
      Table("kk", Sizes(two, {})) \cup
      Table("kk", {
        Ti(P66_0F3A \cup {"W1"}, [kshiftlw |-> \h32, kshiftlq |-> \h33, kshiftrw |-> \h30, kshiftrq |-> \h31]),
        Ti(P66_0F3A \cup {"W0"}, [kshiftlb |-> \h32, kshiftld |-> \h33, kshiftrb |-> \h30, kshiftrd |-> \h31])}) \cup
      Table("kmov", {T({}, [kmovb |-> 8, kmovw |-> 16, kmovd |-> 32, kmovq |-> 64])})

putVcmp ==
  Table("kxe", {
    Ti(P66_0F \cup EvexQ \cup {"SAE_Z"}, [vcmppd |-> \hC2]), Ti(P0F \cup EvexD \cup {"SAE_Z"}, [vcmpps |-> \hC2]),
    Ti(F2_0F \cup EvexSD \cup {"SAE_Z"}, [vcmpsd |-> \hC2]),
    Ti(F3_0F \cup EvexSS \cup {"SAE_Z"}, [vcmpss |-> \hC2]), Ti(P0F3A \cup EvexH \cup {"SAE_Z"}, [vcmpph |-> \hC2]),
    Ti(F3_0F3A \cup EvexSH \cup {"SAE_X"}, [vcmpsh |-> \hC2]),
    T(P66_0F \cup {"MUST_EVEX", "YMM"}, [vpcmpeqb |-> \h74, vpcmpeqw |-> \h75, vpcmpgtb |-> \h64,
      vpcmpgtw |-> \h65]), T(P66_0F \cup {"B32", "MUST_EVEX", "YMM"}, [vpcmpeqd |-> \h76]),
    T(P66_0F38 \cup EvexQ, [vpcmpeqq |-> \h29, vpcmpgtq |-> \h37, vptestmq |-> \h27]),
    T(P66_0F \cup EvexD, [vpcmpgtd |-> \h66]), Ti(P66_0F3A \cup Evex0, [vpcmpb |-> \h3F, vpcmpub |-> \h3E]),
    Ti(P66_0F3A \cup Evex1, [vpcmpw |-> \h3F, vpcmpuw |-> \h3E]),
    Ti(P66_0F3A \cup EvexD, [vpcmpd |-> \h1F, vpcmpud |-> \h1E]),
    Ti(P66_0F3A \cup EvexQ, [vpcmpq |-> \h1F, vpcmpuq |-> \h1E]), T(P66_0F38 \cup Evex0, [vptestmb |-> \h26]),
    T(P66_0F38 \cup Evex1, [vptestmw |-> \h26]), T(P66_0F38 \cup EvexD, [vptestmd |-> \h27]),
    T(F3_0F38 \cup Evex0, [vptestnmb |-> \h26]), T(F3_0F38 \cup Evex1, [vptestnmw |-> \h26]),
    T(F3_0F38 \cup EvexD, [vptestnmd |-> \h27]), T(F3_0F38 \cup EvexQ, [vptestnmq |-> \h27])})

putX_XM ==
  Table("xe", {
    T(P66_0F \cup Evex0, [vmovdqa32 |-> \h6F]), T(P66_0F \cup Evex1, [vmovdqa64 |-> \h6F]),
    T(F2_0F \cup Evex0, [vmovdqu8 |-> \h6F]), T(F2_0F \cup Evex1, [vmovdqu16 |-> \h6F]),
    T(F3_0F \cup Evex0, [vmovdqu32 |-> \h6F]), T(F3_0F \cup Evex1, [vmovdqu64 |-> \h6F]),
    T(P66_0F \cup EvexQ \cup {"ER_Z"}, [vcvtpd2qq |-> \h7B, vcvtpd2uqq |-> \h79]),
    T(P0F \cup EvexD \cup {"ER_Z"}, [vcvtps2udq |-> \h79]),
    T(F3_0F \cup EvexQ \cup {"ER_Z"}, [vcvtqq2pd |-> \hE6, vcvtuqq2pd |-> \h7A]),
    T(P66_0F \cup EvexQ \cup {"SAE_Z"}, [vcvttpd2qq |-> \h7A, vcvttpd2uqq |-> \h78]),
    T(P0F \cup EvexD \cup {"SAE_Z"}, [vcvttps2udq |-> \h78]),
    T(F2_0F \cup EvexD \cup {"ER_Z"}, [vcvtudq2ps |-> \h7A]),
    T(P66_0F38 \cup Evex1 \cup {"N8"}, [vexpandpd |-> \h88, vpexpandq |-> \h89]),
    T(P66_0F38 \cup Evex0 \cup {"N4"}, [vexpandps |-> \h88, vpexpandd |-> \h89]),
    T(P66_0F38 \cup EvexQ \cup {"SAE_Z"}, [vgetexppd |-> \h42]),
    T(P66_0F38 \cup EvexD \cup {"SAE_Z"}, [vgetexpps |-> \h42]),
    T(P66_MAP6 \cup EvexH \cup {"SAE_Z"}, [vgetexpph |-> \h42]),
    T(MAP5 \cup EvexH \cup {"ER_Z"}, [vcvtph2uw |-> \h7D, vcvtph2ibs |-> \h69, vcvtph2iubs |-> \h6B]),
    T(P66_MAP5 \cup EvexH \cup {"ER_Z"}, [vcvtph2w |-> \h7D]),
    T(MAP5 \cup EvexH \cup {"SAE_Z"}, [vcvttph2uw |-> \h7C, vcvttph2ibs |-> \h68, vcvttph2iubs |-> \h6A]),
    T(P66_MAP5 \cup EvexH \cup {"SAE_Z"}, [vcvttph2w |-> \h7C]),
    T(F2_MAP5 \cup EvexH \cup {"ER_Z"}, [vcvtuw2ph |-> \h7D]),
    T(F3_MAP5 \cup EvexH \cup {"ER_Z"}, [vcvtw2ph |-> \h7D]), T(P66_MAP5 \cup EvexH, [vsqrtbf16 |-> \h51]),
    T(MAP5 \cup EvexSH \cup {"SAE_X"}, [vcomish |-> \h2F, vucomish |-> \h2E]),
    T(F2_0F \cup EvexSD \cup {"SAE_X"}, [vcomxsd |-> \h2F, vucomxsd |-> \h2E]),
    T(F3_MAP5 \cup EvexSH \cup {"SAE_X"}, [vcomxsh |-> \h2F, vucomxsh |-> \h2E]),
    T(F3_0F \cup EvexSS \cup {"SAE_X"}, [vcomxss |-> \h2F, vucomxss |-> \h2E]),
    T(F2_MAP5 \cup EvexH, [vcvtbf162ibs |-> \h69, vcvtbf162iubs |-> \h6B, vcvttbf162ibs |-> \h68,
      vcvttbf162iubs |-> \h6A]),
    T(P66_MAP5 \cup EvexQ \cup {"SAE_Z"}, [vcvttpd2qqs |-> \h6D, vcvttpd2uqqs |-> \h6C]),
    T(MAP5 \cup EvexD \cup {"SAE_Z"}, [vcvttps2dqs |-> \h6D, vcvttps2udqs |-> \h6C]),
    T(P66_MAP5 \cup EvexD \cup {"ER_Z"}, [vcvtps2ibs |-> \h69, vcvtps2iubs |-> \h6B]),
    T(P66_MAP5 \cup EvexD \cup {"SAE_Z"}, [vcvttps2ibs |-> \h68, vcvttps2iubs |-> \h6A]),
    T(P66_0F38 \cup EvexQ, [vpabsq |-> \h1F])}) \cup
  Table("ze", {
    T(P66_0F38 \cup EvexQ \cup {"SAE_Z"}, [vexp2pd |-> \hC8, vrcp28pd |-> \hCA, vrsqrt28pd |-> \hCC]),
    T(P66_0F38 \cup EvexD \cup {"SAE_Z"}, [vexp2ps |-> \hC8, vrcp28ps |-> \hCA, vrsqrt28ps |-> \hCC])})

putM_X ==
  Table("xm", {
    T(P66_0F \cup Evex0 \cup {"M_K"}, [vmovdqa32 |-> \h7F]),
    T(P66_0F \cup Evex1 \cup {"M_K"}, [vmovdqa64 |-> \h7F]), T(F2_0F \cup Evex0 \cup {"M_K"}, [vmovdqu8 |-> \h7F]),
    T(F2_0F \cup Evex1 \cup {"M_K"}, [vmovdqu16 |-> \h7F]), T(F3_0F \cup Evex0 \cup {"M_K"}, [vmovdqu32 |-> \h7F]),
    T(F3_0F \cup Evex1 \cup {"M_K"}, [vmovdqu64 |-> \h7F]),
    T(F3_MAP5 \cup EvexSH \cup {"M_K"}, [vmovsh |-> \h11])}) \cup
  Table("xe", {
    T(P66_0F38 \cup Evex1 \cup {"M_K", "N8"}, [vcompresspd |-> \h8A, vpcompressq |-> \h8B]),
    T(P66_0F38 \cup Evex0 \cup {"M_K", "N4"}, [vcompressps |-> \h8A, vpcompressd |-> \h8B]),
    T(P66_0F38 \cup Evex0 \cup {"M_K", "N1"}, [vpcompressb |-> \h63]),
    T(P66_0F38 \cup Evex1 \cup {"M_K", "N2"}, [vpcompressw |-> \h63])})

putX_X_XM_IMM ==
  Table("xxe", {
    Ti(P66_0F3A \cup Evex0, [valignd |-> \h03, vdbpsadbw |-> \h42]), Ti(P66_0F3A \cup Evex1, [valignq |-> \h03]),
    T(P66_0F \cup EvexD, [vpandd |-> \hDB, vpandnd |-> \hDF, vpord |-> \hEB, vpxord |-> \hEF]),
    T(P66_0F \cup EvexQ, [vpandq |-> \hDB, vpandnq |-> \hDF, vporq |-> \hEB, vpxorq |-> \hEF]),
    T(P66_0F38 \cup EvexQ, [vpmaxsq |-> \h3D, vpmaxuq |-> \h3F, vpminsq |-> \h39, vpminuq |-> \h3B,
      vpsravq |-> \h46, vpmullq |-> \h40, vblendmpd |-> \h65, vpblendmq |-> \h64, vpermt2q |-> \h7E,
      vpermt2pd |-> \h7F, vpermi2q |-> \h76, vpermi2pd |-> \h77, vpmadd52luq |-> \hB4, vpmadd52huq |-> \hB5,
      vpmultishiftqb |-> \h83, vprolvq |-> \h15, vprorvq |-> \h14]),
    T(P66_0F \cup Evex1 \cup {"N16"}, [vpsraq |-> \hE2]),
    T(P66_0F38 \cup Evex1, [vpsravw |-> \h11, vpsllvw |-> \h12, vpsrlvw |-> \h10, vpermw |-> \h8D,
      vpblendmw |-> \h66, vpermt2w |-> \h7D, vpermi2w |-> \h75]),
    T(P66_0F38 \cup Evex0, [vpermb |-> \h8D, vpblendmb |-> \h66, vpermt2b |-> \h7D, vpermi2b |-> \h75]),
    T(P66_0F38 \cup EvexD, [vblendmps |-> \h65, vpblendmd |-> \h64, vpermt2d |-> \h7E, vpermt2ps |-> \h7F,
      vpermi2d |-> \h76, vpermi2ps |-> \h77, vprolvd |-> \h15, vprorvd |-> \h14]),
    Ti(P66_0F3A \cup EvexD, [vpternlogd |-> \h25]), Ti(P66_0F3A \cup EvexQ, [vpternlogq |-> \h25]),
    T(P66_0F38 \cup EvexSD \cup {"SAE_X"}, [vgetexpsd |-> \h43, vrcp28sd |-> \hCB, vrsqrt28sd |-> \hCD]),
    T(P66_0F38 \cup EvexSS \cup {"SAE_X"}, [vgetexpss |-> \h43, vrcp28ss |-> \hCB, vrsqrt28ss |-> \hCD]),
    T(P66_MAP6 \cup EvexSH \cup {"SAE_X"}, [vgetexpsh |-> \h43]),
    Ti(P66_0F3A \cup EvexSD \cup {"SAE_X"}, [vgetmantsd |-> \h27, vrndscalesd |-> \h0B, vrangesd |-> \h51,
      vreducesd |-> \h57, vminmaxsd |-> \h53]),
    Ti(P66_0F3A \cup EvexSS \cup {"SAE_X"}, [vgetmantss |-> \h27, vrndscaless |-> \h0A, vrangess |-> \h51,
      vreducess |-> \h57, vminmaxss |-> \h53]),
    Ti(P0F3A \cup EvexSH \cup {"SAE_X"}, [vgetmantsh |-> \h27, vrndscalesh |-> \h0A, vreducesh |-> \h57,
      vminmaxsh |-> \h53]),
    Ti(P66_0F3A \cup EvexQ \cup {"SAE_Z"}, [vfixupimmpd |-> \h54, vrangepd |-> \h50, vpshldq |-> \h71,
      vpshrdq |-> \h73, vminmaxpd |-> \h52]),
    Ti(P66_0F3A \cup EvexD \cup {"SAE_Z"}, [vfixupimmps |-> \h54, vrangeps |-> \h50, vpshldd |-> \h71,
      vpshrdd |-> \h73, vminmaxps |-> \h52]), Ti(P66_0F3A \cup EvexSD \cup {"SAE_Z"}, [vfixupimmsd |-> \h55]),
    Ti(P66_0F3A \cup EvexSS \cup {"SAE_Z"}, [vfixupimmss |-> \h55]), T(P66_0F38 \cup EvexSD, [vrcp14sd |-> \h4D]),
    T(P66_0F38 \cup EvexSS, [vrcp14ss |-> \h4D]), T(P66_MAP6 \cup EvexSH, [vrcpsh |-> \h4D, vrsqrtsh |-> \h4F]),
    T(P66_0F38 \cup Evex1 \cup {"N8"}, [vrsqrt14sd |-> \h4F]),
    T(P66_0F38 \cup Evex0 \cup {"N4"}, [vrsqrt14ss |-> \h4F]),
    T(F3_MAP5 \cup EvexSH \cup {"ER_X"}, [vsqrtsh |-> \h51]),
    T(P66_0F38 \cup EvexQ \cup {"ER_Z"}, [vscalefpd |-> \h2C]),
    T(P66_0F38 \cup EvexD \cup {"ER_Z"}, [vscalefps |-> \h2C, vcvt2ps2phx |-> \h67]),
    T(P66_0F38 \cup EvexSD \cup {"ER_X"}, [vscalefsd |-> \h2D]),
    T(P66_0F38 \cup EvexSS \cup {"ER_X"}, [vscalefss |-> \h2D]),
    T(P66_MAP6 \cup EvexH \cup {"ER_Z"}, [vscalefph |-> \h2C]),
    T(P66_MAP6 \cup EvexSH \cup {"ER_X"}, [vscalefsh |-> \h2D]),
    Ti(P66_0F3A \cup Evex1 \cup {"SAE_Z"}, [vpshldw |-> \h70, vpshrdw |-> \h72]),
    T(P66_0F38 \cup Evex1 \cup {"SAE_Z"}, [vpshldvw |-> \h70, vpshrdvw |-> \h72]),
    T(P66_0F38 \cup EvexD \cup {"SAE_Z"}, [vpshldvd |-> \h71, vpshrdvd |-> \h73]),
    T(P66_0F38 \cup EvexQ \cup {"SAE_Z"}, [vpshldvq |-> \h71, vpshrdvq |-> \h73]),
    T(F2_0F38 \cup EvexD \cup {"SAE_Z"}, [vcvtne2ps2bf16 |-> \h72]),
    T(F3_0F38 \cup EvexD \cup {"SAE_Z"}, [vdpbf16ps |-> \h52]),
    T(F2_MAP5 \cup EvexSD \cup {"ER_X"}, [vcvtsd2sh |-> \h5A]),
    T(F3_MAP5 \cup EvexSH \cup {"SAE_X"}, [vcvtsh2sd |-> \h5A]),
    T(MAP6 \cup EvexSH \cup {"SAE_X"}, [vcvtsh2ss |-> \h13]),
    T(MAP5 \cup EvexSS \cup {"ER_X"}, [vcvtss2sh |-> \h1D]),
    T(P66_MAP5 \cup EvexH, [vaddbf16 |-> \h58, vdivbf16 |-> \h5E, vmaxbf16 |-> \h5F, vminbf16 |-> \h5D,
      vmulbf16 |-> \h59, vsubbf16 |-> \h5C]),
    T(MAP6 \cup EvexH, [vscalefbf16 |-> \h2C, vfmadd132bf16 |-> \h98, vfmadd213bf16 |-> \hA8,
      vfmadd231bf16 |-> \hB8, vfnmadd132bf16 |-> \h9C, vfnmadd213bf16 |-> \hAC, vfnmadd231bf16 |-> \hBC,
      vfmsub132bf16 |-> \h9A, vfmsub213bf16 |-> \hAA, vfmsub231bf16 |-> \hBA, vfnmsub132bf16 |-> \h9E,
      vfnmsub213bf16 |-> \hAE, vfnmsub231bf16 |-> \hBE]),
    T(F2_0F38 \cup EvexH \cup {"N16", "N_VL"}, [vcvt2ph2bf8 |-> \h74]),
    T(F2_MAP5 \cup EvexH \cup {"N16", "N_VL"}, [vcvt2ph2bf8s |-> \h74, vcvt2ph2hf8 |-> \h18,
      vcvt2ph2hf8s |-> \h1B]), T(P0F38 \cup EvexD \cup {"SAE_Z"}, [vdpphps |-> \h52]),
    Ti(F2_0F3A \cup EvexH, [vminmaxbf16 |-> \h52]), Ti(P0F3A \cup EvexH \cup {"SAE_Z"}, [vminmaxph |-> \h52])})

AVX10 ==
  LET Both32(type, codes) == Encodings(type \cup {"W0", "YMM"}, {}, {"B32"}, codes)
  IN  Table("xxe",
        Both32(F2_0F38, [vpdpbssd |-> \h50, vpdpbssds |-> \h51]) \cup
        Both32(F3_0F38, [vpdpbsud |-> \h50, vpdpbsuds |-> \h51, vpdpwsud |-> \hD2, vpdpwsuds |-> \hD3]) \cup
        Both32(P66_0F38, [vpdpwusd |-> \hD2, vpdpwusds |-> \hD3]) \cup
        Both32(P0F38, [vpdpbuud |-> \h50, vpdpbuuds |-> \h51, vpdpwuud |-> \hD2, vpdpwuuds |-> \hD3]) \cup
        Imm(Encodings(P0F3A \cup {"YMM"}, {"66"}, {"F3", "B32"}, [vmpsadbw |-> \h42])))

putShift ==
  Table("digitE", {
    Di(P66_0F \cup EvexQ, [vpsraq |-> <<\h72, 4>>, vprolq |-> <<\h72, 1>>, vprorq |-> <<\h72, 0>>]),
    Di(P66_0F \cup EvexD, [vprold |-> <<\h72, 1>>, vprord |-> <<\h72, 0>>])})

putExtractInsert ==
  Table("yToX", {
    Ti(P66_0F3A \cup Evex0 \cup {"M_K", "N16"}, [vextractf32x4 |-> \h19, vextracti32x4 |-> \h39]),
    Ti(P66_0F3A \cup Evex1 \cup {"M_K", "N16"}, [vextractf64x2 |-> \h19, vextracti64x2 |-> \h39])}) \cup
  Table("zToY", {
    Ti(P66_0F3A \cup Evex0 \cup {"M_K", "N32"}, [vextractf32x8 |-> \h1B, vextracti32x8 |-> \h3B]),
    Ti(P66_0F3A \cup Evex1 \cup {"M_K", "N32"}, [vextractf64x4 |-> \h1B, vextracti64x4 |-> \h3B])}) \cup
  Table("yyx", {
    Ti(P66_0F3A \cup Evex0 \cup {"N16"}, [vinsertf32x4 |-> \h18, vinserti32x4 |-> \h38]),
    Ti(P66_0F3A \cup Evex1 \cup {"N16"}, [vinsertf64x2 |-> \h18, vinserti64x2 |-> \h38])}) \cup
  Table("zzy", {
    Ti(P66_0F3A \cup Evex0 \cup {"N32"}, [vinsertf32x8 |-> \h1A, vinserti32x8 |-> \h3A]),
    Ti(P66_0F3A \cup Evex1 \cup {"N32"}, [vinsertf64x4 |-> \h1A, vinserti64x4 |-> \h3A])})

putBroadcast ==
  Table("vr", {
    T(P66_0F38 \cup Evex0, [vpbroadcastb |-> \h7A, vpbroadcastw |-> \h7B, vpbroadcastd |-> \h7C])}) \cup
  Table("vq", {
    T(P66_0F38 \cup Evex1, [vpbroadcastq |-> \h7C])}) \cup
  Table("yx", {
    T(P66_0F38 \cup Evex0 \cup {"N8"}, [vbroadcastf32x2 |-> \h19]),
    T(P66_0F38 \cup Evex0 \cup {"N16"}, [vbroadcasti32x4 |-> \h5A]),
    T(P66_0F38 \cup Evex1 \cup {"N16"}, [vbroadcasti64x2 |-> \h5A])}) \cup
  Table("ym", {
    T(P66_0F38 \cup Evex0 \cup {"N16"}, [vbroadcastf32x4 |-> \h1A]),
    T(P66_0F38 \cup Evex1 \cup {"N16"}, [vbroadcastf64x2 |-> \h1A])}) \cup
  Table("zm", {
    T(P66_0F38 \cup Evex1 \cup {"N32"}, [vbroadcastf64x4 |-> \h1B]),
    T(P66_0F38 \cup Evex0 \cup {"N32"}, [vbroadcastf32x8 |-> \h1B])}) \cup
  Table("bx", {
    T(P66_0F38 \cup Evex0 \cup {"N8"}, [vbroadcasti32x2 |-> \h59])}) \cup
  Table("zy", {
    T(P66_0F38 \cup Evex0 \cup {"N32"}, [vbroadcasti32x8 |-> \h5B]),
    T(P66_0F38 \cup Evex1 \cup {"N32"}, [vbroadcasti64x4 |-> \h5B])})

putCvt ==
  LET ToInt(form, W) == Table(form, {
        T(F2_0F \cup {"MUST_EVEX", "N8", "ER_X"} \cup W, [vcvtsd2usi |-> \h79]),
        T(F3_0F \cup {"MUST_EVEX", "N4", "ER_X"} \cup W, [vcvtss2usi |-> \h79]),
        T(F2_0F \cup {"MUST_EVEX", "N8", "SAE_X"} \cup W, [vcvttsd2usi |-> \h78]),
        T(F3_0F \cup {"MUST_EVEX", "N4", "SAE_X"} \cup W, [vcvttss2usi |-> \h78]),
        T(F3_MAP5 \cup {"MUST_EVEX", "N2", "ER_X"} \cup W, [vcvtsh2si |-> \h2D, vcvtsh2usi |-> \h79]),
        T(F3_MAP5 \cup {"MUST_EVEX", "N2", "SAE_X"} \cup W, [vcvttsh2si |-> \h2C, vcvttsh2usi |-> \h78]),
        T(F2_MAP5 \cup {"MUST_EVEX", "N8", "SAE_X"} \cup W, [vcvttsd2sis |-> \h6D, vcvttsd2usis |-> \h6C]),
        T(F3_MAP5 \cup {"MUST_EVEX", "N4", "SAE_X"} \cup W, [vcvttss2sis |-> \h6D, vcvttss2usis |-> \h6C])})
      FromInt(form, W, N, sd) == Table(form, {
        T(F3_MAP5 \cup {"MUST_EVEX", "ER_R", "M_K"} \cup W \cup N, [vcvtsi2sh |-> \h2A, vcvtusi2sh |-> \h7B]),
        T(F3_0F \cup {"MUST_EVEX", "ER_R"} \cup W \cup N, [vcvtusi2ss |-> \h7B]),
        T(F2_0F \cup {"MUST_EVEX"} \cup sd \cup W \cup N, [vcvtusi2sd |-> \h7B])})
  IN
  ToInt("ge", {"W0"}) \cup ToInt("qe", {"EW1"}) \cup
  FromInt("xxr", {"W0"}, {"N4"}, {}) \cup FromInt("xxq", {"EW1"}, {"N8"}, {"ER_R"}) \cup
  Table("vh", {
    T(P66_0F \cup EvexD \cup {"ER_Y", "N8", "N_VL"}, [vcvtps2qq |-> \h7B, vcvtps2uqq |-> \h79]),
    T(P66_0F \cup EvexD \cup {"N8", "N_VL", "SAE_Y"}, [vcvttps2qq |-> \h7A, vcvttps2uqq |-> \h78]),
    T(F3_0F \cup EvexD \cup {"N8", "N_VL"}, [vcvtudq2pd |-> \h7A]),
    T(P66_MAP5 \cup EvexH \cup {"ER_Y", "N8", "N_VL"}, [vcvtph2dq |-> \h5B]),
    T(P66_MAP6 \cup EvexH \cup {"N8", "N_VL", "SAE_Y"}, [vcvtph2psx |-> \h13]),
    T(MAP5 \cup EvexH \cup {"ER_Y", "N8", "N_VL"}, [vcvtph2udq |-> \h79]),
    T(F3_MAP5 \cup EvexH \cup {"N8", "N_VL", "SAE_Y"}, [vcvttph2dq |-> \h5B]),
    T(MAP5 \cup EvexH \cup {"N8", "N_VL", "SAE_Y"}, [vcvttph2udq |-> \h78]),
    T(P66_MAP5 \cup EvexD \cup {"N8", "N_VL", "SAE_Y"}, [vcvttps2qqs |-> \h6D, vcvttps2uqqs |-> \h6C])}) \cup
  Table("cvt2", {
    T(P0F \cup EvexQ \cup {"ER_Z"}, [vcvtpd2udq |-> \h79, vcvtqq2ps |-> \h5B]),
    T(P0F \cup EvexQ \cup {"SAE_Z"}, [vcvttpd2udq |-> \h78]),
    T(F2_0F \cup EvexQ \cup {"ER_Z"}, [vcvtuqq2ps |-> \h7A]),
    T(MAP5 \cup EvexQ \cup {"SAE_Z"}, [vcvttpd2dqs |-> \h6D, vcvttpd2udqs |-> \h6C])}) \cup
  Table("vx", {
    T(MAP5 \cup EvexH \cup {"N4", "N_VL", "SAE_X"}, [vcvtph2pd |-> \h5A]),
    T(P66_MAP5 \cup EvexH \cup {"ER_X", "N4", "N_VL"}, [vcvtph2qq |-> \h7B, vcvtph2uqq |-> \h79]),
    T(P66_MAP5 \cup EvexH \cup {"N4", "N_VL", "SAE_X"}, [vcvttph2uqq |-> \h78, vcvttph2qq |-> \h7A])}) \cup
  Table("cvt4", {
    T(MAP5 \cup EvexD \cup {"ER_Z", "N16", "N_VL"}, [vcvtdq2ph |-> \h5B]),
    T(P66_MAP5 \cup {"B32", "ER_Z", "MUST_EVEX", "N16", "N_VL", "W0"}, [vcvtps2phx |-> \h1D]),
    T(F2_MAP5 \cup {"B32", "ER_Z", "MUST_EVEX", "N16", "N_VL", "W0"}, [vcvtudq2ph |-> \h7A])}) \cup
  Table("cvt5", {
    T(P66_MAP5 \cup {"B64", "ER_Z", "EW1", "MUST_EVEX", "N16", "N_VL"}, [vcvtpd2ph |-> \h5A]),
    T(MAP5 \cup {"B64", "ER_Z", "EW1", "MUST_EVEX", "N16", "N_VL"}, [vcvtqq2ph |-> \h5B]),
    T(F2_MAP5 \cup {"B64", "ER_Z", "EW1", "MUST_EVEX", "N16", "N_VL"}, [vcvtuqq2ph |-> \h7A])})

putGather ==
  LET Elem(E, N) == P66_0F38 \cup E \cup {"VSIB", N}
  IN  Table("xx_yy_zz", {
        T(Elem(Evex0, "N4"), [vpgatherdd |-> \h90, vgatherdps |-> \h92]),
        T(Elem(Evex1, "N8"), [vpgatherqq |-> \h91, vgatherqpd |-> \h93])}) \cup
      Table("xx_yx_zy", {T(Elem(Evex1, "N8"), [vpgatherdq |-> \h90, vgatherdpd |-> \h92])}) \cup
      Table("xx_xy_yz", {T(Elem(Evex0, "N4"), [vpgatherqd |-> \h91, vgatherqps |-> \h93])})

putScatter ==
  LET Elem(E, N) == P66_0F38 \cup E \cup {"VSIB", "M_K", N}
  IN  Table("xx_yy_zz", {
        T(Elem(Evex0, "N4"), [vpscatterdd |-> \hA0, vscatterdps |-> \hA2]),
        T(Elem(Evex1, "N8"), [vpscatterqq |-> \hA1, vscatterqpd |-> \hA3])}) \cup
      Table("xx_yx_zy", {T(Elem(Evex1, "N8"), [vpscatterdq |-> \hA0, vscatterdpd |-> \hA2])}) \cup
      Table("xx_xy_yz", {T(Elem(Evex0, "N4"), [vpscatterqd |-> \hA1, vscatterqps |-> \hA3])})

putShuff ==
  Table("yye", {
    Ti(P66_0F3A \cup EvexD, [vshuff32x4 |-> \h23, vshufi32x4 |-> \h43]),
    Ti(P66_0F3A \cup EvexQ, [vshuff64x2 |-> \h23, vshufi64x2 |-> \h43])})

putMov ==
  Table("vk", {
    T(F3_0F38 \cup Evex0, [vpmovm2b |-> \h28, vpmovm2d |-> \h38]),
    T(F3_0F38 \cup Evex1, [vpmovm2w |-> \h28, vpmovm2q |-> \h38])}) \cup
  Table("kv", {
    T(F3_0F38 \cup Evex0, [vpmovb2m |-> \h29, vpmovd2m |-> \h39]),
    T(F3_0F38 \cup Evex1, [vpmovw2m |-> \h29, vpmovq2m |-> \h39])}) \cup
  Table("vx", {
    T(F3_0F38 \cup Evex0 \cup {"M_K", "N2", "N_VL"}, [vpmovqb |-> \h32, vpmovsqb |-> \h22, vpmovusqb |-> \h12]),
    T(F3_0F38 \cup Evex0 \cup {"M_K", "N4", "N_VL"}, [vpmovqw |-> \h34, vpmovsqw |-> \h24, vpmovusqw |-> \h14,
      vpmovdb |-> \h31, vpmovsdb |-> \h21, vpmovusdb |-> \h11])}) \cup
  Table("vh", {
    T(F3_0F38 \cup Evex0 \cup {"M_K", "N8", "N_VL"}, [vpmovqd |-> \h35, vpmovsqd |-> \h25, vpmovusqd |-> \h15,
      vpmovdw |-> \h33, vpmovsdw |-> \h23, vpmovusdw |-> \h13, vpmovwb |-> \h30, vpmovswb |-> \h20,
      vpmovuswb |-> \h10])})

putX_XM_IMM ==
  Table("xe", {
    Ti(P66_0F3A \cup EvexQ \cup {"SAE_Z"}, [vgetmantpd |-> \h26, vrndscalepd |-> \h09, vreducepd |-> \h56]),
    Ti(P66_0F3A \cup EvexD \cup {"SAE_Z"}, [vgetmantps |-> \h26, vrndscaleps |-> \h08, vreduceps |-> \h56]),
    Ti(P0F3A \cup EvexH \cup {"SAE_Z"}, [vgetmantph |-> \h26, vrndscaleph |-> \h08, vreduceph |-> \h56]),
    T(P66_0F38 \cup EvexQ, [vrcp14pd |-> \h4C, vrsqrt14pd |-> \h4E, vpconflictq |-> \hC4, vplzcntq |-> \h44]),
    T(P66_0F38 \cup EvexD, [vrcp14ps |-> \h4C, vrsqrt14ps |-> \h4E, vpconflictd |-> \hC4, vplzcntd |-> \h44]),
    T(P66_MAP6 \cup EvexH, [vrcpph |-> \h4C, vrsqrtph |-> \h4E]),
    T(MAP5 \cup EvexH \cup {"ER_Z"}, [vsqrtph |-> \h51]),
    T(P66_0F38 \cup Evex0 \cup {"SAE_Z"}, [vpopcntb |-> \h54]),
    T(P66_0F38 \cup Evex1 \cup {"SAE_Z"}, [vpopcntw |-> \h54]),
    T(P66_0F38 \cup EvexD \cup {"SAE_Z"}, [vpopcntd |-> \h55]),
    T(P66_0F38 \cup EvexQ \cup {"SAE_Z"}, [vpopcntq |-> \h55]),
    T(P66_0F38 \cup Evex0 \cup {"N1", "SAE_Z"}, [vpexpandb |-> \h62]),
    T(P66_0F38 \cup Evex1 \cup {"N2", "SAE_Z"}, [vpexpandw |-> \h62]),
    T(P66_MAP5 \cup EvexSH, [vcomisbf16 |-> \h2F]),
    T(MAP6 \cup EvexH, [vgetexpbf16 |-> \h42, vrcpbf16 |-> \h4C, vrsqrtbf16 |-> \h4E, vscalefbf16 |-> \h2C]),
    Ti(F2_0F3A \cup EvexH, [vgetmantbf16 |-> \h26, vreducebf16 |-> \h56, vrndscalebf16 |-> \h08])})

putMisc ==
  Table("vk", {
    T(F3_0F38 \cup Evex1, [vpbroadcastmb2q |-> \h2A]), T(F3_0F38 \cup Evex0, [vpbroadcastmw2d |-> \h3A])}) \cup
  Table("fetchZ", {
    D(P66_0F38 \cup EvexSS \cup {"M_K", "VSIB"}, [vgatherpf0dps |-> <<\hC6, 1>>, vgatherpf0qps |-> <<\hC7, 1>>,
      vgatherpf1dps |-> <<\hC6, 2>>, vgatherpf1qps |-> <<\hC7, 2>>, vscatterpf0dps |-> <<\hC6, 5>>,
      vscatterpf0qps |-> <<\hC7, 5>>, vscatterpf1dps |-> <<\hC6, 6>>, vscatterpf1qps |-> <<\hC7, 6>>]),
    D(P66_0F38 \cup EvexSD \cup {"M_K", "VSIB"}, [vgatherpf0qpd |-> <<\hC7, 1>>, vgatherpf1qpd |-> <<\hC7, 2>>,
      vscatterpf0qpd |-> <<\hC7, 5>>, vscatterpf1qpd |-> <<\hC7, 6>>])}) \cup
  Table("fetchY", {
    D(P66_0F38 \cup EvexSD \cup {"M_K", "VSIB"}, [vgatherpf0dpd |-> <<\hC6, 1>>, vgatherpf1dpd |-> <<\hC6, 2>>,
      vscatterpf0dpd |-> <<\hC6, 5>>, vscatterpf1dpd |-> <<\hC6, 6>>])}) \cup
  Table("ke", {
    Ti(P66_0F3A \cup EvexQ, [vfpclasspd |-> \h66]), Ti(P66_0F3A \cup EvexD, [vfpclassps |-> \h66]),
    Ti(P0F3A \cup EvexH, [vfpclassph |-> \h66])}) \cup
  Table("kx", {
    Ti(P66_0F3A \cup EvexSD, [vfpclasssd |-> \h67]),
    Ti(P66_0F3A \cup EvexSS, [vfpclassss |-> \h67]), Ti(P0F3A \cup EvexSH, [vfpclasssh |-> \h67])}) \cup
  Table("kxe", {
    T(P66_0F38 \cup Evex0, [vpshufbitqmb |-> \h8F]), T(F2_0F38 \cup BothD, [vp2intersectd |-> \h68]),
    T(F2_0F38 \cup BothQ, [vp2intersectq |-> \h68])})

putFP16_1 ==
  LET er == [add |-> \h58, sub |-> \h5C, mul |-> \h59, div |-> \h5E]
      sae == [max |-> \h5F, min |-> \h5D]
  IN  Table("xxe", {
        Named("v", er, "ph", MAP5 \cup EvexH \cup {"ER_Z"}), Named("v", sae, "ph", MAP5 \cup EvexH \cup {"SAE_Z"}),
        Named("v", er, "sh", F3_MAP5 \cup EvexSH \cup {"ER_X"}),
        Named("v", sae, "sh", F3_MAP5 \cup EvexSH \cup {"SAE_X"})})

putFP16_FMA ==
  LET packed == [vfmaddsub |-> \h06, vfmsubadd |-> \h07, vfmadd |-> \h08, vfnmadd |-> \h0C, vfmsub |-> \h0A,
                 vfnmsub |-> \h0E]
      scalar == [vfmadd |-> \h09, vfnmadd |-> \h0D, vfmsub |-> \h0B, vfnmsub |-> \h0F]
  IN  Table("xxe", {Orders(packed, "ph", P66_MAP6 \cup EvexH \cup {"ER_Z"}),
                    Orders(scalar, "sh", P66_MAP6 \cup EvexSH \cup {"ER_X"})})

putFP16_FMA2 ==
  Table("xxe", {
    T(F2_MAP6 \cup EvexD \cup {"ER_Z"}, [vfcmaddcph |-> \h56, vfcmulcph |-> \hD6]),
    T(F3_MAP6 \cup EvexD \cup {"ER_Z"}, [vfmaddcph |-> \h56, vfmulcph |-> \hD6])}) \cup
  Table("xm", {
    T(F3_MAP5 \cup EvexSH, [vmovsh |-> \h10])}) \cup
  Table("xxx", {
    T(F3_MAP5 \cup EvexSH, [vmovsh |-> \h10])})

putAVX10_2 ==
  Table("kxe", {
    Ti(F2_0F3A \cup EvexH, [vcmpbf16 |-> \hC2])}) \cup
  Table("ke", {
    Ti(F2_0F3A \cup EvexH, [vfpclassbf16 |-> \h66])}) \cup
  Table("cvt6", {
    T(P0F38 \cup EvexH, [vcvtbiasph2bf8 |-> \h74]),
    T(MAP5 \cup EvexH, [vcvtbiasph2bf8s |-> \h74, vcvtbiasph2hf8 |-> \h18, vcvtbiasph2hf8s |-> \h1B])}) \cup
  Table("vh", {
    T(F2_MAP5 \cup Evex0 \cup {"N8", "N_VL"}, [vcvthf82ph |-> \h1E])}) \cup
  Table("cvt2", {
    T(F3_0F38 \cup EvexH, [vcvtph2bf8 |-> \h74]),
    T(F3_MAP5 \cup EvexH, [vcvtph2bf8s |-> \h74, vcvtph2hf8 |-> \h18, vcvtph2hf8s |-> \h1B])})

putAMX_TTRorI ==
  Table("ztr", {
    T(F3_0F38 \cup {"MUST_EVEX", "W0"}, [tcvtrowd2ps |-> \h4A, tcvtrowps2bf16l |-> \h6D]),
    T(F2_0F38 \cup {"MUST_EVEX", "W0"}, [tcvtrowps2bf16h |-> \h6D]),
    T(P0F38 \cup {"MUST_EVEX", "W0"}, [tcvtrowps2phh |-> \h6D]),
    T(P66_0F38 \cup {"MUST_EVEX", "W0"}, [tcvtrowps2phl |-> \h6D, tilemovrow |-> \h4A])}) \cup
  Table("zt", {
    Ti(F3_0F3A \cup {"MUST_EVEX", "W0"}, [tcvtrowd2ps |-> \h07, tcvtrowps2bf16l |-> \h77]),
    Ti(F2_0F3A \cup {"MUST_EVEX", "W0"}, [tcvtrowps2bf16h |-> \h07, tcvtrowps2phl |-> \h77]),
    Ti(P0F3A \cup {"MUST_EVEX", "W0"}, [tcvtrowps2phh |-> \h07]),
    Ti(P66_0F3A \cup {"MUST_EVEX", "W0"}, [tilemovrow |-> \h07])})

putVmovrs ==
  Table("vm", {
    T(F2_MAP5 \cup {"MUST_EVEX", "W0"}, [vmovrsb |-> \h6F]),
    T(F3_MAP5 \cup {"MUST_EVEX", "W0"}, [vmovrsd |-> \h6F]),
    T(F3_MAP5 \cup {"EW1", "MUST_EVEX"}, [vmovrsq |-> \h6F]),
    T(F2_MAP5 \cup {"EW1", "MUST_EVEX"}, [vmovrsw |-> \h6F])})

putBsr ==
  Table("bzm", {
    T(MAP6 \cup {"EW1", "MUST_EVEX", "N1"}, [bsrmovf |-> \h95])}) \cup
  Table("bm", {
    T(F2_MAP6 \cup {"EW1", "MUST_EVEX", "N1"}, [bsrmovh |-> \h95]),
    T(F3_MAP6 \cup {"EW1", "MUST_EVEX", "N1"}, [bsrmovl |-> \h95])}) \cup
  Table("bm", {
    T(F2_MAP6 \cup {"MUST_EVEX", "N1", "W0"}, [bsrmovh |-> \h95]),
    T(F3_MAP6 \cup {"MUST_EVEX", "N1", "W0"}, [bsrmovl |-> \h95])}) \cup
  Table("bsrinit", {
    T(F2_0F38 \cup {"W1"}, [bsrinit |-> \h49])})

\* Bug: T_W0 for T_EW1, which is the move in the other direction.
putTileMovW0 ==
  Table("tz", {
    Ti(P66_0F3A \cup {"MUST_EVEX", "W0"}, [tilemovrow |-> \h07, tilemovcol |-> \h2F])}) \cup
  Table("tzr", {
    T(P66_0F38 \cup {"MUST_EVEX", "W0"}, [tilemovrow |-> \h4A, tilemovcol |-> \h4B])})
putTileMov ==
  Table("tz", {
    Ti(P66_0F3A \cup {"EW1", "MUST_EVEX"}, [tilemovrow |-> \h07, tilemovcol |-> \h2F])}) \cup
  Table("tzr", {
    T(P66_0F38 \cup {"EW1", "MUST_EVEX"}, [tilemovrow |-> \h4A, tilemovcol |-> \h4B])})

putTop ==
  Table("tzz", {
    T(F3_0F38 \cup {"MUST_EVEX", "W0"}, [top2bf16ps |-> \h5C, top4bsud |-> \h5E]),
    T(F2_0F38 \cup {"MUST_EVEX", "W0"}, [top4bssd |-> \h5E]),
    T(P66_0F38 \cup {"MUST_EVEX", "W0"}, [top4busd |-> \h5E]),
    T(P0F38 \cup {"MUST_EVEX", "W0"}, [top4buud |-> \h5E]),
    Ti(P0F3A \cup {"MUST_EVEX", "W0"}, [top4mxbf8ps |-> \h8D]),
    Ti(F2_0F3A \cup {"MUST_EVEX", "W0"}, [top4mxbhf8ps |-> \h8D, top4mxbssps |-> \h8F]),
    Ti(F3_0F3A \cup {"MUST_EVEX", "W0"}, [top4mxhbf8ps |-> \h8D]),
    Ti(P66_0F3A \cup {"MUST_EVEX", "W0"}, [top4mxhf8ps |-> \h8D])})

putFp8 ==
  Table("cvt5", {
    T(F3_MAP5 \cup EvexD, [vcvtps2bf8 |-> \h39, vcvtps2bf8s |-> \h3B, vcvtps2hf8 |-> \h38, vcvtps2hf8s |-> \h3A]),
    T(P66_MAP5 \cup EvexD, [vcvtrops2hf8 |-> \h38, vcvtrops2hf8s |-> \h3A])}) \cup
  Table("cvt7", {
    T(MAP5 \cup EvexD, [vcvtbiasps2bf8 |-> \h39, vcvtbiasps2bf8s |-> \h3B, vcvtbiasps2hf8 |-> \h38,
      vcvtbiasps2hf8s |-> \h3A])}) \cup
  Table("vx", {
    T(MAP5 \cup Evex1 \cup {"N4", "N_VL"}, [vcvtbf82ps |-> \h36]),
    T(MAP5 \cup Evex0 \cup {"N4", "N_VL"}, [vcvthf82ps |-> \h36]),
    T(F3_0F38 \cup Evex0 \cup {"M_K", "N4", "N_VL"}, [vpmovssdb |-> \h41])}) \cup
  Table("vh", {
    T(F3_MAP5 \cup Evex1 \cup {"N8", "N_VL"}, [vcvtbf82bf4s |-> \h3D]),
    T(F3_MAP5 \cup Evex0 \cup {"N8", "N_VL"}, [vcvthf82bf4s |-> \h3D])}) \cup
  Table("vh", {
    T(MAP5 \cup Evex0 \cup {"N8", "N_VL"}, [vcvtbf42hf8 |-> \h37])}) \cup
  Table("xx", {
    T(P66_MAP5 \cup Evex1, [vcvtbf62hf8 |-> \h37]), T(P66_MAP5 \cup Evex0, [vcvthf62hf8 |-> \h37]),
    T(F3_MAP5 \cup Evex1, [vcvtbf82bf6s |-> \h3E]), T(F3_MAP5 \cup Evex0, [vcvthf82hf6s |-> \h3C])}) \cup
  Table("xe", {
    Ti(P0F3A \cup Evex0, [vunpackb |-> \h3D])})
=============================================================================
