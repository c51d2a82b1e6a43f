---------------------------- MODULE Instructions -----------------------------
(* The instruction set: the rows of all tables, each written by its own     *)
(* function, and what the processor reads back. Two rows must not have the  *)
(* same bytes.                                                              *)
EXTENDS Legacy

InstructionRows == Rows \cup LegacyRows
IsLegacy(s) == s.row.form \in DOMAIN LegacyForms
Calls(row, n) == IF row.form \in DOMAIN LegacyForms THEN LegacyShapes(row, n) ELSE Shapes(row, n)
Lines(row, n) ==
  {IF IsLegacy(s) THEN LegacyAssembled(s) ELSE Assembled(s) :
     s \in {s \in Calls(row, n) : IF IsLegacy(s) THEN LegacyAccepted(s) ELSE Accepted(s)}}

-----------------------------------------------------------------------------
VARIABLE line    \* the instruction of a row that was written last
NoLine == [none |-> TRUE]
TableInit == line = NoLine
Assemble == line = NoLine /\ \E row \in InstructionRows, n \in {0, 16} : line' \in Lines(row, n)
Finish == line # NoLine /\ line' = NoLine
TableNext == Assemble \/ Finish
TableSpec == TableInit /\ [][TableNext]_line

-----------------------------------------------------------------------------
(* What the processor knows: an instruction by the fields that are not      *)
(* operands; Any where a field is one. REX and REX2 only extend what the    *)
(* legacy encoding has, with the exceptions that a row has marks for.       *)
Any == 8
OnFlags(s) == IsLegacy(s) /\ LegacyForms[s.row.form][4] = "f"
RegFixed(s) ==
  IF IsLegacy(s) THEN \/ LegacyForms[s.row.form][3] \in {"digit", "gdigit", "rdigit"}
                      \/ How(s) \in {"rext", "byte", "st", "fpu"}
                      \/ OnFlags(s) /\ LegacyForms[s.row.form][3] # "g"
  ELSE Forms[s.row.form][2] \in {"digit", "gdigit"}
Space(p) == CASE p.enc = "vex" -> "vex" [] p.enc \in {"evex", "leg"} -> "evex" [] OTHER -> "legacy"
Pattern(a) ==
  LET s == a.shape
  IN  [op |-> <<Space(a.p), s.row.type \cap {"9B", "REX2"}, a.p.p67, a.p.pp, a.p.map, a.code, a.p.W, a.p.L,
                a.p.b \/ a.p.ND>>,
       mod |-> IF ~a.m.present THEN Any ELSE IF a.m.mod = 3 THEN 3 ELSE 0,
       reg |-> IF a.m.present /\ RegFixed(s) THEN a.m.reg ELSE Any,
       rm |-> IF IsLegacy(s) /\ How(s) = "byte" THEN a.m.rm ELSE Any,
       aaa |-> IF a.p.enc = "leg" THEN a.p.aaa ELSE Any,
       V4 |-> IF ~OnFlags(s) THEN Any ELSE IF a.p.V4 THEN 1 ELSE 0]
Agree(x, y) == x = y \/ Any \in {x, y}
Overlap(p, q) ==
  /\ p.op = q.op
  /\ Agree(p.mod, q.mod) /\ Agree(p.reg, q.reg) /\ Agree(p.rm, q.rm)
  /\ Agree(p.aaa, q.aaa) /\ Agree(p.V4, q.V4)

\* Names of one instruction.
Synonyms ==
  {{op \o cc : cc \in {cc \in DOMAIN CC : CC[cc] = n}} : op \in {"cmov", "j", "set"}, n \in 0..15}
    \cup {{op \o cc : cc \in {cc \in DOMAIN CC : CC[cc] = n}} : op \in {"ccmp", "ctest"}, n \in 0..15 \ {10, 11}}
    \cup {{"sal", "shl"}, {"rep", "repe", "repz"}, {"repne", "repnz", "bnd"}, {"wait", "fwait"}, {"popf", "popfq"},
          {"pushf", "pushfq"}}
Meaning(a) == [name |-> a.shape.row.name, imm |-> a.shape.row.imm, r |-> a.shape.r.kind, rm |-> a.shape.rm.kind]
SameMeaning(a, b) ==
  /\ a.name = b.name \/ \E names \in Synonyms : {a.name, b.name} \subseteq names
  /\ [a EXCEPT !.name = b.name] = b

\* Calls that the code accepts and no processor has an encoding for: the forms of
\* three EVEX instructions whose rows ask for EVEX only where an operand needs
\* it; the moves from memory that, without a third operand, take a register; the
\* elements of 32 bits of a register of 64; the moves and comparisons of x87 to a
\* register that is not st0; 0F after REX2.
NoSuchForm(a) ==
  \/ a.p.enc = "vex" /\ a.shape.row.name \in {"vp2intersectd", "vp2intersectq"}
  \/ a.p.enc = "vex" /\ a.shape.row.name = "vpermq" /\ a.shape.row.form = "yye"
  \/ a.shape.row.form = "movHL" /\ ~IsMem(a.shape.rm)
  \/ a.shape.row.name \in {"pextrd", "pinsrd"} /\ a.p.W
  \/ a.shape.row.form = "st" /\ a.code = 0
  \/ Shifted(a)

\* By the opcode that is written, which is that of the row or the next one, or 0F.
Opcodes == 0..255
RowsWith == [c \in Opcodes |-> {row \in InstructionRows : row.code \in {c, c - 1} \/ (c = \h0F /\ row.form = "seg")}]
WrittenWith(c) == {a \in UNION {Lines(row, n) : row \in RowsWith[c], n \in {0, 16}} : a.code = c}
Known == [c \in Opcodes |-> {<<Pattern(a), Meaning(a)>> : a \in WrittenWith(c)}]
KnownForms == [c \in Opcodes |-> {<<Pattern(a), Meaning(a)>> : a \in {a \in WrittenWith(c) : ~NoSuchForm(a)}}]
HasBytesOfItsOwn(a, known) == \A k \in known[a.code] : Overlap(k[1], Pattern(a)) => SameMeaning(k[2], Meaning(a))

(* The bytes of an operand in memory, by the manuals. Scalars, and elements *)
(* of what is expanded, gathered or broadcast, have a size of their own;    *)
(* what widens or narrows has a part of the vector; the rest has all of it. *)
Suffixed(ops, s) == {"v" \o op \o s : op \in ops}
FmaOps == {f \o o : f \in {"fmadd", "fmsub", "fnmadd", "fnmsub"}, o \in {"132", "213", "231"}}
FmaAlternating == {f \o o : f \in {"fmaddsub", "fmsubadd"}, o \in {"132", "213", "231"}}
ScalarOps ==
  {"add", "sub", "mul", "div", "max", "min", "sqrt", "getexp", "getmant", "range", "reduce", "rndscale", "scalef",
   "fixupimm", "rcp14", "rsqrt14", "rcp28", "rsqrt28", "rcp", "rsqrt", "minmax", "fpclass", "cmp", "comi", "ucomi",
   "comx", "ucomx", "mov"} \cup FmaOps
Ints == {"si", "usi", "sis", "usis"}
Converted(from, to) == {c \o from \o "2" \o t : c \in {"vcvt", "vcvtt"}, t \in to}
FromInt == {"vcvtsi2sh", "vcvtsi2ss", "vcvtsi2sd", "vcvtusi2sh", "vcvtusi2ss", "vcvtusi2sd"}
Packed(suffixes) == UNION {{"vp" \o op \o s : op \in {"compress", "expand"}} : s \in suffixes}
Elements(op, suffixes) == {op \o s : s \in suffixes}
Bytes1 == {"vpextrb", "vpinsrb", "vpbroadcastb", "bsrmovf", "bsrmovh", "bsrmovl"} \cup Packed({"b"})
Bytes2 ==
  {"vpextrw", "vpinsrw", "vpbroadcastw", "vcomisbf16"} \cup Packed({"w"}) \cup Suffixed(ScalarOps, "sh")
    \cup Converted("sh", Ints \cup {"ss", "sd"})
Indexed(suffixes) == UNION {Elements(op, suffixes) : op \in {"vgather", "vpgather", "vscatter", "vpscatter"}}
Prefetched(suffixes) == UNION {Elements(op, suffixes) : op \in
  {"vgatherpf0", "vgatherpf1", "vscatterpf0", "vscatterpf1"}}
Bytes4 ==
  {"vextractps", "vinsertps", "vpextrd", "vpinsrd", "vbroadcastss", "vpbroadcastd", "vcompressps", "vexpandps"}
    \cup Packed({"d"}) \cup Suffixed(ScalarOps, "ss") \cup Converted("ss", Ints \cup {"sh", "sd"})
    \cup Indexed({"dps", "qps", "dd", "qd"}) \cup Prefetched({"dps", "qps"})
Bytes8 ==
  {"vpextrq", "vpinsrq", "vbroadcastsd", "vpbroadcastq", "vbroadcastf32x2", "vbroadcasti32x2", "vcompresspd",
   "vexpandpd", "vmovq", "vmovhps", "vmovlps", "vmovhpd", "vmovlpd"}
    \cup Packed({"q"}) \cup Suffixed(ScalarOps, "sd") \cup Converted("sd", Ints \cup {"sh", "ss"})
    \cup Indexed({"dpd", "qpd", "dq", "qq"}) \cup Prefetched({"dpd", "qpd"})
Blocks(suffixes) == UNION {Elements(op, suffixes) : op \in {"vbroadcast", "vextract", "vinsert"}}
Bytes16 == Blocks({"f32x4", "f64x2", "i32x4", "i64x2"})
Bytes32 == Blocks({"f32x8", "f64x4", "i32x8", "i64x4"})
ShiftsByVector == {"vpslld", "vpsllq", "vpsllw", "vpsrad", "vpsraq", "vpsraw", "vpsrld", "vpsrlq", "vpsrlw"}
Moves(pairs) == UNION {Elements(op, pairs) : op \in {"vpmov", "vpmovs", "vpmovus"}}
Extends(pairs) == UNION {Elements(op, pairs) : op \in {"vpmovsx", "vpmovzx"}}
Halves ==
  Moves({"wb", "dw", "qd"}) \cup Extends({"bw", "wd", "dq"})
    \cup Converted("ps", {"pd", "ph", "qq", "uqq", "qqs", "uqqs"}) \cup Converted("ph", {"ps", "psx", "dq", "udq"})
    \cup {"vcvtdq2pd", "vcvtudq2pd", "vcvthf82ph", "vcvtbf42hf8", "vcvtbf82bf4s", "vcvthf82bf4s"}
Quarters ==
  Moves({"db", "qw"}) \cup Extends({"bd", "wq"}) \cup Converted("ph", {"pd", "qq", "uqq"})
    \cup {"vcvtbf82ps", "vcvthf82ps", "vpmovssdb"}
Eighths == Moves({"qb"}) \cup Extends({"bq"})

\* Half-precision sources, where a broadcast repeats 16 bits.
Elements16 ==
  UNION {Suffixed(ScalarOps \cup FmaAlternating, s) : s \in {"ph", "bf16"}} \cup Converted("ph", {"pd", "psx", "dq",
    "udq", "qq", "uqq", "w", "uw", "ibs", "iubs", "bf8", "bf8s", "hf8", "hf8s"}) \cup Converted("bf16", {"ibs", "iubs"})
    \cup Converted("2ph", {"bf8", "bf8s", "hf8", "hf8s"}) \cup Converted("biasph", {"bf8", "bf8s", "hf8", "hf8s"})
    \cup {"vcvtw2ph", "vcvtuw2ph"}
MemoryBytes(a) ==
  LET n == a.shape.row.name
      VL == a.shape.w \div 8
  IN  CASE a.p.b -> IF a.p.W THEN 8 ELSE IF n \in Elements16 THEN 2 ELSE 4
        [] ~a.p.b /\ n \in FromInt -> IF a.p.W THEN 8 ELSE 4
        [] ~a.p.b /\ n \in Bytes1 -> 1 [] ~a.p.b /\ n \in Bytes2 -> 2
        [] ~a.p.b /\ n \in Bytes4 -> 4 [] ~a.p.b /\ n \in Bytes8 -> 8
        [] ~a.p.b /\ n \in Bytes16 -> 16 [] ~a.p.b /\ n \in Bytes32 -> 32
        [] ~a.p.b /\ n \in ShiftsByVector /\ ~RegFixed(a.shape) -> 16
        [] ~a.p.b /\ n = "vmovddup" /\ VL = 16 -> 8
        [] ~a.p.b /\ n \in Halves -> VL \div 2 [] ~a.p.b /\ n \in Quarters -> VL \div 4
        [] ~a.p.b /\ n \in Eighths -> VL \div 8
        [] OTHER -> VL

\* The flags of these rows have the sizes of the source swapped: [r16 + 64] is read
\* at [r16 + 32] and at [r16 + 128]. Without r16 the form is VEX.
SizesSwapped == {"vcvtss2si", "vcvttss2si", "vcvtsd2si", "vcvttsd2si"}

-----------------------------------------------------------------------------
\* No two instructions have the same bytes: what is assembled under one name is
\* not read as another, with another immediate or operands of another kind
\* (the tables of gen_code.cpp and gen_avx512.cpp and the functions written by
\* hand, through opVex, opRO, opROO and the rest).
OneMeaning == line # NoLine /\ ~NoSuchForm(line) => HasBytesOfItsOwn(line, KnownForms)

\* A compressed displacement counts in the size that the instruction's operand
\* has: the T_N flags of a row, with T_N_VL and the broadcast, are those of the
\* manuals, and the address that is read is the one that was written.
DisplacementKept ==
  line # NoLine /\ IsMem(line.shape.rm) /\ ~Shifted(line) /\ line.shape.row.name \notin SizesSwapped =>
    line.m.disp * (IF line.p.enc = "evex" /\ line.m.size = 1 THEN MemoryBytes(line) ELSE 1) = Disp

\* doc/changelog.md:120: "support vp2intersectd, vp2intersectq (not tested)". Each
\* of the two has bytes of its own.
ClaimVp2intersect ==
  line # NoLine /\ line.shape.row.name \in {"vp2intersectd", "vp2intersectq"} => HasBytesOfItsOwn(line, Known)
=============================================================================
