--------------------------- MODULE MnemonicTable ----------------------------
(* The notation of the instruction tables, VexTable and EvexTable. A row is *)
(* one of the functions that the generators in gen/ write: its name, the    *)
(* T_ flags it passes on (type, without T_), the opcode, whether it takes   *)
(* an 8-bit immediate, and the form of its operands, which says what the    *)
(* function checks and where it puts them. digit is the reg field of a form *)
(* that has no register there. A form is spelt with x, y, z for registers   *)
(* of 128, 256 and 512 bits, v for any of them, h for the next narrower     *)
(* one, e for a register or memory, m for memory, k for a mask, r and q for *)
(* general registers of 32 and 64 bits, t for a tile; see Mnemonics!Shapes. *)
EXTENDS Integers, Sequences

P0F == {"0F"}
P66_0F == {"66", "0F"}
F3_0F == {"F3", "0F"}
F2_0F == {"F2", "0F"}
P0F38 == {"0F38"}
P66_0F38 == {"66", "0F38"}
F3_0F38 == {"F3", "0F38"}
F2_0F38 == {"F2", "0F38"}
P0F3A == {"0F3A"}
P66_0F3A == {"66", "0F3A"}
F3_0F3A == {"F3", "0F3A"}
F2_0F3A == {"F2", "0F3A"}
MAP5 == {"MAP5"}
P66_MAP5 == {"66", "MAP5"}
F3_MAP5 == {"F3", "MAP5"}
F2_MAP5 == {"F2", "MAP5"}
MAP6 == {"MAP6"}
P66_MAP6 == {"66", "MAP6"}
F3_MAP6 == {"F3", "MAP6"}
F2_MAP6 == {"F2", "MAP6"}

\* Flags that usually go together. D, Q, H: elements of 32, 64 and 16 bits; SS,
\* SD, SH: one of them. Evex: always EVEX; Both: EVEX where an operand needs it.
Both == {"YMM", "EVEX"}
BothD == Both \cup {"W0", "B32"}
BothQ == Both \cup {"EW1", "B64"}
BothSS == {"EVEX", "W0", "N4"}
BothSD == {"EVEX", "EW1", "N8"}
Evex0 == {"MUST_EVEX", "W0", "YMM"}
Evex1 == {"MUST_EVEX", "EW1", "YMM"}
EvexD == Evex0 \cup {"B32"}
EvexQ == Evex1 \cup {"B64"}
EvexH == Evex0 \cup {"B32", "B64"}
EvexSS == {"MUST_EVEX", "W0", "N4"}
EvexSD == {"MUST_EVEX", "EW1", "N8"}
EvexSH == {"MUST_EVEX", "W0", "N2"}

-----------------------------------------------------------------------------
Row(name, type, code, digit, imm) ==
  [name |-> name, type |-> type, code |-> code, digit |-> digit, imm |-> imm, form |-> ""]

\* Rows of one type: codes maps names to opcodes, or to opcodes and digits. The
\* i is for an immediate.
T(type, codes) == {Row(n, type, codes[n], 0, FALSE) : n \in DOMAIN codes}
Ti(type, codes) == {Row(n, type, codes[n], 0, TRUE) : n \in DOMAIN codes}
D(type, codes) == {Row(n, type, codes[n][1], codes[n][2], FALSE) : n \in DOMAIN codes}
Di(type, codes) == {Row(n, type, codes[n][1], codes[n][2], TRUE) : n \in DOMAIN codes}
Table(form, sets) == {[row EXCEPT !.form = form] : row \in UNION sets}
Named(prefix, ops, suffix, type) == {Row(prefix \o op \o suffix, type, ops[op], 0, FALSE) : op \in DOMAIN ops}

\* The orders in which a fused multiplication takes its operands.
Orders(ops, suffix, type) ==
  {Row(op \o order[1] \o suffix, type, ops[op] + order[2], 0, FALSE) :
     op \in DOMAIN ops, order \in {<<"132", \h90>>, <<"213", \hA0>>, <<"231", \hB0>>}}

\* The caller chooses the encoding, and each has flags of its own.
Encodings(type, typeVex, typeEvex, codes) ==
  {T(type \cup typeVex, codes), T(type \cup {"MUST_EVEX"} \cup typeEvex, codes)}
Imm(sets) == {{[row EXCEPT !.imm = TRUE] : row \in rows} : rows \in sets}
=============================================================================
