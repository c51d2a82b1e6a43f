------------------------------- MODULE Linker -------------------------------
(***************************************************************************)
(* How xbyak turns label references into displacement bytes: CodeArray     *)
(* (the code buffer, fixed or AutoGrow), the Label half of LabelManager    *)
(* (definitions and pending forward references) and the CodeGenerator      *)
(* functions that emit references (opJmp, opJmpAbs, opAddr, setSIB,        *)
(* putL_inner).                                                            *)
(*                                                                         *)
(* The bytes of the buffer are abstracted to its reference FIELDS: refs    *)
(* maps the offset of every displacement or address field emitted so far   *)
(* to the value its bytes hold (val) and to what the caller asked for      *)
(* (kind, to, disp, imm), which the program itself does not keep.          *)
(* A Label stands for its id; Label objects are in module LabelHandle.     *)
(***************************************************************************)
EXTENDS Integers, FiniteSets

CONSTANTS
  Labels,          \* the labels of the client program
  NoLabel,         \* "no label": the target of a jump to an outside address
  AutoGrow,        \* type_ = AUTO_GROW: the buffer moves when it is full
  InitMax,         \* maxSize passed to the constructor
  DefaultMax,      \* DEFAULT_MAX_CODE_SIZE
  MemLimit,        \* the largest block the allocator can give
  Tops,            \* addresses at which the allocator may place a block
  Half8, Half32,   \* a signed 8-bit (32-bit) field holds -Half .. Half-1
  DefaultJmpNEAR,  \* isDefaultJmpNEAR_
  Reopen,          \* does the client emit code after an AutoGrow ready()?
  AssignTo,        \* the labels that the client defines by assignL, too
  Pads,            \* sizes of the instructions without a reference
  Prefs,           \* 1 for jcc near (0x0F prefix), 0 for jmp and call
  Disps, Imms,     \* displacements and trailing immediate sizes of operands
  Header,          \* opcode, ModRM and SIB bytes of a memory operand
  Exts,            \* addresses outside the buffer
  CodeLimit,       \* bound: nothing is emitted beyond this size
  RefLimit         \* bound: number of references of one program

ASSUME LinkerAssumption ==
  /\ NoLabel \notin Labels
  /\ AutoGrow \in BOOLEAN /\ DefaultJmpNEAR \in BOOLEAN
  /\ Reopen \in BOOLEAN /\ AssignTo \subseteq Labels
  /\ InitMax \in Nat /\ DefaultMax \in Nat /\ DefaultMax >= 32
  /\ MemLimit \in Nat
  /\ Tops \subseteq Nat /\ Tops # {}
  /\ Half8 \in Nat \ {0} /\ Half32 \in Nat \ {0}
  /\ Pads \subseteq 0..16 /\ Prefs \subseteq {0, 1} /\ Imms \subseteq 0..4
  /\ Header \in 0..11   \* an instruction has at most 15 bytes
  /\ Disps \subseteq Int /\ Exts \subseteq Int
  /\ CodeLimit \in Nat /\ RefLimit \in Nat

VARIABLES
  buf,       \* [top |-> top_, max |-> maxSize_, size |-> size_]
  refs,      \* offset of a field -> what it holds and what it is for
  undef,     \* clabelUndefList_: forward references, as JmpLabel records
  info,      \* addrInfoList_: fields that ready() has to fill in
  defs,      \* clabelDefList_: label -> offset
  isCalled,  \* isCalledCalcJmpAddress_
  done,      \* the last call was a ready() that returned normally
  err        \* what the last call threw

vars == <<buf, refs, undef, info, defs, isCalled, done, err>>

-----------------------------------------------------------------------------
(* Numbers.                                                                *)

\* Definitions marked "Bug:" are no part of the model. They are what a slip
\* in the code would make of the definition that follows; PROJECT.json names
\* the property that notices.

InDisp8(x) == -Half8 <= x /\ x < Half8
InInt32(x) == -Half32 <= x /\ x < Half32

\* What a field of that many bytes holds after x is stored in it.
Wrap(x, half) ==
  IF -half <= x /\ x < half THEN x ELSE ((x + half) % (2 * half)) - half
Stored(x, size) ==
  CASE size = 1 -> Wrap(x, Half8)
    [] size = 4 -> Wrap(x, Half32)
    [] OTHER    -> x

-----------------------------------------------------------------------------
(* The buffer. An outcome is what the buffer is after some db() calls and  *)
(* the error they threw, if any: db() throws in the middle of an           *)
(* instruction and leaves the bytes already written.                       *)

Buffer(top, max, size) == [top |-> top, max |-> max, size |-> size]
Outcome(b, e) == [buf |-> b, err |-> e]

NewMax(b) == IF DefaultMax >= 2 * b.max THEN DefaultMax ELSE 2 * b.max

\* growMemory: a new block, the code copied, the old block freed. size is
\* the size of the code when the instruction that needs room is complete.
GrowMemory(b, size) ==
  {Outcome(b, "cant_alloc")} \cup
  {Outcome(Buffer(t, NewMax(b), size), "none") :
     t \in IF NewMax(b) <= MemLimit THEN Tops \ {b.top} ELSE {}}

\* Bug: db() tests size_ > maxSize_.
EmitPastEnd(b, n) ==
  IF b.size + n <= b.max + 1 \/ AutoGrow
  THEN {Outcome(Buffer(b.top, b.max, b.size + n), "none")}
  ELSE {Outcome(Buffer(b.top, b.max, b.max), "too_big")}

\* n calls of db(): growth or an error at the first byte that does not fit.
Emit(b, n) ==
  IF b.size + n <= b.max THEN {Outcome(Buffer(b.top, b.max, b.size + n), "none")}
  ELSE IF AutoGrow THEN GrowMemory(Buffer(b.top, b.max, b.max), b.size + n)
  ELSE {Outcome(Buffer(b.top, b.max, b.max), "too_big")}

\* opJmp, opJmpAbs and putL_inner grow ahead of a reference.
Reserve(b) ==
  IF AutoGrow /\ b.size + 16 >= b.max THEN GrowMemory(b, b.size) ELSE {Outcome(b, "none")}

-----------------------------------------------------------------------------
(* References.                                                             *)

Field(kind, to, disp, imm, size, val) ==
  [kind |-> kind, to |-> to, disp |-> disp, imm |-> imm,
   size |-> size, val |-> val]

\* JmpLabel and AddrInfo
JmpLabel(l, end, size, mode, disp) ==
  [label |-> l, end |-> end, size |-> size, mode |-> mode, disp |-> disp]
AddrInfo(off, val, size, mode) ==
  [off |-> off, val |-> val, size |-> size, mode |-> mode]

With(f, x, v) == [y \in DOMAIN f \cup {x} |-> IF y = x THEN v ELSE f[y]]

\* Bug: the address of the code is not subtracted.
GetValUnmoved(i, top) == IF i.mode = "LaddTop" THEN i.val + top ELSE i.val

\* AddrInfo::getVal without its range check.
GetVal(i, top) ==
  CASE i.mode = "LaddTop" -> i.val + top
    [] i.mode = "LasIs"   -> i.val
    [] i.mode = "Labs"    -> i.val - top

Unfit(i, top) == i.size = 4 /\ ~InInt32(GetVal(i, top))

\* rewrite: v(w) is stored in the field that starts at w.off.
Rewrite(W, v(_)) ==
  [o \in DOMAIN refs |->
     IF \E w \in W : w.off = o
     THEN LET w == CHOOSE w \in W : w.off = o
          IN [refs[o] EXCEPT !.val = Stored(v(w), w.size)]
     ELSE refs[o]]

\* The call ends, with an error or without, and records no reference.
Return(b, e) ==
  /\ buf' = b /\ err' = e /\ done' = FALSE
  /\ UNCHANGED <<refs, undef, info, defs, isCalled>>

\* n bytes that end in field f, then f.imm bytes of immediate. U and I are
\* what is recorded between the two.
Place(b, n, f, U, I) ==
  \E r \in Emit(b, n) :
    IF r.err # "none" THEN Return(r.buf, r.err)
    ELSE \E q \in Emit(r.buf, f.imm) :
           /\ buf' = q.buf /\ err' = q.err /\ done' = FALSE
           /\ refs' = With(refs, b.size + n - f.size, f)
           /\ undef' = undef \cup U
           /\ info' = info \cup I
           /\ UNCHANGED <<defs, isCalled>>

\* Code may be emitted: the client has not finished the code, or reopens it.
Open ==
  /\ isCalled => Reopen
  /\ buf.size < CodeLimit
  /\ Cardinality(DOMAIN refs) < RefLimit

-----------------------------------------------------------------------------
(* Operations of CodeGenerator.                                            *)

\* Instructions and data without a reference, nop, align.
Db(n) ==
  /\ Open
  /\ \E r \in Emit(buf, n) : Return(r.buf, r.err)

\* makeJmp, with disp counted from the start of the instruction.
MakeJmp(b, disp, type, pref, kind, to, addr) ==
  LET long == pref + 5 IN
  IF type # "near" /\ InDisp8(disp - 2)
  THEN Place(b, 2, Field(kind, to, addr, 0, 1, disp - 2), {}, {})
  ELSE IF type = "short" THEN Return(b, "too_far")
  ELSE Place(b, long, Field(kind, to, addr, 0, 4, Stored(disp - long, 4)), {}, {})

IsNEAR(type) == type = "near" \/ (type = "auto" /\ DefaultJmpNEAR)

\* opJmp to a label that is not defined yet.
JmpForward(b, l, type, pref) ==
  LET n    == IF IsNEAR(type) THEN pref + 5 ELSE 2
      size == IF IsNEAR(type) THEN 4 ELSE 1
  IN Place(b, n, Field("rel", l, 0, 0, size, 0),
           {JmpLabel(l, b.size + n, size, "LasIs", 0)}, {})

\* jmp, jcc, call with a Label.
Jmp(l, type, pref) ==
  /\ Open
  /\ \E r \in Reserve(buf) :
       IF r.err # "none" THEN Return(r.buf, r.err)
       ELSE IF l \notin DOMAIN defs THEN JmpForward(r.buf, l, type, pref)
       ELSE LET disp == defs[l] - r.buf.size IN
            IF ~InInt32(disp) THEN Return(r.buf, "offset_too_big")
            ELSE MakeJmp(r.buf, disp, type, pref, "rel", l, 0)

\* opJmpAbs: jmp, jcc, call with the address of a function.
JmpAbs(a, type, pref) ==
  LET n == pref + 5 IN
  /\ Open
  /\ IF AutoGrow
     THEN IF ~IsNEAR(type) THEN Return(buf, "only_near")
          ELSE \E r \in Reserve(buf) :
                 LET end == r.buf.size + n IN
                 IF r.err # "none" THEN Return(r.buf, r.err)
                 ELSE Place(r.buf, n, Field("ext", NoLabel, a, 0, 4, 0), {},
                            {AddrInfo(end - 4, a - end, 4, "Labs")})
     ELSE LET disp == a - (buf.top + buf.size) IN
          IF ~InInt32(disp) THEN Return(buf, "offset_too_big")
          ELSE MakeJmp(buf, disp, type, pref, "ext", NoLabel, a)

\* putL_inner after pre bytes of the same instruction. ask is the
\* displacement the caller wrote, disp the one putL_inner is given.
PutL_inner(b, l, relative, ask, disp, size, imm) ==
  \E r \in Reserve(b) :
    LET end  == r.buf.size + size
        kind == IF relative THEN "rel" ELSE "abs"
        f(v) == Field(kind, l, ask, imm, size, v)
        mode == IF relative THEN "LasIs" ELSE IF AutoGrow THEN "LaddTop" ELSE "Labs"
        here == defs[l] + disp - end
    IN
    IF r.err # "none" THEN Return(r.buf, r.err)
    ELSE IF l \notin DOMAIN defs
      THEN Place(r.buf, size, f(0), {JmpLabel(l, end, size, mode, disp)}, {})
    ELSE IF relative
      THEN IF InInt32(here) THEN Place(r.buf, size, f(here), {}, {})
           ELSE Return(r.buf, "offset_too_big")
    ELSE IF AutoGrow
      THEN Place(r.buf, size, f(0), {}, {AddrInfo(end - size, defs[l], size, "LaddTop")})
    ELSE Place(r.buf, size, f(Stored(r.buf.top + defs[l], size)), {}, {})

\* putL, and mov(reg, label) with its Header bytes.
PutL(l, pre) ==
  /\ Open
  /\ \E r \in Emit(buf, pre) :
       IF r.err # "none" THEN Return(r.buf, r.err)
       ELSE PutL_inner(r.buf, l, FALSE, 0, 0, 8, 0)

\* RegExp(Label&): a label whose address is known is replaced by it, unless
\* the operand was built while the label was still undefined.
Folded(l) == {FALSE} \cup {(l \in DOMAIN defs) /\ (AutoGrow => isCalled)}

\* An instruction with operand [rip + l + d] and imm bytes of immediate.
RipRef(l, d, imm) ==
  /\ Open
  /\ \E r \in Emit(buf, Header), folded \in Folded(l) :
       LET here == defs[l] + d - (r.buf.size + 4 + imm) IN
       IF r.err # "none" THEN Return(r.buf, r.err)
       ELSE IF ~folded THEN PutL_inner(r.buf, l, TRUE, d, d - imm, 4, imm)
       ELSE IF AutoGrow THEN Return(r.buf, "rip_in_auto_grow")
       ELSE IF ~InInt32(here) THEN Return(r.buf, "offset_too_big")
       ELSE Place(r.buf, 4, Field("rel", l, d, imm, 4, here), {}, {})

\* An instruction with operand [reg + l + d] and imm bytes of immediate.
AbsRef(l, d, imm) ==
  LET addr == buf.top + defs[l] + d IN
  /\ Open
  /\ \E r \in Emit(buf, Header), folded \in Folded(l) :
       IF r.err # "none" THEN Return(r.buf, r.err)
       ELSE IF ~folded THEN PutL_inner(r.buf, l, FALSE, d, d - imm, 4, imm)
       ELSE IF ~InInt32(addr) THEN Return(r.buf, "offset_too_big")
       ELSE Place(r.buf, 4, Field("abs", l, d, imm, 4, addr), {}, {})

-----------------------------------------------------------------------------
(* Defining labels.                                                        *)

\* The value define_inner stores for pending reference u when its label is
\* defined at offset a.
Resolve(u, a) ==
  CASE u.mode = "LaddTop" -> a + u.disp
    [] u.mode = "Labs"    -> buf.top + buf.size + u.disp
    [] u.mode = "LasIs"   -> a - u.end + u.disp

OffsetTooBig(u, a) == u.mode = "LasIs" /\ u.size <= 4 /\ ~InInt32(Resolve(u, a))

\* Bug: no check that a 1-byte field can hold the distance.
TooFarUnchecked(u, a) == FALSE

TooFar(u, a) == u.mode = "LasIs" /\ u.size = 1 /\ ~InDisp8(Resolve(u, a))

Entry(u, a) == AddrInfo(u.end - u.size, Resolve(u, a), u.size, u.mode)

\* Bug: all references to the label are dropped, also after an error.
SettleDropsAll(S, a) ==
  LET W == {Entry(u, a) : u \in S} IN
  /\ undef' = {u \in undef : \A v \in S : u.label # v.label}
  /\ IF AutoGrow
     THEN info' = info \cup W /\ UNCHANGED refs
     ELSE refs' = Rewrite(W, LAMBDA w : w.val) /\ UNCHANGED info

\* The pending references S of the label are filled in (or saved) and dropped.
Settle(S, a) ==
  LET W == {Entry(u, a) : u \in S} IN
  /\ undef' = undef \ S
  /\ IF AutoGrow
     THEN info' = info \cup W /\ UNCHANGED refs
     ELSE refs' = Rewrite(W, LAMBDA w : w.val) /\ UNCHANGED info

\* The label is inserted first; its references are then taken in the order of
\* a hash table, and the first one out of reach throws.
Insert(l, a) ==
  LET P   == {u \in undef : u.label = l}
      bad == {u \in P : OffsetTooBig(u, a) \/ TooFar(u, a)}
  IN
  /\ defs' = With(defs, l, a)
  /\ \/ bad = {} /\ Settle(P, a) /\ err' = "none"
     \/ \E S \in SUBSET (P \ bad), u \in bad :
          /\ Settle(S, a)
          /\ err' = IF OffsetTooBig(u, a) THEN "offset_too_big" ELSE "too_far"

\* Bug: a second definition of a label is accepted.
DefineAgain(l, a) ==
  /\ done' = FALSE
  /\ UNCHANGED <<buf, isCalled>>
  /\ Insert(l, a)

\* define_inner
DefineInner(l, a) ==
  /\ done' = FALSE
  /\ UNCHANGED <<buf, isCalled>>
  /\ IF l \in DOMAIN defs
     THEN err' = "redefined" /\ UNCHANGED <<refs, undef, info, defs>>
     ELSE Insert(l, a)

\* L(label): defineClabel
L(l) ==
  /\ isCalled => Reopen
  /\ DefineInner(l, buf.size)

\* assignL(dst, src): assign. dst has an id: a label that was never used
\* has none yet and is the subject of module LabelHandle.
AssignL(dst, src) ==
  /\ dst \in AssignTo
  /\ isCalled => Reopen
  /\ dst \in DOMAIN defs \/ \E u \in undef : u.label = dst
  /\ IF src \in DOMAIN defs THEN DefineInner(dst, defs[src])
     ELSE Return(buf, "not_set_by_L")

-----------------------------------------------------------------------------
(* Completion.                                                             *)

\* ready and calcJmpAddress. The list is processed entry by entry, and a
\* value that does not fit in 32 bits throws half-way.
Ready ==
  LET unfit == {i \in info : Unfit(i, buf.top)}
      Fill(S) == Rewrite(S, LAMBDA i : GetVal(i, buf.top))
  IN
  /\ UNCHANGED <<buf, undef, info, defs>>
  /\ \/ /\ undef # {}
        /\ err' = "not_found" /\ done' = FALSE
        /\ UNCHANGED <<refs, isCalled>>
     \/ /\ undef = {} /\ (AutoGrow => isCalled)
        /\ err' = "none" /\ done' = TRUE
        /\ UNCHANGED <<refs, isCalled>>
     \/ /\ undef = {} /\ AutoGrow /\ ~isCalled /\ unfit = {}
        /\ refs' = Fill(info)
        /\ isCalled' = TRUE /\ err' = "none" /\ done' = TRUE
     \/ /\ undef = {} /\ AutoGrow /\ ~isCalled /\ unfit # {}
        /\ \E S \in SUBSET (info \ unfit) : refs' = Fill(S)
        /\ err' = "offset_too_big" /\ done' = FALSE
        /\ UNCHANGED isCalled

\* Bug: reset() clears the buffer and not the labels.
ResetKeepsLabels ==
  /\ buf' = [buf EXCEPT !.size = 0]
  /\ refs' = [o \in {} |-> 0]
  /\ isCalled' = FALSE /\ done' = FALSE /\ err' = "none"
  /\ UNCHANGED <<defs, undef, info>>

\* reset: resetSize and LabelManager::reset. The block is kept.
Reset ==
  /\ buf' = [buf EXCEPT !.size = 0]
  /\ refs' = [o \in {} |-> 0]
  /\ defs' = [l \in {} |-> 0]
  /\ undef' = {} /\ info' = {}
  /\ isCalled' = FALSE /\ done' = FALSE /\ err' = "none"

-----------------------------------------------------------------------------
Types == {"short", "near", "auto"}

\* The constructor; top_ is a block of max(maxSize, 1) bytes.
Init ==
  /\ \E t \in Tops : buf = [top |-> t, max |-> InitMax, size |-> 0]
  /\ refs = [o \in {} |-> 0]
  /\ defs = [l \in {} |-> 0]
  /\ undef = {} /\ info = {}
  /\ isCalled = FALSE /\ done = FALSE /\ err = "none"

Next ==
  \/ \E n \in Pads : Db(n)
  \/ \E l \in Labels, type \in Types, pref \in Prefs : Jmp(l, type, pref)
  \/ \E a \in Exts, type \in Types, pref \in Prefs : JmpAbs(a, type, pref)
  \/ \E l \in Labels, pre \in {0, Header} : PutL(l, pre)
  \/ \E l \in Labels, d \in Disps, imm \in Imms : RipRef(l, d, imm)
  \/ \E l \in Labels, d \in Disps, imm \in Imms : AbsRef(l, d, imm)
  \/ \E l \in Labels : L(l)
  \/ \E dst, src \in Labels : AssignL(dst, src)
  \/ Ready
  \/ Reset

Spec == Init /\ [][Next]_vars

-----------------------------------------------------------------------------
(* Properties.                                                             *)

Kinds == {"rel", "abs", "ext"}
Modes == {"LasIs", "Labs", "LaddTop"}
Sizes == {1, 4, 8}
Errors == {"none", "cant_alloc", "too_big", "too_far", "offset_too_big",
           "only_near", "rip_in_auto_grow", "redefined", "not_set_by_L",
           "not_found"}

\* The types of the state of CodeArray and LabelManager.
TypeOK ==
  /\ buf \in [top : Tops, max : Nat, size : Nat]
  /\ DOMAIN refs \subseteq Nat
  /\ \A o \in DOMAIN refs :
       refs[o] \in [kind : Kinds, to : Labels \cup {NoLabel}, disp : Int,
                   imm : Nat, size : Sizes, val : Int]
  /\ undef \subseteq [label : Labels, end : Nat, size : Sizes, mode : Modes,
                     disp : Int]
  /\ info \subseteq [off : Nat, val : Int, size : Sizes, mode : Modes]
  /\ DOMAIN defs \subseteq Labels
  /\ \A l \in DOMAIN defs : defs[l] \in Nat
  /\ isCalled \in BOOLEAN /\ done \in BOOLEAN
  /\ err \in Errors

\* What the field at o has to hold, for the bytes the processor reads there
\* to designate what the caller wrote.
Target(o) ==
  LET f    == refs[o]
      next == o + f.size + f.imm   \* offset of the next instruction
  IN CASE f.kind = "rel" -> defs[f.to] + f.disp - next
       [] f.kind = "abs" -> buf.top + defs[f.to] + f.disp
       [] f.kind = "ext" -> f.disp - (buf.top + next)

\* A 4-byte absolute field holds the low half of an address: it is for the
\* client to keep such labels below 2 GiB (doc/usage.md:358).
Correct(o) ==
  /\ refs[o].kind # "ext" => refs[o].to \in DOMAIN defs
  /\ refs[o].val = IF refs[o].kind = "abs" THEN Stored(Target(o), refs[o].size)
                   ELSE Target(o)

\* The references that the code resolves correctly. The others are those of
\* the violation runs: AutoGrow code emitted after ready(); an absolute
\* reference with a displacement or an immediate, or one mixed with assignL
\* in a fixed buffer; a jump over 2 GiB back, whose distance makeJmp checks
\* before it subtracts the length of the instruction.
Supported(o) ==
  LET f == refs[o] IN
  /\ AutoGrow => ~Reopen
  /\ f.kind = "abs" =>
       f.disp = 0 /\ f.imm = 0 /\ (AutoGrow \/ f.to \notin AssignTo)
  /\ (f.kind = "rel" /\ f.to \in DOMAIN defs) \/ (f.kind = "ext" /\ ~AutoGrow)
       => Target(o) >= -Half32 \/ Target(o) < -Half32 - 6

\* A client may rely on ready(): when it returns without an error, every
\* reference that was emitted holds what it should for the address the
\* buffer has in the end, however often the buffer moved and whatever calls
\* failed before (CodeGenerator::ready, calcJmpAddress).
ReadyMeansLinked ==
  done => \A o \in DOMAIN refs : Supported(o) => Correct(o)

\* The pending reference (saved entry) that will fill in the field at o.
PendingFor(u, o) ==
  LET f == refs[o] IN
  /\ u.end = o + f.size /\ u.size = f.size
  /\ u.label = f.to /\ u.disp = f.disp - f.imm
  /\ f.kind # "ext"
  /\ u.mode = IF f.kind = "rel" THEN "LasIs"
               ELSE IF AutoGrow THEN "LaddTop" ELSE "Labs"
SavedFor(i, o) ==
  /\ i.off = o /\ i.size = refs[o].size
  /\ refs[o].kind # "ext" => refs[o].to \in DOMAIN defs
  /\ i.mode = CASE refs[o].kind = "rel" -> "LasIs"
                [] refs[o].kind = "abs" -> "LaddTop"
                [] refs[o].kind = "ext" -> "Labs"
  /\ GetVal(i, buf.top) = Target(o)

\* No reference is ever forgotten: until it is correct, it waits in
\* clabelUndefList_ for its label or in addrInfoList_ for ready(), also when
\* a definition failed half-way (define_inner) or ready() did (getVal). What
\* depends on the address of AutoGrow code waits until ready() in any case,
\* and no saved value is wrong.
Accounted(o) ==
  \/ Correct(o) /\ (AutoGrow /\ refs[o].kind # "rel" => isCalled)
  \/ \E u \in undef : PendingFor(u, o)
  \/ AutoGrow /\ ~isCalled /\ \E i \in info : SavedFor(i, o)
NothingLost ==
  /\ \A o \in DOMAIN refs : Supported(o) => Accounted(o)
  /\ \A i \in info : Supported(i.off) => SavedFor(i, i.off)

\* Late writes stay inside the field they are for: rewrite() through a
\* pending reference or a saved entry covers exactly one emitted field, of the
\* same size and for the same label, no field is written through two of them,
\* fields do not overlap and all lie in the code (define_inner,
\* calcJmpAddress).
PatchesHitFields ==
  /\ \A o, p \in DOMAIN refs : o < p => o + refs[o].size <= p
  /\ \A o \in DOMAIN refs : o + refs[o].size <= buf.size
  /\ buf.size <= buf.max
  /\ \A u \in undef : u.end - u.size \in DOMAIN refs /\ PendingFor(u, u.end - u.size)
  /\ \A i \in info : i.off \in DOMAIN refs /\ refs[i.off].size = i.size
  /\ \A u, v \in undef : u.end - u.size = v.end - v.size => u = v
  /\ \A i, j \in info : i.off = j.off => i = j
  /\ \A u \in undef, i \in info : u.end - u.size # i.off

\* A label whose definition failed is lost for good: the references that
\* were out of reach stay pending, so ready() keeps refusing the code, and
\* no later L or assignL takes them, until reset() (define_inner).
FailedDefinitionIsFinal ==
  [][\A u \in undef : u.label \in DOMAIN defs =>
       \/ u \in undef' /\ defs'[u.label] = defs[u.label]
       \/ undef' = {} /\ buf'.size = 0]_vars

\* What the flags and lists of the generator say of each other.
Bookkeeping ==
  /\ isCalled => AutoGrow
  /\ isCalled /\ ~Reopen => undef = {}
  /\ done => undef = {} /\ (AutoGrow => isCalled)
  /\ \A u \in undef : u.size = 1 => u.mode = "LasIs"
  /\ \A i \in info : i.size = 1 => i.mode = "LasIs" /\ InDisp8(i.val)

\* The inductive invariant of module LinkerProofs, which implies NothingLost
\* and ReadyMeansLinked.
IInv == TypeOK /\ Bookkeeping /\ PatchesHitFields /\ NothingLost
=============================================================================
