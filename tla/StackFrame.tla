----------------------------- MODULE StackFrame -----------------------------
(***************************************************************************)
(* class StackFrame of xbyak_util.h: the prolog that the constructor emits *)
(* for a request, the epilog that close() emits, and what the processor    *)
(* makes of them in a call of the function. The state is the machine; a    *)
(* register or a cell of the stack holds a token, <<"old", r>> being what  *)
(* the caller had in r. Addresses count from rsp at the entry.             *)
(***************************************************************************)
EXTENDS Integers, Sequences, FiniteSets, Functions

CONSTANTS
  Abis,        \* "win" (XBYAK64_WIN), "sysv": where the library is built
  PNums,       \* numbers of parameters, and of temporaries, to ask for
  TNums,
  StackSizes,  \* stackSizeByte
  VecUses      \* what is declared by UseSSE, UseAVX and NoVzeroupper

ASSUME StackFrameAssumption ==
  /\ Abis \subseteq {"win", "sysv"}
  /\ PNums \subseteq Int /\ TNums \subseteq Nat /\ StackSizes \subseteq Nat
  /\ VecUses \subseteq [kind : {"none", "SSE", "AVX", "both"}, num : 0..63,
                        noVz : BOOLEAN]

UseRegs == {"rcx", "rdx", "rsi", "rdi", "rbp"}

Requests ==
  [abi : Abis, pNum : PNums, tNum : TNums, use : SUBSET UseRegs,
   framePointer : BOOLEAN, r30r31 : BOOLEAN, push2 : BOOLEAN, ppx : BOOLEAN,
   stack : StackSizes, vec : VecUses]

VARIABLES
  req,    \* the arguments of the constructor
  sf,     \* the object: saveRegs_, P_, the tables of p and t
  phase,  \* how far the call of the function has come
  m       \* the machine

vars == <<req, sf, phase, m>>

-----------------------------------------------------------------------------
(* Tables.                                                                 *)

maxRegNum == 14

getRegEntryTbl(abi) ==
  (IF abi = "win"
   THEN <<"rcx", "rdx", "r8", "r9", "r10", "r11", "rdi", "rsi">>
   ELSE <<"rdi", "rsi", "rdx", "rcx", "r8", "r9", "r10", "r11">>)
  \o <<"rbx", "rbp", "r12", "r13", "r14", "r15">>

noSaveNum(abi) == IF abi = "win" THEN 6 ELSE 8
calleeTbl(abi) ==
  [i \in 1..(maxRegNum - noSaveNum(abi)) |-> getRegEntryTbl(abi)[noSaveNum(abi) + i]]

\* The registers that can be reserved, their places in the table, and what
\* stands for them then.
Slot(target, pos, alt) == [target |-> target, pos |-> pos, alt |-> alt]
getRegSlotTbl(abi) ==
  IF abi = "win"
  THEN <<Slot("rcx", 0, "r10"), Slot("rdx", 1, "r11"), Slot("rdi", 6, "none"),
         Slot("rsi", 7, "none")>>
  ELSE <<Slot("rcx", 3, "r10"), Slot("rdx", 2, "r11"), Slot("rdi", 0, "r8"),
         Slot("rsi", 1, "r9")>>

-----------------------------------------------------------------------------
(* What the constructor computes. Definitions marked "Bug:" are no part of *)
(* the model (see module Linker).                                          *)

useNum(r) == Cardinality(r.use)

\* The members of seq but "none", in order.
Registers(seq) ==
  LET first[i \in 0..Len(seq)] ==
        LET x == seq[i] IN
        CASE i = 0 -> <<>>
          [] i > 0 /\ x = "none" -> first[i - 1]
          [] OTHER -> Append(first[i - 1], x)
  IN first[Len(seq)]

\* ERR_BAD_PNUM, ERR_BAD_TNUM
Accepts(r) ==
  /\ r.pNum \in 0..4
  /\ r.vec.kind # "both"
  /\ r.vec.noVz => r.vec.kind = "AVX"
  /\ r.vec.num <= (CASE r.vec.kind = "AVX" -> 32 [] r.vec.kind = "SSE" -> 16
                     [] OTHER -> 0)
  /\ r.pNum + r.tNum + useNum(r) <= maxRegNum

\* Bug: reserved registers are not counted.
baseSaveNumUnreserved(r) ==
  LET n == r.pNum + r.tNum - noSaveNum(r.abi) IN IF n > 0 THEN n ELSE 0

baseSaveNum(r) ==
  LET n == r.pNum + r.tNum + useNum(r) - noSaveNum(r.abi)
  IN IF n > 0 THEN n ELSE 0

\* saveRegs_, in the order of the pushes; rbp is first when it is reserved.
saveRegs(r) ==
  LET tbl == calleeTbl(r.abi)
      saved(i) == IF tbl[i] \in r.use THEN tbl[i] # "rbp" ELSE i <= baseSaveNum(r)
  IN (IF "rbp" \in r.use THEN <<"rbp">> ELSE <<>>)
     \o (IF r.r30r31 THEN <<"r30", "r31">> ELSE <<>>)
     \o Registers([i \in DOMAIN tbl |-> IF saved(i) THEN tbl[i] ELSE "none"])

vecSaveNum(r) ==
  IF r.abi = "win" /\ r.vec.num > 6
  THEN (IF r.vec.num < 16 THEN r.vec.num ELSE 16) - 6 ELSE 0

vecPos(r) == ((r.stack + 15) \div 16) * 16

\* P_: the local stack, above it the saved xmm registers and the padding.
P_(r, saveNum) ==
  IF vecSaveNum(r) > 0
  THEN vecPos(r) + vecSaveNum(r) * 16 + (IF saveNum % 2 = 0 THEN 8 ELSE 0)
  ELSE LET words == (r.stack + 7) \div 8 IN
       (IF words > 0 /\ words % 2 = saveNum % 2 THEN words + 1 ELSE words) * 8

\* Bug: a register that stands for a reserved one is handed out again.
AvailableTwice(r, x) ==
  LET mine == {s \in Range(getRegSlotTbl(r.abi)) : s.target = x} IN
  CASE x \in r.use /\ mine # {} -> (CHOOSE s \in mine : TRUE).alt
    [] x \in r.use /\ mine = {} -> "none"
    [] OTHER -> x

\* getRegIdx at one place of the table: a substitute is handed out where the
\* reserved register stands, and not where it stands itself.
Available(r, x) ==
  LET reserved == {s \in Range(getRegSlotTbl(r.abi)) : s.target \in r.use}
      mine == {s \in reserved : s.target = x}
  IN CASE \E s \in reserved : s.alt = x -> "none"
       [] (\A s \in reserved : s.alt # x) /\ mine # {} -> (CHOOSE s \in mine : TRUE).alt
       [] OTHER -> IF x \in r.use THEN "none" ELSE x

getRegs(r) ==
  LET tbl == getRegEntryTbl(r.abi)
  IN Registers([i \in 1..maxRegNum |-> Available(r, tbl[i])])

Frame(r) ==
  LET s == saveRegs(r)
      regs == getRegs(r)
  IN [saveRegs |-> s, P |-> P_(r, Len(s)), p |-> SubSeq(regs, 1, r.pNum),
      t |-> SubSeq(regs, r.pNum + 1, r.pNum + r.tNum)]

-----------------------------------------------------------------------------
(* The code that is emitted: a sequence of instructions, with NoCode where *)
(* a loop emits none.                                                      *)

Push(regs, ppx) == [op |-> "push", regs |-> regs, ppx |-> ppx]
Pop(regs, ppx) == [op |-> "pop", regs |-> regs, ppx |-> ppx]
Mov(dst, src) == [op |-> "mov", dst |-> dst, src |-> src]
AddRsp(n) == [op |-> "add", n |-> n]
Vzeroupper == [op |-> "vzeroupper"]

NoCode == [op |-> "none"]

Optional(cond, instr) == IF cond THEN instr ELSE NoCode

\* Bug: pairs are pushed where rsp is 8 modulo 16.
PairUpEven(r, i, saveNum) == r.push2 /\ i % 2 = 0 /\ i + 1 < saveNum

\* The two loops over saveRegs_, with i counted from 0: does push2 (pop2)
\* take this register and the next (the one before)?
PairUp(r, i, saveNum) == r.push2 /\ i % 2 = 1 /\ i + 1 < saveNum
PairDown(r, i, start) == r.push2 /\ i % 2 = 0 /\ i - 1 >= start

Pushes(r, s, start) ==
  LET pair(i) == PairUp(r, i, Len(s))
      at(i) == CASE pair(i) -> Push(<<s[i + 1], s[i + 2]>>, r.ppx)
                 [] i > start /\ pair(i - 1) -> NoCode
                 [] OTHER -> Push(<<s[i + 1]>>, r.ppx)
  IN [k \in 1..(Len(s) - start) |-> at(start + k - 1)]

Pops(r, s, start) ==
  LET at(i) == CASE PairDown(r, i, start) -> Pop(<<s[i + 1], s[i]>>, r.ppx)
                 [] i < Len(s) - 1 /\ PairDown(r, i + 1, start) -> NoCode
                 [] OTHER -> Pop(<<s[i + 1]>>, r.ppx)
  IN [k \in 1..Len(s) |-> at(Len(s) - k)]

\* Bug: rbp is pushed without the hint that it is popped with.
PushRbpPlain(r) ==
  <<Optional("rbp" \in r.use, Push(<<"rbp">>, FALSE)),
    Optional(r.framePointer, Mov("rbp", "rsp"))>>

PushRbp(r) ==
  <<Optional("rbp" \in r.use, Push(<<"rbp">>, r.ppx)),
    Optional(r.framePointer, Mov("rbp", "rsp"))>>

Start(r) == IF "rbp" \in r.use THEN 1 ELSE 0

\* movaps or vmovaps ("store", "load") of xmm6 and up.
MoveVecs(r, op) ==
  [k \in 1..vecSaveNum(r) |->
     [op |-> op, xmm |-> 5 + k, disp |-> vecPos(r) + (k - 1) * 16, vex |-> r.vec.noVz]]

\* Bug: the last parameter stays where it was.
MoveParamsButLast(r) ==
  LET tbl == getRegSlotTbl(r.abi) IN
  [k \in 1..4 |->
    Optional(tbl[k].target \in r.use /\ tbl[k].pos + 1 < r.pNum /\ tbl[k].alt # "none",
             Mov(tbl[k].alt, tbl[k].target))]

\* A parameter leaves a reserved register for its substitute.
MoveParams(r) ==
  LET tbl == getRegSlotTbl(r.abi) IN
  [k \in 1..4 |->
    Optional(tbl[k].target \in r.use /\ tbl[k].pos < r.pNum /\ tbl[k].alt # "none",
             Mov(tbl[k].alt, tbl[k].target))]

Prolog(r, f) ==
  PushRbp(r) \o Pushes(r, f.saveRegs, Start(r)) \o <<Optional(f.P > 0, AddRsp(-f.P))>>
  \o MoveVecs(r, "store") \o MoveParams(r)

\* close(), but for ret.
Epilog(r, f) ==
  <<Optional(r.vec.kind = "AVX" /\ ~r.vec.noVz, Vzeroupper)>>
  \o MoveVecs(r, "load") \o <<Optional(f.P > 0, AddRsp(f.P))>>
  \o Pops(r, f.saveRegs, Start(r))

-----------------------------------------------------------------------------
(* The processor. fault: it has raised an exception. penalty: an SSE       *)
(* instruction met dirty upper halves. mixed: a pop with the PPX hint has  *)
(* read what was pushed without it, or the other way round.                *)

GeneralRegs == Range(getRegEntryTbl("win")) \cup {"rax", "r30", "r31"}
Aligned(addr) == (addr + 8) % 16 = 0

Set(f, x, v) == [y \in DOMAIN f \cup {x} |-> IF y = x THEN v ELSE f[y]]

Machine ==
  [reg |-> [x \in GeneralRegs |-> <<"old", x>>],
   xmm |-> [i \in 0..15 |-> <<"old", i>>],
   sp |-> 0, stack |-> [a \in {0} |-> <<<<"return">>, FALSE>>],
   dirty |-> FALSE, fault |-> FALSE, penalty |-> FALSE, mixed |-> FALSE]

Cell(c, a) == IF a \in DOMAIN c.stack THEN c.stack[a] ELSE <<<<"junk">>, FALSE>>
PushOne(c, x, ppx) ==
  [c EXCEPT !.sp = @ - 8, !.stack = Set(@, c.sp - 8, <<c.reg[x], ppx>>)]
PopOne(c, x, ppx) ==
  [c EXCEPT !.sp = @ + 8, !.reg[x] = Cell(c, c.sp)[1],
            !.mixed = @ \/ Cell(c, c.sp)[2] # ppx]

\* One register, or two of push2 and pop2, which fault without alignment.
Each(One(_, _, _), c, i) ==
  LET first == One(c, i.regs[1], i.ppx) IN
  IF Len(i.regs) = 1 THEN first
  ELSE [One(first, i.regs[2], i.ppx) EXCEPT !.fault = @ \/ ~Aligned(c.sp)]

Exec(c, i) ==
  CASE i.op = "none" -> c
    [] i.op = "push" -> Each(PushOne, c, i)
    [] i.op = "pop" -> Each(PopOne, c, i)
    [] i.op = "mov" ->
         [c EXCEPT !.reg[i.dst] = IF i.src = "rsp" THEN <<"sp", c.sp>> ELSE c.reg[i.src]]
    [] i.op = "add" -> [c EXCEPT !.sp = @ + i.n]
    [] i.op = "store" ->
         LET a == c.sp + i.disp
             v == <<c.xmm[i.xmm], FALSE>>
         IN [c EXCEPT !.stack = Set(Set(@, a, v), a + 8, v),
                      !.fault = @ \/ ~Aligned(a),
                      !.penalty = @ \/ (c.dirty /\ ~i.vex)]
    [] i.op = "load" ->
         LET a == c.sp + i.disp IN
         [c EXCEPT !.xmm[i.xmm] = IF Cell(c, a) = Cell(c, a + 8)
                                  THEN Cell(c, a)[1] ELSE <<"junk">>,
                   !.fault = @ \/ ~Aligned(a),
                   !.penalty = @ \/ (c.dirty /\ ~i.vex)]
    [] i.op = "vzeroupper" -> [c EXCEPT !.dirty = FALSE]

Run(c, code) ==
  LET after[k \in 0..Len(code)] == IF k = 0 THEN c ELSE Exec(after[k - 1], code[k])
  IN after[Len(code)]

-----------------------------------------------------------------------------
(* A call of the function.                                                 *)

\* A caller that uses NoVzeroupper itself may leave upper halves dirty.
Call ==
  /\ phase = "none"
  /\ \E r \in Requests :
       /\ Accepts(r)
       /\ r.framePointer => "rbp" \in r.use
       /\ \E dirty \in IF r.vec.noVz THEN BOOLEAN ELSE {FALSE} :
            m' = [Machine EXCEPT !.dirty = dirty]
       /\ req' = r /\ sf' = Frame(r)
  /\ phase' = "called"

Enter ==
  /\ phase = "called"
  /\ m' = Run(m, Prolog(req, sf))
  /\ phase' = "entered" /\ UNCHANGED <<req, sf>>

\* All that the client may overwrite: rax, p, t, what it has reserved, the
\* vector registers it has declared, and rsp[0 .. stackSizeByte - 1].
Mine ==
  {"rax"} \cup Range(sf.p) \cup Range(sf.t) \cup req.use
  \cup (IF req.r30r31 THEN {"r30", "r31"} ELSE {})
Locals == {a \in DOMAIN m.stack : m.sp <= a + 7 /\ a < m.sp + req.stack}

Work ==
  /\ phase = "entered"
  /\ m' = [m EXCEPT
       !.reg = [x \in GeneralRegs |-> IF x \in Mine THEN <<"junk">> ELSE @[x]],
       !.xmm = [i \in 0..15 |-> IF i < req.vec.num THEN <<"junk">> ELSE @[i]],
       !.stack = [a \in DOMAIN @ |->
                    IF a \in Locals THEN <<<<"junk">>, FALSE>> ELSE @[a]],
       !.dirty = @ \/ req.vec.kind = "AVX"]
  /\ phase' = "worked" /\ UNCHANGED <<req, sf>>

Close ==
  /\ phase = "worked"
  /\ m' = Run(m, Epilog(req, sf))
  /\ phase' = "returned" /\ UNCHANGED <<req, sf>>

Nothing == CHOOSE r \in Requests : Accepts(r)
Init == req = Nothing /\ sf = Frame(Nothing) /\ phase = "none" /\ m = Machine

Return ==
  /\ phase = "returned"
  /\ req' = Nothing /\ sf' = Frame(Nothing) /\ phase' = "none" /\ m' = Machine

Next == Call \/ Enter \/ Work \/ Close \/ Return

Spec == Init /\ [][Next]_vars

-----------------------------------------------------------------------------
(* Properties.                                                             *)

\* What the two calling conventions say.
ArgumentRegs(abi) ==
  IF abi = "win" THEN <<"rcx", "rdx", "r8", "r9">> ELSE <<"rdi", "rsi", "rdx", "rcx">>
CalleeSaved(abi) ==
  {"rbx", "rbp", "r12", "r13", "r14", "r15"}
  \cup (IF abi = "win" THEN {"rdi", "rsi", "r30", "r31"} ELSE {})
CalleeSavedXmm(abi) == IF abi = "win" THEN 6..15 ELSE {}

\* Whatever the function does with what is its own, the caller finds its
\* registers and its stack as they were (StackFrame::StackFrame, close).
CallerKeepsItsOwn ==
  phase = "returned" =>
    /\ m.sp = 0 /\ m.stack[0] = <<<<"return">>, FALSE>>
    /\ \A x \in CalleeSaved(req.abi) : m.reg[x] = <<"old", x>>
    /\ \A i \in CalleeSavedXmm(req.abi) : m.xmm[i] = <<"old", i>>

\* p[i] holds the i-th argument when the client's code begins, and rbp the
\* place of the caller's rbp if it is the frame pointer (getRegIdx).
ArgumentsArrive ==
  phase = "entered" =>
    /\ \A i \in 1..req.pNum :
         m.reg[sf.p[i]] = <<"old", ArgumentRegs(req.abi)[i]>>
    /\ req.framePointer => /\ m.reg["rbp"] = <<"sp", -8>>
                           /\ m.stack[-8][1] = <<"old", "rbp">>

\* The registers handed out are as many as asked for, all different, and none
\* that is reserved or that rsp or rax need (getRegIdx and its assertion).
RegistersAreDistinct ==
  phase # "none" =>
    LET all == sf.p \o sf.t IN
    /\ Len(all) = req.pNum + req.tNum
    /\ IsInjective(all)
    /\ Range(all) \cap (req.use \cup {"rax", "rsp", "r30", "r31"}) = {}

\* push2, pop2, movaps and vmovaps need 16-byte alignment and find it; so
\* does the client when it has asked for a local stack (the loops over
\* saveRegs_, P_).
Alignment ==
  /\ ~m.fault
  /\ phase = "entered" /\ req.stack > 0 => Aligned(m.sp)

\* Every pushp is matched by a popp and nothing else is, and movaps never
\* meets dirty upper halves (close, "keep the pushp/popp pair matched").
HintsAndHalves == ~m.mixed /\ ~m.penalty
=============================================================================
