---------------------------- MODULE LinkerProofs ----------------------------
(***************************************************************************)
(* Proofs about Linker for every value of its constants: the invariant     *)
(* IInv is inductive, so a reference is never lost, late writes stay in    *)
(* their field, and ready() means linked.                                  *)
(***************************************************************************)
EXTENDS Linker, TLAPS

Buffers == [top : Tops, max : Nat, size : Nat]
Fields == [kind : Kinds, to : Labels \cup {NoLabel}, disp : Int,
           imm : Nat, size : Sizes, val : Int]
Pendings == [label : Labels, end : Nat, size : Sizes, mode : Modes, disp : Int]
Entries == [off : Nat, val : Int, size : Sizes, mode : Modes]

\* b is what becomes of buffer c by emitting code: it does not shrink, and
\* a fixed buffer stays where it is.
Extends(b, c) ==
  /\ b \in Buffers /\ b.size <= b.max /\ b.size >= c.size
  /\ ~AutoGrow => b.top = c.top

-----------------------------------------------------------------------------
(* The buffer.                                                             *)

\* growMemory keeps the code and makes room for an instruction.
LEMMA GrowMemoryExtends ==
  ASSUME NEW b \in Buffers, b.size <= b.max,
         NEW n \in Nat, n >= b.size, n <= b.max + 16,
         NEW r \in GrowMemory(b, n), AutoGrow
  PROVE  /\ r.buf \in Buffers /\ r.buf.size <= r.buf.max
         /\ r.err \in {"none", "cant_alloc"}
         /\ r.err = "none" => r.buf.size = n
         /\ r.err # "none" => r.buf = b
<1>1. /\ NewMax(b) \in Nat /\ NewMax(b) >= b.max + 16
      /\ b.max \in Nat /\ b.size \in Nat /\ b.top \in Tops
  BY LinkerAssumption DEF Buffers, NewMax
<1>2. CASE r = Outcome(b, "cant_alloc")
  BY <1>2 DEF Outcome
<1>3. ASSUME NEW t \in Tops, r = Outcome(Buffer(t, NewMax(b), n), "none")
      PROVE  /\ r.buf \in Buffers /\ r.buf.size <= r.buf.max
             /\ r.err = "none" /\ r.buf.size = n
  BY <1>1, <1>3 DEF Buffers, Buffer, Outcome
<1>4. QED BY <1>2, <1>3 DEF GrowMemory

\* db() called n times appends n bytes or stops with an error.
LEMMA EmitExtends ==
  ASSUME NEW b \in Buffers, b.size <= b.max, NEW n \in 0..16, NEW r \in Emit(b, n)
  PROVE  /\ Extends(r.buf, b)
         /\ r.err \in {"none", "cant_alloc", "too_big"}
         /\ r.err = "none" => r.buf.size = b.size + n
<1>1. /\ b.top \in Tops /\ b.max \in Nat /\ b.size \in Nat
      /\ Buffer(b.top, b.max, b.max) \in Buffers
  BY DEF Buffers, Buffer
<1>2. CASE b.size + n <= b.max
  BY <1>1, <1>2 DEF Emit, Outcome, Extends, Buffers, Buffer
<1>3. CASE ~(b.size + n <= b.max) /\ ~AutoGrow
  BY <1>1, <1>3 DEF Emit, Outcome, Extends, Buffers, Buffer
<1>4. CASE ~(b.size + n <= b.max) /\ AutoGrow
  <2>1. r \in GrowMemory(Buffer(b.top, b.max, b.max), b.size + n)
    BY <1>4 DEF Emit
  <2>2. /\ r.buf \in Buffers /\ r.buf.size <= r.buf.max
        /\ r.err \in {"none", "cant_alloc"}
        /\ r.err = "none" => r.buf.size = b.size + n
        /\ r.err # "none" => r.buf = Buffer(b.top, b.max, b.max)
    BY <1>1, <1>4, <2>1, GrowMemoryExtends DEF Buffer
  <2>3. QED BY <1>1, <1>4, <2>2 DEF Extends, Buffer
<1>5. QED BY <1>2, <1>3, <1>4

\* The growth ahead of a reference changes no code.
LEMMA ReserveExtends ==
  ASSUME NEW b \in Buffers, b.size <= b.max, NEW r \in Reserve(b)
  PROVE  /\ Extends(r.buf, b) /\ r.buf.size = b.size
         /\ r.err \in {"none", "cant_alloc"}
BY GrowMemoryExtends DEF Reserve, Outcome, Extends, Buffers

-----------------------------------------------------------------------------
(* Emission.                                                               *)

\* The value saved for a field stays right wherever the code moves.
LEMMA SavedKeeps ==
  ASSUME IInv, NEW x \in DOMAIN refs, refs'[x] = refs[x], defs' = defs,
         buf'.top \in Tops, NEW i \in info, SavedFor(i, x)
  PROVE  SavedFor(i, x)'
<1> USE LinkerAssumption
<1>1. /\ refs[x] \in Fields /\ x \in Nat /\ i \in Entries
      /\ buf.top \in Nat /\ buf'.top \in Nat
      /\ \A l \in DOMAIN defs : defs[l] \in Nat
  BY DEF IInv, TypeOK, Fields, Buffers, Entries
<1>2. /\ GetVal(i, buf.top) = Target(x) /\ i.val \in Int
      /\ i.mode = CASE refs[x].kind = "rel" -> "LasIs"
                    [] refs[x].kind = "abs" -> "LaddTop"
                    [] refs[x].kind = "ext" -> "Labs"
  BY <1>1 DEF SavedFor, Entries
<1>3. GetVal(i, buf'.top) = Target(x)'
  <2>1. CASE refs[x].kind = "rel"
    BY <1>2, <2>1 DEF GetVal, Target
  <2>2. CASE refs[x].kind = "abs"
    <3>1. defs[refs[x].to] \in Nat /\ refs[x].disp \in Int
      BY <1>1, <2>2 DEF SavedFor, Fields
    <3>2. QED BY <1>1, <1>2, <2>2, <3>1 DEF GetVal, Target
  <2>3. CASE refs[x].kind = "ext"
    <3>1. refs[x].disp \in Int /\ refs[x].size \in Int /\ refs[x].imm \in Int
      BY <1>1 DEF Fields, Sizes
    <3>2. PICK next \in Int : next = x + refs[x].size + refs[x].imm
      BY <1>1, <3>1
    <3>3. Target(x) = refs[x].disp - (buf.top + next)
      BY <2>3, <3>2 DEF Target
    <3>4. Target(x)' = refs[x].disp - (buf'.top + next)
      BY <2>3, <3>2 DEF Target
    <3>5. GetVal(i, buf.top) = i.val - buf.top /\ GetVal(i, buf'.top) = i.val - buf'.top
      BY <1>2, <2>3 DEF GetVal
    <3>6. QED BY <1>1, <1>2, <3>1, <3>2, <3>3, <3>4, <3>5
  <2>4. QED BY <1>1, <2>1, <2>2, <2>3 DEF Fields, Kinds
<1>4. QED BY <1>3 DEF SavedFor

\* A call that leaves a reference alone, and every list at least what it
\* was, keeps the reference accounted for, wherever AutoGrow code moves.
LEMMA EmissionKeeps ==
  ASSUME IInv, NEW x \in DOMAIN refs, x \in DOMAIN refs', refs'[x] = refs[x],
         defs' = defs, isCalled' = isCalled, undef \subseteq undef',
         info \subseteq info', buf'.top \in Tops,
         ~AutoGrow => buf'.top = buf.top,
         isCalled => Reopen \/ buf'.top = buf.top,
         Supported(x)'
  PROVE  Supported(x) /\ Accounted(x)'
<1> USE LinkerAssumption
<1>1. Supported(x)
  <2>1. refs[x] \in Fields
    BY DEF IInv, TypeOK, Fields
  <2>2. QED BY <2>1 DEF Supported, Target, Fields, Kinds
<1>2. CASE Correct(x) /\ (AutoGrow /\ refs[x].kind # "rel" => isCalled)
  <2>1. Target(x)' = Target(x)
    <3>1. CASE buf'.top = buf.top
      BY <3>1 DEF Target
    <3>2. CASE buf'.top # buf.top
      <4>1. AutoGrow /\ ~isCalled
        BY <3>2 DEF Supported
      <4>2. refs[x].kind = "rel"
        BY <4>1, <1>2
      <4>3. QED BY <4>2 DEF Target
    <3>3. QED BY <3>1, <3>2
  <2>2. QED BY <1>1, <1>2, <2>1 DEF Accounted, Correct
<1>3. CASE \E u \in undef : PendingFor(u, x)
  BY <1>1, <1>3 DEF Accounted, PendingFor
<1>4. ASSUME AutoGrow, ~isCalled, NEW i \in info, SavedFor(i, x)
      PROVE  Accounted(x)'
  BY <1>4, SavedKeeps DEF Accounted
<1>5. QED BY <1>1, <1>2, <1>3, <1>4 DEF IInv, NothingLost, Accounted

\* A call that records no reference preserves the invariant.
LEMMA ReturnInv ==
  ASSUME IInv, NEW b, Extends(b, buf), isCalled => Reopen \/ b.top = buf.top,
         NEW e \in Errors, Return(b, e)
  PROVE  IInv'
<1> USE LinkerAssumption
<1>0. /\ buf' = b /\ err' = e /\ done' = FALSE /\ refs' = refs /\ undef' = undef
      /\ info' = info /\ defs' = defs /\ isCalled' = isCalled
  BY DEF Return
<1>1. TypeOK'
  BY <1>0 DEF IInv, TypeOK, Extends, Buffers
<1>2. Bookkeeping'
  BY <1>0 DEF IInv, Bookkeeping
<1>3. PatchesHitFields'
  <2>1. \A u \in undef : PendingFor(u, u.end - u.size)'
    BY <1>0 DEF IInv, PatchesHitFields, PendingFor
  <2>2. QED
    BY <1>0, <2>1 DEF IInv, PatchesHitFields, TypeOK, Extends, Buffers, Fields, Sizes
<1>4. NothingLost'
  <2>1. ASSUME NEW x \in DOMAIN refs, Supported(x)'
        PROVE  Supported(x) /\ Accounted(x)'
    BY <1>0, <2>1, EmissionKeeps DEF Extends, Buffers
  <2>2. ASSUME NEW i \in info, Supported(i.off)'
        PROVE  SavedFor(i, i.off)'
    <3>1. i.off \in DOMAIN refs
      BY DEF IInv, PatchesHitFields
    <3>2. SavedFor(i, i.off)
      BY <2>1, <2>2, <3>1 DEF IInv, NothingLost
    <3>3. QED BY <1>0, <3>1, <3>2, SavedKeeps DEF Extends, Buffers
  <2>3. QED BY <1>0, <2>1, <2>2 DEF NothingLost
<1>5. QED BY <1>1, <1>2, <1>3, <1>4 DEF IInv
\* What is recorded for field f, which ends at offset end of a buffer that
\* starts at top, suffices for it.
Window(x) == x >= -Half32 \/ x < -Half32 - 6
Stands(f, end, top, U, I) ==
  LET next == end + f.imm
      bound == f.to \in DOMAIN defs
  IN
  \/ U # {}
  \/ /\ f.kind = "rel" /\ bound /\ I = {}
     /\ f.val = defs[f.to] + f.disp - next
  \/ /\ f.kind = "abs" /\ bound /\ ~AutoGrow /\ I = {}
     /\ f.val = Stored(top + defs[f.to] + f.disp, f.size)
  \/ f.kind = "ext" /\ ~AutoGrow /\ I = {} /\ f.val = f.disp - (top + next)
  \/ /\ f.kind = "abs" /\ bound /\ AutoGrow /\ ~isCalled
     /\ \E i \in I : i.mode = "LaddTop" /\ i.val = defs[f.to] + f.disp
  \/ /\ f.kind = "ext" /\ AutoGrow /\ ~isCalled
     /\ \E i \in I : i.mode = "Labs" /\ i.val = f.disp - next
Excused(f, end, top) ==
  LET next == end + f.imm IN
  \/ AutoGrow /\ Reopen
  \/ f.kind = "abs" /\ ~(f.disp = 0 /\ f.imm = 0 /\ (AutoGrow \/ f.to \notin AssignTo))
  \/ f.kind = "rel" /\ f.to \in DOMAIN defs /\ ~Window(defs[f.to] + f.disp - next)
  \/ f.kind = "ext" /\ ~AutoGrow /\ ~Window(f.disp - (top + next))
Recorded(f, end, top, U, I) ==
  /\ U \subseteq Pendings /\ I \subseteq Entries
  /\ \A u \in U : /\ u.end = end /\ u.size = f.size /\ (u.size = 1 => u.mode = "LasIs")
                 /\ u.label = f.to /\ u.disp = f.disp - f.imm
                 /\ f.kind # "ext"
                 /\ u.mode = IF f.kind = "rel" THEN "LasIs"
                             ELSE IF AutoGrow THEN "LaddTop" ELSE "Labs"
  /\ \A i \in I : i.off = end - f.size /\ i.size = f.size /\ i.size # 1
  /\ \A u, v \in U : u = v
  /\ \A i, j \in I : i = j
  /\ U = {} \/ I = {}
  /\ Stands(f, end, top, U, I) \/ Excused(f, end, top)

\* An instruction that records what its reference needs preserves the
\* invariant, whether it is completed or stops with an error.
LEMMA PlaceInv ==
  ASSUME IInv, isCalled => Reopen, NEW b, Extends(b, buf), NEW n \in 0..16,
         NEW f \in Fields, f.size <= n, f.imm <= 4, NEW U, NEW I,
         Recorded(f, b.size + n, b.top, U, I), Place(b, n, f, U, I)
  PROVE  IInv'
<1> USE LinkerAssumption
<1> DEFINE end == b.size + n
           o   == end - f.size
<1>1. PICK r \in Emit(b, n) :
        IF r.err # "none" THEN Return(r.buf, r.err)
        ELSE \E q \in Emit(r.buf, f.imm) :
               /\ buf' = q.buf /\ err' = q.err /\ done' = FALSE
               /\ refs' = With(refs, b.size + n - f.size, f)
               /\ undef' = undef \cup U
               /\ info' = info \cup I
               /\ UNCHANGED <<defs, isCalled>>
  BY DEF Place
<1>2. /\ Extends(r.buf, b)
      /\ r.err \in {"none", "cant_alloc", "too_big"}
      /\ r.err = "none" => r.buf.size = b.size + n
  BY <1>1, EmitExtends DEF Extends
<1>3. /\ b \in Buffers /\ b.size \in Nat /\ buf.size \in Nat /\ buf \in Buffers
      /\ r.buf \in Buffers /\ r.buf.size \in Nat /\ f.size \in {1, 4, 8} /\ f.imm \in 0..4
  BY <1>2 DEF Extends, Buffers, Fields, Sizes, IInv, TypeOK
<1>4. CASE r.err # "none"
  <2>1. Extends(r.buf, buf)
    BY <1>2, <1>3 DEF Extends
  <2>2. Return(r.buf, r.err) /\ r.err \in Errors
    BY <1>1, <1>2, <1>4 DEF Errors
  <2>3. QED BY <2>1, <2>2, ReturnInv
<1>5. CASE r.err = "none"
  <2>1. PICK q \in Emit(r.buf, f.imm) :
          /\ buf' = q.buf /\ err' = q.err /\ done' = FALSE
          /\ refs' = With(refs, b.size + n - f.size, f)
          /\ undef' = undef \cup U
          /\ info' = info \cup I
          /\ UNCHANGED <<defs, isCalled>>
    BY <1>1, <1>5
  <2>u. /\ defs' = defs /\ isCalled' = isCalled
        /\ refs' = With(refs, o, f)
    <3>1. b.size + n - f.size = o
      BY <1>3
    <3>2. refs' = With(refs, b.size + n - f.size, f)
      BY <2>1
    <3>3. QED BY <2>1, <3>1, <3>2, Zenon
  <2>2. /\ Extends(buf', r.buf)
        /\ err' \in {"none", "cant_alloc", "too_big"}
    BY <2>1, <1>2, <1>3, EmitExtends DEF Extends
  <2>3. /\ buf' \in Buffers /\ buf'.size <= buf'.max /\ end <= buf'.size
        /\ buf'.size \in Nat /\ buf'.max \in Nat /\ buf'.top \in Tops
        /\ ~AutoGrow => buf'.top = buf.top /\ buf'.top = b.top
        /\ buf.size <= o /\ o \in Nat /\ end \in Nat /\ o + f.size = end
    BY <1>2, <1>3, <1>5, <2>2 DEF Extends, Buffers
  <2>4. /\ DOMAIN refs \subseteq Nat
        /\ \A x \in DOMAIN refs : /\ refs[x] \in Fields /\ x + refs[x].size <= buf.size
                                 /\ x + refs[x].size <= o /\ x < o
    BY <1>3, <2>3 DEF IInv, TypeOK, PatchesHitFields, Fields, Sizes
  <2>5. /\ DOMAIN refs' = DOMAIN refs \cup {o}
        /\ refs'[o] = f
        /\ \A x \in DOMAIN refs : refs'[x] = refs[x]
    BY <2>u, <2>3, <2>4 DEF With
  <2> HIDE DEF end, o
  <2>6. TypeOK'
    <3>1. DOMAIN refs' \subseteq Nat /\ \A x \in DOMAIN refs' : refs'[x] \in Fields
      BY <2>3, <2>4, <2>5
    <3>2. undef' \subseteq Pendings /\ info' \subseteq Entries
      BY <2>1 DEF IInv, TypeOK, Recorded, Pendings, Entries
    <3>3. /\ DOMAIN defs' \subseteq Labels /\ \A l \in DOMAIN defs' : defs'[l] \in Nat
          /\ isCalled' \in BOOLEAN /\ done' \in BOOLEAN /\ err' \in Errors
      BY <2>u, <2>1, <2>2 DEF IInv, TypeOK, Errors
    <3>4. QED
      BY <2>3, <3>1, <3>2, <3>3 DEF TypeOK, Buffers, Fields, Pendings, Entries
  <2>7. Bookkeeping'
    BY <2>u, <2>1 DEF IInv, Bookkeeping, Recorded
  <2>8. PatchesHitFields'
    <3>1. \A u \in undef : u.end - u.size \in DOMAIN refs /\ PendingFor(u, u.end - u.size)
      BY DEF IInv, PatchesHitFields
    <3>2. \A i \in info : i.off \in DOMAIN refs /\ refs[i.off].size = i.size
      BY DEF IInv, PatchesHitFields
    <3>3. \A u \in U : u.end - u.size = o /\ PendingFor(u, o)'
      BY <1>3, <2>3, <2>5 DEF Recorded, end, PendingFor
    <3>4. \A i \in I : i.off = o /\ i.size = f.size
      BY DEF Recorded, o, end
    <3>5. o \notin DOMAIN refs
      BY <2>3, <2>4
    <3>6. \A x, y \in DOMAIN refs' : x < y => x + refs'[x].size <= y
      BY <2>3, <2>4, <2>5 DEF IInv, PatchesHitFields
    <3>7. \A x \in DOMAIN refs' : x + refs'[x].size <= buf'.size
      BY <1>3, <2>3, <2>4, <2>5, Z3 DEF Fields, Sizes
    <3>8. \A u \in undef' : u.end - u.size \in DOMAIN refs' /\ PendingFor(u, u.end - u.size)'
      <4>1. \A u \in undef : PendingFor(u, u.end - u.size)'
        BY <2>5, <3>1 DEF PendingFor
      <4>2. QED BY <2>1, <2>5, <3>1, <3>3, <4>1
    <3>9. \A i \in info' : i.off \in DOMAIN refs' /\ refs'[i.off].size = i.size
      BY <2>1, <2>5, <3>2, <3>4
    <3>10. \A u, v \in undef' : u.end - u.size = v.end - v.size => u = v
      BY <2>1, <3>1, <3>3, <3>5 DEF IInv, PatchesHitFields, Recorded
    <3>11. \A i, j \in info' : i.off = j.off => i = j
      BY <2>1, <3>2, <3>4, <3>5 DEF IInv, PatchesHitFields, Recorded
    <3>12. \A u \in undef', i \in info' : u.end - u.size # i.off
      BY <2>1, <3>1, <3>2, <3>3, <3>4, <3>5 DEF IInv, PatchesHitFields, Recorded
    <3>13. QED
      BY <2>3, <3>6, <3>7, <3>8, <3>9, <3>10, <3>11, <3>12 DEF PatchesHitFields
  <2>9. NothingLost'
    <3>1. ASSUME NEW x \in DOMAIN refs, Supported(x)'
          PROVE  Supported(x) /\ Accounted(x)'
      BY <2>u, <2>1, <2>3, <2>5, <3>1, EmissionKeeps
    <3>2. ASSUME Supported(o)'
          PROVE  Accounted(o)' /\ \A i \in I : SavedFor(i, o)'
      <4>0. /\ f.kind \in Kinds /\ f.disp \in Int /\ f.imm \in Nat /\ buf'.top \in Nat
            /\ defs' = defs /\ isCalled' = isCalled /\ refs'[o] = f
            /\ o + f.size + f.imm = end + f.imm
        BY <1>3, <2>u, <2>3, <2>5 DEF Fields
      <4>t. Target(o)' = CASE f.kind = "rel" -> defs[f.to] + f.disp - (end + f.imm)
                           [] f.kind = "abs" -> buf'.top + defs[f.to] + f.disp
                           [] f.kind = "ext" -> f.disp - (buf'.top + (end + f.imm))
        BY <4>0 DEF Target
      <4>1. ~Excused(f, end, b.top)
        BY <3>2, <4>0, <4>t, <2>3 DEF Excused, Supported, Window
      <4>2. Stands(f, end, b.top, U, I)
        BY <4>1 DEF Recorded, end
      <4>3. CASE U # {}
        <5>1. PICK u \in U : u \in undef' /\ I = {}
          BY <2>1, <4>3 DEF Recorded
        <5>2. u.end = o + f.size
          BY <2>3 DEF Recorded, end
        <5>3. PendingFor(u, o)'
          BY <4>0, <5>2 DEF PendingFor, Recorded
        <5>4. QED BY <5>1, <5>3 DEF Accounted
      <4>4. CASE f.kind = "rel" /\ f.to \in DOMAIN defs /\ I = {}
                 /\ f.val = defs[f.to] + f.disp - (end + f.imm)
        BY <4>0, <4>t, <4>4 DEF Accounted, Correct
      <4>5. CASE f.kind = "abs" /\ f.to \in DOMAIN defs /\ ~AutoGrow /\ I = {}
                 /\ f.val = Stored(b.top + defs[f.to] + f.disp, f.size)
        BY <4>0, <4>t, <4>5, <2>3 DEF Accounted, Correct
      <4>6. CASE f.kind = "ext" /\ ~AutoGrow /\ I = {} /\ f.val = f.disp - (b.top + (end + f.imm))
        BY <4>0, <4>t, <4>6, <2>3 DEF Accounted, Correct
      <4>7. CASE f.kind = "abs" /\ f.to \in DOMAIN defs /\ AutoGrow /\ ~isCalled
                 /\ \E i \in I : i.mode = "LaddTop" /\ i.val = defs[f.to] + f.disp
        <5>1. PICK i \in I : i.mode = "LaddTop" /\ i.val = defs[f.to] + f.disp
          BY <4>7
        <5>2. i.off = o /\ i.size = f.size /\ i \in info' /\ defs[f.to] \in Nat
          BY <2>1, <4>7 DEF Recorded, end, o, IInv, TypeOK
        <5>3. GetVal(i, buf'.top) = Target(o)'
          BY <4>0, <4>t, <4>7, <5>1, <5>2 DEF GetVal
        <5>4. SavedFor(i, o)'
          BY <4>0, <4>7, <5>1, <5>2, <5>3 DEF SavedFor
        <5>5. QED BY <4>0, <4>7, <5>2, <5>4 DEF Accounted, Recorded
      <4>8. CASE f.kind = "ext" /\ AutoGrow /\ ~isCalled
                 /\ \E i \in I : i.mode = "Labs" /\ i.val = f.disp - (end + f.imm)
        <5>1. PICK i \in I : i.mode = "Labs" /\ i.val = f.disp - (end + f.imm)
          BY <4>8
        <5>2. i.off = o /\ i.size = f.size /\ i \in info'
          BY <2>1 DEF Recorded, end, o
        <5>3. GetVal(i, buf'.top) = Target(o)'
          BY <4>0, <4>t, <4>8, <5>1, <2>3 DEF GetVal
        <5>4. SavedFor(i, o)'
          BY <4>0, <4>8, <5>1, <5>2, <5>3 DEF SavedFor
        <5>5. QED BY <4>0, <4>8, <5>2, <5>4 DEF Accounted, Recorded
      <4>9. QED BY <4>2, <4>3, <4>4, <4>5, <4>6, <4>7, <4>8 DEF Stands
    <3>3. ASSUME NEW i \in info', Supported(i.off)'
          PROVE  SavedFor(i, i.off)'
      <4>1. CASE i \in I
        BY <3>2, <3>3, <4>1 DEF Recorded, o, end
      <4>2. CASE i \in info
        <5>1. i.off \in DOMAIN refs
          BY <4>2 DEF IInv, PatchesHitFields
        <5>2. SavedFor(i, i.off)
          BY <3>1, <3>3, <4>2, <5>1 DEF IInv, NothingLost
        <5>3. QED BY <2>u, <2>3, <2>5, <4>2, <5>1, <5>2, SavedKeeps
      <4>3. QED BY <2>1, <4>1, <4>2
    <3>4. QED BY <2>5, <3>1, <3>2, <3>3 DEF NothingLost
  <2>10. QED BY <2>6, <2>7, <2>8, <2>9 DEF IInv
<1>6. QED BY <1>4, <1>5
\* A field holds an integer, and any value of its range unchanged.
LEMMA StoredValue ==
  ASSUME NEW x \in Int, NEW size \in Sizes
  PROVE  /\ Stored(x, size) \in Int
         /\ size = 1 /\ InDisp8(x) => Stored(x, size) = x
         /\ size = 4 /\ InInt32(x) => Stored(x, size) = x
         /\ size = 8 => Stored(x, size) = x
<1> USE LinkerAssumption
<1>1. ASSUME NEW half \in Nat \ {0}
      PROVE  Wrap(x, half) \in Int
  <2>1. 2 * half \in Nat /\ 2 * half > 0
    OBVIOUS
  <2>2. (x + half) % (2 * half) \in Int
    BY <2>1
  <2>3. QED BY <2>2 DEF Wrap
<1>2. Stored(x, 1) \in Int /\ Stored(x, 4) \in Int /\ Stored(x, 8) = x
  BY <1>1 DEF Stored
<1>3. InDisp8(x) => Stored(x, 1) = x
  BY DEF Stored, Wrap, InDisp8
<1>4. InInt32(x) => Stored(x, 4) = x
  BY DEF Stored, Wrap, InInt32
<1>5. QED BY <1>2, <1>3, <1>4 DEF Sizes

\* makeJmp: a jump to a defined label or, in a fixed buffer, to an address.
LEMMA MakeJmpInv ==
  ASSUME IInv, isCalled => Reopen, NEW b, Extends(b, buf),
         NEW disp \in Int, InInt32(disp), NEW type, NEW pref \in {0, 1},
         NEW kind, NEW to, NEW addr \in Int,
         \/ /\ kind = "rel" /\ to \in Labels /\ to \in DOMAIN defs /\ addr = 0
            /\ disp = defs[to] - b.size
         \/ /\ kind = "ext" /\ to = NoLabel /\ ~AutoGrow
            /\ disp = addr - (b.top + b.size),
         MakeJmp(b, disp, type, pref, kind, to, addr)
  PROVE  IInv'
<1> USE LinkerAssumption
<1>0. /\ b \in Buffers /\ b.size \in Nat /\ b.top \in Nat
      /\ \A l \in DOMAIN defs : defs[l] \in Nat
  BY DEF Extends, Buffers, IInv, TypeOK
<1>1. CASE type # "near" /\ InDisp8(disp - 2)
  <2> DEFINE f == Field(kind, to, addr, 0, 1, disp - 2)
  <2>1. f \in Fields /\ f.size = 1 /\ f.imm = 0 /\ f.val = disp - 2 /\ f.kind = kind
        /\ f.to = to /\ f.disp = addr
    BY DEF Field, Fields, Kinds, Sizes
  <2>2. Place(b, 2, f, {}, {})
    BY <1>1 DEF MakeJmp
  <2> HIDE DEF f
  <2>3. Recorded(f, b.size + 2, b.top, {}, {})
    BY <1>0, <2>1 DEF Recorded, Stands
  <2>4. QED BY <2>1, <2>2, <2>3, PlaceInv
<1>2. CASE ~(type # "near" /\ InDisp8(disp - 2)) /\ type = "short"
  BY <1>2, ReturnInv DEF MakeJmp, Errors
<1>3. CASE ~(type # "near" /\ InDisp8(disp - 2)) /\ type # "short"
  <2> DEFINE long == pref + 5
             f == Field(kind, to, addr, 0, 4, Stored(disp - long, 4))
  <2>1. /\ f \in Fields /\ f.size = 4 /\ f.imm = 0 /\ f.val = Stored(disp - long, 4)
        /\ f.kind = kind /\ f.to = to /\ f.disp = addr
        /\ long \in 5..6
    BY StoredValue DEF Field, Fields, Kinds, Sizes
  <2>2. Place(b, long, f, {}, {})
    BY <1>3 DEF MakeJmp
  <2> HIDE DEF f, long
  <2>3. disp - long >= -Half32 => f.val = disp - long
    BY <2>1, StoredValue DEF InInt32, Sizes
  <2>4. disp - long >= -Half32 - 6
    BY <2>1 DEF InInt32
  <2>5. Recorded(f, b.size + long, b.top, {}, {})
    BY <1>0, <2>1, <2>3, <2>4 DEF Recorded, Stands, Excused, Window
  <2>6. QED BY <2>1, <2>2, <2>5, PlaceInv
<1>4. QED BY <1>1, <1>2, <1>3

\* Facts every emission step starts from.
LEMMA BufferFacts ==
  ASSUME IInv
  PROVE  /\ buf \in Buffers /\ buf.size <= buf.max /\ Extends(buf, buf)
         /\ buf.size \in Nat /\ buf.top \in Nat
         /\ \A l \in DOMAIN defs : defs[l] \in Nat
<1>1. buf \in Buffers /\ \A l \in DOMAIN defs : defs[l] \in Nat
  BY DEF IInv, TypeOK, Buffers
<1>2. buf.size <= buf.max
  BY DEF IInv, PatchesHitFields
<1>3. buf.size \in Nat /\ buf.top \in Nat
  BY <1>1, LinkerAssumption DEF Buffers
<1>4. QED BY <1>1, <1>2, <1>3 DEF Extends

\* Reserve ahead of an emission step.
LEMMA ReserveStep ==
  ASSUME IInv, NEW b, Extends(b, buf), NEW r \in Reserve(b)
  PROVE  /\ Extends(r.buf, buf) /\ r.buf.size = b.size /\ r.err \in Errors
         /\ r.buf.size \in Nat /\ r.buf.top \in Nat
<1>1. b \in Buffers /\ b.size <= b.max /\ b.size \in Nat /\ buf.size \in Nat
  BY BufferFacts DEF Extends, Buffers
<1>2. /\ Extends(r.buf, b) /\ r.buf.size = b.size
      /\ r.err \in {"none", "cant_alloc"}
  BY <1>1, ReserveExtends
<1>3. QED BY <1>1, <1>2, LinkerAssumption DEF Extends, Buffers, Errors

\* The bytes of an instruction ahead of its reference.
LEMMA EmitStep ==
  ASSUME IInv, NEW n \in 0..16, NEW r \in Emit(buf, n)
  PROVE  /\ Extends(r.buf, buf) /\ r.err \in Errors
         /\ r.buf.size \in Nat /\ r.buf.top \in Nat
BY BufferFacts, EmitExtends, LinkerAssumption DEF Extends, Buffers, Errors

\* Instructions without a reference preserve the invariant.
LEMMA DbInv ==
  ASSUME IInv, NEW n \in Pads, Db(n)
  PROVE  IInv'
<1>1. PICK r \in Emit(buf, n) : Return(r.buf, r.err)
  BY DEF Db
<1>2. n \in 0..16 /\ (isCalled => Reopen)
  BY LinkerAssumption DEF Db, Open
<1>3. QED BY <1>1, <1>2, EmitStep, ReturnInv

\* A jump to a label that is still undefined leaves it pending.
LEMMA JmpForwardInv ==
  ASSUME IInv, isCalled => Reopen, NEW b, Extends(b, buf),
         NEW l \in Labels, NEW type, NEW pref \in {0, 1},
         JmpForward(b, l, type, pref)
  PROVE  IInv'
<1> DEFINE n    == IF IsNEAR(type) THEN pref + 5 ELSE 2
           size == IF IsNEAR(type) THEN 4 ELSE 1
           f    == Field("rel", l, 0, 0, size, 0)
           u    == JmpLabel(l, b.size + n, size, "LasIs", 0)
<1>1. /\ n \in 0..16 /\ size \in {1, 4} /\ size <= n /\ size \in Nat /\ n \in Nat
      /\ b.size \in Nat
  BY DEF Extends, Buffers
<1>2. Place(b, n, f, {u}, {})
  BY DEF JmpForward
<1>3. f \in Fields /\ f.size = size /\ f.imm = 0 /\ f.kind = "rel" /\ f.to = l /\ f.disp = 0
  BY <1>1 DEF Field, Fields, Kinds, Sizes
<1>4. /\ u \in Pendings /\ u.end = b.size + n /\ u.size = size /\ u.mode = "LasIs"
      /\ u.label = l /\ u.disp = 0
  BY <1>1 DEF JmpLabel, Pendings, Sizes, Modes
<1> HIDE DEF n, size, f, u
<1>5. Recorded(f, b.size + n, b.top, {u}, {})
  BY <1>3, <1>4 DEF Recorded, Stands
<1>6. QED BY <1>1, <1>2, <1>3, <1>5, PlaceInv

\* jmp, jcc and call to a label preserve the invariant.
LEMMA JmpInv ==
  ASSUME IInv, NEW l \in Labels, NEW type \in Types, NEW pref \in Prefs,
         Jmp(l, type, pref)
  PROVE  IInv'
<1> USE LinkerAssumption
<1>0. pref \in {0, 1} /\ (isCalled => Reopen)
  BY DEF Jmp, Open
<1>1. PICK r \in Reserve(buf) :
       IF r.err # "none" THEN Return(r.buf, r.err)
       ELSE IF l \notin DOMAIN defs THEN JmpForward(r.buf, l, type, pref)
       ELSE LET disp == defs[l] - r.buf.size IN
            IF ~InInt32(disp) THEN Return(r.buf, "offset_too_big")
            ELSE MakeJmp(r.buf, disp, type, pref, "rel", l, 0)
  BY DEF Jmp
<1>2. /\ Extends(r.buf, buf) /\ r.err \in Errors /\ r.buf.size \in Nat
      /\ "offset_too_big" \in Errors
  BY BufferFacts, ReserveStep DEF Errors
<1>3. CASE r.err # "none"
  BY <1>0, <1>1, <1>2, <1>3, ReturnInv
<1>4. CASE r.err = "none" /\ l \notin DOMAIN defs
  BY <1>0, <1>1, <1>2, <1>4, JmpForwardInv
<1>5. CASE r.err = "none" /\ l \in DOMAIN defs
  <2> DEFINE disp == defs[l] - r.buf.size
  <2>1. disp \in Int
    BY <1>2, <1>5, BufferFacts
  <2>2. IF ~InInt32(disp) THEN Return(r.buf, "offset_too_big")
        ELSE MakeJmp(r.buf, disp, type, pref, "rel", l, 0)
    BY <1>1, <1>5
  <2> HIDE DEF disp
  <2>3. CASE ~InInt32(disp)
    BY <1>0, <1>2, <2>2, <2>3, ReturnInv
  <2>4. CASE InInt32(disp)
    BY <1>0, <1>2, <1>5, <2>1, <2>2, <2>4, MakeJmpInv DEF disp
  <2>5. QED BY <2>3, <2>4
<1>6. QED BY <1>3, <1>4, <1>5

\* jmp, jcc and call to an address preserve the invariant.
LEMMA JmpAbsInv ==
  ASSUME IInv, NEW a \in Exts, NEW type \in Types, NEW pref \in Prefs,
         JmpAbs(a, type, pref)
  PROVE  IInv'
<1> USE LinkerAssumption
<1>0. /\ pref \in {0, 1} /\ a \in Int /\ (isCalled => Reopen)
      /\ "offset_too_big" \in Errors /\ "only_near" \in Errors
  BY DEF JmpAbs, Open, Errors
<1>1. CASE AutoGrow /\ ~IsNEAR(type)
  BY <1>0, <1>1, BufferFacts, ReturnInv DEF JmpAbs
<1>2. CASE AutoGrow /\ IsNEAR(type)
  <2> DEFINE n == pref + 5
  <2>1. PICK r \in Reserve(buf) :
          LET end == r.buf.size + n IN
          IF r.err # "none" THEN Return(r.buf, r.err)
          ELSE Place(r.buf, n, Field("ext", NoLabel, a, 0, 4, 0), {},
                     {AddrInfo(end - 4, a - end, 4, "Labs")})
    BY <1>2 DEF JmpAbs
  <2>2. /\ Extends(r.buf, buf) /\ r.err \in Errors /\ r.buf.size \in Nat
    BY BufferFacts, ReserveStep
  <2>3. CASE r.err # "none"
    BY <1>0, <2>1, <2>2, <2>3, ReturnInv
  <2>4. CASE r.err = "none"
    <3> DEFINE end == r.buf.size + n
               f   == Field("ext", NoLabel, a, 0, 4, 0)
               i   == AddrInfo(end - 4, a - end, 4, "Labs")
    <3>1. Place(r.buf, n, f, {}, {i})
      BY <2>1, <2>4
    <3>2. n \in 0..16 /\ n \in Nat /\ n >= 5
      BY <1>0
    <3>3. /\ f \in Fields /\ f.size = 4 /\ f.imm = 0 /\ f.kind = "ext" /\ f.disp = a
          /\ i \in Entries /\ i.off = end - 4 /\ i.size = 4 /\ i.mode = "Labs"
          /\ i.val = a - end
      BY <1>0, <2>2, <3>2 DEF Field, Fields, Kinds, Sizes, AddrInfo, Entries, Modes
    <3> HIDE DEF n, f, i
    <3>4. Recorded(f, end, r.buf.top, {}, {i})
      <4>1. ~isCalled => Stands(f, end, r.buf.top, {}, {i})
        BY <1>2, <2>2, <3>2, <3>3 DEF Stands
      <4>2. isCalled => Excused(f, end, r.buf.top)
        BY <1>0, <1>2 DEF Excused
      <4>3. QED BY <3>3, <4>1, <4>2 DEF Recorded
    <3>5. QED BY <1>0, <2>2, <3>1, <3>2, <3>3, <3>4, PlaceInv
  <2>5. QED BY <2>3, <2>4
<1>3. CASE ~AutoGrow
  <2> DEFINE disp == a - (buf.top + buf.size)
  <2>1. disp \in Int
    BY <1>0, BufferFacts
  <2>2. IF ~InInt32(disp) THEN Return(buf, "offset_too_big")
        ELSE MakeJmp(buf, disp, type, pref, "ext", NoLabel, a)
    BY <1>3 DEF JmpAbs
  <2> HIDE DEF disp
  <2>3. CASE ~InInt32(disp)
    BY <1>0, <2>2, <2>3, BufferFacts, ReturnInv
  <2>4. CASE InInt32(disp)
    BY <1>0, <1>3, <2>1, <2>2, <2>4, BufferFacts, MakeJmpInv DEF disp
  <2>5. QED BY <2>3, <2>4
<1>4. QED BY <1>1, <1>2, <1>3

\* putL_inner records what the reference needs, for a displacement that
\* already accounts for the immediate.
LEMMA PutL_innerInv ==
  ASSUME IInv, isCalled => Reopen, NEW b, Extends(b, buf), NEW l \in Labels,
         NEW relative \in BOOLEAN, NEW ask \in Int, NEW imm \in 0..4,
         NEW size \in {4, 8}, NEW disp \in Int, disp = ask - imm,
         PutL_inner(b, l, relative, ask, disp, size, imm)
  PROVE  IInv'
<1> USE LinkerAssumption
<1> DEFINE kind == IF relative THEN "rel" ELSE "abs"
           f(v) == Field(kind, l, ask, imm, size, v)
           mode == IF relative THEN "LasIs" ELSE IF AutoGrow THEN "LaddTop" ELSE "Labs"
<1>1. PICK r \in Reserve(b) :
        LET end  == r.buf.size + size
            here == defs[l] + disp - end
        IN
        IF r.err # "none" THEN Return(r.buf, r.err)
        ELSE IF l \notin DOMAIN defs
          THEN Place(r.buf, size, f(0), {JmpLabel(l, end, size, mode, disp)}, {})
        ELSE IF relative
          THEN IF InInt32(here) THEN Place(r.buf, size, f(here), {}, {})
               ELSE Return(r.buf, "offset_too_big")
        ELSE IF AutoGrow
          THEN Place(r.buf, size, f(0), {}, {AddrInfo(end - size, defs[l], size, "LaddTop")})
        ELSE Place(r.buf, size, f(Stored(r.buf.top + defs[l], size)), {}, {})
  BY DEF PutL_inner
<1>2. /\ Extends(r.buf, buf) /\ r.err \in Errors /\ r.buf.size \in Nat /\ r.buf.top \in Nat
      /\ "offset_too_big" \in Errors /\ size \in 0..16 /\ imm \in Nat /\ imm <= 4
  BY ReserveStep DEF Errors
<1> DEFINE end  == r.buf.size + size
           here == defs[l] + disp - end
<1>3. ASSUME NEW v \in Int
      PROVE  /\ f(v) \in Fields /\ f(v).kind = kind /\ f(v).to = l /\ f(v).disp = ask
             /\ f(v).imm = imm /\ f(v).size = size /\ f(v).val = v
  BY <1>2 DEF Field, Fields, Kinds, Sizes
<1>4. CASE r.err # "none"
  BY <1>1, <1>2, <1>4, ReturnInv
<1>5. CASE r.err = "none" /\ l \notin DOMAIN defs
  <2> DEFINE u == JmpLabel(l, end, size, mode, disp)
  <2>1. Place(r.buf, size, f(0), {u}, {})
    BY <1>1, <1>5
  <2>2. /\ u \in Pendings /\ u.end = end /\ u.size = size /\ u.mode = mode
        /\ u.label = l /\ u.disp = disp
    BY <1>2 DEF JmpLabel, Pendings, Sizes, Modes
  <2> HIDE DEF u, f
  <2>3. Recorded(f(0), end, r.buf.top, {u}, {})
    BY <1>3, <2>2 DEF Recorded, Stands
  <2>4. QED BY <1>2, <1>3, <2>1, <2>3, PlaceInv
<1>6. CASE r.err = "none" /\ l \in DOMAIN defs /\ relative
  <2>1. IF InInt32(here) THEN Place(r.buf, size, f(here), {}, {})
        ELSE Return(r.buf, "offset_too_big")
    BY <1>1, <1>6
  <2>2. here \in Int /\ defs[l] \in Nat
    BY <1>2, <1>6, BufferFacts
  <2> HIDE DEF f
  <2>3. CASE InInt32(here)
    <3>1. Recorded(f(here), end, r.buf.top, {}, {})
      BY <1>2, <1>3, <1>6, <2>2 DEF Recorded, Stands
    <3>2. QED BY <1>2, <1>3, <2>1, <2>2, <2>3, <3>1, PlaceInv
  <2>4. CASE ~InInt32(here)
    BY <1>2, <2>1, <2>4, ReturnInv
  <2>5. QED BY <2>3, <2>4
<1>7. CASE r.err = "none" /\ l \in DOMAIN defs /\ ~relative /\ AutoGrow
  <2> DEFINE i == AddrInfo(end - size, defs[l], size, "LaddTop")
  <2>1. Place(r.buf, size, f(0), {}, {i})
    BY <1>1, <1>7
  <2>2. /\ i \in Entries /\ i.off = end - size /\ i.size = size /\ i.mode = "LaddTop"
        /\ i.val = defs[l] /\ defs[l] \in Nat
    BY <1>2, <1>7, BufferFacts DEF AddrInfo, Entries, Sizes, Modes
  <2> HIDE DEF i, f
  <2>3. Stands(f(0), end, r.buf.top, {}, {i}) \/ Excused(f(0), end, r.buf.top)
    BY <1>3, <1>7, <2>2 DEF Stands, Excused
  <2>4. Recorded(f(0), end, r.buf.top, {}, {i})
    BY <1>3, <2>2, <2>3 DEF Recorded
  <2>5. QED BY <1>2, <1>3, <2>1, <2>4, PlaceInv
<1>8. CASE r.err = "none" /\ l \in DOMAIN defs /\ ~relative /\ ~AutoGrow
  <2> DEFINE v == Stored(r.buf.top + defs[l], size)
  <2>1. Place(r.buf, size, f(v), {}, {})
    BY <1>1, <1>8
  <2>2. defs[l] \in Nat /\ v \in Int
    BY <1>2, <1>8, BufferFacts, StoredValue DEF Sizes
  <2> HIDE DEF f
  <2>3. Stands(f(v), end, r.buf.top, {}, {}) \/ Excused(f(v), end, r.buf.top)
    <3>1. CASE ask = 0 /\ imm = 0
      <4>1. v = Stored(r.buf.top + defs[l] + ask, size)
        BY <1>2, <2>2, <3>1
      <4>2. QED BY <1>3, <1>8, <2>2, <3>1, <4>1 DEF Stands
    <3>2. CASE ~(ask = 0 /\ imm = 0)
      BY <1>3, <1>8, <2>2, <3>2 DEF Excused
    <3>3. QED BY <3>1, <3>2
  <2>4. Recorded(f(v), end, r.buf.top, {}, {})
    BY <1>3, <2>2, <2>3 DEF Recorded
  <2>5. QED BY <1>2, <1>3, <2>1, <2>2, <2>4, PlaceInv
<1>9. QED BY <1>4, <1>5, <1>6, <1>7, <1>8

\* putL and mov(reg, label) preserve the invariant.
LEMMA PutLInv ==
  ASSUME IInv, NEW l \in Labels, NEW pre \in {0, Header}, PutL(l, pre)
  PROVE  IInv'
<1>1. PICK r \in Emit(buf, pre) :
        IF r.err # "none" THEN Return(r.buf, r.err)
        ELSE PutL_inner(r.buf, l, FALSE, 0, 0, 8, 0)
  BY DEF PutL
<1>2. pre \in 0..16 /\ (isCalled => Reopen)
  BY LinkerAssumption DEF PutL, Open
<1>3. Extends(r.buf, buf) /\ r.err \in Errors
  BY <1>2, EmitStep
<1>4. CASE r.err # "none"
  BY <1>1, <1>2, <1>3, <1>4, ReturnInv
<1>5. CASE r.err = "none"
  <2>1. PutL_inner(r.buf, l, FALSE, 0, 0, 8, 0)
    BY <1>1, <1>5
  <2>2. 0 \in Int /\ 0 = 0 - 0 /\ 0 \in 0..4 /\ 8 \in {4, 8} /\ FALSE \in BOOLEAN
    OBVIOUS
  <2>3. QED BY <1>2, <1>3, <2>1, <2>2, PutL_innerInv, Zenon
<1>6. QED BY <1>4, <1>5

\* An operand [rip + label + d] preserves the invariant.
LEMMA RipRefInv ==
  ASSUME IInv, NEW l \in Labels, NEW d \in Disps, NEW imm \in Imms, RipRef(l, d, imm)
  PROVE  IInv'
<1> USE LinkerAssumption
<1>1. PICK r \in Emit(buf, Header), folded \in Folded(l) :
        LET here == defs[l] + d - (r.buf.size + 4 + imm) IN
        IF r.err # "none" THEN Return(r.buf, r.err)
        ELSE IF ~folded THEN PutL_inner(r.buf, l, TRUE, d, d - imm, 4, imm)
        ELSE IF AutoGrow THEN Return(r.buf, "rip_in_auto_grow")
        ELSE IF ~InInt32(here) THEN Return(r.buf, "offset_too_big")
        ELSE Place(r.buf, 4, Field("rel", l, d, imm, 4, here), {}, {})
  BY DEF RipRef
<1>2. /\ Header \in 0..16 /\ (isCalled => Reopen) /\ d \in Int /\ imm \in 0..4
      /\ "rip_in_auto_grow" \in Errors /\ "offset_too_big" \in Errors
  BY DEF RipRef, Open, Errors
<1>3. Extends(r.buf, buf) /\ r.err \in Errors /\ r.buf.size \in Nat
  BY <1>2, EmitStep
<1> DEFINE here == defs[l] + d - (r.buf.size + 4 + imm)
           f    == Field("rel", l, d, imm, 4, here)
<1>4. CASE r.err # "none"
  BY <1>1, <1>2, <1>3, <1>4, ReturnInv
<1>5. CASE r.err = "none" /\ ~folded
  <2>1. PutL_inner(r.buf, l, TRUE, d, d - imm, 4, imm)
    BY <1>1, <1>5
  <2>2. d - imm \in Int /\ 4 \in {4, 8} /\ TRUE \in BOOLEAN
    BY <1>2
  <2>3. QED BY <1>2, <1>3, <2>1, <2>2, PutL_innerInv, Zenon
<1>6. CASE r.err = "none" /\ folded /\ AutoGrow
  BY <1>1, <1>2, <1>3, <1>6, ReturnInv
<1>7. CASE r.err = "none" /\ folded /\ ~AutoGrow /\ ~InInt32(here)
  BY <1>1, <1>2, <1>3, <1>7, ReturnInv
<1>8. CASE r.err = "none" /\ folded /\ ~AutoGrow /\ InInt32(here)
  <2>1. l \in DOMAIN defs /\ defs[l] \in Nat
    BY <1>8, BufferFacts DEF Folded
  <2>2. Place(r.buf, 4, f, {}, {})
    BY <1>1, <1>8
  <2>3. /\ f \in Fields /\ f.size = 4 /\ f.imm = imm /\ f.kind = "rel" /\ f.to = l
        /\ f.disp = d /\ f.val = here
    BY <1>2, <1>3, <2>1 DEF Field, Fields, Kinds, Sizes
  <2> HIDE DEF f
  <2>4. Recorded(f, r.buf.size + 4, r.buf.top, {}, {})
    BY <2>1, <2>3 DEF Recorded, Stands
  <2>5. QED BY <1>2, <1>3, <2>2, <2>3, <2>4, PlaceInv
<1>9. QED BY <1>4, <1>5, <1>6, <1>7, <1>8

\* An operand [reg + label + d] preserves the invariant.
LEMMA AbsRefInv ==
  ASSUME IInv, NEW l \in Labels, NEW d \in Disps, NEW imm \in Imms, AbsRef(l, d, imm)
  PROVE  IInv'
<1> USE LinkerAssumption
<1> DEFINE addr == buf.top + defs[l] + d
           f    == Field("abs", l, d, imm, 4, addr)
<1>1. PICK r \in Emit(buf, Header), folded \in Folded(l) :
        IF r.err # "none" THEN Return(r.buf, r.err)
        ELSE IF ~folded THEN PutL_inner(r.buf, l, FALSE, d, d - imm, 4, imm)
        ELSE IF ~InInt32(addr) THEN Return(r.buf, "offset_too_big")
        ELSE Place(r.buf, 4, f, {}, {})
  BY DEF AbsRef
<1>2. /\ Header \in 0..16 /\ (isCalled => Reopen) /\ d \in Int /\ imm \in 0..4
      /\ "offset_too_big" \in Errors
  BY DEF AbsRef, Open, Errors
<1>3. /\ Extends(r.buf, buf) /\ r.err \in Errors /\ r.buf.size \in Nat
      /\ buf.top \in Nat
  BY <1>2, EmitStep, BufferFacts
<1>4. CASE r.err # "none"
  BY <1>1, <1>2, <1>3, <1>4, ReturnInv
<1>5. CASE r.err = "none" /\ ~folded
  <2>1. PutL_inner(r.buf, l, FALSE, d, d - imm, 4, imm)
    BY <1>1, <1>5
  <2>2. d - imm \in Int /\ 4 \in {4, 8} /\ FALSE \in BOOLEAN
    BY <1>2
  <2>3. QED BY <1>2, <1>3, <2>1, <2>2, PutL_innerInv, Zenon
<1>6. CASE r.err = "none" /\ folded /\ ~InInt32(addr)
  BY <1>1, <1>2, <1>3, <1>6, ReturnInv
<1>7. CASE r.err = "none" /\ folded /\ InInt32(addr)
  <2>1. l \in DOMAIN defs /\ defs[l] \in Nat /\ (AutoGrow => isCalled)
    BY <1>7, BufferFacts DEF Folded
  <2>2. Place(r.buf, 4, f, {}, {})
    BY <1>1, <1>7
  <2>3. /\ f \in Fields /\ f.size = 4 /\ f.imm = imm /\ f.kind = "abs" /\ f.to = l
        /\ f.disp = d /\ f.val = addr
    BY <1>2, <1>3, <2>1 DEF Field, Fields, Kinds, Sizes
  <2>4. addr \in Int /\ Stored(addr, 4) = addr
    BY <1>2, <1>3, <1>7, <2>1, StoredValue DEF Sizes
  <2> HIDE DEF f
  <2>5. Stands(f, r.buf.size + 4, r.buf.top, {}, {}) \/ Excused(f, r.buf.size + 4, r.buf.top)
    BY <1>2, <1>3, <2>1, <2>3, <2>4 DEF Stands, Excused, Extends
  <2>6. Recorded(f, r.buf.size + 4, r.buf.top, {}, {})
    BY <2>5 DEF Recorded
  <2>7. QED BY <1>2, <1>3, <2>2, <2>3, <2>6, PlaceInv
<1>8. QED BY <1>4, <1>5, <1>6, <1>7

-----------------------------------------------------------------------------
(* Definitions.                                                            *)

\* What define_inner computes for a pending reference is an entry for the
\* field of that reference.
LEMMA EntryFacts ==
  ASSUME IInv, NEW u \in undef, NEW a \in Nat
  PROVE  /\ Entry(u, a) \in Entries /\ Resolve(u, a) \in Int
         /\ Entry(u, a).off = u.end - u.size /\ Entry(u, a).size = u.size
         /\ Entry(u, a).mode = u.mode /\ Entry(u, a).val = Resolve(u, a)
         /\ u.end - u.size \in DOMAIN refs /\ refs[u.end - u.size].size = u.size
         /\ PendingFor(u, u.end - u.size)
<1>1. /\ u \in Pendings /\ u.end - u.size \in DOMAIN refs /\ u.end - u.size \in Nat
      /\ refs[u.end - u.size].size = u.size /\ PendingFor(u, u.end - u.size)
  BY DEF IInv, TypeOK, Pendings, PatchesHitFields, PendingFor
<1>2. Resolve(u, a) \in Int
  BY <1>1, BufferFacts DEF Resolve, Pendings, Modes
<1>3. QED BY <1>1, <1>2 DEF Entry, AddrInfo, Entries, Pendings

\* Defining a label and settling the references S to it, in AutoGrow code:
\* they move from the pending to the saved ones.
LEMMA SettleSaves ==
  ASSUME IInv, isCalled => Reopen, NEW l \in Labels, NEW a \in Nat,
         l \notin DOMAIN defs, AutoGrow,
         NEW S \in SUBSET undef,
         \A u \in S : u.label = l /\ ~OffsetTooBig(u, a) /\ ~TooFar(u, a),
         Settle(S, a), defs' = With(defs, l, a),
         UNCHANGED <<buf, isCalled>>, done' = FALSE, err' \in Errors
  PROVE  IInv'
<1> USE LinkerAssumption
<1> DEFINE W == {Entry(u, a) : u \in S}
<1>0. /\ undef' = undef \ S /\ info' = info \cup W /\ refs' = refs
      /\ buf' = buf /\ isCalled' = isCalled
  BY DEF Settle
<1>1. /\ DOMAIN defs' = DOMAIN defs \cup {l} /\ defs'[l] = a
      /\ \A k \in DOMAIN defs : defs'[k] = defs[k]
  BY DEF With
<1>2. \A i \in W : \E u \in S : i = Entry(u, a)
  OBVIOUS
<1>3. W \subseteq Entries
  BY EntryFacts
<1> HIDE DEF W
<1>4. TypeOK'
  <2>1. undef' \subseteq Pendings /\ info' \subseteq Entries
    BY <1>0, <1>3 DEF IInv, TypeOK, Pendings, Entries
  <2>2. DOMAIN defs' \subseteq Labels /\ \A k \in DOMAIN defs' : defs'[k] \in Nat
    BY <1>1 DEF IInv, TypeOK
  <2>3. QED BY <1>0, <2>1, <2>2 DEF IInv, TypeOK, Pendings, Entries
<1>5. Bookkeeping'
  <2>1. ASSUME NEW i \in W, i.size = 1
        PROVE  i.mode = "LasIs" /\ InDisp8(i.val)
    <3>1. PICK u \in S : i = Entry(u, a)
      BY <1>2
    <3>2. u.size = 1 /\ u.mode = "LasIs" /\ i.mode = u.mode /\ i.val = Resolve(u, a)
      BY <2>1, <3>1, EntryFacts DEF IInv, Bookkeeping
    <3>3. QED BY <3>2 DEF TooFar
  <2>2. QED BY <1>0, <2>1 DEF IInv, Bookkeeping
<1>6. PatchesHitFields'
  <2>1. \A u, v \in undef : u.end - u.size = v.end - v.size => u = v
    BY DEF IInv, PatchesHitFields
  <2>2. \A i \in W : i.off \in DOMAIN refs /\ refs[i.off].size = i.size
    BY <1>2, EntryFacts
  <2>3. \A i, j \in W : i.off = j.off => i = j
    BY <1>2, <2>1, EntryFacts
  <2>4. \A i \in W, j \in info : i.off # j.off
    BY <1>2, EntryFacts DEF IInv, PatchesHitFields
  <2>5. \A i \in W, u \in undef \ S : u.end - u.size # i.off
    BY <1>2, <2>1, EntryFacts
  <2>6. \A u \in undef : PendingFor(u, u.end - u.size)'
    BY <1>0 DEF IInv, PatchesHitFields, PendingFor
  <2>7. QED
    BY <1>0, <2>2, <2>3, <2>4, <2>5, <2>6 DEF IInv, PatchesHitFields
<1>7. ASSUME NEW x \in DOMAIN refs, Supported(x)'
      PROVE  /\ refs[x] \in Fields /\ ~isCalled /\ Supported(x)
             /\ refs[x].to \in DOMAIN defs \/ refs[x].kind = "ext" => Target(x)' = Target(x)
  <2>1. refs[x] \in Fields /\ ~isCalled
    BY <1>0, <1>7 DEF IInv, TypeOK, Fields, Supported
  <2>2. refs[x].to \in DOMAIN defs \/ refs[x].kind = "ext" => Target(x)' = Target(x)
    BY <1>0, <1>1 DEF Target
  <2>3. QED BY <1>0, <1>1, <1>7, <2>1, <2>2 DEF Supported
<1>8. ASSUME NEW x \in DOMAIN refs, Supported(x)', NEW u \in S, PendingFor(u, x),
             NEW i \in W, i = Entry(u, a)
      PROVE  SavedFor(i, x)'
  <2>2. /\ u.end = x + refs[x].size /\ u.size = refs[x].size /\ refs[x].to = l
        /\ u.disp = refs[x].disp - refs[x].imm /\ refs[x].kind \in {"rel", "abs"}
        /\ u.mode = IF refs[x].kind = "rel" THEN "LasIs" ELSE "LaddTop"
    BY <1>7, <1>8 DEF PendingFor, Fields, Kinds
  <2>3. /\ x \in Nat /\ refs[x].size \in Nat /\ refs[x].disp \in Int
        /\ refs[x].imm \in Nat /\ buf.top \in Nat
    BY <1>7, <1>8, BufferFacts DEF IInv, TypeOK, Fields, Sizes
  <2>4. /\ i.off = u.end - u.size /\ i.size = u.size /\ i.mode = u.mode
        /\ i.val = Resolve(u, a)
    BY <1>8, EntryFacts
  <2>5. i.off = x
    BY <2>2, <2>3, <2>4
  <2>6. GetVal(i, buf.top) = Target(x)'
    <3>1. CASE refs[x].kind = "rel"
      BY <1>0, <1>1, <2>2, <2>3, <2>4, <3>1 DEF GetVal, Target, Resolve
    <3>2. CASE refs[x].kind = "abs"
      <4>1. refs[x].disp = 0 /\ refs[x].imm = 0
        BY <1>7, <1>8, <3>2 DEF Supported
      <4>2. QED BY <1>0, <1>1, <2>2, <2>3, <2>4, <3>2, <4>1 DEF GetVal, Target, Resolve
    <3>3. QED BY <2>2, <3>1, <3>2
  <2>7. QED BY <1>0, <1>1, <2>2, <2>4, <2>5, <2>6 DEF SavedFor
<1>9. ASSUME NEW x \in DOMAIN refs, Supported(x)', NEW i \in info, SavedFor(i, x)
      PROVE  SavedFor(i, x)'
  BY <1>0, <1>1, <1>7, <1>9 DEF SavedFor
<1>10. NothingLost'
  <2>1. ASSUME NEW x \in DOMAIN refs, Supported(x)'
        PROVE  Accounted(x)'
    <3>1. CASE Correct(x) /\ (AutoGrow /\ refs[x].kind # "rel" => isCalled)
      BY <1>0, <1>1, <1>7, <2>1, <3>1 DEF Accounted, Correct
    <3>2. ASSUME NEW u \in undef, PendingFor(u, x), u \notin S
          PROVE  Accounted(x)'
      BY <1>0, <3>2 DEF Accounted, PendingFor
    <3>3. ASSUME NEW u \in S, PendingFor(u, x)
          PROVE  Accounted(x)'
      <4>1. PICK i \in W : i = Entry(u, a)
        BY <3>3, Zenon DEF W
      <4>2. i \in info' /\ SavedFor(i, x)'
        BY <1>0, <1>8, <2>1, <3>3, <4>1
      <4>3. QED BY <1>0, <1>7, <2>1, <4>1, <4>2 DEF Accounted
    <3>4. ASSUME NEW i \in info, SavedFor(i, x)
          PROVE  Accounted(x)'
      BY <1>0, <1>7, <1>9, <2>1, <3>4 DEF Accounted
    <3>5. QED BY <1>7, <2>1, <3>1, <3>2, <3>3, <3>4 DEF IInv, NothingLost, Accounted
  <2>2. ASSUME NEW i \in info', Supported(i.off)'
        PROVE  SavedFor(i, i.off)'
    <3>1. CASE i \in info
      <4>1. i.off \in DOMAIN refs
        BY <3>1 DEF IInv, PatchesHitFields
      <4>2. SavedFor(i, i.off)
        BY <1>7, <2>2, <3>1, <4>1 DEF IInv, NothingLost
      <4>3. QED BY <1>9, <2>2, <3>1, <4>1, <4>2
    <3>2. CASE i \in W
      <4>1. PICK u \in S : i = Entry(u, a)
        BY <1>2, <3>2
      <4>2. i.off \in DOMAIN refs /\ PendingFor(u, i.off)
        BY <4>1, EntryFacts
      <4>3. QED BY <1>8, <2>2, <3>2, <4>1, <4>2
    <3>3. QED BY <1>0, <3>1, <3>2
  <2>3. QED BY <1>0, <2>1, <2>2 DEF NothingLost
<1>11. QED BY <1>4, <1>5, <1>6, <1>10 DEF IInv

\* Defining a label and settling the references S to it, in a fixed buffer:
\* their fields are written at once.
LEMMA SettleWrites ==
  ASSUME IInv, isCalled => Reopen, NEW l \in Labels, NEW a \in Nat,
         a = buf.size \/ l \in AssignTo,
         l \notin DOMAIN defs, ~AutoGrow,
         NEW S \in SUBSET undef,
         \A u \in S : u.label = l /\ ~OffsetTooBig(u, a) /\ ~TooFar(u, a),
         Settle(S, a), defs' = With(defs, l, a),
         UNCHANGED <<buf, isCalled>>, done' = FALSE, err' \in Errors
  PROVE  IInv'
<1> USE LinkerAssumption
<1> DEFINE W == {Entry(u, a) : u \in S}
           Written(x) == \E w \in W : w.off = x
<1>0. /\ undef' = undef \ S /\ info' = info
      /\ refs' = Rewrite(W, LAMBDA w : w.val)
      /\ buf' = buf /\ isCalled' = isCalled
  BY DEF Settle
<1>1. /\ DOMAIN defs' = DOMAIN defs \cup {l} /\ defs'[l] = a
      /\ \A k \in DOMAIN defs : defs'[k] = defs[k]
  BY DEF With
<1>2. /\ DOMAIN refs' = DOMAIN refs
      /\ \A x \in DOMAIN refs : ~Written(x) => refs'[x] = refs[x]
      /\ \A x \in DOMAIN refs : Written(x) =>
           \E w \in W : w.off = x /\ refs'[x] = [refs[x] EXCEPT !.val = Stored(w.val, w.size)]
  BY <1>0 DEF Rewrite
<1>3. \A w \in W : \E u \in S : w = Entry(u, a)
  OBVIOUS
<1>4. \A u \in S : Entry(u, a) \in W
  OBVIOUS
<1> HIDE DEF W
<1>5. \A u, v \in undef : u.end - u.size = v.end - v.size => u = v
  BY DEF IInv, PatchesHitFields
<1>6. ASSUME NEW x \in DOMAIN refs, Written(x)
      PROVE  \E u \in S : /\ u.end - u.size = x
                          /\ refs'[x] = [refs[x] EXCEPT !.val = Stored(Resolve(u, a), u.size)]
  <2>1. PICK w \in W : w.off = x /\ refs'[x] = [refs[x] EXCEPT !.val = Stored(w.val, w.size)]
    BY <1>2, <1>6
  <2>2. PICK u \in S : w = Entry(u, a)
    BY <1>3
  <2>3. w.off = u.end - u.size /\ w.val = Resolve(u, a) /\ w.size = u.size
    BY <2>2, EntryFacts
  <2>4. QED BY <2>1, <2>3
<1>7. ASSUME NEW x \in DOMAIN refs
      PROVE  /\ refs'[x] \in Fields /\ refs[x] \in Fields
             /\ refs'[x].kind = refs[x].kind /\ refs'[x].to = refs[x].to
             /\ refs'[x].disp = refs[x].disp /\ refs'[x].imm = refs[x].imm
             /\ refs'[x].size = refs[x].size
  <2>1. refs[x] \in Fields
    BY DEF IInv, TypeOK, Fields
  <2>2. CASE ~Written(x)
    BY <1>2, <2>1, <2>2
  <2>3. CASE Written(x)
    <3>1. PICK u \in S : refs'[x] = [refs[x] EXCEPT !.val = Stored(Resolve(u, a), u.size)]
      BY <1>6, <2>3
    <3>2. Stored(Resolve(u, a), u.size) \in Int
      BY EntryFacts, StoredValue DEF IInv, TypeOK
    <3>3. QED BY <2>1, <3>1, <3>2 DEF Fields
  <2>4. QED BY <2>2, <2>3
<1>8. TypeOK'
  <2>1. DOMAIN defs' \subseteq Labels /\ \A k \in DOMAIN defs' : defs'[k] \in Nat
    BY <1>1 DEF IInv, TypeOK
  <2>2. QED BY <1>0, <1>2, <1>7, <2>1 DEF IInv, TypeOK, Fields
<1>9. Bookkeeping'
  BY <1>0 DEF IInv, Bookkeeping
<1>10. PatchesHitFields'
  <2>1. \A u \in undef : PendingFor(u, u.end - u.size)'
    BY <1>0, <1>7 DEF IInv, PatchesHitFields, PendingFor
  <2>2. QED BY <1>0, <1>2, <1>7, <2>1 DEF IInv, PatchesHitFields
<1>11. ASSUME NEW x \in DOMAIN refs, Supported(x)'
       PROVE  Accounted(x)'
  <2>1. refs[x].to \in DOMAIN defs \/ refs[x].kind = "ext" => Target(x)' = Target(x)
    BY <1>0, <1>1, <1>7 DEF Target
  <2>2. Supported(x)
    BY <1>0, <1>1, <1>7, <1>11, <2>1 DEF Supported
  <2>3. CASE ~Written(x)
    <3>1. refs'[x] = refs[x]
      BY <1>2, <2>3
    <3>2. CASE Correct(x)
      BY <1>0, <1>1, <2>1, <3>1, <3>2 DEF Accounted, Correct
    <3>3. ASSUME NEW u \in undef, PendingFor(u, x)
          PROVE  Accounted(x)'
      <4>1. u \notin S
        <5>1. u.end = x + u.size /\ x \in Nat /\ u.size \in Nat
          BY <3>3, <1>7 DEF PendingFor, IInv, TypeOK, Fields, Sizes
        <5>2. u.end - u.size = x
          BY <5>1
        <5>3. QED BY <1>4, <2>3, <5>2, EntryFacts
      <4>2. QED BY <1>0, <3>1, <3>3, <4>1 DEF Accounted, PendingFor
    <3>4. QED BY <2>2, <3>2, <3>3 DEF IInv, NothingLost, Accounted
  <2>4. CASE Written(x)
    <3>1. PICK u \in S : /\ u.end - u.size = x
                        /\ refs'[x] = [refs[x] EXCEPT !.val = Stored(Resolve(u, a), u.size)]
      BY <1>6, <2>4
    <3>2. refs'[x].val = Stored(Resolve(u, a), u.size)
      BY <1>7, <3>1 DEF Fields
    <3>3. /\ u.end = x + refs[x].size /\ u.size = refs[x].size /\ refs[x].to = l
          /\ u.disp = refs[x].disp - refs[x].imm /\ refs[x].kind \in {"rel", "abs"}
          /\ u.mode = IF refs[x].kind = "rel" THEN "LasIs" ELSE "Labs"
          /\ u.label = l /\ u.size \in Sizes
      <4>1. PendingFor(u, x) /\ u.label = l
        BY <3>1, EntryFacts
      <4>2. QED BY <1>7, <4>1 DEF PendingFor, Fields, Kinds
    <3>4. /\ x \in Nat /\ refs[x].size \in Nat /\ refs[x].disp \in Int
          /\ refs[x].imm \in Nat /\ buf.top \in Nat /\ buf.size \in Nat
      BY <1>7, BufferFacts DEF IInv, TypeOK, Fields, Sizes
    <3>5. CASE refs[x].kind = "rel"
      <4>1. Target(x)' = Resolve(u, a)
        BY <1>0, <1>1, <1>7, <3>3, <3>4, <3>5 DEF Target, Resolve
      <4>2. Resolve(u, a) \in Int /\ (u.size <= 4 => InInt32(Resolve(u, a)))
            /\ (u.size = 1 => InDisp8(Resolve(u, a)))
        BY <3>3, <3>5, EntryFacts DEF OffsetTooBig, TooFar
      <4>3. Stored(Resolve(u, a), u.size) = Resolve(u, a)
        BY <3>3, <4>2, StoredValue DEF Sizes
      <4>4. QED BY <1>1, <1>7, <3>2, <3>3, <3>5, <4>1, <4>3 DEF Accounted, Correct
    <3>6. CASE refs[x].kind = "abs"
      <4>1. refs[x].disp = 0 /\ refs[x].imm = 0 /\ l \notin AssignTo
        BY <2>2, <3>3, <3>6, <1>7 DEF Supported
      <4>2. Target(x)' = Resolve(u, a)
        BY <1>0, <1>1, <1>7, <3>3, <3>4, <3>6, <4>1 DEF Target, Resolve
      <4>3. QED BY <1>1, <1>7, <3>2, <3>3, <3>6, <4>2 DEF Accounted, Correct
    <3>7. QED BY <3>3, <3>5, <3>6
  <2>5. QED BY <2>3, <2>4
<1>12. ASSUME NEW i \in info, Supported(i.off)'
       PROVE  SavedFor(i, i.off)'
  <2>1. i.off \in DOMAIN refs /\ ~Written(i.off)
    BY <1>3, EntryFacts DEF IInv, PatchesHitFields
  <2>2. refs'[i.off] = refs[i.off]
    BY <1>2, <2>1
  <2>3. refs[i.off].to \in DOMAIN defs \/ refs[i.off].kind = "ext"
          => Target(i.off)' = Target(i.off)
    BY <1>0, <1>1, <2>2 DEF Target
  <2>4. Supported(i.off)
    BY <1>0, <1>1, <1>12, <2>2, <2>3 DEF Supported
  <2>5. SavedFor(i, i.off)
    BY <1>12, <2>4 DEF IInv, NothingLost
  <2>6. QED BY <1>0, <1>1, <2>2, <2>3, <2>5 DEF SavedFor
<1>13. QED BY <1>0, <1>2, <1>8, <1>9, <1>10, <1>11, <1>12 DEF IInv, NothingLost

\* define_inner preserves the invariant, whether it succeeds, finds the
\* label defined, or meets a reference out of reach.
LEMMA DefineInv ==
  ASSUME IInv, isCalled => Reopen, NEW l \in Labels, NEW a \in Nat,
         a = buf.size \/ l \in AssignTo, DefineInner(l, a)
  PROVE  IInv'
<1> USE LinkerAssumption
<1> DEFINE P   == {u \in undef : u.label = l}
           bad == {u \in P : OffsetTooBig(u, a) \/ TooFar(u, a)}
<1>1. CASE l \in DOMAIN defs
  <2>1. Return(buf, "redefined") /\ "redefined" \in Errors
    BY <1>1 DEF DefineInner, Return, Errors
  <2>2. Extends(buf, buf)
    BY BufferFacts DEF Extends
  <2>3. QED BY <2>1, <2>2, ReturnInv
<1>2. CASE l \notin DOMAIN defs
  <2>1. /\ UNCHANGED <<buf, isCalled>> /\ done' = FALSE
        /\ defs' = With(defs, l, a)
        /\ \/ bad = {} /\ Settle(P, a) /\ err' = "none"
           \/ \E S \in SUBSET (P \ bad), u \in bad :
                /\ Settle(S, a)
                /\ err' = IF OffsetTooBig(u, a) THEN "offset_too_big" ELSE "too_far"
    BY <1>2 DEF DefineInner, Insert
  <2>2. PICK S \in SUBSET undef :
          /\ \A u \in S : u.label = l /\ ~OffsetTooBig(u, a) /\ ~TooFar(u, a)
          /\ Settle(S, a)
          /\ err' \in {"none", "offset_too_big", "too_far"}
    <3>1. CASE bad = {} /\ Settle(P, a) /\ err' = "none"
      <4>1. P \in SUBSET undef /\ \A u \in P : u.label = l /\ ~OffsetTooBig(u, a) /\ ~TooFar(u, a)
        BY <3>1
      <4>2. QED BY <3>1, <4>1
    <3>2. ASSUME NEW S \in SUBSET (P \ bad), Settle(S, a),
                 err' \in {"offset_too_big", "too_far"}
          PROVE  /\ S \in SUBSET undef
                 /\ \A u \in S : u.label = l /\ ~OffsetTooBig(u, a) /\ ~TooFar(u, a)
      OBVIOUS
    <3>3. QED BY <2>1, <3>1, <3>2
  <2>3. err' \in Errors
    BY <2>2 DEF Errors
  <2>4. CASE AutoGrow
    BY <1>2, <2>1, <2>2, <2>3, <2>4, SettleSaves
  <2>5. CASE ~AutoGrow
    BY <1>2, <2>1, <2>2, <2>3, <2>5, SettleWrites
  <2>6. QED BY <2>4, <2>5
<1>3. QED BY <1>1, <1>2

\* L preserves the invariant.
LEMMA LInv ==
  ASSUME IInv, NEW l \in Labels, L(l)
  PROVE  IInv'
BY DefineInv, BufferFacts DEF L, Buffers

\* assignL preserves the invariant.
LEMMA AssignLInv ==
  ASSUME IInv, NEW dst \in Labels, NEW src \in Labels, AssignL(dst, src)
  PROVE  IInv'
<1>1. CASE src \in DOMAIN defs
  BY <1>1, DefineInv, BufferFacts DEF AssignL
<1>2. CASE src \notin DOMAIN defs
  <2>1. Return(buf, "not_set_by_L") /\ "not_set_by_L" \in Errors
    BY <1>2 DEF AssignL, Errors
  <2>2. Extends(buf, buf)
    BY BufferFacts DEF Extends
  <2>3. QED BY <2>1, <2>2, ReturnInv
<1>3. QED BY <1>1, <1>2

-----------------------------------------------------------------------------
(* Completion.                                                             *)

\* ready() fills in the fields of the saved entries S, all of them if it
\* succeeds.
LEMMA FillInv ==
  ASSUME IInv, AutoGrow, ~isCalled, undef = {}, NEW S \in SUBSET info,
         \A i \in S : ~Unfit(i, buf.top),
         refs' = Rewrite(S, LAMBDA i : GetVal(i, buf.top)),
         UNCHANGED <<buf, undef, info, defs>>,
         isCalled' \in BOOLEAN, isCalled' => S = info,
         done' \in BOOLEAN, done' => isCalled', err' \in Errors
  PROVE  IInv'
<1> USE LinkerAssumption
<1> DEFINE Written(x) == \E i \in S : i.off = x
<1>1. /\ DOMAIN refs' = DOMAIN refs
      /\ \A x \in DOMAIN refs : ~Written(x) => refs'[x] = refs[x]
      /\ \A x \in DOMAIN refs : Written(x) =>
           \E i \in S : i.off = x /\ refs'[x] = [refs[x] EXCEPT !.val = Stored(GetVal(i, buf.top), i.size)]
  BY DEF Rewrite
<1>2. ASSUME NEW i \in info
      PROVE  i \in Entries /\ GetVal(i, buf.top) \in Int
  <2>1. i \in Entries /\ buf.top \in Int
    BY BufferFacts DEF IInv, TypeOK, Entries
  <2>2. i.val \in Int /\ i.mode \in {"LasIs", "Labs", "LaddTop"}
    BY <2>1 DEF Entries, Modes
  <2>3. GetVal(i, buf.top) \in {i.val, i.val + buf.top, i.val - buf.top}
    BY <2>2 DEF GetVal
  <2>4. QED BY <2>1, <2>2, <2>3
<1>3. ASSUME NEW x \in DOMAIN refs
      PROVE  /\ refs'[x] \in Fields /\ refs[x] \in Fields
             /\ refs'[x].kind = refs[x].kind /\ refs'[x].to = refs[x].to
             /\ refs'[x].disp = refs[x].disp /\ refs'[x].imm = refs[x].imm
             /\ refs'[x].size = refs[x].size
  <2>1. refs[x] \in Fields
    BY DEF IInv, TypeOK, Fields
  <2>2. CASE ~Written(x)
    BY <1>1, <2>1, <2>2
  <2>3. CASE Written(x)
    <3>1. PICK i \in S : refs'[x] = [refs[x] EXCEPT !.val = Stored(GetVal(i, buf.top), i.size)]
      BY <1>1, <2>3
    <3>2. Stored(GetVal(i, buf.top), i.size) \in Int
      BY <1>2, StoredValue DEF Entries
    <3>3. QED BY <2>1, <3>1, <3>2 DEF Fields
  <2>4. QED BY <2>2, <2>3
<1>4. TypeOK'
  BY <1>1, <1>3 DEF IInv, TypeOK, Fields
<1>5. Bookkeeping'
  BY DEF IInv, Bookkeeping
<1>6. PatchesHitFields'
  BY <1>1, <1>3 DEF IInv, PatchesHitFields
<1>7. ASSUME NEW x \in DOMAIN refs, Supported(x)'
      PROVE  /\ Supported(x) /\ Target(x)' = Target(x)
             /\ \A i \in info : SavedFor(i, x) => SavedFor(i, x)'
  <2>1. Target(x)' = Target(x)
    BY <1>3 DEF Target
  <2>2. Supported(x)
    BY <1>3, <1>7, <2>1 DEF Supported
  <2>3. QED BY <1>3, <2>1, <2>2 DEF SavedFor
<1>8. ASSUME NEW i \in info, Supported(i.off)'
      PROVE  i.off \in DOMAIN refs /\ SavedFor(i, i.off)
  BY <1>7, <1>8 DEF IInv, NothingLost, PatchesHitFields
<1>9. ASSUME NEW x \in DOMAIN refs, Supported(x)', Written(x)
      PROVE  Correct(x)'
  <2>1. PICK i \in S : i.off = x /\ refs'[x] = [refs[x] EXCEPT !.val = Stored(GetVal(i, buf.top), i.size)]
    BY <1>1, <1>9
  <2>2. SavedFor(i, x)
    BY <1>8, <1>9, <2>1
  <2>3. GetVal(i, buf.top) = Target(x) /\ i.size = refs[x].size
        /\ refs'[x].val = Stored(GetVal(i, buf.top), i.size)
    BY <1>3, <2>1, <2>2 DEF SavedFor, Fields
  <2>4. refs[x].kind # "abs" => Stored(GetVal(i, buf.top), i.size) = GetVal(i, buf.top)
    <3>1. i.size = 4 => InInt32(GetVal(i, buf.top))
      BY DEF Unfit
    <3>2. i.size = 1 => InDisp8(GetVal(i, buf.top))
      BY DEF IInv, Bookkeeping, GetVal
    <3>3. QED BY <1>2, <3>1, <3>2, StoredValue DEF Entries, Sizes
  <2>5. QED BY <1>3, <1>7, <1>9, <2>2, <2>3, <2>4 DEF Correct, SavedFor
<1>10. NothingLost'
  <2>1. ASSUME NEW x \in DOMAIN refs, Supported(x)'
        PROVE  Accounted(x)'
    <3>1. CASE Correct(x) /\ refs[x].kind = "rel" /\ ~Written(x)
      BY <1>1, <1>3, <1>7, <2>1, <3>1 DEF Accounted, Correct
    <3>2. ASSUME NEW i \in info, SavedFor(i, x)
          PROVE  Accounted(x)'
      <4>1. CASE isCalled'
        BY <1>9, <2>1, <3>2, <4>1 DEF Accounted, SavedFor
      <4>2. CASE ~isCalled'
        BY <1>7, <2>1, <3>2, <4>2 DEF Accounted
      <4>3. QED BY <4>1, <4>2
    <3>3. CASE Written(x)
      BY <1>8, <2>1, <3>2, <3>3
    <3>4. QED BY <1>7, <2>1, <3>1, <3>2, <3>3 DEF IInv, NothingLost, Accounted
  <2>2. QED BY <1>1, <1>7, <1>8, <2>1 DEF NothingLost
<1>11. QED BY <1>4, <1>5, <1>6, <1>10 DEF IInv

\* ready() preserves the invariant, also when it stops half-way.
LEMMA ReadyInv ==
  ASSUME IInv, Ready
  PROVE  IInv'
<1> DEFINE unfit == {i \in info : Unfit(i, buf.top)}
<1>1. UNCHANGED <<buf, undef, info, defs>>
  BY DEF Ready
<1>2. ASSUME UNCHANGED <<refs, isCalled>>, err' \in Errors, done' \in BOOLEAN,
             done' => undef = {} /\ (AutoGrow => isCalled)
      PROVE  IInv'
  <2>1. TypeOK' /\ Bookkeeping'
    BY <1>1, <1>2 DEF IInv, TypeOK, Bookkeeping
  <2>2. PatchesHitFields'
    BY <1>1, <1>2 DEF IInv, PatchesHitFields, PendingFor
  <2>3. NothingLost'
    <3>1. ASSUME NEW x
          PROVE  /\ Supported(x)' = Supported(x) /\ Correct(x)' = Correct(x)
                 /\ \A u : PendingFor(u, x)' = PendingFor(u, x)
                 /\ \A i : SavedFor(i, x)' = SavedFor(i, x)
      BY <1>1, <1>2 DEF Supported, Correct, PendingFor, SavedFor, Target
    <3>2. \A x : Accounted(x)' = Accounted(x)
      BY <1>1, <1>2, <3>1 DEF Accounted
    <3>3. QED BY <1>1, <1>2, <3>1, <3>2 DEF IInv, NothingLost
  <2>4. QED BY <2>1, <2>2, <2>3 DEF IInv
<1>3. CASE undef # {} /\ err' = "not_found" /\ done' = FALSE /\ UNCHANGED <<refs, isCalled>>
  BY <1>2, <1>3 DEF Errors
<1>4. CASE /\ undef = {} /\ (AutoGrow => isCalled)
           /\ err' = "none" /\ done' = TRUE /\ UNCHANGED <<refs, isCalled>>
  BY <1>2, <1>4 DEF Errors
<1>5. CASE /\ undef = {} /\ AutoGrow /\ ~isCalled /\ unfit = {}
           /\ refs' = Rewrite(info, LAMBDA i : GetVal(i, buf.top))
           /\ isCalled' = TRUE /\ err' = "none" /\ done' = TRUE
  <2>1. info \in SUBSET info /\ \A i \in info : ~Unfit(i, buf.top)
    BY <1>5
  <2>2. err' \in Errors /\ isCalled' \in BOOLEAN /\ done' \in BOOLEAN
    BY <1>5 DEF Errors
  <2>3. QED BY <1>1, <1>5, <2>1, <2>2, FillInv
<1>6. CASE /\ undef = {} /\ AutoGrow /\ ~isCalled /\ unfit # {}
           /\ \E S \in SUBSET (info \ unfit) : refs' = Rewrite(S, LAMBDA i : GetVal(i, buf.top))
           /\ err' = "offset_too_big" /\ done' = FALSE /\ UNCHANGED isCalled
  <2>1. PICK S \in SUBSET (info \ unfit) : refs' = Rewrite(S, LAMBDA i : GetVal(i, buf.top))
    BY <1>6
  <2>2. S \in SUBSET info /\ \A i \in S : ~Unfit(i, buf.top)
    OBVIOUS
  <2>3. err' \in Errors /\ isCalled' = FALSE /\ done' = FALSE
    BY <1>6 DEF Errors, IInv, TypeOK
  <2>4. QED BY <1>1, <1>6, <2>1, <2>2, <2>3, FillInv
<1>7. QED BY <1>3, <1>4, <1>5, <1>6 DEF Ready

\* An empty buffer satisfies the invariant.
LEMMA EmptyInv ==
  ASSUME buf \in Buffers, buf.size = 0, refs = [o \in {} |-> 0],
         defs = [l \in {} |-> 0], undef = {}, info = {},
         isCalled = FALSE, done = FALSE, err = "none"
  PROVE  IInv
<1>1. DOMAIN refs = {} /\ DOMAIN defs = {}
  OBVIOUS
<1>2. TypeOK
  BY <1>1 DEF TypeOK, Buffers, Errors
<1>3. Bookkeeping
  BY DEF Bookkeeping
<1>4. PatchesHitFields
  BY <1>1 DEF PatchesHitFields, Buffers
<1>5. NothingLost
  BY <1>1 DEF NothingLost
<1>6. QED BY <1>2, <1>3, <1>4, <1>5 DEF IInv

-----------------------------------------------------------------------------
(* Theorems.                                                               *)

\* A constructed generator satisfies the invariant.
LEMMA InitInv == Init => IInv
<1> SUFFICES ASSUME Init PROVE IInv
  OBVIOUS
<1>1. buf \in Buffers /\ buf.size = 0
  BY LinkerAssumption DEF Init, Buffers
<1>2. QED BY <1>1, EmptyInv DEF Init

\* reset() leaves an empty generator.
LEMMA ResetInv ==
  ASSUME IInv, Reset
  PROVE  IInv'
<1>1. buf' \in Buffers /\ buf'.size = 0
  BY BufferFacts DEF Reset, Buffers
<1>2. DOMAIN refs' = {} /\ DOMAIN defs' = {} /\ undef' = {} /\ info' = {}
  BY DEF Reset
<1>3. TypeOK'
  BY <1>1, <1>2 DEF Reset, TypeOK, Buffers, Errors
<1>4. Bookkeeping'
  BY <1>2 DEF Reset, Bookkeeping
<1>5. PatchesHitFields'
  BY <1>1, <1>2 DEF PatchesHitFields, Buffers
<1>6. NothingLost'
  BY <1>2 DEF NothingLost
<1>7. QED BY <1>3, <1>4, <1>5, <1>6 DEF IInv

\* Every operation preserves the invariant.
LEMMA StepInv == IInv /\ [Next]_vars => IInv'
<1> SUFFICES ASSUME IInv, [Next]_vars PROVE IInv'
  OBVIOUS
<1>1. CASE UNCHANGED vars
  <2>1. ASSUME NEW x
        PROVE  /\ Supported(x)' = Supported(x) /\ Correct(x)' = Correct(x)
               /\ \A u : PendingFor(u, x)' = PendingFor(u, x)
               /\ \A i : SavedFor(i, x)' = SavedFor(i, x)
    BY <1>1 DEF vars, Supported, Correct, PendingFor, SavedFor, Target
  <2>2. \A x : Accounted(x)' = Accounted(x)
    BY <1>1, <2>1 DEF vars, Accounted
  <2>3. NothingLost'
    BY <1>1, <2>1, <2>2 DEF vars, IInv, NothingLost
  <2>4. PatchesHitFields'
    BY <1>1, <2>1 DEF vars, IInv, PatchesHitFields
  <2>5. TypeOK' /\ Bookkeeping'
    BY <1>1 DEF vars, IInv, TypeOK, Bookkeeping
  <2>6. QED BY <2>3, <2>4, <2>5 DEF IInv
<1>2. ASSUME NEW n \in Pads, Db(n) PROVE IInv'
  BY <1>2, DbInv
<1>3. ASSUME NEW l \in Labels, NEW type \in Types, NEW pref \in Prefs, Jmp(l, type, pref)
      PROVE  IInv'
  BY <1>3, JmpInv
<1>4. ASSUME NEW a \in Exts, NEW type \in Types, NEW pref \in Prefs, JmpAbs(a, type, pref)
      PROVE  IInv'
  BY <1>4, JmpAbsInv
<1>5. ASSUME NEW l \in Labels, NEW pre \in {0, Header}, PutL(l, pre) PROVE IInv'
  BY <1>5, PutLInv
<1>6. ASSUME NEW l \in Labels, NEW d \in Disps, NEW imm \in Imms, RipRef(l, d, imm)
      PROVE  IInv'
  BY <1>6, RipRefInv
<1>7. ASSUME NEW l \in Labels, NEW d \in Disps, NEW imm \in Imms, AbsRef(l, d, imm)
      PROVE  IInv'
  BY <1>7, AbsRefInv
<1>8. ASSUME NEW l \in Labels, L(l) PROVE IInv'
  BY <1>8, LInv
<1>9. ASSUME NEW dst \in Labels, NEW src \in Labels, AssignL(dst, src) PROVE IInv'
  BY <1>9, AssignLInv
<1>10. CASE Ready
  BY <1>10, ReadyInv
<1>11. CASE Reset
  BY <1>11, ResetInv
<1>12. QED
  BY <1>1, <1>2, <1>3, <1>4, <1>5, <1>6, <1>7, <1>8, <1>9, <1>10, <1>11 DEF Next

\* The inductive invariant holds in every state of every client.
THEOREM Invariance == Spec => []IInv
BY InitInv, StepInv, PTL DEF Spec

\* The lists, the buffer and the fields keep their types.
THEOREM TypeCorrect == Spec => []TypeOK
<1>1. IInv => TypeOK
  BY DEF IInv
<1>2. QED BY <1>1, Invariance, PTL

\* No reference is ever forgotten, whatever fails and whenever the code moves.
THEOREM References == Spec => []NothingLost
<1>1. IInv => NothingLost
  BY DEF IInv
<1>2. QED BY <1>1, Invariance, PTL

\* A late write covers exactly one field, inside the code.
THEOREM Patches == Spec => []PatchesHitFields
<1>1. IInv => PatchesHitFields
  BY DEF IInv
<1>2. QED BY <1>1, Invariance, PTL

\* After a ready() that returned normally every reference is right.
THEOREM Linked == Spec => []ReadyMeansLinked
<1>1. IInv => ReadyMeansLinked
  <2> SUFFICES ASSUME IInv, done, NEW o \in DOMAIN refs, Supported(o)
               PROVE  Correct(o)
    BY DEF ReadyMeansLinked
  <2>1. undef = {} /\ (AutoGrow => isCalled)
    BY DEF IInv, Bookkeeping
  <2>2. Accounted(o)
    BY DEF IInv, NothingLost
  <2>3. QED BY <2>1, <2>2 DEF Accounted
<1>2. QED BY <1>1, Invariance, PTL

-----------------------------------------------------------------------------
(* Failed definitions.                                                     *)

\* Emitting code drops no pending reference and defines no label: opJmp,
\* opJmpAbs, opAddr and putL_inner only add to clabelUndefList_.
Keeps == undef \subseteq undef' /\ defs' = defs

\* A call without a reference changes neither.
LEMMA ReturnKeeps ==
  ASSUME NEW b, NEW e, Return(b, e)
  PROVE  Keeps
BY DEF Return, Keeps

\* Nor does an instruction with a reference.
LEMMA PlaceKeeps ==
  ASSUME NEW b, NEW n, NEW f, NEW U, NEW I, Place(b, n, f, U, I)
  PROVE  Keeps
BY ReturnKeeps DEF Place, Keeps

\* Nor does putL_inner.
LEMMA PutLInnerKeeps ==
  ASSUME NEW b, NEW l, NEW relative, NEW ask, NEW disp, NEW size, NEW imm,
         PutL_inner(b, l, relative, ask, disp, size, imm)
  PROVE  Keeps
BY ReturnKeeps, PlaceKeeps, Zenon DEF PutL_inner

\* A pending reference to a label that is defined is out of reach for good:
\* no operation but reset() drops it.
THEOREM FailedDefinition == Spec => FailedDefinitionIsFinal
<1> DEFINE A == \A u \in undef : u.label \in DOMAIN defs =>
                  \/ u \in undef' /\ defs'[u.label] = defs[u.label]
                  \/ undef' = {} /\ buf'.size = 0
<1>1. Keeps => A
  BY DEF Keeps
<1>2. ASSUME NEW l, NEW a, DefineInner(l, a)
      PROVE  A
  <2>1. CASE l \in DOMAIN defs
    BY <1>2, <2>1 DEF DefineInner
  <2>2. CASE l \notin DOMAIN defs
    <3>1. defs' = With(defs, l, a) /\ \E S : undef' = undef \ S /\ \A u \in S : u.label = l
      BY <1>2, <2>2 DEF DefineInner, Insert, Settle
    <3>2. QED BY <2>2, <3>1 DEF With
  <2>3. QED BY <2>1, <2>2
<1>3. ASSUME NEW b, NEW disp, NEW type, NEW pref, NEW kind, NEW to, NEW addr,
             MakeJmp(b, disp, type, pref, kind, to, addr)
      PROVE  Keeps
  BY <1>3, ReturnKeeps, PlaceKeeps, Zenon DEF MakeJmp
<1>4. [Next]_vars => A
  <2> SUFFICES ASSUME [Next]_vars PROVE A
    OBVIOUS
  <2> HIDE DEF A
  <2>1. CASE UNCHANGED vars
    BY <1>1, <2>1 DEF vars, Keeps
  <2>2. ASSUME NEW n, Db(n) PROVE Keeps
    BY <2>2, ReturnKeeps, Zenon DEF Db
  <2>3. ASSUME NEW l, NEW type, NEW pref, Jmp(l, type, pref) PROVE Keeps
    BY <1>3, <2>3, ReturnKeeps, PlaceKeeps, Zenon DEF Jmp, JmpForward
  <2>4. ASSUME NEW a, NEW type, NEW pref, JmpAbs(a, type, pref) PROVE Keeps
    BY <1>3, <2>4, ReturnKeeps, PlaceKeeps, Zenon DEF JmpAbs
  <2>5. ASSUME NEW l, NEW pre, PutL(l, pre) PROVE Keeps
    BY <2>5, ReturnKeeps, PutLInnerKeeps, Zenon DEF PutL
  <2>6. ASSUME NEW l, NEW d, NEW imm, RipRef(l, d, imm) PROVE Keeps
    BY <2>6, ReturnKeeps, PlaceKeeps, PutLInnerKeeps, Zenon DEF RipRef
  <2>7. ASSUME NEW l, NEW d, NEW imm, AbsRef(l, d, imm) PROVE Keeps
    BY <2>7, ReturnKeeps, PlaceKeeps, PutLInnerKeeps, Zenon DEF AbsRef
  <2>8. ASSUME NEW l, L(l) PROVE A
    BY <1>2, <2>8 DEF L
  <2>9. ASSUME NEW dst, NEW src, AssignL(dst, src) PROVE A
    <3>1. CASE src \in DOMAIN defs
      BY <1>2, <2>9, <3>1 DEF AssignL
    <3>2. CASE src \notin DOMAIN defs
      BY <1>1, <2>9, <3>2, ReturnKeeps DEF AssignL
    <3>3. QED BY <3>1, <3>2
  <2>10. CASE Ready
    BY <1>1, <2>10 DEF Ready, Keeps
  <2>11. CASE Reset
    <3>1. undef' = {} /\ buf'.size = 0
      BY <2>11 DEF Reset
    <3>2. QED BY <3>1 DEF A
  <2>12. QED
    BY <1>1, <2>1, <2>2, <2>3, <2>4, <2>5, <2>6, <2>7, <2>8, <2>9, <2>10, <2>11
       DEF Next
<1>5. QED BY <1>4, PTL DEF Spec, FailedDefinitionIsFinal
=============================================================================
