---------------------------- MODULE LabelHandle ----------------------------
(***************************************************************************)
(* The life of Label objects: class Label (construction, copy, assignment, *)
(* destruction) and what LabelManager keeps for them: the ids it gives on  *)
(* first use, the definitions with their reference counts, and the list of *)
(* pointers through which it clears the labels that outlive it.            *)
(*                                                                         *)
(* Module Linker takes a label for its id; this module says when two Label *)
(* objects are the same label. Code is abstracted to its jumps, one unit   *)
(* each. A call that throws before it changes anything is not a step.      *)
(***************************************************************************)
EXTENDS Integers, FiniteSets

CONSTANTS
  Handles,      \* the Label objects of the client program
  None,         \* no offset, no identity
  FreshAssign,  \* does the client call assignL with a label never used?
  StaleReset,   \* does it keep labels that were used and not defined
                \* when it resets or destroys the generator?
  MaxId,        \* bound: ids given by one generator
  MaxSize,      \* bound: jumps emitted
  MaxEpoch      \* bound: generators or reset() calls

ASSUME LabelHandleAssumption ==
  /\ None \notin Int /\ None \notin Nat \X Nat
  /\ IsFiniteSet(Handles)
  /\ FreshAssign \in BOOLEAN /\ StaleReset \in BOOLEAN
  /\ MaxId \in Nat /\ MaxSize \in Nat /\ MaxEpoch \in Nat

VARIABLES
  live,     \* the Label objects that exist
  id,       \* Label::id, 0 in a label that was never used
  mgr,      \* the labels whose mgr points to the LabelManager
  ptrs,     \* labelPtrList_
  labelId,  \* labelId_, the next id
  defs,     \* clabelDefList_: id -> offset and reference count
  size,     \* size_, in jumps
  jumps,    \* jumps[n]: the n-th jump, the id it is for, where it goes to
            \* (None while it waits in clabelUndefList_)
  \* Not in the program:
  epoch,    \* number of resets
  fam,      \* which label a Label object stands for
  place     \* where the client put each label, by L or assignL, until the
            \* last object linked to it ends

vars == <<live, id, mgr, ptrs, labelId, defs, size, jumps, epoch, fam, place>>

With(f, x, v) == [y \in DOMAIN f \cup {x} |-> IF y = x THEN v ELSE f[y]]
Pending(i) == {n \in DOMAIN jumps : jumps[n].id = i /\ jumps[n].to = None}

-----------------------------------------------------------------------------
(* LabelManager.                                                           *)

\* Definitions marked "Bug:" are no part of the model (see module Linker).

\* incRefCount and decRefCount on clabelDefList_.
Inc(d, i) ==
  IF i \in DOMAIN d THEN [d EXCEPT ![i].ref = @ + 1]
  ELSE With(d, i, [off |-> 0, ref |-> 2])

\* Bug: the definition goes with the first of its labels.
DecEager(d, i) == [x \in DOMAIN d \ {i} |-> d[x]]

Dec(d, i) ==
  IF i \notin DOMAIN d THEN d
  ELSE IF d[i].ref = 1 THEN [x \in DOMAIN d \ {i} |-> d[x]]
  ELSE [d EXCEPT ![i].ref = @ - 1]

\* getId: a label has an id from its first use.
GetId(h) ==
  /\ h \in live
  /\ IF id[h] # 0 THEN UNCHANGED <<id, labelId, fam>>
     ELSE /\ labelId <= MaxId
          /\ id' = [id EXCEPT ![h] = labelId]
          /\ labelId' = labelId + 1
          /\ fam' = [fam EXCEPT ![h] = IF @ = None THEN <<epoch, labelId>> ELSE @]

\* Bug: a label is linked before its definition is known to succeed.
DefineLinksFirst(h, i, off) ==
  /\ i \notin DOMAIN defs
  /\ defs' = With(defs, i, [off |-> off, ref |-> 1])
  /\ mgr' = mgr \cup {h} /\ ptrs' = ptrs \cup {h}
  /\ \E S \in SUBSET Pending(i) :
       /\ jumps' = [n \in DOMAIN jumps |->
                     IF n \in S THEN [jumps[n] EXCEPT !.to = off] ELSE jumps[n]]
       /\ place' = IF S = Pending(i) THEN With(place, fam'[h], off) ELSE place

\* define_inner with what defineClabel and assign do after it: the jumps that
\* wait are directed to off; when one is out of reach the call throws and the
\* label is not linked to the definition that was inserted.
Define(h, i, off) ==
  /\ i \notin DOMAIN defs
  /\ defs' = With(defs, i, [off |-> off, ref |-> 1])
  /\ \E S \in SUBSET Pending(i) :
       /\ jumps' = [n \in DOMAIN jumps |->
                     IF n \in S THEN [jumps[n] EXCEPT !.to = off] ELSE jumps[n]]
       /\ IF S # Pending(i) THEN UNCHANGED <<mgr, ptrs, place>>
          ELSE /\ mgr' = mgr \cup {h} /\ ptrs' = ptrs \cup {h}
               /\ place' = With(place, fam'[h], off)

-----------------------------------------------------------------------------
(* Label.                                                                  *)

\* Label()
Construct(h) ==
  /\ h \notin live
  /\ live' = live \cup {h}
  /\ UNCHANGED <<id, mgr, ptrs, labelId, defs, size, jumps, epoch, fam, place>>

\* Bug: the pointer to the manager is copied and nothing is counted.
BecomeUncounted(h, g) ==
  /\ id' = [id EXCEPT ![h] = id[g]]
  /\ fam' = [fam EXCEPT ![h] = fam[g]]
  /\ mgr' = IF g \in mgr THEN mgr \cup {h} ELSE mgr \ {h}
  /\ UNCHANGED <<ptrs, defs>>

\* What the copy constructor and operator= do.
Become(h, g) ==
  /\ id' = [id EXCEPT ![h] = id[g]]
  /\ fam' = [fam EXCEPT ![h] = fam[g]]
  /\ IF g \in mgr
     THEN /\ mgr' = mgr \cup {h} /\ ptrs' = ptrs \cup {h}
          /\ defs' = Inc(defs, id[g])
     ELSE mgr' = mgr \ {h} /\ UNCHANGED <<ptrs, defs>>

Copy(h, g) ==
  /\ h \notin live /\ g \in live
  /\ live' = live \cup {h}
  /\ Become(h, g)
  /\ UNCHANGED <<labelId, size, jumps, epoch, place>>

\* operator= throws ERR_LABEL_IS_ALREADY_SET_BY_L when id # 0.
Assign(h, g) ==
  /\ h \in live /\ g \in live /\ h # g
  /\ id[h] = 0
  /\ Become(h, g)
  /\ UNCHANGED <<live, labelId, size, jumps, epoch, place>>

Linked(i) == {h \in ptrs : id[h] = i}

\* What remains of place when h ends: a label is put nowhere any more when the
\* last object linked to it ends, even if a copy made before L, which is not
\* linked, still stands for it.
PlacesWithout(h) ==
  IF Linked(id[h]) = {h} THEN [f \in DOMAIN place \ {fam[h]} |-> place[f]] ELSE place

\* Bug: the pointer to the label stays in labelPtrList_.
DestroyKeepsPointer(h) ==
  /\ h \in live
  /\ live' = live \ {h}
  /\ mgr' = mgr \ {h}
  /\ id' = [id EXCEPT ![h] = 0]
  /\ fam' = [fam EXCEPT ![h] = None]
  /\ defs' = IF h \in mgr THEN Dec(defs, id[h]) ELSE defs
  /\ place' = PlacesWithout(h)
  /\ UNCHANGED <<ptrs, labelId, size, jumps, epoch>>

\* ~Label
Destroy(h) ==
  /\ h \in live
  /\ live' = live \ {h}
  /\ mgr' = mgr \ {h}
  /\ id' = [id EXCEPT ![h] = 0]
  /\ fam' = [fam EXCEPT ![h] = None]
  /\ IF id[h] # 0 /\ h \in mgr
     THEN ptrs' = ptrs \ {h} /\ defs' = Dec(defs, id[h])
     ELSE UNCHANGED <<ptrs, defs>>
  /\ place' = PlacesWithout(h)
  /\ UNCHANGED <<labelId, size, jumps, epoch>>

-----------------------------------------------------------------------------
(* CodeGenerator.                                                          *)

\* L(label): defineClabel
L(h) ==
  /\ GetId(h)
  /\ Define(h, id'[h], size)
  /\ UNCHANGED <<live, size, epoch>>

\* Label L(): a new label, defined here. Without copy elision the result is a
\* copy of a label destroyed at once, which comes to the same.
NewL(h) ==
  /\ h \notin live /\ labelId <= MaxId
  /\ live' = live \cup {h}
  /\ id' = [id EXCEPT ![h] = labelId]
  /\ labelId' = labelId + 1
  /\ fam' = [fam EXCEPT ![h] = <<epoch, labelId>>]
  /\ Define(h, labelId, size)
  /\ UNCHANGED <<size, epoch>>

\* assignL(dst, src): the id of dst is taken as it is, 0 if it was never used.
AssignL(dst, src) ==
  /\ dst \in live /\ src \in live
  /\ id[dst] # 0 \/ FreshAssign
  /\ id[src] \in DOMAIN defs
  /\ fam' = IF id[dst] # 0 THEN fam ELSE [fam EXCEPT ![dst] = <<epoch, 0>>]
  /\ Define(dst, id[dst], defs[id[src]].off)
  /\ UNCHANGED <<live, id, labelId, size, epoch>>

\* opJmp (and putL_inner): the jump goes to the definition or waits for it.
Jmp(h) ==
  LET i == id'[h]
      f == fam'[h]
  IN
  /\ size < MaxSize
  /\ size' = size + 1
  /\ GetId(h)
  /\ jumps' = With(jumps, size,
       [id |-> i, to |-> IF i \in DOMAIN defs THEN defs[i].off ELSE None,
        want |-> IF f \in DOMAIN place THEN place[f] ELSE None])
  /\ UNCHANGED <<live, mgr, ptrs, defs, epoch, place>>

\* A jump that throws in db() or because it is too far: only getId counts.
JmpThrows(h) ==
  /\ id[h] = 0
  /\ GetId(h)
  /\ UNCHANGED <<live, mgr, ptrs, defs, size, jumps, epoch, place>>

\* Bug: the labels are not cleared.
ResetKeepsIds ==
  /\ epoch < MaxEpoch
  /\ epoch' = epoch + 1
  /\ labelId' = 1
  /\ defs' = [i \in {} |-> 0]
  /\ size' = 0
  /\ jumps' = [n \in {} |-> 0]
  /\ mgr' = {} /\ ptrs' = {}
  /\ place' = [f \in {} |-> 0]
  /\ UNCHANGED <<live, id, fam>>

\* CodeGenerator::reset, or the generator destroyed and another one made:
\* LabelManager::reset and resetLabelPtrList.
Reset ==
  /\ epoch < MaxEpoch
  /\ StaleReset \/ \A h \in live \ mgr : id[h] = 0
  /\ epoch' = epoch + 1
  /\ labelId' = 1
  /\ defs' = [i \in {} |-> 0]
  /\ size' = 0
  /\ jumps' = [n \in {} |-> 0]
  /\ mgr' = mgr \ ptrs /\ ptrs' = {}
  /\ id' = [h \in Handles |-> IF h \in ptrs THEN 0 ELSE id[h]]
  /\ fam' = [h \in Handles |-> IF h \in ptrs THEN None ELSE fam[h]]
  /\ place' = [f \in {} |-> 0]
  /\ UNCHANGED live

-----------------------------------------------------------------------------
Init ==
  /\ live = {} /\ mgr = {} /\ ptrs = {}
  /\ id = [h \in Handles |-> 0]
  /\ labelId = 1
  /\ defs = [i \in {} |-> 0]
  /\ size = 0
  /\ jumps = [n \in {} |-> 0]
  /\ epoch = 0
  /\ fam = [h \in Handles |-> None]
  /\ place = [f \in {} |-> 0]

Next ==
  \/ \E h \in Handles : Construct(h)
  \/ \E h, g \in Handles : Copy(h, g)
  \/ \E h, g \in Handles : Assign(h, g)
  \/ \E h \in Handles : Destroy(h)
  \/ \E h \in Handles : L(h)
  \/ \E h \in Handles : NewL(h)
  \/ \E dst, src \in Handles : AssignL(dst, src)
  \/ \E h \in Handles : Jmp(h)
  \/ \E h \in Handles : JmpThrows(h)
  \/ Reset

Spec == Init /\ [][Next]_vars

-----------------------------------------------------------------------------
(* Properties.                                                             *)

Offsets == Nat \cup {None}

\* The types of Label and LabelManager.
TypeOK ==
  /\ live \subseteq Handles /\ mgr \subseteq live /\ ptrs \subseteq Handles
  /\ id \in [Handles -> Nat] /\ labelId \in Nat \ {0}
  /\ epoch \in Nat /\ size \in Nat /\ DOMAIN jumps = 0..(size - 1)
  /\ DOMAIN defs \subseteq Nat
  /\ \A i \in DOMAIN defs : defs[i] \in [off : Nat, ref : Nat \ {0}]
  /\ \A n \in DOMAIN jumps : jumps[n] \in [id : Nat, to : Offsets, want : Offsets]
  /\ fam \in [Handles -> (Nat \X Nat) \cup {None}]
  /\ DOMAIN place \subseteq Nat \X Nat
  /\ \A f \in DOMAIN place : place[f] \in Nat

\* labelPtrList_ holds exactly the labels that point to the manager, and all
\* of them exist: resetLabelPtrList writes to no destroyed label, and no label
\* keeps a pointer to a destroyed manager.
LinksAreLive == ptrs = mgr /\ ptrs \subseteq live

\* A definition is kept exactly as long as a Label object is linked to it.
\* The one that a failed define_inner leaves behind, which no label is linked
\* to, counts one more and stays until reset() (incRefCount, decRefCount).
RefCounts ==
  /\ \A i \in DOMAIN defs :
       defs[i].ref = Cardinality(Linked(i)) + (IF Pending(i) = {} THEN 0 ELSE 1)
  /\ \A h \in ptrs : id[h] \in DOMAIN defs

\* Two Label objects with the same id are the same label: one is a copy of
\* the other, in this generator (getId, reset).
NoAliasing == \A g, h \in live : id[g] = id[h] /\ id[g] # 0 => fam[g] = fam[h]

\* A jump to a label that the client has put somewhere goes there as long as
\* an object linked to the label lives: through whichever Label object, the one
\* given to L or assignL, a copy of it, or a copy made before, which is not
\* linked; and whatever became of the others. It does not speak of jumps made
\* after the last linked object ended (PlacesWithout): the definition went with
\* it (decRefCount), and a jump through a copy made before L waits for ever.
PlacedLabelsResolve ==
  \A n \in DOMAIN jumps : jumps[n].want # None => jumps[n].to = jumps[n].want

\* Which label an object stands for follows from its id.
Identity ==
  /\ \A h \in live : /\ id[h] < labelId
                     /\ fam[h] = IF id[h] = 0 THEN None ELSE <<epoch, id[h]>>
  /\ \A h \in Handles \ live : id[h] = 0 /\ fam[h] = None
  /\ \A h \in ptrs : id[h] # 0
  /\ \A i \in DOMAIN defs : 0 < i /\ i < labelId
  /\ \A n \in DOMAIN jumps : 0 < jumps[n].id /\ jumps[n].id < labelId
  /\ \A f \in DOMAIN place : f[1] = epoch /\ f[2] < labelId

\* Where a label was put is where its definition is, for every object, linked
\* or not, that stands for the label, as long as one of them is linked.
Standing ==
  \A h \in live : fam[h] \in DOMAIN place =>
    id[h] \in DOMAIN defs /\ defs[id[h]].off = place[fam[h]]

\* The inductive invariant of module LabelHandleProofs.
IInv ==
  /\ TypeOK /\ LinksAreLive /\ RefCounts /\ NoAliasing /\ Identity
  /\ Standing /\ PlacedLabelsResolve
=============================================================================
