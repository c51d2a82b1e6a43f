------------------------- MODULE LabelHandleProofs -------------------------
(***************************************************************************)
(* Proofs about LabelHandle for any number of labels, ids and generators:  *)
(* a client that neither calls assignL with a label it never used nor      *)
(* keeps used, undefined labels across generators has labels that mean     *)
(* what they should, and no pointer to a destroyed object is kept.         *)
(***************************************************************************)
EXTENDS LabelHandle, FiniteSetTheorems, TLAPS

Families == (Nat \X Nat) \cup {None}
Definitions == [off : Nat, ref : Nat \ {0}]
Jumps == [id : Nat, to : Offsets, want : Offsets]
Places ==
  /\ DOMAIN place \subseteq Nat \X Nat
  /\ \A f \in DOMAIN place : place[f] \in Nat

\* The same id means the same label, since the id says which label it is.
LEMMA IdentityNoAliasing == Identity => NoAliasing
BY DEF Identity, NoAliasing

\* What a proof that a step preserves the invariant has to show.
LEMMA Assemble ==
  ASSUME TypeOK', LinksAreLive', RefCounts', Identity',
         Standing' /\ PlacedLabelsResolve'
  PROVE  IInv'
<1>1. NoAliasing'
  BY IdentityNoAliasing, PTL
<1>2. QED BY <1>1 DEF IInv

\* The labels that are counted for a definition are finitely many.
LEMMA LinkedFinite ==
  ASSUME NEW T \in SUBSET Handles
  PROVE  IsFiniteSet(T)
BY LabelHandleAssumption, FS_Subset

\* Facts about a state that satisfies the invariant.
LEMMA Facts ==
  ASSUME IInv
  PROVE  /\ live \subseteq Handles /\ ptrs \subseteq live /\ mgr = ptrs
         /\ id \in [Handles -> Nat] /\ labelId \in Nat /\ labelId > 0
         /\ epoch \in Nat /\ size \in Nat /\ DOMAIN jumps = 0..(size - 1)
         /\ DOMAIN defs \subseteq Nat /\ \A i \in DOMAIN defs : defs[i] \in Definitions
         /\ \A n \in DOMAIN jumps : jumps[n] \in Jumps
         /\ fam \in [Handles -> Families] /\ Places
         /\ None \notin Nat
         /\ \A h \in ptrs : id[h] # 0 /\ id[h] \in DOMAIN defs
         /\ \A h \in Handles : id[h] < labelId
<1>1. /\ live \subseteq Handles /\ ptrs \subseteq live /\ mgr = ptrs
      /\ id \in [Handles -> Nat] /\ labelId \in Nat /\ labelId > 0
      /\ epoch \in Nat /\ size \in Nat /\ DOMAIN jumps = 0..(size - 1)
      /\ None \notin Nat
  BY LabelHandleAssumption DEF IInv, TypeOK, LinksAreLive
<1>2. /\ DOMAIN defs \subseteq Nat /\ \A i \in DOMAIN defs : defs[i] \in Definitions
      /\ \A n \in DOMAIN jumps : jumps[n] \in Jumps
      /\ fam \in [Handles -> Families] /\ Places
  BY DEF IInv, TypeOK, Definitions, Jumps, Families, Places
<1>3. \A h \in ptrs : id[h] # 0 /\ id[h] \in DOMAIN defs
  BY DEF IInv, RefCounts, Identity
<1>4. \A h \in Handles : id[h] < labelId
  BY <1>1 DEF IInv, Identity
<1>5. QED BY <1>1, <1>2, <1>3, <1>4

-----------------------------------------------------------------------------
(* Definitions.                                                            *)

\* Label h has the id i, given before or in this step.
Known(h, i) ==
  /\ id' \in [Handles -> Nat] /\ labelId' \in Nat /\ labelId' >= labelId
  /\ fam' \in [Handles -> Families]
  /\ id'[h] = i /\ 0 < i /\ i < labelId' /\ fam'[h] = <<epoch, i>>
  /\ \A g \in Handles \ {h} : id'[g] = id[g] /\ fam'[g] = fam[g]
  /\ id[h] = i \/ (id[h] = 0 /\ i = labelId)

\* getId gives a label the same id for ever.
LEMMA GetIdKnown ==
  ASSUME IInv, NEW h \in Handles, GetId(h)
  PROVE  Known(h, id'[h]) /\ (id[h] # 0 => id' = id) /\ (id[h] = 0 => id'[h] = labelId)
<1>1. /\ h \in live /\ id \in [Handles -> Nat] /\ labelId \in Nat /\ labelId > 0
      /\ epoch \in Nat /\ fam \in [Handles -> Families] /\ id[h] < labelId
  BY Facts DEF GetId
<1>2. CASE id[h] # 0
  <2>1. id' = id /\ labelId' = labelId /\ fam' = fam
    BY <1>2 DEF GetId
  <2>2. fam[h] = <<epoch, id[h]>>
    BY <1>1, <1>2 DEF IInv, Identity
  <2>3. QED BY <1>1, <1>2, <2>1, <2>2 DEF Known
<1>3. CASE id[h] = 0
  <2>1. /\ id' = [id EXCEPT ![h] = labelId] /\ labelId' = labelId + 1
        /\ fam' = [fam EXCEPT ![h] = IF @ = None THEN <<epoch, labelId>> ELSE @]
    BY <1>3 DEF GetId
  <2>2. <<epoch, labelId>> \in Families /\ fam[h] = None
    BY <1>1, <1>3 DEF Families, IInv, Identity, GetId
  <2>3. fam' \in [Handles -> Families] /\ fam'[h] = <<epoch, labelId>>
        /\ \A g \in Handles \ {h} : fam'[g] = fam[g]
    BY <1>1, <2>1, <2>2
  <2>4. QED BY <1>1, <1>3, <2>1, <2>3 DEF Known
<1>4. QED BY <1>2, <1>3

\* define_inner and the link to the label preserve the invariant.
LEMMA DefineInv ==
  ASSUME IInv, NEW h \in Handles, NEW i, NEW off \in Nat, Known(h, i), Define(h, i, off),
         live' = live \cup {h}, UNCHANGED <<size, epoch>>
  PROVE  IInv'
<1> USE LabelHandleAssumption
<1>1. /\ live \subseteq Handles /\ ptrs \subseteq live /\ mgr = ptrs
      /\ id \in [Handles -> Nat] /\ labelId \in Nat /\ labelId > 0
      /\ epoch \in Nat /\ size \in Nat /\ DOMAIN jumps = 0..(size - 1)
      /\ DOMAIN defs \subseteq Nat /\ (\A j \in DOMAIN defs : defs[j] \in Definitions)
      /\ (\A n \in DOMAIN jumps : jumps[n] \in Jumps)
      /\ Places /\ None \notin Nat
      /\ \A g \in ptrs : id[g] # 0 /\ id[g] \in DOMAIN defs
  BY Facts
<1>2. /\ id' \in [Handles -> Nat] /\ labelId' \in Nat /\ labelId' >= labelId
      /\ fam' \in [Handles -> Families]
      /\ id'[h] = i /\ 0 < i /\ i < labelId' /\ fam'[h] = <<epoch, i>>
      /\ (\A g \in Handles \ {h} : id'[g] = id[g] /\ fam'[g] = fam[g])
      /\ i \in Nat
  BY DEF Known
<1>3. i \notin DOMAIN defs /\ defs' = With(defs, i, [off |-> off, ref |-> 1])
  BY DEF Define
<1>4. /\ DOMAIN defs' = DOMAIN defs \cup {i} /\ defs'[i] = [off |-> off, ref |-> 1]
      /\ \A j \in DOMAIN defs : defs'[j] = defs[j]
  BY <1>3 DEF With
<1>5. h \notin ptrs /\ \A g \in ptrs : id'[g] = id[g]
  BY <1>1, <1>2, <1>3 DEF Known
<1>6. PICK S \in SUBSET Pending(i) :
        /\ jumps' = [n \in DOMAIN jumps |->
                      IF n \in S THEN [jumps[n] EXCEPT !.to = off] ELSE jumps[n]]
        /\ IF S # Pending(i) THEN UNCHANGED <<mgr, ptrs, place>>
           ELSE /\ mgr' = mgr \cup {h} /\ ptrs' = ptrs \cup {h}
                /\ place' = With(place, fam'[h], off)
  BY DEF Define
<1>7. /\ DOMAIN jumps' = DOMAIN jumps
      /\ \A n \in DOMAIN jumps :
           /\ jumps'[n] \in Jumps
           /\ jumps'[n].id = jumps[n].id /\ jumps'[n].want = jumps[n].want
           /\ n \in S => jumps'[n].to = off /\ jumps[n].to = None /\ jumps[n].id = i
           /\ n \notin S => jumps'[n] = jumps[n]
  BY <1>1, <1>6 DEF Jumps, Pending, Offsets
<1>8. /\ ptrs \subseteq ptrs' /\ ptrs' \subseteq ptrs \cup {h} /\ mgr' = ptrs'
      /\ h \notin ptrs' => place' = place
      /\ h \in ptrs' => /\ DOMAIN place' = DOMAIN place \cup {<<epoch, i>>}
                        /\ place'[<<epoch, i>>] = off
      /\ \A f \in DOMAIN place \ {<<epoch, i>>} : place'[f] = place[f]
  <2>1. CASE S # Pending(i)
    BY <1>1, <1>5, <1>6, <2>1
  <2>2. CASE S = Pending(i)
    <3>1. mgr' = mgr \cup {h} /\ ptrs' = ptrs \cup {h} /\ place' = With(place, <<epoch, i>>, off)
      BY <1>2, <1>6, <2>2
    <3>k. PICK k : k = <<epoch, i>>
      OBVIOUS
    <3>2. /\ DOMAIN place' = DOMAIN place \cup {k} /\ place'[k] = off
          /\ \A f \in DOMAIN place \ {k} : place'[f] = place[f]
      <4>1. place' = With(place, k, off)
        BY <3>1, <3>k
      <4>2. QED BY <4>1 DEF With
    <3>3. h \in ptrs' /\ ptrs \subseteq ptrs' /\ ptrs' \subseteq ptrs \cup {h} /\ mgr' = ptrs'
      BY <1>1, <3>1
    <3>4. QED BY <3>2, <3>3, <3>k
  <2>3. QED BY <2>1, <2>2
<1>p. Places' /\ <<epoch, i>> \in Nat \X Nat
  <2>1. <<epoch, i>> \in Nat \X Nat
    BY <1>1, <1>2
  <2>2. QED BY <1>1, <1>8, <2>1 DEF Places
<1>9. TypeOK'
  <2>1. \A j \in DOMAIN defs' : defs'[j] \in Definitions
    BY <1>1, <1>4 DEF Definitions
  <2>2. QED
    <3>1. /\ live' \subseteq Handles /\ mgr' \subseteq live' /\ ptrs' \subseteq Handles
          /\ id' \in [Handles -> Nat] /\ labelId' \in Nat \ {0}
          /\ epoch' \in Nat /\ size' \in Nat /\ fam' \in [Handles -> Families]
      BY <1>1, <1>2, <1>8
    <3>2. DOMAIN jumps' = 0..(size' - 1) /\ \A n \in DOMAIN jumps' : jumps'[n] \in Jumps
      BY <1>1, <1>7
    <3>3. DOMAIN defs' \subseteq Nat
      BY <1>1, <1>2, <1>4
    <3>4. QED BY <1>p, <2>1, <3>1, <3>2, <3>3 DEF TypeOK, Definitions, Jumps, Families, Places
<1>10. LinksAreLive'
  BY <1>1, <1>8 DEF LinksAreLive
<1>11. RefCounts'
  <2>1. \A g \in ptrs' : id'[g] \in DOMAIN defs'
    BY <1>1, <1>2, <1>4, <1>5, <1>8
  <2>2. ASSUME NEW j \in DOMAIN defs
        PROVE  Linked(j)' = Linked(j) /\ Pending(j)' = Pending(j)
    <3>1. j # i
      BY <1>3
    <3>2. Linked(j)' = Linked(j)
      BY <1>2, <1>5, <1>8, <3>1 DEF Linked
    <3>3. \A n \in DOMAIN jumps : jumps'[n].id = j => jumps'[n] = jumps[n]
      BY <1>7, <3>1
    <3>4. QED BY <1>7, <3>2, <3>3 DEF Pending
  <2>3. Linked(i) = {}
    BY <1>1, <1>3 DEF Linked
  <2>4. defs'[i].ref = Cardinality(Linked(i)') + (IF Pending(i)' = {} THEN 0 ELSE 1)
    <3>1. CASE S # Pending(i)
      <4>1. Linked(i)' = {}
        BY <1>5, <1>6, <2>3, <3>1 DEF Linked
      <4>2. PICK n \in Pending(i) : n \notin S
        BY <3>1
      <4>3. n \in Pending(i)'
        BY <1>7, <4>2 DEF Pending
      <4>4. QED BY <1>4, <4>1, <4>3, FS_EmptySet
    <3>2. CASE S = Pending(i)
      <4>1. Linked(i)' = {h}
        BY <1>2, <1>5, <1>6, <2>3, <3>2 DEF Linked
      <4>2. Pending(i)' = {}
        BY <1>1, <1>7, <3>2 DEF Pending
      <4>3. Cardinality({h}) = 1
        BY FS_Singleton
      <4>4. QED BY <1>4, <4>1, <4>2, <4>3
    <3>3. QED BY <3>1, <3>2
  <2>5. \A j \in DOMAIN defs :
          defs'[j].ref = Cardinality(Linked(j)') + (IF Pending(j)' = {} THEN 0 ELSE 1)
    BY <1>4, <2>2 DEF IInv, RefCounts
  <2>6. QED BY <1>4, <2>1, <2>4, <2>5 DEF RefCounts
<1>12. Standing' /\ PlacedLabelsResolve'
  <2>1. \A g \in live : fam[g] = IF id[g] = 0 THEN None ELSE <<epoch, id[g]>>
    BY DEF IInv, Identity
  <2>2. <<epoch, i>> \notin DOMAIN place
    <3>1. CASE id[h] = i
      <4>1. h \in live
        BY <1>2, <3>1 DEF IInv, Identity
      <4>2. QED BY <1>2, <1>3, <2>1, <3>1, <4>1 DEF IInv, Standing
    <3>2. CASE i = labelId
      BY <1>1, <3>2 DEF IInv, Identity
    <3>3. QED BY <3>1, <3>2 DEF Known
  <2>3. ASSUME NEW g \in live', fam'[g] \in DOMAIN place'
        PROVE  id'[g] \in DOMAIN defs' /\ defs'[id'[g]].off = place'[fam'[g]]
    <3>1. CASE fam'[g] = <<epoch, i>>
      <4>1. h \in ptrs' /\ place'[fam'[g]] = off
        BY <1>8, <2>2, <2>3, <3>1
      <4>2. id'[g] = i
        <5>1. CASE g = h
          BY <1>2, <5>1
        <5>2. CASE g # h
          <6>1. g \in live /\ id'[g] = id[g] /\ fam'[g] = fam[g]
            BY <1>1, <1>2, <5>2
          <6>2. id[g] # 0
            BY <1>p, <2>1, <3>1, <6>1
          <6>3. fam[g] = <<epoch, id[g]>> /\ fam[g] = <<epoch, i>>
            BY <2>1, <3>1, <6>1, <6>2
          <6>4. QED BY <6>1, <6>3
        <5>3. QED BY <5>1, <5>2
      <4>3. QED BY <1>4, <4>1, <4>2
    <3>2. CASE fam'[g] # <<epoch, i>>
      <4>1. g # h /\ fam'[g] \in DOMAIN place /\ place'[fam'[g]] = place[fam'[g]]
        BY <1>2, <1>8, <2>3, <3>2
      <4>2. g \in live /\ id'[g] = id[g] /\ fam'[g] = fam[g]
        BY <1>1, <1>2, <4>1
      <4>3. id[g] \in DOMAIN defs /\ defs[id[g]].off = place[fam[g]]
        BY <4>1, <4>2 DEF IInv, Standing
      <4>4. QED BY <1>4, <4>1, <4>2, <4>3
    <3>3. QED BY <3>1, <3>2
  <2>4. Standing'
    BY <2>3 DEF Standing
  <2>5. PlacedLabelsResolve'
    BY <1>7 DEF IInv, PlacedLabelsResolve
  <2>6. QED BY <2>4, <2>5
<1>13. Identity'
  <2>1. \A g \in live' : /\ id'[g] < labelId'
                        /\ fam'[g] = IF id'[g] = 0 THEN None ELSE <<epoch', id'[g]>>
    <3>1. \A g \in live \ {h} : /\ id'[g] < labelId'
                                /\ fam'[g] = IF id'[g] = 0 THEN None ELSE <<epoch', id'[g]>>
      <4>1. \A g \in live : /\ id[g] < labelId
                             /\ fam[g] = IF id[g] = 0 THEN None ELSE <<epoch, id[g]>>
        BY DEF IInv, Identity
      <4>2. \A g \in live \ {h} : id'[g] = id[g] /\ fam'[g] = fam[g] /\ id[g] \in Nat
        BY <1>1, <1>2
      <4>3. QED BY <1>1, <1>2, <4>1, <4>2
    <3>2. /\ id'[h] < labelId'
          /\ fam'[h] = IF id'[h] = 0 THEN None ELSE <<epoch', id'[h]>>
      BY <1>2
    <3>3. QED BY <3>1, <3>2
  <2>2. \A g \in Handles \ live' : id'[g] = 0 /\ fam'[g] = None
    BY <1>2 DEF IInv, Identity
  <2>3. \A g \in ptrs' : id'[g] # 0
    BY <1>1, <1>2, <1>5, <1>8
  <2>4. \A f \in DOMAIN place' : f[1] = epoch' /\ f[2] < labelId'
    <3>1. \A f \in DOMAIN place : f[1] = epoch' /\ f[2] < labelId'
      BY <1>1, <1>2 DEF IInv, Identity, Places
    <3>2. <<epoch, i>>[1] = epoch' /\ <<epoch, i>>[2] < labelId'
      BY <1>1, <1>2
    <3>3. QED BY <1>8, <3>1, <3>2
  <2>5. \A j \in DOMAIN defs' : 0 < j /\ j < labelId'
    BY <1>1, <1>2, <1>4 DEF IInv, Identity
  <2>6. \A n \in DOMAIN jumps' : 0 < jumps'[n].id /\ jumps'[n].id < labelId'
    BY <1>1, <1>2, <1>7 DEF IInv, Identity, Jumps
  <2>7. QED BY <2>1, <2>2, <2>3, <2>4, <2>5, <2>6 DEF Identity
<1>14. QED
  BY <1>9, <1>10, <1>11, <1>12, <1>13, Assemble

\* L(label) preserves the invariant.
LEMMA LInv ==
  ASSUME IInv, NEW h \in Handles, L(h)
  PROVE  IInv'
<1>1. GetId(h) /\ Define(h, id'[h], size) /\ live' = live /\ UNCHANGED <<size, epoch>>
  BY DEF L
<1>2. live' = live \cup {h} /\ size \in Nat
  BY <1>1, Facts DEF GetId
<1>3. QED BY <1>1, <1>2, GetIdKnown, DefineInv

\* A label made by L() preserves the invariant.
LEMMA NewLInv ==
  ASSUME IInv, NEW h \in Handles, NewL(h)
  PROVE  IInv'
<1>1. /\ h \notin live /\ live' = live \cup {h} /\ labelId' = labelId + 1
      /\ id' = [id EXCEPT ![h] = labelId]
      /\ fam' = [fam EXCEPT ![h] = <<epoch, labelId>>]
      /\ Define(h, labelId, size) /\ UNCHANGED <<size, epoch>>
  BY DEF NewL
<1>2. /\ size \in Nat /\ id \in [Handles -> Nat] /\ labelId \in Nat /\ labelId > 0
      /\ epoch \in Nat /\ fam \in [Handles -> Families] /\ id[h] = 0
  BY <1>1, Facts DEF IInv, Identity
<1>3. fam' \in [Handles -> Families] /\ fam'[h] = <<epoch, labelId>>
      /\ \A g \in Handles \ {h} : fam'[g] = fam[g]
  <2>1. <<epoch, labelId>> \in Families
    BY <1>2 DEF Families
  <2>2. QED BY <1>1, <1>2, <2>1
<1>4. Known(h, labelId)
  BY <1>1, <1>2, <1>3 DEF Known
<1>5. QED BY <1>1, <1>2, <1>4, DefineInv

\* assignL preserves the invariant when its first label has been used.
LEMMA AssignLInv ==
  ASSUME IInv, ~FreshAssign, NEW dst \in Handles, NEW src \in Handles, AssignL(dst, src)
  PROVE  IInv'
<1>1. /\ dst \in live /\ id[dst] # 0 /\ id[src] \in DOMAIN defs
      /\ Define(dst, id[dst], defs[id[src]].off)
      /\ UNCHANGED <<live, id, labelId, size, epoch, fam>>
  BY DEF AssignL
<1>2. /\ id \in [Handles -> Nat] /\ labelId \in Nat /\ fam \in [Handles -> Families]
      /\ id[dst] < labelId /\ defs[id[src]].off \in Nat
  BY <1>1, Facts DEF Definitions
<1>3. fam[dst] = <<epoch, id[dst]>>
  BY <1>1 DEF IInv, Identity
<1>4. Known(dst, id[dst])
  BY <1>1, <1>2, <1>3 DEF Known
<1>5. live' = live \cup {dst}
  BY <1>1
<1>6. QED BY <1>1, <1>2, <1>4, <1>5, DefineInv

-----------------------------------------------------------------------------
(* Jumps.                                                                  *)

\* A jump preserves the invariant: it goes to the definition of its label,
\* or waits for it.
LEMMA JmpInv ==
  ASSUME IInv, NEW h \in Handles, Jmp(h)
  PROVE  IInv'
<1> USE LabelHandleAssumption
<1> DEFINE i == id'[h]
           to == IF i \in DOMAIN defs THEN defs[i].off ELSE None
           want == IF fam'[h] \in DOMAIN place THEN place[fam'[h]] ELSE None
<1>1. /\ GetId(h) /\ size' = size + 1
      /\ jumps' = With(jumps, size, [id |-> i, to |-> to, want |-> want])
      /\ UNCHANGED <<live, mgr, ptrs, defs, epoch, place>>
  BY DEF Jmp
<1>2. Known(h, i) /\ (id[h] # 0 => id' = id) /\ (id[h] = 0 => i = labelId) /\ h \in live
  BY <1>1, GetIdKnown DEF GetId
<1>3. /\ live \subseteq Handles /\ ptrs \subseteq live /\ mgr = ptrs
      /\ id \in [Handles -> Nat] /\ labelId \in Nat /\ labelId > 0
      /\ epoch \in Nat /\ size \in Nat /\ DOMAIN jumps = 0..(size - 1)
      /\ DOMAIN defs \subseteq Nat /\ (\A j \in DOMAIN defs : defs[j] \in Definitions)
      /\ (\A n \in DOMAIN jumps : jumps[n] \in Jumps)
      /\ Places /\ None \notin Nat
      /\ \A g \in ptrs : id[g] # 0 /\ id[g] \in DOMAIN defs
  BY Facts
<1>4. /\ id' \in [Handles -> Nat] /\ labelId' \in Nat /\ labelId' >= labelId
      /\ fam' \in [Handles -> Families]
      /\ 0 < i /\ i < labelId' /\ fam'[h] = <<epoch, i>>
      /\ (\A g \in Handles \ {h} : id'[g] = id[g] /\ fam'[g] = fam[g])
      /\ i \in Nat
  BY <1>2 DEF Known
<1>5. \A g \in ptrs : id'[g] = id[g]
  BY <1>2, <1>3, <1>4
<1> HIDE DEF i
<1>6. /\ DOMAIN jumps' = 0..size /\ size \notin DOMAIN jumps
      /\ jumps'[size] = [id |-> i, to |-> to, want |-> want]
      /\ \A n \in DOMAIN jumps : jumps'[n] = jumps[n]
  BY <1>1, <1>3 DEF With
<1>7. to \in Offsets /\ want \in Offsets
  BY <1>3 DEF Offsets, Definitions, Places
<1> HIDE DEF to, want
<1>8. jumps'[size] \in Jumps
  BY <1>3, <1>4, <1>6, <1>7 DEF Jumps
<1>9. TypeOK'
  <2>1. /\ live' \subseteq Handles /\ mgr' \subseteq live' /\ ptrs' \subseteq Handles
        /\ id' \in [Handles -> Nat] /\ labelId' \in Nat \ {0}
        /\ epoch' \in Nat /\ size' \in Nat
        /\ Places'
    BY <1>1, <1>3, <1>4 DEF Places
  <2>2. DOMAIN jumps' = 0..(size' - 1)
    BY <1>1, <1>3, <1>6
  <2>3. \A n \in DOMAIN jumps' : jumps'[n] \in Jumps
    BY <1>3, <1>6, <1>8
  <2>4. QED BY <1>1, <1>3, <1>4, <2>1, <2>2, <2>3 DEF TypeOK, Definitions, Jumps, Families, Places
<1>10. LinksAreLive'
  BY <1>1, <1>3 DEF LinksAreLive
<1>11. RefCounts'
  <2>1. ASSUME NEW j \in DOMAIN defs
        PROVE  Linked(j)' = Linked(j) /\ Pending(j)' = Pending(j)
    <3>1. Linked(j)' = Linked(j)
      BY <1>1, <1>5 DEF Linked
    <3>2. size \notin Pending(j)'
      BY <1>3, <1>6 DEF Pending, to, Definitions
    <3>3. \A n \in DOMAIN jumps' : n = size \/ n \in DOMAIN jumps
      BY <1>3, <1>6
    <3>4. \A n \in DOMAIN jumps : n \in DOMAIN jumps'
      BY <1>3, <1>6
    <3>5. QED BY <1>6, <3>1, <3>2, <3>3, <3>4 DEF Pending
  <2>2. QED BY <1>1, <1>5, <2>1 DEF IInv, RefCounts
<1>12. Standing' /\ PlacedLabelsResolve'
  <2>1. ASSUME fam'[h] \in DOMAIN place
        PROVE  i \in DOMAIN defs /\ defs[i].off = place[fam'[h]]
    <3>1. i # labelId
      BY <1>3, <1>4, <2>1 DEF IInv, Identity
    <3>2. id[h] = i
      BY <1>2, <3>1 DEF Known, i
    <3>3. fam[h] = <<epoch, i>>
      <4>1. fam[h] = IF id[h] = 0 THEN None ELSE <<epoch, id[h]>>
        BY <1>2 DEF IInv, Identity
      <4>2. i # 0
        BY <1>4
      <4>3. QED BY <3>2, <4>1, <4>2
    <3>4. fam'[h] = fam[h]
      BY <1>4, <3>3
    <3>5. id[h] \in DOMAIN defs /\ defs[id[h]].off = place[fam[h]]
      BY <1>2, <2>1, <3>4 DEF IInv, Standing
    <3>6. QED BY <3>2, <3>4, <3>5
  <2>2. want # None => to = want
    BY <2>1 DEF to, want
  <2>3. \A n \in DOMAIN jumps' : n = size \/ n \in DOMAIN jumps
    BY <1>3, <1>6
  <2>4. PlacedLabelsResolve'
    BY <1>6, <2>2, <2>3 DEF IInv, PlacedLabelsResolve
  <2>5. \A g \in live \ {h} : id'[g] = id[g] /\ fam'[g] = fam[g]
    BY <1>3, <1>4
  <2>6. id'[h] = i
    BY DEF i
  <2>7. Standing'
    BY <1>1, <2>1, <2>5, <2>6 DEF IInv, Standing
  <2>8. QED BY <2>4, <2>7
<1>13. Identity'
  <2>1. \A g \in live' : /\ id'[g] < labelId'
                        /\ fam'[g] = IF id'[g] = 0 THEN None ELSE <<epoch', id'[g]>>
    <3>1. \A g \in live : /\ id[g] < labelId
                         /\ fam[g] = IF id[g] = 0 THEN None ELSE <<epoch, id[g]>>
      BY DEF IInv, Identity
    <3>2. \A g \in live \ {h} : id'[g] = id[g] /\ fam'[g] = fam[g] /\ id[g] \in Nat
      BY <1>3, <1>4
    <3>3. id'[h] = i
      BY DEF i
    <3>4. \A g \in live \ {h} : /\ id'[g] < labelId'
                                /\ fam'[g] = IF id'[g] = 0 THEN None ELSE <<epoch', id'[g]>>
      BY <1>1, <1>3, <1>4, <3>1, <3>2
    <3>5. /\ id'[h] < labelId'
          /\ fam'[h] = IF id'[h] = 0 THEN None ELSE <<epoch', id'[h]>>
      BY <1>1, <1>4, <3>3
    <3>6. QED BY <1>1, <3>4, <3>5
  <2>2. \A g \in Handles \ live' : id'[g] = 0 /\ fam'[g] = None
    BY <1>1, <1>2, <1>4 DEF IInv, Identity
  <2>3. \A g \in ptrs' : id'[g] # 0
    BY <1>1, <1>3, <1>5
  <2>4. \A f \in DOMAIN place' : f[1] = epoch' /\ f[2] < labelId'
    BY <1>1, <1>3, <1>4 DEF IInv, Identity, Places
  <2>5. \A j \in DOMAIN defs' : 0 < j /\ j < labelId'
    BY <1>1, <1>3, <1>4 DEF IInv, Identity
  <2>6. \A n \in DOMAIN jumps' : 0 < jumps'[n].id /\ jumps'[n].id < labelId'
    <3>1. \A n \in DOMAIN jumps' : n = size \/ n \in DOMAIN jumps
      BY <1>3, <1>6
    <3>2. \A n \in DOMAIN jumps : 0 < jumps'[n].id /\ jumps'[n].id < labelId'
      BY <1>3, <1>4, <1>6 DEF IInv, Identity, Jumps
    <3>3. QED BY <1>4, <1>6, <3>1, <3>2
  <2>7. QED BY <2>1, <2>2, <2>3, <2>4, <2>5, <2>6 DEF Identity
<1>14. QED
  BY <1>9, <1>10, <1>11, <1>12, <1>13, Assemble

\* An id given by a call that throws afterwards preserves the invariant.
LEMMA JmpThrowsInv ==
  ASSUME IInv, NEW h \in Handles, JmpThrows(h)
  PROVE  IInv'
<1> USE LabelHandleAssumption
<1>1. /\ GetId(h) /\ id[h] = 0 /\ h \in live
      /\ UNCHANGED <<live, mgr, ptrs, defs, size, jumps, epoch, place>>
  BY DEF JmpThrows, GetId
<1>2. Known(h, id'[h])
  BY <1>1, GetIdKnown
<1>3. /\ live \subseteq Handles /\ ptrs \subseteq live /\ mgr = ptrs
      /\ id \in [Handles -> Nat] /\ labelId \in Nat /\ labelId > 0
      /\ (\A n \in DOMAIN jumps : jumps[n] \in Jumps)
      /\ DOMAIN defs \subseteq Nat /\ Places
      /\ \A g \in ptrs : id[g] # 0 /\ id[g] \in DOMAIN defs
  BY Facts
<1>4. /\ id' \in [Handles -> Nat] /\ labelId' \in Nat /\ labelId' >= labelId
      /\ fam' \in [Handles -> Families]
      /\ 0 < id'[h] /\ id'[h] < labelId' /\ fam'[h] = <<epoch, id'[h]>>
      /\ (\A g \in Handles \ {h} : id'[g] = id[g] /\ fam'[g] = fam[g])
  BY <1>2 DEF Known
<1>5. h \notin ptrs /\ \A g \in ptrs : id'[g] = id[g]
  BY <1>1, <1>3, <1>4
<1>6. TypeOK' /\ LinksAreLive'
  BY <1>1, <1>3, <1>4 DEF IInv, TypeOK, LinksAreLive, Families
<1>7. RefCounts'
  <2>1. \A j : Linked(j)' = Linked(j) /\ Pending(j)' = Pending(j)
    BY <1>1, <1>5 DEF Linked, Pending
  <2>2. QED BY <1>1, <1>5, <2>1 DEF IInv, RefCounts
<1>8. Identity'
  <2>1. \A g \in live' : /\ id'[g] < labelId'
                        /\ fam'[g] = IF id'[g] = 0 THEN None ELSE <<epoch', id'[g]>>
    <3>1. \A g \in live : /\ id[g] < labelId
                         /\ fam[g] = IF id[g] = 0 THEN None ELSE <<epoch, id[g]>>
      BY DEF IInv, Identity
    <3>2. \A g \in live \ {h} : id'[g] = id[g] /\ fam'[g] = fam[g] /\ id[g] \in Nat
      BY <1>3, <1>4
    <3>3. \A g \in live \ {h} : /\ id'[g] < labelId'
                                /\ fam'[g] = IF id'[g] = 0 THEN None ELSE <<epoch', id'[g]>>
      BY <1>1, <1>3, <1>4, <3>1, <3>2
    <3>4. /\ id'[h] < labelId'
          /\ fam'[h] = IF id'[h] = 0 THEN None ELSE <<epoch', id'[h]>>
      BY <1>1, <1>4
    <3>5. QED BY <1>1, <3>3, <3>4
  <2>2. \A g \in Handles \ live' : id'[g] = 0 /\ fam'[g] = None
    BY <1>1, <1>4 DEF IInv, Identity
  <2>3. \A g \in ptrs' : id'[g] # 0
    BY <1>1, <1>3, <1>5
  <2>4. \A f \in DOMAIN place' : f[1] = epoch' /\ f[2] < labelId'
    BY <1>1, <1>3, <1>4 DEF IInv, Identity, Places
  <2>5. \A j \in DOMAIN defs' : 0 < j /\ j < labelId'
    BY <1>1, <1>3, <1>4 DEF IInv, Identity
  <2>6. \A n \in DOMAIN jumps' : 0 < jumps'[n].id /\ jumps'[n].id < labelId'
    BY <1>1, <1>3, <1>4 DEF IInv, Identity, Jumps
  <2>7. QED BY <2>1, <2>2, <2>3, <2>4, <2>5, <2>6 DEF Identity
<1>9. Standing' /\ PlacedLabelsResolve'
  <2>1. fam'[h] \notin DOMAIN place
    <3>1. id'[h] = labelId
      BY <1>1, GetIdKnown
    <3>2. QED BY <1>3, <1>4, <3>1 DEF IInv, Identity
  <2>2. \A g \in live \ {h} : id'[g] = id[g] /\ fam'[g] = fam[g]
    BY <1>3, <1>4
  <2>3. Standing'
    BY <1>1, <2>1, <2>2 DEF IInv, Standing
  <2>4. QED BY <1>1, <2>3 DEF IInv, PlacedLabelsResolve
<1>10. QED
  BY <1>6, <1>7, <1>8, <1>9, Assemble

-----------------------------------------------------------------------------
(* Label objects.                                                          *)

\* A new Label object preserves the invariant.
LEMMA ConstructInv ==
  ASSUME IInv, NEW h \in Handles, Construct(h)
  PROVE  IInv'
<1>1. /\ h \notin live /\ live' = live \cup {h}
      /\ UNCHANGED <<id, mgr, ptrs, labelId, defs, size, jumps, epoch, fam, place>>
  BY DEF Construct
<1>2. id[h] = 0 /\ fam[h] = None
  BY <1>1 DEF IInv, Identity
<1>3. TypeOK' /\ LinksAreLive' /\ Standing' /\ PlacedLabelsResolve'
  <2>1. TypeOK' /\ LinksAreLive'
    BY <1>1 DEF IInv, TypeOK, LinksAreLive
  <2>2. None \notin DOMAIN place
    BY Facts, LabelHandleAssumption DEF Places
  <2>3. QED BY <1>1, <1>2, <2>1, <2>2 DEF IInv, Standing, PlacedLabelsResolve
<1>4. RefCounts'
  BY <1>1 DEF IInv, RefCounts, Linked, Pending
<1>5. Identity'
  BY <1>1, <1>2, Facts DEF IInv, Identity
<1>6. QED
  BY <1>3, <1>4, <1>5, Assemble

\* The copy constructor and operator= preserve the invariant: a copy of a
\* linked label is counted for the definition.
LEMMA BecomeInv ==
  ASSUME IInv, NEW h \in Handles, NEW g \in live, h # g, id[h] = 0, Become(h, g),
         live' = live \cup {h}, UNCHANGED <<labelId, size, jumps, epoch, place>>
  PROVE  IInv'
<1> USE LabelHandleAssumption
<1>1. /\ live \subseteq Handles /\ ptrs \subseteq live /\ mgr = ptrs
      /\ id \in [Handles -> Nat] /\ labelId \in Nat /\ labelId > 0
      /\ epoch \in Nat
      /\ DOMAIN defs \subseteq Nat /\ (\A j \in DOMAIN defs : defs[j] \in Definitions)
      /\ fam \in [Handles -> Families] /\ Places /\ None \notin Nat
      /\ \A x \in ptrs : id[x] # 0 /\ id[x] \in DOMAIN defs
  BY Facts
<1>2. h \notin ptrs /\ g \in Handles
  BY <1>1
<1>3. id' = [id EXCEPT ![h] = id[g]] /\ fam' = [fam EXCEPT ![h] = fam[g]]
  BY DEF Become
<1>4. /\ id' \in [Handles -> Nat] /\ fam' \in [Handles -> Families]
      /\ id'[h] = id[g] /\ fam'[h] = fam[g]
      /\ \A x \in Handles \ {h} : id'[x] = id[x] /\ fam'[x] = fam[x]
  BY <1>1, <1>2, <1>3
<1>5. \A x \in live' : /\ id'[x] < labelId'
                      /\ fam'[x] = IF id'[x] = 0 THEN None ELSE <<epoch', id'[x]>>
  <2>1. \A x \in live : /\ id[x] < labelId
                       /\ fam[x] = IF id[x] = 0 THEN None ELSE <<epoch, id[x]>>
    BY DEF IInv, Identity
  <2>2. \A x \in live \ {h} : id'[x] = id[x] /\ fam'[x] = fam[x]
    BY <1>1, <1>4
  <2>3. QED BY <1>4, <2>1, <2>2
<1>6. \A x \in Handles \ live' : id'[x] = 0 /\ fam'[x] = None
  BY <1>4 DEF IInv, Identity
<1>7. \A j \in DOMAIN defs : 0 < j /\ j < labelId'
  BY DEF IInv, Identity
<1>8. \A n \in DOMAIN jumps' : 0 < jumps'[n].id /\ jumps'[n].id < labelId'
  BY DEF IInv, Identity
<1>9. \A f \in DOMAIN place' : f[1] = epoch' /\ f[2] < labelId'
  BY DEF IInv, Identity
<1>p. ASSUME DOMAIN defs' = DOMAIN defs,
             \A j \in DOMAIN defs : defs'[j].off = defs[j].off
      PROVE  Standing' /\ PlacedLabelsResolve'
  <2>1. PlacedLabelsResolve'
    BY DEF IInv, PlacedLabelsResolve
  <2>2. ASSUME NEW x \in live', fam'[x] \in DOMAIN place
        PROVE  id'[x] \in DOMAIN defs' /\ defs'[id'[x]].off = place[fam'[x]]
    <3>1. PICK y \in live : id'[x] = id[y] /\ fam'[x] = fam[y]
      <4>1. CASE x = h
        BY <1>4, <4>1
      <4>2. CASE x # h
        <5>1. x \in live /\ x \in Handles \ {h}
          BY <1>1, <4>2
        <5>2. QED BY <1>4, <5>1
      <4>3. QED BY <4>1, <4>2
    <3>2. QED BY <1>p, <2>2, <3>1 DEF IInv, Standing
  <2>3. QED BY <2>1, <2>2 DEF Standing
<1>10. CASE g \in mgr
  <2>1. mgr' = mgr \cup {h} /\ ptrs' = ptrs \cup {h} /\ defs' = Inc(defs, id[g])
    BY <1>10 DEF Become
  <2>2. id[g] \in DOMAIN defs
    BY <1>1, <1>10
  <2>3. /\ DOMAIN defs' = DOMAIN defs
        /\ defs'[id[g]].off = defs[id[g]].off /\ defs'[id[g]].ref = defs[id[g]].ref + 1
        /\ defs'[id[g]] \in Definitions
        /\ \A j \in DOMAIN defs \ {id[g]} : defs'[j] = defs[j]
    <3>1. defs' = [defs EXCEPT ![id[g]].ref = @ + 1]
      BY <2>1, <2>2 DEF Inc
    <3>2. defs[id[g]] \in Definitions
      BY <1>1, <2>2
    <3>3. QED BY <2>2, <3>1, <3>2 DEF Definitions
  <2>4. TypeOK'
    <3>1. \A j \in DOMAIN defs' : defs'[j] \in Definitions
      BY <1>1, <2>3
    <3>2. QED BY <1>1, <1>4, <2>1, <2>3, <3>1 DEF IInv, TypeOK, Definitions, Families
  <2>5. LinksAreLive'
    BY <1>1, <2>1 DEF LinksAreLive
  <2>6. RefCounts'
    <3>1. \A x \in ptrs' : id'[x] \in DOMAIN defs'
      BY <1>1, <1>2, <1>4, <2>1, <2>2, <2>3
    <3>2. \A j : Pending(j)' = Pending(j)
      BY DEF Pending
    <3>k. PICK k : k = id[g]
      OBVIOUS
    <3>3. Linked(k)' = Linked(k) \cup {h} /\ h \notin Linked(k)
      BY <1>1, <1>2, <1>4, <2>1, <3>k DEF Linked
    <3>4. IsFiniteSet(Linked(k))
      BY <1>1, LinkedFinite DEF Linked
    <3>5. Cardinality(Linked(k)') = Cardinality(Linked(k)) + 1
      BY <3>3, <3>4, FS_AddElement
    <3>6. ASSUME NEW j \in DOMAIN defs \ {k}
          PROVE  Linked(j)' = Linked(j)
      BY <1>1, <1>2, <1>4, <2>1, <3>k DEF Linked
    <3>7. ASSUME NEW j \in DOMAIN defs'
          PROVE  defs'[j].ref = Cardinality(Linked(j)') + (IF Pending(j)' = {} THEN 0 ELSE 1)
      <4>1. defs[j].ref = Cardinality(Linked(j)) + (IF Pending(j) = {} THEN 0 ELSE 1)
        BY <2>3, <3>7 DEF IInv, RefCounts
      <4>2. CASE j = k
        <5>1. Cardinality(Linked(k)) \in Nat
          BY <3>4, FS_CardinalityType
        <5>2. defs'[k].ref = defs[k].ref + 1
          BY <2>3, <3>k
        <5>3. QED BY <3>2, <3>5, <4>1, <4>2, <5>1, <5>2
      <4>3. CASE j # k
        BY <2>3, <3>2, <3>6, <3>7, <3>k, <4>1, <4>3
      <4>4. QED BY <4>2, <4>3
    <3>8. QED BY <3>1, <3>7 DEF RefCounts
  <2>7. Identity'
    <3>1. \A x \in ptrs' : id'[x] # 0
      BY <1>1, <1>2, <1>4, <1>10, <2>1
    <3>2. QED BY <1>5, <1>6, <1>7, <1>8, <1>9, <2>3, <3>1 DEF Identity
  <2>8. \A j \in DOMAIN defs : defs'[j].off = defs[j].off
    BY <2>3
  <2>p. Standing' /\ PlacedLabelsResolve'
    BY <1>p, <2>3, <2>8
  <2>9. QED
    BY <2>4, <2>5, <2>6, <2>7, <2>p, Assemble
<1>11. CASE g \notin mgr
  <2>1. mgr' = mgr \ {h} /\ ptrs' = ptrs /\ defs' = defs /\ mgr' = mgr
    BY <1>1, <1>2, <1>11 DEF Become
  <2>3. \A x \in ptrs : id'[x] = id[x]
    BY <1>1, <1>2, <1>4
  <2>4. TypeOK' /\ LinksAreLive'
    BY <1>1, <1>4, <2>1 DEF IInv, TypeOK, LinksAreLive, Families
  <2>5. RefCounts'
    <3>1. \A j : Linked(j)' = Linked(j) /\ Pending(j)' = Pending(j)
      BY <2>1, <2>3 DEF Linked, Pending
    <3>2. QED BY <2>1, <2>3, <3>1 DEF IInv, RefCounts
  <2>6. Identity'
    <3>1. \A x \in ptrs' : id'[x] # 0
      BY <1>1, <2>1, <2>3
    <3>2. QED BY <1>5, <1>6, <1>7, <1>8, <1>9, <2>1, <3>1 DEF Identity
  <2>p. Standing' /\ PlacedLabelsResolve'
    BY <1>p, <2>1
  <2>7. QED
    BY <2>4, <2>5, <2>6, <2>p, Assemble
<1>12. QED BY <1>10, <1>11

\* Copying a label preserves the invariant.
LEMMA CopyInv ==
  ASSUME IInv, NEW h \in Handles, NEW g \in Handles, Copy(h, g)
  PROVE  IInv'
<1>1. id[h] = 0
  BY DEF Copy, IInv, Identity
<1>2. QED BY <1>1, BecomeInv DEF Copy

\* Assigning to a label that was never used preserves the invariant.
LEMMA AssignInv ==
  ASSUME IInv, NEW h \in Handles, NEW g \in Handles, Assign(h, g)
  PROVE  IInv'
<1>1. live' = live \cup {h}
  BY DEF Assign
<1>2. QED BY <1>1, BecomeInv DEF Assign

\* Destroying a label preserves the invariant: the definition goes with the
\* last linked label.
LEMMA DestroyInv ==
  ASSUME IInv, NEW h \in Handles, Destroy(h)
  PROVE  IInv'
<1> USE LabelHandleAssumption
<1>1. /\ live \subseteq Handles /\ ptrs \subseteq live /\ mgr = ptrs
      /\ id \in [Handles -> Nat] /\ labelId \in Nat /\ labelId > 0
      /\ epoch \in Nat
      /\ DOMAIN defs \subseteq Nat /\ (\A j \in DOMAIN defs : defs[j] \in Definitions)
      /\ fam \in [Handles -> Families] /\ Places /\ None \notin Nat
      /\ \A x \in ptrs : id[x] # 0 /\ id[x] \in DOMAIN defs
  BY Facts
<1>2. /\ h \in live /\ live' = live \ {h} /\ mgr' = mgr \ {h}
      /\ id' = [id EXCEPT ![h] = 0] /\ fam' = [fam EXCEPT ![h] = None]
      /\ UNCHANGED <<labelId, size, jumps, epoch>> /\ place' = PlacesWithout(h)
  BY DEF Destroy
<1>3. /\ id' \in [Handles -> Nat] /\ fam' \in [Handles -> Families]
      /\ id'[h] = 0 /\ fam'[h] = None
      /\ \A x \in Handles \ {h} : id'[x] = id[x] /\ fam'[x] = fam[x]
  BY <1>1, <1>2 DEF Families
<1>4. ptrs' = ptrs \ {h}
  BY <1>1, <1>2 DEF Destroy
<1>5. /\ DOMAIN defs' \subseteq DOMAIN defs
      /\ \A j \in DOMAIN defs' : defs'[j].off = defs[j].off
      /\ \A j \in DOMAIN defs' : defs'[j] \in Definitions
      /\ h \notin ptrs => defs' = defs
      /\ \A j \in DOMAIN defs : (h \in ptrs => j # id[h]) => j \in DOMAIN defs' /\ defs'[j] = defs[j]
      /\ h \in ptrs => /\ defs[id[h]].ref = 1 => id[h] \notin DOMAIN defs'
                       /\ defs[id[h]].ref # 1 => /\ id[h] \in DOMAIN defs'
                                                 /\ defs'[id[h]].ref = defs[id[h]].ref - 1
  <2>1. CASE h \notin ptrs
    BY <1>1, <2>1 DEF Destroy
  <2>2. CASE h \in ptrs
    <3>1. defs' = Dec(defs, id[h]) /\ id[h] \in DOMAIN defs /\ defs[id[h]] \in Definitions
      BY <1>1, <2>2 DEF Destroy
    <3>2. CASE defs[id[h]].ref = 1
      <4>1. defs' = [x \in DOMAIN defs \ {id[h]} |-> defs[x]]
        BY <3>1, <3>2 DEF Dec
      <4>2. QED BY <1>1, <2>2, <3>2, <4>1
    <3>3. CASE defs[id[h]].ref # 1
      <4>1. defs' = [defs EXCEPT ![id[h]].ref = @ - 1]
        BY <3>1, <3>3 DEF Dec
      <4>2. defs'[id[h]].ref = defs[id[h]].ref - 1 /\ defs'[id[h]].off = defs[id[h]].off
            /\ defs'[id[h]] \in Definitions
        BY <3>1, <3>3, <4>1 DEF Definitions
      <4>3. QED BY <1>1, <2>2, <3>1, <3>3, <4>1, <4>2
    <3>4. QED BY <3>2, <3>3
  <2>3. QED BY <2>1, <2>2
<1>p. /\ DOMAIN place' \subseteq DOMAIN place
      /\ \A f \in DOMAIN place' : place'[f] = place[f]
      /\ Linked(id[h]) = {h} => fam[h] \notin DOMAIN place'
  BY <1>2 DEF PlacesWithout
<1>6. TypeOK' /\ LinksAreLive'
  BY <1>1, <1>2, <1>3, <1>4, <1>5, <1>p DEF IInv, TypeOK, LinksAreLive, Families, Definitions
<1>7. \A j : Pending(j)' = Pending(j)
  BY <1>2 DEF Pending
<1>k. PICK k : k = id[h]
  OBVIOUS
<1>8. ASSUME h \in ptrs
      PROVE  /\ Linked(k)' = Linked(k) \ {h}
             /\ Cardinality(Linked(k)') = Cardinality(Linked(k)) - 1
             /\ Cardinality(Linked(k)) \in Nat
             /\ IsFiniteSet(Linked(k)')
  <2>1. Linked(k)' = Linked(k) \ {h}
    BY <1>1, <1>3, <1>4, <1>8, <1>k DEF Linked
  <2>2. IsFiniteSet(Linked(k)) /\ h \in Linked(k)
    BY <1>1, <1>8, <1>k, LinkedFinite DEF Linked
  <2>3. QED BY <2>1, <2>2, FS_RemoveElement, FS_CardinalityType
<1>9. ASSUME NEW j, h \in ptrs => j # k
      PROVE  Linked(j)' = Linked(j)
  BY <1>1, <1>3, <1>4, <1>9, <1>k DEF Linked
<1>10. \A x \in ptrs' : id'[x] = id[x] /\ id[x] \in DOMAIN defs'
  <2>1. ASSUME NEW x \in ptrs', h \in ptrs, id[x] = k
        PROVE  k \in DOMAIN defs'
    <3>1. x \in Linked(k)'
      BY <1>1, <1>3, <1>4, <2>1 DEF Linked
    <3>2. Cardinality(Linked(k)') # 0 /\ Cardinality(Linked(k)') \in Nat
      BY <1>8, <2>1, <3>1, FS_EmptySet, FS_CardinalityType
    <3>3. defs[k].ref = Cardinality(Linked(k)) + (IF Pending(k) = {} THEN 0 ELSE 1)
      BY <1>1, <1>k, <2>1 DEF IInv, RefCounts
    <3>4. defs[k].ref # 1
      BY <1>8, <2>1, <3>2, <3>3
    <3>5. QED BY <1>5, <1>k, <2>1, <3>4
  <2>2. QED BY <1>1, <1>3, <1>4, <1>5, <1>k, <2>1
<1>11. RefCounts'
  <2>1. ASSUME NEW j \in DOMAIN defs'
        PROVE  defs'[j].ref = Cardinality(Linked(j)') + (IF Pending(j)' = {} THEN 0 ELSE 1)
    <3>1. defs[j].ref = Cardinality(Linked(j)) + (IF Pending(j) = {} THEN 0 ELSE 1)
      BY <1>5, <2>1 DEF IInv, RefCounts
    <3>2. CASE h \in ptrs /\ j = k
      <4>1. defs'[j].ref = defs[j].ref - 1
        BY <1>5, <1>k, <2>1, <3>2
      <4>2. QED BY <1>7, <1>8, <3>1, <3>2, <4>1
    <3>3. CASE h \in ptrs => j # k
      <4>1. defs'[j] = defs[j] /\ Linked(j)' = Linked(j)
        BY <1>5, <1>9, <1>k, <2>1, <3>3
      <4>2. QED BY <1>7, <3>1, <4>1
    <3>4. QED BY <3>2, <3>3
  <2>2. QED BY <1>10, <2>1 DEF RefCounts
<1>12. Identity'
  <2>1. \A x \in live' : /\ id'[x] < labelId'
                        /\ fam'[x] = IF id'[x] = 0 THEN None ELSE <<epoch', id'[x]>>
    BY <1>1, <1>2, <1>3 DEF IInv, Identity
  <2>2. \A x \in Handles \ live' : id'[x] = 0 /\ fam'[x] = None
    BY <1>2, <1>3 DEF IInv, Identity
  <2>3. \A x \in ptrs' : id'[x] # 0
    BY <1>1, <1>4, <1>10
  <2>4. \A f \in DOMAIN place' : f[1] = epoch' /\ f[2] < labelId'
    BY <1>2, <1>p DEF IInv, Identity
  <2>5. \A j \in DOMAIN defs' : 0 < j /\ j < labelId'
    BY <1>2, <1>5 DEF IInv, Identity
  <2>6. \A n \in DOMAIN jumps' : 0 < jumps'[n].id /\ jumps'[n].id < labelId'
    BY <1>2 DEF IInv, Identity
  <2>7. QED BY <2>1, <2>2, <2>3, <2>4, <2>5, <2>6 DEF Identity
<1>13. Standing' /\ PlacedLabelsResolve'
  <2>1. ASSUME NEW x \in live \ {h}, id[x] \in DOMAIN defs, fam[x] \in DOMAIN place'
        PROVE  id[x] \in DOMAIN defs'
    <3>1. CASE x \in ptrs
      BY <1>4, <1>10, <2>1, <3>1
    <3>2. CASE x \notin ptrs /\ h \in ptrs /\ id[x] = k
      <4>1. fam[x] = fam[h]
        BY <1>2, <1>k, <2>1, <3>2 DEF IInv, Identity
      <4>2. Linked(k) # {h}
        BY <1>p, <1>k, <2>1, <4>1
      <4>3. PICK y \in Linked(k) : y # h
        BY <1>k, <3>2, <4>2 DEF Linked
      <4>4. y \in ptrs' /\ id[y] = k
        BY <1>4, <4>3 DEF Linked
      <4>5. QED BY <1>10, <3>2, <4>4
    <3>3. CASE h \in ptrs => id[x] # k
      BY <1>5, <1>k, <2>1, <3>3
    <3>4. QED BY <3>1, <3>2, <3>3
  <2>2. None \notin DOMAIN place
    BY <1>1 DEF Places
  <2>3. ASSUME NEW x \in live', fam'[x] \in DOMAIN place'
        PROVE  id'[x] \in DOMAIN defs' /\ defs'[id'[x]].off = place'[fam'[x]]
    <3>1. x \in live \ {h} /\ id'[x] = id[x] /\ fam'[x] = fam[x]
      BY <1>1, <1>2, <1>3
    <3>2. fam[x] \in DOMAIN place /\ place'[fam[x]] = place[fam[x]]
      BY <1>p, <2>3, <3>1
    <3>3. id[x] \in DOMAIN defs /\ defs[id[x]].off = place[fam[x]]
      BY <3>1, <3>2 DEF IInv, Standing
    <3>4. QED BY <1>5, <2>1, <2>3, <3>1, <3>2, <3>3
  <2>4. Standing'
    BY <2>3 DEF Standing
  <2>5. QED BY <1>2, <2>4 DEF IInv, PlacedLabelsResolve
<1>14. QED
  BY <1>6, <1>11, <1>12, <1>13, Assemble

-----------------------------------------------------------------------------
(* Theorems.                                                               *)

\* An empty generator satisfies the invariant.
LEMMA EmptyRefCounts ==
  ASSUME DOMAIN defs = {}, ptrs = {}
  PROVE  RefCounts
BY DEF RefCounts

\* The initial state satisfies the invariant.
LEMMA InitInv == Init => IInv
<1> SUFFICES ASSUME Init PROVE IInv
  OBVIOUS
<1> USE LabelHandleAssumption
<1>1. /\ live = {} /\ mgr = {} /\ ptrs = {} /\ DOMAIN defs = {} /\ DOMAIN jumps = {}
      /\ labelId = 1 /\ epoch = 0 /\ size = 0
      /\ id = [h \in Handles |-> 0] /\ fam = [h \in Handles |-> None]
      /\ DOMAIN place = {}
  BY DEF Init
<1>2. TypeOK
  BY <1>1 DEF TypeOK, Offsets
<1>3. LinksAreLive /\ Standing /\ PlacedLabelsResolve
  BY <1>1 DEF LinksAreLive, Standing, PlacedLabelsResolve
<1>4. Identity
  BY <1>1 DEF Identity
<1>5. QED BY <1>1, <1>2, <1>3, <1>4, EmptyRefCounts, IdentityNoAliasing DEF IInv

\* A reset preserves the invariant when no used label stays undefined.
LEMMA ResetInv ==
  ASSUME IInv, ~StaleReset, Reset
  PROVE  IInv'
<1> USE LabelHandleAssumption
<1>1. /\ live \subseteq Handles /\ ptrs \subseteq live /\ mgr = ptrs
      /\ id \in [Handles -> Nat] /\ fam \in [Handles -> Families] /\ epoch \in Nat
  BY Facts
<1>2. /\ epoch' = epoch + 1 /\ labelId' = 1 /\ DOMAIN defs' = {} /\ size' = 0
      /\ DOMAIN jumps' = {} /\ mgr' = {} /\ ptrs' = {} /\ live' = live
      /\ id' = [h \in Handles |-> IF h \in ptrs THEN 0 ELSE id[h]]
      /\ fam' = [h \in Handles |-> IF h \in ptrs THEN None ELSE fam[h]]
      /\ DOMAIN place' = {}
      /\ \A h \in live \ mgr : id[h] = 0
  BY <1>1 DEF Reset
<1>3. \A h \in Handles : id'[h] = 0 /\ fam'[h] = None
  <2>1. \A h \in Handles \ ptrs : id[h] = 0 /\ fam[h] = None
    BY <1>1, <1>2 DEF IInv, Identity
  <2>2. QED BY <1>2, <2>1
<1>4. TypeOK'
  <2>1. id' \in [Handles -> Nat] /\ fam' \in [Handles -> Families]
    BY <1>2, <1>3 DEF Families
  <2>2. QED BY <1>1, <1>2, <2>1 DEF TypeOK, Offsets, Families
<1>5. LinksAreLive' /\ Standing' /\ PlacedLabelsResolve'
  BY <1>2 DEF LinksAreLive, Standing, PlacedLabelsResolve
<1>6. Identity'
  BY <1>1, <1>2, <1>3 DEF Identity
<1>7. RefCounts'
  BY <1>2 DEF RefCounts
<1>8. QED
  BY <1>4, <1>5, <1>6, <1>7, Assemble

\* Every operation preserves the invariant.
LEMMA StepInv ==
  ASSUME ~FreshAssign, ~StaleReset
  PROVE  IInv /\ [Next]_vars => IInv'
<1> SUFFICES ASSUME IInv, [Next]_vars PROVE IInv'
  OBVIOUS
<1>1. CASE UNCHANGED vars
  <2>1. /\ TypeOK' /\ LinksAreLive' /\ Identity'
        /\ Standing' /\ PlacedLabelsResolve'
    BY <1>1 DEF vars, IInv, TypeOK, LinksAreLive, Standing, PlacedLabelsResolve, Identity
  <2>2. RefCounts'
    BY <1>1 DEF vars, IInv, RefCounts, Linked, Pending
  <2>3. QED BY <2>1, <2>2, Assemble
<1>2. ASSUME NEW h \in Handles, Construct(h) PROVE IInv'
  BY <1>2, ConstructInv
<1>3. ASSUME NEW h \in Handles, NEW g \in Handles, Copy(h, g) PROVE IInv'
  BY <1>3, CopyInv
<1>4. ASSUME NEW h \in Handles, NEW g \in Handles, Assign(h, g) PROVE IInv'
  BY <1>4, AssignInv
<1>5. ASSUME NEW h \in Handles, Destroy(h) PROVE IInv'
  BY <1>5, DestroyInv
<1>6. ASSUME NEW h \in Handles, L(h) PROVE IInv'
  BY <1>6, LInv
<1>7. ASSUME NEW h \in Handles, NewL(h) PROVE IInv'
  BY <1>7, NewLInv
<1>8. ASSUME NEW dst \in Handles, NEW src \in Handles, AssignL(dst, src) PROVE IInv'
  BY <1>8, AssignLInv
<1>9. ASSUME NEW h \in Handles, Jmp(h) PROVE IInv'
  BY <1>9, JmpInv
<1>10. ASSUME NEW h \in Handles, JmpThrows(h) PROVE IInv'
  BY <1>10, JmpThrowsInv
<1>11. CASE Reset
  BY <1>11, ResetInv
<1>12. QED
  BY <1>1, <1>2, <1>3, <1>4, <1>5, <1>6, <1>7, <1>8, <1>9, <1>10, <1>11 DEF Next

\* The inductive invariant holds in every state of a client that respects
\* the two conditions.
THEOREM Invariance ==
  ASSUME ~FreshAssign, ~StaleReset
  PROVE  Spec => []IInv
BY InitInv, StepInv, PTL DEF Spec

\* No pointer to a destroyed label or manager is kept: labelPtrList_ is
\* exactly what is linked.
THEOREM Links ==
  ASSUME ~FreshAssign, ~StaleReset
  PROVE  Spec => []LinksAreLive
<1>1. IInv => LinksAreLive
  BY DEF IInv
<1>2. QED BY <1>1, Invariance, PTL

\* The same id means the same label.
THEOREM Aliasing ==
  ASSUME ~FreshAssign, ~StaleReset
  PROVE  Spec => []NoAliasing
<1>1. IInv => NoAliasing
  BY DEF IInv
<1>2. QED BY <1>1, Invariance, PTL

\* A jump to a label that was put somewhere goes there, through any object
\* that stands for the label, linked or not, as long as one of them is linked.
THEOREM Placed ==
  ASSUME ~FreshAssign, ~StaleReset
  PROVE  Spec => []PlacedLabelsResolve
<1>1. IInv => PlacedLabelsResolve
  BY DEF IInv
<1>2. QED BY <1>1, Invariance, PTL

\* labelPtrList_ and the counts: a definition is counted exactly as often as a
\* label is linked to it.
THEOREM Counts ==
  ASSUME ~FreshAssign, ~StaleReset
  PROVE  Spec => []RefCounts
<1>1. IInv => RefCounts
  BY DEF IInv
<1>2. QED BY <1>1, Invariance, PTL
=============================================================================
