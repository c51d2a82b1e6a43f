------------------------- MODULE StringLabelsProofs -------------------------
(***************************************************************************)
(* Proofs for module StringLabels, for clients that stop after an L("@@")  *)
(* that throws: the invariant IInv, and that the tables of LabelManager    *)
(* implement ScopedLabels.                                                 *)
(*                                                                         *)
(* The argument: Stands, which gives the symbol of every key of the        *)
(* tables, is injective. So the jumps filed under a key are exactly those  *)
(* that wait for its symbol, and a name is defined in the table where the  *)
(* code looks it up if and only if its symbol has a place.                 *)
(***************************************************************************)
EXTENDS StringLabels, TLAPS

-----------------------------------------------------------------------------
(* Keys and symbols.                                                       *)

LEMMA KeyForm ==
  ASSUME TypeOK, NEW key \in Keys
  PROVE  /\ key = <<key[1], key[2]>>
         /\ \/ key[1] = 1 /\ key[2] \in Globals \cup {"@@", "@b", "@f"}
            \/ key[1] \in 2..depth /\ key[2] \in Locals
  BY DEF Keys, TypeOK

LEMMA StandsForm ==
  ASSUME TypeOK, NEW key \in Keys
  PROVE  /\ key[1] # 1 => Stands(key) = <<"local", scopes[key[1]], key[2]>>
         /\ key = <<1, LastAnon>> => Stands(key) = <<"anon", anon, None>>
         /\ key[1] = 1 /\ key[2] \in {"@b", "@f"} /\ key[2] # LastAnon
              => Stands(key) = <<"anon", anon + 1, None>>
         /\ key[1] = 1 /\ key[2] \notin {"@b", "@f"}
              => Stands(key) = <<"global", 0, key[2]>>
  <1>1. LastAnon \in {"@b", "@f"} BY DEF LastAnon
  <1> QED BY <1>1, KeyForm DEF Stands

\* Two keys never stand for one symbol.
LEMMA StandsInjective ==
  ASSUME TypeOK, ScopesOK, NEW k1 \in Keys, NEW k2 \in Keys,
         Stands(k1) = Stands(k2)
  PROVE  k1 = k2
  <1>0. LastAnon \in {"@b", "@f"} /\ anon \in Nat BY DEF LastAnon, TypeOK
  <1>1. CASE k1[1] # 1
    <2>1. k2[1] # 1 BY <1>0, <1>1, StandsForm, KeyForm
    <2>2. scopes[k1[1]] = scopes[k2[1]] /\ k1[2] = k2[2]
      BY <1>1, <2>1, StandsForm
    <2> QED BY <1>1, <2>1, <2>2, KeyForm DEF ScopesOK
  <1>2. CASE k1[1] = 1 /\ k1[2] \in {"@b", "@f"}
    <2>1. k2[1] = 1 /\ k2[2] \in {"@b", "@f"}
      BY <1>0, <1>2, StandsForm, KeyForm
    <2>2. k1[2] = LastAnon <=> k2[2] = LastAnon
      BY <1>0, <1>2, <2>1, StandsForm, KeyForm
    <2> QED BY <1>0, <1>2, <2>1, <2>2, KeyForm
  <1>3. CASE k1[1] = 1 /\ k1[2] \notin {"@b", "@f"}
    <2>1. k2[1] = 1 /\ k2[2] \notin {"@b", "@f"}
      BY <1>0, <1>3, StandsForm, KeyForm
    <2> QED BY <1>3, <2>1, StandsForm, KeyForm
  <1> QED BY <1>1, <1>2, <1>3

\* The jumps filed under a key are those that wait for its symbol.
LEMMA FiledIsWaiting ==
  ASSUME IInv, NEW key \in Keys
  PROVE  {n \in DOMAIN undef : undef[n] = key}
           = {n \in DOMAIN refs : refs[n].sym = Stands(key) /\ refs[n].to = None}
  <1>1. ASSUME NEW n \in DOMAIN undef, undef[n] = key
        PROVE  n \in DOMAIN refs /\ refs[n].sym = Stands(key) /\ refs[n].to = None
    BY <1>1 DEF IInv, UndefOK
  <1>2. ASSUME NEW n \in DOMAIN refs, refs[n].sym = Stands(key), refs[n].to = None
        PROVE  n \in DOMAIN undef /\ undef[n] = key
    <2>1. n \in DOMAIN undef /\ refs[n].sym = Stands(undef[n])
      BY <1>2 DEF IInv, UndefOK
    <2>2. undef[n] \in Keys BY <2>1 DEF IInv, TypeOK
    <2> QED BY <1>2, <2>1, <2>2, StandsInjective DEF IInv
  <1> QED BY <1>1, <1>2

\* "@f" is defined or "@b", when there has been an "@@".
LEMMA AnonDefined ==
  ASSUME IInv, StringLabelsAssumption
  PROVE  /\ Defined("@f") <=> <<1, "@f">> \in DOMAIN defs
         /\ Defined("@b") <=> <<1, "@b">> \in DOMAIN defs
         /\ anon = 0 => ~Defined("@f") /\ ~Defined("@b")
         /\ anon > 0 => Defined(LastAnon)
         /\ ~(Defined("@f") /\ Defined("@b"))
  <1>1. anon \in Nat /\ TypeOK /\ DefsOK /\ PlaceOK BY DEF IInv, TypeOK
  <1>2. Level("@f") = 1 /\ Level("@b") = 1
    BY StringLabelsAssumption DEF Level, StringLabelsAssumption
  <1>3. <<1, "@f">> \in Keys /\ <<1, "@b">> \in Keys BY DEF Keys
  <1>4. <<"anon", anon + 1, None>> \notin DOMAIN place BY <1>1 DEF PlaceOK
  <1>5. <<"anon", 0, None>> \notin DOMAIN place BY <1>1 DEF PlaceOK
  <1>6. LastAnon \in {"@b", "@f"} BY DEF LastAnon
  <1>7. /\ Stands(<<1, LastAnon>>) = <<"anon", anon, None>>
        /\ \A x \in {"@b", "@f"} :
             x # LastAnon => Stands(<<1, x>>) = <<"anon", anon + 1, None>>
    BY <1>6 DEF Stands
  <1>8. \A x \in {"@b", "@f"} :
          <<1, x>> \in DOMAIN defs <=> x = LastAnon /\ anon > 0
    BY <1>1, <1>3, <1>4, <1>5, <1>6, <1>7 DEF DefsOK, PlaceOK
  <1> QED BY <1>2, <1>6, <1>8, <1>1 DEF Defined

\* The key under which a reference is looked up stands for its symbol.
LEMMA LookupIsSymbol ==
  ASSUME IInv, StringLabelsAssumption, NEW name \in Names
  PROVE  /\ <<Level(name), Renamed(name)>> \in Keys
         /\ name = "@b" => (anon = 0 <=> ~Defined("@f") /\ ~Defined("@b"))
         /\ ~(name = "@b" /\ anon = 0) =>
              Stands(<<Level(name), Renamed(name)>>) = Scoped!Symbol(name)
         /\ ~(name = "@b" /\ anon = 0) =>
              <<Level(name), Renamed(name)>> # <<1, LastAnon>> \/
              <<Level(name), Renamed(name)>> \in DOMAIN defs
  <1>1. anon \in Nat /\ depth \in Nat /\ depth >= 2 BY DEF IInv, TypeOK
  <1>2. CASE name \in Locals
    <2>1. Level(name) = depth /\ Renamed(name) = name
      BY <1>2, StringLabelsAssumption DEF Level, Renamed, StringLabelsAssumption
    <2>2. Scoped!Symbol(name) = <<"local", scopes[depth], name>>
      BY <1>2 DEF Scoped!Symbol
    <2> QED BY <1>1, <1>2, <2>1, <2>2, StringLabelsAssumption
            DEF Keys, Stands, StringLabelsAssumption
  <1>3. CASE name \in Globals \cup {"@@"}
    <2>1. Level(name) = 1 /\ Renamed(name) = name
      BY <1>3, StringLabelsAssumption DEF Level, Renamed, StringLabelsAssumption
    <2>2. Scoped!Symbol(name) = <<"global", 0, name>>
      BY <1>3, StringLabelsAssumption DEF Scoped!Symbol, StringLabelsAssumption
    <2>3. name \notin {"@b", "@f"}
      BY <1>3, StringLabelsAssumption DEF StringLabelsAssumption
    <2> QED BY <1>1, <1>3, <2>1, <2>2, <2>3 DEF Keys, Stands, LastAnon
  <1>4. CASE name = "@b"
    <2>1. Level(name) = 1
      BY <1>4, StringLabelsAssumption DEF Level, StringLabelsAssumption
    <2>2. Renamed(name) = LastAnon BY <1>4 DEF Renamed, LastAnon
    <2>3. Scoped!Symbol(name) = <<"anon", anon, None>>
      BY <1>4, StringLabelsAssumption DEF Scoped!Symbol, StringLabelsAssumption
    <2>4. LastAnon \in {"@b", "@f"} BY DEF LastAnon
    <2>5. Level(LastAnon) = 1
      BY <2>4, StringLabelsAssumption DEF Level, StringLabelsAssumption
    <2> QED BY <1>1, <1>4, <2>1, <2>2, <2>3, <2>4, <2>5, AnonDefined
            DEF Keys, Stands, Defined
  <1>5. CASE name = "@f"
    <2>1. Level(name) = 1
      BY <1>5, StringLabelsAssumption DEF Level, StringLabelsAssumption
    <2>2. Renamed(name) \in {"@b", "@f"} /\ Renamed(name) # LastAnon
      BY <1>5, AnonDefined DEF Renamed, LastAnon
    <2>3. Scoped!Symbol(name) = <<"anon", anon + 1, None>>
      BY <1>5, StringLabelsAssumption DEF Scoped!Symbol, StringLabelsAssumption
    <2> QED BY <1>1, <1>5, <2>1, <2>2, <2>3 DEF Keys, Stands
  <1> QED BY <1>2, <1>3, <1>4, <1>5 DEF Names

-----------------------------------------------------------------------------
(* Every step is one of ScopedLabels.                                      *)

LEMMA DefineIsPut ==
  ASSUME IInv, NEW D, NEW name, NEW s,
         <<Level(name), name>> \in Keys,
         Stands(<<Level(name), name>>) = s,
         DefineInner(D, name), place' = With(place, s, size)
  PROVE  Scoped!Put(s)
  <1> DEFINE key  == <<Level(name), name>>
             wait == {n \in DOMAIN undef : undef[n] = key}
             bad  == {n \in wait : refs[n].short /\ size - (n + 1) > Reach}
  <1>1. wait = {n \in DOMAIN refs : refs[n].sym = s /\ refs[n].to = None}
    BY FiledIsWaiting
  <1>2. /\ \E S \in SUBSET (wait \ bad) :
             /\ bad = {} => S = wait
             /\ refs' = [n \in DOMAIN refs |->
                   IF n \in S THEN [refs[n] EXCEPT !.to = size] ELSE refs[n]]
        /\ err' = IF bad = {} THEN "none" ELSE "too_far"
        /\ UNCHANGED <<depth, size, scopes, nscope>>
    BY DEF DefineInner
  <1>3. place' = Scoped!With(place, s, size) BY DEF With, Scoped!With
  <1> HIDE DEF wait
  <1> QED BY <1>1, <1>2, <1>3 DEF Scoped!Put

\* What L("@@") does is define_inner with the name that is not defined.
LEMMA AnonName ==
  ASSUME IInv, StringLabelsAssumption, DefineAnon
  PROVE  \E name \in {"@b", "@f"} :
           /\ name # LastAnon
           /\ Level(name) = 1 /\ <<1, name>> \in Keys
           /\ Stands(<<1, name>>) = <<"anon", anon + 1, None>>
           /\ DefineInner(Without(defs, {<<1, LastAnon>>}), name)
  <1>1. Level("@f") = 1 /\ Level("@b") = 1
    BY StringLabelsAssumption DEF Level, StringLabelsAssumption
  <1>2. CASE Defined("@f")
    <2>1. LastAnon = "@f" BY <1>2 DEF LastAnon
    <2>2. DefineInner(Without(defs, {<<1, LastAnon>>}), "@b")
      BY <1>2, <2>1 DEF DefineAnon
    <2> QED BY <1>1, <2>1, <2>2 DEF Keys, Stands
  <1>3. CASE ~Defined("@f")
    <2>1. LastAnon = "@b" BY <1>3 DEF LastAnon
    <2>2. DefineInner(Without(defs, {<<1, LastAnon>>}), "@f")
      BY <1>3, <2>1 DEF DefineAnon
    <2> QED BY <1>1, <2>1, <2>2 DEF Keys, Stands
  <1> QED BY <1>2, <1>3

LEMMA NamedSymbol ==
  ASSUME IInv, StringLabelsAssumption, NEW name \in Globals \cup Locals
  PROVE  /\ <<Level(name), name>> \in Keys
         /\ Stands(<<Level(name), name>>) = Scoped!Symbol(name)
         /\ Defined(name) <=> Scoped!Symbol(name) \in DOMAIN place
         /\ name \notin {"@@", "@b", "@f"}
  <1>1. name \notin {"@@", "@b", "@f"}
    BY StringLabelsAssumption DEF StringLabelsAssumption
  <1>2. Renamed(name) = name BY <1>1 DEF Renamed
  <1>3. name \in Names BY DEF Names
  <1> QED BY <1>1, <1>2, <1>3, LookupIsSymbol DEF Defined, IInv, DefsOK

LEMMA StepRefines ==
  ASSUME IInv, StringLabelsAssumption, [Next]_vars
  PROVE  [Scoped!Next]_Scoped!vars
  <1> USE DEF ghosts
  <1>0. Names = Scoped!Names BY DEF Names, Scoped!Names
  <1>t. ASSUME NEW e, Throw(e) PROVE Scoped!Throw(e)
    BY <1>t DEF Throw, Scoped!Throw
  <1>1. ASSUME NEW name \in Names, L(name) PROVE Scoped!Define(name)
    <2>1. CASE name \in {"@b", "@f"} /\ Throw("bad_label")
      BY <1>t, <2>1 DEF Scoped!Define
    <2>2. CASE /\ name = "@@" /\ DefineAnon
               /\ anon' = anon + 1
               /\ place' = With(place, <<"anon", anon + 1, None>>, size)
      <3>1. PICK x \in {"@b", "@f"} :
              /\ Level(x) = 1 /\ <<1, x>> \in Keys
              /\ Stands(<<1, x>>) = <<"anon", anon + 1, None>>
              /\ DefineInner(Without(defs, {<<1, LastAnon>>}), x)
        BY <2>2, AnonName
      <3>2. Scoped!Put(<<"anon", anon + 1, None>>)
        BY <2>2, <3>1, DefineIsPut
      <3> QED BY <2>2, <3>2 DEF Scoped!Define
    <2>3. CASE name \in Globals \cup Locals /\ Defined(name) /\ Throw("redefined")
      BY <1>t, <2>3, NamedSymbol DEF Scoped!Define
    <2>4. CASE /\ name \in Globals \cup Locals /\ ~Defined(name)
               /\ DefineInner(defs, name)
               /\ place' = With(place, Scoped!Symbol(name), size)
               /\ UNCHANGED anon
      <3>1. Scoped!Put(Scoped!Symbol(name)) BY <2>4, NamedSymbol, DefineIsPut
      <3> QED BY <2>4, <3>1, NamedSymbol DEF Scoped!Define
    <2> QED BY <1>1, <2>1, <2>2, <2>3, <2>4 DEF L
  <1>2. ASSUME NEW name \in Names, NEW short \in BOOLEAN, Jmp(name, short)
        PROVE  Scoped!Refer(name, short)
    <2> DEFINE s   == Scoped!Symbol(name)
               key == <<Level(name), Renamed(name)>>
    <2>1. CASE name = "@b" /\ anon = 0
      <3>1. Throw("not_found") BY <1>2, <2>1, LookupIsSymbol DEF Jmp
      <3> QED BY <1>t, <2>1, <3>1 DEF Scoped!Refer
    <2>2. CASE ~(name = "@b" /\ anon = 0)
      <3>1. /\ IF key \in DOMAIN defs
               THEN refs' = With(refs, size,
                      [sym |-> s, to |-> defs[key], short |-> FALSE])
               ELSE refs' = With(refs, size,
                      [sym |-> s, to |-> None, short |-> short])
            /\ size' = size + 1 /\ err' = "none"
            /\ UNCHANGED <<depth, ghosts>>
        BY <1>2, <2>2, LookupIsSymbol DEF Jmp
      <3>2. /\ key \in DOMAIN defs <=> s \in DOMAIN place
            /\ key \in DOMAIN defs => defs[key] = place[s]
        BY <2>2, LookupIsSymbol DEF IInv, DefsOK
      <3> HIDE DEF s, key
      <3>3. refs' = Scoped!With(refs, size,
                IF s \in DOMAIN place
                THEN [sym |-> s, to |-> place[s], short |-> FALSE]
                ELSE [sym |-> s, to |-> None, short |-> short])
        BY <3>1, <3>2 DEF With, Scoped!With
      <3> QED BY <2>2, <3>1, <3>3 DEF Scoped!Refer, s
    <2> QED BY <2>1, <2>2
  <1>3. ASSUME Db PROVE Scoped!Pad
    BY <1>3 DEF Db, Scoped!Pad
  <1>4. ASSUME InLocalLabel PROVE Scoped!EnterLocal
    BY <1>4 DEF InLocalLabel, Scoped!EnterLocal, With, Scoped!With
  <1>5. ASSUME OutLocalLabel PROVE Scoped!LeaveLocal
    <2>1. CASE depth <= 2
      BY <1>5, <1>t, <2>1 DEF OutLocalLabel, Scoped!LeaveLocal
    <2>2. CASE ~(depth <= 2)
      <3>0. depth \in Nat /\ TypeOK BY DEF IInv, TypeOK
      <3>1. ASSUME NEW n \in DOMAIN undef, undef[n][1] = depth
            PROVE  \E m \in DOMAIN refs, x \in Locals :
                     refs[m].to = None /\ refs[m].sym = <<"local", scopes[depth], x>>
        <4>1. undef[n] \in Keys BY <3>0 DEF TypeOK
        <4>2. undef[n] = <<depth, undef[n][2]>> /\ undef[n][2] \in Locals
          BY <2>2, <3>0, <3>1, <4>1, KeyForm
        <4>3. Stands(undef[n]) = <<"local", scopes[depth], undef[n][2]>>
          BY <2>2, <3>0, <3>1 DEF Stands
        <4>4. n \in DOMAIN refs /\ refs[n].to = None /\ refs[n].sym = Stands(undef[n])
          BY DEF IInv, UndefOK
        <4> QED BY <4>2, <4>3, <4>4
      <3>2. ASSUME NEW n \in DOMAIN refs, NEW x \in Locals,
                   refs[n].to = None, refs[n].sym = <<"local", scopes[depth], x>>
            PROVE  \E m \in DOMAIN undef : undef[m][1] = depth
        <4>1. <<depth, x>> \in Keys BY <2>2, <3>0 DEF Keys
        <4>2. Stands(<<depth, x>>) = <<"local", scopes[depth], x>>
          BY <2>2, <3>0 DEF Stands
        <4>3. n \in {m \in DOMAIN undef : undef[m] = <<depth, x>>}
          BY <3>2, <4>1, <4>2, FiledIsWaiting
        <4> QED BY <4>3
      <3>3. CASE \E n \in DOMAIN undef : undef[n][1] = depth
        <4>1. Throw("not_found") BY <1>5, <2>2, <3>3 DEF OutLocalLabel
        <4> QED BY <1>t, <2>2, <3>1, <3>3, <4>1 DEF Scoped!LeaveLocal
      <3>4. CASE ~\E n \in DOMAIN undef : undef[n][1] = depth
        BY <1>5, <2>2, <3>2, <3>4 DEF OutLocalLabel, Scoped!LeaveLocal
      <3> QED BY <3>3, <3>4
    <2> QED BY <2>1, <2>2
  <1>6. ASSUME Ready PROVE Scoped!Ready
    <2>1. DOMAIN undef # {} <=> \E n \in DOMAIN refs : refs[n].to = None
      BY DEF IInv, UndefOK
    <2> QED BY <1>6, <1>t, <2>1 DEF Ready, Scoped!Ready
  <1>7. ASSUME Reset PROVE Scoped!Reset
    BY <1>7 DEF Reset, Scoped!Reset
  <1>8. ASSUME UNCHANGED vars PROVE UNCHANGED Scoped!vars
    BY <1>8 DEF vars, Scoped!vars
  <1> QED BY <1>0, <1>1, <1>2, <1>3, <1>4, <1>5, <1>6, <1>7, <1>8
          DEF Next, Scoped!Next

-----------------------------------------------------------------------------
(* Invariance.                                                             *)

LEMMA LastAnonIs ==
  ASSUME StringLabelsAssumption
  PROVE  /\ LastAnon = IF <<1, "@f">> \in DOMAIN defs THEN "@f" ELSE "@b"
         /\ LastAnon' = IF <<1, "@f">> \in DOMAIN defs' THEN "@f" ELSE "@b"
  BY StringLabelsAssumption DEF LastAnon, Defined, Level, StringLabelsAssumption

LEMMA StandsType ==
  ASSUME TypeOK, NEW key \in Keys
  PROVE  Stands(key) \in Symbols
  <1>1. scopes \in [2..depth -> Nat] /\ anon \in Nat BY DEF TypeOK
  <1>2. LastAnon \in {"@b", "@f"} BY DEF LastAnon
  <1>3. CASE key[1] # 1
    <2>1. key[1] \in 2..depth /\ key[2] \in Locals BY <1>3, KeyForm
    <2>2. Stands(key) = <<"local", scopes[key[1]], key[2]>> BY <1>3 DEF Stands
    <2> QED BY <1>1, <2>1, <2>2 DEF Symbols
  <1>4. CASE key[1] = 1 /\ key[2] \in {"@b", "@f"}
    BY <1>1, <1>4 DEF Symbols, Stands
  <1>5. CASE key[1] = 1 /\ key[2] \notin {"@b", "@f"}
    <2>1. key[2] \in Globals \cup {"@@"} BY <1>5, KeyForm
    <2>2. Stands(key) = <<"global", 0, key[2]>> BY <1>2, <1>5 DEF Stands
    <2> QED BY <2>1, <2>2 DEF Symbols
  <1> QED BY <1>3, <1>4, <1>5

\* What define_inner does to the jumps.
LEMMA DefineEffect ==
  ASSUME IInv, StringLabelsAssumption, NEW D, NEW name, NEW s,
         <<Level(name), name>> \in Keys,
         Stands(<<Level(name), name>>) = s, s \notin DOMAIN place,
         DefineInner(D, name), place' = With(place, s, size)
  PROVE  /\ UNCHANGED <<depth, size, scopes, nscope>>
         /\ err' \in Errors
         /\ defs' = With(D, <<Level(name), name>>, size)
         /\ DOMAIN refs' = DOMAIN refs
         /\ \A n \in DOMAIN refs' :
              /\ refs'[n] \in [sym : Symbols, to : Nat \cup {None}, short : BOOLEAN]
              /\ refs'[n].sym = refs[n].sym
         /\ DOMAIN undef' = {n \in DOMAIN refs' : refs'[n].to = None}
         /\ \A n \in DOMAIN undef' : n \in DOMAIN undef /\ undef'[n] = undef[n]
         /\ err' = "none" =>
              \A n \in DOMAIN undef' : undef'[n] # <<Level(name), name>>
         /\ ResolvedOK'
  <1> DEFINE key  == <<Level(name), name>>
             wait == {n \in DOMAIN undef : undef[n] = key}
             bad  == {n \in wait : refs[n].short /\ size - (n + 1) > Reach}
  <1>0. size \in Nat /\ None \notin Nat
    BY StringLabelsAssumption DEF IInv, TypeOK, StringLabelsAssumption
  <1>1. PICK S \in SUBSET (wait \ bad) :
          /\ bad = {} => S = wait
          /\ undef' = Without(undef, S)
          /\ refs' = [n \in DOMAIN refs |->
                IF n \in S THEN [refs[n] EXCEPT !.to = size] ELSE refs[n]]
    BY DEF DefineInner
  <1>2. /\ UNCHANGED <<depth, size, scopes, nscope>>
        /\ defs' = With(D, key, size)
        /\ err' = IF bad = {} THEN "none" ELSE "too_far"
    BY DEF DefineInner
  <1>3. \A n \in S : n \in DOMAIN refs /\ n \in DOMAIN undef
                     /\ refs[n].sym = s /\ undef[n] = key
    BY <1>1, FiledIsWaiting
  <1>4. \A n \in DOMAIN refs :
          refs[n] \in [sym : Symbols, to : Nat \cup {None}, short : BOOLEAN]
    BY DEF IInv, TypeOK
  <1>5. DOMAIN undef' = DOMAIN undef \ S /\ \A n \in DOMAIN undef' : undef'[n] = undef[n]
    BY <1>1 DEF Without
  <1>6. DOMAIN undef = {n \in DOMAIN refs : refs[n].to = None}
    BY DEF IInv, UndefOK
  <1>7. \A n \in DOMAIN refs :
          /\ n \in S => refs'[n] = [sym |-> refs[n].sym, to |-> size, short |-> refs[n].short]
          /\ n \notin S => refs'[n] = refs[n]
    BY <1>1, <1>4
  <1>8. DOMAIN refs' = DOMAIN refs BY <1>1
  <1>9. DOMAIN undef' = {n \in DOMAIN refs' : refs'[n].to = None}
    BY <1>0, <1>3, <1>5, <1>6, <1>7, <1>8
  <1>10. ASSUME err' = "none", NEW n \in DOMAIN undef' PROVE undef'[n] # key
    <2>1. S = wait BY <1>1, <1>2, <1>10
    <2> QED BY <1>5, <2>1
  <1>11. ASSUME NEW n \in DOMAIN refs', refs'[n].to # None
         PROVE  refs'[n].sym \in DOMAIN place' /\ refs'[n].to = place'[refs'[n].sym]
    <2>1. DOMAIN place' = DOMAIN place \cup {s} /\ place'[s] = size
          /\ \A t \in DOMAIN place : place'[t] = place[t]
      BY DEF With
    <2>2. CASE n \in S
      <3>1. n \in DOMAIN refs /\ refs[n].sym = s BY <1>3, <2>2
      <3>2. refs'[n] = [sym |-> refs[n].sym, to |-> size, short |-> refs[n].short]
        BY <1>7, <2>2, <3>1
      <3> QED BY <2>1, <3>1, <3>2
    <2>3. CASE n \notin S
      <3>1. refs'[n] = refs[n] /\ n \in DOMAIN refs BY <1>7, <1>8, <2>3
      <3> QED BY <1>11, <2>1, <3>1 DEF IInv, ResolvedOK
    <2> QED BY <2>2, <2>3
  <1>12. ResolvedOK' BY <1>11 DEF ResolvedOK
  <1>13. err' \in Errors BY <1>2 DEF Errors
  <1>14. \A n \in DOMAIN refs' :
           /\ refs'[n] \in [sym : Symbols, to : Nat \cup {None}, short : BOOLEAN]
           /\ refs'[n].sym = refs[n].sym
    BY <1>0, <1>4, <1>7, <1>8
  <1> QED BY <1>2, <1>5, <1>8, <1>9, <1>10, <1>12, <1>13, <1>14

LEMMA DefineNamed ==
  ASSUME IInv, StringLabelsAssumption, NEW name \in Globals \cup Locals,
         ~Defined(name), DefineInner(defs, name),
         place' = With(place, Scoped!Symbol(name), size), anon' = anon
  PROVE  IInv'
  <1> DEFINE key == <<Level(name), name>>
             s   == Scoped!Symbol(name)
  <1>1. /\ key \in Keys /\ Stands(key) = s /\ s \notin DOMAIN place
        /\ name \notin {"@@", "@b", "@f"}
    BY NamedSymbol
  <1>2. /\ UNCHANGED <<depth, size, scopes, nscope>>
        /\ err' \in Errors
        /\ defs' = With(defs, key, size)
        /\ DOMAIN refs' = DOMAIN refs
        /\ \A n \in DOMAIN refs' :
             /\ refs'[n] \in [sym : Symbols, to : Nat \cup {None}, short : BOOLEAN]
             /\ refs'[n].sym = refs[n].sym
        /\ DOMAIN undef' = {n \in DOMAIN refs' : refs'[n].to = None}
        /\ \A n \in DOMAIN undef' : n \in DOMAIN undef /\ undef'[n] = undef[n]
        /\ ResolvedOK'
    BY <1>1, DefineEffect
  <1>3. /\ DOMAIN place' = DOMAIN place \cup {s} /\ place'[s] = size
        /\ \A t \in DOMAIN place : place'[t] = place[t]
    BY <1>1 DEF With
  <1>4. /\ DOMAIN defs' = DOMAIN defs \cup {key} /\ defs'[key] = size
        /\ \A k \in DOMAIN defs : k # key => defs'[k] = defs[k]
    BY <1>2 DEF With
  <1>5. key # <<1, "@f">> BY <1>1
  <1>6. LastAnon' = LastAnon BY <1>4, <1>5, LastAnonIs
  <1>7. Keys' = Keys BY <1>2 DEF Keys
  <1>8. \A k : Stands(k)' = Stands(k) BY <1>2, <1>6 DEF Stands
  <1>9. TypeOK /\ size \in Nat /\ anon \in Nat BY DEF IInv, TypeOK
  <1>10. TypeOK'
    <2>1. DOMAIN defs' \subseteq Keys' /\ \A k \in DOMAIN defs' : defs'[k] \in Nat
      BY <1>1, <1>4, <1>7, <1>9 DEF TypeOK
    <2>2. s \in Symbols BY <1>1, <1>9, StandsType
    <2>3. DOMAIN place' \subseteq Symbols /\ \A t \in DOMAIN place' : place'[t] \in Nat
      BY <1>3, <1>9, <2>2 DEF TypeOK
    <2> QED BY <1>2, <1>7, <1>9, <2>1, <2>3 DEF TypeOK
  <1>11. ScopesOK' BY <1>2 DEF IInv, ScopesOK
  <1>12. PlaceOK'
    <2>1. \/ s[1] = "global" /\ s[2] = 0 /\ s[3] \in Globals
          \/ s[1] = "local" /\ s[2] <= nscope /\ s[3] \in Locals
      <3>1. CASE name \in Locals
        <4>1. s = <<"local", scopes[depth], name>> BY <3>1 DEF Scoped!Symbol
        <4>2. depth \in 2..depth BY <1>9 DEF TypeOK
        <4> QED BY <3>1, <4>1, <4>2 DEF IInv, ScopesOK
      <3>2. CASE name \in Globals /\ name \notin Locals
        BY <1>1, <3>2 DEF Scoped!Symbol
      <3> QED BY <3>1, <3>2
    <2> QED BY <1>2, <1>3, <2>1 DEF IInv, PlaceOK
  <1>13. DefsOK'
    <2>1. ASSUME NEW k \in Keys PROVE Stands(k) = s <=> k = key
      BY <1>1, <1>9, StandsInjective DEF IInv
    <2> HIDE DEF key, s
    <2> QED BY <1>1, <1>3, <1>4, <1>7, <1>8, <2>1 DEF IInv, DefsOK
  <1>14. UndefOK'
    BY <1>2, <1>6, <1>8 DEF IInv, UndefOK
  <1> QED BY <1>2, <1>10, <1>11, <1>12, <1>13, <1>14 DEF IInv

LEMMA DefineAnonymous ==
  ASSUME IInv, StringLabelsAssumption, DefineAnon, err' = "none",
         place' = With(place, <<"anon", anon + 1, None>>, size), anon' = anon + 1
  PROVE  IInv'
  <1> DEFINE s   == <<"anon", anon + 1, None>>
  <1>a. PICK old \in {<<1, "@b">>, <<1, "@f">>} : old = <<1, LastAnon>>
    BY DEF LastAnon
  <1> DEFINE D == Without(defs, {old})
  <1>0. TypeOK /\ PlaceOK /\ size \in Nat /\ anon \in Nat BY DEF IInv, TypeOK
  <1>1. PICK x \in {"@b", "@f"} :
          /\ x # LastAnon /\ Level(x) = 1 /\ <<1, x>> \in Keys
          /\ Stands(<<1, x>>) = s /\ DefineInner(D, x)
    BY <1>a, AnonName
  <1> DEFINE key == <<1, x>>
  <1>2. s \notin DOMAIN place BY <1>0 DEF PlaceOK
  <1>3. /\ UNCHANGED <<depth, size, scopes, nscope>>
        /\ defs' = With(D, key, size)
        /\ DOMAIN refs' = DOMAIN refs
        /\ \A n \in DOMAIN refs' :
             /\ refs'[n] \in [sym : Symbols, to : Nat \cup {None}, short : BOOLEAN]
             /\ refs'[n].sym = refs[n].sym
        /\ DOMAIN undef' = {n \in DOMAIN refs' : refs'[n].to = None}
        /\ \A n \in DOMAIN undef' : n \in DOMAIN undef /\ undef'[n] = undef[n]
        /\ \A n \in DOMAIN undef' : undef'[n] # key
        /\ ResolvedOK'
    BY <1>1, <1>2, DefineEffect
  <1>4. /\ DOMAIN place' = DOMAIN place \cup {s} /\ place'[s] = size
        /\ \A t \in DOMAIN place : place'[t] = place[t]
    BY <1>2 DEF With
  <1>5. /\ DOMAIN defs' = (DOMAIN defs \ {old}) \cup {key} /\ defs'[key] = size
        /\ \A k \in DOMAIN defs : k # key /\ k # old => defs'[k] = defs[k]
    BY <1>1, <1>3 DEF With, Without
  <1>6. LastAnon' = x /\ LastAnon \in {"@b", "@f"} /\ old # key
    BY <1>a, <1>1, <1>5, LastAnonIs
  <1>7. Keys' = Keys BY <1>3 DEF Keys
  <1>8. /\ Stands(key)' = s
        /\ Stands(old)' = <<"anon", anon + 2, None>>
        /\ \A k \in Keys : k # key /\ k # old => Stands(k)' = Stands(k)
    <2>1. Stands(key)' = s BY <1>6 DEF Stands
    <2>2. Stands(old)' = <<"anon", (anon + 1) + 1, None>>
      BY <1>a, <1>6 DEF Stands
    <2>3. ASSUME NEW k \in Keys, k # key, k # old PROVE Stands(k)' = Stands(k)
      <3>1. k[1] # 1 \/ k[2] \notin {"@b", "@f"}
        BY <1>0, <1>a, <1>1, <1>6, <2>3, KeyForm
      <3> QED BY <1>3, <1>6, <3>1 DEF Stands
    <2> QED BY <1>0, <2>1, <2>2, <2>3
  <1>9. TypeOK'
    <2>1. DOMAIN defs' \subseteq Keys' /\ \A k \in DOMAIN defs' : defs'[k] \in Nat
      BY <1>0, <1>1, <1>5, <1>7 DEF TypeOK
    <2>2. s \in Symbols BY <1>0, <1>1, StandsType
    <2>3. DOMAIN place' \subseteq Symbols /\ \A t \in DOMAIN place' : place'[t] \in Nat
      BY <1>0, <1>4, <2>2 DEF TypeOK
    <2>4. err' \in Errors BY DEF Errors
    <2>5. anon' \in Nat BY <1>0
    <2>6. \A n \in DOMAIN undef' : n \in DOMAIN refs' /\ undef'[n] \in Keys'
      BY <1>0, <1>3, <1>7 DEF TypeOK
    <2> HIDE DEF s
    <2> QED BY <1>0, <1>3, <2>1, <2>3, <2>4, <2>5, <2>6 DEF TypeOK
  <1>10. ScopesOK' BY <1>3 DEF IInv, ScopesOK
  <1>11. PlaceOK'
    <2>1. \A t \in DOMAIN place : t[2] \in Nat BY <1>0 DEF TypeOK, Symbols
    <2>2. ASSUME NEW t \in DOMAIN place'
          PROVE  \/ t[1] = "global" /\ t[2] = 0 /\ t[3] \in Globals
                 \/ t[1] = "local" /\ t[2] <= nscope' /\ t[3] \in Locals
                 \/ t[1] = "anon" /\ 1 <= t[2] /\ t[2] <= anon' /\ t[3] = None
      <3>1. CASE t \in DOMAIN place BY <1>0, <1>3, <2>1, <3>1 DEF PlaceOK
      <3>2. CASE t = s BY <1>0, <3>2
      <3> QED BY <1>4, <3>1, <3>2
    <2> QED BY <1>4, <2>2 DEF PlaceOK
  <1>12. DefsOK'
    <2>1. ASSUME NEW k \in Keys, k # key, k # old
          PROVE  /\ k \in DOMAIN defs' <=> Stands(k)' \in DOMAIN place'
                 /\ k \in DOMAIN defs' => defs'[k] = place'[Stands(k)']
      <3>1. Stands(k) # s BY <1>0, <1>1, <2>1, StandsInjective DEF IInv
      <3> HIDE DEF key, s
      <3> QED BY <1>4, <1>5, <1>8, <2>1, <3>1 DEF IInv, DefsOK
    <2>3. old \notin DOMAIN defs' /\ <<"anon", anon + 2, None>> \notin DOMAIN place'
      BY <1>0, <1>4, <1>5, <1>6 DEF PlaceOK
    <2>4. key \in DOMAIN defs' /\ s \in DOMAIN place' /\ defs'[key] = place'[s]
      BY <1>4, <1>5
    <2> HIDE DEF key, s
    <2> QED BY <1>7, <1>8, <2>1, <2>3, <2>4 DEF DefsOK
  <1>13. UndefOK'
    <2>1. ASSUME NEW n \in DOMAIN undef'
          PROVE  refs'[n].sym = Stands(undef[n])' /\ undef'[n] # <<1, LastAnon'>>
      <3>1. n \in DOMAIN undef /\ undef'[n] = undef[n] /\ undef[n] \in Keys
            /\ n \in DOMAIN refs'
        BY <1>0, <1>3 DEF TypeOK
      <3>2. undef[n] # key /\ undef[n] # old /\ refs[n].sym = Stands(undef[n])
        BY <1>a, <1>3, <3>1 DEF IInv, UndefOK
      <3>3. PICK k \in Keys : k = undef[n] BY <3>1
      <3>4. k[1] # 1 \/ k[2] \notin {"@b", "@f"}
        BY <1>0, <1>a, <1>1, <1>6, <3>2, <3>3, KeyForm
      <3>5. Stands(undef[n])' = Stands(undef[n])
        BY <1>3, <1>6, <3>1, <3>3, <3>4 DEF Stands
      <3>6. refs'[n].sym = refs[n].sym BY <1>3, <3>1
      <3> QED BY <1>3, <1>6, <3>1, <3>2, <3>5, <3>6
    <2> QED BY <1>3, <2>1 DEF UndefOK
  <1> QED BY <1>3, <1>9, <1>10, <1>11, <1>12, <1>13 DEF IInv

LEMMA ThrowStep ==
  ASSUME IInv, NEW e \in Errors, Throw(e)
  PROVE  IInv'
  <1>1. UNCHANGED <<depth, defs, undef, size, refs, scopes, nscope, anon, place>>
        /\ err' \in Errors
    BY DEF Throw, ghosts
  <1>2. LastAnon' = LastAnon BY <1>1 DEF LastAnon, Defined, Level
  <1>3. Keys' = Keys BY <1>1 DEF Keys
  <1>4. TypeOK' BY <1>1, <1>3 DEF IInv, TypeOK
  <1>5. DefsOK' BY <1>1, <1>2, <1>3 DEF IInv, DefsOK, Stands
  <1>6. UndefOK' BY <1>1, <1>2 DEF IInv, UndefOK, Stands
  <1> QED BY <1>1, <1>4, <1>5, <1>6 DEF IInv, ScopesOK, PlaceOK, ResolvedOK

LEMMA JmpStep ==
  ASSUME IInv, StringLabelsAssumption, NEW name \in Names,
         NEW short \in BOOLEAN, Jmp(name, short)
  PROVE  IInv'
  <1> DEFINE s   == Scoped!Symbol(name)
             key == <<Level(name), Renamed(name)>>
  <1>1. CASE Throw("not_found") BY <1>1, ThrowStep DEF Errors
  <1>2. CASE ~Throw("not_found")
    <2>0. TypeOK /\ size \in Nat /\ None \notin Nat
      BY StringLabelsAssumption DEF IInv, TypeOK, StringLabelsAssumption
    <2>1. ~(name = "@b" /\ anon = 0) BY <1>2, LookupIsSymbol DEF Jmp
    <2>2. /\ size' = size + 1 /\ err' = "none"
          /\ UNCHANGED <<depth, defs, scopes, nscope, anon, place>>
          /\ \/ /\ key \in DOMAIN defs
                /\ refs' = With(refs, size, [sym |-> s, to |-> defs[key], short |-> FALSE])
                /\ UNCHANGED undef
             \/ /\ key \notin DOMAIN defs
                /\ refs' = With(refs, size, [sym |-> s, to |-> None, short |-> short])
                /\ undef' = With(undef, size, key)
      BY <1>2 DEF Jmp, ghosts
    <2>3. key \in Keys /\ Stands(key) = s
          /\ (key # <<1, LastAnon>> \/ key \in DOMAIN defs)
      BY <2>1, LookupIsSymbol
    <2>4. s \in Symbols BY <2>0, <2>3, StandsType
    <2>5. LastAnon' = LastAnon BY <2>2 DEF LastAnon, Defined, Level
    <2>6. Keys' = Keys BY <2>2 DEF Keys
    <2>7. size \notin DOMAIN refs /\ DOMAIN undef \subseteq DOMAIN refs
          /\ DOMAIN refs \subseteq 0..(size - 1)
      BY <2>0 DEF TypeOK
    <2> HIDE DEF key, s
    <2> DEFINE ref(to, b) == [sym |-> s, to |-> to, short |-> b]
    <2>a. ASSUME NEW v, refs' = With(refs, size, v)
          PROVE  /\ DOMAIN refs' = DOMAIN refs \cup {size}
                 /\ \A n \in DOMAIN refs : refs'[n] = refs[n]
                 /\ refs'[size] = v
      BY <2>7, <2>a DEF With
    <2>8. /\ DOMAIN refs' = DOMAIN refs \cup {size}
          /\ \A n \in DOMAIN refs : refs'[n] = refs[n]
          /\ refs'[size].sym = s /\ refs'[size].short \in BOOLEAN
          /\ refs'[size] = [sym |-> refs'[size].sym, to |-> refs'[size].to,
                            short |-> refs'[size].short]
          /\ \/ /\ key \in DOMAIN defs /\ refs'[size].to = defs[key]
                /\ undef' = undef
             \/ /\ key \notin DOMAIN defs /\ refs'[size].to = None
                /\ DOMAIN undef' = DOMAIN undef \cup {size}
                /\ undef'[size] = key
                /\ \A n \in DOMAIN undef : undef'[n] = undef[n]
      <3>1. CASE key \in DOMAIN defs
        <4>1. refs' = With(refs, size, ref(defs[key], FALSE)) /\ undef' = undef
          BY <2>2, <3>1
        <4>2. refs'[size] = ref(defs[key], FALSE) BY <2>a, <4>1
        <4>3. /\ DOMAIN refs' = DOMAIN refs \cup {size}
              /\ \A n \in DOMAIN refs : refs'[n] = refs[n]
          BY <2>a, <4>1
        <4>4. refs'[size].short \in BOOLEAN BY <4>2
        <4>5. /\ refs'[size].sym = s /\ refs'[size].to = defs[key]
              /\ refs'[size] = [sym |-> refs'[size].sym, to |-> refs'[size].to,
                                short |-> refs'[size].short]
          BY <4>2
        <4> QED BY <3>1, <4>1, <4>3, <4>4, <4>5
      <3>2. CASE key \notin DOMAIN defs
        <4>1. refs' = With(refs, size, ref(None, short))
              /\ undef' = With(undef, size, key)
          BY <2>2, <3>2
        <4>2. refs'[size] = ref(None, short) BY <2>a, <4>1
        <4>3. /\ DOMAIN undef' = DOMAIN undef \cup {size}
              /\ undef'[size] = key
              /\ \A n \in DOMAIN undef : undef'[n] = undef[n]
          BY <2>7, <4>1 DEF With
        <4>4. /\ DOMAIN refs' = DOMAIN refs \cup {size}
              /\ \A n \in DOMAIN refs : refs'[n] = refs[n]
          BY <2>a, <4>1
        <4> QED BY <3>2, <4>2, <4>3, <4>4
      <3> QED BY <3>1, <3>2
    <2>9. key \in DOMAIN defs =>
            defs[key] \in Nat /\ s \in DOMAIN place /\ defs[key] = place[s]
      BY <2>0, <2>3 DEF IInv, DefsOK, TypeOK
    <2>10. TypeOK'
      <3>1. DOMAIN refs' \subseteq 0..(size' - 1) BY <2>0, <2>2, <2>7, <2>8
      <3>2. \A n \in DOMAIN refs' :
              refs'[n] \in [sym : Symbols, to : Nat \cup {None}, short : BOOLEAN]
        <4>1. refs'[size].to \in Nat \cup {None} BY <2>8, <2>9
        <4>2. refs'[size] \in [sym : Symbols, to : Nat \cup {None}, short : BOOLEAN]
          BY <2>4, <2>8, <4>1
        <4> QED BY <2>0, <2>8, <4>2 DEF TypeOK
      <3>3. DOMAIN undef' \subseteq DOMAIN refs'
            /\ \A n \in DOMAIN undef' : undef'[n] \in Keys'
        BY <2>0, <2>3, <2>6, <2>7, <2>8 DEF TypeOK
      <3>4. size' \in Nat /\ err' \in Errors BY <2>0, <2>2 DEF Errors
      <3> QED BY <2>0, <2>2, <2>6, <3>1, <3>2, <3>3, <3>4 DEF TypeOK
    <2>11. DefsOK' BY <2>2, <2>5, <2>6 DEF IInv, DefsOK, Stands
    <2>12. UndefOK'
      <3>1. \A k : Stands(k)' = Stands(k) BY <2>2, <2>5 DEF Stands
      <3>2. DOMAIN undef' = {n \in DOMAIN refs' : refs'[n].to = None}
        <4>1. DOMAIN undef = {n \in DOMAIN refs : refs[n].to = None}
          BY DEF IInv, UndefOK
        <4> QED BY <2>0, <2>7, <2>8, <2>9, <4>1
      <3>3. ASSUME NEW n \in DOMAIN undef'
            PROVE  refs'[n].sym = Stands(undef'[n]) /\ undef'[n] # <<1, LastAnon>>
        <4>1. CASE n \in DOMAIN undef
          BY <2>7, <2>8, <4>1 DEF IInv, UndefOK
        <4>2. CASE n \notin DOMAIN undef
          <5>1. n = size /\ undef'[n] = key /\ key \notin DOMAIN defs
            BY <2>8, <3>3, <4>2
          <5> QED BY <2>3, <2>8, <5>1
        <4> QED BY <4>1, <4>2
      <3>4. ASSUME NEW n \in DOMAIN undef'
            PROVE  Stands(undef[n])' = Stands(undef'[n])
        BY <2>2, <2>5 DEF Stands
      <3> QED BY <2>5, <3>2, <3>3, <3>4 DEF UndefOK
    <2>13. ResolvedOK'
      BY <2>2, <2>7, <2>8, <2>9 DEF IInv, ResolvedOK
    <2> QED BY <2>2, <2>10, <2>11, <2>12, <2>13 DEF IInv, ScopesOK, PlaceOK
  <1> QED BY <1>1, <1>2

LEMMA DbStep ==
  ASSUME IInv, Db
  PROVE  IInv'
  <1>1. /\ UNCHANGED <<depth, defs, undef, refs, scopes, nscope, anon, place>>
        /\ size' = size + 1 /\ err' = "none"
    BY DEF Db, ghosts
  <1>2. LastAnon' = LastAnon BY <1>1 DEF LastAnon, Defined, Level
  <1>3. Keys' = Keys BY <1>1 DEF Keys
  <1>4. TypeOK'
    <2>1. size' \in Nat /\ DOMAIN refs' \subseteq 0..(size' - 1) /\ err' \in Errors
      BY <1>1 DEF IInv, TypeOK, Errors
    <2> QED BY <1>1, <1>3, <2>1 DEF IInv, TypeOK
  <1>5. DefsOK' BY <1>1, <1>2, <1>3 DEF IInv, DefsOK, Stands
  <1>6. UndefOK' BY <1>1, <1>2 DEF IInv, UndefOK, Stands
  <1> QED BY <1>1, <1>4, <1>5, <1>6 DEF IInv, ScopesOK, PlaceOK, ResolvedOK

\* A new scope: no table has a key of its level, and nothing has been put
\* under its identity.
LEMMA EnterStep ==
  ASSUME IInv, StringLabelsAssumption, InLocalLabel
  PROVE  IInv'
  <1>0. TypeOK /\ depth \in Nat /\ depth >= 2 /\ nscope \in Nat
        /\ scopes \in [2..depth -> Nat]
    BY DEF IInv, TypeOK
  <1>1. /\ depth' = depth + 1 /\ nscope' = nscope + 1 /\ err' = "none"
        /\ UNCHANGED <<defs, undef, size, refs, anon, place>>
        /\ scopes' = With(scopes, depth + 1, nscope + 1)
    BY DEF InLocalLabel
  <1>2. /\ DOMAIN scopes' = 2..depth'
        /\ scopes'[depth'] = nscope + 1
        /\ \A d \in 2..depth : scopes'[d] = scopes[d]
        /\ scopes' \in [2..depth' -> Nat]
    BY <1>0, <1>1 DEF With
  <1>3. LastAnon' = LastAnon BY <1>1, StringLabelsAssumption, LastAnonIs
  <1>4. Keys \subseteq Keys' /\ \A k \in Keys' \ Keys : k[1] = depth' /\ k[2] \in Locals
    BY <1>0, <1>1 DEF Keys
  <1>5. ASSUME NEW k \in Keys PROVE Stands(k)' = Stands(k)
    <2>1. k[1] = 1 \/ k[1] \in 2..depth BY <1>0, KeyForm
    <2> QED BY <1>1, <1>2, <1>3, <2>1 DEF Stands
  <1>6. ASSUME NEW k \in Keys', k \notin Keys
        PROVE  Stands(k)' \notin DOMAIN place /\ k \notin DOMAIN defs
    <2>1. k[1] = depth' /\ k[1] # 1 BY <1>0, <1>1, <1>4, <1>6
    <2>2. Stands(k)' = <<"local", nscope + 1, k[2]>> BY <1>2, <2>1 DEF Stands
    <2> QED BY <1>0, <1>6, <2>2 DEF IInv, PlaceOK, TypeOK
  <1>7. TypeOK'
    <2>1. err' \in Errors /\ depth' \in Nat /\ depth' >= 2 /\ nscope' \in Nat
      BY <1>0, <1>1 DEF Errors
    <2>2. DOMAIN defs' \subseteq Keys' /\ \A n \in DOMAIN undef' : undef'[n] \in Keys'
      BY <1>0, <1>1, <1>4 DEF TypeOK
    <2> HIDE DEF Keys
    <2> QED BY <1>0, <1>1, <1>2, <2>1, <2>2 DEF TypeOK
  <1>8. ScopesOK'
    <2>1. \A d \in 2..depth' : d \in 2..depth \/ d = depth' BY <1>0, <1>1
    <2>2. \A d \in 2..depth : scopes[d] \in Nat /\ scopes[d] <= nscope
      BY <1>0 DEF IInv, ScopesOK
    <2>3. \A d \in 2..depth : scopes'[d] \in Nat /\ scopes'[d] <= nscope
      BY <1>2, <2>2
    <2>4. \A d \in 2..depth' : scopes'[d] <= nscope'
      BY <1>0, <1>1, <1>2, <2>1, <2>3
    <2>5. \A d \in 2..depth : scopes'[d] # scopes'[depth']
      BY <1>0, <1>2, <2>3
    <2>6. \A d, e \in 2..depth : scopes'[d] = scopes'[e] => d = e
      BY <1>2 DEF IInv, ScopesOK
    <2>7. \A d, e \in 2..depth' : scopes'[d] = scopes'[e] => d = e
      BY <2>1, <2>5, <2>6
    <2> QED BY <2>4, <2>7 DEF ScopesOK
  <1>9. PlaceOK'
    <2>1. \A t \in DOMAIN place : t[2] \in Nat BY <1>0 DEF TypeOK, Symbols
    <2>2. \A t \in DOMAIN place : t[2] <= nscope => t[2] <= nscope'
      BY <1>0, <1>1, <2>1
    <2> QED BY <1>1, <2>2 DEF IInv, PlaceOK
  <1>10. DefsOK'
    <2>1. ASSUME NEW k \in Keys'
          PROVE  /\ k \in DOMAIN defs' <=> Stands(k)' \in DOMAIN place'
                 /\ k \in DOMAIN defs' => defs'[k] = place'[Stands(k)']
      BY <1>1, <1>5, <1>6, <2>1 DEF IInv, DefsOK
    <2> QED BY <2>1 DEF DefsOK
  <1>11. UndefOK'
    <2>1. ASSUME NEW n \in DOMAIN undef
          PROVE  refs[n].sym = Stands(undef[n])' /\ undef[n] # <<1, LastAnon>>
      <3>1. PICK k \in Keys : k = undef[n] BY <1>0 DEF TypeOK
      <3>2. k[1] = 1 \/ k[1] \in 2..depth BY <1>0, KeyForm
      <3>3. Stands(undef[n])' = Stands(undef[n])
        BY <1>1, <1>2, <1>3, <3>1, <3>2 DEF Stands
      <3> QED BY <3>3 DEF IInv, UndefOK
    <2> QED BY <1>1, <1>3, <2>1 DEF IInv, UndefOK
  <1> QED BY <1>1, <1>7, <1>8, <1>9, <1>10, <1>11 DEF IInv, ResolvedOK

\* The innermost scope is left: nothing waits in its table.
LEMMA LeaveStep ==
  ASSUME IInv, StringLabelsAssumption, OutLocalLabel
  PROVE  IInv'
  <1>0. TypeOK /\ depth \in Nat /\ depth >= 2 /\ scopes \in [2..depth -> Nat]
    BY DEF IInv, TypeOK
  <1>1. CASE Throw("under_local") BY <1>1, ThrowStep DEF Errors
  <1>2. CASE Throw("not_found") BY <1>2, ThrowStep DEF Errors
  <1>3. CASE ~Throw("under_local") /\ ~Throw("not_found")
    <2>1. /\ depth > 2 /\ depth' = depth - 1 /\ err' = "none"
          /\ \A n \in DOMAIN undef : undef[n][1] # depth
          /\ defs' = Without(defs, {key \in DOMAIN defs : key[1] = depth})
          /\ scopes' = [d \in 2..(depth - 1) |-> scopes[d]]
          /\ UNCHANGED <<undef, size, refs, nscope, anon, place>>
      BY <1>0, <1>3 DEF OutLocalLabel
    <2>2. /\ \A k \in DOMAIN defs' : k \in DOMAIN defs /\ defs'[k] = defs[k]
          /\ \A k \in DOMAIN defs : k[1] # depth => k \in DOMAIN defs'
          /\ \A k \in DOMAIN defs' : k[1] # depth
      BY <2>1 DEF Without
    <2>3. LastAnon' = LastAnon
      <3>1. <<1, "@f">> \in DOMAIN defs <=> <<1, "@f">> \in DOMAIN defs'
        BY <1>0, <2>1, <2>2
      <3> QED BY <3>1, StringLabelsAssumption, LastAnonIs
    <2>4. Keys' \subseteq Keys /\ \A k \in Keys : k \in Keys' <=> k[1] # depth
      BY <1>0, <2>1 DEF Keys
    <2>5. ASSUME NEW k \in Keys' PROVE Stands(k)' = Stands(k)
      <3>1. k \in Keys /\ k[1] # depth BY <2>4
      <3>2. k[1] = 1 \/ k[1] \in 2..(depth - 1) BY <1>0, <3>1, KeyForm
      <3> QED BY <2>1, <2>3, <3>2 DEF Stands
    <2>6. TypeOK'
      <3>1. DOMAIN defs' \subseteq Keys' /\ \A k \in DOMAIN defs' : defs'[k] \in Nat
        BY <1>0, <2>2, <2>4 DEF TypeOK
      <3>2. \A n \in DOMAIN undef' : undef'[n] \in Keys'
        BY <1>0, <2>1, <2>4 DEF TypeOK
      <3>3. err' \in Errors /\ depth' \in Nat /\ depth' >= 2
            /\ scopes' \in [2..depth' -> Nat]
        BY <1>0, <2>1 DEF Errors
      <3> QED BY <1>0, <2>1, <3>1, <3>2, <3>3 DEF TypeOK
    <2>7. ScopesOK'
      <3>1. \A d \in 2..depth' : d \in 2..depth /\ scopes'[d] = scopes[d]
        BY <1>0, <2>1
      <3> QED BY <2>1, <3>1 DEF IInv, ScopesOK
    <2>8. DefsOK'
      <3>1. ASSUME NEW k \in Keys'
            PROVE  /\ k \in DOMAIN defs' <=> Stands(k)' \in DOMAIN place'
                   /\ k \in DOMAIN defs' => defs'[k] = place'[Stands(k)']
        <4>1. k \in Keys /\ k[1] # depth BY <2>4
        <4> QED BY <2>1, <2>2, <2>5, <4>1 DEF IInv, DefsOK
      <3> QED BY <3>1 DEF DefsOK
    <2>9. UndefOK'
      <3>1. ASSUME NEW n \in DOMAIN undef
            PROVE  refs[n].sym = Stands(undef[n])' /\ undef[n] # <<1, LastAnon>>
        <4>1. PICK k \in Keys : k = undef[n] BY <1>0 DEF TypeOK
        <4>2. k[1] = 1 \/ k[1] \in 2..(depth - 1)
          BY <1>0, <2>1, <4>1, KeyForm
        <4>3. Stands(undef[n])' = Stands(undef[n])
          BY <2>1, <2>3, <4>1, <4>2 DEF Stands
        <4> QED BY <4>3 DEF IInv, UndefOK
      <3> QED BY <2>1, <2>3, <3>1 DEF IInv, UndefOK
    <2>10. PlaceOK' /\ ResolvedOK' BY <2>1 DEF IInv, PlaceOK, ResolvedOK
    <2> QED BY <2>6, <2>7, <2>8, <2>9, <2>10 DEF IInv
  <1> QED BY <1>1, <1>2, <1>3

LEMMA InitIInv ==
  ASSUME StringLabelsAssumption,
         depth = 2, size = 0, err = "none",
         defs = [key \in {} |-> 0], undef = [n \in {} |-> 0],
         refs = [n \in {} |-> 0], scopes = [d \in {2} |-> 1],
         nscope = 1, anon = 0, place = [s \in {} |-> 0]
  PROVE  IInv
  <1>1. TypeOK
    <2>1. 2..depth = {2} OBVIOUS
    <2> QED BY <2>1 DEF TypeOK, Errors
  <1>2. ScopesOK /\ PlaceOK /\ UndefOK /\ ResolvedOK
    BY DEF ScopesOK, PlaceOK, UndefOK, ResolvedOK
  <1>3. DefsOK BY DEF DefsOK
  <1> QED BY <1>1, <1>2, <1>3 DEF IInv

LEMMA ResetStep ==
  ASSUME StringLabelsAssumption, Reset
  PROVE  IInv'
  <1>1. /\ depth' = 2 /\ size' = 0 /\ err' = "none"
        /\ defs' = [key \in {} |-> 0] /\ undef' = [n \in {} |-> 0]
        /\ refs' = [n \in {} |-> 0] /\ scopes' = [d \in {2} |-> 1]
        /\ nscope' = 1 /\ anon' = 0 /\ place' = [s \in {} |-> 0]
    BY DEF Reset
  <1>2. TypeOK'
    <2>1. 2..depth' = {2} BY <1>1
    <2> QED BY <1>1, <2>1 DEF TypeOK, Errors
  <1>3. ScopesOK' /\ PlaceOK' /\ UndefOK' /\ ResolvedOK'
    BY <1>1 DEF ScopesOK, PlaceOK, UndefOK, ResolvedOK
  <1>4. DefsOK' BY <1>1 DEF DefsOK
  <1> QED BY <1>2, <1>3, <1>4 DEF IInv

LEMMA StepIInv ==
  ASSUME IInv, StringLabelsAssumption, ~AnonTooFar, [Next]_vars
  PROVE  IInv'
  <1>1. ASSUME NEW name \in Names, L(name) PROVE IInv'
    <2>1. CASE name \in {"@b", "@f"} /\ Throw("bad_label")
      BY <2>1, ThrowStep DEF Errors
    <2>2. CASE /\ name = "@@" /\ DefineAnon /\ err' = "none"
               /\ anon' = anon + 1
               /\ place' = With(place, <<"anon", anon + 1, None>>, size)
      BY <2>2, DefineAnonymous
    <2>3. CASE Throw("redefined") BY <2>3, ThrowStep DEF Errors
    <2>4. CASE /\ name \in Globals \cup Locals /\ ~Defined(name)
               /\ DefineInner(defs, name)
               /\ place' = With(place, Scoped!Symbol(name), size)
               /\ UNCHANGED anon
      BY <2>4, DefineNamed
    <2> QED BY <1>1, <2>1, <2>2, <2>3, <2>4 DEF L
  <1>2. ASSUME UNCHANGED vars PROVE IInv'
    <2>1. Throw(err) BY <1>2 DEF Throw, vars, ghosts
    <2> QED BY <2>1, ThrowStep DEF IInv, TypeOK
  <1>3. ASSUME Ready PROVE IInv' BY <1>3, ThrowStep DEF Ready, Errors
  <1> QED BY <1>1, <1>2, <1>3, JmpStep, DbStep, EnterStep, LeaveStep, ResetStep
          DEF Next

-----------------------------------------------------------------------------
(* The theorems.                                                           *)

\* The tables of LabelManager agree with what the names of the client stand
\* for, for any names, scopes, order of calls and calls that throw.
THEOREM Invariance ==
  ASSUME ~AnonTooFar PROVE Spec => []IInv
  <1>1. Init => IInv BY StringLabelsAssumption, InitIInv DEF Init
  <1>2. IInv /\ [Next]_vars => IInv' BY StringLabelsAssumption, StepIInv
  <1> QED BY <1>1, <1>2, PTL DEF Spec

\* When nothing waits in any table every jump goes where its symbol was put.
THEOREM Complete ==
  ASSUME ~AnonTooFar PROVE Spec => []CompleteMeansResolved
  <1>1. IInv => CompleteMeansResolved
    BY DEF IInv, UndefOK, ResolvedOK, CompleteMeansResolved
  <1> QED BY <1>1, Invariance, PTL

\* "@f" and "@b" alternate (defineSlabel), and the defined one is the last "@@".
THEOREM Alternation ==
  ASSUME ~AnonTooFar PROVE Spec => []AnonAlternates
  <1>1. IInv => AnonAlternates
    <2> SUFFICES ASSUME IInv PROVE AnonAlternates OBVIOUS
    <2>1. LastAnon \in {"@b", "@f"} /\ Stands(<<1, LastAnon>>) = <<"anon", anon, None>>
      BY DEF LastAnon, Stands
    <2>2. <<1, LastAnon>> \in Keys BY <2>1 DEF Keys
    <2>3. anon > 0 => defs[<<1, LastAnon>>] = place[<<"anon", anon, None>>]
      BY <2>1, <2>2 DEF IInv, DefsOK, PlaceOK
    <2>4. \A n \in DOMAIN undef : undef[n] # <<1, LastAnon>>
      BY DEF IInv, UndefOK
    <2> QED BY <2>3, <2>4, StringLabelsAssumption, AnonDefined DEF AnonAlternates
  <1> QED BY <1>1, Invariance, PTL

\* String labels implement ScopedLabels: jumps go to, and calls throw, what
\* the symbols say.
THEOREM Refinement ==
  ASSUME ~AnonTooFar PROVE Spec => ImplementsScopedLabels
  <1>1. Init => Scoped!Init BY DEF Init, Scoped!Init
  <1>2. IInv /\ [Next]_vars => [Scoped!Next]_Scoped!vars
    BY StringLabelsAssumption, StepRefines
  <1> QED BY <1>1, <1>2, Invariance, PTL
          DEF Spec, ImplementsScopedLabels, Scoped!Spec
=============================================================================
