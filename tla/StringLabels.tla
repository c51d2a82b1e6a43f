---------------------------- MODULE StringLabels ----------------------------
(***************************************************************************)
(* The string half of LabelManager: stateList_, a stack of tables of       *)
(* defined and of undefined labels (the first for global names, the last   *)
(* for names with a leading period), defineSlabel, getOffset with its      *)
(* renaming of "@f" and "@b", enterLocal and leaveLocal; and the calls     *)
(* that use them. The tables are flattened: a key is a level of the stack  *)
(* and a name. Code is abstracted to jumps, one unit each. Calls that      *)
(* throw before they change anything are left out, except those of         *)
(* LabelManager. What fields hold is the subject of module Linker.         *)
(***************************************************************************)
EXTENDS Integers

CONSTANTS
  Globals, Locals,  \* names without and with a leading period
  None,             \* no target
  Reach,            \* how far forward a short jump goes
  AnonTooFar,       \* does the client go on after an L("@@") that throws?
  MaxSize,          \* bound: code emitted
  MaxDepth,         \* bound: levels of stateList_
  MaxScope,         \* bound: scopes opened
  MaxAnon           \* bound: definitions of "@@"

ASSUME StringLabelsAssumption ==
  /\ Globals \cap Locals = {}
  /\ (Globals \cup Locals) \cap {"@@", "@b", "@f"} = {}
  /\ None \notin Int
  /\ Reach \in Nat /\ AnonTooFar \in BOOLEAN
  /\ MaxSize \in Nat /\ MaxDepth \in Nat /\ MaxScope \in Nat /\ MaxAnon \in Nat

VARIABLES
  depth,   \* stateList_.size()
  defs,    \* the defList of all levels: <<level, name>> -> offset
  undef,   \* the undefList of all levels: jump -> the <<level, name>> it is
           \* filed under
  size,    \* size_, in jumps
  refs,    \* refs[n]: the jump at n, its field is one byte (short), it goes
           \* to (to), and the symbol it was written for (sym, not in the code)
  err,     \* what the last call threw
  \* Not in the program, but in ScopedLabels:
  scopes, nscope, anon, place

ghosts == <<scopes, nscope, anon, place>>
vars == <<depth, defs, undef, size, refs, err, ghosts>>

Scoped == INSTANCE ScopedLabels

With(f, x, v) == [y \in DOMAIN f \cup {x} |-> IF y = x THEN v ELSE f[y]]
Without(f, S) == [x \in DOMAIN f \ S |-> f[x]]

\* stateList_.back() for local names, front() for the others.
Level(name) == IF name \in Locals THEN depth ELSE 1

Throw(e) ==
  /\ err' = e
  /\ UNCHANGED <<depth, defs, undef, size, refs, ghosts>>

-----------------------------------------------------------------------------
(* LabelManager.                                                           *)

\* Definitions marked "Bug:" are no part of the model (see module Linker).

\* define_inner, with D what defineSlabel leaves of the defined labels.
DefineInner(D, name) ==
  LET key  == <<Level(name), name>>
      wait == {n \in DOMAIN undef : undef[n] = key}
      bad  == {n \in wait : refs[n].short /\ size - (n + 1) > Reach}
  IN
  /\ defs' = With(D, key, size)
  /\ \E S \in SUBSET (wait \ bad) :
       /\ bad = {} => S = wait
       /\ undef' = Without(undef, S)
       /\ refs' = [n \in DOMAIN refs |->
                     IF n \in S THEN [refs[n] EXCEPT !.to = size] ELSE refs[n]]
  /\ err' = IF bad = {} THEN "none" ELSE "too_far"
  /\ UNCHANGED <<depth, size, scopes, nscope>>

Defined(name) == <<Level(name), name>> \in DOMAIN defs

\* Bug: the old definition of "@@" is not erased.
DefineAnonKeeps ==
  DefineInner(defs, IF Defined("@f") THEN "@b" ELSE "@f")

\* L("@@") erases the last one and takes the other of the two names.
DefineAnon ==
  IF Defined("@f") THEN DefineInner(Without(defs, {<<1, "@f">>}), "@b")
  ELSE DefineInner(Without(defs, {<<1, "@b">>}), "@f")

\* Bug: only a defined "@f" is taken for the last "@@".
RenamedForward(name) == IF name = "@b" /\ Defined("@f") THEN "@f" ELSE name

\* What getOffset makes of a name.
Renamed(name) ==
  IF name = "@b" /\ Defined("@f") THEN "@f"
  ELSE IF name = "@f" /\ Defined("@f") THEN "@b"
  ELSE name

-----------------------------------------------------------------------------
(* Calls.                                                                  *)

\* L(name): defineSlabel
L(name) ==
  \/ name \in {"@b", "@f"} /\ Throw("bad_label")
  \/ /\ name = "@@" /\ anon < MaxAnon
     /\ DefineAnon
     /\ err' = "none" \/ AnonTooFar
     /\ anon' = anon + 1
     /\ place' = With(place, <<"anon", anon + 1, None>>, size)
  \/ /\ name \in Globals \cup Locals
     /\ IF Defined(name) THEN Throw("redefined")
        ELSE /\ DefineInner(defs, name)
             /\ place' = With(place, Scoped!Symbol(name), size)
             /\ UNCHANGED anon

\* opJmp and putL_inner: getOffset, then the target or addUndefinedLabel.
Jmp(name, short) ==
  LET key == <<Level(name), Renamed(name)>>
      ref(to, s) == [sym |-> Scoped!Symbol(name), to |-> to, short |-> s]
  IN
  /\ size < MaxSize
  /\ IF name = "@b" /\ ~Defined("@f") /\ ~Defined("@b") THEN Throw("not_found")
     ELSE /\ IF key \in DOMAIN defs
             THEN /\ refs' = With(refs, size, ref(defs[key], FALSE))
                  /\ UNCHANGED undef
             ELSE /\ refs' = With(refs, size, ref(None, short))
                  /\ undef' = With(undef, size, key)
          /\ size' = size + 1 /\ err' = "none"
          /\ UNCHANGED <<depth, defs, ghosts>>

\* An instruction without a label.
Db ==
  /\ size < MaxSize
  /\ size' = size + 1 /\ err' = "none"
  /\ UNCHANGED <<depth, defs, undef, refs, ghosts>>

\* inLocalLabel: enterLocal
InLocalLabel ==
  /\ depth < MaxDepth /\ nscope < MaxScope
  /\ depth' = depth + 1 /\ err' = "none"
  /\ nscope' = nscope + 1
  /\ scopes' = With(scopes, depth + 1, nscope + 1)
  /\ UNCHANGED <<defs, undef, size, refs, anon, place>>

\* Bug: the references that wait are not looked at.
OutLocalLabelUnchecked ==
  IF depth <= 2 THEN Throw("under_local")
  ELSE /\ depth' = depth - 1 /\ err' = "none"
       /\ defs' = Without(defs, {key \in DOMAIN defs : key[1] = depth})
       /\ undef' = Without(undef, {n \in DOMAIN undef : undef[n][1] = depth})
       /\ scopes' = [d \in 2..(depth - 1) |-> scopes[d]]
       /\ UNCHANGED <<size, refs, nscope, anon, place>>

\* outLocalLabel: leaveLocal
OutLocalLabel ==
  IF depth <= 2 THEN Throw("under_local")
  ELSE IF \E n \in DOMAIN undef : undef[n][1] = depth THEN Throw("not_found")
  ELSE /\ depth' = depth - 1 /\ err' = "none"
       /\ defs' = Without(defs, {key \in DOMAIN defs : key[1] = depth})
       /\ scopes' = [d \in 2..(depth - 1) |-> scopes[d]]
       /\ UNCHANGED <<undef, size, refs, nscope, anon, place>>

\* ready, as far as string labels are concerned: hasUndefSlabel.
Ready == Throw(IF DOMAIN undef # {} THEN "not_found" ELSE "none")

Init ==
  /\ depth = 2 /\ size = 0 /\ err = "none"
  /\ defs = [key \in {} |-> 0]
  /\ undef = [n \in {} |-> 0]
  /\ refs = [n \in {} |-> 0]
  /\ scopes = [d \in {2} |-> 1] /\ nscope = 1
  /\ anon = 0 /\ place = [s \in {} |-> 0]

\* CodeGenerator::reset and LabelManager::reset
Reset ==
  /\ depth' = 2 /\ size' = 0 /\ err' = "none"
  /\ defs' = [key \in {} |-> 0]
  /\ undef' = [n \in {} |-> 0]
  /\ refs' = [n \in {} |-> 0]
  /\ scopes' = [d \in {2} |-> 1] /\ nscope' = 1
  /\ anon' = 0 /\ place' = [s \in {} |-> 0]

Names == Globals \cup Locals \cup {"@@", "@b", "@f"}

Next ==
  \/ \E name \in Names : L(name)
  \/ \E name \in Names, short \in BOOLEAN : Jmp(name, short)
  \/ Db \/ InLocalLabel \/ OutLocalLabel \/ Ready \/ Reset

Spec == Init /\ [][Next]_vars

-----------------------------------------------------------------------------
(* Properties.                                                             *)

Keys == ({1} \X (Globals \cup {"@@", "@b", "@f"})) \cup ((2..depth) \X Locals)
Symbols == {"global", "local", "anon"} \X Nat \X (Globals \cup Locals \cup {"@@", None})
Errors == {"none", "bad_label", "redefined", "too_far", "not_found", "under_local"}

\* The types of LabelManager::stateList_ and of the history; the jumps that
\* wait are those without a target.
TypeOK ==
  /\ depth \in Nat /\ depth >= 2 /\ size \in Nat /\ err \in Errors
  /\ DOMAIN defs \subseteq Keys /\ \A key \in DOMAIN defs : defs[key] \in Nat
  /\ DOMAIN undef \subseteq DOMAIN refs
  /\ \A n \in DOMAIN undef : undef[n] \in Keys
  /\ DOMAIN refs \subseteq 0..(size - 1)
  /\ \A n \in DOMAIN refs :
       refs[n] \in [sym : Symbols, to : Nat \cup {None}, short : BOOLEAN]
  /\ scopes \in [2..depth -> Nat] /\ nscope \in Nat /\ anon \in Nat
  /\ DOMAIN place \subseteq Symbols /\ \A s \in DOMAIN place : place[s] \in Nat

\* Whatever is done with names, scopes and "@@", and whatever call threw
\* before, no reference has been dropped or sent to a namesake: when nothing
\* waits in any table, every jump goes where its symbol was put
\* (define_inner, leaveLocal, hasUndefSlabel).
CompleteMeansResolved ==
  DOMAIN undef = {} =>
    \A n \in DOMAIN refs :
      refs[n].sym \in DOMAIN place /\ refs[n].to = place[refs[n].sym]

\* Two names are enough for any number of "@@": exactly one of "@f" and "@b"
\* is defined, it is the last "@@", and no jump to the next one is filed
\* under it (defineSlabel, getOffset).
LastAnon == IF Defined("@f") THEN "@f" ELSE "@b"
AnonAlternates ==
  /\ anon = 0 => ~Defined("@f") /\ ~Defined("@b")
  /\ anon > 0 =>
       /\ ~(Defined("@f") /\ Defined("@b"))
       /\ Defined(LastAnon)
       /\ defs[<<1, LastAnon>>] = place[<<"anon", anon, None>>]
       /\ \A n \in DOMAIN undef : undef[n] # <<1, LastAnon>>

\* Every call does to jumps and errors what it does in ScopedLabels.
ImplementsScopedLabels == Scoped!Spec

-----------------------------------------------------------------------------
(* The inductive invariant of module StringLabelsProofs.                   *)

\* The symbol that a key of the tables stands for at present.
Stands(key) ==
  IF key[1] # 1 THEN <<"local", scopes[key[1]], key[2]>>
  ELSE IF key[2] = LastAnon THEN <<"anon", anon, None>>
  ELSE IF key[2] \in {"@b", "@f"} THEN <<"anon", anon + 1, None>>
  ELSE <<"global", 0, key[2]>>

\* Open scopes are distinct.
ScopesOK ==
  /\ \A d \in 2..depth : scopes[d] <= nscope
  /\ \A d, e \in 2..depth : scopes[d] = scopes[e] => d = e

\* What has been put somewhere: names that can be, of scopes that exist.
PlaceOK ==
  /\ \A s \in DOMAIN place :
       \/ s[1] = "global" /\ s[2] = 0 /\ s[3] \in Globals
       \/ s[1] = "local" /\ s[2] <= nscope /\ s[3] \in Locals
       \/ s[1] = "anon" /\ 1 <= s[2] /\ s[2] <= anon /\ s[3] = None
  /\ anon > 0 => <<"anon", anon, None>> \in DOMAIN place

\* The tables of definitions agree with place.
DefsOK ==
  \A key \in Keys :
    /\ key \in DOMAIN defs <=> Stands(key) \in DOMAIN place
    /\ key \in DOMAIN defs => defs[key] = place[Stands(key)]

\* The tables of undefined labels agree with the jumps that have no target.
UndefOK ==
  /\ DOMAIN undef = {n \in DOMAIN refs : refs[n].to = None}
  /\ \A n \in DOMAIN undef :
       refs[n].sym = Stands(undef[n]) /\ undef[n] # <<1, LastAnon>>

ResolvedOK ==
  \A n \in DOMAIN refs :
    refs[n].to # None =>
      refs[n].sym \in DOMAIN place /\ refs[n].to = place[refs[n].sym]

IInv == TypeOK /\ ScopesOK /\ PlaceOK /\ DefsOK /\ UndefOK /\ ResolvedOK
=============================================================================
