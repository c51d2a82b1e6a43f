---------------------------- MODULE ScopedLabels ----------------------------
(***************************************************************************)
(* What string labels promise (doc/usage.md, "String literal", "Support    *)
(* @@, @f, @b like MASM", "Local label"), in terms of symbols: a global    *)
(* name is one symbol, a local name one per scope, and every L("@@") makes *)
(* a symbol of its own. A reference means the symbol its name stands for   *)
(* where it is written, and goes where that symbol is put, before or       *)
(* after. Module StringLabels implements this with two names, "@f" and     *)
(* "@b", and a stack of tables.                                            *)
(***************************************************************************)
EXTENDS Integers

CONSTANTS
  Globals, Locals,  \* names without and with a leading period
  None,             \* no target yet
  Reach             \* how far forward a short jump goes

VARIABLES
  depth,   \* open scopes are numbered 2 .. depth (1 is the global one)
  scopes,  \* scopes[d]: the identity of open scope d
  nscope,  \* scopes opened so far
  anon,    \* L("@@") so far
  place,   \* symbol -> offset
  size,    \* code emitted, in jumps
  refs,    \* refs[n]: the jump at n, [sym, to, short]
  err      \* what the last call threw

vars == <<depth, scopes, nscope, anon, place, size, refs, err>>

With(f, x, v) == [y \in DOMAIN f \cup {x} |-> IF y = x THEN v ELSE f[y]]

\* The symbol a name stands for. A reference to "@@" is one to a global name
\* that nobody can define.
Symbol(name) ==
  CASE name \in Locals -> <<"local", scopes[depth], name>>
    [] name = "@f"     -> <<"anon", anon + 1, None>>
    [] name = "@b"     -> <<"anon", anon, None>>
    [] OTHER           -> <<"global", 0, name>>

Throw(e) ==
  /\ err' = e
  /\ UNCHANGED <<depth, scopes, nscope, anon, place, size, refs>>

\* Symbol s is put here. The jumps that wait for it go here, except when one
\* is too short: then some of the others may still wait, for ever.
Put(s) ==
  LET wait == {n \in DOMAIN refs : refs[n].sym = s /\ refs[n].to = None}
      bad  == {n \in wait : refs[n].short /\ size - (n + 1) > Reach}
  IN
  /\ place' = With(place, s, size)
  /\ \E S \in SUBSET (wait \ bad) :
       /\ bad = {} => S = wait
       /\ refs' = [n \in DOMAIN refs |->
                     IF n \in S THEN [refs[n] EXCEPT !.to = size] ELSE refs[n]]
  /\ err' = IF bad = {} THEN "none" ELSE "too_far"
  /\ UNCHANGED <<depth, scopes, nscope, size>>

Define(name) ==
  \/ name \in {"@b", "@f"} /\ Throw("bad_label")
  \/ /\ name = "@@"
     /\ Put(<<"anon", anon + 1, None>>)
     /\ anon' = anon + 1
  \/ /\ name \in Globals \cup Locals
     /\ IF Symbol(name) \in DOMAIN place THEN Throw("redefined")
        ELSE Put(Symbol(name)) /\ UNCHANGED anon

Refer(name, short) ==
  LET s == Symbol(name) IN
  IF name = "@b" /\ anon = 0 THEN Throw("not_found")
  ELSE /\ refs' = With(refs, size,
                    IF s \in DOMAIN place
                    THEN [sym |-> s, to |-> place[s], short |-> FALSE]
                    ELSE [sym |-> s, to |-> None, short |-> short])
       /\ size' = size + 1
       /\ err' = "none"
       /\ UNCHANGED <<depth, scopes, nscope, anon, place>>

Pad ==
  /\ size' = size + 1 /\ err' = "none"
  /\ UNCHANGED <<depth, scopes, nscope, anon, place, refs>>

EnterLocal ==
  /\ depth' = depth + 1
  /\ nscope' = nscope + 1
  /\ scopes' = With(scopes, depth + 1, nscope + 1)
  /\ err' = "none"
  /\ UNCHANGED <<anon, place, size, refs>>

\* A scope cannot be left while a reference to one of its names waits.
LeaveLocal ==
  IF depth <= 2 THEN Throw("under_local")
  ELSE IF \E n \in DOMAIN refs, x \in Locals :
            refs[n].to = None /\ refs[n].sym = <<"local", scopes[depth], x>>
  THEN Throw("not_found")
  ELSE /\ depth' = depth - 1
       /\ scopes' = [d \in 2..(depth - 1) |-> scopes[d]]
       /\ err' = "none"
       /\ UNCHANGED <<nscope, anon, place, size, refs>>

\* The code is complete when every reference has its target.
Ready == Throw(IF \E n \in DOMAIN refs : refs[n].to = None
               THEN "not_found" ELSE "none")

Init ==
  /\ depth = 2 /\ scopes = [d \in {2} |-> 1] /\ nscope = 1
  /\ anon = 0 /\ size = 0 /\ err = "none"
  /\ place = [s \in {} |-> 0]
  /\ refs = [n \in {} |-> 0]

Reset ==
  /\ depth' = 2 /\ scopes' = [d \in {2} |-> 1] /\ nscope' = 1
  /\ anon' = 0 /\ size' = 0 /\ err' = "none"
  /\ place' = [s \in {} |-> 0]
  /\ refs' = [n \in {} |-> 0]

Names == Globals \cup Locals \cup {"@@", "@b", "@f"}

Next ==
  \/ \E name \in Names : Define(name)
  \/ \E name \in Names, short \in BOOLEAN : Refer(name, short)
  \/ Pad \/ EnterLocal \/ LeaveLocal \/ Ready \/ Reset

Spec == Init /\ [][Next]_vars
=============================================================================
