------------------------------ MODULE IndexSet ------------------------------
(***************************************************************************)
(* What a CpuMask is to its client: a set of CPU indices to which larger   *)
(* ones can be added, one by one or as an interval, unless the mask        *)
(* refuses. The variant of class CpuMask that keeps a std::set is this     *)
(* specification; module CpuMask shows that the compact variant is, too.   *)
(***************************************************************************)
EXTENDS Integers

CONSTANT Mask   \* the largest index

VARIABLES
  set,  \* the indices
  ok    \* did the last call succeed?

vars == <<set, ok>>

Init == set = {} /\ ok = TRUE

Clear == set' = {} /\ ok' = TRUE

Add(v, w) ==
  /\ v <= w /\ w <= Mask
  /\ \A x \in set : x < v
  /\ set' = set \cup (v..w)
  /\ ok' = TRUE

Refuse == ok' = FALSE /\ UNCHANGED set

Next == Clear \/ Refuse \/ \E v, w \in 0..Mask : Add(v, w)

Spec == Init /\ [][Next]_vars
=============================================================================
