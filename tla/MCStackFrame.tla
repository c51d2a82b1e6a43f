---------------------------- MODULE MCStackFrame ----------------------------
(* Instances of StackFrame for TLC.                                        *)
EXTENDS StackFrame

Vec(kind, num, noVz) == [kind |-> kind, num |-> num, noVz |-> noVz]
MCVecUses == {Vec("none", 0, FALSE), Vec("SSE", 7, FALSE), Vec("AVX", 32, FALSE),
              Vec("AVX", 8, TRUE)}
=============================================================================
