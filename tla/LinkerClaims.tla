---------------------------- MODULE LinkerClaims ----------------------------
(* What the documentation of xbyak says of label references and the code    *)
(* does not do. Supported in module Linker leaves the case out.            *)
EXTENDS Linker

\* assignL makes its first label stand for the offset of its second, for every
\* reference (doc/usage.md:317). define_inner fills a pending absolute one
\* of a fixed buffer with the current position instead.
AssignedLabelIsItsSource ==
  done => \A o \in DOMAIN refs :
    refs[o].kind = "abs" /\ refs[o].disp = 0 /\ refs[o].imm = 0 => Correct(o)
=============================================================================
