---------------------------- MODULE MCCodeMemory ----------------------------
(* Instances of CodeMemory for TLC: two generators, each over any of three *)
(* allocators, mmap, heap, and heap with protection left to the client.    *)
EXTENDS CodeMemory, TLC

CONSTANTS g1, g2, u1, u2, m1, m2, m3, h1, h2, mmap, heap, custom

MCGens == {g1, g2}
MCAllocators == {mmap, heap, custom}
MCUserBuf == g1 :> u1 @@ g2 :> u2
MCBlocksOf == mmap :> {m1, m2, m3} @@ heap :> {h1, h2} @@ custom :> {h1, h2}
MCUseProtect == mmap :> TRUE @@ heap :> TRUE @@ custom :> FALSE
MCFails == mmap :> {"protect", "unprotect", "free"} @@ heap :> {"protect"}
             @@ custom :> {}
Symmetry == Permutations({m1, m2, m3}) \cup Permutations({h1, h2})
            \cup {g1 :> g2 @@ g2 :> g1 @@ u1 :> u2 @@ u2 :> u1}
=============================================================================
