--------------------------- MODULE MCCpuTopology ---------------------------
(* Machines for TLC.                                                       *)
EXTENDS CpuTopology

CONSTANTS Cpus    \* how many CPUs the largest machine of sysfs has

\* A plain machine, whose operating system shows no topology.
Plain ==
  [vendor |-> "INTEL", bits |-> {}, saved |-> {}, maxNum |-> 11, maxExtended |-> 8,
   family |-> [base |-> 6, ext |-> 0], smt |-> 1, cores |-> 1, leafB |-> "exact",
   caches |-> <<>>, os |-> "other", throws |-> TRUE, client |-> FALSE, files |-> <<>>, online |-> {0},
   core |-> [c \in {0} |-> 0], kind |-> [c \in {0} |-> "P"], shared |-> [t \in {} |-> {}],
   lists |-> {}, getaffinity |-> TRUE, allowed |-> {0}, affinity |-> {0}]

\* Features: what the CPU shows and what the system saves.
AvxState == {"SSE", "AVX"}
Avx512State == AvxState \cup {"opmask", "ZMM_Hi256", "Hi16_ZMM"}
FeatureMachines ==
  {[Plain EXCEPT !.vendor = "AMD", !.bits = {"LM", "SSE"} \cup b \cup ten, !.saved = s, !.maxNum = 36] :
     b \in SUBSET {"OSXSAVE", "AVX", "AVX2", "AVX512F", "AVX512BW", "AVX512_FP16", "AVX512_BF16"},
     ten \in {{}, {"AVX10_V1_AUX"}, {"AVX10", "AVX10_V1_AUX"}},
     s \in {{"SSE"}, AvxState, Avx512State}}

\* Cores and caches: L1d and L1i in either order, L2 of one core, some or all,
\* L3 of all and a fourth level; with and without leaf 0Bh, since Zen and before.
Cache(type, threads) == [type |-> type, threads |-> threads]
Hierarchies(smt, cores) ==
  {l1 \o <<Cache("unified", smt * n), Cache("unified", smt * cores)>> \o l4 :
     l1 \in {<<Cache("data", smt), Cache("instruction", smt)>>,
             <<Cache("instruction", smt), Cache("data", smt)>>},
     n \in {k \in 1..cores : cores % k = 0},
     l4 \in {<<>>, <<Cache("unified", smt * cores)>>}}
OldHierarchy(cores) == <<Cache("data", 1), Cache("unified", 1), Cache("unified", cores)>>
Counting(vendor, family, extendeds, leaves, smts) ==
  UNION {{[Plain EXCEPT !.vendor = vendor, !.family = family, !.maxExtended = e, !.maxNum = leaf,
             !.smt = s, !.cores = n, !.leafB = b, !.caches = cs] :
            cs \in IF vendor = "AMD" /\ e < 29 THEN {OldHierarchy(n)} ELSE Hierarchies(s, n),
            b \in {"absent", "zero", "partial", "exact"}} :
         s \in smts, n \in {1, 2, 3, 4, 6}, e \in extendeds, leaf \in leaves}
CountMachines ==
  Counting("INTEL", [base |-> 6, ext |-> 0], {8}, {2, 4, 11}, {1, 2})
    \cup Counting("AMD", [base |-> 15, ext |-> 8], {30}, {13}, {1, 2})
    \cup Counting("AMD", [base |-> 15, ext |-> 1], {6, 8, 26}, {5}, {1})
    \cup Counting("other", [base |-> 6, ext |-> 0], {8}, {11}, {2})

\* Linux: which CPUs are online, how threads are numbered, which lists are
\* there and where the thread may run.
Numberings == {[c \in 0..(Cpus - 1) |-> c \div 2], [c \in 0..(Cpus - 1) |-> c % (Cpus \div 2)]}
Kinds(core) == [c \in 0..(Cpus - 1) |-> IF core[c] < Cpus \div 4 THEN "P" ELSE "E"]
Together(on, part) == [c \in on |-> {d \in on : part[d] = part[c]}]
SharedBy(core, part, on) ==
  [L1d |-> Together(on, core), L3 |-> Together(on, part), other |-> Together(on, part)]
LinuxMachines ==
  {[Plain EXCEPT !.os = "linux", !.throws = t, !.online = on, !.core = core, !.kind = Kinds(core),
      !.shared = SharedBy(core, [c \in on |-> 0], on),
      !.files = <<"L1d", "other", "L3">>, !.allowed = on, !.affinity = on] :
     t \in BOOLEAN, on \in {o \in SUBSET (0..(Cpus - 1)) : 0 \in o}, core \in Numberings}
ECores == {(Cpus \div 2)..(Cpus - 1), (Cpus \div 2)..(Cpus - 2), {Cpus \div 2, Cpus - 2, Cpus - 1}, {Cpus - 1}, {}}
HybridMachines ==
  {[Plain EXCEPT !.os = "linux", !.throws = asks[3], !.bits = {"HYBRID"}, !.online = {0} \cup p \cup e,
      !.core = core, !.kind = Kinds(core), !.lists = ls, !.getaffinity = asks[1],
      !.allowed = ({0} \cup p \cup e) \ asks[2], !.affinity = {0}] :
     p \in SUBSET (1..(Cpus \div 2 - 1)), e \in ECores, core \in {[c \in 0..(Cpus - 1) |-> c \div 2]},
     ls \in SUBSET {"P", "E"}, asks \in {<<TRUE, {}, TRUE>>, <<TRUE, {1}, FALSE>>, <<FALSE, {}, FALSE>>}}

\* Windows: processors of two groups, each numbered from 0; a cache of all of
\* them or of those of a group.
WindowsMachines ==
  {[Plain EXCEPT !.os = "windows", !.bits = bs, !.online = on, !.core = core, !.kind = Kinds(core),
      !.shared = SharedBy(core, part, on), !.files = <<"other", "L1d", "L3">>] :
     bs \in {{}, {"HYBRID"}},
     on \in {(0..a) \cup (GroupSize..b) : a \in 0..(GroupSize - 1), b \in (GroupSize - 1)..(Cpus - 1)},
     core \in Numberings, part \in {[c \in 0..(Cpus - 1) |-> 0], [c \in 0..(Cpus - 1) |-> Group(c)]}}

Everything ==
  FeatureMachines \cup CountMachines \cup LinuxMachines \cup HybridMachines
    \cup WindowsMachines \cup {[Plain EXCEPT !.client = TRUE]}
=============================================================================
