-------------------------------- MODULE Cpu --------------------------------
(***************************************************************************)
(* The constructor of class Cpu of xbyak_util.h: it reads cpuid leaf by    *)
(* leaf and deduces which features may be used, how many threads and cores *)
(* there are (setNumCores) and how many cores share each data cache        *)
(* (setCacheHierarchy). machine is the computer it runs on: the CPU, what  *)
(* its cpuid tables show of it (the operators of the first part), and what *)
(* the operating system saves on a context switch. A cpuid bit has the     *)
(* name of the feature that the code takes it for. The size of a cache is  *)
(* left out: of_ names the entry it is read from.                          *)
(***************************************************************************)
EXTENDS Integers, Sequences, FiniteSetsExt

CONSTANTS
  Machines,    \* the computers
  MaxCaches    \* maxNumberCacheLevels

\* A cache belongs to whole cores, those of the first level to one; AMD machines
\* without leaf 8000001Dh have cores of one thread and at most three levels, the
\* third shared by all.
ASSUME CpuAssumption ==
  /\ MaxCaches \in Nat /\ MaxCaches >= 3   \* legacy AMD fills three unchecked
  /\ \A c \in Machines :
       /\ c.vendor \in {"INTEL", "AMD", "other"}
       /\ c.cores \in 1..16 /\ c.smt \in {1, 2}
       /\ c.leafB \in {"absent", "zero", "partial", "exact"}
       /\ {c.maxNum, c.maxExtended, c.family.base, c.family.ext} \subseteq Nat
       /\ c.caches \in Seq([type : {"data", "instruction", "unified"},
                            threads : c.smt..(c.smt * c.cores)])
       /\ \A k \in DOMAIN c.caches :
            (\A j \in 1..(k - 1) : c.caches[j].type = "instruction") => c.caches[k].threads = c.smt
       /\ c.vendor = "AMD" /\ c.maxExtended < 29 =>
            /\ c.smt = 1 /\ Len(c.caches) <= 3
            /\ \A k \in DOMAIN c.caches :
                 /\ c.caches[k].type # "instruction"
                 /\ c.caches[k].threads = IF k = 3 THEN c.cores ELSE 1

VARIABLES
  machine,
  at,                      \* the part of the constructor that comes next
  type_,                   \* the features found
  numCores_,               \* of level 1 (threads of a core) and 2 (threads)
  coresSharingDataCache_,
  of_,                     \* dataCacheSize_, as the entry that gives it
  dataCacheLevels_,
  smtWidth,                \* smt_width of setCacheHierarchy
  subLeaf                  \* of its loop

counts == <<numCores_, smtWidth>>
cacheVars == <<coresSharingDataCache_, of_, dataCacheLevels_, subLeaf>>
cpuVars == <<machine, at, type_, counts, cacheVars>>

-----------------------------------------------------------------------------
(* What cpuid shows of the machine. Intel counts identifiers, of which     *)
(* there are a power of two; AMD counts threads.                           *)

Threads == machine.smt * machine.cores
PowerOfTwo(n) == CHOOSE p \in {1, 2, 4, 8, 16, 32} : n <= p /\ p < 2 * n
Shown(n) == IF machine.vendor = "INTEL" THEN PowerOfTwo(n) ELSE n

LogicalProcessors == Shown(Threads)                       \* leaf 1, EBX[23:16]
HyperThreading == Threads > 1                             \* leaf 1, EDX[28]
CoreIds == Shown(machine.cores)                           \* leaf 4, EAX[31:26] + 1
AmdThreads == Threads                                     \* 80000008h, ECX[7:0] + 1
ThreadsPerUnit == machine.smt                             \* 8000001Eh, EBX[15:8] + 1

\* Leaf 0Bh: threads of a core in subleaf 0, of the package in subleaf 1.
TopologyLevel(i) ==
  CASE machine.leafB = "zero"                 -> [level |-> 0, count |-> 0]
    [] machine.leafB = "partial" /\ i = 1     -> [level |-> 0, count |-> 0]
    [] OTHER -> [level |-> i + 1, count |-> IF i = 0 THEN machine.smt ELSE Threads]

\* Leaf 4 and 8000001Dh: a cache per subleaf, then one without a type.
NoCache == [type |-> "null", threads |-> 0]
CacheEntry(i) == IF i < Len(machine.caches) THEN machine.caches[i + 1] ELSE NoCache

\* Those for data, level by level.
InOrder(S) == [k \in 1..Cardinality(S) |-> CHOOSE x \in S : Cardinality({y \in S : y < x}) = k - 1]
DataPositions == {k \in DOMAIN machine.caches : machine.caches[k].type # "instruction"}
DataCaches ==
  [i \in 1..Cardinality(DataPositions) |-> machine.caches[InOrder(DataPositions)[i]]]

-----------------------------------------------------------------------------
(* Features.                                                               *)

Bits(fs) == fs \cap machine.bits
Saved(states) == states \subseteq machine.saved

Extended == {"LZCNT", "SSE4a", "PREFETCHW", "CMOV", "RDTSCP", "E3DN", "3DN"}
Basic == {"SSE3", "PCLMULQDQ", "SSSE3", "SSE41", "SSE42", "MOVBE", "POPCNT", "AESNI",
          "XSAVE", "OSXSAVE", "F16C", "RDRAND", "CMOV", "MMX", "SSE2"}
Avx512 == {"AVX512DQ", "AVX512_IFMA", "AVX512CD", "AVX512BW", "AVX512VL", "AVX512_VBMI",
           "AVX512_VBMI2", "AVX512_VNNI", "AVX512_BITALG", "AVX512_VPOPCNTDQ",
           "AVX512_VP2INTERSECT"}
Leaf7 == {"BMI1", "HLE", "BMI2", "ENHANCED_REP", "RTM", "MPX", "RDSEED", "ADX", "SMAP",
          "CLFLUSHOPT", "CLWB", "SHA", "WAITPKG", "GFNI", "VAES", "VPCLMULQDQ",
          "KEYLOCKER", "CLDEMOTE", "MOVDIRI", "MOVDIR64B", "UINTR", "SERIALIZE",
          "HYBRID", "TSXLDTRK", "AMX_BF16", "AMX_TILE", "AMX_INT8"}
Leaf7Sub1 == {"SHA512", "SM3", "SM4", "RAO_INT", "AVX_VNNI", "CMPCCXADD", "AMX_FP16",
              "AVX_IFMA", "MOVRS", "AVX_VNNI_INT8", "AVX_NE_CONVERT", "AMX_COMPLEX",
              "AVX_VNNI_INT16", "PREFETCHITI", "AVX10", "APX_F", "ACE"}
Leaf1E == {"AMX_FP8", "AMX_TF32", "AMX_AVX512", "AMX_MOVRS"}

DetectVendor ==
  /\ at = "vendor"
  /\ at' = "extended"
  /\ type_' = CASE machine.vendor = "AMD" ->
                     {"AMD"} \cup Bits({"3DN"})
                       \cup (IF Bits({"3DN", "LM"}) # {} THEN {"PREFETCHW"} ELSE {})
                [] machine.vendor = "INTEL" -> {"INTEL"}
                [] OTHER -> {}
  /\ UNCHANGED <<machine, counts, cacheVars>>

\* Leaf 80000001h and after; n of maxExtended stands for 8000000nh.
DetectExtended ==
  /\ at = "extended"
  /\ at' = "basic"
  /\ type_' = type_
       \cup (IF machine.maxExtended >= 1
             THEN Bits(Extended) \cup (IF Bits({"AMDMMX"}) # {} THEN {"MMX2"} ELSE {})
             ELSE {})
       \cup (IF machine.maxExtended >= 8 THEN Bits({"CLZERO"}) ELSE {})
  /\ UNCHANGED <<machine, counts, cacheVars>>

DetectBasic ==
  /\ at = "basic"
  /\ at' = "vector"
  /\ type_' = type_ \cup Bits(Basic)
                    \cup (IF Bits({"SSE"}) # {} THEN {"MMX2", "SSE"} ELSE {})
  /\ UNCHANGED <<machine, counts, cacheVars>>

\* Bug: the state of AVX is taken to include that of AVX-512.
VectorAny(found) ==
  IF "OSXSAVE" \notin found \/ ~Saved({"SSE", "AVX"}) THEN {}
  ELSE Bits({"FMA", "AVX", "AVX512F"} \cup Avx512)

\* What needs registers that the operating system has to save (XCR0).
Vector(found) ==
  IF "OSXSAVE" \notin found \/ ~Saved({"SSE", "AVX"}) THEN {}
  ELSE Bits({"FMA", "AVX"})
    \cup (IF ~Saved({"opmask", "ZMM_Hi256", "Hi16_ZMM"}) \/ Bits({"AVX512F"}) = {} THEN {}
          ELSE {"AVX512F"} \cup Bits(Avx512)
            \cup (IF Bits({"AVX512BW"}) # {} THEN Bits({"AVX512_FP16"}) ELSE {}))

DetectVector ==
  /\ at = "vector"
  /\ at' = "structured"
  /\ type_' = type_ \cup Vector(type_)
  /\ UNCHANGED <<machine, counts, cacheVars>>

\* Leaf 7 with its first subleaf, and leaf 1Eh. A machine lacks the bits of
\* a subleaf that it does not have.
DetectStructured ==
  /\ at = "structured"
  /\ at' = "late"
  /\ type_' = type_ \cup
       (IF machine.maxNum < 7 THEN {}
        ELSE Bits(Leaf7 \cup Leaf7Sub1)
          \cup (IF "AVX" \in type_ THEN Bits({"AVX2"}) ELSE {})
          \cup (IF "AVX512F" \in type_ THEN Bits({"AVX512_BF16"}) ELSE {})
          \cup (IF machine.maxNum >= 30 THEN Bits(Leaf1E) ELSE {}))
  /\ UNCHANGED <<machine, counts, cacheVars>>

\* Leaves 19h and 24h. The version numbers of 24h and 1Dh are left out.
DetectLate ==
  /\ at = "late"
  /\ at' = "cores"
  /\ LET keys == IF machine.maxNum >= 25 THEN Bits({"AESKLE", "WIDE_KL"}) ELSE {}
         lockers == (type_ \cup keys) \cap {"KEYLOCKER", "AESKLE", "WIDE_KL"}
     IN
     type_' = type_ \cup keys
       \cup (IF machine.maxNum >= 25 /\ lockers # {} THEN {"KEYLOCKER_WIDE"} ELSE {})
       \cup (IF "AVX10" \in type_ /\ machine.maxNum >= 36
             THEN Bits({"AVX10_V1_AUX", "AVX10_V2_AUX"}) ELSE {})
  /\ UNCHANGED <<machine, counts, cacheVars>>

-----------------------------------------------------------------------------
(* setNumCores. A division by zero ends the program.                       *)

SmtLevel == 1
CoreLevel == 2

\* setFamily; what it reads for information only is left out.
DisplayFamily ==
  IF machine.family.base = 15 THEN 15 + machine.family.ext ELSE machine.family.base

HasLeafB ==
  /\ machine.maxNum >= 11 /\ machine.leafB # "absent"
  /\ TopologyLevel(0) # [level |-> 0, count |-> 0]

\* Only the levels found are set; then the fallback for those that are zero.
FromLeafB ==
  LET of(level) == Max({0} \cup {TopologyLevel(i).count :
                                   i \in {j \in {0, 1} : TopologyLevel(j).level = level}})
      smt == Max({1, of(SmtLevel)})
  IN <<smt, Max({smt, of(CoreLevel)})>>

\* physicalThreadCount as it is shown, 0 without the leaf.
ShownCores ==
  CASE "AMD" \in type_ /\ machine.maxExtended >= 8 -> AmdThreads
    [] "AMD" \notin type_ /\ machine.maxNum >= 4 -> CoreIds
    [] OTHER -> 0

\* Bug: 80000008h is taken to count cores.
CoresAsShown == ShownCores

\* Since family 17h AMD shows threads where it used to show cores.
Cores ==
  IF "AMD" \in type_ /\ DisplayFamily >= 23 /\ machine.maxExtended >= 30
  THEN ShownCores \div ThreadsPerUnit
  ELSE ShownCores

\* The legacy methods; AMD and Intel differ in what they assume at last.
FromLeaf1 ==
  LET atLeast == IF "AMD" \in type_ THEN 2 ELSE 1 IN
  CASE ~HyperThreading -> <<1, 1>>
    [] HyperThreading /\ ShownCores > 1 -> <<LogicalProcessors \div Cores, LogicalProcessors>>
    [] OTHER -> <<1, Max({LogicalProcessors, atLeast})>>

KnownVendor == type_ \cap {"INTEL", "AMD"} # {}

SetNumCores ==
  /\ at = "cores"
  /\ at' = "caches"
  /\ numCores_' = CASE ~KnownVendor -> numCores_
                    [] KnownVendor /\ HasLeafB -> FromLeafB
                    [] OTHER -> FromLeaf1
  /\ smtWidth' = numCores_'[SmtLevel]
  /\ UNCHANGED <<machine, type_, cacheVars>>

-----------------------------------------------------------------------------
(* setCacheHierarchy, one subleaf per step.                                *)

HasCacheLeaf == "INTEL" \in type_ \/ ("AMD" \in type_ /\ machine.maxExtended >= 29)

\* The cores that share the cache, in the loops for AMD and Intel.
AmdSharing(entry) ==
  IF subLeaf = 0 THEN entry.threads
  ELSE Min({entry.threads, numCores_[CoreLevel]})
         \div Max({1, coresSharingDataCache_[0]})

IntelThreads(entry) ==
  IF numCores_[CoreLevel] = 0 THEN Shown(entry.threads)
  ELSE Min({Shown(entry.threads), numCores_[CoreLevel]})

IntelWidth(entry) ==
  IF entry.type = "data" /\ smtWidth = 0 THEN IntelThreads(entry) ELSE smtWidth

IntelSharing(entry) == Max({IntelThreads(entry) \div IntelWidth(entry), 1})

Record(entry, cores) ==
  /\ of_' = [of_ EXCEPT ![dataCacheLevels_] = entry]
  /\ coresSharingDataCache_' = [coresSharingDataCache_ EXCEPT ![dataCacheLevels_] = cores]
  /\ dataCacheLevels_' = dataCacheLevels_ + 1

\* AMD passes over instruction caches, Intel over all but data and unified ones.
Counted(entry) ==
  IF "AMD" \in type_ THEN entry.type \notin {"null", "instruction"}
  ELSE entry.type \in {"data", "unified"}

\* Bug: entries that do not count are read again.
NextCounted(entry) == IF Counted(entry) THEN subLeaf + 1 ELSE subLeaf

NextSubLeaf(entry) == subLeaf + 1

ReadCache ==
  LET entry == CacheEntry(subLeaf) IN
  /\ at = "caches" /\ HasCacheLeaf
  /\ dataCacheLevels_ < MaxCaches /\ entry.type # "null"
  /\ subLeaf' = NextSubLeaf(entry)
  /\ \/ /\ ~Counted(entry)
        /\ UNCHANGED <<at, coresSharingDataCache_, of_, dataCacheLevels_, smtWidth>>
     \/ /\ Counted(entry) /\ "AMD" \in type_
        /\ Record(entry, AmdSharing(entry))
        /\ UNCHANGED <<at, smtWidth>>
     \/ /\ Counted(entry) /\ "INTEL" \in type_
        /\ smtWidth' = IntelWidth(entry)
        /\ Record(entry, IntelSharing(entry))
        /\ UNCHANGED at
  /\ UNCHANGED <<machine, type_, numCores_>>

\* The first data cache belongs to one core.
EndCaches ==
  /\ at = "caches" /\ HasCacheLeaf
  /\ dataCacheLevels_ = MaxCaches \/ CacheEntry(subLeaf).type = "null"
  /\ at' = "ready"
  /\ coresSharingDataCache_' =
       IF "AMD" \in type_
       THEN [coresSharingDataCache_ EXCEPT ![0] = Min({1, @})]
       ELSE coresSharingDataCache_
  /\ UNCHANGED <<machine, type_, numCores_, of_, dataCacheLevels_, smtWidth, subLeaf>>

\* Leaves 80000005h and 80000006h show L1d, L2 and L3; other vendors nothing.
LegacyCaches ==
  LET n == Min({Len(DataCaches), 3}) IN
  /\ at = "caches" /\ ~HasCacheLeaf
  /\ at' = "ready"
  /\ IF "AMD" \in type_ /\ machine.maxExtended >= 6
     THEN /\ dataCacheLevels_' = n
          /\ of_' = [i \in DOMAIN of_ |-> IF i < n THEN DataCaches[i + 1] ELSE of_[i]]
          /\ coresSharingDataCache_' =
               [i \in DOMAIN of_ |-> CASE i = 2 /\ n = 3 -> numCores_[CoreLevel]
                                       [] i < n /\ i < 2 -> 1
                                       [] OTHER -> 0]
     ELSE UNCHANGED <<dataCacheLevels_, of_, coresSharingDataCache_>>
  /\ UNCHANGED <<machine, type_, numCores_, smtWidth, subLeaf>>

-----------------------------------------------------------------------------
CpuInit ==
  /\ machine \in Machines
  /\ at = "vendor"
  /\ type_ = {}
  /\ numCores_ = <<0, 0>>
  /\ coresSharingDataCache_ = [i \in 0..(MaxCaches - 1) |-> 0]
  /\ of_ = [i \in 0..(MaxCaches - 1) |-> NoCache]
  /\ dataCacheLevels_ = 0
  /\ smtWidth = 0
  /\ subLeaf = 0

CpuNext ==
  \/ DetectVendor \/ DetectExtended \/ DetectBasic \/ DetectVector
  \/ DetectStructured \/ DetectLate \/ SetNumCores
  \/ ReadCache \/ EndCaches \/ LegacyCaches

-----------------------------------------------------------------------------
(* Properties.                                                             *)

\* AVX, FMA, AVX2 and the parts of AVX-512, which the constructor reads at
\* three places, are reported only if the operating system saves their
\* registers, and with the features that they build on; so are the parts of
\* AVX10, except for the registers. Others that need saved registers are
\* reported whatever is saved, as the code does, and are left out: F16C, VAES,
\* VPCLMULQDQ, GFNI, AVX_VNNI, AVX_IFMA, AVX10, AMX, APX and more.
Avx512Family == {"AVX512F", "AVX512_FP16", "AVX512_BF16"} \cup Avx512
FeaturesUsable ==
  /\ type_ \cap {"AVX", "FMA", "AVX2"} # {} => Saved({"SSE", "AVX"})
  /\ type_ \cap Avx512Family # {} =>
       Saved({"SSE", "AVX", "opmask", "ZMM_Hi256", "Hi16_ZMM"}) /\ "AVX512F" \in type_
  /\ "AVX2" \in type_ => "AVX" \in type_
  /\ "AVX512_FP16" \in type_ => "AVX512BW" \in type_
  /\ type_ \cap {"AVX10_V1_AUX", "AVX10_V2_AUX"} # {} => "AVX10" \in type_

GetNumCores(level) ==
  IF level = SmtLevel THEN numCores_[SmtLevel]
  ELSE numCores_[CoreLevel] \div numCores_[SmtLevel]

\* The tables that say enough: leaf 0Bh, or 80000008h and, for threads,
\* 8000001Eh. Leaves 1 and 4 of Intel show identifiers, and nothing of the
\* threads of a single core: the numbers deduced are those of the machine, or
\* lie between them and what is shown. For a cache of all cores the exact number
\* of threads corrects what leaf 4 shows.
Exact ==
  IF HasLeafB THEN machine.leafB = "exact"
  ELSE "AMD" \in type_ /\ machine.maxExtended >= 8
         /\ (machine.smt = 1 \/ (DisplayFamily >= 23 /\ machine.maxExtended >= 30))
Bounded == ~HasLeafB /\ "INTEL" \in type_ /\ machine.maxNum >= 4 /\ machine.cores > 1
Between(n, low, high) == low <= n /\ n <= high

\* For every machine of a known vendor, whatever its tables show: the data
\* caches come in their order and no count is zero. Where the tables say
\* enough, and only there, what setNumCores and setCacheHierarchy deduce is so:
\* threads of a core, cores, and the cores that share each data cache.
CountsAreTheMachines ==
  at = "ready" /\ KnownVendor =>
    /\ 1 <= numCores_[SmtLevel] /\ numCores_[SmtLevel] <= numCores_[CoreLevel]
    /\ \A i \in 0..(dataCacheLevels_ - 1) :
         of_[i] = DataCaches[i + 1] /\ coresSharingDataCache_[i] >= 1
    /\ Exact \/ Bounded =>
         /\ GetNumCores(SmtLevel) = machine.smt
         /\ Between(GetNumCores(CoreLevel), machine.cores, IF Exact THEN machine.cores ELSE CoreIds)
         /\ \A i \in 0..(dataCacheLevels_ - 1) :
              LET cores(n) == Max({1, n \div machine.smt})
                  threads == of_[i].threads
              IN Between(coresSharingDataCache_[i], cores(threads),
                         IF Exact /\ threads = Threads THEN machine.cores ELSE cores(Shown(threads)))
=============================================================================
