----------------------------- MODULE CpuProofs -----------------------------
(***************************************************************************)
(* Proofs about Cpu and CpuTopology, for every machine: features that are  *)
(* reported may be used; the thread that asks stays where it was; masks    *)
(* are sets of indices; the table of CPUs is that of the machine (caches,  *)
(* types, cores), and so are the counts that cpuid gives.                  *)
(***************************************************************************)
EXTENDS CpuTopology, CpuMaskProofs

\* What may be reported only with registers that the system saves.
Wide == {"AVX", "FMA", "AVX2"} \cup Avx512Family
Auxiliary == {"AVX10_V1_AUX", "AVX10_V2_AUX"}

BeforeVector == {"vendor", "extended", "basic", "vector"}
BeforeLate == BeforeVector \cup {"structured", "late"}

\* The parts of the constructor find features in an order that matters: none of
\* those is there before its part has run.
InOrderFound ==
  /\ at \in BeforeVector => type_ \cap Wide = {}
  /\ at \in BeforeLate => type_ \cap Auxiliary = {}

IInv == FeaturesUsable /\ InOrderFound

\* Features that need none of this may be added at any time.
LEMMA PlainFeatures ==
  ASSUME IInv, NEW new, new \cap Wide = {}, new \cap Auxiliary = {},
         type_ \subseteq type_', type_' \subseteq type_ \cup new, machine' = machine,
         at' \in BeforeVector => at \in BeforeVector,
         at' \in BeforeLate => at \in BeforeLate
  PROVE  IInv'
<1>1. type_' \cap Wide = type_ \cap Wide /\ type_' \cap Auxiliary = type_ \cap Auxiliary
  OBVIOUS
<1>2. type_ \subseteq type_'
  OBVIOUS
<1>3. /\ {"AVX", "FMA", "AVX2"} \subseteq Wide /\ Avx512Family \subseteq Wide
      /\ "AVX2" \in Wide /\ "AVX512_FP16" \in Wide
  BY DEF Wide, Avx512Family
<1>4. FeaturesUsable'
  <2>1. type_' \cap {"AVX", "FMA", "AVX2"} = type_ \cap {"AVX", "FMA", "AVX2"}
    BY <1>1, <1>3
  <2>2. type_' \cap Avx512Family = type_ \cap Avx512Family
    BY <1>1, <1>3
  <2>3. \A S : Saved(S)' <=> Saved(S)
    BY DEF Saved
  <2>4. ("AVX2" \in type_' => "AVX2" \in type_) /\ ("AVX512_FP16" \in type_' => "AVX512_FP16" \in type_)
    BY <1>1, <1>3
  <2>5. QED BY <1>1, <1>2, <2>1, <2>2, <2>4 DEF IInv, FeaturesUsable, Saved, Auxiliary
<1>5. InOrderFound'
  BY <1>1 DEF IInv, InOrderFound
<1>6. QED BY <1>4, <1>5 DEF IInv

LEMMA CpuNextInv ==
  ASSUME IInv, CpuNext
  PROVE  IInv'
<1> USE DEF BeforeVector, BeforeLate
<1>1. CASE DetectVendor
  <2> DEFINE new == {"AMD", "3DN", "PREFETCHW", "INTEL"}
  <2>1. type_' \subseteq new /\ at' = "extended" /\ machine' = machine
    BY <1>1 DEF DetectVendor, Bits
  <2>2. new \cap Wide = {} /\ new \cap Auxiliary = {}
    BY DEF Wide, Avx512Family, Avx512, Auxiliary
  <2>3. type_' \cap Wide = {} /\ type_' \cap Auxiliary = {}
    BY <2>1, <2>2
  <2>4. QED BY <2>1, <2>3 DEF IInv, FeaturesUsable, InOrderFound, Wide, Avx512Family, Auxiliary
<1>2. CASE DetectExtended
  <2> DEFINE new == Extended \cup {"MMX2", "CLZERO"}
  <2>1. type_ \subseteq type_' /\ type_' \subseteq type_ \cup new
    BY <1>2 DEF DetectExtended, Bits
  <2>2. new \cap Wide = {} /\ new \cap Auxiliary = {}
    BY DEF Extended, Wide, Avx512Family, Avx512, Auxiliary
  <2>3. QED BY <1>2, <2>1, <2>2, PlainFeatures DEF DetectExtended
<1>3. CASE DetectBasic
  <2> DEFINE new == Basic \cup {"MMX2", "SSE"}
  <2>1. type_ \subseteq type_' /\ type_' \subseteq type_ \cup new
    BY <1>3 DEF DetectBasic, Bits
  <2>2. new \cap Wide = {} /\ new \cap Auxiliary = {}
    BY DEF Basic, Wide, Avx512Family, Avx512, Auxiliary
  <2>3. QED BY <1>3, <2>1, <2>2, PlainFeatures DEF DetectBasic
<1>4. CASE DetectVector
  <2>1. at = "vector" /\ at' = "structured" /\ type_' = type_ \cup Vector(type_) /\ machine' = machine
    BY <1>4 DEF DetectVector
  <2>2. type_ \cap Wide = {} /\ type_ \cap Auxiliary = {}
    BY <2>1 DEF IInv, InOrderFound
  <2>3. Vector(type_) \cap Auxiliary = {} /\ "AVX2" \notin Vector(type_)
    BY DEF Vector, Bits, Avx512, Auxiliary
  <2>4. Vector(type_) # {} => Saved({"SSE", "AVX"})
    BY DEF Vector
  <2>5. Vector(type_) \cap Avx512Family # {} =>
          Saved({"opmask", "ZMM_Hi256", "Hi16_ZMM"}) /\ "AVX512F" \in Vector(type_)
    BY DEF Vector, Bits, Avx512Family, Avx512
  <2>6. "AVX512_FP16" \in Vector(type_) => "AVX512BW" \in Vector(type_)
    BY DEF Vector, Bits, Avx512
  <2>7. \A x \in type_' \cap Wide : x \in Vector(type_)
    BY <2>1, <2>2
  <2>8. QED BY <2>1, <2>2, <2>3, <2>4, <2>5, <2>6, <2>7
            DEF IInv, FeaturesUsable, InOrderFound, Saved, Wide, Avx512Family, Auxiliary
<1>5. CASE DetectStructured
  <2> DEFINE plain == Leaf7 \cup Leaf7Sub1 \cup Leaf1E
             more == (IF "AVX" \in type_ THEN {"AVX2"} ELSE {})
                       \cup (IF "AVX512F" \in type_ THEN {"AVX512_BF16"} ELSE {})
  <2>1. type_ \subseteq type_' /\ type_' \subseteq type_ \cup plain \cup more
    BY <1>5 DEF DetectStructured, Bits
  <2>2. plain \cap Wide = {} /\ plain \cap Auxiliary = {}
    BY DEF Leaf7, Leaf7Sub1, Leaf1E, Wide, Avx512Family, Avx512, Auxiliary
  <2>3. at' = "late" /\ at = "structured" /\ machine' = machine
    BY <1>5 DEF DetectStructured
  <2>4. type_' \cap Auxiliary = {}
    BY <2>1, <2>2, <2>3 DEF IInv, InOrderFound, Auxiliary
  <2>5. \A x \in type_' \cap Wide : x \in type_ \/ x \in more
    BY <2>1, <2>2
  <2>6. /\ "AVX2" \in type_' => "AVX" \in type_
        /\ "AVX512_BF16" \in type_' => "AVX512F" \in type_
        /\ \A x \in type_' \cap (Wide \ {"AVX2", "AVX512_BF16"}) : x \in type_
        /\ type_ \subseteq type_'
    BY <2>1, <2>5 DEF IInv, FeaturesUsable, Wide, Avx512Family
  <2> HIDE DEF plain, more
  <2>7. type_' \cap {"AVX", "FMA", "AVX2"} # {} => Saved({"SSE", "AVX"})'
    BY <2>3, <2>6 DEF IInv, FeaturesUsable, Saved, Wide
  <2>8. ASSUME type_' \cap Avx512Family # {}
        PROVE  Saved({"SSE", "AVX", "opmask", "ZMM_Hi256", "Hi16_ZMM"})' /\ "AVX512F" \in type_'
    <3>1. "AVX512F" \in type_
      <4>1. PICK x \in type_' : x \in Avx512Family
        BY <2>8
      <4>2. x = "AVX512_BF16" \/ x \in type_
        BY <2>6, <4>1 DEF Wide, Avx512Family, Avx512
      <4>3. QED BY <2>6, <4>1, <4>2 DEF IInv, FeaturesUsable
    <3>2. "AVX512F" \in Avx512Family
      BY DEF Avx512Family
    <3>3. QED BY <2>3, <2>6, <3>1, <3>2 DEF IInv, FeaturesUsable, Saved
  <2>9. "AVX512_FP16" \in type_' => "AVX512BW" \in type_'
    BY <2>6 DEF IInv, FeaturesUsable, Wide, Avx512Family
  <2>10. QED BY <2>3, <2>4, <2>6, <2>7, <2>8, <2>9
             DEF IInv, FeaturesUsable, InOrderFound, Auxiliary
<1>6. CASE DetectLate
  <2> DEFINE keys == {"AESKLE", "WIDE_KL", "KEYLOCKER_WIDE"}
  <2>1. /\ type_ \subseteq type_' /\ type_' \subseteq type_ \cup keys \cup Auxiliary
        /\ "AVX10" \notin type_ => type_' \subseteq type_ \cup keys
    BY <1>6 DEF DetectLate, Bits, Auxiliary
  <2>2. at' = "cores" /\ at = "late" /\ machine' = machine
    BY <1>6 DEF DetectLate
  <2>3. (keys \cup Auxiliary) \cap Wide = {} /\ keys \cap Auxiliary = {}
    BY DEF Wide, Avx512Family, Avx512, Auxiliary
  <2>4. type_' \cap Wide = type_ \cap Wide /\ type_ \subseteq type_'
    BY <2>1, <2>3
  <2>5. type_ \cap Auxiliary = {}
    BY <2>2 DEF IInv, InOrderFound
  <2>6. type_' \cap Auxiliary # {} => "AVX10" \in type_
    BY <2>1, <2>3, <2>5
  <2> HIDE DEF keys
  <2>7. QED BY <2>2, <2>4, <2>6
            DEF IInv, FeaturesUsable, InOrderFound, Saved, Wide, Avx512Family, Auxiliary
<1>7. ASSUME at \notin BeforeLate, at' \notin BeforeLate, UNCHANGED <<machine, type_>> PROVE IInv'
  BY <1>7 DEF IInv, FeaturesUsable, InOrderFound, Saved
<1>8. CASE SetNumCores
  BY <1>7, <1>8 DEF SetNumCores
<1>9. CASE ReadCache
  BY <1>7, <1>9 DEF ReadCache
<1>10. CASE EndCaches
  BY <1>7, <1>10 DEF EndCaches
<1>11. CASE LegacyCaches
  BY <1>7, <1>11 DEF LegacyCaches
<1>12. QED
  BY <1>1, <1>2, <1>3, <1>4, <1>5, <1>6, <1>8, <1>9, <1>10, <1>11 DEF CpuNext

\* The topology and the masks leave the Cpu alone.
LEMMA TopologyKeepsCpu ==
  ASSUME Topology \/ Client \/ UNCHANGED vars
  PROVE  UNCHANGED cpuVars
BY DEF Topology, Client, vars, Begin, ReadCoreId, OpenShared, ReadItem, EndShared, NextCpu,
       OpenTypes, EndTypes, Pin, Unpin, End, QueryFails, ReadCore, EndCores, OpenEntry,
       EndEntry, NextType, EndEntries

LEMMA InitInv == Init => IInv
BY DEF Init, CpuInit, IInv, FeaturesUsable, InOrderFound

LEMMA NextInv == IInv /\ [Next]_vars => IInv'
<1> SUFFICES ASSUME IInv, [Next]_vars PROVE IInv'
  OBVIOUS
<1>1. CASE Detect
  BY <1>1, CpuNextInv DEF Detect
<1>2. CASE Topology \/ Client \/ UNCHANGED vars
  BY <1>2, TopologyKeepsCpu DEF cpuVars, IInv, FeaturesUsable, InOrderFound, Saved
<1>3. QED BY <1>1, <1>2 DEF Next

\* For every machine, whatever its cpuid tables claim: AVX, FMA, AVX2 and the
\* parts of AVX-512 are not reported unless the operating system saves their
\* registers, and neither they nor the parts of AVX10 without the features that
\* they build on (Cpu::Cpu). FeaturesUsable says which features are left out.
THEOREM Usable == Spec => []FeaturesUsable
<1>1. Init => IInv
  BY InitInv
<1>2. IInv /\ [Next]_vars => IInv'
  BY NextInv
<1>3. IInv => FeaturesUsable
  BY DEF IInv
<1>4. QED BY <1>1, <1>2, <1>3, PTL DEF Spec

-----------------------------------------------------------------------------
(* The thread that asks the CPUs.                                          *)

\* No list is read while the thread is moved, so that no list that is refused
\* ends the constructor there.
Moved == AffinityRestored /\ (reading => stage # "pin")

LEMMA MovedNext == Moved /\ [Next]_vars => Moved'
<1> SUFFICES ASSUME Moved, [Next]_vars PROVE Moved'
  OBVIOUS
<1> USE DEF Moved, AffinityRestored
<1>1. ASSUME UNCHANGED machine, affinity' = affinity, stage # "pin", reading' => stage' # "pin"
      PROVE  Moved'
  BY <1>1
<1>2. ASSUME UNCHANGED <<machine, stage, reading, affinity>> PROVE Moved'
  BY <1>2
<1>3. CASE Detect
  <2>1. UNCHANGED machine
    BY <1>3 DEF Detect, CpuNext, DetectVendor, DetectExtended, DetectBasic, DetectVector,
                DetectStructured, DetectLate, SetNumCores, ReadCache, EndCaches, LegacyCaches
  <2>2. QED BY <1>2, <1>3, <2>1 DEF Detect, topoVars
<1>4. CASE Client \/ UNCHANGED vars
  BY <1>2, <1>4 DEF Client, vars, cpuVars, topoVars
<1>5. CASE Topology
  <2> USE DEF cpuVars, list, Fail
  <2>1. CASE Begin
    BY <1>1, <2>1 DEF Begin
  <2>2. CASE ReadCoreId \/ OpenShared \/ EndShared \/ NextCpu
    BY <1>1, <2>2 DEF ReadCoreId, OpenShared, EndShared, NextCpu
  <2>3. CASE ReadItem
    BY <2>3 DEF ReadItem
  <2>4. CASE OpenTypes
    BY <1>1, <2>4 DEF OpenTypes
  <2>5. CASE EndTypes
    BY <1>1, <2>5 DEF EndTypes
  <2>6. CASE Pin \/ Unpin
    BY <2>6 DEF Pin, Unpin
  <2>7. CASE End \/ QueryFails \/ ReadCore \/ EndCores
    BY <1>1, <2>7 DEF End, QueryFails, ReadCore, EndCores
  <2>8. CASE OpenEntry \/ EndEntry \/ NextType \/ EndEntries
    BY <1>1, <2>8 DEF OpenEntry, EndEntry, NextType, EndEntries, MoreEntries
  <2>9. QED
    BY <1>5, <2>1, <2>2, <2>3, <2>4, <2>5, <2>6, <2>7, <2>8 DEF Topology
<1>6. QED BY <1>3, <1>4, <1>5 DEF Next

\* The constructor of CpuTopology leaves the affinity of its thread as it was,
\* whichever lists are missing or refused (CpuTopology::initCpuTopology).
THEOREM AffinityIsRestored == Spec => []AffinityRestored
<1>1. Init => Moved
  BY DEF Init, Moved, AffinityRestored
<1>2. Moved /\ [Next]_vars => Moved'
  BY MovedNext
<1>3. Moved => AffinityRestored
  BY DEF Moved
<1>4. QED BY <1>1, <1>2, <1>3, PTL DEF Spec

-----------------------------------------------------------------------------
(* Sets in order, and the lists of the kernel.                             *)

\* How many elements come before one.
Rank(S, x) == Cardinality({y \in S : y < x})

LEMMA RankFacts ==
  ASSUME NEW S, S \subseteq Nat, IsFiniteSet(S)
  PROVE  /\ Cardinality(S) \in Nat
         /\ \A x \in S : Rank(S, x) \in 0..(Cardinality(S) - 1)
         /\ \A x, y \in S : x < y => Rank(S, x) < Rank(S, y)
<1>1. Cardinality(S) \in Nat
  BY FS_CardinalityType
<1>2. ASSUME NEW x \in S
      PROVE  IsFiniteSet({y \in S : y < x}) /\ Rank(S, x) \in Nat /\ Rank(S, x) < Cardinality(S)
  <2>1. PICK T : T = {y \in S : y < x}
    OBVIOUS
  <2>2. T \in SUBSET S /\ x \notin T
    BY <2>1
  <2>3. IsFiniteSet(T) /\ Cardinality(T) <= Cardinality(S) /\ (Cardinality(S) = Cardinality(T) => S = T)
    BY <2>2, FS_Subset
  <2>4. Cardinality(T) \in Nat /\ Cardinality(T) # Cardinality(S)
    BY <2>2, <2>3, FS_CardinalityType
  <2>5. QED BY <1>1, <2>1, <2>3, <2>4 DEF Rank
<1>3. ASSUME NEW x \in S, NEW y \in S, x < y PROVE Rank(S, x) < Rank(S, y)
  <2>1. PICK T, U : T = {z \in S : z < x} /\ U = {z \in S : z < y}
    OBVIOUS
  <2>a. x \in Nat /\ y \in Nat /\ \A z \in S : z \in Nat
    OBVIOUS
  <2>b. Rank(S, x) = Cardinality(T) /\ Rank(S, y) = Cardinality(U)
    BY <2>1 DEF Rank
  <2>2. T \in SUBSET U /\ x \in U /\ x \notin T
    <3>1. x \in U /\ x \notin T
      BY <1>3, <2>1, <2>a
    <3>2. ASSUME NEW z \in T PROVE z \in U
      BY <1>3, <2>1, <2>a
    <3>3. QED BY <3>1, <3>2
  <2>3. IsFiniteSet(U)
    BY <1>2, <2>1
  <2>4. Cardinality(T) <= Cardinality(U) /\ (Cardinality(U) = Cardinality(T) => U = T)
    BY <2>2, <2>3, FS_Subset
  <2>5. Cardinality(T) # Cardinality(U)
    BY <2>2, <2>4
  <2>6. Cardinality(T) \in Nat /\ Cardinality(U) \in Nat
    BY <1>2, <2>b
  <2>7. QED BY <2>4, <2>5, <2>6, <2>b
<1>4. ASSUME NEW x \in S PROVE Rank(S, x) \in 0..(Cardinality(S) - 1)
  <2>1. Rank(S, x) \in Nat /\ Rank(S, x) < Cardinality(S)
    BY <1>2
  <2>2. QED BY <1>1, <2>1
<1>5. QED BY <1>1, <1>3, <1>4

LEMMA InOrderFacts ==
  ASSUME NEW S, S \subseteq Nat, IsFiniteSet(S)
  PROVE  /\ Cardinality(S) \in Nat /\ InOrder(S) \in [1..Cardinality(S) -> S]
         /\ \A j, k \in 1..Cardinality(S) : j < k => InOrder(S)[j] < InOrder(S)[k]
         /\ \A x \in S : \E k \in 1..Cardinality(S) : InOrder(S)[k] = x
<1>1. PICK n, o : n = Cardinality(S) /\ o = InOrder(S)
  OBVIOUS
<1>2. /\ n \in Nat /\ \A x \in S : Rank(S, x) \in 0..(n - 1)
      /\ \A x, y \in S : x < y => Rank(S, x) < Rank(S, y)
  BY <1>1, RankFacts
<1>3. \A x, y \in S : Rank(S, x) = Rank(S, y) => x = y
  <2>1. TAKE x \in S, y \in S
  <2>2. Rank(S, x) \in Nat /\ Rank(S, y) \in Nat /\ x \in Nat /\ y \in Nat
    BY <1>2
  <2>3. (x < y => Rank(S, x) < Rank(S, y)) /\ (y < x => Rank(S, y) < Rank(S, x))
    BY <1>2
  <2>4. QED BY <2>2, <2>3
<1>4. ASSUME NEW k \in 1..n PROVE \E x \in S : Rank(S, x) = k - 1
  <2>1. PICK f : f = [x \in S |-> Rank(S, x)]
    OBVIOUS
  <2>2. f \in Injection(S, 0..(n - 1))
    BY <1>2, <1>3, <2>1 DEF Injection, IsInjective
  <2>3. IsFiniteSet(0..(n - 1)) /\ Cardinality(0..(n - 1)) = n
    BY <1>2, FS_Interval
  <2>4. f \in Surjection(S, 0..(n - 1))
    BY <1>1, <2>2, <2>3, FS_Injection
  <2>5. k - 1 \in 0..(n - 1)
    BY <1>2
  <2>6. \E x \in S : f[x] = k - 1
    BY <2>4, <2>5 DEF Surjection
  <2>7. QED BY <2>1, <2>6
<1>5. o = [k \in 1..n |-> CHOOSE x \in S : Rank(S, x) = k - 1]
  BY <1>1 DEF InOrder, Rank
<1>6. ASSUME NEW k \in 1..n PROVE o[k] \in S /\ Rank(S, o[k]) = k - 1
  <2>1. o[k] = CHOOSE x \in S : Rank(S, x) = k - 1
    BY <1>5
  <2>2. QED BY <1>4, <2>1
<1>7. o \in [1..n -> S]
  BY <1>5, <1>6
<1>8. ASSUME NEW j \in 1..n, NEW k \in 1..n, j < k PROVE o[j] < o[k]
  <2>1. /\ o[j] \in Nat /\ o[k] \in Nat /\ Rank(S, o[j]) = j - 1 /\ Rank(S, o[k]) = k - 1
        /\ (o[k] < o[j] => Rank(S, o[k]) < Rank(S, o[j]))
    BY <1>2, <1>6
  <2>2. o[j] # o[k] /\ ~(o[k] < o[j])
    BY <1>2, <1>8, <2>1
  <2>3. QED BY <2>1, <2>2
<1>9. ASSUME NEW x \in S PROVE \E k \in 1..n : o[k] = x
  <2>1. Rank(S, x) + 1 \in 1..n
    BY <1>2
  <2>2. Rank(S, o[Rank(S, x) + 1]) = Rank(S, x) /\ o[Rank(S, x) + 1] \in S
    BY <1>2, <1>6, <2>1
  <2>3. QED BY <1>3, <2>1, <2>2
<1>10. QED BY <1>1, <1>2, <1>7, <1>8, <1>9

\* Every element is in one interval of the set.
RunEnd(S, x) == Min({y \in S : y >= x /\ y + 1 \notin S})

LEMMA RunEnds ==
  ASSUME NEW S, S \subseteq Nat, IsFiniteSet(S), NEW x \in S
  PROVE  \E e \in S : /\ x <= e /\ e + 1 \notin S /\ x..e \subseteq S
                      /\ RunEnd(S, x) = e
<1> DEFINE T == {y \in Nat : y >= x /\ y \notin S}
<1>1. T # {}
  <2>1. PICK n : n = Cardinality(S) /\ n \in Nat
    BY FS_CardinalityType
  <2>2. SUFFICES ASSUME T = {} PROVE FALSE
    OBVIOUS
  <2>3. x \in Nat /\ x + n \in Int /\ x \in Int
    BY <2>1
  <2>4. x..(x + n) \in SUBSET S
    BY <2>1, <2>2, <2>3
  <2>5. Cardinality(x..(x + n)) <= n
    BY <2>1, <2>4, FS_Subset
  <2>6. Cardinality(x..(x + n)) = IF x > x + n THEN 0 ELSE (x + n) - x + 1
    BY <2>3, FS_Interval
  <2>7. QED BY <2>1, <2>3, <2>5, <2>6
<1>2. PICK z \in T : \A y \in T : z <= y
  <2>1. T \subseteq Nat
    OBVIOUS
  <2> HIDE DEF T
  <2>2. QED BY <1>1, <2>1, Least
<1>3. z \in Nat /\ z >= x /\ z \notin S /\ z # x /\ x \in Nat
  OBVIOUS
<1>4. ASSUME NEW y \in x..(z - 1) PROVE y \in S
  <2>1. y \in Nat /\ y >= x /\ ~(z <= y)
    BY <1>3
  <2>2. QED BY <1>2, <2>1
<1>5. PICK e : e = z - 1
  OBVIOUS
<1>6. e \in Nat /\ e \in S /\ x <= e /\ e + 1 \notin S /\ x..e \subseteq S
  BY <1>3, <1>4, <1>5
<1>7. PICK M : M = {y \in S : y >= x /\ y + 1 \notin S}
  OBVIOUS
<1>8. ASSUME NEW y \in M PROVE e <= y
  <2>1. y \in Nat /\ y >= x /\ y + 1 \notin S
    BY <1>7
  <2>2. y < e => y + 1 \in x..e
    BY <1>3, <1>6, <2>1
  <2>3. QED BY <1>6, <2>1, <2>2
<1>9. e \in M
  BY <1>6, <1>7
<1>10. Min(M) = e
  <2>1. \A u \in M : (\A y \in M : u <= y) => u = e
    BY <1>6, <1>7, <1>8, <1>9
  <2>2. QED BY <1>8, <1>9, <2>1 DEF Min
<1>11. QED BY <1>6, <1>7, <1>10 DEF RunEnd

LEMMA RunStarts ==
  ASSUME NEW S, S \subseteq Nat, NEW x \in S
  PROVE  \E b \in S : b <= x /\ b - 1 \notin S /\ b..x \subseteq S
<1> DEFINE T == {y \in Nat : y <= x /\ y..x \subseteq S}
<1>1. x \in T /\ T \subseteq Nat
  OBVIOUS
<1>2. PICK b \in T : \A y \in T : b <= y
  <2> HIDE DEF T
  <2>1. QED BY <1>1, Least
<1>3. b \in Nat /\ x \in Nat /\ b <= x /\ b..x \subseteq S
  OBVIOUS
<1>4. b \in S
  BY <1>3
<1>5. ASSUME b - 1 \in S PROVE FALSE
  <2>1. b - 1 \in Nat /\ b - 1 <= x
    BY <1>3, <1>5
  <2>2. \A y : y \in (b - 1)..x => y = b - 1 \/ y \in b..x
    BY <1>3
  <2>3. b - 1 \in T
    BY <1>3, <1>5, <2>1, <2>2
  <2>4. b <= b - 1
    BY <1>2, <2>3
  <2>5. QED BY <1>3, <2>4
<1>6. QED BY <1>3, <1>4, <1>5

\* An item as an interval, and the lists that appear in the files.
From(item) == item[1]
UpTo(item) == item[Len(item)]
IsItem(item) ==
  /\ item \in Seq(Nat)
  /\ Len(item) = 1 \/ (Len(item) = 2 /\ item[1] < item[2])

LEMMA ItemFacts ==
  ASSUME NEW item, IsItem(item)
  PROVE  From(item) \in Nat /\ UpTo(item) \in Nat /\ From(item) <= UpTo(item)
BY DEF IsItem, From, UpTo

\* A list of intervals, in order and not adjacent, or one of single indices.
IsList(items) ==
  /\ items \in Seq(Seq(Nat))
  /\ \A k \in 1..Len(items) : IsItem(items[k])
  /\ \A j, k \in 1..Len(items) :
       j < k /\ Len(items[k]) = 2 => UpTo(items[j]) + 1 < From(items[k])

\* The list of a set: it is the set, the first indices of its items are those
\* without a predecessor, and the items are apart.
LEMMA ItemsFacts ==
  ASSUME NEW S, S \subseteq Nat, IsFiniteSet(S)
  PROVE  /\ IsList(Items(S)) /\ Len(Items(S)) = Fragments(S)
         /\ \A j, k \in 1..Len(Items(S)) : j < k => UpTo(Items(S)[j]) + 1 < From(Items(S)[k])
         /\ \A k \in 1..Len(Items(S)) : /\ From(Items(S)[k]) \in S
                                        /\ From(Items(S)[k])..UpTo(Items(S)[k]) \subseteq S
         /\ \A x \in S : \E k \in 1..Len(Items(S)) :
              x \in From(Items(S)[k])..UpTo(Items(S)[k])
<1>1. PICK T, o, n : T = {x \in S : x - 1 \notin S} /\ o = InOrder(T) /\ n = Cardinality(T)
  OBVIOUS
<1>2. T \subseteq Nat /\ T \subseteq S /\ IsFiniteSet(T)
  <2>1. T \in SUBSET S
    BY <1>1
  <2>2. IsFiniteSet(T)
    BY <2>1, FS_Subset, Zenon
  <2>3. QED BY <2>1, <2>2
<1>3. /\ n \in Nat /\ o \in [1..n -> T]
      /\ \A j, k \in 1..n : j < k => o[j] < o[k]
      /\ \A x \in T : \E k \in 1..n : o[k] = x
  <2>1. n = Cardinality(T) /\ o = InOrder(T)
    BY <1>1
  <2>2. /\ Cardinality(T) \in Nat /\ InOrder(T) \in [1..Cardinality(T) -> T]
        /\ \A j, k \in 1..Cardinality(T) : j < k => InOrder(T)[j] < InOrder(T)[k]
        /\ \A x \in T : \E k \in 1..Cardinality(T) : InOrder(T)[k] = x
    BY <1>2, InOrderFacts, Zenon
  <2>3. QED BY <2>1, <2>2, Zenon
<1> DEFINE e(x) == RunEnd(S, x)
<1>4. ASSUME NEW x \in S PROVE e(x) \in S /\ x <= e(x) /\ e(x) + 1 \notin S /\ x..e(x) \subseteq S
  <2>1. PICK z \in S : x <= z /\ z + 1 \notin S /\ x..z \subseteq S /\ RunEnd(S, x) = z
    BY RunEnds
  <2>2. QED BY <2>1
<1>5. PICK items : items = Items(S)
  OBVIOUS
<1>6. items = [k \in 1..n |-> IF e(o[k]) = o[k] THEN <<o[k]>> ELSE <<o[k], e(o[k])>>]
  <2>1. DOMAIN o = 1..n
    BY <1>3
  <2>2. QED BY <1>1, <1>5, <2>1 DEF Items, RunEnd
<1> HIDE DEF e
<1>7. ASSUME NEW k \in 1..n
      PROVE  /\ o[k] \in T /\ o[k] \in Nat /\ e(o[k]) \in Nat /\ o[k] <= e(o[k])
             /\ From(items[k]) = o[k] /\ UpTo(items[k]) = e(o[k])
             /\ IsItem(items[k]) /\ items[k] \in Seq(Nat)
  <2>1. o[k] \in T /\ o[k] \in Nat /\ e(o[k]) \in Nat /\ o[k] <= e(o[k])
    BY <1>2, <1>3, <1>4
  <2>2. CASE e(o[k]) = o[k]
    <3>1. items[k] = <<o[k]>>
      BY <1>6, <2>2
    <3>2. <<o[k]>> \in Seq(Nat) /\ Len(<<o[k]>>) = 1 /\ <<o[k]>>[1] = o[k]
      BY <2>1
    <3>3. QED BY <2>1, <2>2, <3>1, <3>2 DEF From, UpTo, IsItem
  <2>3. CASE e(o[k]) # o[k]
    <3>1. items[k] = <<o[k], e(o[k])>>
      BY <1>6, <2>3
    <3>2. /\ <<o[k], e(o[k])>> \in Seq(Nat) /\ Len(<<o[k], e(o[k])>>) = 2
          /\ <<o[k], e(o[k])>>[1] = o[k] /\ <<o[k], e(o[k])>>[2] = e(o[k])
      BY <2>1
    <3>3. o[k] < e(o[k])
      BY <2>1, <2>3
    <3>4. QED BY <2>1, <3>1, <3>2, <3>3 DEF From, UpTo, IsItem
  <2>4. QED BY <2>2, <2>3
<1>8. items \in Seq(Seq(Nat)) /\ Len(items) = n
  <2>1. items = [k \in 1..n |-> items[k]]
    BY <1>6
  <2>2. items \in [1..n -> Seq(Nat)]
    BY <1>7, <2>1
  <2>3. QED BY <1>3, <2>2
<1>9. ASSUME NEW j \in 1..n, NEW k \in 1..n, j < k PROVE UpTo(items[j]) + 1 < From(items[k])
  <2>1. PICK x, y : x = o[j] /\ y = o[k]
    OBVIOUS
  <2>2. x < y /\ x \in S /\ y \in S /\ y - 1 \notin S /\ x \in Nat /\ y \in Nat
    BY <1>1, <1>2, <1>3, <1>9, <2>1
  <2>3. e(x) \in Nat /\ x <= e(x) /\ e(x) + 1 \notin S /\ x..e(x) \subseteq S
    BY <1>4, <2>2
  <2>4. ~(y <= e(x))
    <3>1. y <= e(x) => y - 1 \in x..e(x)
      BY <2>2, <2>3
    <3>2. QED BY <2>2, <2>3, <3>1
  <2>5. y # e(x) + 1
    BY <2>2, <2>3
  <2>6. e(x) + 1 < y
    BY <2>2, <2>3, <2>4, <2>5
  <2>7. QED BY <1>7, <2>1, <2>6
<1>10. ASSUME NEW x \in S PROVE \E k \in 1..n : x \in From(items[k])..UpTo(items[k])
  <2>1. PICK b \in S : b <= x /\ b - 1 \notin S /\ b..x \subseteq S
    BY RunStarts
  <2>2. b \in T
    BY <1>1, <2>1
  <2>3. PICK k \in 1..n : o[k] = b
    BY <1>3, <2>2
  <2>4. e(b) \in Nat /\ b <= e(b) /\ e(b) + 1 \notin S
    BY <1>4
  <2>5. ~(e(b) < x)
    <3>1. e(b) < x => e(b) + 1 \in b..x
      BY <2>1, <2>4
    <3>2. QED BY <2>1, <2>4, <3>1
  <2>6. x \in b..e(b)
    BY <2>1, <2>4, <2>5
  <2>7. QED BY <1>7, <2>3, <2>6
<1>11. ASSUME NEW k \in 1..n PROVE From(items[k]) \in S /\ From(items[k])..UpTo(items[k]) \subseteq S
  BY <1>2, <1>4, <1>7
<1>12. IsList(items)
  BY <1>7, <1>8, <1>9 DEF IsList
<1>13. n = Fragments(S)
  BY <1>1 DEF Fragments
<1>14. QED BY <1>5, <1>8, <1>9, <1>10, <1>11, <1>12, <1>13

-----------------------------------------------------------------------------
(* Reading a list.                                                         *)

\* The indices of the first p items.
Members(items, p) == UNION {From(items[k])..UpTo(items[k]) : k \in 1..p}

\* p items are read and are the set of the mask; the others come next, unless
\* the mask has refused the one that follows.
ReadTo(items, p) ==
  /\ Elements(m) = Members(items, p)
  /\ \/ /\ ok = TRUE /\ todo \in Seq(Seq(Nat)) /\ Len(todo) = Len(items) - p
        /\ \A k \in 1..Len(todo) : todo[k] = items[p + k]
     \/ ok = FALSE /\ todo = <<>> /\ p < Len(items) /\ ~AddItem(m, items[p + 1]).ok
Reads(items) == \E p \in 0..Len(items) : ReadTo(items, p)

LEMMA MembersFacts ==
  ASSUME NEW items, IsList(items), NEW p \in 0..Len(items)
  PROVE  /\ Members(items, p) \subseteq Nat
         /\ p < Len(items) =>
              /\ Members(items, p + 1) = Members(items, p) \cup (From(items[p + 1])..UpTo(items[p + 1]))
              /\ Len(items[p + 1]) = 2 => \A x \in Members(items, p) : x + 1 < From(items[p + 1])
<1>1. Len(items) \in Nat
  BY DEF IsList
<1>2. \A k \in 1..Len(items) : /\ From(items[k]) \in Nat /\ UpTo(items[k]) \in Nat
  BY ItemFacts DEF IsList
<1>3. ASSUME NEW x \in Members(items, p)
      PROVE  \E k \in 1..p : x \in Nat /\ x <= UpTo(items[k])
  <2>1. PICK k \in 1..p : x \in From(items[k])..UpTo(items[k])
    BY DEF Members
  <2>2. QED BY <1>1, <1>2, <2>1
<1>4. ASSUME p < Len(items)
      PROVE  Members(items, p + 1) = Members(items, p) \cup (From(items[p + 1])..UpTo(items[p + 1]))
  <2>1. 1..(p + 1) = (1..p) \cup {p + 1}
    BY <1>1
  <2>2. QED BY <2>1 DEF Members
<1>5. ASSUME p < Len(items), Len(items[p + 1]) = 2, NEW x \in Members(items, p)
      PROVE  x + 1 < From(items[p + 1])
  <2>1. PICK k \in 1..p : x \in Nat /\ x <= UpTo(items[k])
    BY <1>3
  <2>2. k \in 1..Len(items) /\ p + 1 \in 1..Len(items) /\ k < p + 1
    BY <1>1, <1>5
  <2>3. UpTo(items[k]) + 1 < From(items[p + 1])
    BY <1>5, <2>2 DEF IsList
  <2>4. QED BY <1>2, <2>1, <2>2, <2>3
<1>6. Members(items, p) \subseteq Nat
  BY <1>3
<1>7. QED BY <1>4, <1>5, <1>6

\* One item: the mask makes a step of its specification.
LEMMA ReadItemReads ==
  ASSUME MaskInv, NEW items, IsList(items), Reads(items), ReadItem
  PROVE  MaskInv' /\ Indices!Next /\ Reads(items)'
<1>1. PICK p \in 0..Len(items) : ReadTo(items, p)
  BY DEF Reads
<1>2. todo # <<>>
  BY DEF ReadItem
<1>3. /\ ok = TRUE /\ todo \in Seq(Seq(Nat)) /\ Len(todo) = Len(items) - p /\ Len(items) \in Nat
      /\ \A k \in 1..Len(todo) : todo[k] = items[p + k]
  BY <1>1, <1>2 DEF ReadTo, IsList
<1>4. PICK item, v, w : item = Head(todo) /\ v = From(item) /\ w = UpTo(item)
  OBVIOUS
<1>5. p < Len(items) /\ p + 1 \in 1..Len(items) /\ p + 1 \in 0..Len(items) /\ item = items[p + 1]
  <2>1. Len(todo) \in Nat /\ Len(todo) # 0
    BY <1>2, <1>3
  <2>2. Head(todo) = todo[1] /\ 1 \in 1..Len(todo)
    BY <1>3, <2>1
  <2>3. QED BY <1>3, <1>4, <2>1, <2>2
<1>6. IsItem(item) /\ v \in Nat /\ w \in Nat /\ v <= w
  BY <1>4, <1>5, ItemFacts DEF IsList
<1>7. Members(items, p + 1) = Members(items, p) \cup (v..w)
  BY <1>4, <1>5, MembersFacts
<1>8. /\ Tail(todo) \in Seq(Seq(Nat)) /\ Len(Tail(todo)) = Len(items) - (p + 1)
      /\ \A k \in 1..Len(Tail(todo)) : Tail(todo)[k] = items[(p + 1) + k]
  <2>1. Tail(todo) \in Seq(Seq(Nat)) /\ Len(Tail(todo)) = Len(todo) - 1
    BY <1>2, <1>3
  <2>2. ASSUME NEW k \in 1..Len(Tail(todo)) PROVE Tail(todo)[k] = items[(p + 1) + k]
    <3>1. k + 1 \in 1..Len(todo) /\ p + (k + 1) = (p + 1) + k
      BY <1>3, <2>1
    <3>2. Tail(todo)[k] = todo[k + 1]
      BY <1>2, <1>3, <2>1
    <3>3. QED BY <1>3, <3>1, <3>2
  <2>3. QED BY <1>3, <2>1, <2>2
<1>9. /\ Step(v..w)
      /\ ok' = AddItem(m, item).ok
  <2>1. CASE Len(item) = 1 /\ AppendIndex(item[1])
    <3>1. item[1] = v /\ w = v /\ v..v = {v}
      BY <1>4, <1>6, <2>1 DEF From, UpTo
    <3>2. Step({v})
      BY <1>6, <2>1, <3>1, AppendIndexSteps
    <3>3. ok' = AddItem(m, item).ok
      BY <2>1 DEF AppendIndex, AddItem
    <3>4. QED BY <3>1, <3>2, <3>3
  <2>2. CASE Len(item) = 2 /\ AppendRange(item[1], item[2])
    <3>1. item[1] = v /\ item[2] = w /\ v < w
      BY <1>4, <1>6, <2>2 DEF From, UpTo, IsItem
    <3>2. \A x \in Elements(m) : x + 1 < v
      BY <1>1, <1>4, <1>5, <2>2, MembersFacts DEF ReadTo
    <3>3. Step(v..w)
      BY <1>6, <2>2, <3>1, <3>2, AppendRangeSteps
    <3>4. ok' = AddItem(m, item).ok
      BY <2>2 DEF AppendRange, AddItem
    <3>5. QED BY <3>3, <3>4
  <2>3. QED BY <1>4, <2>1, <2>2 DEF ReadItem
<1>10. Indices!Next
  BY <1>6, <1>9, StepRefines
<1>11. CASE ok' = TRUE /\ Elements(m)' = Elements(m) \cup (v..w)
  <2>1. todo' = Tail(todo)
    BY <1>11 DEF ReadItem
  <2>2. ReadTo(items, p + 1)'
    BY <1>1, <1>7, <1>8, <1>11, <2>1 DEF ReadTo
  <2>3. QED BY <1>5, <1>9, <1>10, <2>2 DEF Reads, Step
<1>12. CASE ok' = FALSE /\ m' = m
  <2>1. todo' = <<>>
    BY <1>12 DEF ReadItem
  <2>2. Elements(m)' = Elements(m)
    BY <1>12
  <2>3. ~AddItem(m', items[p + 1]).ok
    BY <1>5, <1>9, <1>12
  <2>4. ReadTo(items, p)'
    BY <1>1, <1>5, <1>12, <2>1, <2>2, <2>3 DEF ReadTo
  <2>5. QED BY <1>9, <1>10, <2>4 DEF Reads, Step
<1>13. QED BY <1>9, <1>11, <1>12 DEF Step

\* A list is opened with an empty mask.
LEMMA OpenReads ==
  ASSUME NEW items, IsList(items), todo' = items, Clear
  PROVE  MaskInv' /\ Indices!Next /\ Reads(items)'
<1>1. MaskInv' /\ Elements(m)' = {} /\ ok' = TRUE
  BY ClearSteps
<1>2. Indices!Next
  BY <1>1 DEF Indices!Next, Indices!Clear
<1>3. Members(items, 0) = {}
  BY DEF Members
<1>4. 0 \in 0..Len(items) /\ Len(items) \in Nat /\ items \in Seq(Seq(Nat))
  BY DEF IsList
<1>5. ReadTo(items, 0)'
  BY <1>1, <1>3, <1>4 DEF ReadTo
<1>6. QED BY <1>1, <1>2, <1>4, <1>5 DEF Reads

-----------------------------------------------------------------------------
(* The lists that the constructor opens.                                   *)

\* The record of Windows that is read, and the list that a stage reads.
Entry == CacheRecords(EntryType)[cpuIdx + 1]
Opened ==
  CASE stage = "cache" -> Items(Shared(FileType, cpuIdx))
    [] stage \in {"P", "E"} -> Items({c \in machine.online : Kind(c) = stage})
    [] stage = "entry" -> [k \in 1..Cardinality(Entry) |-> <<Index(InOrder(Entry)[k])>>]

\* Which system runs which part, and where the loops are.
Staged ==
  /\ machine \in Machines
  /\ stage \in {"cpu", "cache", "P", "E", "pin", "end"} => machine.os = "linux"
  /\ stage \in {"core", "entry"} => machine.os = "windows"
  /\ cpuIdx \in Nat /\ cacheIdx \in Nat

\* The loops while a list is read: at a CPU or a record, and a cache type.
InCache == stage = "cache" =>
  cacheIdx \in DOMAIN machine.files /\ Online(cpuIdx) /\ FileType \in CacheTypes
InEntry == stage = "entry" =>
  /\ cacheIdx < Len(machine.files) /\ EntryType \in CacheTypes
  /\ cpuIdx < Len(CacheRecords(EntryType))

\* While a list is read, what the mask holds is what was read of it.
Reading ==
  reading =>
    \/ /\ stage \in {"cache", "P", "E", "entry"}
       /\ InCache /\ InEntry
       /\ Reads(Opened)
    \/ stage = "failed" /\ todo = <<>>

LEMMA MachineFacts ==
  ASSUME machine \in Machines
  PROVE  /\ machine.os \in {"linux", "windows", "other"}
         /\ IsFiniteSet(machine.online) /\ 0 \in machine.online /\ machine.online \subseteq Nat
         /\ \A t, c : Shared(t, c) \subseteq machine.online /\ IsFiniteSet(Shared(t, c))
         /\ machine.files \in Seq(STRING)
<1>1. /\ machine.os \in {"linux", "windows", "other"}
      /\ IsFiniteSet(machine.online) /\ 0 \in machine.online /\ machine.online \subseteq Nat
      /\ machine.files \in Seq(STRING)
  BY CpuTopologyAssumption
<1>2. ASSUME NEW t, NEW c PROVE Shared(t, c) \subseteq machine.online
  <2>1. CASE Online(c) /\ t \in DOMAIN machine.shared
    <3>1. c \in machine.online /\ Shared(t, c) = machine.shared[t][c]
      BY <2>1 DEF Shared, Online
    <3>2. QED BY <2>1, <3>1, CpuTopologyAssumption
  <2>2. CASE ~(Online(c) /\ t \in DOMAIN machine.shared)
    BY <2>2 DEF Shared
  <2>3. QED BY <2>1, <2>2
<1>3. QED BY <1>1, <1>2, FS_Subset, Zenon

LEMMA ImageFacts ==
  ASSUME NEW R, IsFiniteSet(R), NEW f, f = [x \in R |-> f[x]]
  PROVE  /\ IsFiniteSet({f[x] : x \in R})
         /\ Cardinality({f[x] : x \in R}) <= Cardinality(R)
         /\ (\A x, y \in R : f[x] = f[y] => x = y) =>
              Cardinality({f[x] : x \in R}) = Cardinality(R)
<1>1. PICK T : T = {f[x] : x \in R}
  OBVIOUS
<1>2. f \in [R -> T] /\ \A y \in T : \E x \in R : f[x] = y
  BY <1>1
<1>3. f \in Surjection(R, T)
  BY <1>2 DEF Surjection
<1>4. IsFiniteSet(T) /\ Cardinality(T) <= Cardinality(R) /\ (Cardinality(T) = Cardinality(R) <=> f \in Injection(R, T))
  BY <1>3, FS_Surjection
<1>5. (\A x, y \in R : f[x] = f[y] => x = y) => f \in Injection(R, T)
  BY <1>2 DEF Injection, IsInjective
<1>6. QED BY <1>1, <1>4, <1>5

\* Records that have no CPU in common are each listed once.
LEMMA ByFirstFacts ==
  ASSUME NEW R, IsFiniteSet(R), \A r \in R : r # {} /\ r \subseteq Nat,
         \A r, s \in R : r = s \/ r \cap s = {}
  PROVE  /\ Len(ByFirst(R)) \in Nat /\ DOMAIN ByFirst(R) = 1..Len(ByFirst(R))
         /\ \A k \in 1..Len(ByFirst(R)) : ByFirst(R)[k] \in R
         /\ \A r \in R : \E k \in 1..Len(ByFirst(R)) : ByFirst(R)[k] = r
         /\ \A j, k \in 1..Len(ByFirst(R)) : ByFirst(R)[j] = ByFirst(R)[k] => j = k
<1>1. PICK T, o, n : T = {Min(r) : r \in R} /\ o = InOrder(T) /\ n = Cardinality(T)
  OBVIOUS
<1>2. ASSUME NEW r \in R PROVE Min(r) \in r /\ Min(r) \in Nat
  <2>1. PICK b \in r : \A y \in r : b <= y
    BY Least
  <2>2. Min(r) \in r
    BY <2>1 DEF Min
  <2>3. QED BY <2>2
<1>3. T \subseteq Nat
  BY <1>1, <1>2
<1>4. IsFiniteSet(T)
  <2>1. PICK f : f = [r \in R |-> Min(r)]
    OBVIOUS
  <2>2. T = {f[r] : r \in R} /\ f = [r \in R |-> f[r]]
    BY <1>1, <2>1
  <2>3. QED BY <2>2, ImageFacts
<1>5. /\ n \in Nat /\ o \in [1..n -> T]
      /\ \A x \in T : \E k \in 1..n : o[k] = x
      /\ \A j, k \in 1..n : j < k => o[j] < o[k]
  BY <1>1, <1>3, <1>4, InOrderFacts
<1>6. PICK b : b = ByFirst(R)
  OBVIOUS
<1>7. b = [k \in 1..n |-> CHOOSE r \in R : Min(r) = o[k]]
  BY <1>1, <1>5, <1>6 DEF ByFirst
<1>8. ASSUME NEW k \in 1..n PROVE b[k] \in R /\ Min(b[k]) = o[k]
  <2>1. \E r \in R : Min(r) = o[k]
    <3>1. o[k] \in T
      BY <1>5
    <3>2. QED BY <1>1, <3>1
  <2>2. b[k] = CHOOSE r \in R : Min(r) = o[k]
    BY <1>7
  <2>3. QED BY <2>1, <2>2
<1>9. ASSUME NEW r \in R PROVE \E k \in 1..n : b[k] = r
  <2>1. Min(r) \in T
    BY <1>1
  <2>2. PICK k \in 1..n : Min(b[k]) = Min(r) /\ b[k] \in R
    BY <1>5, <1>8, <2>1
  <2>3. Min(r) \in b[k] \cap r
    BY <1>2, <2>2
  <2>4. QED BY <2>2, <2>3
<1>0. ASSUME NEW j \in 1..n, NEW k \in 1..n, b[j] = b[k] PROVE j = k
  <2>1. o[j] = o[k] /\ o[j] \in Nat /\ o[k] \in Nat
    BY <1>0, <1>3, <1>5, <1>8
  <2>2. ~(j < k) /\ ~(k < j)
    BY <1>5, <2>1
  <2>3. QED BY <1>5, <2>2
<1>10. Len(b) = n
  <2>1. b \in [1..n -> R]
    BY <1>7, <1>8
  <2>2. b \in Seq(R)
    BY <1>5, <2>1
  <2>3. QED BY <1>5, <1>7, <2>1, <2>2
<1>11. DOMAIN b = 1..n
  BY <1>7
<1>12. QED BY <1>0, <1>5, <1>6, <1>8, <1>9, <1>10, <1>11

LEMMA IndexIsNat ==
  ASSUME machine \in Machines, NEW c \in Nat
  PROVE  Index(c) \in Nat
<1>1. PICK g : g = Group(c)
  OBVIOUS
<1>2. PICK T : T = {d \in machine.online : Group(d) < g}
  OBVIOUS
<1>3. T \in SUBSET machine.online /\ IsFiniteSet(machine.online)
  BY <1>2, MachineFacts
<1>4. IsFiniteSet(T)
  BY <1>3, FS_Subset, Zenon
<1>5. GroupAcc(g) \in Nat
  BY <1>2, <1>4, FS_CardinalityType DEF GroupAcc
<1>6. c % GroupSize \in Nat
  BY CpuTopologyAssumption
<1>7. QED BY <1>1, <1>5, <1>6 DEF Index

\* The records of the caches of a type.
LEMMA RecordsFacts ==
  ASSUME machine \in Machines, NEW t \in DOMAIN machine.shared
  PROVE  /\ Len(CacheRecords(t)) \in Nat /\ DOMAIN CacheRecords(t) = 1..Len(CacheRecords(t))
         /\ \A k \in 1..Len(CacheRecords(t)) : \E d \in machine.online :
              CacheRecords(t)[k] = machine.shared[t][d] /\ d \in CacheRecords(t)[k]
         /\ \A d \in machine.online : \E k \in 1..Len(CacheRecords(t)) :
              CacheRecords(t)[k] = machine.shared[t][d]
<1>1. PICK R : R = {machine.shared[t][c] : c \in machine.online}
  OBVIOUS
<1>2. IsFiniteSet(machine.online) /\ machine.online \subseteq Nat
  BY MachineFacts
<1>3. IsFiniteSet(R)
  <2>1. PICK f : f = [c \in machine.online |-> machine.shared[t][c]]
    OBVIOUS
  <2>2. R = {f[c] : c \in machine.online} /\ f = [c \in machine.online |-> f[c]]
    BY <1>1, <2>1
  <2>3. QED BY <1>2, <2>2, ImageFacts
<1>4. \A d \in machine.online : d \in machine.shared[t][d] /\ machine.shared[t][d] \subseteq machine.online
  BY CpuTopologyAssumption
<1>5. \A r \in R : r # {} /\ r \subseteq Nat
  BY <1>1, <1>2, <1>4
<1>6. \A r, s \in R : r = s \/ r \cap s = {}
  <2>1. SUFFICES ASSUME NEW c \in machine.online, NEW d \in machine.online,
                        NEW e \in machine.shared[t][c] \cap machine.shared[t][d]
                 PROVE  machine.shared[t][c] = machine.shared[t][d]
    BY <1>1
  <2>2. machine.shared[t][e] = machine.shared[t][c] /\ machine.shared[t][e] = machine.shared[t][d]
    BY CpuTopologyAssumption
  <2>3. QED BY <2>2
<1>7. PICK b : b = ByFirst(R)
  OBVIOUS
<1>8. CacheRecords(t) = b
  BY <1>1, <1>7 DEF CacheRecords
<1>9. /\ Len(b) \in Nat /\ DOMAIN b = 1..Len(b)
      /\ \A k \in 1..Len(b) : b[k] \in R
      /\ \A r \in R : \E k \in 1..Len(b) : b[k] = r
  BY <1>3, <1>5, <1>6, <1>7, ByFirstFacts, Zenon
<1>10. QED BY <1>1, <1>4, <1>8, <1>9

\* The records of the cores.
LEMMA CoreRecordsFacts ==
  ASSUME machine \in Machines
  PROVE  /\ Len(CoreRecords) \in Nat /\ DOMAIN CoreRecords = 1..Len(CoreRecords)
         /\ \A k \in 1..Len(CoreRecords) :
              /\ CoreRecords[k] # {} /\ CoreRecords[k] \subseteq machine.online
              /\ Min(CoreRecords[k]) \in CoreRecords[k]
              /\ \A c, d \in CoreRecords[k] : machine.core[c] = machine.core[d]
         /\ \A d \in machine.online : \E k \in 1..Len(CoreRecords) : d \in CoreRecords[k]
         /\ \A j, k \in 1..Len(CoreRecords) : \A c \in CoreRecords[j], d \in CoreRecords[k] :
              machine.core[c] = machine.core[d] => j = k
<1> DEFINE of(k) == {c \in machine.online : machine.core[c] = k}
<1>1. PICK K : K = {machine.core[c] : c \in machine.online}
  OBVIOUS
<1>2. PICK R : R = {of(k) : k \in K}
  OBVIOUS
<1>3. IsFiniteSet(machine.online) /\ machine.online \subseteq Nat
  BY MachineFacts
<1>4. IsFiniteSet(R)
  <2>1. PICK f, g : f = [c \in machine.online |-> machine.core[c]] /\ g = [k \in K |-> of(k)]
    OBVIOUS
  <2>2. K = {f[c] : c \in machine.online} /\ f = [c \in machine.online |-> f[c]]
    BY <1>1, <2>1
  <2>3. IsFiniteSet(K)
    BY <1>3, <2>2, ImageFacts
  <2>4. R = {g[k] : k \in K} /\ g = [k \in K |-> g[k]]
    BY <1>2, <2>1
  <2>5. QED BY <2>3, <2>4, ImageFacts
<1>5. \A r \in R : r # {} /\ r \subseteq Nat /\ r \subseteq machine.online
  BY <1>1, <1>2, <1>3
<1>6. \A r, s \in R : r = s \/ r \cap s = {}
  <2>1. TAKE r \in R, s \in R
  <2>2. PICK j \in K, k \in K : r = of(j) /\ s = of(k)
    BY <1>2
  <2>3. j # k => of(j) \cap of(k) = {}
    OBVIOUS
  <2>4. QED BY <2>2, <2>3
<1>7. PICK b : b = ByFirst(R)
  OBVIOUS
<1>8. CoreRecords = b
  BY <1>1, <1>2, <1>7 DEF CoreRecords
<1>9. /\ Len(b) \in Nat /\ DOMAIN b = 1..Len(b)
      /\ \A k \in 1..Len(b) : b[k] \in R
      /\ \A r \in R : \E k \in 1..Len(b) : b[k] = r
      /\ \A j, k \in 1..Len(b) : b[j] = b[k] => j = k
  <2>1. \A r \in R : r # {} /\ r \subseteq Nat
    BY <1>5
  <2>2. QED BY <1>4, <1>6, <1>7, <2>1, ByFirstFacts, ZenonT(30)
<1>10. ASSUME NEW k \in 1..Len(b) PROVE Min(b[k]) \in b[k]
  <2>1. PICK r : r = b[k]
    OBVIOUS
  <2>2. r # {} /\ r \subseteq Nat
    BY <1>5, <1>9, <2>1
  <2>3. PICK x \in r : \A y \in r : x <= y
    BY <2>2, Least
  <2>4. QED BY <2>1, <2>3 DEF Min
<1>11. \A k \in 1..Len(b), c, d \in machine.online :
         c \in b[k] => (d \in b[k] <=> machine.core[c] = machine.core[d])
  BY <1>2, <1>9
<1>12. ASSUME NEW d \in machine.online PROVE \E k \in 1..Len(b) : d \in b[k]
  <2>1. of(machine.core[d]) \in R /\ d \in of(machine.core[d])
    BY <1>1, <1>2
  <2>2. QED BY <1>9, <2>1
<1>13. ASSUME NEW j \in 1..Len(b), NEW k \in 1..Len(b), NEW c \in b[j], NEW d \in b[k],
              machine.core[c] = machine.core[d]
       PROVE  j = k
  <2>1. c \in machine.online /\ d \in machine.online /\ d \in b[j]
    BY <1>5, <1>9, <1>11, <1>13
  <2>2. b[j] = b[k]
    BY <1>6, <1>9, <2>1
  <2>3. QED BY <1>9, <2>2
<1>14. \A k \in 1..Len(b) : \A c, d \in b[k] : machine.core[c] = machine.core[d]
  BY <1>5, <1>9, <1>11
<1>15. \A k \in 1..Len(b) : b[k] # {} /\ b[k] \subseteq machine.online
  BY <1>5, <1>9
<1> HIDE DEF of
<1>16. QED BY <1>8, <1>9, <1>10, <1>12, <1>13, <1>14, <1>15

LEMMA EntryFacts ==
  ASSUME Staged, stage = "entry", cacheIdx < Len(machine.files)
  PROVE  /\ EntryType \in DOMAIN machine.shared
         /\ cpuIdx < Len(CacheRecords(EntryType)) =>
              /\ Entry \subseteq machine.online /\ IsFiniteSet(Entry)
              /\ \E d \in machine.online : Entry = machine.shared[EntryType][d]
<1>1. machine \in Machines /\ machine.os = "windows" /\ cacheIdx \in Nat /\ cpuIdx \in Nat
  BY DEF Staged
<1>2. EntryType \in DOMAIN machine.shared
  <2>1. machine.files \in Seq(STRING)
    BY <1>1, MachineFacts
  <2>2. cacheIdx + 1 \in DOMAIN machine.files
    BY <1>1, <2>1
  <2>3. QED BY <1>1, <2>2, CpuTopologyAssumption DEF EntryType
<1>3. ASSUME cpuIdx < Len(CacheRecords(EntryType))
      PROVE  /\ Entry \subseteq machine.online /\ IsFiniteSet(Entry)
             /\ \E d \in machine.online : Entry = machine.shared[EntryType][d]
  <2>1. PICK t \in DOMAIN machine.shared : t = EntryType
    BY <1>2
  <2>2. cpuIdx + 1 \in 1..Len(CacheRecords(t))
    BY <1>1, <1>3, <2>1, RecordsFacts
  <2>3. PICK d \in machine.online : CacheRecords(t)[cpuIdx + 1] = machine.shared[t][d]
    BY <1>1, <2>2, RecordsFacts
  <2>4. Entry = machine.shared[t][d]
    BY <2>1, <2>3 DEF Entry
  <2>5. Entry \in SUBSET machine.online
    BY <1>1, <2>4, CpuTopologyAssumption
  <2>6. IsFiniteSet(Entry)
    BY <1>1, <2>5, MachineFacts, FS_Subset, Zenon
  <2>7. QED BY <2>1, <2>4, <2>5, <2>6
<1>4. QED BY <1>2, <1>3

\* Whatever list is opened, it is one that the mask can be filled with.
LEMMA OpenedIsList ==
  ASSUME Staged, stage \in {"cache", "P", "E", "entry"}, InEntry
  PROVE  IsList(Opened)
<1>1. /\ machine \in Machines /\ IsFiniteSet(machine.online) /\ machine.online \subseteq Nat
      /\ \A t, c : Shared(t, c) \subseteq machine.online /\ IsFiniteSet(Shared(t, c))
  BY MachineFacts DEF Staged
<1>2. CASE stage = "cache"
  <2>1. PICK S : S = Shared(FileType, cpuIdx)
    OBVIOUS
  <2>2. S \subseteq Nat /\ IsFiniteSet(S)
    BY <1>1, <2>1
  <2>3. Opened = Items(S)
    BY <1>2, <2>1 DEF Opened
  <2>4. QED BY <2>2, <2>3, ItemsFacts
<1>3. CASE stage \in {"P", "E"}
  <2>1. PICK S : S = {c \in machine.online : Kind(c) = stage}
    OBVIOUS
  <2>2. S \in SUBSET machine.online
    BY <2>1
  <2>3. S \subseteq Nat /\ IsFiniteSet(S)
    BY <1>1, <2>2, FS_Subset, Zenon
  <2>4. Opened = Items(S)
    BY <1>3, <2>1 DEF Opened
  <2>5. QED BY <2>3, <2>4, ItemsFacts
<1>4. CASE stage = "entry"
  <2>1. PICK S : S = Entry
    OBVIOUS
  <2>2. S \subseteq Nat /\ IsFiniteSet(S)
    BY <1>1, <1>4, <2>1, EntryFacts DEF InEntry
  <2>3. PICK o, n : o = InOrder(S) /\ n = Cardinality(S)
    OBVIOUS
  <2>4. n \in Nat /\ o \in [1..n -> S]
    BY <2>2, <2>3, InOrderFacts
  <2>5. PICK items : items = [k \in 1..n |-> <<Index(o[k])>>]
    OBVIOUS
  <2>6. Opened = items
    BY <1>4, <2>1, <2>3, <2>5 DEF Opened
  <2>7. ASSUME NEW k \in 1..n PROVE items[k] \in Seq(Nat) /\ Len(items[k]) = 1
    <3>1. PICK v : v = Index(o[k])
      OBVIOUS
    <3>2. o[k] \in Nat
      BY <2>2, <2>4
    <3>3. v \in Nat
      BY <1>1, <3>1, <3>2, IndexIsNat
    <3>4. items[k] = <<v>>
      BY <2>5, <3>1
    <3>5. <<v>> \in Seq(Nat) /\ Len(<<v>>) = 1
      BY <3>3
    <3>6. QED BY <3>4, <3>5
  <2>8. items \in Seq(Seq(Nat)) /\ Len(items) = n
    <3>1. items \in [1..n -> Seq(Nat)]
      BY <2>5, <2>7
    <3>2. QED BY <2>4, <3>1
  <2>9. ASSUME NEW k \in 1..Len(items) PROVE IsItem(items[k]) /\ Len(items[k]) # 2
    <3>1. items[k] \in Seq(Nat) /\ Len(items[k]) = 1
      BY <2>7, <2>8
    <3>2. QED BY <3>1 DEF IsItem
  <2>10. IsList(items)
    BY <2>8, <2>9 DEF IsList
  <2>11. QED BY <2>6, <2>10
<1>5. QED BY <1>2, <1>3, <1>4

-----------------------------------------------------------------------------
(* Every step of the constructor is one of the mask, or leaves it alone.   *)

LEMMA CpuKeepsMachine == CpuNext => UNCHANGED machine
BY DEF CpuNext, DetectVendor, DetectExtended, DetectBasic, DetectVector, DetectStructured,
       DetectLate, SetNumCores, ReadCache, EndCaches, LegacyCaches

\* No later step changes the stage but as initCpuTopology goes.
LEMMA StagedNext == Staged /\ [Next]_vars => Staged'
<1> SUFFICES ASSUME Staged, [Next]_vars PROVE Staged'
  OBVIOUS
<1> USE DEF Staged
<1>1. ASSUME UNCHANGED <<machine, stage, cpuIdx, cacheIdx>> PROVE Staged'
  BY <1>1
<1>2. CASE Detect
  BY <1>1, <1>2, CpuKeepsMachine DEF Detect, topoVars
<1>3. CASE Client \/ UNCHANGED vars
  BY <1>1, <1>3 DEF Client, vars, cpuVars, topoVars, loops
<1>4. CASE Topology
  <2> USE DEF cpuVars, list, loops, Fail
  <2>1. CASE Begin
    <3>1. machine.os \in {"linux", "windows", "other"}
      BY MachineFacts
    <3>2. QED BY <2>1, <3>1 DEF Begin
  <2>2. CASE ReadCoreId \/ OpenShared \/ EndShared
    BY <2>2 DEF ReadCoreId, OpenShared, EndShared
  <2>3. CASE NextCpu
    BY <2>3 DEF NextCpu
  <2>4. CASE ReadItem
    BY <2>4 DEF ReadItem
  <2>5. CASE OpenTypes \/ EndTypes
    BY <2>5 DEF OpenTypes, EndTypes, AfterTypes
  <2>6. CASE Pin \/ Unpin \/ End
    BY <2>6 DEF Pin, Unpin, End
  <2>7. CASE QueryFails \/ ReadCore \/ EndCores
    BY <2>7 DEF QueryFails, ReadCore, EndCores
  <2>8. CASE OpenEntry \/ EndEntry
    BY <2>8 DEF OpenEntry, EndEntry, MoreEntries
  <2>9. CASE NextType \/ EndEntries
    BY <2>9 DEF NextType, EndEntries, MoreEntries
  <2>10. QED
    BY <1>4, <2>1, <2>2, <2>3, <2>4, <2>5, <2>6, <2>7, <2>8, <2>9 DEF Topology
<1>5. QED BY <1>2, <1>3, <1>4 DEF Next

\* The invariant of the mask and of the list that is read into it.
ListInv == Staged /\ MaskInv /\ Reading

LEMMA ListStep ==
  ASSUME ListInv, [Next]_vars
  PROVE  ListInv' /\ [Indices!Next]_(Indices!vars)
<1>1. Staged /\ Staged' /\ MaskInv /\ Reading
  BY StagedNext DEF ListInv
<1>2. ASSUME UNCHANGED <<m, ok>> PROVE MaskInv' /\ UNCHANGED Indices!vars
  <2>1. UNCHANGED m /\ UNCHANGED ok
    BY <1>2
  <2>2. QED BY <1>1, <2>1 DEF MaskInv, WellFormed, Indices!vars
<1>3. ASSUME UNCHANGED <<m, ok>>, ~reading' PROVE ListInv' /\ [Indices!Next]_(Indices!vars)
  BY <1>1, <1>2, <1>3 DEF ListInv, Reading
<1>4. ASSUME UNCHANGED <<machine, stage, reading, todo, m, ok, cpuIdx, cacheIdx>>
      PROVE  ListInv' /\ [Indices!Next]_(Indices!vars)
  <2>1. Opened' = Opened
    BY <1>4 DEF Opened, Entry, EntryType, FileType, Shared, Online, Kind, Index, GroupAcc, Group, CacheRecords
  <2>2. Elements(m)' = Elements(m) /\ CacheRecords(EntryType)' = CacheRecords(EntryType)
    BY <1>4 DEF CacheRecords, EntryType
  <2>3. Reads(Opened)' <=> Reads(Opened)
    BY <1>4, <2>1, <2>2 DEF Reads, ReadTo
  <2>4. Reading'
    BY <1>1, <1>4, <2>3 DEF Reading, InCache, InEntry, Online, CacheRecords, EntryType, FileType
  <2>5. QED BY <1>1, <1>2, <1>4, <2>4 DEF ListInv
<1>5. ASSUME NEW items, IsList(items), todo' = items, Clear, UNCHANGED <<machine, stage, cpuIdx, cacheIdx>>,
             stage \in {"cache", "P", "E", "entry"}, Opened = items,
             InCache, InEntry
      PROVE  ListInv' /\ [Indices!Next]_(Indices!vars)
  <2>1. MaskInv' /\ Indices!Next /\ Reads(items)'
    BY <1>5, OpenReads
  <2>2. Opened' = Opened
    BY <1>5 DEF Opened, Entry, EntryType, FileType, Shared, Online, Kind, Index,
           GroupAcc, Group, CacheRecords
  <2>3. Reads(Opened)'
    BY <1>5, <2>1, <2>2 DEF Reads, ReadTo
  <2>4. Reading'
    BY <1>5, <2>3 DEF Reading, InCache, InEntry, Online, CacheRecords, EntryType, FileType
  <2>5. QED BY <1>1, <2>1, <2>4 DEF ListInv
<1>6. CASE Detect
  BY <1>4, <1>6, CpuKeepsMachine DEF Detect, topoVars
<1>7. CASE UNCHANGED vars
  BY <1>4, <1>7 DEF vars, cpuVars, topoVars
<1>8. CASE Client
  <2>1. MaskInv' /\ Indices!Next
    BY <1>1, <1>8, MaskStep DEF Client
  <2>2. Reading'
    BY <1>1, <1>8 DEF Client, Reading
  <2>3. QED BY <1>1, <2>1, <2>2 DEF ListInv
<1>9. CASE Topology
  <2> USE DEF cpuVars, list, loops, Fail
  <2>1. stage \notin {"cache", "P", "E", "entry", "failed"} => ~reading
    BY <1>1 DEF Reading
  <2>2. CASE Begin \/ ReadCoreId
    BY <1>3, <2>1, <2>2 DEF Begin, ReadCoreId
  <2>3. CASE OpenShared
    <3>1. CASE Online(cpuIdx) /\ FileType \in CacheTypes
      <4>1. PICK items : items = Opened
        OBVIOUS
      <4>2. /\ stage = "cache" /\ cacheIdx \in DOMAIN machine.files /\ Clear
            /\ todo' = items /\ UNCHANGED <<machine, stage, cpuIdx, cacheIdx>>
        BY <2>3, <3>1, <4>1 DEF OpenShared, Opened
      <4>3. IsList(items)
        BY <1>1, <4>1, <4>2, OpenedIsList DEF InEntry
      <4>4. QED BY <1>5, <3>1, <4>1, <4>2, <4>3 DEF InCache, InEntry
    <3>2. CASE ~(Online(cpuIdx) /\ FileType \in CacheTypes)
      BY <1>3, <2>3, <3>2 DEF OpenShared
    <3>3. QED BY <3>1, <3>2
  <2>4. CASE ReadItem
    <3>1. /\ reading /\ todo # <<>>
      BY <2>4 DEF ReadItem
    <3>2. /\ stage \in {"cache", "P", "E", "entry"}
          /\ InCache /\ InEntry
          /\ Reads(Opened)
      BY <1>1, <3>1 DEF Reading
    <3>3. PICK items : items = Opened
      OBVIOUS
    <3>4. IsList(items)
      BY <1>1, <3>2, <3>3, OpenedIsList
    <3>5. MaskInv' /\ Indices!Next /\ Reads(items)'
      BY <1>1, <2>4, <3>2, <3>3, <3>4, ReadItemReads
    <3>6. UNCHANGED <<machine, cpuIdx, cacheIdx>>
      BY <2>4 DEF ReadItem
    <3>7. CASE UNCHANGED stage
      <4>1. Opened' = Opened
        BY <3>6, <3>7 DEF Opened, Entry, EntryType, FileType, Shared, Online, Kind, Index,
               GroupAcc, Group, CacheRecords
      <4>2. Reads(Opened)'
        BY <3>3, <3>5, <4>1 DEF Reads, ReadTo
      <4>3. Reading'
        BY <3>2, <3>6, <3>7, <4>2
           DEF Reading, InCache, InEntry, Online, CacheRecords, EntryType, FileType
      <4>4. QED BY <1>1, <3>5, <4>3 DEF ListInv
    <3>8. CASE ~ok' /\ stage' = "failed"
      <4>1. todo' = <<>>
        BY <2>4, <3>8 DEF ReadItem
      <4>2. Reading'
        BY <3>8, <4>1 DEF Reading
      <4>3. QED BY <1>1, <3>5, <4>2 DEF ListInv
    <3>9. QED BY <2>4, <3>7, <3>8 DEF ReadItem
  <2>5. CASE EndShared \/ NextCpu
    BY <1>3, <2>5 DEF EndShared, NextCpu
  <2>6. CASE OpenTypes
    <3>1. CASE stage \in machine.lists
      <4>1. PICK items : items = Opened
        OBVIOUS
      <4>2. /\ stage \in {"P", "E"} /\ Clear
            /\ todo' = items /\ UNCHANGED <<machine, stage, cpuIdx, cacheIdx>>
        BY <2>6, <3>1, <4>1 DEF OpenTypes, Opened
      <4>3. IsList(items)
        BY <1>1, <4>1, <4>2, OpenedIsList DEF InEntry
      <4>4. QED BY <1>5, <3>1, <4>1, <4>2, <4>3 DEF InCache, InEntry
    <3>2. CASE stage \notin machine.lists
      BY <1>3, <2>6, <3>2 DEF OpenTypes
    <3>3. QED BY <3>1, <3>2
  <2>7. CASE EndTypes
    BY <1>3, <2>7 DEF EndTypes
  <2>8. CASE Pin \/ Unpin \/ End
    BY <1>3, <2>1, <2>8 DEF Pin, Unpin, End
  <2>9. CASE QueryFails \/ ReadCore \/ EndCores
    BY <1>3, <2>1, <2>9 DEF QueryFails, ReadCore, EndCores
  <2>10. CASE OpenEntry
    <3>1. CASE EntryType \in CacheTypes
      <4>1. PICK items : items = Opened
        OBVIOUS
      <4>2. /\ stage = "entry" /\ cacheIdx < Len(machine.files) /\ Clear
            /\ cpuIdx < Len(CacheRecords(EntryType))
            /\ todo' = items /\ UNCHANGED <<machine, stage, cpuIdx, cacheIdx>>
        BY <2>10, <3>1, <4>1 DEF OpenEntry, MoreEntries, Opened, Entry
      <4>3. IsList(items)
        BY <1>1, <3>1, <4>1, <4>2, OpenedIsList DEF InEntry
      <4>4. QED BY <1>5, <3>1, <4>1, <4>2, <4>3 DEF InCache, InEntry
    <3>2. CASE EntryType \notin CacheTypes
      BY <1>3, <2>10, <3>2 DEF OpenEntry, MoreEntries
    <3>3. QED BY <3>1, <3>2
  <2>11. CASE EndEntry \/ NextType \/ EndEntries
    BY <1>3, <2>11 DEF EndEntry, NextType, EndEntries, MoreEntries
  <2>12. QED
    BY <1>9, <2>2, <2>3, <2>4, <2>5, <2>6, <2>7, <2>8, <2>9, <2>10, <2>11 DEF Topology
<1>10. QED BY <1>6, <1>7, <1>8, <1>9 DEF Next

LEMMA InitListInv == Init => ListInv
BY InitMaskInv DEF Init, CpuInit, ListInv, Staged, Reading

LEMMA AlwaysListInv == Spec => []ListInv
<1>1. ListInv /\ [Next]_vars => ListInv'
  BY ListStep
<1>2. QED BY <1>1, InitListInv, PTL DEF Spec

\* The iterator of every mask that the constructor fills, and of those that a
\* program fills after it, lists each index once and in order (CpuMask::get).
THEOREM MasksIncrease == Spec => []Increasing
<1>1. ListInv => Increasing
  BY InvIncreasing DEF ListInv, MaskInv
<1>2. QED BY <1>1, AlwaysListInv, PTL

\* An index after those in the mask, or an interval that may be asked for, is
\* refused only when the layout that the two smallest indices decide cannot hold
\* the set, whether or not the other could (CpuMask::append, CpuMask::appendRange).
THEOREM MasksRefuseOnlyWhenFull == Spec => []RefusedOnlyWhenFull
<1>1. ListInv => RefusedOnlyWhenFull
  BY InvRefusedOnlyWhenFull DEF ListInv, MaskInv
<1>2. QED BY <1>1, AlwaysListInv, PTL

\* Every mask is written as a list that reads as the same word
\* (CpuMask::getStr, CpuMask::setStr).
THEOREM MasksAreReadBack == Spec => []RoundTrip
<1>1. ListInv => RoundTrip
  BY InvRoundTrip DEF ListInv, MaskInv
<1>2. QED BY <1>1, AlwaysListInv, PTL

\* Whatever the constructor reads, the mask does to its indices what a set
\* does, item by item, or refuses and leaves them alone.
THEOREM ListsAreIndexSets == Spec => ImplementsIndexSet
<1>1. Init => Indices!Init
  <2>1. WellFormed(Empty) /\ Covered(Empty) = {}
    BY EmptyFacts DEF WellFormed, Covered, IsEmpty
  <2>2. Elements(Empty) = {}
    BY <2>1, ElementsAreCovered
  <2>3. QED BY <2>2 DEF Init, MaskInit, Indices!Init
<1>2. ASSUME ListInv, [Next]_vars PROVE [Indices!Next]_(Indices!vars)
  BY <1>2, ListStep
<1>3. QED BY <1>1, <1>2, AlwaysListInv, PTL DEF Spec, ImplementsIndexSet, Indices!Spec

-----------------------------------------------------------------------------
(* The table of logical CPUs.                                              *)

Active == stage \notin {"idle", "failed"}
AfterCpus == {"P", "E", "pin", "end", "done"}
Infos == [coreId : Nat, coreType : {"Unknown", "Standard", "P", "E"},
          cache : [CacheTypes -> SUBSET Nat]]

\* It is made after the Cpu, whose features stay as they are.
Table ==
  /\ stage # "idle" => at = "ready"
  /\ Active => machine.os # "other"
  /\ Active => logicalCpus_ \in [0..(Count - 1) -> Infos]
  /\ stage \in {"cpu", "cache"} => cpuIdx < Count /\ accepted = {}
  /\ stage = "idle" => cpuIdx = 0 /\ cacheIdx = 0 /\ accepted = {}
  /\ stage = "cache" => cacheIdx >= 1
  /\ stage = "core" => cacheIdx = 0
  /\ stage \in {"P", "E", "pin"} \/ accepted # {} => Hybrid
  /\ accepted \subseteq {"P", "E"}

\* Linux: the cores and the types of the CPUs that the loop has passed.
CoreRead(i) ==
  \/ stage \in AfterCpus
  \/ stage = "cpu" /\ i < cpuIdx
  \/ stage = "cache" /\ i <= cpuIdx

LinuxCores ==
  machine.os = "linux" /\ Active =>
    /\ \A i \in 0..(Count - 1) :
         CoreRead(i) => logicalCpus_[i].coreId = IF Online(i) THEN machine.core[i] ELSE 0
    /\ stage = "done" =>
         physicalCoreNum_ = 1 + Max({logicalCpus_[i].coreId : i \in 0..(Count - 1)})

OfKind(k) == {d \in machine.online : Kind(d) = k}
Readable(k) == k \in machine.lists /\ (OfKind(k) = {} \/ Fits(OfKind(k)))

\* When the type of a CPU is known for certain.
TypeRead(i) ==
  \/ stage \in {"P", "E"} /\ Kind(i) \in accepted
  \/ stage = "pin" /\ i < cpuIdx /\ i \in machine.allowed
  \/ /\ stage \in {"end", "done"} /\ Hybrid
     /\ accepted = {"P", "E"} \/ (machine.getaffinity /\ i \in machine.allowed)

LinuxTypes ==
  machine.os = "linux" /\ Active =>
    /\ \A i \in 0..(Count - 1) : Online(i) /\ CoreRead(i) =>
         /\ logicalCpus_[i].coreType \in {"Standard", Kind(i)}
         /\ ~Hybrid => logicalCpus_[i].coreType = "Standard"
         /\ TypeRead(i) => logicalCpus_[i].coreType = Kind(i)
    /\ stage = "pin" => accepted # {"P", "E"} /\ machine.getaffinity
    /\ Hybrid /\ stage \in AfterCpus \ {"P"} /\ Readable("P") => "P" \in accepted
    /\ Hybrid /\ stage \in AfterCpus \ {"P", "E"} /\ Readable("E") => "E" \in accepted

\* Linux: the caches.
CacheRead(i, k) ==
  \/ stage \in AfterCpus
  \/ stage \in {"cpu", "cache"} /\ i < cpuIdx
  \/ stage = "cache" /\ i = cpuIdx /\ k < cacheIdx

LinuxCaches ==
  machine.os = "linux" /\ Active =>
    \A i \in 0..(Count - 1) : Online(i) =>
      /\ \A t \in CacheTypes : logicalCpus_[i].cache[t] \subseteq Shared(t, i)
      /\ \A k \in DOMAIN machine.files :
           LET t == machine.files[k] IN
           t \in CacheTypes /\ CacheRead(i, k) /\ Fits(Shared(t, i)) =>
             logicalCpus_[i].cache[t] = Shared(t, i)

\* Windows: the records that were read.
RecordRead(k) == (stage = "core" /\ k <= cpuIdx) \/ stage \in {"entry", "done"}

WindowsCores ==
  machine.os = "windows" /\ Active =>
    /\ \A k \in 1..Len(CoreRecords) : RecordRead(k) =>
         \A c \in CoreRecords[k] :
           /\ logicalCpus_[Index(c)].coreId = k - 1
           /\ logicalCpus_[Index(c)].coreType = IF Hybrid THEN Kind(c) ELSE "Standard"
    /\ stage \in {"entry", "done"} => physicalCoreNum_ = Len(CoreRecords)

EntryRead(k, c) ==
  \/ stage = "done"
  \/ stage = "entry" /\ k <= cacheIdx
  \/ /\ stage = "entry" /\ k = cacheIdx + 1
     /\ \E j \in 1..Len(CacheRecords(machine.files[k])) :
          j <= cpuIdx /\ c \in CacheRecords(machine.files[k])[j]

WindowsCaches ==
  machine.os = "windows" /\ Active =>
    \A k \in DOMAIN machine.files, c \in machine.online :
      LET t == machine.files[k] IN
      t \in CacheTypes /\ EntryRead(k, c) =>
        logicalCpus_[Index(c)].cache[t] = {Index(d) : d \in machine.shared[t][c]}

-----------------------------------------------------------------------------
(* A list that fits is read to its end.                                    *)

LEMMA ReadWhole ==
  ASSUME NEW items, IsList(items), Reads(items), todo = <<>>
  PROVE  \E p \in 0..Len(items) :
           /\ Elements(m) = Members(items, p)
           /\ \/ ok = TRUE /\ p = Len(items)
              \/ ok = FALSE /\ p < Len(items) /\ ~AddItem(m, items[p + 1]).ok
<1>1. PICK p \in 0..Len(items) : ReadTo(items, p)
  BY DEF Reads
<1>2. Len(items) \in Nat /\ Len(todo) = 0
  BY DEF IsList
<1>3. Len(todo) = Len(items) - p => p = Len(items)
  BY <1>2
<1>4. QED BY <1>1, <1>3 DEF ReadTo

\* p items begin at most p intervals.
LEMMA FragmentsOfMembers ==
  ASSUME NEW items, IsList(items), NEW p \in 0..Len(items)
  PROVE  Fragments(Members(items, p)) \in Nat /\ Fragments(Members(items, p)) <= p
<1>1. PICK M, T : M = Members(items, p) /\ T = {x \in M : x - 1 \notin M}
  OBVIOUS
<1>2. PICK f : f = [k \in 1..p |-> From(items[k])]
  OBVIOUS
<1>3. Len(items) \in Nat /\ p \in Nat /\ \A k \in 1..p : IsItem(items[k])
  BY DEF IsList
<1>4. IsFiniteSet(1..p) /\ Cardinality(1..p) = p
  BY <1>3, FS_Interval
<1>5. IsFiniteSet({f[k] : k \in 1..p}) /\ Cardinality({f[k] : k \in 1..p}) <= p
  <2>1. f = [k \in 1..p |-> f[k]]
    BY <1>2
  <2>2. QED BY <1>4, <2>1, ImageFacts
<1>6. ASSUME NEW x \in T PROVE x \in {f[k] : k \in 1..p}
  <2>1. PICK k \in 1..p : x \in From(items[k])..UpTo(items[k])
    BY <1>1 DEF Members
  <2>2. From(items[k]) \in Nat /\ UpTo(items[k]) \in Nat
    BY <1>3, ItemFacts
  <2>3. x - 1 \notin From(items[k])..UpTo(items[k])
    BY <1>1 DEF Members
  <2>4. x = From(items[k])
    BY <2>1, <2>2, <2>3
  <2>5. QED BY <1>2, <2>4
<1>7. PICK U : U = {f[k] : k \in 1..p}
  OBVIOUS
<1>8. T \in SUBSET U
  BY <1>6, <1>7
<1>9. IsFiniteSet(T) /\ Cardinality(T) <= Cardinality(U)
  BY <1>5, <1>7, <1>8, FS_Subset
<1>10. Cardinality(T) \in Nat /\ Cardinality(U) \in Nat
  BY <1>5, <1>7, <1>9, FS_CardinalityType
<1>11. Cardinality(T) <= p
  BY <1>3, <1>5, <1>7, <1>9, <1>10
<1>12. QED BY <1>1, <1>10, <1>11 DEF Fragments

\* A set is read to its end if the mask can hold it.
LEMMA FittingIsRead ==
  ASSUME MaskInv, NEW S, S \subseteq Nat, IsFiniteSet(S), Reads(Items(S)), todo = <<>>
  PROVE  /\ Elements(m) \subseteq S
         /\ ok = TRUE => Elements(m) = S
         /\ Fits(S) => ok = TRUE
<1>1. PICK items : items = Items(S)
  OBVIOUS
<1>2. /\ IsList(items) /\ Len(items) = Fragments(S) /\ Len(items) \in Nat
      /\ \A j, k \in 1..Len(items) : j < k => UpTo(items[j]) + 1 < From(items[k])
      /\ \A k \in 1..Len(items) : /\ From(items[k]) \in S
                                  /\ From(items[k])..UpTo(items[k]) \subseteq S
      /\ \A x \in S : \E k \in 1..Len(items) : x \in From(items[k])..UpTo(items[k])
  <2>1. IsList(Items(S)) => Len(Items(S)) \in Nat
    BY DEF IsList
  <2>2. QED BY <1>1, <2>1, ItemsFacts
<1>3. PICK p \in 0..Len(items) :
        /\ Elements(m) = Members(items, p)
        /\ \/ ok = TRUE /\ p = Len(items)
           \/ ok = FALSE /\ p < Len(items) /\ ~AddItem(m, items[p + 1]).ok
  BY <1>1, <1>2, ReadWhole
<1>4. Members(items, p) \subseteq S
  <2>1. \A k \in 1..p : k \in 1..Len(items)
    BY <1>2
  <2>2. QED BY <1>2, <2>1 DEF Members
<1>5. p = Len(items) => Members(items, p) = S
  BY <1>2, <1>4 DEF Members
<1>6. ASSUME Fits(S), p < Len(items), ~AddItem(m, items[p + 1]).ok PROVE FALSE
  <2>1. p + 1 \in 1..Len(items) /\ p + 1 \in 0..Len(items)
    BY <1>2, <1>6
  <2>2. PICK item, v, w : item = items[p + 1] /\ v = From(item) /\ w = UpTo(item)
    OBVIOUS
  <2>3. IsItem(item) /\ v \in Nat /\ w \in Nat /\ v <= w /\ v..w \subseteq S /\ v \in S
    BY <1>2, <2>1, <2>2, ItemFacts DEF IsList
  <2>4. w \in S /\ S \subseteq 0..Mask /\ v \in 0..Mask /\ w \in 0..Mask
    BY <1>6, <2>3, HalfFacts DEF Fits
  <2>5. ASSUME NEW x \in Elements(m) PROVE x + 1 < v /\ x \in Nat
    <3>1. PICK k \in 1..p : x \in From(items[k])..UpTo(items[k])
      BY <1>3 DEF Members
    <3>2. k \in 1..Len(items) /\ k < p + 1
      BY <1>2, <2>1
    <3>3. UpTo(items[k]) + 1 < v /\ UpTo(items[k]) \in Nat /\ From(items[k]) \in Nat
      BY <1>2, <2>1, <2>2, <3>2, ItemFacts DEF IsList
    <3>4. QED BY <2>3, <3>1, <3>3
  <2>6. Members(items, p + 1) = Elements(m) \cup (v..w)
    BY <1>2, <1>3, <1>6, <2>2, MembersFacts
  <2>7. Elements(m) \subseteq S
    BY <1>3, <1>4
  <2>8. /\ ~IsEmpty(m) /\ WellFormed(m) /\ m.range \in BOOLEAN
        /\ m.range => N \div 2 < Fragments(Elements(m) \cup (v..w))
        /\ ~m.range /\ v = w => N < Cardinality(Elements(m) \cup {v})
    <3>1. WellFormed(m) /\ m.range \in BOOLEAN
      BY DEF MaskInv, WellFormed, Masks
    <3>2. CASE Len(item) = 1
      <4>1. item[1] = v /\ w = v /\ v..v = {v}
        BY <2>2, <2>3, <3>2 DEF From, UpTo
      <4>2. ~AppendTo(m, v).ok
        BY <1>6, <2>2, <3>2, <4>1 DEF AddItem
      <4>3. \A x \in Elements(m) : x < v
        BY <2>3, <2>5
      <4>4. /\ ~IsEmpty(m)
            /\ IF m.range THEN N \div 2 < Fragments(Elements(m) \cup {v})
               ELSE N < Cardinality(Elements(m) \cup {v})
        BY <2>4, <3>1, <4>2, <4>3, RefusedIndex
      <4>5. QED BY <3>1, <4>1, <4>4
    <3>3. CASE Len(item) = 2 /\ item[1] < item[2]
      <4>1. item[1] = v /\ item[2] = w /\ v # w
        BY <2>2, <2>3, <3>3 DEF From, UpTo
      <4>2. ~AppendRangeTo(m, v, w).ok
        BY <1>6, <2>2, <3>3, <4>1 DEF AddItem
      <4>3. ~IsEmpty(m) /\ (m.range => N \div 2 < Fragments(Elements(m) \cup (v..w)))
        BY <2>3, <2>4, <2>5, <3>1, <4>2, RefusedRange
      <4>4. QED BY <3>1, <4>1, <4>3
    <3>4. QED BY <2>3, <3>2, <3>3 DEF IsItem
  <2>9. /\ Elements(m) # {}
        /\ m.range => \E x \in Elements(m) : x + 1 \in Elements(m)
        /\ ~m.range => \A x \in Elements(m) : x + 1 \in Elements(m) => \E y \in Elements(m) : y < x
    BY <2>8, RangeIsAdjacent
  <2>10. CASE Fragments(S) = Cardinality(S) /\ Cardinality(S) <= N
    <3>1. PICK T : T = {x \in S : x - 1 \notin S}
      OBVIOUS
    <3>2. T \in SUBSET S /\ Cardinality(T) = Cardinality(S)
      BY <2>10, <3>1 DEF Fragments
    <3>3. T = S
      BY <3>2, FS_Subset
    <3>4. \A x \in S : x + 1 \notin S
      <4>1. TAKE x \in S
      <4>2. x \in Nat /\ (x + 1) - 1 = x
        OBVIOUS
      <4>3. QED BY <3>1, <3>3, <4>2
    <3>5. ~m.range
      BY <2>7, <2>9, <3>4
    <3>6. v = w
      <4>1. v < w => v + 1 \in v..w
        BY <2>3
      <4>2. QED BY <2>3, <3>4, <4>1
    <3>7. Elements(m) \cup {v} \in SUBSET S
      BY <2>3, <2>7
    <3>8. PICK U : U = Elements(m) \cup {v}
      OBVIOUS
    <3>9. Cardinality(U) <= Cardinality(S) /\ IsFiniteSet(U)
      BY <3>7, <3>8, FS_Subset
    <3>10. Cardinality(U) \in Nat /\ Cardinality(S) \in Nat
      BY <3>9, FS_CardinalityType
    <3>11. N < Cardinality(U)
      BY <2>8, <3>5, <3>6, <3>8
    <3>12. QED BY <2>10, <3>9, <3>10, <3>11, HalfFacts
  <2>11. CASE Min(S) + 1 \in S /\ Fragments(S) <= N \div 2
    <3>1. PICK b \in S : \A y \in S : b <= y
      BY <2>3, Least
    <3>2. Min(S) = b
      <4>1. \A x \in S : (\A y \in S : x <= y) => x = b
        BY <3>1
      <4>2. QED BY <3>1, <4>1 DEF Min
    <3>3. ~m.range => b \in Elements(m) /\ b + 1 \in Elements(m)
      <4>1. p > 0
        <5>1. p = 0 => Members(items, p) = {}
          BY DEF Members
        <5>2. QED BY <1>2, <1>3, <2>9, <5>1
      <4>2. 1 \in 1..Len(items) /\ 1 \in 1..p /\ Len(items) >= 1
        BY <1>2, <4>1
      <4>3. PICK k \in 1..Len(items) : b \in From(items[k])..UpTo(items[k])
        BY <1>2
      <4>4. From(items[1]) \in Nat /\ UpTo(items[1]) \in Nat /\ From(items[k]) \in Nat
            /\ UpTo(items[k]) \in Nat /\ From(items[1]) <= UpTo(items[1])
        BY <1>2, <4>2, ItemFacts DEF IsList
      <4>5. k = 1
        <5>1. 1 < k => UpTo(items[1]) + 1 < From(items[k])
          BY <1>2, <4>2
        <5>2. b <= From(items[1]) /\ b \in Nat
          BY <1>2, <3>1, <4>2
        <5>3. ~(1 < k)
          BY <4>3, <4>4, <5>1, <5>2
        <5>4. QED BY <1>2, <5>3
      <4>6. PICK j \in 1..Len(items) : b + 1 \in From(items[j])..UpTo(items[j])
        BY <1>2, <2>11, <3>2
      <4>7. j = 1
        <5>1. 1 < j => UpTo(items[1]) + 1 < From(items[j])
          BY <1>2, <4>2
        <5>2. From(items[j]) \in Nat /\ UpTo(items[j]) \in Nat
          BY <1>2, ItemFacts DEF IsList
        <5>3. ~(1 < j)
          BY <4>3, <4>4, <4>5, <4>6, <5>1, <5>2
        <5>4. QED BY <1>2, <5>3
      <4>8. b \in Members(items, p) /\ b + 1 \in Members(items, p)
        BY <4>2, <4>3, <4>5, <4>6, <4>7 DEF Members
      <4>9. QED BY <1>3, <4>8
    <3>4. m.range
      <4>1. \A y \in Elements(m) : ~(y < b)
        BY <2>5, <2>7, <3>1
      <4>2. QED BY <2>9, <3>3, <4>1
    <3>5. N \div 2 < Fragments(Members(items, p + 1))
      BY <2>6, <2>8, <3>4
    <3>6. Fragments(Members(items, p + 1)) \in Nat /\ Fragments(Members(items, p + 1)) <= p + 1
      BY <1>2, <2>1, FragmentsOfMembers
    <3>7. QED BY <1>2, <2>1, <2>11, <3>5, <3>6, HalfFacts
  <2>12. QED BY <1>6, <2>10, <2>11 DEF Fits
<1>7. QED BY <1>1, <1>3, <1>4, <1>5, <1>6

-----------------------------------------------------------------------------
(* Steps of the constructor on the table.                                  *)

LEMMA MachineKept == ASSUME [Next]_vars PROVE machine' = machine
<1>1. CASE Detect
  BY <1>1, CpuKeepsMachine DEF Detect
<1>2. CASE Topology \/ Client \/ UNCHANGED vars
  BY <1>2, TopologyKeepsCpu DEF cpuVars
<1>3. QED BY <1>1, <1>2 DEF Next

LEMMA CountFacts ==
  ASSUME machine \in Machines
  PROVE  Count \in Nat /\ Count > 0
<1>1. Count \in Nat /\ IsFiniteSet(machine.online) /\ machine.online # {}
  BY MachineFacts, FS_CardinalityType DEF Count
<1>2. QED BY <1>1, FS_EmptySet DEF Count

LEMMA InfoFacts ==
  ASSUME NEW r \in Infos
  PROVE  /\ \A x \in Nat, k \in {"Unknown", "Standard", "P", "E"} :
              [r EXCEPT !.coreId = x, !.coreType = k] \in Infos
         /\ \A k \in {"Unknown", "Standard", "P", "E"} : [r EXCEPT !.coreType = k] \in Infos
         /\ \A t \in CacheTypes, S \in SUBSET Nat : [r EXCEPT !.cache = [r.cache EXCEPT ![t] = S]] \in Infos
BY DEF Infos

LEMMA LogicalCpuIsInfo == LogicalCpu \in Infos
BY DEF LogicalCpu, Infos

\* Once the table is made the Cpu stays as it is.
LEMMA CpuIsReady == ASSUME at = "ready" PROVE ~Detect
BY DEF Detect, CpuNext, DetectVendor, DetectExtended, DetectBasic, DetectVector,
       DetectStructured, DetectLate, SetNumCores, ReadCache, EndCaches, LegacyCaches

LEMMA ElementsAreNat == ASSUME MaskInv PROVE Elements(m) \in SUBSET Nat
<1>1. WellFormed(m) /\ Elements(m) = Covered(m)
  BY ElementsAreCovered DEF MaskInv
<1>2. QED BY <1>1, CoveredAreIndices, HalfFacts

LEMMA TableNext ==
  ASSUME ListInv, Table, [Next]_vars
  PROVE  Table'
<1>1. machine \in Machines /\ machine' = machine /\ Count' = Count /\ Staged
  BY MachineKept DEF ListInv, Staged, Count
<1>2. Count \in Nat /\ Count > 0 /\ cpuIdx \in Nat /\ cacheIdx \in Nat
  BY <1>1, CountFacts DEF Staged
<1>3. MaskInv /\ Elements(m) \in SUBSET Nat
  BY ElementsAreNat DEF ListInv
<1>4. ASSUME UNCHANGED <<stage, at, type_, logicalCpus_, cpuIdx, cacheIdx, accepted>> PROVE Table'
  BY <1>1, <1>4 DEF Table, Active, Hybrid
<1>5. CASE Detect
  <2>1. stage = "idle"
    BY <1>5, CpuIsReady DEF Table
  <2>2. QED BY <1>5, <2>1 DEF Detect, topoVars, Table, Active, Hybrid
<1>6. CASE Client \/ UNCHANGED vars
  BY <1>4, <1>6 DEF Client, vars, cpuVars, topoVars, loops
<1>7. CASE Topology
  <2> DEFINE D == 0..(Count - 1)
  <2>1. UNCHANGED <<at, type_>> /\ Hybrid' = Hybrid
    BY <1>7, TopologyKeepsCpu DEF cpuVars, Hybrid
  <2>2. CASE Begin
    <3>1. CASE machine.os = "other" \/ TooMany
      BY <2>1, <2>2, <3>1 DEF Begin, Table, Active, Fail, loops
    <3>2. CASE ~(machine.os = "other" \/ TooMany)
      <4>1. logicalCpus_' = [i \in D |-> LogicalCpu]
        BY <2>2, <3>2 DEF Begin
      <4>2. logicalCpus_' \in [D -> Infos]
        BY <4>1, LogicalCpuIsInfo
      <4>3. QED BY <1>1, <1>2, <2>1, <2>2, <3>2, <4>2 DEF Begin, Table, Active, loops
    <3>3. QED BY <3>1, <3>2
  <2>3. CASE ReadCoreId
    <3>1. logicalCpus_ \in [D -> Infos] /\ stage = "cpu" /\ cpuIdx \in D
      BY <1>2, <2>3 DEF ReadCoreId, Table, Active
    <3>2. PICK x \in Nat : x = IF Online(cpuIdx) THEN machine.core[cpuIdx] ELSE 0
      BY <1>1, CpuTopologyAssumption DEF Online
    <3>3. logicalCpus_' = [logicalCpus_ EXCEPT ![cpuIdx] =
             [logicalCpus_[cpuIdx] EXCEPT !.coreId = x, !.coreType = "Standard"]]
      BY <2>3, <3>1, <3>2 DEF ReadCoreId, Infos
    <3>4. [logicalCpus_[cpuIdx] EXCEPT !.coreId = x, !.coreType = "Standard"] \in Infos
      BY <3>1, InfoFacts
    <3>5. logicalCpus_' \in [D -> Infos]
      BY <3>1, <3>3, <3>4
    <3>6. QED BY <1>1, <2>1, <2>3, <3>1, <3>5 DEF ReadCoreId, Table, Active
  <2>4. CASE OpenShared
    BY <1>1, <1>2, <2>1, <2>4 DEF OpenShared, Table, Active, list
  <2>5. CASE ReadItem
    <3>1. stage # "idle"
      BY <2>5 DEF ReadItem, ListInv, Reading
    <3>2. QED BY <1>1, <2>1, <2>5, <3>1 DEF ReadItem, Table, Active, Fail, loops
  <2>6. CASE EndShared
    <3>1. logicalCpus_ \in [D -> Infos] /\ stage = "cache" /\ cpuIdx \in D
      BY <1>2, <2>6 DEF EndShared, Table, Active
    <3>2. PICK t \in CacheTypes : t = FileType
      BY <2>6 DEF EndShared, ListInv, Reading, InCache
    <3>3. logicalCpus_' = [logicalCpus_ EXCEPT ![cpuIdx] =
            [logicalCpus_[cpuIdx] EXCEPT !.cache = [logicalCpus_[cpuIdx].cache EXCEPT ![t] = Elements(m)]]]
      BY <2>6, <3>1, <3>2 DEF EndShared
    <3>4. [logicalCpus_[cpuIdx] EXCEPT !.cache = [logicalCpus_[cpuIdx].cache EXCEPT ![t] = Elements(m)]] \in Infos
      BY <1>3, <3>1, InfoFacts
    <3>5. logicalCpus_' \in [D -> Infos]
      BY <3>1, <3>3, <3>4
    <3>6. QED BY <1>1, <1>2, <2>1, <2>6, <3>1, <3>5 DEF EndShared, Table, Active
  <2>7. CASE NextCpu
    BY <1>1, <1>2, <2>1, <2>7 DEF NextCpu, Table, Active, list
  <2>8. CASE OpenTypes
    BY <1>1, <2>1, <2>8 DEF OpenTypes, AfterTypes, Table, Active, list
  <2>9. CASE EndTypes
    <3>1. logicalCpus_ \in [D -> Infos] /\ stage \in {"P", "E"}
      BY <2>9 DEF EndTypes, Table, Active
    <3>2. logicalCpus_' \in [D -> Infos]
      <4>1. CASE ~ok
        BY <2>9, <3>1, <4>1 DEF EndTypes
      <4>2. CASE ok
        <5>1. logicalCpus_' = [i \in D |-> IF i \in Elements(m)
                                           THEN [logicalCpus_[i] EXCEPT !.coreType = stage]
                                           ELSE logicalCpus_[i]]
          BY <2>9, <3>1, <4>2 DEF EndTypes
        <5>2. \A i \in D : [logicalCpus_[i] EXCEPT !.coreType = stage] \in Infos /\ logicalCpus_[i] \in Infos
          BY <3>1, InfoFacts
        <5>3. QED BY <5>1, <5>2
      <4>3. QED BY <4>1, <4>2
    <3>3. QED BY <1>1, <2>1, <2>9, <3>1, <3>2 DEF EndTypes, AfterTypes, Table, Active
  <2>10. CASE Pin
    <3>1. logicalCpus_ \in [D -> Infos] /\ stage = "pin" /\ cpuIdx \in D
      BY <1>2, <2>10 DEF Pin, Table, Active
    <3>2. PICK k \in {"Standard", "P", "E"} :
            logicalCpus_' = [logicalCpus_ EXCEPT ![cpuIdx] = [logicalCpus_[cpuIdx] EXCEPT !.coreType = k]]
      <4>1. CASE cpuIdx \in machine.allowed
        <5>1. cpuIdx \in machine.online
          BY <1>1, <4>1, CpuTopologyAssumption
        <5>2. Kind(cpuIdx) \in {"P", "E"}
          BY <1>1, <5>1, CpuTopologyAssumption DEF Kind
        <5>3. QED BY <2>10, <3>1, <4>1, <5>2 DEF Pin
      <4>2. CASE cpuIdx \notin machine.allowed
        BY <2>10, <3>1, <4>2 DEF Pin
      <4>3. QED BY <4>1, <4>2
    <3>3. [logicalCpus_[cpuIdx] EXCEPT !.coreType = k] \in Infos
      BY <3>1, InfoFacts
    <3>4. logicalCpus_' \in [D -> Infos]
      BY <3>1, <3>2, <3>3
    <3>5. QED BY <1>1, <2>1, <2>10, <3>1, <3>4 DEF Pin, Table, Active
  <2>11. CASE Unpin \/ End \/ QueryFails
    BY <1>1, <2>1, <2>11 DEF Unpin, End, QueryFails, Table, Active, Fail, loops
  <2>12. CASE ReadCore
    <3>1. logicalCpus_ \in [D -> Infos] /\ stage = "core"
      BY <2>12 DEF ReadCore, Table, Active
    <3>2. PICK core : core = CoreRecords[cpuIdx + 1]
      OBVIOUS
    <3>3. CASE \E c \in core : Index(c) >= Count
      BY <2>1, <2>12, <3>2, <3>3 DEF ReadCore, Table, Active, Fail
    <3>4. CASE ~(\E c \in core : Index(c) >= Count)
      <4>1. PICK k : k = IF Hybrid THEN Kind(Min(core)) ELSE "Standard"
        OBVIOUS
      <4>2. k \in {"Unknown", "Standard", "P", "E"}
        <5>1. cpuIdx + 1 \in 1..Len(CoreRecords)
          BY <1>1, <1>2, <2>12, CoreRecordsFacts DEF ReadCore
        <5>2. Min(core) \in machine.online
          BY <1>1, <3>2, <5>1, CoreRecordsFacts
        <5>3. QED BY <1>1, <4>1, <5>2, CpuTopologyAssumption DEF Kind
      <4>3. PICK r : r = [LogicalCpu EXCEPT !.coreId = cpuIdx, !.coreType = k]
        OBVIOUS
      <4>4. r \in Infos
        BY <1>2, <4>2, <4>3, LogicalCpuIsInfo, InfoFacts
      <4>5. logicalCpus_' = [i \in D |-> IF \E c \in core : Index(c) = i THEN r ELSE logicalCpus_[i]]
        BY <2>12, <3>1, <3>2, <3>4, <4>1, <4>3 DEF ReadCore
      <4>6. logicalCpus_' \in [D -> Infos]
        BY <3>1, <4>4, <4>5
      <4>7. QED BY <1>1, <2>1, <2>12, <3>2, <3>4, <4>6 DEF ReadCore, Table, Active
    <3>5. QED BY <3>3, <3>4
  <2>13. CASE EndCores
    BY <1>1, <2>1, <2>13 DEF EndCores, Table, Active
  <2>14. CASE OpenEntry
    BY <1>1, <2>1, <2>14 DEF OpenEntry, MoreEntries, Table, Active, list
  <2>15. CASE EndEntry
    <3>1. logicalCpus_ \in [D -> Infos] /\ stage = "entry" /\ reading
      BY <2>15 DEF EndEntry, Table, Active
    <3>2. CASE ~ok \/ \E i \in Elements(m) : i >= Count
      BY <2>1, <2>15, <3>2 DEF EndEntry, Table, Active, Fail
    <3>3. CASE ~(~ok \/ \E i \in Elements(m) : i >= Count)
      <4>1. PICK t \in CacheTypes : t = EntryType
        BY <3>1 DEF ListInv, Reading, InEntry
      <4>2. PICK f : f = [i \in D |->
              [logicalCpus_[i] EXCEPT !.cache = [logicalCpus_[i].cache EXCEPT ![t] = Elements(m)]]]
        OBVIOUS
      <4>3. \A i \in D : f[i] \in Infos
        BY <1>3, <3>1, <4>2, InfoFacts
      <4>4. logicalCpus_' = [i \in D |-> IF i \in Elements(m) THEN f[i] ELSE logicalCpus_[i]]
        BY <2>15, <3>1, <3>3, <4>1, <4>2 DEF EndEntry
      <4>5. logicalCpus_' \in [D -> Infos]
        BY <3>1, <4>3, <4>4
      <4>6. QED BY <1>1, <2>1, <2>15, <3>3, <4>5 DEF EndEntry, Table, Active
    <3>4. QED BY <3>2, <3>3
  <2>16. CASE NextType \/ EndEntries
    BY <1>1, <2>1, <2>16 DEF NextType, EndEntries, MoreEntries, Table, Active, loops
  <2>17. QED
    BY <1>7, <2>2, <2>3, <2>4, <2>5, <2>6, <2>7, <2>8, <2>9, <2>10, <2>11, <2>12, <2>13, <2>14,
       <2>15, <2>16 DEF Topology
<1>8. QED BY <1>5, <1>6, <1>7 DEF Next

-----------------------------------------------------------------------------
(* What the steps of Linux do to the table.                                *)

\* Only these steps are taken by a constructor that has not failed.
LEMMA LinuxSteps ==
  ASSUME Staged, Table, machine.os = "linux", [Next]_vars, Active'
  PROVE  \/ Begin \/ ReadCoreId \/ OpenShared \/ EndShared \/ NextCpu
         \/ (ReadItem /\ UNCHANGED stage)
         \/ OpenTypes \/ EndTypes \/ Pin \/ Unpin \/ End \/ UNCHANGED vars
<1>1. stage \notin {"core", "entry"}
  BY DEF Staged
<1>2. ~Detect
  BY CpuIsReady DEF Table, Active, Detect, topoVars
<1>3. ~Client
  BY DEF Client, Active
<1>4. ReadItem => UNCHANGED stage
  BY DEF ReadItem, Fail, Active
<1>5. ~QueryFails /\ ~ReadCore /\ ~EndCores
  BY <1>1 DEF QueryFails, ReadCore, EndCores
<1>6. ~OpenEntry /\ ~EndEntry /\ ~NextType /\ ~EndEntries
  BY <1>1 DEF OpenEntry, EndEntry, NextType, EndEntries, MoreEntries
<1>7. QED BY <1>2, <1>3, <1>4, <1>5, <1>6 DEF Next, Topology

LEMMA ReadCoreIdSets ==
  ASSUME Staged, Table, ReadCoreId
  PROVE  /\ stage = "cpu" /\ stage' = "cache" /\ cpuIdx' = cpuIdx /\ cpuIdx \in 0..(Count - 1)
         /\ logicalCpus_'[cpuIdx].coreId = IF Online(cpuIdx) THEN machine.core[cpuIdx] ELSE 0
         /\ logicalCpus_'[cpuIdx].coreType = "Standard"
         /\ logicalCpus_'[cpuIdx].cache = logicalCpus_[cpuIdx].cache
         /\ \A i \in 0..(Count - 1) : i # cpuIdx => logicalCpus_'[i] = logicalCpus_[i]
<1>1. /\ stage = "cpu" /\ stage' = "cache" /\ cpuIdx' = cpuIdx /\ cpuIdx \in 0..(Count - 1)
      /\ logicalCpus_ \in [0..(Count - 1) -> Infos]
  BY CountFacts DEF ReadCoreId, Staged, Table, Active
<1>2. PICK x, r : /\ x = IF Online(cpuIdx) THEN machine.core[cpuIdx] ELSE 0
                  /\ r = logicalCpus_[cpuIdx]
  OBVIOUS
<1>3. logicalCpus_' = [logicalCpus_ EXCEPT ![cpuIdx] = [r EXCEPT !.coreId = x, !.coreType = "Standard"]]
  BY <1>1, <1>2 DEF ReadCoreId, Infos
<1>4. r \in Infos
  BY <1>1, <1>2
<1>5. PICK s : s = [r EXCEPT !.coreId = x, !.coreType = "Standard"]
  OBVIOUS
<1>6. s.coreId = x /\ s.coreType = "Standard" /\ s.cache = r.cache
  BY <1>4, <1>5 DEF Infos
<1>7. QED BY <1>1, <1>2, <1>3, <1>5, <1>6

LEMMA EndSharedSets ==
  ASSUME ListInv, Table, EndShared
  PROVE  /\ stage = "cache" /\ stage' = "cache" /\ cpuIdx' = cpuIdx /\ cacheIdx' = cacheIdx + 1
         /\ cpuIdx \in 0..(Count - 1) /\ FileType \in CacheTypes
         /\ logicalCpus_'[cpuIdx].coreId = logicalCpus_[cpuIdx].coreId
         /\ logicalCpus_'[cpuIdx].coreType = logicalCpus_[cpuIdx].coreType
         /\ \A u \in CacheTypes : logicalCpus_'[cpuIdx].cache[u] =
              IF u = FileType THEN Elements(m) ELSE logicalCpus_[cpuIdx].cache[u]
         /\ \A i \in 0..(Count - 1) : i # cpuIdx => logicalCpus_'[i] = logicalCpus_[i]
<1>1. /\ stage = "cache" /\ stage' = "cache" /\ cpuIdx' = cpuIdx /\ cpuIdx \in 0..(Count - 1)
      /\ cacheIdx' = cacheIdx + 1 /\ logicalCpus_ \in [0..(Count - 1) -> Infos]
  BY CountFacts DEF EndShared, ListInv, Staged, Table, Active
<1>2. PICK t, r : t \in CacheTypes /\ t = FileType /\ r = logicalCpus_[cpuIdx]
  BY DEF EndShared, ListInv, Reading, InCache
<1>3. logicalCpus_' = [logicalCpus_ EXCEPT ![cpuIdx] =
         [r EXCEPT !.cache = [r.cache EXCEPT ![t] = Elements(m)]]]
  BY <1>1, <1>2 DEF EndShared
<1>4. r \in Infos
  BY <1>1, <1>2
<1>5. PICK s : s = [r EXCEPT !.cache = [r.cache EXCEPT ![t] = Elements(m)]]
  OBVIOUS
<1>6. /\ s.coreId = r.coreId /\ s.coreType = r.coreType
      /\ \A u \in CacheTypes : s.cache[u] = IF u = t THEN Elements(m) ELSE r.cache[u]
  BY <1>4, <1>5 DEF Infos
<1>7. QED BY <1>1, <1>2, <1>3, <1>5, <1>6

LEMMA EndTypesSets ==
  ASSUME Table, EndTypes
  PROVE  \A i \in 0..(Count - 1) :
           /\ logicalCpus_'[i].coreId = logicalCpus_[i].coreId
           /\ logicalCpus_'[i].cache = logicalCpus_[i].cache
           /\ logicalCpus_'[i].coreType =
                IF ok /\ i \in Elements(m) THEN stage ELSE logicalCpus_[i].coreType
<1>1. logicalCpus_ \in [0..(Count - 1) -> Infos]
  BY DEF EndTypes, Table, Active
<1>2. CASE ~ok
  BY <1>2 DEF EndTypes
<1>3. CASE ok
  <2>1. TAKE i \in 0..(Count - 1)
  <2>2. PICK r \in Infos : r = logicalCpus_[i]
    BY <1>1
  <2>3. logicalCpus_'[i] = IF i \in Elements(m) THEN [r EXCEPT !.coreType = stage] ELSE r
    BY <1>1, <1>3, <2>2 DEF EndTypes
  <2>4. PICK s : s = [r EXCEPT !.coreType = stage]
    OBVIOUS
  <2>5. s.coreId = r.coreId /\ s.coreType = stage /\ s.cache = r.cache
    BY <2>4 DEF Infos
  <2>6. QED BY <1>3, <2>2, <2>3, <2>4, <2>5
<1>4. QED BY <1>2, <1>3

LEMMA PinSets ==
  ASSUME Staged, Table, Pin
  PROVE  \A i \in 0..(Count - 1) :
           /\ logicalCpus_'[i].coreId = logicalCpus_[i].coreId
           /\ logicalCpus_'[i].cache = logicalCpus_[i].cache
           /\ i = cpuIdx => logicalCpus_'[i].coreType =
                              IF i \in machine.allowed THEN Kind(i) ELSE "Standard"
           /\ i # cpuIdx => logicalCpus_'[i].coreType = logicalCpus_[i].coreType
<1>1. logicalCpus_ \in [0..(Count - 1) -> Infos] /\ cpuIdx \in 0..(Count - 1)
  BY CountFacts DEF Pin, Staged, Table, Active
<1>2. PICK k, r, s : /\ k = IF cpuIdx \in machine.allowed THEN Kind(cpuIdx) ELSE "Standard"
                     /\ r = logicalCpus_[cpuIdx] /\ s = [r EXCEPT !.coreType = k]
  OBVIOUS
<1>3. logicalCpus_' = [logicalCpus_ EXCEPT ![cpuIdx] = s]
  BY <1>1, <1>2 DEF Pin
<1>4. r \in Infos
  BY <1>1, <1>2
<1>5. s.coreId = r.coreId /\ s.coreType = k /\ s.cache = r.cache
  BY <1>2, <1>4 DEF Infos
<1>6. QED BY <1>1, <1>2, <1>3, <1>5

\* The core of every CPU that the loop has passed.
LEMMA LinuxCoresNext ==
  ASSUME ListInv, Table, LinuxCores, [Next]_vars
  PROVE  LinuxCores'
<1>1. machine' = machine /\ Count' = Count /\ Staged /\ machine \in Machines
  BY MachineKept DEF Count, ListInv, Staged
<1>2. SUFFICES ASSUME machine.os = "linux", Active'
               PROVE  LinuxCores'
  BY <1>1 DEF LinuxCores
<1>3. Count \in Nat /\ Count > 0 /\ cpuIdx \in Nat
  BY <1>1, CountFacts DEF Staged
<1>4. ASSUME Active, stage' # "done",
             \A i \in 0..(Count - 1) : logicalCpus_'[i].coreId = logicalCpus_[i].coreId,
             \A i \in 0..(Count - 1) : CoreRead(i)' => CoreRead(i)
      PROVE  LinuxCores'
  BY <1>1, <1>2, <1>4 DEF LinuxCores, Online
<1>5. CASE Begin
  <2>1. stage' = "cpu" /\ cpuIdx' = 0
    BY <1>2, <1>5 DEF Begin, Table, Active, Fail, loops
  <2>2. \A i \in 0..(Count - 1) : ~CoreRead(i)'
    BY <1>3, <2>1 DEF CoreRead, AfterCpus
  <2>3. QED BY <1>1, <2>1, <2>2 DEF LinuxCores
<1>6. CASE ReadCoreId
  <2>1. Active
    BY <1>6 DEF ReadCoreId, Active
  <2>2. /\ stage = "cpu" /\ stage' = "cache" /\ cpuIdx' = cpuIdx /\ cpuIdx \in 0..(Count - 1)
        /\ logicalCpus_'[cpuIdx].coreId = IF Online(cpuIdx) THEN machine.core[cpuIdx] ELSE 0
        /\ \A i \in 0..(Count - 1) : i # cpuIdx => logicalCpus_'[i] = logicalCpus_[i]
    BY <1>1, <1>6, ReadCoreIdSets
  <2>3. ASSUME NEW i \in 0..(Count - 1), CoreRead(i)'
        PROVE  logicalCpus_'[i].coreId = IF Online(i) THEN machine.core[i] ELSE 0
    <3>1. i = cpuIdx \/ (i # cpuIdx /\ CoreRead(i))
      BY <1>3, <2>2, <2>3 DEF CoreRead, AfterCpus
    <3>2. QED BY <1>2, <2>1, <2>2, <3>1 DEF LinuxCores
  <2>4. QED BY <1>1, <2>2, <2>3 DEF LinuxCores, Online
<1>7. CASE OpenShared \/ (ReadItem /\ UNCHANGED stage)
  <2>1. Active /\ stage' # "done"
    BY <1>2, <1>7 DEF OpenShared, ReadItem, Active, ListInv, Reading
  <2>2. UNCHANGED <<stage, cpuIdx, logicalCpus_>>
    BY <1>7 DEF OpenShared, ReadItem, loops
  <2>3. QED BY <1>4, <2>1, <2>2 DEF CoreRead
<1>8. CASE EndShared
  <2>1. \A i \in 0..(Count - 1) : logicalCpus_'[i].coreId = logicalCpus_[i].coreId
    BY <1>8, EndSharedSets
  <2>2. QED BY <1>4, <1>8, <2>1 DEF EndShared, CoreRead, Active
<1>9. CASE NextCpu
  <2>1. \A i \in 0..(Count - 1) : CoreRead(i)' => CoreRead(i)
    <3>1. stage = "cache" /\ cpuIdx < Count /\ cpuIdx' = cpuIdx + 1
      BY <1>9 DEF NextCpu, Table
    <3>2. cpuIdx + 1 < Count => stage' = "cpu"
      BY <1>3, <1>9 DEF NextCpu
    <3>3. QED BY <1>3, <3>1, <3>2 DEF CoreRead, AfterCpus
  <2>2. QED BY <1>4, <1>9, <2>1 DEF NextCpu, Active
<1>10. CASE OpenTypes \/ EndTypes \/ Pin \/ Unpin
  <2>1. \A i \in 0..(Count - 1) : logicalCpus_'[i].coreId = logicalCpus_[i].coreId
    BY <1>1, <1>10, EndTypesSets, PinSets DEF OpenTypes, Unpin
  <2>2. stage \in {"P", "E", "pin"} /\ stage' # "done"
    BY <1>10 DEF OpenTypes, EndTypes, Pin, Unpin, AfterTypes
  <2>3. QED BY <1>4, <2>1, <2>2 DEF CoreRead, AfterCpus, Active
<1>11. CASE End
  <2>1. logicalCpus_ \in [0..(Count - 1) -> Infos]
    BY <1>11 DEF End, Table, Active
  <2>2. DOMAIN logicalCpus_ = 0..(Count - 1)
    BY <2>1
  <2>3. QED BY <1>1, <1>2, <1>11, <2>2 DEF End, LinuxCores, CoreRead, AfterCpus, Active, Online
<1>12. CASE UNCHANGED vars
  BY <1>1, <1>2, <1>12 DEF vars, topoVars, LinuxCores, CoreRead, Active, Online
<1>13. QED BY <1>1, <1>2, <1>5, <1>6, <1>7, <1>8, <1>9, <1>10, <1>11, <1>12, LinuxSteps

\* The types: Standard until the lists or the CPUs tell.
LEMMA LinuxTypesNext ==
  ASSUME ListInv, Table, LinuxTypes, [Next]_vars
  PROVE  LinuxTypes'
<1>1. machine' = machine /\ Count' = Count /\ Staged /\ machine \in Machines
  BY MachineKept DEF Count, ListInv, Staged
<1>2. SUFFICES ASSUME machine.os = "linux", Active'
               PROVE  LinuxTypes'
  BY <1>1 DEF LinuxTypes
<1>3. Count \in Nat /\ Count > 0 /\ cpuIdx \in Nat
  BY <1>1, CountFacts DEF Staged
<1>4. \A k : /\ OfKind(k) \subseteq machine.online /\ OfKind(k)' = OfKind(k)
             /\ Readable(k)' = Readable(k)
  BY <1>1 DEF OfKind, Readable, Kind, Fits
<1>5. \A i : Online(i)' = Online(i) /\ Kind(i)' = Kind(i)
  BY <1>1 DEF Online, Kind
<1>6. \A i : Online(i) => Kind(i) \in {"P", "E"}
  BY <1>1, CpuTopologyAssumption DEF Online, Kind
<1>7. Hybrid' = Hybrid
  <2>1. UNCHANGED cpuVars
    BY <1>1, <1>2, LinuxSteps, TopologyKeepsCpu DEF Topology
  <2>2. QED BY <2>1 DEF cpuVars, Hybrid
<1> DEFINE D == 0..(Count - 1)
           Type(i) == logicalCpus_[i].coreType
           Kept(i) == /\ Type(i) \in {"Standard", Kind(i)}
                      /\ ~Hybrid => Type(i) = "Standard"
                      /\ TypeRead(i) => Type(i) = Kind(i)
           Lists == /\ stage = "pin" => accepted # {"P", "E"} /\ machine.getaffinity
                    /\ Hybrid /\ stage \in AfterCpus \ {"P"} /\ Readable("P") => "P" \in accepted
                    /\ Hybrid /\ stage \in AfterCpus \ {"P", "E"} /\ Readable("E") => "E" \in accepted
<1>8. Active => Lists /\ \A i \in D : Online(i) /\ CoreRead(i) => Kept(i)
  BY <1>2 DEF LinuxTypes
<1>9. SUFFICES Lists' /\ \A i \in D : Online(i) /\ CoreRead(i)' => Kept(i)'
  BY <1>1, <1>5 DEF LinuxTypes
<1>10. ASSUME Active, UNCHANGED <<stage, cpuIdx, accepted>>, \A i \in D : Type(i)' = Type(i)
       PROVE  Lists' /\ \A i \in D : Online(i) /\ CoreRead(i)' => Kept(i)'
  <2>1. \A i : CoreRead(i)' = CoreRead(i) /\ TypeRead(i)' = TypeRead(i)
    BY <1>1, <1>5, <1>7, <1>10 DEF CoreRead, TypeRead
  <2>2. Lists'
    BY <1>1, <1>4, <1>7, <1>8, <1>10
  <2>3. QED BY <1>1, <1>5, <1>7, <1>8, <1>10, <2>1, <2>2
<1>11. CASE Begin
  <2>1. stage' = "cpu" /\ cpuIdx' = 0
    BY <1>2, <1>11 DEF Begin, Table, Active, Fail, loops
  <2>2. \A i \in D : ~CoreRead(i)'
    BY <1>3, <2>1 DEF CoreRead, AfterCpus
  <2>3. QED BY <2>1, <2>2 DEF AfterCpus
<1>12. CASE ReadCoreId
  <2>1. /\ stage = "cpu" /\ stage' = "cache" /\ cpuIdx' = cpuIdx /\ cpuIdx \in D
        /\ Type(cpuIdx)' = "Standard"
        /\ \A i \in D : i # cpuIdx => Type(i)' = Type(i)
    BY <1>1, <1>12, ReadCoreIdSets
  <2>2. ASSUME NEW i \in D, Online(i), CoreRead(i)' PROVE Kept(i)'
    <3>1. ~TypeRead(i)'
      BY <2>1 DEF TypeRead
    <3>2. i # cpuIdx => CoreRead(i) /\ Active
      BY <1>3, <2>1, <2>2 DEF CoreRead, AfterCpus, Active
    <3>3. i # cpuIdx => Kept(i)
      BY <1>8, <2>2, <3>2
    <3>4. QED BY <1>5, <1>7, <2>1, <3>1, <3>3
  <2>3. QED BY <2>1, <2>2 DEF AfterCpus
<1>13. CASE OpenShared \/ (ReadItem /\ UNCHANGED stage) \/ EndShared
  <2>1. Active /\ UNCHANGED <<stage, cpuIdx, accepted>>
    BY <1>13 DEF OpenShared, ReadItem, EndShared, Active, ListInv, Reading, loops
  <2>2. \A i \in D : Type(i)' = Type(i)
    BY <1>13, EndSharedSets DEF OpenShared, ReadItem
  <2>3. QED BY <1>10, <2>1, <2>2
<1>14. CASE NextCpu
  <2>1. stage = "cache" /\ cpuIdx < Count /\ cpuIdx' = cpuIdx + 1 /\ accepted = {} /\ Active
    BY <1>14 DEF NextCpu, Table, Active
  <2>2. UNCHANGED <<logicalCpus_, accepted>>
    BY <1>14 DEF NextCpu
  <2>3. /\ cpuIdx + 1 < Count => stage' = "cpu"
        /\ ~(cpuIdx + 1 < Count) => stage' = IF Hybrid THEN "P" ELSE "end"
    BY <1>3, <1>14, <2>1 DEF NextCpu
  <2>4. ASSUME NEW i \in D, Online(i), CoreRead(i)' PROVE Kept(i)'
    <3>1. CoreRead(i)
      BY <1>3, <2>1, <2>3, <2>4 DEF CoreRead, AfterCpus
    <3>2. ~TypeRead(i)'
      BY <1>7, <2>1, <2>2, <2>3 DEF TypeRead
    <3>3. QED BY <1>5, <1>7, <1>8, <2>1, <2>2, <2>4, <3>1, <3>2
  <2>5. Lists'
    BY <1>7, <2>3 DEF AfterCpus
  <2>6. QED BY <2>4, <2>5
<1>15. ASSUME OpenTypes \/ EndTypes
       PROVE  Lists' /\ \A i \in D : Online(i) /\ CoreRead(i)' => Kept(i)'
  <2>1. stage \in {"P", "E"} /\ Active /\ Hybrid
    BY <1>15 DEF OpenTypes, EndTypes, Table, Active
  <2>2. CASE OpenTypes /\ stage \in machine.lists
    BY <1>10, <2>1, <2>2 DEF OpenTypes
  \* Otherwise the list of the stage was read, or it is not readable.
  <2>3. ASSUME stage' = AfterTypes(accepted'), accepted' \in {accepted, accepted \cup {stage}},
               Readable(stage) => accepted' = accepted \cup {stage},
               \A i \in D : Online(i) =>
                 /\ Type(i)' \in {Type(i), Kind(i)}
                 /\ Kind(i) = stage /\ accepted' # accepted => Type(i)' = Kind(i),
               cpuIdx' = 0
        PROVE  Lists' /\ \A i \in D : Online(i) /\ CoreRead(i)' => Kept(i)'
    <3>1. /\ stage = "P" => stage' = "E"
          /\ stage = "E" => stage' = IF accepted' # {"P", "E"} /\ machine.getaffinity THEN "pin" ELSE "end"
      BY <2>3 DEF AfterTypes
    <3>2. Lists'
      <4>1. accepted \subseteq {"P", "E"}
        BY DEF Table
      <4>2. stage = "E" /\ Readable("P") => "P" \in accepted
        BY <1>8, <2>1 DEF AfterCpus
      <4>3. QED BY <1>1, <1>4, <1>7, <2>1, <2>3, <3>1, <4>1, <4>2 DEF AfterCpus
    <3>3. ASSUME NEW i \in D, Online(i) PROVE Kept(i)'
      <4>1. Kept(i) /\ Kind(i) \in {"P", "E"}
        BY <1>6, <1>8, <2>1, <3>3 DEF CoreRead, AfterCpus
      <4>2. Kind(i) \in accepted => Type(i)' = Kind(i)
        BY <2>1, <2>3, <3>3, <4>1 DEF TypeRead
      <4>3. Kind(i) \in accepted' => Type(i)' = Kind(i)
        BY <2>3, <3>3, <4>2
      <4>4. ASSUME TypeRead(i)' PROVE Kind(i) \in accepted'
        <5>1. ~(i < 0)
          BY <1>3
        <5>2. CASE stage = "P"
          BY <1>5, <2>3, <3>1, <4>4, <5>2 DEF TypeRead
        <5>3. CASE stage = "E"
          BY <1>1, <1>5, <2>3, <3>1, <4>1, <4>4, <5>1, <5>3 DEF TypeRead
        <5>4. QED BY <2>1, <5>2, <5>3
      <4>5. QED BY <1>5, <1>7, <2>1, <2>3, <3>3, <4>1, <4>3, <4>4
    <3>4. QED BY <3>2, <3>3
  <2>4. CASE OpenTypes /\ stage \notin machine.lists
    <3>1. stage' = AfterTypes(accepted') /\ accepted' = accepted /\ cpuIdx' = 0 /\ UNCHANGED logicalCpus_
      BY <2>4 DEF OpenTypes, AfterTypes
    <3>2. ~Readable(stage)
      BY <2>4 DEF Readable
    <3>3. QED BY <2>3, <3>1, <3>2
  <2>5. CASE EndTypes
    <3>1. PICK S : S = OfKind(stage)
      OBVIOUS
    <3>2. S \in SUBSET machine.online /\ IsFiniteSet(machine.online) /\ machine.online \subseteq Nat
      BY <1>1, <1>4, <3>1, MachineFacts
    <3>3. S \subseteq Nat /\ IsFiniteSet(S)
      BY <3>2, FS_Subset, Zenon
    <3>4. Reads(Items(S)) /\ todo = <<>> /\ MaskInv
      BY <2>1, <2>5, <3>1 DEF EndTypes, ListInv, Reading, Opened, OfKind
    <3>5. Elements(m) \subseteq S /\ (ok = TRUE => Elements(m) = S) /\ (Fits(S) => ok = TRUE)
      BY <3>3, <3>4, FittingIsRead
    <3>6. S = {} => ok = TRUE
      <4>1. IsList(Items(S)) /\ Len(Items(S)) = Fragments(S)
        BY <3>3, ItemsFacts
      <4>2. ASSUME S = {} PROVE Fragments(S) = 0
        <5>1. PICK T : T = {x \in S : x - 1 \notin S}
          OBVIOUS
        <5>2. T = {}
          BY <4>2, <5>1
        <5>3. Cardinality(T) = 0
          BY <5>2, FS_EmptySet
        <5>4. QED BY <5>1, <5>3 DEF Fragments
      <4>3. PICK items : items = Items(S)
        OBVIOUS
      <4>4. \E p \in 0..Len(items) : ok = TRUE \/ p < Len(items)
        BY <3>4, <4>1, <4>3, ReadWhole
      <4>5. QED BY <4>1, <4>2, <4>3, <4>4
    <3>7. Readable(stage) => ok = TRUE
      BY <3>1, <3>5, <3>6 DEF Readable
    <3>8. ok \in BOOLEAN
      BY <3>4 DEF MaskInv
    <3>9. \A i \in D : Online(i) =>
            /\ Type(i)' \in {Type(i), Kind(i)}
            /\ Kind(i) = stage /\ accepted' # accepted => Type(i)' = Kind(i)
      <4>1. TAKE i \in D
      <4>2. Type(i)' = IF ok /\ i \in Elements(m) THEN stage ELSE Type(i)
        BY <2>5, EndTypesSets
      <4>3. Online(i) => (i \in S <=> Kind(i) = stage)
        BY <3>1 DEF OfKind, Online
      <4>4. accepted' # accepted => ok = TRUE
        BY <2>5, <3>8 DEF EndTypes
      <4>5. QED BY <3>5, <3>8, <4>2, <4>3, <4>4
    <3>10. /\ accepted' = IF ok THEN accepted \cup {stage} ELSE accepted
           /\ stage' = AfterTypes(accepted') /\ cpuIdx' = 0
      BY <2>5 DEF EndTypes
    <3>11. QED BY <2>3, <3>7, <3>8, <3>9, <3>10
  <2>6. QED BY <1>15, <2>2, <2>4, <2>5
<1>16. CASE Pin
  <2>1. stage = "pin" /\ stage' = "pin" /\ Active /\ accepted' = accepted /\ cpuIdx' = cpuIdx + 1 /\ Hybrid
    BY <1>16 DEF Pin, Table, Active
  <2>2. ASSUME NEW i \in D, Online(i) PROVE Kept(i)'
    <3>1. /\ i = cpuIdx => Type(i)' = IF i \in machine.allowed THEN Kind(i) ELSE "Standard"
          /\ i # cpuIdx => Type(i)' = Type(i)
      BY <1>1, <1>16, PinSets
    <3>2. Kept(i)
      BY <1>8, <2>1, <2>2 DEF CoreRead, AfterCpus
    <3>3. TypeRead(i)' => i \in machine.allowed /\ (i = cpuIdx \/ (i # cpuIdx /\ TypeRead(i)))
      BY <1>1, <1>3, <2>1 DEF TypeRead
    <3>4. QED BY <1>5, <1>7, <2>1, <3>1, <3>2, <3>3
  <2>3. Lists'
    BY <1>1, <1>4, <1>7, <1>8, <2>1 DEF AfterCpus
  <2>4. QED BY <2>2, <2>3
<1>17. CASE Unpin
  <2>1. stage = "pin" /\ stage' = "end" /\ Active /\ UNCHANGED <<accepted, logicalCpus_>> /\ cpuIdx = Count
    BY <1>17 DEF Unpin, Active
  <2>2. ASSUME NEW i \in D, Online(i) PROVE Kept(i)'
    <3>1. Kept(i) /\ accepted # {"P", "E"}
      BY <1>8, <2>1, <2>2 DEF CoreRead, AfterCpus
    <3>2. TypeRead(i)' => TypeRead(i)
      BY <1>1, <1>3, <2>1, <3>1 DEF TypeRead
    <3>3. QED BY <1>5, <1>7, <2>1, <3>1, <3>2
  <2>3. Lists'
    BY <1>1, <1>4, <1>7, <1>8, <2>1 DEF AfterCpus
  <2>4. QED BY <2>2, <2>3
<1>18. CASE End
  <2>1. stage = "end" /\ stage' = "done" /\ Active /\ UNCHANGED <<accepted, logicalCpus_>>
    BY <1>18 DEF End, Active
  <2>2. ASSUME NEW i \in D, Online(i) PROVE Kept(i)'
    <3>1. Kept(i)
      BY <1>8, <2>1, <2>2 DEF CoreRead, AfterCpus
    <3>2. TypeRead(i)' => TypeRead(i)
      BY <1>1, <1>5, <1>7, <2>1 DEF TypeRead
    <3>3. QED BY <1>5, <1>7, <2>1, <3>1, <3>2
  <2>3. Lists'
    BY <1>1, <1>4, <1>7, <1>8, <2>1 DEF AfterCpus
  <2>4. QED BY <2>2, <2>3
<1>19. CASE UNCHANGED vars
  BY <1>2, <1>10, <1>19 DEF vars, topoVars, Active
<1>20. QED
  BY <1>1, <1>2, <1>11, <1>12, <1>13, <1>14, <1>15, <1>16, <1>17, <1>18, <1>19, LinuxSteps

\* The caches: a list that fits the mask is copied, of another only a part.
LEMMA LinuxCachesNext ==
  ASSUME ListInv, Table, LinuxCaches, [Next]_vars
  PROVE  LinuxCaches'
<1>1. machine' = machine /\ Count' = Count /\ Staged /\ machine \in Machines
  BY MachineKept DEF Count, ListInv, Staged
<1>2. SUFFICES ASSUME machine.os = "linux", Active'
               PROVE  LinuxCaches'
  BY <1>1 DEF LinuxCaches
<1>3. Count \in Nat /\ Count > 0 /\ cpuIdx \in Nat /\ cacheIdx \in Nat
  BY <1>1, CountFacts DEF Staged
<1> DEFINE D == 0..(Count - 1)
           Cache(i, t) == logicalCpus_[i].cache[t]
           Part(i) == \A t \in CacheTypes : Cache(i, t) \subseteq Shared(t, i)
           Whole(i, k) == machine.files[k] \in CacheTypes /\ Fits(Shared(machine.files[k], i)) =>
                            Cache(i, machine.files[k]) = Shared(machine.files[k], i)
<1>4. \A i, t : Shared(t, i)' = Shared(t, i) /\ (Online(i)' <=> Online(i)) /\ (Fits(Shared(t, i))' <=> Fits(Shared(t, i)))
  BY <1>1 DEF Shared, Online, Fits
<1>5. Active => \A i \in D : Online(i) =>
        /\ Part(i)
        /\ \A k \in DOMAIN machine.files : CacheRead(i, k) => Whole(i, k)
  BY <1>2 DEF LinuxCaches
<1>6. SUFFICES \A i \in D : Online(i) =>
        /\ Part(i)'
        /\ \A k \in DOMAIN machine.files : CacheRead(i, k)' => Whole(i, k)'
  BY <1>1, <1>4 DEF LinuxCaches
<1>7. ASSUME Active, \A i \in D : \A t \in CacheTypes : Cache(i, t)' = Cache(i, t),
             \A i \in D : \A k \in DOMAIN machine.files :
               Online(i) /\ CacheRead(i, k)' => CacheRead(i, k) \/ machine.files[k] \notin CacheTypes
      PROVE  \A i \in D : Online(i) =>
               /\ Part(i)'
               /\ \A k \in DOMAIN machine.files : CacheRead(i, k)' => Whole(i, k)'
  BY <1>1, <1>4, <1>5, <1>7
<1>8. CASE Begin
  <2>1. stage' = "cpu" /\ cpuIdx' = 0 /\ logicalCpus_' = [i \in D |-> LogicalCpu]
    BY <1>2, <1>8 DEF Begin, Table, Active, Fail, loops
  <2>2. \A i \in D : \A k : ~CacheRead(i, k)'
    BY <1>3, <2>1 DEF CacheRead, AfterCpus
  <2>3. \A i \in D : \A t \in CacheTypes : Cache(i, t)' = {}
    BY <2>1 DEF LogicalCpu
  <2>4. QED BY <2>2, <2>3
<1>9. CASE ReadCoreId
  <2>1. /\ stage = "cpu" /\ stage' = "cache" /\ cpuIdx' = cpuIdx /\ cpuIdx \in D
        /\ logicalCpus_'[cpuIdx].cache = logicalCpus_[cpuIdx].cache
        /\ \A i \in D : i # cpuIdx => logicalCpus_'[i] = logicalCpus_[i]
    BY <1>1, <1>9, ReadCoreIdSets
  <2>2. cacheIdx' = 1 /\ Active
    BY <1>9, <2>1 DEF ReadCoreId, Active
  <2>3. \A k \in DOMAIN machine.files : k \in Nat /\ k >= 1
    BY <1>1, MachineFacts
  <2>4. \A i \in D : \A k \in DOMAIN machine.files : CacheRead(i, k)' => CacheRead(i, k)
    BY <1>3, <2>1, <2>2, <2>3 DEF CacheRead, AfterCpus
  <2>5. \A i \in D : \A t \in CacheTypes : Cache(i, t)' = Cache(i, t)
    BY <2>1
  <2>6. QED BY <1>7, <2>2, <2>4, <2>5
<1>10. CASE OpenShared
  <2>1. stage = "cache" /\ stage' = "cache" /\ cpuIdx' = cpuIdx /\ UNCHANGED logicalCpus_ /\ Active
    BY <1>10 DEF OpenShared, Active
  <2>2. cacheIdx' = cacheIdx \/ (cacheIdx' = cacheIdx + 1 /\ (Online(cpuIdx) => FileType \notin CacheTypes))
    BY <1>10 DEF OpenShared, list
  <2>3. \A k \in DOMAIN machine.files : k \in Nat
    BY <1>1, MachineFacts
  <2>4. ASSUME NEW i \in D, NEW k \in DOMAIN machine.files, Online(i), CacheRead(i, k)'
        PROVE  CacheRead(i, k) \/ machine.files[k] \notin CacheTypes
    <3>1. i < cpuIdx \/ (i = cpuIdx /\ k < cacheIdx')
      BY <2>1, <2>4 DEF CacheRead, AfterCpus
    <3>2. k < cacheIdx' => k < cacheIdx \/ k = cacheIdx
      BY <1>3, <2>2, <2>3
    <3>3. CASE i < cpuIdx
      BY <2>1, <3>3 DEF CacheRead
    <3>4. CASE i = cpuIdx /\ k < cacheIdx
      BY <2>1, <3>4 DEF CacheRead
    <3>5. CASE i = cpuIdx /\ k = cacheIdx /\ k < cacheIdx'
      <4>1. cacheIdx' = cacheIdx + 1
        BY <1>3, <2>2, <3>5
      <4>2. FileType \notin CacheTypes
        BY <1>3, <2>2, <2>4, <3>5, <4>1
      <4>3. QED BY <3>5, <4>2 DEF FileType
    <3>6. QED BY <3>1, <3>2, <3>3, <3>4, <3>5
  <2>5. QED BY <1>7, <2>1, <2>4
<1>11. CASE ReadItem /\ UNCHANGED stage
  <2>1. Active /\ UNCHANGED <<stage, cpuIdx, cacheIdx, logicalCpus_>>
    BY <1>11, <1>2 DEF ReadItem, Active, loops
  <2>2. QED BY <1>7, <2>1 DEF CacheRead
<1>12. CASE EndShared
  <2>1. /\ stage = "cache" /\ stage' = "cache" /\ cpuIdx' = cpuIdx /\ cacheIdx' = cacheIdx + 1
        /\ cpuIdx \in D /\ FileType \in CacheTypes
        /\ \A u \in CacheTypes : Cache(cpuIdx, u)' =
             IF u = FileType THEN Elements(m) ELSE Cache(cpuIdx, u)
        /\ \A i \in D : i # cpuIdx => logicalCpus_'[i] = logicalCpus_[i]
    BY <1>12, EndSharedSets
  <2>2. Active
    BY <2>1 DEF Active
  <2>3. PICK S : S = Shared(FileType, cpuIdx)
    OBVIOUS
  <2>4. S \subseteq Nat /\ IsFiniteSet(S)
    BY <1>1, <2>3, MachineFacts
  <2>5. Reads(Items(S)) /\ todo = <<>> /\ MaskInv
    BY <1>12, <2>1, <2>3 DEF EndShared, ListInv, Reading, Opened
  <2>6. Elements(m) \subseteq S /\ (Fits(S) => Elements(m) = S)
    BY <2>4, <2>5, FittingIsRead
  <2>7. \A k \in DOMAIN machine.files : k \in Nat
    BY <1>1, MachineFacts
  <2>8. ASSUME NEW i \in D, Online(i) PROVE Part(i)'
    <3>1. Part(i)
      BY <1>5, <2>2, <2>8
    <3>2. \A t \in CacheTypes : Cache(i, t)' \subseteq Shared(t, i)
      BY <2>1, <2>3, <2>6, <3>1
    <3>3. QED BY <1>4, <3>2
  <2>9. ASSUME NEW i \in D, NEW k \in DOMAIN machine.files, Online(i), CacheRead(i, k)' PROVE Whole(i, k)'
    <3>1. PICK t : t = machine.files[k]
      OBVIOUS
    <3>2. CASE i = cpuIdx /\ t = FileType
      BY <1>1, <1>4, <2>1, <2>3, <2>6, <3>1, <3>2
    <3>3. CASE i # cpuIdx \/ t # FileType
      <4>1. CacheRead(i, k)
        <5>1. i < cpuIdx \/ (i = cpuIdx /\ k < cacheIdx + 1 /\ k # cacheIdx)
          BY <2>1, <2>9, <3>1, <3>3 DEF CacheRead, AfterCpus, FileType
        <5>2. i < cpuIdx \/ (i = cpuIdx /\ k < cacheIdx)
          BY <1>3, <2>7, <5>1
        <5>3. QED BY <2>1, <5>2 DEF CacheRead
      <4>2. Whole(i, k)
        BY <1>5, <2>2, <2>9, <4>1
      <4>3. t \in CacheTypes => Cache(i, t)' = Cache(i, t)
        BY <2>1, <3>3
      <4>4. QED BY <1>1, <1>4, <3>1, <4>2, <4>3
    <3>4. QED BY <3>2, <3>3
  <2>10. QED BY <2>8, <2>9
<1>13. CASE NextCpu
  <2>1. stage = "cache" /\ cpuIdx < Count /\ cpuIdx' = cpuIdx + 1 /\ Active /\ UNCHANGED logicalCpus_
    BY <1>13 DEF NextCpu, Table, Active
  <2>2. cpuIdx + 1 < Count => stage' = "cpu"
    BY <1>3, <1>13 DEF NextCpu
  <2>3. cacheIdx \notin DOMAIN machine.files /\ cacheIdx >= 1
    BY <1>13, <2>1 DEF NextCpu, Table
  <2>4. \A k \in DOMAIN machine.files : k < cacheIdx
    <3>1. PICK n \in Nat : DOMAIN machine.files = 1..n
      BY <1>1, MachineFacts
    <3>2. QED BY <1>3, <2>3, <3>1
  <2>5. \A i \in D : \A k \in DOMAIN machine.files : CacheRead(i, k)' => CacheRead(i, k)
    <3>1. SUFFICES ASSUME NEW i \in D, NEW k \in DOMAIN machine.files, CacheRead(i, k)'
                   PROVE  CacheRead(i, k)
      OBVIOUS
    <3>2. i < cpuIdx \/ i = cpuIdx
      BY <1>3, <2>1, <2>2, <3>1 DEF CacheRead, AfterCpus
    <3>3. QED BY <2>1, <2>4, <3>2 DEF CacheRead
  <2>6. QED BY <1>7, <2>1, <2>5
<1>14. CASE OpenTypes \/ EndTypes \/ Pin \/ Unpin \/ End
  <2>1. \A i \in D : logicalCpus_'[i].cache = logicalCpus_[i].cache
    BY <1>1, <1>14, EndTypesSets, PinSets DEF OpenTypes, Unpin, End
  <2>2. stage \in AfterCpus
    BY <1>14 DEF OpenTypes, EndTypes, Pin, Unpin, End, AfterCpus
  <2>3. QED BY <1>7, <2>1, <2>2 DEF CacheRead, AfterCpus, Active
<1>15. CASE UNCHANGED vars
  BY <1>2, <1>7, <1>15 DEF vars, topoVars, Active, CacheRead
<1>16. QED
  BY <1>1, <1>2, <1>8, <1>9, <1>10, <1>11, <1>12, <1>13, <1>14, <1>15, LinuxSteps


-----------------------------------------------------------------------------
(* The numbers that Windows' processors get.                               *)

LEMMA DivFacts ==
  ASSUME NEW a \in Nat, NEW g \in Nat \ {0}
  PROVE  /\ a \div g \in Nat /\ a % g \in 0..(g - 1) /\ a = g * (a \div g) + (a % g)
<1>1. a \div g \in Int /\ a % g \in 0..(g - 1)
  OBVIOUS
<1>2. a = g * (a \div g) + (a % g)
  OBVIOUS
<1>3. a \div g >= 0
  BY <1>1, <1>2
<1>4. QED BY <1>1, <1>2, <1>3

LEMMA ProductGrows ==
  ASSUME NEW a \in Nat, NEW b \in Nat, NEW g \in Nat \ {0}, a < b
  PROVE  g * a + g <= g * b
OBVIOUS

\* The quotients of a number and of one before it.
LEMMA GroupOrder ==
  ASSUME NEW a \in Nat, NEW b \in Nat, NEW g \in Nat \ {0}
  PROVE  /\ a \div g < b \div g => a < b
         /\ a < b /\ a \div g = b \div g => b - (b % g) <= a
         /\ a < b /\ b - (b % g) <= a => a \div g = b \div g
<1>1. PICK p, q, r, s : p = a \div g /\ q = b \div g /\ r = a % g /\ s = b % g
  OBVIOUS
<1>2. p \in Nat /\ q \in Nat /\ r \in 0..(g - 1) /\ s \in 0..(g - 1) /\ a = g * p + r /\ b = g * q + s
  BY <1>1, DivFacts
<1>3. PICK u, v : u = g * p /\ v = g * q
  OBVIOUS
<1>4. /\ u \in Nat /\ v \in Nat /\ a = u + r /\ b = v + s
      /\ (p < q => u + g <= v) /\ (q < p => v + g <= u) /\ (p = q => u = v)
  BY <1>2, <1>3, ProductGrows
<1>5. p < q \/ p = q \/ q < p
  BY <1>2
<1>6. QED BY <1>1, <1>2, <1>4, <1>5

\* A processor's number is how many come before it.
LEMMA IndexIsRank ==
  ASSUME machine \in Machines, machine.os = "windows", NEW c \in machine.online
  PROVE  Index(c) = Rank(machine.online, c)
<1>1. PICK O, g, T, U, V :
        /\ O = machine.online /\ g = GroupSize
        /\ T = {d \in O : d \div g < c \div g} /\ U = (c - (c % g))..(c - 1)
        /\ V = {d \in O : d < c}
  OBVIOUS
<1>2. O \subseteq Nat /\ IsFiniteSet(O) /\ c \in Nat /\ c \in O /\ g \in Nat \ {0}
  BY <1>1, MachineFacts, CpuTopologyAssumption
<1>3. \A e \in 0..c : e \div g = c \div g => e \in O
  BY <1>1, CpuTopologyAssumption
<1>4. c % g \in Nat /\ c - (c % g) \in Nat
  <2>1. PICK p, q, r : p = c \div g /\ r = c % g /\ q = g * p
    OBVIOUS
  <2>2. p \in Nat /\ r \in 0..(g - 1) /\ c = q + r
    BY <1>2, <2>1, DivFacts
  <2>3. q \in Nat
    BY <1>2, <2>1, <2>2
  <2>4. QED BY <1>2, <2>1, <2>2, <2>3
<1>5. V = T \cup U
  <2>1. ASSUME NEW d \in V PROVE d \in T \cup U
    <3>1. d \in Nat /\ d \in O /\ d < c
      BY <1>1, <1>2
    <3>2. d \div g \in Nat /\ c \div g \in Nat
      BY <1>2, <3>1, DivFacts
    <3>3. ~(c \div g < d \div g)
      <4>1. c \div g < d \div g => c < d
        BY <1>2, <3>1, GroupOrder
      <4>2. QED BY <1>2, <3>1, <4>1
    <3>4. d \div g = c \div g => c - (c % g) <= d
      BY <1>2, <3>1, GroupOrder
    <3>5. CASE d \div g < c \div g
      <4>1. d \in T
        BY <1>1, <3>1, <3>5
      <4>2. QED BY <4>1
    <3>6. CASE d \div g = c \div g
      <4>1. d \in U
        BY <1>1, <1>2, <1>4, <3>1, <3>4, <3>6
      <4>2. QED BY <4>1
    <3>7. QED BY <3>2, <3>3, <3>5, <3>6
  <2>2. ASSUME NEW d \in T PROVE d \in V
    BY <1>1, <1>2, GroupOrder
  <2>3. ASSUME NEW d \in U PROVE d \in V
    <3>1. d \in Nat /\ c - (c % g) <= d /\ d < c
      BY <1>1, <1>2, <1>4
    <3>2. d \div g = c \div g
      <4>1. d < c /\ c - (c % g) <= d => d \div g = c \div g
        BY <1>2, <3>1, GroupOrder, Zenon
      <4>2. QED BY <3>1, <4>1
    <3>3. d \in 0..c
      BY <1>2, <3>1
    <3>4. QED BY <1>1, <1>3, <3>1, <3>2, <3>3
  <2>4. QED BY <2>1, <2>2, <2>3
<1>6. T \cap U = {}
  <2>1. SUFFICES ASSUME NEW d \in T, d \in U PROVE FALSE
    OBVIOUS
  <2>2. d \in Nat /\ c - (c % g) <= d /\ d < c
    BY <1>1, <1>2, <1>4, <2>1
  <2>3. d \div g = c \div g
    <3>1. d < c /\ c - (c % g) <= d => d \div g = c \div g
      BY <1>2, <2>2, GroupOrder, Zenon
    <3>2. QED BY <2>2, <3>1
  <2>4. c \div g \in Nat
    BY <1>2, DivFacts
  <2>5. QED BY <1>1, <2>3, <2>4
<1>7. IsFiniteSet(T) /\ IsFiniteSet(U) /\ Cardinality(U) = c % g
  <2>1. T \in SUBSET O
    BY <1>1
  <2>2. IsFiniteSet(T)
    BY <1>2, <2>1, FS_Subset, Zenon
  <2>3. PICK x, y : x = c - (c % g) /\ y = c - 1
    OBVIOUS
  <2>4. x \in Int /\ y \in Int /\ U = x..y
    BY <1>1, <1>2, <1>4, <2>3
  <2>5. IsFiniteSet(U) /\ Cardinality(U) = IF x > y THEN 0 ELSE y - x + 1
    BY <2>4, FS_Interval
  <2>6. QED BY <1>2, <1>4, <2>2, <2>3, <2>5
<1>8. Cardinality(V) = Cardinality(T) + Cardinality(U) - Cardinality(T \cap U)
  BY <1>5, <1>7, FS_Union
<1>9. Cardinality(T \cap U) = 0 /\ Cardinality(T) \in Nat
  BY <1>6, <1>7, FS_EmptySet, FS_CardinalityType
<1>10. Index(c) = Cardinality(T) + (c % g)
  BY <1>1 DEF Index, GroupAcc, Group
<1>11. Rank(machine.online, c) = Cardinality(V)
  BY <1>1 DEF Rank
<1>12. QED BY <1>4, <1>7, <1>8, <1>9, <1>10, <1>11

LEMMA IndexFacts ==
  ASSUME machine \in Machines, machine.os = "windows"
  PROVE  /\ \A c \in machine.online : Index(c) \in 0..(Count - 1)
         /\ \A c, d \in machine.online : Index(c) = Index(d) => c = d
<1>1. PICK O : O = machine.online
  OBVIOUS
<1>2. O \subseteq Nat /\ IsFiniteSet(O)
  BY <1>1, MachineFacts
<1>3. \A c \in O : Index(c) = Rank(O, c)
  BY <1>1, IndexIsRank
<1>4. /\ \A c \in O : Rank(O, c) \in 0..(Cardinality(O) - 1)
      /\ \A c, d \in O : c < d => Rank(O, c) < Rank(O, d)
      /\ Cardinality(O) \in Nat
  BY <1>2, RankFacts
<1>5. ASSUME NEW c \in O, NEW d \in O, Index(c) = Index(d) PROVE c = d
  <2>1. Rank(O, c) = Rank(O, d) /\ Rank(O, c) \in Nat /\ c \in Nat /\ d \in Nat
    BY <1>2, <1>3, <1>4, <1>5
  <2>2. ~(c < d) /\ ~(d < c)
    BY <1>4, <2>1
  <2>3. QED BY <2>1, <2>2
<1>6. QED BY <1>1, <1>3, <1>4, <1>5 DEF Count


-----------------------------------------------------------------------------
(* What the steps of Windows do to the table.                              *)

LEMMA WindowsSteps ==
  ASSUME Staged, Table, machine.os = "windows", [Next]_vars, Active'
  PROVE  \/ Begin \/ ReadCore \/ EndCores \/ (ReadItem /\ UNCHANGED stage)
         \/ OpenEntry \/ EndEntry \/ NextType \/ EndEntries \/ UNCHANGED vars
<1>1. stage \notin {"cpu", "cache", "P", "E", "pin", "end"}
  BY DEF Staged
<1>2. ~Detect
  BY CpuIsReady DEF Table, Active, Detect, topoVars
<1>3. ~Client
  BY DEF Client, Active
<1>4. ReadItem => UNCHANGED stage
  BY DEF ReadItem, Fail, Active
<1>5. ~ReadCoreId /\ ~OpenShared /\ ~EndShared /\ ~NextCpu
  BY <1>1 DEF ReadCoreId, OpenShared, EndShared, NextCpu
<1>6. ~OpenTypes /\ ~EndTypes /\ ~Pin /\ ~Unpin /\ ~End /\ ~QueryFails
  BY <1>1 DEF OpenTypes, EndTypes, Pin, Unpin, End, QueryFails, Fail, Active
<1>7. QED BY <1>2, <1>3, <1>4, <1>5, <1>6 DEF Next, Topology

LEMMA ReadCoreSets ==
  ASSUME Staged, Table, ReadCore, Active'
  PROVE  \A i \in 0..(Count - 1) :
           /\ logicalCpus_'[i].cache = LogicalCpu.cache \/ logicalCpus_'[i].cache = logicalCpus_[i].cache
           /\ IF \E c \in CoreRecords[cpuIdx + 1] : Index(c) = i
              THEN /\ logicalCpus_'[i].coreId = cpuIdx
                   /\ logicalCpus_'[i].coreType =
                        IF Hybrid THEN Kind(Min(CoreRecords[cpuIdx + 1])) ELSE "Standard"
              ELSE logicalCpus_'[i] = logicalCpus_[i]
<1>1. logicalCpus_ \in [0..(Count - 1) -> Infos]
  BY DEF ReadCore, Table, Active
<1>2. PICK core, k, r : /\ core = CoreRecords[cpuIdx + 1]
                        /\ k = IF Hybrid THEN Kind(Min(core)) ELSE "Standard"
                        /\ r = [LogicalCpu EXCEPT !.coreId = cpuIdx, !.coreType = k]
  OBVIOUS
<1>3. r.coreId = cpuIdx /\ r.coreType = k /\ r.cache = LogicalCpu.cache
  BY <1>2 DEF LogicalCpu
<1>4. logicalCpus_' = [i \in 0..(Count - 1) |->
        IF \E c \in core : Index(c) = i THEN r ELSE logicalCpus_[i]]
  BY <1>1, <1>2 DEF ReadCore, Fail, Active
<1>5. QED BY <1>1, <1>2, <1>3, <1>4

\* The cores of every record that was read.
LEMMA WindowsCoresNext ==
  ASSUME ListInv, Table, WindowsCores, [Next]_vars
  PROVE  WindowsCores'
<1>1. machine' = machine /\ Count' = Count /\ Staged /\ machine \in Machines
  BY MachineKept DEF Count, ListInv, Staged
<1>2. SUFFICES ASSUME machine.os = "windows", Active'
               PROVE  WindowsCores'
  BY <1>1 DEF WindowsCores
<1>3. PICK L : L = Len(CoreRecords)
  OBVIOUS
<1>4. /\ L \in Nat /\ cpuIdx \in Nat
      /\ CoreRecords' = CoreRecords /\ \A c : Index(c)' = Index(c) /\ Kind(c)' = Kind(c)
  BY <1>1, <1>3, CoreRecordsFacts DEF CoreRecords, Index, GroupAcc, Group, Kind, Staged
<1>5. Hybrid' = Hybrid
  <2>1. UNCHANGED cpuVars
    BY <1>1, <1>2, WindowsSteps, TopologyKeepsCpu DEF Topology
  <2>2. QED BY <2>1 DEF cpuVars, Hybrid
<1> DEFINE Known(c, k) == /\ logicalCpus_[Index(c)].coreId = k - 1
                          /\ logicalCpus_[Index(c)].coreType = IF Hybrid THEN Kind(c) ELSE "Standard"
<1>6. Active =>
        /\ \A k \in 1..L : RecordRead(k) => \A c \in CoreRecords[k] : Known(c, k)
        /\ stage \in {"entry", "done"} => physicalCoreNum_ = L
  BY <1>2, <1>3 DEF WindowsCores
<1>7. SUFFICES /\ \A k \in 1..L : RecordRead(k)' => \A c \in CoreRecords[k] : Known(c, k)'
               /\ stage' \in {"entry", "done"} => physicalCoreNum_' = L
  BY <1>3, <1>4 DEF WindowsCores
<1>8. /\ \A k \in 1..L : \A c \in CoreRecords[k] : Index(c) \in 0..(Count - 1) /\ c \in machine.online
      /\ \A j, k \in 1..L : \A c \in CoreRecords[j], d \in CoreRecords[k] : Index(c) = Index(d) => j = k
  <2>1. \A k \in 1..L : CoreRecords[k] \subseteq machine.online
    BY <1>1, <1>3, CoreRecordsFacts
  <2>2. /\ \A c \in machine.online : Index(c) \in 0..(Count - 1)
        /\ \A c, d \in machine.online : Index(c) = Index(d) => c = d
    BY <1>1, <1>2, IndexFacts
  <2>3. \A j, k \in 1..L : \A c \in CoreRecords[j], d \in CoreRecords[k] : c = d => j = k
    BY <1>1, <1>3, CoreRecordsFacts
  <2>4. QED BY <2>1, <2>2, <2>3
<1>9. ASSUME Active, \A i \in 0..(Count - 1) : /\ logicalCpus_'[i].coreId = logicalCpus_[i].coreId
                                               /\ logicalCpus_'[i].coreType = logicalCpus_[i].coreType,
             \A k \in 1..L : RecordRead(k)' => RecordRead(k),
             stage' \in {"entry", "done"} => stage \in {"entry", "done"},
             physicalCoreNum_' = physicalCoreNum_
      PROVE  /\ \A k \in 1..L : RecordRead(k)' => \A c \in CoreRecords[k] : Known(c, k)'
             /\ stage' \in {"entry", "done"} => physicalCoreNum_' = L
  <2>1. ASSUME NEW k \in 1..L, RecordRead(k)', NEW c \in CoreRecords[k] PROVE Known(c, k)'
    <3>1. Known(c, k) /\ Index(c) \in 0..(Count - 1)
      BY <1>6, <1>8, <1>9, <2>1
    <3>2. QED BY <1>4, <1>5, <1>9, <3>1
  <2>2. QED BY <1>6, <1>9, <2>1
<1>10. CASE Begin
  <2>1. stage' = "core" /\ cpuIdx' = 0
    BY <1>2, <1>10 DEF Begin, Table, Active, Fail, loops
  <2>2. \A k \in 1..L : ~RecordRead(k)'
    BY <1>4, <2>1 DEF RecordRead
  <2>3. QED BY <2>1, <2>2
<1>11. CASE ReadCore
  <2>1. stage = "core" /\ cpuIdx < L /\ stage' = "core" /\ cpuIdx' = cpuIdx + 1 /\ Active
    BY <1>2, <1>3, <1>11 DEF ReadCore, Active, Fail
  <2>2. ASSUME NEW k \in 1..L, RecordRead(k)', NEW c \in CoreRecords[k] PROVE Known(c, k)'
    <3>1. PICK i \in 0..(Count - 1) : i = Index(c)
      BY <1>8
    <3>2. IF \E d \in CoreRecords[cpuIdx + 1] : Index(d) = i
          THEN /\ logicalCpus_'[i].coreId = cpuIdx
               /\ logicalCpus_'[i].coreType =
                    IF Hybrid THEN Kind(Min(CoreRecords[cpuIdx + 1])) ELSE "Standard"
          ELSE logicalCpus_'[i] = logicalCpus_[i]
      BY <1>1, <1>2, <1>11, ReadCoreSets
    <3>3. k <= cpuIdx + 1 /\ cpuIdx + 1 \in 1..L
      BY <1>4, <2>1, <2>2 DEF RecordRead
    <3>4. CASE k = cpuIdx + 1
      <4>1. \E d \in CoreRecords[cpuIdx + 1] : Index(d) = i
        BY <2>2, <3>1, <3>4
      <4>2. PICK x : x = Min(CoreRecords[k])
        OBVIOUS
      <4>3. x \in CoreRecords[k] /\ machine.core[x] = machine.core[c]
        BY <1>1, <1>3, <2>2, <4>2, CoreRecordsFacts
      <4>4. x \in machine.online /\ c \in machine.online
        BY <1>8, <2>2, <4>3
      <4>5. Kind(x) = Kind(c)
        BY <1>1, <1>2, <4>3, <4>4, CpuTopologyAssumption DEF Kind
      <4>6. logicalCpus_'[i].coreId = k - 1 /\ logicalCpus_'[i].coreType = IF Hybrid THEN Kind(c) ELSE "Standard"
        BY <1>4, <3>2, <3>4, <4>1, <4>2, <4>5
      <4>7. QED BY <1>4, <1>5, <3>1, <4>6
    <3>5. CASE k # cpuIdx + 1
      <4>1. ~\E d \in CoreRecords[cpuIdx + 1] : Index(d) = i
        BY <1>8, <2>2, <3>1, <3>3, <3>5
      <4>2. RecordRead(k)
        BY <1>4, <2>1, <3>3, <3>5 DEF RecordRead
      <4>3. Known(c, k)
        BY <1>6, <2>1, <2>2, <4>2
      <4>4. logicalCpus_'[i] = logicalCpus_[i]
        BY <3>2, <4>1
      <4>5. QED BY <1>4, <1>5, <3>1, <4>3, <4>4
    <3>6. QED BY <3>4, <3>5
  <2>3. QED BY <2>1, <2>2
<1>12. CASE EndCores
  <2>1. stage = "core" /\ cpuIdx = L /\ stage' = "entry" /\ physicalCoreNum_' = L /\ UNCHANGED logicalCpus_
    BY <1>3, <1>12 DEF EndCores
  <2>2. ASSUME NEW k \in 1..L, NEW c \in CoreRecords[k] PROVE Known(c, k)'
    <3>1. RecordRead(k) /\ Active
      BY <1>4, <2>1 DEF RecordRead, Active
    <3>2. Known(c, k)
      BY <1>6, <2>2, <3>1
    <3>3. QED BY <1>4, <1>5, <2>1, <3>2
  <2>3. QED BY <2>1, <2>2
<1>13. CASE (ReadItem /\ UNCHANGED stage) \/ OpenEntry \/ NextType \/ EndEntries
  <2>1. UNCHANGED <<logicalCpus_, physicalCoreNum_>>
    BY <1>13 DEF ReadItem, OpenEntry, NextType, EndEntries
  <2>2. (stage' = stage /\ stage \in {"entry", "done"}) \/ (stage = "entry" /\ stage' = "done")
    BY <1>1, <1>2, <1>13 DEF ReadItem, OpenEntry, NextType, EndEntries, MoreEntries, Active, ListInv, Reading, Staged
  <2>3. Active /\ \A k \in 1..L : RecordRead(k)
    BY <2>2 DEF RecordRead, Active
  <2>4. QED BY <1>9, <2>1, <2>2, <2>3
<1>14. CASE EndEntry
  <2>1. stage = "entry" /\ stage' = "entry" /\ UNCHANGED physicalCoreNum_ /\ Active
    BY <1>2, <1>14 DEF EndEntry, Active, Fail
  <2>2. \A i \in 0..(Count - 1) : /\ logicalCpus_'[i].coreId = logicalCpus_[i].coreId
                                  /\ logicalCpus_'[i].coreType = logicalCpus_[i].coreType
    <3>1. logicalCpus_ \in [0..(Count - 1) -> Infos]
      BY <2>1 DEF Table
    <3>2. logicalCpus_' = [i \in 0..(Count - 1) |->
             IF i \in Elements(m)
             THEN [logicalCpus_[i] EXCEPT !.cache = [logicalCpus_[i].cache EXCEPT ![EntryType] = Elements(m)]]
             ELSE logicalCpus_[i]]
      BY <1>2, <1>14, <3>1 DEF EndEntry, Active, Fail
    <3>3. QED BY <3>1, <3>2 DEF Infos
  <2>3. QED BY <1>9, <2>1, <2>2 DEF RecordRead
<1>15. CASE UNCHANGED vars
  BY <1>2, <1>9, <1>15 DEF vars, topoVars, Active, RecordRead
<1>16. QED
  BY <1>1, <1>2, <1>10, <1>11, <1>12, <1>13, <1>14, <1>15, WindowsSteps


\* A record that was read whole names its processors.
LEMMA EntryIsRead ==
  ASSUME ListInv, stage = "entry", reading, todo = <<>>, ok
  PROVE  Elements(m) = {Index(d) : d \in Entry}
<1>1. machine \in Machines /\ Staged /\ MaskInv /\ InEntry /\ Reads(Opened)
  BY DEF ListInv, Staged, Reading
<1>2. PICK S, o, n, items : S = Entry /\ o = InOrder(S) /\ n = Cardinality(S) /\ items = Opened
  OBVIOUS
<1>3. S \subseteq Nat /\ IsFiniteSet(S)
  <2>1. machine.online \subseteq Nat
    BY <1>1, MachineFacts
  <2>2. QED BY <1>1, <1>2, <2>1, EntryFacts DEF InEntry
<1>4. n \in Nat /\ o \in [1..n -> S] /\ \A x \in S : \E k \in 1..n : o[k] = x
  BY <1>2, <1>3, InOrderFacts
<1>5. items = [k \in 1..n |-> <<Index(o[k])>>]
  BY <1>2 DEF Opened
<1>6. IsList(items)
  BY <1>1, <1>2, OpenedIsList
<1>7. Len(items) = n
  <2>1. Len(items) \in Nat /\ DOMAIN items = 1..Len(items)
    BY <1>6 DEF IsList
  <2>2. DOMAIN items = 1..n
    BY <1>5
  <2>3. PICK l \in Nat : l = Len(items)
    BY <2>1
  <2>4. 1..l = 1..n
    BY <2>1, <2>2, <2>3
  <2>5. (l \in 1..n \/ l = 0) /\ (n \in 1..l \/ n = 0)
    BY <1>4, <2>4
  <2>6. QED BY <1>4, <2>3, <2>5
<1>8. Elements(m) = Members(items, n)
  <2>1. PICK p \in 0..Len(items) :
          /\ Elements(m) = Members(items, p)
          /\ \/ ok = TRUE /\ p = Len(items)
             \/ ok = FALSE /\ p < Len(items) /\ ~AddItem(m, items[p + 1]).ok
    BY <1>1, <1>2, <1>6, ReadWhole
  <2>2. QED BY <1>7, <2>1
<1>9. \A k \in 1..n : From(items[k])..UpTo(items[k]) = {Index(o[k])}
  <2>1. TAKE k \in 1..n
  <2>2. o[k] \in Nat
    BY <1>3, <1>4
  <2>3. PICK v \in Nat : v = Index(o[k])
    BY <1>1, <2>2, IndexIsNat
  <2>4. items[k] = <<v>>
    BY <1>5, <2>3
  <2>5. From(<<v>>) = v /\ UpTo(<<v>>) = v
    BY DEF From, UpTo
  <2>6. v..v = {v}
    OBVIOUS
  <2>7. QED BY <2>3, <2>4, <2>5, <2>6
<1>10. Members(items, n) = UNION {{Index(o[k])} : k \in 1..n}
  BY <1>9 DEF Members
<1>11. UNION {{Index(o[k])} : k \in 1..n} = {Index(d) : d \in S}
  <2>1. \A d \in S : Index(d) \in UNION {{Index(o[k])} : k \in 1..n}
    BY <1>4
  <2>2. \A k \in 1..n : Index(o[k]) \in {Index(d) : d \in S}
    BY <1>4
  <2>3. QED BY <2>1, <2>2
<1>12. QED BY <1>2, <1>8, <1>10, <1>11

LEMMA EndEntrySets ==
  ASSUME ListInv, Table, EndEntry, Active'
  PROVE  /\ stage = "entry" /\ stage' = "entry" /\ cpuIdx' = cpuIdx + 1 /\ cacheIdx' = cacheIdx
         /\ EntryType \in CacheTypes /\ cpuIdx < Len(CacheRecords(EntryType))
         /\ Elements(m) = {Index(d) : d \in Entry}
         /\ \A i \in 0..(Count - 1), t \in CacheTypes : logicalCpus_'[i].cache[t] =
              IF i \in Elements(m) /\ t = EntryType THEN Elements(m) ELSE logicalCpus_[i].cache[t]
<1>1. stage = "entry" /\ reading /\ todo = <<>> /\ logicalCpus_ \in [0..(Count - 1) -> Infos]
  BY DEF EndEntry, Table, Active
<1>2. ok /\ stage' = "entry" /\ cpuIdx' = cpuIdx + 1 /\ cacheIdx' = cacheIdx
  BY DEF EndEntry, Active, Fail
<1>3. EntryType \in CacheTypes /\ cpuIdx < Len(CacheRecords(EntryType))
  BY <1>1 DEF ListInv, Reading, InEntry
<1>4. Elements(m) = {Index(d) : d \in Entry}
  BY <1>1, <1>2, EntryIsRead
<1>5. logicalCpus_' = [i \in 0..(Count - 1) |->
         IF i \in Elements(m)
         THEN [logicalCpus_[i] EXCEPT !.cache = [logicalCpus_[i].cache EXCEPT ![EntryType] = Elements(m)]]
         ELSE logicalCpus_[i]]
  BY <1>1 DEF EndEntry, Active, Fail
<1>6. ASSUME NEW i \in 0..(Count - 1), NEW t \in CacheTypes
      PROVE  logicalCpus_'[i].cache[t] =
               IF i \in Elements(m) /\ t = EntryType THEN Elements(m) ELSE logicalCpus_[i].cache[t]
  <2>1. PICK r \in Infos, e \in CacheTypes : r = logicalCpus_[i] /\ e = EntryType
    BY <1>1, <1>3
  <2>2. PICK s : s = [r EXCEPT !.cache = [r.cache EXCEPT ![e] = Elements(m)]]
    OBVIOUS
  <2>3. s.cache[t] = IF t = e THEN Elements(m) ELSE r.cache[t]
    BY <2>1, <2>2 DEF Infos
  <2>4. logicalCpus_'[i] = IF i \in Elements(m) THEN s ELSE r
    BY <1>5, <2>1, <2>2
  <2>5. QED BY <2>1, <2>3, <2>4
<1>7. QED BY <1>1, <1>2, <1>3, <1>4, <1>6

\* The caches of every record that was read.
LEMMA WindowsCachesNext ==
  ASSUME ListInv, Table, WindowsCaches, [Next]_vars
  PROVE  WindowsCaches'
<1>1. machine' = machine /\ Count' = Count /\ Staged /\ machine \in Machines
  BY MachineKept DEF Count, ListInv, Staged
<1>2. SUFFICES ASSUME machine.os = "windows", Active'
               PROVE  WindowsCaches'
  BY <1>1 DEF WindowsCaches
<1>3. cpuIdx \in Nat /\ cacheIdx \in Nat
  BY <1>1 DEF Staged
<1>4. /\ \A c : Index(c)' = Index(c)
      /\ \A t : CacheRecords(t)' = CacheRecords(t)
  BY <1>1 DEF CacheRecords, Index, GroupAcc, Group
<1> DEFINE F == DOMAIN machine.files
           O == machine.online
           Name(k) == machine.files[k]
           Numbers(t, c) == {Index(d) : d \in machine.shared[t][c]}
           Known(k, c) == Name(k) \in CacheTypes => logicalCpus_[Index(c)].cache[Name(k)] = Numbers(Name(k), c)
<1>5. Active => \A k \in F, c \in O : EntryRead(k, c) => Known(k, c)
  BY <1>2 DEF WindowsCaches
<1>6. SUFFICES \A k \in F, c \in O : EntryRead(k, c)' => Known(k, c)'
  <2>1. \A t, c : Numbers(t, c)' = Numbers(t, c)
    BY <1>1, <1>4
  <2>2. QED BY <1>1, <1>4, <2>1 DEF WindowsCaches
<1>7. \A t, c : Numbers(t, c)' = Numbers(t, c)
  BY <1>1, <1>4
<1>8. \A k \in F : k \in Nat /\ k >= 1 /\ k <= Len(machine.files) /\ Name(k) \in DOMAIN machine.shared
  BY <1>1, <1>2, MachineFacts, CpuTopologyAssumption
<1>9. ASSUME Active, \A i \in 0..(Count - 1), t \in CacheTypes :
                       logicalCpus_'[i].cache[t] = logicalCpus_[i].cache[t],
             \A k \in F, c \in O : EntryRead(k, c)' => EntryRead(k, c) \/ Name(k) \notin CacheTypes
      PROVE  \A k \in F, c \in O : EntryRead(k, c)' => Known(k, c)'
  <2>1. SUFFICES ASSUME NEW k \in F, NEW c \in O, EntryRead(k, c)', Name(k) \in CacheTypes
                 PROVE  Known(k, c)'
    BY <1>1
  <2>2. logicalCpus_[Index(c)].cache[Name(k)] = Numbers(Name(k), c)
    BY <1>5, <1>9, <2>1
  <2>3. Index(c) \in 0..(Count - 1)
    BY <1>1, <1>2, IndexFacts
  <2>4. logicalCpus_'[Index(c)].cache[Name(k)] = Numbers(Name(k), c)
    BY <1>9, <2>1, <2>2, <2>3
  <2>5. QED BY <1>1, <1>4, <1>7, <2>4
<1>10. CASE Begin \/ ReadCore
  <2>1. stage' = "core"
    BY <1>2, <1>10 DEF Begin, ReadCore, Active, Fail
  <2>2. QED BY <2>1 DEF EntryRead
<1>11. CASE EndCores
  <2>1. stage = "core" /\ stage' = "entry" /\ cpuIdx' = 0 /\ cacheIdx' = 0
    BY <1>11 DEF EndCores, Table
  <2>2. ASSUME NEW k \in F, NEW c \in O PROVE ~EntryRead(k, c)'
    BY <1>8, <2>1 DEF EntryRead
  <2>3. QED BY <2>2
<1>12. CASE ReadItem /\ UNCHANGED stage
  <2>1. Active /\ UNCHANGED <<stage, cpuIdx, cacheIdx, logicalCpus_>>
    BY <1>12, <1>2 DEF ReadItem, Active, loops
  <2>2. QED BY <1>1, <1>4, <1>9, <2>1 DEF EntryRead
<1>13. CASE OpenEntry
  <2>1. /\ stage = "entry" /\ stage' = "entry" /\ cacheIdx' = cacheIdx /\ UNCHANGED logicalCpus_ /\ Active
        /\ cpuIdx' = cpuIdx \/ (cpuIdx' = cpuIdx + 1 /\ EntryType \notin CacheTypes)
    BY <1>13 DEF OpenEntry, MoreEntries, Active, list
  <2>2. ASSUME NEW k \in F, NEW c \in O, EntryRead(k, c)'
        PROVE  EntryRead(k, c) \/ Name(k) \notin CacheTypes
    <3>1. CASE cpuIdx' = cpuIdx
      BY <1>1, <1>4, <2>1, <2>2, <3>1 DEF EntryRead
    <3>2. CASE EntryType \notin CacheTypes
      BY <2>1, <2>2, <3>2 DEF EntryRead, EntryType
    <3>3. QED BY <2>1, <3>1, <3>2
  <2>3. QED BY <1>9, <2>1, <2>2
<1>14. CASE EndEntry
  <2>1. /\ stage = "entry" /\ stage' = "entry" /\ cpuIdx' = cpuIdx + 1 /\ cacheIdx' = cacheIdx
        /\ EntryType \in CacheTypes /\ cpuIdx < Len(CacheRecords(EntryType))
        /\ Elements(m) = {Index(d) : d \in Entry}
        /\ \A i \in 0..(Count - 1), t \in CacheTypes : logicalCpus_'[i].cache[t] =
             IF i \in Elements(m) /\ t = EntryType THEN Elements(m) ELSE logicalCpus_[i].cache[t]
    BY <1>2, <1>14, EndEntrySets
  <2>2. Active
    BY <2>1 DEF Active
  <2>3. ASSUME NEW k \in F, NEW c \in O, EntryRead(k, c)', Name(k) \in CacheTypes
        PROVE  logicalCpus_'[Index(c)].cache[Name(k)] = Numbers(Name(k), c)
    <3>1. Index(c) \in 0..(Count - 1)
      BY <1>1, <1>2, IndexFacts
    <3>2. CASE Index(c) \in Elements(m) /\ Name(k) = EntryType
      <4>1. MoreEntries \/ cacheIdx < Len(machine.files)
        BY <1>14, <2>1 DEF EndEntry, ListInv, Reading, InEntry
      <4>2. cacheIdx < Len(machine.files) /\ EntryType \in DOMAIN machine.shared
        BY <1>1, <2>1, <4>1, EntryFacts DEF MoreEntries
      <4>3. /\ Entry \subseteq machine.online
            /\ \E d \in machine.online : Entry = machine.shared[EntryType][d]
        BY <1>1, <2>1, <4>2, EntryFacts
      <4>4. PICK e \in Entry : Index(e) = Index(c)
        BY <2>1, <3>2
      <4>5. e = c
        BY <1>1, <1>2, <4>3, <4>4, IndexFacts
      <4>6. machine.shared[EntryType][c] = Entry
        BY <1>1, <4>2, <4>3, <4>4, <4>5, CpuTopologyAssumption
      <4>7. QED BY <2>1, <2>3, <3>1, <3>2, <4>6
    <3>3. CASE ~(Index(c) \in Elements(m) /\ Name(k) = EntryType)
      <4>1. EntryRead(k, c)
        <5>1. CASE k <= cacheIdx
          BY <2>1, <5>1 DEF EntryRead
        <5>2. CASE k = cacheIdx + 1
          <6>1. Name(k) = EntryType
            BY <5>2 DEF EntryType
          <6>2. PICK j \in 1..Len(CacheRecords(EntryType)) : j <= cpuIdx + 1 /\ c \in CacheRecords(EntryType)[j]
            BY <1>1, <1>3, <1>4, <2>1, <2>3, <5>2, <6>1 DEF EntryRead
          <6>3. j # cpuIdx + 1
            BY <2>1, <3>3, <6>1, <6>2 DEF Entry
          <6>4. Len(CacheRecords(EntryType)) \in Nat
            BY <1>1, <1>8, <2>3, <6>1, RecordsFacts
          <6>5. j <= cpuIdx
            BY <1>3, <6>2, <6>3, <6>4
          <6>6. QED BY <2>1, <5>2, <6>1, <6>2, <6>5 DEF EntryRead
        <5>3. QED BY <1>1, <2>1, <2>3, <5>1, <5>2 DEF EntryRead
      <4>2. Known(k, c)
        BY <1>5, <2>2, <4>1
      <4>3. QED BY <2>1, <2>3, <3>1, <3>3, <4>2
    <3>4. QED BY <3>2, <3>3
  <2>4. QED BY <1>1, <1>4, <1>7, <2>3
<1>15. CASE NextType
  <2>1. /\ stage = "entry" /\ stage' = "entry" /\ cacheIdx' = cacheIdx + 1 /\ cpuIdx' = 0
        /\ UNCHANGED logicalCpus_ /\ Active /\ cpuIdx = Len(CacheRecords(EntryType))
    BY <1>15 DEF NextType, MoreEntries, Active
  <2>2. ASSUME NEW k \in F, NEW c \in O, EntryRead(k, c)' PROVE EntryRead(k, c)
    <3>1. k <= cacheIdx + 1
      <4>1. CASE k <= cacheIdx'
        BY <2>1, <4>1
      <4>2. CASE ~(k <= cacheIdx')
        BY <1>1, <1>8, <2>1, <2>2, <4>2 DEF EntryRead
      <4>3. QED BY <4>1, <4>2
    <3>2. CASE k <= cacheIdx
      BY <2>1, <3>2 DEF EntryRead
    <3>3. CASE k = cacheIdx + 1
      <4>1. PICK t \in DOMAIN machine.shared : t = EntryType /\ t = Name(k)
        BY <1>8, <3>3 DEF EntryType
      <4>2. PICK j \in 1..Len(CacheRecords(t)) : CacheRecords(t)[j] = machine.shared[t][c]
        BY <1>1, RecordsFacts
      <4>3. c \in CacheRecords(t)[j] /\ j <= cpuIdx
        BY <1>1, <2>1, <4>1, <4>2, CpuTopologyAssumption
      <4>4. QED BY <2>1, <3>3, <4>1, <4>3 DEF EntryRead
    <3>4. QED BY <1>3, <1>8, <3>1, <3>2, <3>3
  <2>3. QED BY <1>9, <2>1, <2>2
<1>16. CASE EndEntries
  <2>1. stage = "entry" /\ stage' = "done" /\ cacheIdx = Len(machine.files) /\ UNCHANGED logicalCpus_ /\ Active
    BY <1>16 DEF EndEntries, Active
  <2>2. \A k \in F, c \in O : EntryRead(k, c)
    BY <1>8, <2>1 DEF EntryRead
  <2>3. QED BY <1>9, <2>1, <2>2
<1>17. CASE UNCHANGED vars
  BY <1>1, <1>2, <1>4, <1>9, <1>17 DEF vars, topoVars, Active, EntryRead
<1>18. QED
  BY <1>1, <1>2, <1>10, <1>11, <1>12, <1>13, <1>14, <1>15, <1>16, <1>17, WindowsSteps


-----------------------------------------------------------------------------
(* What the finished table says of the machine.                            *)

TopologyInv ==
  /\ ListInv /\ Table /\ Moved
  /\ LinuxCores /\ LinuxTypes /\ LinuxCaches
  /\ WindowsCores /\ WindowsCaches

LEMMA InitTopologyInv == Init => TopologyInv
<1> SUFFICES ASSUME Init PROVE TopologyInv
  OBVIOUS
<1>1. ListInv
  BY InitListInv
<1>2. stage = "idle" /\ reading = FALSE /\ cpuIdx = 0 /\ cacheIdx = 0 /\ accepted = {} /\ affinity = machine.affinity
  BY DEF Init
<1>3. ~Active
  BY <1>2 DEF Active
<1>4. Table /\ Moved
  BY <1>2, <1>3 DEF Table, Moved, AffinityRestored
<1>5. LinuxCores /\ LinuxTypes /\ LinuxCaches /\ WindowsCores /\ WindowsCaches
  BY <1>3 DEF LinuxCores, LinuxTypes, LinuxCaches, WindowsCores, WindowsCaches
<1>6. QED BY <1>1, <1>4, <1>5 DEF TopologyInv

LEMMA AlwaysTopologyInv == Spec => []TopologyInv
<1>1. TopologyInv /\ [Next]_vars => TopologyInv'
  <2> SUFFICES ASSUME TopologyInv, [Next]_vars PROVE TopologyInv'
    OBVIOUS
  <2>1. ListInv' /\ Table' /\ Moved'
    BY ListStep, TableNext, MovedNext DEF TopologyInv
  <2>2. LinuxCores' /\ LinuxTypes' /\ LinuxCaches'
    BY LinuxCoresNext, LinuxTypesNext, LinuxCachesNext DEF TopologyInv
  <2>3. WindowsCores' /\ WindowsCaches'
    BY WindowsCoresNext, WindowsCachesNext DEF TopologyInv
  <2>4. QED BY <2>1, <2>2, <2>3 DEF TopologyInv
<1>2. QED BY <1>1, InitTopologyInv, PTL DEF Spec

\* At the end every CPU is either Linux's or Windows', under its number.
LEMMA DoneFacts ==
  ASSUME TopologyInv, stage = "done"
  PROVE  /\ machine \in Machines /\ Active /\ Count \in Nat /\ Count > 0
         /\ DOMAIN logicalCpus_ = 0..(Count - 1)
         /\ machine.os \in {"linux", "windows"}
         /\ machine.os = "linux" =>
              \A c : Described(c) <=> c \in machine.online /\ c \in 0..(Count - 1)
         /\ machine.os = "windows" => \A c : Described(c) <=> c \in machine.online
<1>1. machine \in Machines /\ Active
  BY DEF TopologyInv, ListInv, Staged, Active
<1>2. Count \in Nat /\ Count > 0
  BY <1>1, CountFacts
<1>3. logicalCpus_ \in [0..(Count - 1) -> Infos] /\ machine.os # "other"
  BY <1>1 DEF TopologyInv, Table
<1>4. DOMAIN logicalCpus_ = 0..(Count - 1)
  BY <1>3
<1>5. machine.os \in {"linux", "windows"}
  BY <1>1, <1>3, MachineFacts
<1>6. machine.os = "linux" => \A c : Described(c) <=> c \in machine.online /\ c \in 0..(Count - 1)
  BY <1>4 DEF Described, At, Online
<1>7. machine.os = "windows" => \A c : Described(c) <=> c \in machine.online
  <2>1. SUFFICES ASSUME machine.os = "windows" PROVE \A c : Described(c) <=> c \in machine.online
    OBVIOUS
  <2>2. \A c \in machine.online : Index(c) \in 0..(Count - 1)
    BY <1>1, <2>1, IndexFacts
  <2>3. QED BY <1>4, <2>1, <2>2 DEF Described, At, Online
<1>8. QED BY <1>1, <1>2, <1>4, <1>5, <1>6, <1>7

\* Every CPU that Windows describes is in the record of its core.
LEMMA WindowsDone ==
  ASSUME TopologyInv, stage = "done", machine.os = "windows", NEW c \in machine.online
  PROVE  \E k \in 1..Len(CoreRecords) :
           /\ c \in CoreRecords[k]
           /\ logicalCpus_[At(c)].coreId = k - 1
           /\ logicalCpus_[At(c)].coreType = IF Hybrid THEN Kind(c) ELSE "Standard"
<1>1. machine \in Machines /\ Active
  BY DoneFacts
<1>2. PICK k \in 1..Len(CoreRecords) : c \in CoreRecords[k]
  BY <1>1, CoreRecordsFacts
<1>3. RecordRead(k) /\ At(c) = Index(c)
  BY DEF RecordRead, At
<1>4. QED BY <1>1, <1>2, <1>3 DEF TopologyInv, WindowsCores


\* At the end the CPUs that share a cache are those of the machine, as far as
\* the mask holds them (initCpuTopology, parseCpuList, convertMask).
THEOREM CachesAreThoseOfTheMachine == Spec => []SharedCachesAreTrue
<1>1. TopologyInv => SharedCachesAreTrue
  <2>1. SUFFICES ASSUME TopologyInv, stage = "done", NEW c \in machine.online,
                        NEW k \in DOMAIN machine.files, NEW t, t = machine.files[k],
                        Described(c), t \in CacheTypes
                 PROVE  LET recorded == logicalCpus_[At(c)].cache[t] IN
                        /\ recorded \subseteq Sharers(t, c)
                        /\ machine.os = "windows" \/ Fits(Shared(t, c)) => recorded = Sharers(t, c)
    BY DEF SharedCachesAreTrue
  <2>2. machine \in Machines /\ Active /\ machine.os \in {"linux", "windows"}
    BY <2>1, DoneFacts
  <2>3. CASE machine.os = "linux"
    <3>1. c \in 0..(Count - 1) /\ At(c) = c
      BY <2>1, <2>3, DoneFacts DEF At
    <3>2. Sharers(t, c) = Shared(t, c)
      BY <2>3 DEF Sharers, At
    <3>3. /\ logicalCpus_[c].cache[t] \subseteq Shared(t, c)
          /\ Fits(Shared(t, c)) => logicalCpus_[c].cache[t] = Shared(t, c)
      BY <2>1, <2>2, <2>3, <3>1 DEF TopologyInv, LinuxCaches, CacheRead, AfterCpus, Online
    <3>4. QED BY <2>3, <3>1, <3>2, <3>3
  <2>4. CASE machine.os = "windows"
    <3>1. logicalCpus_[Index(c)].cache[t] = {Index(d) : d \in machine.shared[t][c]}
      BY <2>1, <2>2, <2>4 DEF TopologyInv, WindowsCaches, EntryRead
    <3>2. t \in DOMAIN machine.shared
      BY <2>1, <2>2, <2>4, CpuTopologyAssumption
    <3>3. Sharers(t, c) = {Index(d) : d \in machine.shared[t][c]}
      BY <2>4, <3>2 DEF Sharers, Shared, Online, At
    <3>4. At(c) = Index(c)
      BY <2>4 DEF At
    <3>5. QED BY <3>1, <3>3, <3>4
  <2>5. QED BY <2>2, <2>3, <2>4
<1>2. QED BY <1>1, AlwaysTopologyInv, PTL

\* No CPU is ever taken for one of the other type, whichever lists are missing
\* or do not fit, and the thread that went from one to the next is back.
THEOREM TypesAreThoseOfTheMachine == Spec => []CoreTypesAreTrue
<1> DEFINE readable(k) == LET S == {d \in machine.online : Kind(d) = k}
                          IN k \in machine.lists /\ (S = {} \/ Fits(S))
           known(c) == \/ machine.os = "windows"
                       \/ readable("P") /\ readable("E")
                       \/ machine.getaffinity /\ c \in machine.allowed
           Type(c) == logicalCpus_[At(c)].coreType
<1>1. ASSUME TopologyInv, stage = "done", NEW c \in machine.online, Described(c)
      PROVE  /\ Type(c) \in {"Standard", Kind(c)}
             /\ ~Hybrid => Type(c) = "Standard"
             /\ Hybrid /\ known(c) => Type(c) = Kind(c)
  <2>1. machine \in Machines /\ Active /\ machine.os \in {"linux", "windows"}
    BY <1>1, DoneFacts
  <2>2. CASE machine.os = "linux"
    <3>1. c \in 0..(Count - 1) /\ At(c) = c
      BY <1>1, <2>2, DoneFacts DEF At
    <3>2. CoreRead(c) /\ Online(c)
      BY <1>1 DEF CoreRead, AfterCpus, Online
    <3>3. /\ Type(c) \in {"Standard", Kind(c)}
          /\ ~Hybrid => Type(c) = "Standard"
          /\ TypeRead(c) => Type(c) = Kind(c)
      BY <1>1, <2>1, <2>2, <3>1, <3>2 DEF TopologyInv, LinuxTypes
    <3>4. Hybrid /\ readable("P") /\ readable("E") => accepted = {"P", "E"}
      <4>1. \A k : readable(k) <=> Readable(k)
        BY DEF Readable, OfKind
      <4>2. /\ Hybrid /\ Readable("P") => "P" \in accepted
            /\ Hybrid /\ Readable("E") => "E" \in accepted
        BY <1>1, <2>1, <2>2 DEF TopologyInv, LinuxTypes, AfterCpus
      <4>3. accepted \subseteq {"P", "E"}
        BY <1>1 DEF TopologyInv, Table
      <4>4. QED BY <4>1, <4>2, <4>3
    <3>5. Hybrid /\ known(c) => TypeRead(c)
      BY <1>1, <2>2, <3>4 DEF TypeRead
    <3>6. QED BY <3>3, <3>5
  <2>3. CASE machine.os = "windows"
    BY <1>1, <2>3, WindowsDone
  <2>4. QED BY <2>1, <2>2, <2>3
<1>2. TopologyInv => AffinityRestored
  BY DEF TopologyInv, Moved
<1>3. TopologyInv => CoreTypesAreTrue
  BY <1>1, <1>2 DEF CoreTypesAreTrue
<1>4. QED BY <1>3, AlwaysTopologyInv, PTL

LEMMA MaxFacts ==
  ASSUME NEW S, S \subseteq Nat, IsFiniteSet(S), S # {}
  PROVE  Max(S) \in S /\ \A x \in S : x <= Max(S)
<1>1. PICK n, o : n = Cardinality(S) /\ o = InOrder(S)
  OBVIOUS
<1>2. /\ n \in Nat /\ o \in [1..n -> S]
      /\ \A j, k \in 1..n : j < k => o[j] < o[k]
      /\ \A x \in S : \E k \in 1..n : o[k] = x
  BY <1>1, InOrderFacts
<1>3. n \in 1..n
  <2>1. PICK x \in S : TRUE
    OBVIOUS
  <2>2. PICK k \in 1..n : o[k] = x
    BY <1>2
  <2>3. QED BY <1>2, <2>2
<1>4. \A x \in S : x <= o[n]
  <2>1. TAKE x \in S
  <2>2. PICK k \in 1..n : o[k] = x
    BY <1>2
  <2>3. k < n => o[k] < o[n]
    BY <1>2, <1>3
  <2>4. o[k] \in Nat /\ o[n] \in Nat
    BY <1>2, <1>3
  <2>5. QED BY <1>2, <2>2, <2>3, <2>4
<1>5. o[n] \in S
  BY <1>2, <1>3
<1>6. \E x \in S : \A y \in S : x >= y
  BY <1>4, <1>5
<1>7. QED BY <1>6 DEF Max

\* Linux: the cores of the CPUs that are described, and the largest number.
LEMMA LinuxCoresAreTrue ==
  ASSUME TopologyInv, stage = "done", machine.os = "linux",
         NEW cpus, cpus = {c \in machine.online : Described(c)},
         NEW cores, cores = {machine.core[c] : c \in cpus}
  PROVE  /\ \A c \in cpus : logicalCpus_[At(c)].coreId = machine.core[c]
         /\ physicalCoreNum_ >= Cardinality(cores)
         /\ cores = 0..(Cardinality(cores) - 1) => physicalCoreNum_ = Cardinality(cores)
<1>1. /\ machine \in Machines /\ Active /\ Count \in Nat /\ Count > 0
      /\ cpus = {c \in machine.online : c \in 0..(Count - 1)}
  BY DoneFacts
<1>2. PICK D, X : D = 0..(Count - 1) /\ X = {logicalCpus_[i].coreId : i \in D}
  OBVIOUS
<1>3. /\ \A i \in D : logicalCpus_[i].coreId = IF Online(i) THEN machine.core[i] ELSE 0
      /\ physicalCoreNum_ = 1 + Max(X)
  BY <1>1, <1>2 DEF TopologyInv, LinuxCores, CoreRead, AfterCpus
<1>4. \A c \in cpus : logicalCpus_[At(c)].coreId = machine.core[c]
  BY <1>1, <1>2, <1>3 DEF At, Online
<1>5. X \subseteq Nat /\ IsFiniteSet(X) /\ X # {}
  <2>1. \A c \in machine.online : machine.core[c] \in Nat
    BY <1>1, CpuTopologyAssumption
  <2>2. PICK f : f = [i \in D |-> logicalCpus_[i].coreId]
    OBVIOUS
  <2>3. X = {f[i] : i \in D} /\ f = [i \in D |-> f[i]]
    BY <1>2, <2>2
  <2>4. IsFiniteSet(D)
    BY <1>1, <1>2, FS_Interval
  <2>5. IsFiniteSet(X)
    BY <2>3, <2>4, ImageFacts
  <2>6. X \subseteq Nat
    BY <1>2, <1>3, <2>1 DEF Online
  <2>7. 0 \in D
    BY <1>1, <1>2
  <2>8. QED BY <1>2, <2>5, <2>6, <2>7
<1>6. Max(X) \in X /\ Max(X) \in Nat /\ \A x \in X : x <= Max(X)
  BY <1>5, MaxFacts
<1>7. cores \subseteq X
  BY <1>1, <1>2, <1>3 DEF Online
<1>8. Cardinality(cores) \in Nat /\ Cardinality(cores) <= 1 + Max(X)
  <2>1. PICK M \in Nat : M = Max(X)
    BY <1>6
  <2>2. IsFiniteSet(0..M) /\ Cardinality(0..M) = M + 1
    BY <2>1, FS_Interval
  <2>3. cores \in SUBSET (0..M)
    <3>1. \A x \in X : x \in Nat /\ x <= M
      BY <1>5, <1>6, <2>1
    <3>2. \A x \in X : x \in 0..M
      BY <2>1, <3>1
    <3>3. QED BY <1>7, <3>2
  <2>4. IsFiniteSet(cores) /\ Cardinality(cores) <= Cardinality(0..M)
    BY <2>2, <2>3, FS_Subset
  <2>5. Cardinality(cores) \in Nat
    BY <2>4, FS_CardinalityType
  <2>6. QED BY <2>1, <2>2, <2>4, <2>5
<1>9. ASSUME cores = 0..(Cardinality(cores) - 1) PROVE Max(X) = Cardinality(cores) - 1
  <2>1. PICK n \in Nat : n = Cardinality(cores)
    BY <1>8
  <2>2. cores = 0..(n - 1)
    BY <1>9, <2>1
  <2>3. 0 \in cpus
    BY <1>1, MachineFacts
  <2>4. machine.core[0] \in cores
    BY <2>3
  <2>5. n > 0
    <3>1. PICK x \in 0..(n - 1) : TRUE
      BY <2>2, <2>4
    <3>2. QED BY <2>1, <3>1
  <2>6. X \subseteq cores
    <3>1. 0 \in cores
      BY <2>2, <2>5
    <3>2. ASSUME NEW i \in D PROVE logicalCpus_[i].coreId \in cores
      BY <1>1, <1>2, <1>3, <3>1 DEF Online
    <3>3. QED BY <1>2, <3>2
  <2>7. n - 1 \in X
    BY <1>7, <2>2, <2>5
  <2>8. Max(X) <= n - 1
    BY <1>6, <2>2, <2>6
  <2>9. n - 1 <= Max(X)
    BY <1>6, <2>7
  <2>10. QED BY <1>6, <2>1, <2>8, <2>9
<1>10. QED BY <1>3, <1>4, <1>6, <1>8, <1>9

\* Windows: as many cores as records of them.
LEMMA WindowsCoresAreTrue ==
  ASSUME TopologyInv, stage = "done", machine.os = "windows",
         NEW cores, cores = {machine.core[c] : c \in machine.online}
  PROVE  /\ \A c, d \in machine.online : (logicalCpus_[At(c)].coreId = logicalCpus_[At(d)].coreId)
                                           <=> machine.core[c] = machine.core[d]
         /\ physicalCoreNum_ \in Nat /\ physicalCoreNum_ = Cardinality(cores)
<1>1. machine \in Machines /\ Active
  BY DoneFacts
<1>2. PICK L, R : L = Len(CoreRecords) /\ R = CoreRecords
  OBVIOUS
<1>3. /\ L \in Nat
      /\ \A k \in 1..L : /\ R[k] \subseteq machine.online
                         /\ Min(R[k]) \in R[k]
                         /\ \A c, d \in R[k] : machine.core[c] = machine.core[d]
      /\ \A d \in machine.online : \E k \in 1..L : d \in R[k]
      /\ \A j, k \in 1..L : \A c \in R[j], d \in R[k] : machine.core[c] = machine.core[d] => j = k
  BY <1>1, <1>2, CoreRecordsFacts
<1>4. \A c \in machine.online : \E k \in 1..L : c \in R[k] /\ logicalCpus_[At(c)].coreId = k - 1
  BY <1>2, WindowsDone
<1>5. ASSUME NEW c \in machine.online, NEW d \in machine.online
      PROVE  (logicalCpus_[At(c)].coreId = logicalCpus_[At(d)].coreId) <=> machine.core[c] = machine.core[d]
  <2>1. PICK j \in 1..L : c \in R[j] /\ logicalCpus_[At(c)].coreId = j - 1
    BY <1>4
  <2>2. PICK k \in 1..L : d \in R[k] /\ logicalCpus_[At(d)].coreId = k - 1
    BY <1>4
  <2>3. machine.core[c] = machine.core[d] <=> j = k
    BY <1>3, <2>1, <2>2
  <2>4. QED BY <1>3, <2>1, <2>2, <2>3
<1>6. PICK f : f = [k \in 1..L |-> machine.core[Min(R[k])]]
  OBVIOUS
<1>7. {f[k] : k \in 1..L} = cores
  <2>1. ASSUME NEW k \in 1..L PROVE f[k] \in cores
    BY <1>3, <1>6
  <2>2. ASSUME NEW c \in machine.online PROVE \E k \in 1..L : f[k] = machine.core[c]
    BY <1>3, <1>6
  <2>3. QED BY <2>1, <2>2
<1>8. \A j, k \in 1..L : f[j] = f[k] => j = k
  BY <1>3, <1>6
<1>9. IsFiniteSet(1..L) /\ Cardinality(1..L) = L
  BY <1>3, FS_Interval
<1>10. Cardinality(cores) = L
  <2>1. f = [k \in 1..L |-> f[k]]
    BY <1>6
  <2>2. PICK K : K = 1..L
    OBVIOUS
  <2>3. /\ IsFiniteSet(K) /\ f = [k \in K |-> f[k]]
        /\ \A j, k \in K : f[j] = f[k] => j = k
    BY <1>8, <1>9, <2>1, <2>2
  <2>4. Cardinality({f[k] : k \in K}) = Cardinality(K)
    BY <2>3, ImageFacts
  <2>5. QED BY <1>7, <1>9, <2>2, <2>4
<1>11. physicalCoreNum_ = L
  BY <1>1, <1>2 DEF TopologyInv, WindowsCores
<1>12. QED BY <1>3, <1>5, <1>10, <1>11

\* At the end two CPUs have one core number exactly if they are threads of one
\* core, and every core is counted.
THEOREM CoresAreThoseOfTheMachine == Spec => []CoresAreTrue
<1>1. TopologyInv => CoresAreTrue
  <2>1. SUFFICES ASSUME TopologyInv, stage = "done",
                        NEW cpus, cpus = {c \in machine.online : Described(c)},
                        NEW cores, cores = {machine.core[c] : c \in cpus}
                 PROVE  /\ \A c, d \in cpus : (logicalCpus_[At(c)].coreId = logicalCpus_[At(d)].coreId)
                                                <=> machine.core[c] = machine.core[d]
                        /\ physicalCoreNum_ >= Cardinality(cores)
                        /\ machine.os = "windows" \/ cores = 0..(Cardinality(cores) - 1)
                             => physicalCoreNum_ = Cardinality(cores)
    BY DEF CoresAreTrue
  <2>2. machine.os \in {"linux", "windows"}
    BY <2>1, DoneFacts
  <2>3. CASE machine.os = "linux"
    <3>1. /\ \A c \in cpus : logicalCpus_[At(c)].coreId = machine.core[c]
          /\ physicalCoreNum_ >= Cardinality(cores)
          /\ cores = 0..(Cardinality(cores) - 1) => physicalCoreNum_ = Cardinality(cores)
      BY <2>1, <2>3, LinuxCoresAreTrue, Zenon
    <3>2. machine.os # "windows"
      BY <2>3
    <3>3. QED BY <3>1, <3>2, Zenon
  <2>4. CASE machine.os = "windows"
    <3>1. cpus = machine.online
      BY <2>1, <2>4, DoneFacts
    <3>2. QED BY <2>1, <2>4, <3>1, WindowsCoresAreTrue
  <2>5. QED BY <2>2, <2>3, <2>4
<1>2. QED BY <1>1, AlwaysTopologyInv, PTL

-----------------------------------------------------------------------------
(* The counts of cores and of the cores that share a cache.                *)

LEMMA PairFacts ==
  ASSUME NEW a \in Int, NEW b \in Int
  PROVE  /\ Max({a, b}) = IF a >= b THEN a ELSE b
         /\ Min({a, b}) = IF a <= b THEN a ELSE b
<1>1. Max({a, b}) \in {a, b} /\ \A y \in {a, b} : Max({a, b}) >= y
  <2>1. \E x \in {a, b} : \A y \in {a, b} : x >= y
    OBVIOUS
  <2>2. QED BY <2>1 DEF Max
<1>2. Min({a, b}) \in {a, b} /\ \A y \in {a, b} : Min({a, b}) <= y
  <2>1. \E x \in {a, b} : \A y \in {a, b} : x <= y
    OBVIOUS
  <2>2. QED BY <2>1 DEF Min
<1>3. QED BY <1>1, <1>2

\* The number of identifiers that Intel gives to n.
LEMMA PowerFacts ==
  ASSUME NEW n \in 1..32
  PROVE  PowerOfTwo(n) \in {1, 2, 4, 8, 16, 32} /\ n <= PowerOfTwo(n) /\ PowerOfTwo(n) < 2 * n
<1>1. \E p \in {1, 2, 4, 8, 16, 32} : n <= p /\ p < 2 * n
  <2>1. ASSUME NEW p \in {1, 2, 4, 8, 16, 32}, n <= p, p < 2 * n
        PROVE  \E x \in {1, 2, 4, 8, 16, 32} : n <= x /\ x < 2 * n
    BY <2>1
  <2>2. CASE n <= 1
    BY <2>1, <2>2
  <2>3. CASE 1 < n /\ n <= 2
    BY <2>1, <2>3
  <2>4. CASE 2 < n /\ n <= 4
    BY <2>1, <2>4
  <2>5. CASE 4 < n /\ n <= 8
    BY <2>1, <2>5
  <2>6. CASE 8 < n /\ n <= 16
    BY <2>1, <2>6
  <2>7. CASE 16 < n
    BY <2>1, <2>7
  <2>8. QED BY <2>2, <2>3, <2>4, <2>5, <2>6, <2>7
<1>2. QED BY <1>1 DEF PowerOfTwo

LEMMA PowersGrow ==
  ASSUME NEW a \in 1..32, NEW b \in 1..32, a <= b
  PROVE  PowerOfTwo(a) <= PowerOfTwo(b)
<1>1. PICK p, q : p = PowerOfTwo(a) /\ q = PowerOfTwo(b)
  OBVIOUS
<1>2. /\ p \in {1, 2, 4, 8, 16, 32} /\ a <= p /\ p < 2 * a
      /\ q \in {1, 2, 4, 8, 16, 32} /\ b <= q /\ q < 2 * b
  BY <1>1, PowerFacts
<1>3. q < p => 2 * q <= p
  BY <1>2
<1>4. p <= q
  BY <1>2, <1>3
<1>5. QED BY <1>1, <1>4

LEMMA PowerDoubles ==
  ASSUME NEW n \in 1..16
  PROVE  PowerOfTwo(2 * n) = 2 * PowerOfTwo(n)
<1>1. PICK p, q : p = PowerOfTwo(n) /\ q = PowerOfTwo(2 * n)
  OBVIOUS
<1>2. /\ p \in {1, 2, 4, 8, 16, 32} /\ n <= p /\ p < 2 * n
      /\ q \in {1, 2, 4, 8, 16, 32} /\ 2 * n <= q /\ q < 4 * n
  BY <1>1, PowerFacts
<1>3. q = 2 * p
  BY <1>2
<1>4. QED BY <1>1, <1>3

LEMMA QuotientIs ==
  ASSUME NEW q \in Nat, NEW c \in Nat \ {0}
  PROVE  (q * c) \div c = q
<1>1. PICK a, d, r : a = q * c /\ d = a \div c /\ r = a % c
  OBVIOUS
<1>2. d \in Nat /\ r \in 0..(c - 1) /\ q * c = c * d + r
  <2>1. a \in Nat
    BY <1>1
  <2>2. QED BY <1>1, <2>1, DivFacts
<1>3. d < q => c * d + c <= c * q
  BY <1>2, ProductGrows
<1>4. q < d => c * q + c <= c * d
  BY <1>2, ProductGrows
<1>5. c * d \in Nat /\ q * c = c * q /\ c * q \in Nat
  BY <1>2
<1>6. d = q
  BY <1>2, <1>3, <1>4, <1>5
<1>7. QED BY <1>1, <1>6

\* The vendor is among the features once its part has run, and stays alone.
VendorFound ==
  at # "vendor" =>
    /\ "AMD" \in type_ <=> machine.vendor = "AMD"
    /\ "INTEL" \in type_ <=> machine.vendor = "INTEL"

\* What SetNumCores makes of the tables.
CountsFound ==
  /\ numCores_ \in Nat \X Nat
  /\ 1 <= numCores_[SmtLevel] /\ numCores_[SmtLevel] <= numCores_[CoreLevel]
  /\ "AMD" \in type_ /\ HasCacheLeaf => machine.smt <= numCores_[CoreLevel]
  /\ Exact => numCores_ = <<machine.smt, Threads>>
  /\ Bounded => numCores_ = <<machine.smt, PowerOfTwo(Threads)>>

LEMMA MachineCounts ==
  ASSUME machine \in Machines
  PROVE  /\ machine.cores \in 1..16 /\ machine.smt \in {1, 2}
         /\ Threads \in 1..32 /\ machine.smt <= Threads /\ Threads = machine.smt * machine.cores
         /\ machine.maxNum \in Nat /\ machine.maxExtended \in Nat
         /\ DisplayFamily \in Nat
<1>1. /\ machine.cores \in 1..16 /\ machine.smt \in {1, 2}
      /\ machine.maxNum \in Nat /\ machine.maxExtended \in Nat
      /\ machine.family.base \in Nat /\ machine.family.ext \in Nat
  BY CpuAssumption
<1>2. QED BY <1>1 DEF Threads, DisplayFamily

LEMMA LeafBCounts ==
  ASSUME machine \in Machines, HasLeafB
  PROVE  \/ machine.leafB = "exact" /\ FromLeafB = <<machine.smt, Threads>>
         \/ machine.leafB = "partial" /\ FromLeafB = <<machine.smt, machine.smt>>
<1>1. machine.smt \in {1, 2} /\ Threads \in 1..32 /\ machine.smt <= Threads
  BY MachineCounts
<1>2. machine.leafB \in {"exact", "partial"}
  BY CpuAssumption DEF HasLeafB, TopologyLevel
<1>3. /\ TopologyLevel(0) = [level |-> 1, count |-> machine.smt]
      /\ TopologyLevel(1) = IF machine.leafB = "partial" THEN [level |-> 0, count |-> 0]
                            ELSE [level |-> 2, count |-> Threads]
  BY <1>2 DEF TopologyLevel
<1> DEFINE of(level) == Max({0} \cup {TopologyLevel(i).count :
                                   i \in {j \in {0, 1} : TopologyLevel(j).level = level}})
<1>4. of(1) = machine.smt
  <2>1. {j \in {0, 1} : TopologyLevel(j).level = 1} = {0}
    BY <1>3
  <2>2. {0} \cup {TopologyLevel(i).count : i \in {0}} = {0, machine.smt}
    BY <1>3
  <2>3. QED BY <1>1, <2>1, <2>2, PairFacts
<1>5. of(2) = IF machine.leafB = "partial" THEN 0 ELSE Threads
  <2>1. CASE machine.leafB = "partial"
    <3>1. {j \in {0, 1} : TopologyLevel(j).level = 2} = {}
      BY <1>3, <2>1
    <3>2. {0} \cup {TopologyLevel(i).count : i \in {}} = {0, 0}
      OBVIOUS
    <3>3. QED BY <2>1, <3>1, <3>2, PairFacts
  <2>2. CASE machine.leafB # "partial"
    <3>1. {j \in {0, 1} : TopologyLevel(j).level = 2} = {1}
      BY <1>3, <2>2
    <3>2. {0} \cup {TopologyLevel(i).count : i \in {1}} = {0, Threads}
      BY <1>3, <2>2
    <3>3. QED BY <1>1, <2>2, <3>1, <3>2, PairFacts
  <2>3. QED BY <2>1, <2>2
<1>6. FromLeafB = <<Max({1, of(1)}), Max({Max({1, of(1)}), of(2)})>>
  BY DEF FromLeafB, SmtLevel, CoreLevel
<1> HIDE DEF of
<1>7. Max({1, of(1)}) = machine.smt
  BY <1>1, <1>4, PairFacts
<1>8. Max({machine.smt, of(2)}) = IF machine.leafB = "partial" THEN machine.smt ELSE Threads
  BY <1>1, <1>5, PairFacts
<1>9. QED BY <1>2, <1>6, <1>7, <1>8

LEMMA VendorIsFound ==
  ASSUME VendorFound, at # "vendor"
  PROVE  /\ machine.vendor = "AMD" => "AMD" \in type_ /\ "INTEL" \notin type_ /\ KnownVendor
         /\ machine.vendor = "INTEL" => "INTEL" \in type_ /\ "AMD" \notin type_ /\ KnownVendor
         /\ KnownVendor => machine.vendor \in {"AMD", "INTEL"}
<1>1. ("AMD" \in type_ <=> machine.vendor = "AMD") /\ ("INTEL" \in type_ <=> machine.vendor = "INTEL")
  BY DEF VendorFound
<1>2. QED BY <1>1 DEF KnownVendor

LEMMA Leaf1Counts ==
  ASSUME machine \in Machines, VendorFound, at # "vendor", KnownVendor
  PROVE  \E n1, n2 \in Nat :
           /\ FromLeaf1 = <<n1, n2>> /\ 1 <= n1 /\ n1 <= n2
           /\ machine.vendor = "AMD" /\ machine.maxExtended >= 29 => machine.smt <= n2
           /\ ~HasLeafB /\ Exact => n1 = machine.smt /\ n2 = Threads
           /\ Bounded => n1 = machine.smt /\ n2 = PowerOfTwo(Threads)
<1>1. /\ machine.cores \in 1..16 /\ machine.smt \in {1, 2}
      /\ Threads \in 1..32 /\ machine.smt <= Threads /\ Threads = machine.smt * machine.cores
      /\ machine.maxNum \in Nat /\ machine.maxExtended \in Nat /\ DisplayFamily \in Nat
  BY MachineCounts
<1>2. \/ machine.vendor = "AMD" /\ "AMD" \in type_ /\ "INTEL" \notin type_
      \/ machine.vendor = "INTEL" /\ "INTEL" \in type_ /\ "AMD" \notin type_
  BY VendorIsFound
<1>3. CASE ~HyperThreading
  <2>1. Threads = 1 /\ machine.cores = 1 /\ machine.smt = 1
    BY <1>1, <1>3 DEF HyperThreading
  <2>2. FromLeaf1 = <<1, 1>>
    BY <1>3 DEF FromLeaf1
  <2>3. ~Bounded
    BY <2>1 DEF Bounded
  <2>4. QED BY <2>1, <2>2, <2>3
<1>4. CASE HyperThreading /\ machine.vendor = "AMD"
  <2>1. LogicalProcessors = Threads /\ AmdThreads = Threads /\ Threads > 1 /\ ~Bounded
    BY <1>2, <1>4 DEF LogicalProcessors, Shown, AmdThreads, HyperThreading, Bounded
  <2>2. CASE machine.maxExtended >= 8
    <3>1. ShownCores = Threads
      BY <1>2, <1>4, <2>1, <2>2 DEF ShownCores
    <3>2. FromLeaf1 = <<Threads \div Cores, Threads>>
      BY <1>1, <1>4, <2>1, <3>1 DEF FromLeaf1
    <3>3. CASE DisplayFamily >= 23 /\ machine.maxExtended >= 30
      <4>1. Cores = machine.cores
        BY <1>1, <1>2, <1>4, <3>1, <3>3 DEF Cores, ThreadsPerUnit
      <4>2. Threads \div Cores = machine.smt
        <5>1. machine.smt \in Nat /\ machine.cores \in Nat \ {0}
          BY <1>1
        <5>2. QED BY <1>1, <4>1, <5>1, QuotientIs
      <4>3. QED BY <1>1, <2>1, <3>2, <4>2
    <3>4. CASE ~(DisplayFamily >= 23 /\ machine.maxExtended >= 30)
      <4>1. Cores = Threads
        BY <3>1, <3>4 DEF Cores
      <4>2. Threads \div Threads = 1
        <5>1. Threads \in Nat \ {0} /\ Threads = 1 * Threads
          BY <1>1
        <5>2. QED BY <5>1, QuotientIs
      <4>3. ~HasLeafB /\ Exact => machine.smt = 1
        BY <3>4 DEF Exact
      <4>4. QED BY <1>1, <2>1, <3>2, <4>1, <4>2, <4>3
    <3>5. QED BY <3>3, <3>4
  <2>3. CASE machine.maxExtended < 8
    <3>1. ShownCores = 0
      BY <1>1, <1>2, <1>4, <2>3 DEF ShownCores
    <3>2. FromLeaf1 = <<1, Max({Threads, 2})>>
      BY <1>2, <1>4, <2>1, <3>1 DEF FromLeaf1
    <3>3. Max({Threads, 2}) = Threads
      BY <1>1, <2>1, PairFacts
    <3>4. ~HasLeafB => ~Exact
      BY <1>1, <2>3 DEF Exact
    <3>5. QED BY <1>1, <2>1, <2>3, <3>2, <3>3, <3>4
  <2>4. QED BY <1>1, <2>2, <2>3
<1>5. CASE HyperThreading /\ machine.vendor = "INTEL"
  <2>1. PICK p, q : p = PowerOfTwo(machine.cores) /\ q = PowerOfTwo(Threads)
    OBVIOUS
  <2>2. /\ p \in {1, 2, 4, 8, 16, 32} /\ machine.cores <= p /\ p < 2 * machine.cores
        /\ q \in {1, 2, 4, 8, 16, 32} /\ Threads <= q
        /\ q = machine.smt * p
    <3>1. machine.smt = 2 => q = 2 * p
      BY <1>1, <2>1, PowerDoubles
    <3>2. machine.smt = 1 => q = p
      BY <1>1, <2>1
    <3>3. machine.cores \in 1..32
      BY <1>1
    <3>4. QED BY <1>1, <2>1, <3>1, <3>2, <3>3, PowerFacts
  <2>3. LogicalProcessors = q /\ CoreIds = p /\ Threads > 1 /\ (~HasLeafB => ~Exact)
    BY <1>2, <1>5, <2>1 DEF LogicalProcessors, CoreIds, Shown, HyperThreading, Exact
  <2>4. ShownCores = (IF machine.maxNum >= 4 THEN p ELSE 0) /\ Cores = ShownCores
    <3>1. "AMD" \notin type_ /\ machine.maxNum \in Nat
      BY <1>1, <1>2, <1>5
    <3>2. ShownCores = IF machine.maxNum >= 4 THEN p ELSE 0
      BY <2>3, <3>1 DEF ShownCores
    <3>3. QED BY <3>1, <3>2 DEF Cores
  <2>5. CASE ShownCores > 1
    <3>1. FromLeaf1 = <<q \div p, q>>
      BY <1>5, <2>3, <2>4, <2>5 DEF FromLeaf1
    <3>2. q \div p = machine.smt
      <4>1. machine.smt \in Nat /\ p \in Nat \ {0}
        BY <1>1, <2>2
      <4>2. QED BY <2>2, <4>1, QuotientIs
    <3>3. QED BY <1>1, <1>5, <2>1, <2>2, <2>3, <3>1, <3>2
  <2>6. CASE ~(ShownCores > 1)
    <3>1. FromLeaf1 = <<1, Max({q, 1})>>
      BY <1>2, <1>5, <2>3, <2>6 DEF FromLeaf1
    <3>2. Max({q, 1}) = q
      BY <2>2, PairFacts
    <3>3. ~Bounded
      BY <1>1, <2>2, <2>4, <2>6 DEF Bounded
    <3>4. QED BY <1>5, <2>2, <2>3, <3>1, <3>2, <3>3
  <2>7. QED BY <2>5, <2>6
<1>6. QED BY <1>2, <1>3, <1>4, <1>5

\* The number of cores that share the cache of an entry, as far as the tables tell.
Told(entry, n) ==
  /\ n >= 1
  /\ Exact \/ Bounded =>
       Between(n, Max({1, entry.threads \div machine.smt}),
               IF Exact /\ entry.threads = Threads THEN machine.cores
               ELSE Max({1, Shown(entry.threads) \div machine.smt}))

\* What the loop has recorded. A first data cache of AMD is corrected at the end.
LevelsFound ==
  /\ of_ = [i \in 0..(MaxCaches - 1) |-> of_[i]]
  /\ coresSharingDataCache_ \in [0..(MaxCaches - 1) -> Nat]
  /\ dataCacheLevels_ \in 0..MaxCaches /\ subLeaf \in Nat
  /\ dataCacheLevels_ <= Cardinality(DataPositions)
  /\ \A i \in 0..(dataCacheLevels_ - 1) : of_[i] = DataCaches[i + 1]

InLoop ==
  /\ dataCacheLevels_ = 0 => coresSharingDataCache_[0] = 0
  /\ \A j \in 1..Cardinality(DataPositions) :
       j <= dataCacheLevels_ <=> InOrder(DataPositions)[j] <= subLeaf
  /\ \A i \in 0..(dataCacheLevels_ - 1) :
       IF "AMD" \in type_ /\ i = 0 THEN coresSharingDataCache_[0] = machine.smt
       ELSE Told(of_[i], coresSharingDataCache_[i])

\* What the constructor has counted, in every part.
CpuCounts ==
  /\ machine \in Machines
  /\ VendorFound
  /\ at \notin {"caches", "ready"} => dataCacheLevels_ = 0 /\ subLeaf = 0
  /\ at = "caches" /\ ~HasCacheLeaf => dataCacheLevels_ = 0
  /\ at \in {"caches", "ready"} /\ KnownVendor => CountsFound
  /\ at = "caches" => smtWidth = numCores_[SmtLevel]
  /\ LevelsFound
  /\ at # "ready" => InLoop
  /\ at = "ready" /\ KnownVendor =>
       \A i \in 0..(dataCacheLevels_ - 1) : Told(of_[i], coresSharingDataCache_[i])

LEMMA DataFacts ==
  ASSUME machine \in Machines
  PROVE  /\ Cardinality(DataPositions) \in Nat
         /\ machine.caches \in Seq([type : {"data", "instruction", "unified"},
                                    threads : machine.smt..Threads])
         /\ InOrder(DataPositions) \in [1..Cardinality(DataPositions) -> DataPositions]
         /\ \A j, k \in 1..Cardinality(DataPositions) :
              j < k => InOrder(DataPositions)[j] < InOrder(DataPositions)[k]
         /\ \A x \in DataPositions :
              \E k \in 1..Cardinality(DataPositions) : InOrder(DataPositions)[k] = x
         /\ DataPositions \subseteq 1..Len(machine.caches)
         /\ \A i \in 1..Cardinality(DataPositions) :
              DataCaches[i] = machine.caches[InOrder(DataPositions)[i]]
<1>1. machine.caches \in Seq([type : {"data", "instruction", "unified"},
                              threads : machine.smt..Threads])
  BY CpuAssumption DEF Threads
<1>2. PICK n : n = Len(machine.caches) /\ n \in Nat /\ DOMAIN machine.caches = 1..n
  BY <1>1
<1>3. DataPositions \subseteq 1..n
  BY <1>2 DEF DataPositions
<1>4. IsFiniteSet(DataPositions) /\ DataPositions \subseteq Nat
  <2>1. IsFiniteSet(1..n)
    BY <1>2, FS_Interval
  <2>2. IsFiniteSet(DataPositions)
    BY <1>3, <2>1, FS_Subset
  <2>3. QED BY <1>2, <1>3, <2>2
<1>5. PICK P, o : P = DataPositions /\ o = InOrder(P)
  OBVIOUS
<1>6. /\ Cardinality(P) \in Nat /\ o \in [1..Cardinality(P) -> P]
      /\ \A j, k \in 1..Cardinality(P) : j < k => o[j] < o[k]
      /\ \A x \in P : \E k \in 1..Cardinality(P) : o[k] = x
  <2>1. IsFiniteSet(P) /\ P \subseteq Nat
    BY <1>4, <1>5
  <2>2. /\ Cardinality(P) \in Nat /\ InOrder(P) \in [1..Cardinality(P) -> P]
        /\ \A j, k \in 1..Cardinality(P) : j < k => InOrder(P)[j] < InOrder(P)[k]
        /\ \A x \in P : \E k \in 1..Cardinality(P) : InOrder(P)[k] = x
    BY <2>1, InOrderFacts, Zenon
  <2>3. QED BY <1>5, <2>2, Zenon
<1>7. QED BY <1>1, <1>2, <1>3, <1>5, <1>6 DEF DataCaches

\* The first data cache belongs to one core.
LEMMA FirstIsOfCore ==
  ASSUME machine \in Machines, Cardinality(DataPositions) >= 1
  PROVE  DataCaches[1].threads = machine.smt
<1>1. PICK n, P, o, cs : n = Cardinality(P) /\ P = DataPositions /\ o = InOrder(P) /\ cs = machine.caches
  OBVIOUS
<1>2. /\ n \in Nat /\ n >= 1 /\ o \in [1..n -> P] /\ P \subseteq 1..Len(cs) /\ Len(cs) \in Nat
      /\ \A j, k \in 1..n : j < k => o[j] < o[k]
      /\ \A x \in P : \E k \in 1..n : o[k] = x
      /\ DataCaches[1] = cs[o[1]]
      /\ cs \in Seq([type : {"data", "instruction", "unified"}, threads : machine.smt..Threads])
  BY <1>1, DataFacts
<1>3. o[1] \in 1..Len(cs) /\ o[1] \in P
  <2>1. 1 \in 1..n
    BY <1>2
  <2>2. QED BY <1>2, <2>1
<1>4. ASSUME NEW j \in 1..(o[1] - 1) PROVE cs[j].type = "instruction"
  <2>1. j \notin P
    <3>1. SUFFICES ASSUME j \in P PROVE FALSE
      OBVIOUS
    <3>2. PICK k \in 1..n : o[k] = j
      BY <1>2, <3>1
    <3>3. k = 1 \/ o[1] < o[k]
      BY <1>2
    <3>4. QED BY <1>3, <3>2, <3>3
  <2>2. j \in DOMAIN cs
    BY <1>2, <1>3
  <2>3. QED BY <1>1, <2>1, <2>2 DEF DataPositions
<1>5. cs[o[1]].threads = machine.smt
  <2>1. \A k \in DOMAIN cs :
          (\A j \in 1..(k - 1) : cs[j].type = "instruction") => cs[k].threads = machine.smt
    BY <1>1, CpuAssumption
  <2>2. o[1] \in DOMAIN cs
    BY <1>2, <1>3
  <2>3. QED BY <1>4, <2>1, <2>2
<1>6. QED BY <1>2, <1>5

\* What the loop for AMD records, and the end of it.
LEMMA AmdIsTold ==
  ASSUME machine \in Machines, CountsFound, "AMD" \in type_, HasCacheLeaf, "INTEL" \notin type_,
         machine.vendor = "AMD",
         NEW entry, entry.threads \in machine.smt..Threads
  PROVE  /\ Min({entry.threads, numCores_[CoreLevel]}) \div machine.smt \in Nat
         /\ Told(entry, Min({entry.threads, numCores_[CoreLevel]}) \div machine.smt)
         /\ entry.threads = machine.smt =>
              Told(entry, 1) /\ Min({entry.threads, numCores_[CoreLevel]}) = machine.smt
<1>1. PICK t, n, s, c : /\ t = entry.threads /\ n = numCores_[CoreLevel]
                        /\ s = machine.smt /\ c = machine.cores
  OBVIOUS
<1>2. /\ s \in {1, 2} /\ c \in 1..16 /\ Threads = s * c /\ t \in s..(s * c)
      /\ n \in Nat /\ s <= n /\ (Exact => n = s * c) /\ ~Bounded /\ Shown(t) = t
  BY <1>1, MachineCounts DEF CountsFound, CoreLevel, Bounded, Shown
<1>3. PICK x : x = Min({t, n})
  OBVIOUS
<1>4. x = (IF t <= n THEN t ELSE n) /\ x >= s /\ x \in Nat
  <2>1. t \in Int /\ n \in Int
    BY <1>2
  <2>2. x = IF t <= n THEN t ELSE n
    BY <1>3, <2>1, PairFacts
  <2>3. QED BY <1>2, <2>2
<1>5. x \div s \in Nat /\ x \div s >= 1 /\ t \div s >= 1 /\ t \div s \in Nat
  BY <1>2, <1>4
<1>6. Max({1, t \div s}) = t \div s
  BY <1>5, PairFacts
<1>7. Exact => x = t
  BY <1>2, <1>4
<1>8. t = s * c => t \div s = c
  BY <1>2
<1>9. Told(entry, x \div s)
  BY <1>1, <1>2, <1>5, <1>6, <1>7, <1>8 DEF Told, Between
<1>10. ASSUME t = s PROVE Told(entry, 1) /\ x = s
  <2>1. t \div s = 1 /\ x = s
    BY <1>2, <1>4, <1>10
  <2>2. QED BY <1>1, <1>2, <1>6, <1>8, <2>1 DEF Told, Between
<1>11. QED BY <1>1, <1>3, <1>5, <1>9, <1>10

LEMMA IntelIsTold ==
  ASSUME machine \in Machines, CountsFound, "INTEL" \in type_, "AMD" \notin type_,
         machine.vendor = "INTEL", smtWidth = numCores_[SmtLevel],
         NEW entry, entry.threads \in machine.smt..Threads
  PROVE  /\ IntelSharing(entry) \in Nat /\ Told(entry, IntelSharing(entry))
         /\ IntelWidth(entry) = smtWidth
<1>1. PICK t, n1, n2, s, c, p :
        /\ t = entry.threads /\ n1 = numCores_[SmtLevel] /\ n2 = numCores_[CoreLevel]
        /\ s = machine.smt /\ c = machine.cores /\ p = PowerOfTwo(t)
  OBVIOUS
<1>2. /\ s \in {1, 2} /\ c \in 1..16 /\ Threads = s * c /\ t \in s..(s * c) /\ Threads \in 1..32
      /\ n1 \in Nat /\ n2 \in Nat /\ 1 <= n1 /\ n1 <= n2
      /\ (Exact => n1 = s /\ n2 = s * c) /\ (Bounded => n1 = s /\ n2 = PowerOfTwo(Threads))
      /\ Shown(t) = p
  BY <1>1, MachineCounts DEF CountsFound, CoreLevel, SmtLevel, Shown
<1>3. t \in 1..32 /\ t <= Threads
  BY <1>2
<1>4. p \in Nat /\ t <= p /\ p <= PowerOfTwo(Threads)
  <2>1. p \in {1, 2, 4, 8, 16, 32} /\ t <= p
    BY <1>1, <1>3, PowerFacts
  <2>2. p <= PowerOfTwo(Threads)
    BY <1>1, <1>2, <1>3, PowersGrow
  <2>3. QED BY <2>1, <2>2
<1>5. PowerOfTwo(Threads) \in Nat
  BY <1>2, PowerFacts
<1>6. PICK x : x = Min({p, n2})
  OBVIOUS
<1>7. x = (IF p <= n2 THEN p ELSE n2) /\ x \in Nat
  <2>1. p \in Int /\ n2 \in Int
    BY <1>2, <1>4
  <2>2. x = IF p <= n2 THEN p ELSE n2
    BY <1>6, <2>1, PairFacts
  <2>3. QED BY <1>2, <1>4, <2>2
<1>8. IntelThreads(entry) = x /\ IntelWidth(entry) = smtWidth
  BY <1>1, <1>2, <1>6 DEF IntelThreads, IntelWidth
<1>9. PICK d : d = x \div n1
  OBVIOUS
<1>10. d \in Nat
  <2>1. n1 \in Nat \ {0}
    BY <1>2
  <2>2. QED BY <1>7, <1>9, <2>1, DivFacts
<1>11. PICK y : y = IntelSharing(entry)
  OBVIOUS
<1>12. y = (IF d >= 1 THEN d ELSE 1) /\ y \in Nat /\ y >= 1
  <2>1. y = Max({d, 1})
    BY <1>1, <1>8, <1>9, <1>11 DEF IntelSharing
  <2>2. QED BY <1>10, <2>1, PairFacts
<1>13. /\ t \div s \in Nat /\ p \div s \in Nat
       /\ Max({1, t \div s}) = (IF 1 >= t \div s THEN 1 ELSE t \div s)
       /\ Max({1, p \div s}) = (IF 1 >= p \div s THEN 1 ELSE p \div s)
  <2>1. t \div s \in Nat /\ p \div s \in Nat
    BY <1>2, <1>4
  <2>2. QED BY <2>1, PairFacts
<1>14. ASSUME Exact \/ Bounded PROVE t \div s <= d /\ d <= p \div s
  <2>1. n1 = s /\ t <= x /\ x <= p
    BY <1>2, <1>4, <1>5, <1>7, <1>14
  <2>2. QED BY <1>2, <1>4, <1>7, <1>9, <2>1
<1>15. ASSUME Exact, t = Threads PROVE y = c
  <2>1. x = s * c /\ n1 = s
    BY <1>2, <1>4, <1>7, <1>15
  <2>2. d = c
    BY <1>2, <1>9, <2>1
  <2>3. QED BY <1>2, <1>12, <2>2
<1>16. ASSUME Exact \/ Bounded
       PROVE  Between(y, Max({1, t \div s}), IF Exact /\ t = Threads THEN c ELSE Max({1, p \div s}))
  <2>1. Max({1, t \div s}) <= y /\ y <= Max({1, p \div s})
    BY <1>10, <1>12, <1>13, <1>14, <1>16
  <2>2. CASE Exact /\ t = Threads
    <3>1. y = c /\ Max({1, t \div s}) <= c
      BY <1>15, <2>1, <2>2
    <3>2. c <= c
      BY <1>2
    <3>3. QED BY <2>2, <3>1, <3>2 DEF Between
  <2>3. QED BY <2>1, <2>2 DEF Between
<1>17. Told(entry, y)
  BY <1>1, <1>2, <1>12, <1>16 DEF Told
<1>18. QED BY <1>8, <1>11, <1>12, <1>17

\* What is shown of the machine, and what follows from the features, stays.
LEMMA ShownKept ==
  ASSUME machine' = machine, type_' = type_
  PROVE  /\ DataPositions' = DataPositions /\ DataCaches' = DataCaches /\ Threads' = Threads
         /\ (KnownVendor' <=> KnownVendor) /\ (HasCacheLeaf' <=> HasCacheLeaf)
         /\ (Exact' <=> Exact) /\ (Bounded' <=> Bounded)
         /\ \A n : PowerOfTwo(n)' = PowerOfTwo(n)
         /\ \A entry, n : Told(entry, n)' <=> Told(entry, n)
<1>1. /\ DataPositions' = DataPositions /\ DataCaches' = DataCaches /\ Threads' = Threads
      /\ (KnownVendor' <=> KnownVendor) /\ (HasCacheLeaf' <=> HasCacheLeaf)
      /\ (HasLeafB' <=> HasLeafB) /\ DisplayFamily' = DisplayFamily
  BY DEF DataPositions, DataCaches, Threads, KnownVendor, HasCacheLeaf, HasLeafB, TopologyLevel,
         DisplayFamily
<1>2. (Exact' <=> Exact) /\ (Bounded' <=> Bounded)
  BY <1>1 DEF Exact, Bounded
<1>3. \A n : PowerOfTwo(n)' = PowerOfTwo(n) /\ Shown(n)' = Shown(n)
  BY DEF PowerOfTwo, Shown
<1>4. ASSUME NEW entry, NEW n PROVE Told(entry, n)' <=> Told(entry, n)
  BY <1>1, <1>2, <1>3 DEF Told, Between
<1>5. QED BY <1>1, <1>2, <1>3, <1>4

LEMMA ToldLater ==
  ASSUME machine' = machine, type_' = type_, NEW i
  PROVE  Told(of_[i], coresSharingDataCache_[i])'
           <=> Told(of_'[i], coresSharingDataCache_'[i])
<1>1. Threads' = Threads /\ (Exact' <=> Exact) /\ (Bounded' <=> Bounded)
  BY ShownKept
<1>2. QED BY <1>1 DEF Told, Between, Shown, PowerOfTwo

\* The first parts of the constructor find the vendor and count nothing.
LEMMA DetectCounts ==
  ASSUME CpuCounts,
         DetectVendor \/ DetectExtended \/ DetectBasic \/ DetectVector \/ DetectStructured
           \/ DetectLate
  PROVE  CpuCounts'
<1>1. /\ UNCHANGED <<machine, counts, cacheVars>> /\ at' # "vendor" /\ at' \notin {"caches", "ready"}
      /\ at \notin {"caches", "ready"}
  BY DEF DetectVendor, DetectExtended, DetectBasic, DetectVector, DetectStructured, DetectLate
<1>2. ASSUME DetectVendor PROVE VendorFound'
  <2>1. type_' = CASE machine.vendor = "AMD" ->
                        {"AMD"} \cup Bits({"3DN"})
                          \cup (IF Bits({"3DN", "LM"}) # {} THEN {"PREFETCHW"} ELSE {})
                   [] machine.vendor = "INTEL" -> {"INTEL"}
                   [] OTHER -> {}
    BY <1>2 DEF DetectVendor
  <2>2. Bits({"3DN"}) \subseteq {"3DN"}
    BY DEF Bits
  <2>3. CASE machine.vendor = "AMD"
    <3>1. type_' = {"AMD"} \cup Bits({"3DN"})
                     \cup (IF Bits({"3DN", "LM"}) # {} THEN {"PREFETCHW"} ELSE {})
      BY <2>1, <2>3
    <3>2. "AMD" \in type_' /\ "INTEL" \notin type_'
      BY <2>2, <3>1
    <3>3. QED BY <1>1, <2>3, <3>2 DEF VendorFound
  <2>4. CASE machine.vendor = "INTEL"
    <3>1. type_' = {"INTEL"}
      BY <2>1, <2>4
    <3>2. QED BY <1>1, <2>4, <3>1 DEF VendorFound
  <2>5. CASE machine.vendor \notin {"AMD", "INTEL"}
    <3>1. type_' = {}
      BY <2>1, <2>5
    <3>2. QED BY <1>1, <2>5, <3>1 DEF VendorFound
  <2>6. QED BY <2>3, <2>4, <2>5
<1>3. ASSUME DetectExtended \/ DetectBasic \/ DetectVector \/ DetectStructured \/ DetectLate
      PROVE  VendorFound'
  <2>1. /\ at # "vendor"
        /\ ("AMD" \in type_' <=> "AMD" \in type_) /\ ("INTEL" \in type_' <=> "INTEL" \in type_)
    BY <1>3 DEF DetectExtended, DetectBasic, DetectVector, DetectStructured, DetectLate, Vector,
                Bits, Extended, Basic, Avx512, Leaf7, Leaf7Sub1, Leaf1E
  <2>2. QED BY <1>1, <2>1 DEF CpuCounts, VendorFound
<1>4. VendorFound'
  BY <1>2, <1>3
<1>5. dataCacheLevels_ = 0 /\ subLeaf = 0 /\ dataCacheLevels_' = 0 /\ subLeaf' = 0
  BY <1>1 DEF CpuCounts, cacheVars
<1>6. DataPositions' = DataPositions
  BY <1>1 DEF DataPositions
<1>7. LevelsFound'
  <2>1. /\ of_' = of_ /\ coresSharingDataCache_' = coresSharingDataCache_
    BY <1>1 DEF cacheVars
  <2>2. \A i \in 0..(dataCacheLevels_' - 1) : of_'[i] = DataCaches'[i + 1]
    BY <1>5
  <2>3. QED BY <1>5, <1>6, <2>1, <2>2 DEF CpuCounts, LevelsFound
<1>8. InLoop'
  <2>1. \A i \in 0..(dataCacheLevels_' - 1) : FALSE
    BY <1>5
  <2>2. \A j \in 1..Cardinality(DataPositions') :
          j <= dataCacheLevels_' <=> InOrder(DataPositions')[j] <= subLeaf'
    BY <1>1, <1>5, <1>6 DEF CpuCounts, InLoop
  <2>3. coresSharingDataCache_'[0] = 0
    BY <1>1, <1>5 DEF CpuCounts, InLoop, cacheVars
  <2>4. QED BY <2>1, <2>2, <2>3 DEF InLoop
<1>9. QED BY <1>1, <1>4, <1>5, <1>7, <1>8 DEF CpuCounts

LEMMA SetNumCoresCounts ==
  ASSUME CpuCounts, SetNumCores
  PROVE  CpuCounts'
<1>1. /\ UNCHANGED <<machine, type_, cacheVars>> /\ at = "cores" /\ at' = "caches"
      /\ numCores_' = (IF ~KnownVendor THEN numCores_ ELSE IF HasLeafB THEN FromLeafB ELSE FromLeaf1)
      /\ smtWidth' = numCores_'[SmtLevel]
  BY DEF SetNumCores
<1>2. machine \in Machines /\ VendorFound /\ LevelsFound /\ InLoop
      /\ dataCacheLevels_ = 0 /\ subLeaf = 0
  BY <1>1 DEF CpuCounts
<1>3. ASSUME KnownVendor PROVE CountsFound'
  <2>1. PICK n1, n2 \in Nat :
          /\ numCores_' = <<n1, n2>> /\ 1 <= n1 /\ n1 <= n2
          /\ "AMD" \in type_ /\ HasCacheLeaf => machine.smt <= n2
          /\ Exact => n1 = machine.smt /\ n2 = Threads
          /\ Bounded => n1 = machine.smt /\ n2 = PowerOfTwo(Threads)
    <3>1. machine.smt \in {1, 2} /\ Threads \in 1..32 /\ machine.smt <= Threads
      BY <1>2, MachineCounts
    <3>2. CASE HasLeafB
      <4>1. numCores_' = FromLeafB
        BY <1>1, <1>3, <3>2
      <4>2. CASE machine.leafB = "exact" /\ FromLeafB = <<machine.smt, Threads>>
        BY <3>1, <3>2, <4>1, <4>2 DEF Exact, Bounded
      <4>3. CASE machine.leafB = "partial" /\ FromLeafB = <<machine.smt, machine.smt>>
        BY <3>1, <3>2, <4>1, <4>3 DEF Exact, Bounded
      <4>4. QED BY <1>2, <3>2, <4>2, <4>3, LeafBCounts
    <3>3. CASE ~HasLeafB
      <4>1. numCores_' = FromLeaf1
        BY <1>1, <1>3, <3>3
      <4>2. "AMD" \in type_ /\ HasCacheLeaf => machine.vendor = "AMD" /\ machine.maxExtended >= 29
        BY <1>1, <1>2, VendorIsFound DEF HasCacheLeaf, VendorFound
      <4>3. QED BY <1>1, <1>2, <1>3, <3>3, <4>1, <4>2, Leaf1Counts
    <3>4. QED BY <3>2, <3>3
  <2>2. /\ (Exact' <=> Exact) /\ (Bounded' <=> Bounded) /\ (HasCacheLeaf' <=> HasCacheLeaf)
        /\ Threads' = Threads /\ PowerOfTwo(Threads)' = PowerOfTwo(Threads)
    <3>1. machine' = machine /\ type_' = type_
      BY <1>1
    <3>2. QED BY <3>1, ShownKept DEF PowerOfTwo
  <2>3. /\ numCores_' \in Nat \X Nat /\ numCores_'[1] = n1 /\ numCores_'[2] = n2
    BY <2>1
  <2>4. QED BY <1>1, <2>1, <2>2, <2>3 DEF CountsFound, SmtLevel, CoreLevel
<1>4. machine' = machine /\ type_' = type_ /\ UNCHANGED <<of_, coresSharingDataCache_, dataCacheLevels_, subLeaf>>
  BY <1>1 DEF cacheVars
<1>5. /\ DataPositions' = DataPositions /\ DataCaches' = DataCaches /\ (KnownVendor' <=> KnownVendor)
      /\ \A entry, n : Told(entry, n)' <=> Told(entry, n)
  BY <1>4, ShownKept
<1>6. VendorFound' /\ LevelsFound' /\ InLoop'
  BY <1>1, <1>2, <1>4, <1>5 DEF VendorFound, LevelsFound, InLoop
<1>7. QED BY <1>1, <1>2, <1>3, <1>4, <1>5, <1>6 DEF CpuCounts

\* An entry that is read, and whether it is one for data.
LEMMA CacheEntryRead ==
  ASSUME machine \in Machines, VendorFound, at # "vendor", HasCacheLeaf, subLeaf \in Nat,
         CacheEntry(subLeaf).type # "null"
  PROVE  /\ KnownVendor /\ subLeaf < Len(machine.caches)
         /\ CacheEntry(subLeaf) = machine.caches[subLeaf + 1]
         /\ CacheEntry(subLeaf).threads \in machine.smt..Threads
         /\ Counted(CacheEntry(subLeaf)) <=> subLeaf + 1 \in DataPositions
<1>1. /\ machine.caches \in Seq([type : {"data", "instruction", "unified"},
                                 threads : machine.smt..Threads])
  BY DataFacts
<1>2. subLeaf < Len(machine.caches) /\ CacheEntry(subLeaf) = machine.caches[subLeaf + 1]
  BY DEF CacheEntry, NoCache
<1>3. subLeaf + 1 \in DOMAIN machine.caches
  BY <1>1, <1>2
<1>4. /\ CacheEntry(subLeaf).threads \in machine.smt..Threads
      /\ CacheEntry(subLeaf).type \in {"data", "instruction", "unified"}
  <2>1. PICK c, S : /\ c = machine.caches
                    /\ S = [type : {"data", "instruction", "unified"}, threads : machine.smt..Threads]
    OBVIOUS
  <2>2. c \in Seq(S) /\ subLeaf + 1 \in DOMAIN c
    BY <1>1, <1>3, <2>1
  <2>3. c[subLeaf + 1] \in S
    BY <2>2
  <2>4. QED BY <1>2, <2>1, <2>3
<1>5. KnownVendor
  BY DEF HasCacheLeaf, KnownVendor
<1>6. Counted(CacheEntry(subLeaf)) <=> CacheEntry(subLeaf).type # "instruction"
  BY <1>4 DEF Counted
<1>7. QED BY <1>2, <1>3, <1>4, <1>5, <1>6 DEF DataPositions

\* The loop meets the data caches in order.
LEMMA NextIsMet ==
  ASSUME machine \in Machines, LevelsFound, InLoop, subLeaf + 1 \in DataPositions
  PROVE  /\ dataCacheLevels_ + 1 \in 1..Cardinality(DataPositions)
         /\ DataCaches[dataCacheLevels_ + 1] = machine.caches[subLeaf + 1]
         /\ \A j \in 1..Cardinality(DataPositions) :
              j <= dataCacheLevels_ + 1 <=> InOrder(DataPositions)[j] <= subLeaf + 1
<1>1. PICK n, P, o, d : /\ n = Cardinality(P) /\ P = DataPositions /\ o = InOrder(P)
                        /\ d = dataCacheLevels_
  OBVIOUS
<1>2. /\ n \in Nat /\ o \in [1..n -> P] /\ P \subseteq Nat
      /\ \A j, k \in 1..n : j < k => o[j] < o[k]
      /\ \A x \in P : \E k \in 1..n : o[k] = x
      /\ \A i \in 1..n : DataCaches[i] = machine.caches[o[i]]
  BY <1>1, DataFacts
<1>3. /\ d \in Nat /\ subLeaf \in Nat /\ \A j \in 1..n : j <= d <=> o[j] <= subLeaf
  <2>1. MaxCaches \in Nat
    BY CpuAssumption
  <2>2. QED BY <1>1, <2>1 DEF LevelsFound, InLoop
<1>4. PICK k \in 1..n : o[k] = subLeaf + 1
  BY <1>1, <1>2
<1>5. d < k
  BY <1>3, <1>4
<1>6. d + 1 \in 1..n
  BY <1>2, <1>3, <1>4, <1>5
<1>7. k = d + 1
  <2>1. o[d + 1] \in Nat /\ ~(o[d + 1] <= subLeaf)
    <3>1. ~(d + 1 <= d)
      BY <1>3
    <3>2. QED BY <1>2, <1>3, <1>6, <3>1
  <2>2. d + 1 < k => o[d + 1] < o[k]
    BY <1>2, <1>6
  <2>3. QED BY <1>3, <1>4, <1>5, <2>1, <2>2
<1>8. ASSUME NEW j \in 1..n PROVE j <= d + 1 <=> o[j] <= subLeaf + 1
  <2>1. o[j] \in Nat /\ (j < k => o[j] < o[k]) /\ (k < j => o[k] < o[j])
    BY <1>2
  <2>2. QED BY <1>3, <1>4, <1>7, <2>1
<1>9. QED BY <1>1, <1>2, <1>4, <1>6, <1>7, <1>8

LEMMA ReadCacheCounts ==
  ASSUME CpuCounts, ReadCache
  PROVE  CpuCounts'
<1>1. PICK entry : entry = CacheEntry(subLeaf)
  OBVIOUS
<1>2. /\ at = "caches" /\ HasCacheLeaf /\ entry.type # "null" /\ dataCacheLevels_ < MaxCaches
      /\ subLeaf' = subLeaf + 1 /\ at' = at
      /\ machine' = machine /\ type_' = type_ /\ numCores_' = numCores_
  BY <1>1 DEF ReadCache, NextSubLeaf
<1>3. /\ machine \in Machines /\ VendorFound /\ LevelsFound /\ InLoop
      /\ smtWidth = numCores_[SmtLevel] /\ subLeaf \in Nat
  BY <1>2 DEF CpuCounts, LevelsFound
<1>4. /\ KnownVendor /\ entry = machine.caches[subLeaf + 1]
      /\ entry.threads \in machine.smt..Threads
      /\ Counted(entry) <=> subLeaf + 1 \in DataPositions
  BY <1>1, <1>2, <1>3, CacheEntryRead
<1>5. CountsFound
  BY <1>2, <1>4 DEF CpuCounts
<1>6. /\ DataPositions' = DataPositions /\ DataCaches' = DataCaches /\ (KnownVendor' <=> KnownVendor)
      /\ (HasCacheLeaf' <=> HasCacheLeaf) /\ (Exact' <=> Exact) /\ (Bounded' <=> Bounded)
      /\ Threads' = Threads /\ PowerOfTwo(Threads)' = PowerOfTwo(Threads)
      /\ \A e, n : Told(e, n)' <=> Told(e, n)
  BY <1>2, ShownKept DEF PowerOfTwo
<1>7. VendorFound' /\ CountsFound'
  BY <1>2, <1>3, <1>5, <1>6 DEF VendorFound, CountsFound
<1>8. CASE ~Counted(entry)
  <2>1. UNCHANGED <<coresSharingDataCache_, of_, dataCacheLevels_, smtWidth>>
    BY <1>1, <1>8 DEF ReadCache
  <2>2. LevelsFound'
    <3>1. subLeaf' \in Nat
      BY <1>2, <1>3
    <3>2. QED BY <1>3, <1>6, <2>1, <3>1 DEF LevelsFound
  <2>3. InLoop'
    <3>1. ASSUME NEW j \in 1..Cardinality(DataPositions)
          PROVE  j <= dataCacheLevels_ <=> InOrder(DataPositions)[j] <= subLeaf + 1
      <4>1. InOrder(DataPositions)[j] \in DataPositions /\ InOrder(DataPositions)[j] \in Nat
        BY <1>3, DataFacts
      <4>2. InOrder(DataPositions)[j] # subLeaf + 1
        BY <1>4, <1>8, <4>1
      <4>3. QED BY <1>3, <4>1, <4>2 DEF InLoop
    <3>2. QED BY <1>2, <1>3, <1>6, <2>1, <3>1 DEF InLoop
  <2>4. QED BY <1>2, <1>3, <1>6, <1>7, <2>1, <2>2, <2>3 DEF CpuCounts
<1>9. CASE Counted(entry)
  <2>1. PICK d, cores : /\ d = dataCacheLevels_
                        /\ cores = IF "AMD" \in type_ THEN AmdSharing(entry) ELSE IntelSharing(entry)
    OBVIOUS
  <2>2. /\ d \in 0..(MaxCaches - 1) /\ MaxCaches \in Nat
        /\ d + 1 \in 1..Cardinality(DataPositions) /\ entry = DataCaches[d + 1]
        /\ \A j \in 1..Cardinality(DataPositions) :
             j <= d + 1 <=> InOrder(DataPositions)[j] <= subLeaf + 1
    <3>1. MaxCaches \in Nat
      BY CpuAssumption
    <3>2. d \in 0..(MaxCaches - 1)
      BY <1>2, <1>3, <2>1, <3>1 DEF LevelsFound
    <3>3. QED BY <1>3, <1>4, <1>9, <2>1, <3>1, <3>2, NextIsMet
  <2>3. /\ of_' = [of_ EXCEPT ![d] = entry]
        /\ coresSharingDataCache_' = [coresSharingDataCache_ EXCEPT ![d] = cores]
        /\ dataCacheLevels_' = d + 1 /\ smtWidth' = smtWidth
        /\ cores \in Nat
        /\ IF "AMD" \in type_ /\ d = 0 THEN cores = machine.smt ELSE Told(entry, cores)
    <3>1. CASE "AMD" \in type_
      <4>1. machine.vendor = "AMD" /\ "INTEL" \notin type_
        BY <1>2, <1>3, <3>1, VendorIsFound DEF VendorFound
      <4>2. Record(entry, cores) /\ smtWidth' = smtWidth
        BY <1>1, <1>9, <2>1, <3>1, <4>1 DEF ReadCache
      <4>3. PICK x : x = Min({entry.threads, numCores_[CoreLevel]})
        OBVIOUS
      <4>4. /\ x \div machine.smt \in Nat /\ Told(entry, x \div machine.smt)
            /\ entry.threads = machine.smt => x = machine.smt
        BY <1>2, <1>3, <1>4, <1>5, <3>1, <4>1, <4>3, AmdIsTold
      <4>5. machine.smt \in {1, 2}
        BY <1>3, MachineCounts
      <4>6. CASE d = 0
        <5>1. entry.threads = machine.smt
          BY <1>3, <2>2, <4>6, FirstIsOfCore
        <5>2. coresSharingDataCache_[0] \in Nat
          BY <1>3, <2>2, <4>6 DEF LevelsFound
        <5>3. cores = machine.smt
          <6>1. CASE subLeaf = 0
            BY <2>1, <3>1, <5>1, <6>1 DEF AmdSharing
          <6>2. CASE subLeaf # 0
            <7>1. coresSharingDataCache_[0] = 0
              BY <1>3, <2>1, <4>6 DEF InLoop
            <7>2. Max({1, 0}) = 1
              BY PairFacts
            <7>3. cores = x \div 1
              BY <2>1, <3>1, <4>3, <6>2, <7>1, <7>2 DEF AmdSharing
            <7>4. QED BY <4>4, <4>5, <5>1, <7>3
          <6>3. QED BY <6>1, <6>2
        <5>4. QED BY <2>1, <3>1, <4>2, <4>5, <4>6, <5>3 DEF Record
      <4>7. CASE d # 0
        <5>1. coresSharingDataCache_[0] = machine.smt
          BY <1>3, <2>1, <2>2, <3>1, <4>7 DEF InLoop
        <5>2. subLeaf # 0
          <6>1. 1 \in 1..Cardinality(DataPositions) /\ 1 <= d
            BY <1>3, <2>2, <4>7, DataFacts
          <6>2. InOrder(DataPositions)[1] <= subLeaf
            BY <1>3, <2>1, <6>1 DEF InLoop
          <6>3. InOrder(DataPositions)[1] \in 1..Len(machine.caches)
            BY <1>3, <6>1, DataFacts
          <6>4. QED BY <1>3, <6>2, <6>3
        <5>3. Max({1, machine.smt}) = machine.smt
          BY <4>5, PairFacts
        <5>4. cores = x \div machine.smt
          BY <2>1, <3>1, <4>3, <5>1, <5>2, <5>3 DEF AmdSharing
        <5>5. QED BY <2>1, <4>2, <4>4, <4>7, <5>4 DEF Record
      <4>8. QED BY <4>6, <4>7
    <3>2. CASE "AMD" \notin type_
      <4>1. machine.vendor = "INTEL" /\ "INTEL" \in type_
        BY <1>2, <1>3, <1>4, <3>2, VendorIsFound
      <4>2. IntelSharing(entry) \in Nat /\ Told(entry, IntelSharing(entry)) /\ IntelWidth(entry) = smtWidth
        BY <1>3, <1>4, <1>5, <3>2, <4>1, IntelIsTold
      <4>3. Record(entry, cores) /\ smtWidth' = smtWidth
        BY <1>1, <1>9, <2>1, <3>2, <4>2 DEF ReadCache
      <4>4. QED BY <2>1, <3>2, <4>2, <4>3 DEF Record
    <3>3. QED BY <3>1, <3>2
  <2>4. \A i \in 0..(MaxCaches - 1) :
          /\ of_'[i] = IF i = d THEN entry ELSE of_[i]
          /\ coresSharingDataCache_'[i] = IF i = d THEN cores ELSE coresSharingDataCache_[i]
    BY <1>3, <2>3 DEF LevelsFound
  <2>5. LevelsFound'
    <3>1. of_' = [i \in 0..(MaxCaches - 1) |-> of_'[i]]
      BY <1>3, <2>2, <2>3 DEF LevelsFound
    <3>2. coresSharingDataCache_' \in [0..(MaxCaches - 1) -> Nat]
      BY <1>3, <2>2, <2>3 DEF LevelsFound
    <3>3. dataCacheLevels_' \in 0..MaxCaches /\ subLeaf' \in Nat
          /\ dataCacheLevels_' <= Cardinality(DataPositions)
      BY <1>2, <1>3, <2>2, <2>3
    <3>4. ASSUME NEW i \in 0..(dataCacheLevels_' - 1) PROVE of_'[i] = DataCaches[i + 1]
      <4>1. i = d \/ i \in 0..(d - 1)
        BY <2>2, <2>3
      <4>2. i \in 0..(MaxCaches - 1)
        BY <2>2, <2>3
      <4>3. QED BY <1>3, <2>1, <2>2, <2>4, <4>1, <4>2 DEF LevelsFound
    <3>5. QED BY <1>6, <3>1, <3>2, <3>3, <3>4 DEF LevelsFound
  <2>6. InLoop'
    <3>1. ASSUME NEW i \in 0..(dataCacheLevels_' - 1)
          PROVE  IF "AMD" \in type_ /\ i = 0 THEN coresSharingDataCache_'[0] = machine.smt
                 ELSE Told(of_'[i], coresSharingDataCache_'[i])
      <4>1. i = d \/ (i \in 0..(d - 1) /\ i # d)
        BY <2>2, <2>3
      <4>2. i \in 0..(MaxCaches - 1)
        BY <2>2, <2>3
      <4>3. CASE i = d
        BY <2>3, <2>4, <4>2, <4>3
      <4>4. CASE i \in 0..(d - 1) /\ i # d
        <5>1. IF "AMD" \in type_ /\ i = 0 THEN coresSharingDataCache_[0] = machine.smt
              ELSE Told(of_[i], coresSharingDataCache_[i])
          BY <1>3, <2>1, <4>4 DEF InLoop
        <5>2. QED BY <2>4, <4>2, <4>4, <5>1
      <4>5. QED BY <4>1, <4>3, <4>4
    <3>2. \A i : Told(of_[i], coresSharingDataCache_[i])'
                    <=> Told(of_'[i], coresSharingDataCache_'[i])
      BY <1>2, ToldLater
    <3>3. dataCacheLevels_' # 0
      BY <2>2, <2>3
    <3>4. QED BY <1>2, <1>6, <2>2, <2>3, <3>1, <3>2, <3>3 DEF InLoop
  <2>7. QED BY <1>2, <1>3, <1>6, <1>7, <2>3, <2>5, <2>6 DEF CpuCounts
<1>10. QED BY <1>8, <1>9

\* Nothing but the first entry of AMD changes when the loop ends.
LEMMA EndCachesCounts ==
  ASSUME CpuCounts, EndCaches
  PROVE  CpuCounts'
<1>1. /\ at = "caches" /\ HasCacheLeaf /\ at' = "ready"
      /\ machine' = machine /\ type_' = type_ /\ numCores_' = numCores_
      /\ of_' = of_ /\ dataCacheLevels_' = dataCacheLevels_ /\ subLeaf' = subLeaf
      /\ coresSharingDataCache_' =
           IF "AMD" \in type_
           THEN [coresSharingDataCache_ EXCEPT ![0] = Min({1, coresSharingDataCache_[0]})]
           ELSE coresSharingDataCache_
  BY DEF EndCaches
<1>2. machine \in Machines /\ VendorFound /\ LevelsFound /\ InLoop
  BY <1>1 DEF CpuCounts
<1>3. KnownVendor
  BY <1>1 DEF HasCacheLeaf, KnownVendor
<1>4. CountsFound
  BY <1>1, <1>3 DEF CpuCounts
<1>5. /\ DataPositions' = DataPositions /\ DataCaches' = DataCaches /\ (KnownVendor' <=> KnownVendor)
      /\ (HasCacheLeaf' <=> HasCacheLeaf) /\ (Exact' <=> Exact) /\ (Bounded' <=> Bounded)
      /\ Threads' = Threads /\ PowerOfTwo(Threads)' = PowerOfTwo(Threads)
  BY <1>1, ShownKept DEF PowerOfTwo
<1>6. VendorFound' /\ CountsFound'
  BY <1>1, <1>2, <1>4, <1>5 DEF VendorFound, CountsFound
<1>7. MaxCaches \in Nat /\ MaxCaches >= 3 /\ dataCacheLevels_ \in 0..MaxCaches
  BY <1>2, CpuAssumption DEF LevelsFound
<1>8. Min({1, coresSharingDataCache_[0]}) \in Nat
      /\ (coresSharingDataCache_[0] >= 1 => Min({1, coresSharingDataCache_[0]}) = 1)
  <2>1. PICK x : x = coresSharingDataCache_[0] /\ x \in Nat
    BY <1>2, <1>7 DEF LevelsFound
  <2>2. Min({1, x}) = IF 1 <= x THEN 1 ELSE x
    BY <2>1, PairFacts
  <2>3. QED BY <2>1, <2>2
<1>9. LevelsFound'
  <2>1. coresSharingDataCache_' \in [0..(MaxCaches - 1) -> Nat]
    BY <1>1, <1>2, <1>8 DEF LevelsFound
  <2>2. QED BY <1>1, <1>2, <1>5, <2>1 DEF LevelsFound
<1>10. ASSUME NEW i \in 0..(dataCacheLevels_ - 1)
       PROVE  Told(of_[i], coresSharingDataCache_'[i])
  <2>1. IF "AMD" \in type_ /\ i = 0 THEN coresSharingDataCache_[0] = machine.smt
        ELSE Told(of_[i], coresSharingDataCache_[i])
    BY <1>2 DEF InLoop
  <2>2. i \in 0..(MaxCaches - 1)
    BY <1>7
  <2>3. CASE "AMD" \in type_ /\ i = 0
    <3>1. machine.smt \in {1, 2} /\ machine.smt <= Threads /\ Threads \in 1..32
      BY <1>2, MachineCounts
    <3>2. coresSharingDataCache_'[0] = 1
      BY <1>1, <1>2, <1>8, <2>1, <2>2, <2>3, <3>1 DEF LevelsFound
    <3>3. of_[0] = DataCaches[1] /\ Cardinality(DataPositions) >= 1
      <4>1. Cardinality(DataPositions) \in Nat
        BY <1>2, DataFacts
      <4>2. dataCacheLevels_ >= 1 /\ 0 \in 0..(dataCacheLevels_ - 1) /\ 0 + 1 = 1
        BY <1>7, <2>3
      <4>3. of_[0] = DataCaches[0 + 1]
        BY <1>2, <4>2 DEF LevelsFound
      <4>4. dataCacheLevels_ <= Cardinality(DataPositions)
        BY <1>2 DEF LevelsFound
      <4>5. QED BY <1>7, <4>1, <4>2, <4>3, <4>4
    <3>4. of_[0].threads = machine.smt
      BY <1>2, <3>3, FirstIsOfCore
    <3>5. machine.vendor = "AMD" /\ "INTEL" \notin type_
      BY <1>1, <1>2, <2>3, VendorIsFound DEF VendorFound
    <3>6. Told(of_[0], 1)
      <4>1. of_[0].threads \in machine.smt..Threads
        BY <3>1, <3>4
      <4>2. "AMD" \in type_
        BY <2>3
      <4>3. QED BY <1>1, <1>2, <1>4, <3>4, <3>5, <4>1, <4>2, AmdIsTold
    <3>7. QED BY <2>3, <3>2, <3>6
  <2>4. CASE ~("AMD" \in type_ /\ i = 0)
    <3>1. coresSharingDataCache_'[i] = coresSharingDataCache_[i]
      BY <1>1, <1>2, <2>2, <2>4 DEF LevelsFound
    <3>2. QED BY <2>1, <2>4, <3>1
  <2>5. QED BY <2>3, <2>4
<1>11. \A i : Told(of_[i], coresSharingDataCache_[i])' <=> Told(of_'[i], coresSharingDataCache_'[i])
  BY <1>1, ToldLater
<1>12. QED BY <1>1, <1>2, <1>6, <1>9, <1>10, <1>11 DEF CpuCounts

\* The legacy leaves of AMD show private caches and one of all cores.
LEMMA LegacyCachesCounts ==
  ASSUME CpuCounts, LegacyCaches
  PROVE  CpuCounts'
<1>1. /\ at = "caches" /\ ~HasCacheLeaf /\ at' = "ready"
      /\ machine' = machine /\ type_' = type_ /\ numCores_' = numCores_ /\ subLeaf' = subLeaf
  BY DEF LegacyCaches
<1>2. machine \in Machines /\ VendorFound /\ LevelsFound /\ InLoop
  BY <1>1 DEF CpuCounts
<1>3. KnownVendor => CountsFound
  BY <1>1 DEF CpuCounts
<1>4. /\ DataPositions' = DataPositions /\ DataCaches' = DataCaches /\ (KnownVendor' <=> KnownVendor)
      /\ (HasCacheLeaf' <=> HasCacheLeaf) /\ (Exact' <=> Exact) /\ (Bounded' <=> Bounded)
      /\ Threads' = Threads /\ PowerOfTwo(Threads)' = PowerOfTwo(Threads)
  BY <1>1, ShownKept DEF PowerOfTwo
<1>5. VendorFound' /\ (KnownVendor => CountsFound')
  BY <1>1, <1>2, <1>3, <1>4 DEF VendorFound, CountsFound
<1>6. \A i : Told(of_[i], coresSharingDataCache_[i])' <=> Told(of_'[i], coresSharingDataCache_'[i])
  BY <1>1, ToldLater
<1>7. MaxCaches \in Nat /\ MaxCaches >= 3
  BY CpuAssumption
<1>8. CASE "AMD" \in type_ /\ machine.maxExtended >= 6
  <2>1. PICK n : n = Min({Len(DataCaches), 3})
    OBVIOUS
  <2>2. /\ dataCacheLevels_' = n
        /\ of_' = [i \in DOMAIN of_ |-> IF i < n THEN DataCaches[i + 1] ELSE of_[i]]
        /\ coresSharingDataCache_' =
             [i \in DOMAIN of_ |-> CASE i = 2 /\ n = 3 -> numCores_[CoreLevel]
                                     [] i < n /\ i < 2 -> 1
                                     [] OTHER -> 0]
    BY <1>8, <2>1 DEF LegacyCaches
  <2>3. machine.vendor = "AMD" /\ machine.maxExtended < 29 /\ "INTEL" \notin type_ /\ KnownVendor
    <3>1. machine.vendor = "AMD"
      BY <1>1, <1>2, <1>8 DEF VendorFound
    <3>2. machine.maxExtended \in Nat
      BY <1>2, MachineCounts
    <3>3. QED BY <1>1, <1>2, <1>8, <3>1, <3>2, VendorIsFound DEF HasCacheLeaf
  <2>4. PICK c : c = machine.caches
    OBVIOUS
  <2>5. /\ machine.smt = 1 /\ Len(c) <= 3
        /\ \A k \in DOMAIN c : /\ c[k].type # "instruction"
                               /\ c[k].threads = IF k = 3 THEN machine.cores ELSE 1
    BY <1>2, <2>3, <2>4, CpuAssumption
  <2>6. Len(c) \in Nat /\ DOMAIN c = 1..Len(c)
    <3>1. c \in Seq([type : {"data", "instruction", "unified"}, threads : machine.smt..Threads])
      BY <1>2, <2>4, DataFacts
    <3>2. QED BY <3>1
  <2>7. DataPositions = 1..Len(c) /\ Cardinality(DataPositions) = Len(c)
    <3>1. DataPositions = 1..Len(c)
      BY <2>4, <2>5, <2>6 DEF DataPositions
    <3>2. PICK l : l = Len(c) /\ l \in Nat
      BY <2>6
    <3>3. Cardinality(1..l) = l
      <4>1. l \in Int /\ 1 \in Int
        BY <3>2
      <4>2. Cardinality(1..l) = IF 1 > l THEN 0 ELSE l - 1 + 1
        BY <4>1, FS_Interval
      <4>3. QED BY <3>2, <4>2
    <3>4. QED BY <3>1, <3>2, <3>3
  <2>8. Len(DataCaches) = Len(c) /\ n = Len(c) /\ n \in 0..3
    <3>1. Len(DataCaches) = Len(c)
      BY <2>6, <2>7 DEF DataCaches
    <3>2. n = Len(c)
      BY <2>1, <2>5, <2>6, <3>1, PairFacts
    <3>3. QED BY <2>5, <2>6, <3>1, <3>2
  <2>9. \A i \in 1..n : DataCaches[i] = c[i]
    <3>1. PICK o : o = InOrder(DataPositions)
      OBVIOUS
    <3>2. /\ o \in [1..n -> 1..n] /\ \A j, k \in 1..n : j < k => o[j] < o[k]
          /\ \A i \in 1..n : DataCaches[i] = c[o[i]]
      BY <1>2, <2>4, <2>7, <2>8, <3>1, DataFacts
    <3>3. \A i \in 1..n : o[i] = i
      <4>1. CASE n = 0
        BY <4>1
      <4>2. CASE n = 1
        BY <3>2, <4>2
      <4>3. CASE n = 2
        <5>1. o[1] \in 1..2 /\ o[2] \in 1..2 /\ o[1] < o[2]
          BY <3>2, <4>3
        <5>2. QED BY <4>3, <5>1
      <4>4. CASE n = 3
        <5>1. o[1] \in 1..3 /\ o[2] \in 1..3 /\ o[3] \in 1..3 /\ o[1] < o[2] /\ o[2] < o[3]
          BY <3>2, <4>4
        <5>2. QED BY <4>4, <5>1
      <4>5. QED BY <2>8, <4>1, <4>2, <4>3, <4>4
    <3>4. QED BY <3>2, <3>3
  <2>10. /\ numCores_[CoreLevel] \in Nat /\ numCores_[CoreLevel] >= 1
         /\ (Exact => numCores_[CoreLevel] = machine.cores)
         /\ machine.cores \in 1..16 /\ Threads = machine.cores /\ ~Bounded
    <3>1. machine.cores \in 1..16 /\ Threads = machine.cores
      <4>1. machine.cores \in 1..16 /\ Threads = machine.smt * machine.cores
        BY <1>2, MachineCounts
      <4>2. QED BY <2>5, <4>1
    <3>2. /\ numCores_ \in Nat \X Nat /\ 1 <= numCores_[1] /\ numCores_[1] <= numCores_[2]
          /\ Exact => numCores_ = <<machine.smt, Threads>>
      BY <1>3, <2>3 DEF CountsFound, CoreLevel, SmtLevel
    <3>3. ~Bounded
      BY <2>3 DEF Bounded
    <3>4. QED BY <3>1, <3>2, <3>3 DEF CoreLevel
  <2>11. DOMAIN of_ = 0..(MaxCaches - 1)
    BY <1>2 DEF LevelsFound
  <2>12. \A i \in 0..(n - 1) :
           /\ of_'[i] = c[i + 1]
           /\ coresSharingDataCache_'[i] = IF i = 2 THEN numCores_[CoreLevel] ELSE 1
    <3>1. TAKE i \in 0..(n - 1)
    <3>2. i \in DOMAIN of_ /\ i < n /\ i + 1 \in 1..n /\ (i = 2 => n = 3) /\ (i # 2 => i < 2)
      BY <1>7, <2>8, <2>11
    <3>3. QED BY <2>2, <2>9, <3>2
  <2>13. LevelsFound'
    <3>1. coresSharingDataCache_' \in [0..(MaxCaches - 1) -> Nat]
      BY <2>2, <2>10, <2>11
    <3>2. of_' = [i \in 0..(MaxCaches - 1) |-> of_'[i]]
      BY <2>2, <2>11
    <3>3. dataCacheLevels_' \in 0..MaxCaches /\ dataCacheLevels_' <= Cardinality(DataPositions)
      BY <1>7, <2>2, <2>7, <2>8
    <3>4. ASSUME NEW i \in 0..(dataCacheLevels_' - 1) PROVE of_'[i] = DataCaches[i + 1]
      <4>1. i \in 0..(n - 1) /\ i + 1 \in 1..n
        BY <2>2, <2>8
      <4>2. QED BY <2>9, <2>12, <4>1
    <3>5. subLeaf' \in Nat
      BY <1>1, <1>2 DEF LevelsFound
    <3>6. QED BY <1>4, <3>1, <3>2, <3>3, <3>4, <3>5 DEF LevelsFound
  <2>14. ASSUME NEW i \in 0..(n - 1) PROVE Told(of_'[i], coresSharingDataCache_'[i])
    <3>1. PICK t, x : t = of_'[i].threads /\ x = coresSharingDataCache_'[i]
      OBVIOUS
    <3>2. /\ t = (IF i = 2 THEN machine.cores ELSE 1)
          /\ x = (IF i = 2 THEN numCores_[CoreLevel] ELSE 1)
      <4>1. i + 1 \in DOMAIN c /\ (i + 1 = 3 <=> i = 2)
        BY <2>6, <2>8
      <4>2. QED BY <2>5, <2>12, <3>1, <4>1
    <3>3. t \in 1..16 /\ x \in Nat /\ x >= 1 /\ (Exact => x = t) /\ (Exact /\ t = Threads => x = machine.cores)
      BY <2>10, <3>2
    <3>4. Shown(t) = t /\ t \div machine.smt = t
      BY <2>3, <2>5, <3>3 DEF Shown
    <3>5. Max({1, t}) = t
      BY <3>3, PairFacts
    <3>6. Max({1, t \div machine.smt}) = t /\ Max({1, Shown(t) \div machine.smt}) = t
      BY <3>4, <3>5
    <3>7. Exact => Between(x, t, IF Exact /\ t = Threads THEN machine.cores ELSE t)
      BY <3>3 DEF Between
    <3>8. QED BY <2>10, <3>1, <3>3, <3>6, <3>7 DEF Told
  <2>15. QED BY <1>1, <1>2, <1>4, <1>5, <1>6, <2>2, <2>13, <2>14 DEF CpuCounts
<1>9. CASE ~("AMD" \in type_ /\ machine.maxExtended >= 6)
  <2>1. UNCHANGED <<dataCacheLevels_, of_, coresSharingDataCache_>>
    BY <1>9 DEF LegacyCaches
  <2>2. LevelsFound'
    BY <1>1, <1>2, <1>4, <2>1 DEF LevelsFound
  <2>3. dataCacheLevels_' = 0
    BY <1>1, <2>1 DEF CpuCounts
  <2>4. QED BY <1>1, <1>2, <1>4, <1>5, <2>1, <2>2, <2>3 DEF CpuCounts
<1>10. QED BY <1>8, <1>9

LEMMA InitCounts == Init => CpuCounts
<1> SUFFICES ASSUME Init PROVE CpuCounts
  OBVIOUS
<1>1. /\ machine \in Machines /\ at = "vendor" /\ dataCacheLevels_ = 0 /\ subLeaf = 0
      /\ coresSharingDataCache_ = [i \in 0..(MaxCaches - 1) |-> 0]
      /\ of_ = [i \in 0..(MaxCaches - 1) |-> NoCache]
  BY DEF Init, CpuInit
<1>2. MaxCaches \in Nat /\ MaxCaches >= 3
  BY CpuAssumption
<1>3. Cardinality(DataPositions) \in Nat
  BY <1>1, DataFacts
<1>4. LevelsFound
  BY <1>1, <1>2, <1>3 DEF LevelsFound
<1>5. InLoop
  <2>1. ASSUME NEW j \in 1..Cardinality(DataPositions) PROVE ~(InOrder(DataPositions)[j] <= 0)
    <3>1. InOrder(DataPositions)[j] \in 1..Len(machine.caches)
      BY <1>1, DataFacts
    <3>2. QED BY <3>1
  <2>2. QED BY <1>1, <1>2, <1>3, <2>1 DEF InLoop
<1>6. QED BY <1>1, <1>4, <1>5 DEF CpuCounts, VendorFound

LEMMA CountsNext == CpuCounts /\ [Next]_vars => CpuCounts'
<1> SUFFICES ASSUME CpuCounts, [Next]_vars PROVE CpuCounts'
  OBVIOUS
<1>1. CASE CpuNext
  BY <1>1, DetectCounts, SetNumCoresCounts, ReadCacheCounts, EndCachesCounts, LegacyCachesCounts
     DEF CpuNext
<1>2. CASE Topology \/ Client \/ UNCHANGED vars
  <2>1. UNCHANGED cpuVars
    BY <1>2, TopologyKeepsCpu
  <2>2. /\ machine' = machine /\ at' = at /\ type_' = type_ /\ numCores_' = numCores_
        /\ smtWidth' = smtWidth /\ coresSharingDataCache_' = coresSharingDataCache_ /\ of_' = of_
        /\ dataCacheLevels_' = dataCacheLevels_ /\ subLeaf' = subLeaf
    BY <2>1 DEF cpuVars, counts, cacheVars
  <2>3. /\ DataPositions' = DataPositions /\ DataCaches' = DataCaches /\ (KnownVendor' <=> KnownVendor)
        /\ (HasCacheLeaf' <=> HasCacheLeaf) /\ (Exact' <=> Exact) /\ (Bounded' <=> Bounded)
        /\ Threads' = Threads /\ PowerOfTwo(Threads)' = PowerOfTwo(Threads)
    BY <2>2, ShownKept DEF PowerOfTwo
  <2>4. \A i : Told(of_[i], coresSharingDataCache_[i])' <=> Told(of_[i], coresSharingDataCache_[i])
    BY <2>2, ToldLater
  <2>5. /\ VendorFound' <=> VendorFound
        /\ CountsFound' <=> CountsFound
    BY <2>2, <2>3 DEF VendorFound, CountsFound
  <2>6. /\ LevelsFound' <=> LevelsFound
        /\ InLoop' <=> InLoop
    BY <2>2, <2>3, <2>4 DEF LevelsFound, InLoop
  <2>7. QED BY <2>2, <2>3, <2>4, <2>5, <2>6 DEF CpuCounts
<1>3. QED BY <1>1, <1>2 DEF Next, Detect

\* Cpu::setNumCores and setCacheHierarchy: for every machine of a known vendor
\* the data caches come in order and no count that something is divided by is
\* zero. For those whose tables say enough (Exact, Bounded) the counts lie
\* between what the machine has and what its tables show of it.
THEOREM CountsAreThoseOfTheMachine == Spec => []CountsAreTheMachines
<1>1. CpuCounts => CountsAreTheMachines
  <2>1. SUFFICES ASSUME CpuCounts, at = "ready", KnownVendor
                 PROVE  CountsAreTheMachines
    BY DEF CountsAreTheMachines
  <2>2. machine \in Machines /\ CountsFound /\ LevelsFound
        /\ \A i \in 0..(dataCacheLevels_ - 1) : Told(of_[i], coresSharingDataCache_[i])
    BY <2>1 DEF CpuCounts
  <2>3. 1 <= numCores_[SmtLevel] /\ numCores_[SmtLevel] <= numCores_[CoreLevel]
    BY <2>2 DEF CountsFound
  <2>4. \A i \in 0..(dataCacheLevels_ - 1) :
          of_[i] = DataCaches[i + 1] /\ coresSharingDataCache_[i] >= 1
    BY <2>2 DEF LevelsFound, Told
  <2>5. ASSUME Exact \/ Bounded
        PROVE  /\ GetNumCores(SmtLevel) = machine.smt
               /\ Between(GetNumCores(CoreLevel), machine.cores, IF Exact THEN machine.cores ELSE CoreIds)
    <3>1. /\ machine.cores \in 1..16 /\ machine.smt \in {1, 2} /\ Threads \in 1..32
          /\ Threads = machine.smt * machine.cores
      BY <2>2, MachineCounts
    <3>2. CASE Exact
      <4>1. numCores_ = <<machine.smt, Threads>>
        BY <2>2, <3>2 DEF CountsFound
      <4>2. Threads \div machine.smt = machine.cores
        BY <3>1
      <4>3. QED BY <3>1, <3>2, <4>1, <4>2 DEF GetNumCores, SmtLevel, CoreLevel, Between
    <3>3. CASE Bounded /\ ~Exact
      <4>1. numCores_ = <<machine.smt, PowerOfTwo(Threads)>>
        BY <2>2, <3>3 DEF CountsFound
      <4>2. machine.vendor = "INTEL"
        BY <2>1, <3>3 DEF CpuCounts, VendorFound, Bounded
      <4>3. PICK p : p = PowerOfTwo(machine.cores)
        OBVIOUS
      <4>4. p \in {1, 2, 4, 8, 16, 32} /\ machine.cores <= p
        <5>1. machine.cores \in 1..32
          BY <3>1
        <5>2. QED BY <4>3, <5>1, PowerFacts
      <4>5. PowerOfTwo(Threads) = machine.smt * p
        <5>1. CASE machine.smt = 1
          BY <3>1, <4>3, <4>4, <5>1
        <5>2. CASE machine.smt = 2
          BY <3>1, <4>3, <5>2, PowerDoubles
        <5>3. QED BY <3>1, <5>1, <5>2
      <4>6. PowerOfTwo(Threads) \div machine.smt = p
        BY <3>1, <4>4, <4>5
      <4>7. CoreIds = p
        BY <4>2, <4>3 DEF CoreIds, Shown
      <4>8. QED BY <3>3, <4>1, <4>4, <4>6, <4>7 DEF GetNumCores, SmtLevel, CoreLevel, Between
    <3>4. QED BY <2>5, <3>2, <3>3
  <2>6. ASSUME Exact \/ Bounded, NEW i \in 0..(dataCacheLevels_ - 1)
        PROVE  LET cores(n) == Max({1, n \div machine.smt})
                   threads == of_[i].threads
               IN Between(coresSharingDataCache_[i], cores(threads),
                          IF Exact /\ threads = Threads THEN machine.cores ELSE cores(Shown(threads)))
    BY <2>2, <2>6 DEF Told
  <2>7. QED BY <2>3, <2>4, <2>5, <2>6 DEF CountsAreTheMachines
<1>2. QED BY <1>1, InitCounts, CountsNext, PTL DEF Spec
=============================================================================
