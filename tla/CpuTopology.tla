---------------------------- MODULE CpuTopology ----------------------------
(***************************************************************************)
(* class CpuTopology of xbyak_util.h, made after a Cpu (module Cpu): the   *)
(* core and the type of every logical CPU and the CPUs that share each of  *)
(* its caches. Linux reads files of sysfs, one list of indices after the   *)
(* other into a CpuMask (module CpuMask; m is the mask being filled), and  *)
(* asks every CPU for its type when lists of them are missing. Windows     *)
(* reports cores and caches as masks of groups. Elsewhere the constructor  *)
(* fails. Sizes, ways and lines of caches are copied and left out.         *)
(***************************************************************************)
EXTENDS Cpu, CpuMask

CONSTANT GroupSize    \* bits of a KAFFINITY

\* What the system shows of a machine makes sense: a CPU shares a cache with
\* itself, all that share it agree, and no thread runs where none is. Windows
\* names every cache it has, shows one type for the threads of a core, and the
\* processors of a group are the first bits of its mask.
ASSUME CpuTopologyAssumption ==
  /\ GroupSize \in Nat \ {0}
  /\ \A c \in Machines :
       /\ c.os \in {"linux", "windows", "other"} /\ c.throws \in BOOLEAN
       /\ IsFiniteSet(c.online) /\ 0 \in c.online /\ c.online \subseteq Nat
       /\ \A d \in c.online : c.core[d] \in Nat /\ c.kind[d] \in {"P", "E"}
       /\ c.files \in Seq(STRING) /\ c.allowed \subseteq c.online
       /\ \A t \in DOMAIN c.shared : \A d \in c.online :
            /\ d \in c.shared[t][d] /\ c.shared[t][d] \subseteq c.online
            /\ \A e \in c.shared[t][d] : c.shared[t][e] = c.shared[t][d]
       /\ c.os = "windows" =>
            /\ \A k \in DOMAIN c.files : c.files[k] \in DOMAIN c.shared
            /\ \A d, e \in c.online : c.core[d] = c.core[e] => c.kind[d] = c.kind[e]
            /\ \A d \in c.online : \A e \in 0..d :
                 e \div GroupSize = d \div GroupSize => e \in c.online

VARIABLES
  stage,             \* what initCpuTopology does: "idle", "cpu", "cache", "P", "E",
                     \* "pin", "end", "core", "entry"; at last "done" or "failed"
  reading,           \* is a list being read?
  todo,              \* its items that come next, for the mask m of CpuMask
  cpuIdx, cacheIdx,  \* the loops over CPUs or cores, and over caches
  logicalCpus_,
  physicalCoreNum_,
  accepted,          \* hasPCoreSysfs, hasECoreSysfs: the lists of types read
  affinity           \* the CPUs that the thread may run on

list == <<reading, todo, m, ok>>
loops == <<cpuIdx, cacheIdx>>
topoVars == <<stage, reading, todo, m, ok, cpuIdx, cacheIdx, logicalCpus_,
              physicalCoreNum_, accepted, affinity>>
vars == <<cpuVars, topoVars>>

-----------------------------------------------------------------------------
(* What the operating system shows of the machine.                         *)

ByFirst(records) ==
  LET firsts == InOrder({Min(r) : r \in records})
  IN [k \in DOMAIN firsts |-> CHOOSE r \in records : Min(r) = firsts[k]]

\* A list of the kernel: the maximal intervals in increasing order.
Items(S) ==
  LET starts == InOrder({x \in S : x - 1 \notin S})
      end(x) == Min({y \in S : y >= x /\ y + 1 \notin S})
  IN [k \in DOMAIN starts |->
        IF end(starts[k]) = starts[k] THEN <<starts[k]>>
        ELSE <<starts[k], end(starts[k])>>]

\* Linux describes the CPUs that are online, under the kernel's numbers.
Online(c) == c \in machine.online
Kind(c) == machine.kind[c]
Shared(t, c) == IF Online(c) /\ t \in DOMAIN machine.shared THEN machine.shared[t][c] ELSE {}

\* Windows: a processor is a group and a bit, numbered group by group.
Group(c) == c \div GroupSize
GroupAcc(g) == Cardinality({c \in machine.online : Group(c) < g})

\* Bug: the groups before are left out.
IndexInGroup(c) == c % GroupSize

Index(c) == GroupAcc(Group(c)) + (c % GroupSize)

\* Its records, of cores and of caches.
CoreRecords == ByFirst({{c \in machine.online : machine.core[c] = k} :
                         k \in {machine.core[c] : c \in machine.online}})
CacheRecords(t) == ByFirst({machine.shared[t][c] : c \in machine.online})

-----------------------------------------------------------------------------
\* The types that logicalCpus_ has a cache of.
CacheTypes == {"L1i", "L1d", "L2", "L3"}
LogicalCpu == [coreId |-> 0, coreType |-> "Unknown", cache |-> [t \in CacheTypes |-> {}]]

Count == Cardinality(machine.online)
TooMany == Count >= 2^BitN

Hybrid == "HYBRID" \in type_

\* initCpuTopology returns false or throws, and the constructor throws, or
\* leaves an error behind where the library is built without exceptions.
Fail == stage' = "failed"

Begin ==
  /\ at = "ready" /\ stage = "idle"
  /\ IF machine.os = "other" \/ TooMany
     THEN Fail /\ UNCHANGED logicalCpus_
     ELSE /\ stage' = IF machine.os = "linux" THEN "cpu" ELSE "core"
          /\ logicalCpus_' = [i \in 0..(Count - 1) |-> LogicalCpu]
  /\ UNCHANGED <<cpuVars, list, loops, physicalCoreNum_, accepted, affinity>>

(* Linux.                                                                  *)

\* The files of a CPU that is offline are missing; then its core is 0.
ReadCoreId ==
  /\ stage = "cpu" /\ cpuIdx < Count
  /\ logicalCpus_' = [logicalCpus_ EXCEPT
       ![cpuIdx].coreId = IF Online(cpuIdx) THEN machine.core[cpuIdx] ELSE 0,
       ![cpuIdx].coreType = "Standard"]
  /\ stage' = "cache"
  /\ cacheIdx' = 1
  /\ UNCHANGED <<cpuVars, list, cpuIdx, physicalCoreNum_, accepted, affinity>>

\* The type that the files of index cacheIdx name, if the code has one for it.
FileType == machine.files[cacheIdx]

\* Bug: the mask of the cache before is filled further.
OpenSharedStale ==
  /\ stage = "cache" /\ ~reading
  /\ cacheIdx \in DOMAIN machine.files
  /\ IF Online(cpuIdx) /\ FileType \in CacheTypes
     THEN reading' = TRUE /\ todo' = Items(Shared(FileType, cpuIdx)) /\ UNCHANGED cacheIdx
     ELSE cacheIdx' = cacheIdx + 1 /\ UNCHANGED <<reading, todo>>
  /\ UNCHANGED <<cpuVars, stage, m, ok, cpuIdx, logicalCpus_, physicalCoreNum_, accepted, affinity>>

OpenShared ==
  /\ stage = "cache" /\ ~reading
  /\ cacheIdx \in DOMAIN machine.files
  /\ IF Online(cpuIdx) /\ FileType \in CacheTypes
     THEN /\ reading' = TRUE
          /\ todo' = Items(Shared(FileType, cpuIdx))
          /\ Clear
          /\ UNCHANGED cacheIdx
     ELSE /\ cacheIdx' = cacheIdx + 1
          /\ UNCHANGED list
  /\ UNCHANGED <<cpuVars, stage, cpuIdx, logicalCpus_, physicalCoreNum_, accepted, affinity>>

\* setStr adds one item, and gives up at the first that is refused: append
\* throws when the library does, appendRange only returns false.
ReadItem ==
  /\ reading /\ todo # <<>>
  /\ \/ /\ Len(Head(todo)) = 1
        /\ AppendIndex(Head(todo)[1])
        /\ IF ~ok' /\ machine.throws THEN Fail ELSE UNCHANGED stage
     \/ /\ Len(Head(todo)) = 2
        /\ AppendRange(Head(todo)[1], Head(todo)[2])
        /\ UNCHANGED stage
  /\ todo' = IF ok' THEN Tail(todo) ELSE <<>>
  /\ UNCHANGED <<cpuVars, reading, loops, logicalCpus_, physicalCoreNum_, accepted, affinity>>

\* What parseCpuList returns is not looked at.
EndShared ==
  /\ stage = "cache" /\ reading /\ todo = <<>>
  /\ logicalCpus_' = [logicalCpus_ EXCEPT ![cpuIdx].cache[FileType] = Elements(m)]
  /\ reading' = FALSE
  /\ cacheIdx' = cacheIdx + 1
  /\ UNCHANGED <<cpuVars, stage, todo, m, ok, cpuIdx, physicalCoreNum_, accepted, affinity>>

NextCpu ==
  /\ stage = "cache" /\ ~reading /\ cacheIdx \notin DOMAIN machine.files
  /\ cpuIdx' = cpuIdx + 1
  /\ stage' = CASE cpuIdx + 1 < Count -> "cpu"
                [] cpuIdx + 1 = Count /\ Hybrid -> "P"
                [] OTHER -> "end"
  /\ UNCHANGED <<cpuVars, list, cacheIdx, logicalCpus_, physicalCoreNum_, accepted, affinity>>

\* Bug: the CPUs are asked only if both lists are missing.
AfterTypesBoth(lists) ==
  CASE stage = "P" -> "E"
    [] stage = "E" /\ lists = {} /\ machine.getaffinity -> "pin"
    [] OTHER -> "end"

\* After the list of P-cores that of E-cores; with one missing every CPU is
\* asked, if the affinity to return to is known.
AfterTypes(lists) ==
  CASE stage = "P" -> "E"
    [] stage = "E" /\ lists # {"P", "E"} /\ machine.getaffinity -> "pin"
    [] OTHER -> "end"

OpenTypes ==
  /\ stage \in {"P", "E"} /\ ~reading
  /\ IF stage \in machine.lists
     THEN /\ reading' = TRUE
          /\ todo' = Items({c \in machine.online : Kind(c) = stage})
          /\ Clear
          /\ UNCHANGED <<stage, cpuIdx>>
     ELSE /\ stage' = AfterTypes(accepted)
          /\ cpuIdx' = 0
          /\ UNCHANGED list
  /\ UNCHANGED <<cpuVars, cacheIdx, logicalCpus_, physicalCoreNum_, accepted, affinity>>

EndTypes ==
  /\ stage \in {"P", "E"} /\ reading /\ todo = <<>>
  /\ accepted' = IF ok THEN accepted \cup {stage} ELSE accepted
  /\ logicalCpus_' = IF ~ok THEN logicalCpus_
                     ELSE [i \in DOMAIN logicalCpus_ |->
                             IF i \in Elements(m)
                             THEN [logicalCpus_[i] EXCEPT !.coreType = stage]
                             ELSE logicalCpus_[i]]
  /\ stage' = AfterTypes(accepted')
  /\ reading' = FALSE
  /\ cpuIdx' = 0
  /\ UNCHANGED <<cpuVars, todo, m, ok, cacheIdx, physicalCoreNum_, affinity>>

\* The thread moves to the CPU and reads leaf 1Ah there.
Pin ==
  /\ stage = "pin" /\ cpuIdx < Count
  /\ IF cpuIdx \in machine.allowed
     THEN /\ affinity' = {cpuIdx}
          /\ logicalCpus_' = [logicalCpus_ EXCEPT ![cpuIdx].coreType = Kind(cpuIdx)]
     ELSE /\ logicalCpus_' = [logicalCpus_ EXCEPT ![cpuIdx].coreType = "Standard"]
          /\ UNCHANGED affinity
  /\ cpuIdx' = cpuIdx + 1
  /\ UNCHANGED <<cpuVars, stage, list, cacheIdx, physicalCoreNum_, accepted>>

Unpin ==
  /\ stage = "pin" /\ cpuIdx = Count
  /\ affinity' = machine.affinity
  /\ stage' = "end"
  /\ UNCHANGED <<cpuVars, list, loops, logicalCpus_, physicalCoreNum_, accepted>>

End ==
  /\ stage = "end"
  /\ physicalCoreNum_' = 1 + Max({logicalCpus_[i].coreId : i \in DOMAIN logicalCpus_})
  /\ stage' = "done"
  /\ UNCHANGED <<cpuVars, list, loops, logicalCpus_, accepted, affinity>>

(* Windows. Each of the three queries may fail.                            *)

QueryFails ==
  /\ stage \in {"core", "entry"} /\ cpuIdx = 0 /\ cacheIdx = 0 /\ ~reading
  /\ Fail
  /\ UNCHANGED <<cpuVars, list, loops, logicalCpus_, physicalCoreNum_, accepted, affinity>>

\* The EfficiencyClass of a record tells the type.
ReadCore ==
  LET core == CoreRecords[cpuIdx + 1] IN
  /\ stage = "core" /\ cpuIdx < Len(CoreRecords)
  /\ IF \E c \in core : Index(c) >= Count
     THEN Fail /\ UNCHANGED <<logicalCpus_, cpuIdx>>
     ELSE /\ logicalCpus_' = [i \in DOMAIN logicalCpus_ |->
               IF \E c \in core : Index(c) = i
               THEN [LogicalCpu EXCEPT !.coreId = cpuIdx,
                       !.coreType = IF Hybrid THEN Kind(Min(core)) ELSE "Standard"]
               ELSE logicalCpus_[i]]
          /\ cpuIdx' = cpuIdx + 1
          /\ UNCHANGED stage
  /\ UNCHANGED <<cpuVars, list, cacheIdx, physicalCoreNum_, accepted, affinity>>

EndCores ==
  /\ stage = "core" /\ cpuIdx = Len(CoreRecords)
  /\ physicalCoreNum_' = cpuIdx
  /\ stage' = "entry"
  /\ cpuIdx' = 0
  /\ UNCHANGED <<cpuVars, list, cacheIdx, logicalCpus_, accepted, affinity>>

\* cacheIdx counts the types of records, cpuIdx the records of a type.
EntryType == machine.files[cacheIdx + 1]
MoreEntries == stage = "entry" /\ ~reading /\ cacheIdx < Len(machine.files)

OpenEntry ==
  /\ MoreEntries /\ cpuIdx < Len(CacheRecords(EntryType))
  /\ IF EntryType \in CacheTypes
     THEN /\ reading' = TRUE
          /\ todo' = [k \in 1..Cardinality(CacheRecords(EntryType)[cpuIdx + 1]) |->
                        <<Index(InOrder(CacheRecords(EntryType)[cpuIdx + 1])[k])>>]
          /\ Clear
          /\ UNCHANGED cpuIdx
     ELSE /\ cpuIdx' = cpuIdx + 1
          /\ UNCHANGED list
  /\ UNCHANGED <<cpuVars, stage, cacheIdx, logicalCpus_, physicalCoreNum_, accepted, affinity>>

\* convertMask failed, or all CPUs of the mask get it.
EndEntry ==
  /\ stage = "entry" /\ reading /\ todo = <<>>
  /\ reading' = FALSE
  /\ IF ~ok \/ \E i \in Elements(m) : i >= Count
     THEN Fail /\ UNCHANGED <<logicalCpus_, cpuIdx>>
     ELSE /\ logicalCpus_' = [i \in DOMAIN logicalCpus_ |->
               IF i \in Elements(m)
               THEN [logicalCpus_[i] EXCEPT !.cache[EntryType] = Elements(m)]
               ELSE logicalCpus_[i]]
          /\ cpuIdx' = cpuIdx + 1
          /\ UNCHANGED stage
  /\ UNCHANGED <<cpuVars, todo, m, ok, cacheIdx, physicalCoreNum_, accepted, affinity>>

NextType ==
  /\ MoreEntries /\ cpuIdx = Len(CacheRecords(EntryType))
  /\ cacheIdx' = cacheIdx + 1
  /\ cpuIdx' = 0
  /\ UNCHANGED <<cpuVars, stage, list, logicalCpus_, physicalCoreNum_, accepted, affinity>>

EndEntries ==
  /\ stage = "entry" /\ ~reading /\ cacheIdx = Len(machine.files)
  /\ stage' = "done"
  /\ UNCHANGED <<cpuVars, list, loops, logicalCpus_, physicalCoreNum_, accepted, affinity>>

-----------------------------------------------------------------------------
Init ==
  /\ CpuInit
  /\ MaskInit
  /\ stage = "idle" /\ reading = FALSE /\ todo = <<>>
  /\ cpuIdx = 0 /\ cacheIdx = 0
  /\ logicalCpus_ = <<>>
  /\ physicalCoreNum_ = 0
  /\ accepted = {}
  /\ affinity = machine.affinity

Detect == CpuNext /\ UNCHANGED topoVars

Topology ==
  \/ Begin
  \/ ReadCoreId \/ OpenShared \/ ReadItem \/ EndShared \/ NextCpu
  \/ OpenTypes \/ EndTypes \/ Pin \/ Unpin \/ End
  \/ QueryFails \/ ReadCore \/ EndCores \/ OpenEntry \/ EndEntry \/ NextType \/ EndEntries

\* A program may also fill a mask of its own.
Client ==
  /\ stage = "failed" /\ machine.client
  /\ MaskNext
  /\ UNCHANGED <<cpuVars, stage, reading, todo, loops, logicalCpus_, physicalCoreNum_, accepted, affinity>>

Next == Detect \/ Topology \/ Client

\* The thread that runs the constructors waits for nobody.
Construct == Detect \/ Topology
Spec == Init /\ [][Next]_vars /\ WF_vars(Construct)

-----------------------------------------------------------------------------
(* Properties.                                                             *)

\* A list that a CpuMask can hold as setStr fills it: no index too large, and
\* single indices, or intervals of which the first is no single index.
Fits(S) ==
  /\ S \subseteq 0..Mask
  /\ \/ Fragments(S) = Cardinality(S) /\ Cardinality(S) <= N
     \/ Min(S) + 1 \in S /\ Fragments(S) <= N \div 2

\* Where a CPU is in logicalCpus_, and whom it really shares a cache with.
At(c) == IF machine.os = "windows" THEN Index(c) ELSE c
Described(c) == Online(c) /\ At(c) \in DOMAIN logicalCpus_
Sharers(t, c) == {At(d) : d \in Shared(t, c)}

\* At the end sharedCpuIndices never names a CPU that does not share the
\* cache, and all that do, unless the mask refuses a part of the list: it has
\* too many parts, or an interval after single indices, whatever room there is.
SharedCachesAreTrue ==
  stage = "done" =>
    \A c \in machine.online, k \in DOMAIN machine.files :
      LET t == machine.files[k] IN
      Described(c) /\ t \in CacheTypes =>
        LET recorded == logicalCpus_[At(c)].cache[t] IN
        /\ recorded \subseteq Sharers(t, c)
        /\ machine.os = "windows" \/ Fits(Shared(t, c)) => recorded = Sharers(t, c)

\* Two CPUs have the same coreId if and only if they are threads of one core,
\* and no core is missing in physicalCoreNum_. Linux counts the numbers up to
\* the largest, those without a core included.
CoresAreTrue ==
  stage = "done" =>
    LET cpus  == {c \in machine.online : Described(c)}
        cores == {machine.core[c] : c \in cpus}
        dense == machine.os = "windows" \/ cores = 0..(Cardinality(cores) - 1)
    IN
    /\ \A c, d \in cpus : (logicalCpus_[At(c)].coreId = logicalCpus_[At(d)].coreId)
                            <=> machine.core[c] = machine.core[d]
    /\ physicalCoreNum_ >= Cardinality(cores)
    /\ dense => physicalCoreNum_ = Cardinality(cores)

\* The thread that was moved to ask the CPUs may run again where it could before.
AffinityRestored == stage # "pin" => affinity = machine.affinity

\* A CPU of a hybrid machine never gets the other type, whichever lists are
\* missing or too long, and its own if both lists were read or the thread may
\* run there.
CoreTypesAreTrue ==
  /\ stage = "done" =>
       \A c \in machine.online : Described(c) =>
         LET type == logicalCpus_[At(c)].coreType
             readable(k) == LET S == {d \in machine.online : Kind(d) = k}
                            IN k \in machine.lists /\ (S = {} \/ Fits(S))
             known == \/ machine.os = "windows"
                      \/ readable("P") /\ readable("E")
                      \/ machine.getaffinity /\ c \in machine.allowed
         IN /\ type \in {"Standard", Kind(c)}
            /\ ~Hybrid => type = "Standard"
            /\ Hybrid /\ known => type = Kind(c)
  /\ AffinityRestored

\* The comment above sharedCpuIndices (xbyak_util.h:1226): the "Set of logical
\* CPU indices sharing this cache".
SharedCachesAreComplete ==
  stage = "done" =>
    \A c \in machine.online, k \in DOMAIN machine.files :
      Described(c) /\ machine.files[k] \in CacheTypes
        => logicalCpus_[At(c)].cache[machine.files[k]] = Sharers(machine.files[k], c)

\* Both constructors end, for every machine: the loop over the caches too,
\* which passes over entries without counting them.
Terminates == <>(stage \in {"done", "failed"})
=============================================================================
