-------------------------- MODULE CodeMemoryProofs --------------------------
(***************************************************************************)
(* Proofs about CodeMemory for any number of generators, allocators and    *)
(* blocks and for every set of system calls that may fail.                 *)
(***************************************************************************)
EXTENDS CodeMemory, TLAPS

Types == {"NONE", "USER_BUF", "ALLOC_BUF", "AUTO_GROW"}
Generators == [type : Types, alloc : Allocators \cup {"none"},
               top : Addresses \cup {"null"}, maxSize : 0..MaxSize,
               size : 0..MaxSize, curMode : Modes]

\* No block is in two lists, and none in a list of an allocator that does not
\* return it.
Lists ==
  /\ \A a \in Allocators : allocList[a] \in Seq(BlocksOf[a])
  /\ \A a, b \in Allocators : a # b => ToSet(allocList[a]) \cap ToSet(allocList[b]) = {}

\* A generator on a buffer has the client's; the others have an allocator,
\* and curMode_ says RE exactly when the client may only run the code.
Kinds ==
  \A g \in Gens :
    /\ gen[g].type = "USER_BUF" => gen[g].top = UserBuf[g]
    /\ IsAllocType(g) => /\ Allocator(g) \in Allocators
                         /\ view[g] \in Modes
                         /\ gen[g].curMode = "RE" <=> view[g] = "RE"

\* Pages of no bytes never change: a block of the heap stays writable.
Unchangeable ==
  \A g \in Gens : /\ IsAllocType(g) /\ Allocator(g) \notin MmapAllocators
                  /\ gen[g].maxSize = 0
                  => Writable(gen[g].top)

IInv == /\ TypeOK /\ Lists /\ Kinds /\ Unchangeable
        /\ AsPromised /\ BlocksAreOwned /\ NoLeak /\ HeapStaysWritable

-----------------------------------------------------------------------------
(* Lists of blocks.                                                        *)

\* A block that is in no list joins one.
LEMMA AppendBlock ==
  ASSUME NEW S, NEW list \in Seq(S), IsInjective(list), NEW b \in S, b \notin ToSet(list)
  PROVE  /\ Append(list, b) \in Seq(S) /\ IsInjective(Append(list, b))
         /\ ToSet(Append(list, b)) = ToSet(list) \cup {b}
<1>1. /\ Append(list, b) \in Seq(S) /\ Len(list) \in Nat /\ DOMAIN list = 1..Len(list)
      /\ DOMAIN Append(list, b) = 1..(Len(list) + 1)
      /\ Append(list, b)[Len(list) + 1] = b
      /\ \A i \in 1..Len(list) : Append(list, b)[i] = list[i]
  OBVIOUS
<1>2. IsInjective(Append(list, b))
  BY <1>1 DEF IsInjective, ToSet
<1>3. ToSet(Append(list, b)) = ToSet(list) \cup {b}
  BY <1>1 DEF ToSet
<1>4. QED BY <1>1, <1>2, <1>3

\* The entry that is erased is the one of the block, and only that one goes.
LEMMA EraseBlock ==
  ASSUME NEW S, NEW list \in Seq(S), IsInjective(list), NEW b \in ToSet(list)
  PROVE  /\ Erase(list, b) \in Seq(S) /\ IsInjective(Erase(list, b))
         /\ ToSet(Erase(list, b)) = ToSet(list) \ {b}
<1> DEFINE n == Len(list)
<1>1. /\ n \in Nat /\ DOMAIN list = 1..n /\ \A i \in 1..n : list[i] \in S
      /\ \A i, j \in 1..n : list[i] = list[j] => i = j
  BY DEF IsInjective
<1>2. PICK k \in 1..n : list[k] = b
  BY <1>1 DEF ToSet
<1>3. \A j \in 1..n : j # n => j \in 1..(n - 1)
  <2>1. n \in Nat
    BY <1>1
  <2> HIDE DEF n
  <2>2. QED BY <2>1
<1>4. {i \in 1..n : list[i] = b} = {k}
  BY <1>1, <1>2
<1>5. SelectInSeq(list, LAMBDA x : x = b) = k
  <2>1. Min({k}) = k
    BY <1>2 DEF Min
  <2>2. QED BY <1>4, <2>1 DEF SelectInSeq
<1> DEFINE moved == [list EXCEPT ![k] = list[n]]
<1>6. moved \in Seq(S) /\ Len(moved) = n
  BY <1>1, <1>2
<1>7. Erase(list, b) = SubSeq(moved, 1, n - 1)
  BY <1>5, <1>6 DEF Erase, Front, Last
<1> DEFINE e == SubSeq(moved, 1, n - 1)
<1>8. /\ e \in Seq(S) /\ Len(e) = n - 1 /\ DOMAIN e = 1..(n - 1)
      /\ \A i \in 1..(n - 1) : e[i] = IF i = k THEN list[n] ELSE list[i]
  BY <1>1, <1>2, <1>6
<1>9. IsInjective(e)
  BY <1>1, <1>2, <1>8 DEF IsInjective
<1>10. ToSet(e) = ToSet(list) \ {b}
  <2>1. ASSUME NEW x \in ToSet(e) PROVE x \in ToSet(list) \ {b}
    BY <1>1, <1>2, <1>8 DEF ToSet
  <2>2. ASSUME NEW x \in ToSet(list) \ {b} PROVE x \in ToSet(e)
    <3>1. PICK i \in 1..n : list[i] = x /\ i # k
      BY <1>1, <1>2 DEF ToSet
    <3>2. \E j \in 1..(n - 1) : e[j] = x
      <4>1. CASE i = n
        <5>1. k \in 1..(n - 1)
          BY <1>3, <3>1, <4>1
        <5>2. e[k] = x
          BY <1>8, <3>1, <4>1, <5>1
        <5>3. QED BY <5>1, <5>2
      <4>2. CASE i # n
        <5>1. i \in 1..(n - 1)
          BY <1>3, <3>1, <4>2
        <5>2. e[i] = x
          BY <1>8, <3>1, <5>1
        <5>3. QED BY <5>1, <5>2
      <4>3. QED BY <4>1, <4>2
    <3>3. QED BY <1>8, <3>2 DEF ToSet
  <2>3. QED BY <2>1, <2>2
<1>11. QED BY <1>7, <1>8, <1>9, <1>10

\* Growth: a block joins the list, then another one goes.
LEMMA ReplaceBlock ==
  ASSUME NEW S, NEW list \in Seq(S), IsInjective(list), NEW b \in S, b \notin ToSet(list),
         NEW old \in ToSet(list)
  PROVE  LET new == Erase(Append(list, b), old) IN
         new \in Seq(S) /\ IsInjective(new) /\ ToSet(new) = (ToSet(list) \cup {b}) \ {old}
<1> DEFINE handed == Append(list, b)
<1>1. handed \in Seq(S) /\ IsInjective(handed) /\ ToSet(handed) = ToSet(list) \cup {b}
  BY AppendBlock
<1> HIDE DEF handed
<1>2. /\ Erase(handed, old) \in Seq(S) /\ IsInjective(Erase(handed, old))
      /\ ToSet(Erase(handed, old)) = (ToSet(list) \cup {b}) \ {old}
  BY <1>1, EraseBlock
<1>3. QED BY <1>2 DEF handed

-----------------------------------------------------------------------------
(* A generator and its block.                                              *)

\* Facts about a state that satisfies the invariant.
LEMMA Facts ==
  ASSUME IInv
  PROVE  /\ gen \in [Gens -> Generators]
         /\ prot \in [Addresses -> Modes \cup {"none"}]
         /\ DOMAIN allocList = Allocators
         /\ view \in [Gens -> Modes \cup {"none"}]
         /\ \A g \in Gens : gen[g].size <= gen[g].maxSize
         /\ \A g \in Gens : Live(g) => gen[g].top \in Addresses
         /\ \A g \in Gens : IsAllocType(g) =>
              /\ Live(g) /\ Allocator(g) \in Allocators
              /\ gen[g].top \in ToSet(allocList[Allocator(g)])
              /\ gen[g].top \in BlocksOf[Allocator(g)]
         /\ \A a \in Allocators : ToSet(allocList[a]) \subseteq BlocksOf[a]
<1>1. /\ gen \in [Gens -> Generators]
      /\ prot \in [Addresses -> Modes \cup {"none"}]
      /\ DOMAIN allocList = Allocators
      /\ view \in [Gens -> Modes \cup {"none"}]
      /\ \A g \in Gens : gen[g].size <= gen[g].maxSize
  BY DEF IInv, TypeOK, Generators, Types
<1>2. \A a \in Allocators : ToSet(allocList[a]) \subseteq BlocksOf[a]
  BY DEF IInv, Lists, ToSet
<1>3. \A g \in Gens : IsAllocType(g) =>
              /\ Live(g) /\ Allocator(g) \in Allocators
              /\ gen[g].top \in ToSet(allocList[Allocator(g)])
              /\ gen[g].top \in BlocksOf[Allocator(g)]
  BY <1>2 DEF IInv, Kinds, BlocksAreOwned, IsAllocType, Live
<1>4. ASSUME NEW g \in Gens, Live(g) PROVE gen[g].top \in Addresses
  <2>1. gen[g].type \in Types \ {"NONE"}
    BY <1>1, <1>4 DEF Live, Generators
  <2>2. CASE gen[g].type = "USER_BUF"
    BY <2>2 DEF IInv, Kinds, Addresses, UserBlocks
  <2>3. CASE IsAllocType(g)
    BY <1>3, <2>3 DEF Addresses, Blocks
  <2>4. QED BY <2>1, <2>2, <2>3 DEF Types, IsAllocType
<1>5. QED BY <1>1, <1>2, <1>3, <1>4

\* A block of the heap is none of mmap's.
LEMMA HeapBlock ==
  ASSUME NEW a \in Allocators, NEW b \in BlocksOf[a]
  PROVE  b \in MmapBlocks <=> a \in MmapAllocators
BY CodeMemoryAssumption DEF MmapBlocks

\* What an operation may do that leaves a generator its block: change the pages
\* of that block and the other fields.
Keeps(g) ==
  /\ gen[g].type # "NONE"
  /\ \E r \in Generators, v \in Modes \cup {"none"} :
       /\ gen' = [gen EXCEPT ![g] = r]
       /\ view' = [view EXCEPT ![g] = v]
       /\ r.type = gen[g].type /\ r.alloc = gen[g].alloc /\ r.top = gen[g].top
       /\ r.maxSize = gen[g].maxSize /\ r.size <= r.maxSize
       /\ IsAllocType(g) => v \in Modes /\ (r.curMode = "RE" <=> v = "RE")
       /\ r.maxSize > 0 =>
            /\ MayWrite(v) => prot'[r.top] \in {"RW", "RWE"}
            /\ MayRun(v) => prot'[r.top] \in {"RWE", "RE"}
  /\ \/ prot' = prot
     \/ \E mode \in Modes : Protected(g, mode)
  /\ allocList' = allocList

LEMMA KeepsInv ==
  ASSUME IInv, NEW g \in Gens, Keeps(g)
  PROVE  IInv'
<1> DEFINE top == gen[g].top
<1>1. PICK r \in Generators, v \in Modes \cup {"none"} :
       /\ gen' = [gen EXCEPT ![g] = r]
       /\ view' = [view EXCEPT ![g] = v]
       /\ r.type = gen[g].type /\ r.alloc = gen[g].alloc /\ r.top = gen[g].top
       /\ r.maxSize = gen[g].maxSize /\ r.size <= r.maxSize
       /\ IsAllocType(g) => v \in Modes /\ (r.curMode = "RE" <=> v = "RE")
       /\ r.maxSize > 0 =>
            /\ MayWrite(v) => prot'[r.top] \in {"RW", "RWE"}
            /\ MayRun(v) => prot'[r.top] \in {"RWE", "RE"}
  BY DEF Keeps
<1>2. Live(g) /\ top \in Addresses
  BY Facts DEF Keeps, Live
<1>3. /\ gen' \in [Gens -> Generators] /\ view' \in [Gens -> Modes \cup {"none"}]
      /\ gen'[g] = r /\ view'[g] = v
      /\ \A h \in Gens \ {g} : gen'[h] = gen[h] /\ view'[h] = view[h]
  BY <1>1, Facts
<1>4. /\ allocList' = allocList
      /\ \A h \in Gens : /\ gen'[h].type = gen[h].type /\ gen'[h].alloc = gen[h].alloc
                         /\ gen'[h].top = gen[h].top /\ gen'[h].maxSize = gen[h].maxSize
                         /\ gen'[h].size <= gen'[h].maxSize
  BY <1>1, <1>3, Facts DEF Keeps
<1>5. /\ prot' \in [Addresses -> Modes \cup {"none"}]
      /\ \A b \in Addresses : b # top => prot'[b] = prot[b]
      /\ gen[g].maxSize = 0 => prot' = prot
  <2>1. CASE prot' = prot
    BY <2>1, Facts
  <2>2. CASE \E mode \in Modes : Protected(g, mode)
    BY <2>2, <1>2, Facts DEF Protected, AfterProtect
  <2>3. QED BY <2>1, <2>2 DEF Keeps
<1>6. TypeOK'
  BY <1>3, <1>4, <1>5 DEF TypeOK, IInv, Generators, Types
<1>7. Lists' /\ BlocksAreOwned' /\ NoLeak'
  <2>1. Lists'
    BY <1>4 DEF IInv, Lists
  <2>2. BlocksAreOwned'
    <3>1. \A h \in Gens : IsAllocType(h)' => gen'[h].top \in ToSet(allocList'[Allocator(h)'])
      BY <1>4 DEF IInv, BlocksAreOwned, IsAllocType, Allocator
    <3>2. \A h, i \in Gens : Live(h)' /\ Live(i)' /\ h # i => gen'[h].top # gen'[i].top
      BY <1>4 DEF IInv, BlocksAreOwned, Live
    <3>3. \A a \in Allocators : IsInjective(allocList'[a])
      BY <1>4 DEF IInv, BlocksAreOwned
    <3>4. QED BY <3>1, <3>2, <3>3 DEF BlocksAreOwned
  <2>3. NoLeak'
    BY <1>4 DEF IInv, NoLeak, IsAllocType, Allocator
  <2>4. QED BY <2>1, <2>2, <2>3
<1>8. Kinds'
  BY <1>1, <1>3, <1>4 DEF IInv, Kinds, IsAllocType, Allocator
<1>9. ASSUME NEW h \in Gens \ {g}, Live(h) PROVE gen[h].top # top /\ gen[h].top \in Addresses
  BY <1>2, <1>9, Facts DEF IInv, BlocksAreOwned
<1>10. AsPromised'
  <2>1. ASSUME NEW h \in Gens, Live(h)', gen'[h].maxSize > 0
        PROVE  /\ MayWrite(view'[h]) => prot'[gen'[h].top] \in {"RW", "RWE"}
               /\ MayRun(view'[h]) => prot'[gen'[h].top] \in {"RWE", "RE"}
    <3>1. CASE h = g
      BY <1>1, <1>3, <2>1, <3>1
    <3>2. CASE h # g
      <4>1. Live(h) /\ gen[h].maxSize > 0
        BY <1>4, <2>1 DEF Live
      <4>2. QED BY <1>3, <1>5, <1>9, <3>2, <4>1 DEF IInv, AsPromised, Writable, Executable
    <3>3. QED BY <3>1, <3>2
  <2>2. QED BY <2>1 DEF AsPromised, Writable, Executable
<1>11. HeapStaysWritable'
  <2>1. ASSUME NEW a \in Allocators \ MmapAllocators, NEW b \in Free(a)
        PROVE  b \in Addresses /\ b # top
    <3>1. b \in Blocks /\ b \notin Allocated
      BY DEF Free, Blocks
    <3>2. CASE IsAllocType(g)
      BY <3>1, <3>2, Facts DEF Allocated, Addresses
    <3>3. CASE gen[g].type = "USER_BUF"
      BY <3>1, <3>3, CodeMemoryAssumption DEF IInv, Kinds, UserBlocks, Addresses
    <3>4. QED BY <1>2, <3>2, <3>3, Facts DEF Live, Generators, Types, IsAllocType
  <2>2. \A a \in Allocators : Free(a)' = Free(a)
    BY <1>4 DEF Free, Allocated
  <2>3. QED BY <1>5, <2>1, <2>2 DEF IInv, HeapStaysWritable, Writable
<1>12. Unchangeable'
  <2>1. ASSUME NEW h \in Gens, IsAllocType(h)', Allocator(h)' \notin MmapAllocators,
               gen'[h].maxSize = 0
        PROVE  Writable(gen[h].top)' /\ gen'[h].top = gen[h].top
    <3>1. /\ IsAllocType(h) /\ Allocator(h) \notin MmapAllocators /\ gen[h].maxSize = 0
          /\ Live(h)
      BY <1>4, <2>1 DEF IsAllocType, Allocator, Live
    <3>2. Writable(gen[h].top)
      BY <3>1 DEF IInv, Unchangeable
    <3>3. prot'[gen[h].top] = prot[gen[h].top]
      <4>1. CASE h = g
        BY <1>5, <3>1, <4>1
      <4>2. CASE h # g
        BY <1>5, <1>9, <3>1, <4>2
      <4>3. QED BY <4>1, <4>2
    <3>4. QED BY <1>4, <3>2, <3>3 DEF Writable
  <2>2. QED BY <1>4, <2>1 DEF Unchangeable, Writable
<1>13. QED BY <1>6, <1>7, <1>8, <1>10, <1>11, <1>12 DEF IInv

-----------------------------------------------------------------------------
(* Blocks that change hands.                                               *)

\* Allocator a has handed out the blocks of add and taken those of remove back.
Change(a, add, remove) ==
  /\ Lists'
  /\ allocList' \in [Allocators -> Seq(Blocks)]
  /\ \A c \in Allocators : IsInjective(allocList'[c])
  /\ \A c \in Allocators :
       ToSet(allocList'[c]) = IF c = a THEN (ToSet(allocList[c]) \cup add) \ remove
                                       ELSE ToSet(allocList[c])

LEMMA ListsChange ==
  ASSUME IInv, NEW a \in Allocators, NEW add \in SUBSET Free(a), NEW remove,
         NEW list \in Seq(BlocksOf[a]), IsInjective(list),
         ToSet(list) = (ToSet(allocList[a]) \cup add) \ remove,
         allocList' = [allocList EXCEPT ![a] = list]
  PROVE  Change(a, add, remove)
<1>1. /\ allocList'[a] = list
      /\ \A c \in Allocators \ {a} : allocList'[c] = allocList[c]
      /\ DOMAIN allocList' = Allocators
      /\ allocList' = [c \in Allocators |-> allocList'[c]]
  BY Facts
<1>2. \A c \in Allocators : allocList'[c] \in Seq(BlocksOf[c])
  BY <1>1 DEF IInv, Lists
<1>3. \A c \in Allocators : ToSet(list) \cap ToSet(allocList[c]) = {} \/ c = a
  BY DEF IInv, Lists, Free, Allocated
<1>4. \A b, c \in Allocators : b # c => ToSet(allocList'[b]) \cap ToSet(allocList'[c]) = {}
  BY <1>1, <1>3 DEF IInv, Lists
<1>5. allocList' \in [Allocators -> Seq(Blocks)]
  <2>1. ASSUME NEW c \in Allocators PROVE allocList'[c] \in Seq(Blocks)
    <3>1. BlocksOf[c] \subseteq Blocks
      BY DEF Blocks
    <3>2. QED BY <1>2, <3>1
  <2>2. QED BY <1>1, <2>1
<1>6. \A c \in Allocators : IsInjective(allocList'[c])
  BY <1>1 DEF IInv, BlocksAreOwned
<1>7. Lists'
  BY <1>2, <1>4 DEF Lists
<1>8. QED BY <1>1, <1>5, <1>6, <1>7 DEF Change

LEMMA ListsUnchanged ==
  ASSUME IInv, NEW a, allocList' = allocList
  PROVE  Change(a, {}, {})
BY DEF Change, IInv, Lists, BlocksAreOwned, TypeOK

\* A block that is handed out is nobody's, and writable once it is mapped.
LEMMA NewBlock ==
  ASSUME IInv, NEW a \in Allocators, NEW b \in Free(a)
  PROVE  /\ b \in BlocksOf[a] /\ b \in Addresses /\ b \notin UserBlocks
         /\ \A c \in Allocators : b \notin ToSet(allocList[c])
         /\ \A g \in Gens : Live(g) => gen[g].top # b
         /\ AfterAlloc(prot, b) \in [Addresses -> Modes \cup {"none"}]
         /\ AfterAlloc(prot, b)[b] \in {"RW", "RWE"}
         /\ \A x \in Addresses \ {b} : AfterAlloc(prot, b)[x] = prot[x]
         /\ a \notin MmapAllocators => AfterAlloc(prot, b) = prot
<1>1. b \in BlocksOf[a] /\ b \in Blocks /\ b \in Addresses /\ b \notin UserBlocks
  BY CodeMemoryAssumption DEF Free, Blocks, Addresses
<1>2. \A c \in Allocators : b \notin ToSet(allocList[c])
  BY DEF Free, Allocated
<1>3. ASSUME NEW g \in Gens, Live(g) PROVE gen[g].top # b
  <2>1. CASE gen[g].type = "USER_BUF"
    BY <1>1, <2>1 DEF IInv, Kinds, UserBlocks
  <2>2. CASE IsAllocType(g)
    BY <1>2, <2>2, Facts
  <2>3. QED BY <1>3, <2>1, <2>2, Facts DEF Live, Generators, Types, IsAllocType
<1>4. /\ AfterAlloc(prot, b) \in [Addresses -> Modes \cup {"none"}]
      /\ \A x \in Addresses \ {b} : AfterAlloc(prot, b)[x] = prot[x]
  BY <1>1, Facts DEF AfterAlloc, Modes
<1>5. CASE a \in MmapAllocators
  <2>1. b \in MmapBlocks
    BY <1>1, <1>5, HeapBlock
  <2>2. AfterAlloc(prot, b)[b] = "RW"
    BY <1>1, <2>1, Facts DEF AfterAlloc
  <2>3. QED BY <1>1, <1>2, <1>3, <1>4, <1>5, <2>2
<1>6. CASE a \notin MmapAllocators
  <2>1. AfterAlloc(prot, b) = prot
    BY <1>1, <1>6, HeapBlock DEF AfterAlloc
  <2>2. prot[b] \in {"RW", "RWE"}
    BY <1>6 DEF IInv, HeapStaysWritable, Writable
  <2>3. QED BY <1>1, <1>2, <1>3, <1>4, <2>1, <2>2
<1>7. QED BY <1>5, <1>6

\* What an operation does that gives a generator other fields r and another
\* block, or none: the block of before goes back, the pages of all others stay.
Moves(g, a, add, remove) ==
  /\ Change(a, add, remove)
  /\ add \subseteq Free(a) \/ add = {}
  /\ remove = IF IsAllocType(g) THEN {gen[g].top} ELSE {}
  /\ IsAllocType(g) => a = Allocator(g)
  /\ prot' \in [Addresses -> Modes \cup {"none"}]
  /\ \A x \in Addresses \ (add \cup remove) : prot'[x] = prot[x]
  /\ a \notin MmapAllocators => \A x \in remove : prot'[x] \in {"RW", "RWE"}
  /\ \E r \in Generators, v \in Modes \cup {"none"} :
       /\ gen' = [gen EXCEPT ![g] = r]
       /\ view' = [view EXCEPT ![g] = v]
       /\ r.size <= r.maxSize
       /\ r.type = "USER_BUF" => r.top = UserBuf[g]
       /\ IF r.type \in {"ALLOC_BUF", "AUTO_GROW"}
          THEN /\ a \in Allocators /\ r.alloc = a /\ add = {r.top} /\ r.top \notin remove
               /\ v \in Modes /\ (r.curMode = "RE" <=> v = "RE")
               /\ a \notin MmapAllocators /\ r.maxSize = 0 => prot'[r.top] \in {"RW", "RWE"}
          ELSE add = {}
       /\ r.type # "NONE" /\ r.maxSize > 0 =>
            /\ MayWrite(v) => prot'[r.top] \in {"RW", "RWE"}
            /\ MayRun(v) => prot'[r.top] \in {"RWE", "RE"}

LEMMA MovesInv ==
  ASSUME IInv, NEW g \in Gens, NEW a, NEW add, NEW remove, Moves(g, a, add, remove)
  PROVE  IInv'
<1>1. PICK r \in Generators, v \in Modes \cup {"none"} :
       /\ gen' = [gen EXCEPT ![g] = r]
       /\ view' = [view EXCEPT ![g] = v]
       /\ r.size <= r.maxSize
       /\ r.type = "USER_BUF" => r.top = UserBuf[g]
       /\ IF r.type \in {"ALLOC_BUF", "AUTO_GROW"}
          THEN /\ a \in Allocators /\ r.alloc = a /\ add = {r.top} /\ r.top \notin remove
               /\ v \in Modes /\ (r.curMode = "RE" <=> v = "RE")
               /\ a \notin MmapAllocators /\ r.maxSize = 0 => prot'[r.top] \in {"RW", "RWE"}
          ELSE add = {}
       /\ r.type # "NONE" /\ r.maxSize > 0 =>
            /\ MayWrite(v) => prot'[r.top] \in {"RW", "RWE"}
            /\ MayRun(v) => prot'[r.top] \in {"RWE", "RE"}
  BY DEF Moves
<1>2. /\ gen' \in [Gens -> Generators] /\ view' \in [Gens -> Modes \cup {"none"}]
      /\ gen'[g] = r /\ view'[g] = v
      /\ \A h \in Gens \ {g} : gen'[h] = gen[h] /\ view'[h] = view[h]
  BY <1>1, Facts
<1>3. /\ remove = IF IsAllocType(g) THEN {gen[g].top} ELSE {}
      /\ IsAllocType(g) => a = Allocator(g)
      /\ prot' \in [Addresses -> Modes \cup {"none"}]
      /\ \A x \in Addresses \ (add \cup remove) : prot'[x] = prot[x]
      /\ a \notin MmapAllocators => \A x \in remove : prot'[x] \in {"RW", "RWE"}
  BY DEF Moves
<1>4. /\ Lists' /\ allocList' \in [Allocators -> Seq(Blocks)]
      /\ \A c \in Allocators : IsInjective(allocList'[c])
      /\ \A c \in Allocators :
           ToSet(allocList'[c]) = IF c = a THEN (ToSet(allocList[c]) \cup add) \ remove
                                           ELSE ToSet(allocList[c])
  BY DEF Moves, Change
<1>5. add # {} => a \in Allocators /\ add \subseteq Free(a)
  BY <1>1 DEF Moves
\* The other generators and their blocks.
<1>6. ASSUME NEW h \in Gens \ {g}, Live(h)
      PROVE  /\ gen[h].top \in Addresses /\ gen[h].top \notin add /\ gen[h].top \notin remove
             /\ prot'[gen[h].top] = prot[gen[h].top]
  <2>1. gen[h].top \in Addresses
    BY <1>6, Facts
  <2>2. gen[h].top \notin add
    BY <1>5, <1>6, NewBlock
  <2>3. gen[h].top \notin remove
    BY <1>3, <1>6, Facts DEF IInv, BlocksAreOwned
  <2>4. QED BY <1>3, <2>1, <2>2, <2>3
<1>7. TypeOK'
  <2>1. \A h \in Gens : gen'[h].size <= gen'[h].maxSize
    BY <1>1, <1>2, Facts
  <2>2. QED BY <1>2, <1>3, <1>4, <2>1 DEF TypeOK, Generators, Types
<1>8. Kinds'
  <2>1. ASSUME NEW h \in Gens
        PROVE  /\ gen'[h].type = "USER_BUF" => gen'[h].top = UserBuf[h]
               /\ gen'[h].type \in {"ALLOC_BUF", "AUTO_GROW"} =>
                    /\ gen'[h].alloc \in Allocators
                    /\ view'[h] \in Modes
                    /\ gen'[h].curMode = "RE" <=> view'[h] = "RE"
    <3>1. CASE h = g
      BY <1>1, <1>2, <3>1
    <3>2. CASE h # g
      BY <1>2, <3>2 DEF IInv, Kinds, IsAllocType, Allocator
    <3>3. QED BY <3>1, <3>2
  <2>2. QED BY <2>1 DEF Kinds, IsAllocType, Allocator
<1>9. Unchangeable'
  <2>1. ASSUME NEW h \in Gens, gen'[h].type \in {"ALLOC_BUF", "AUTO_GROW"},
               gen'[h].alloc \notin MmapAllocators, gen'[h].maxSize = 0
        PROVE  prot'[gen'[h].top] \in {"RW", "RWE"}
    <3>1. CASE h = g
      BY <1>1, <1>2, <2>1, <3>1
    <3>2. CASE h # g
      <4>1. IsAllocType(h) /\ Allocator(h) \notin MmapAllocators /\ gen[h].maxSize = 0 /\ Live(h)
        BY <1>2, <2>1, <3>2 DEF IsAllocType, Allocator, Live
      <4>2. QED BY <1>2, <1>6, <3>2, <4>1 DEF IInv, Unchangeable, Writable
    <3>3. QED BY <3>1, <3>2
  <2>2. QED BY <2>1 DEF Unchangeable, IsAllocType, Allocator, Writable
<1>10. AsPromised'
  <2>1. ASSUME NEW h \in Gens, gen'[h].type # "NONE", gen'[h].maxSize > 0
        PROVE  /\ MayWrite(view'[h]) => prot'[gen'[h].top] \in {"RW", "RWE"}
               /\ MayRun(view'[h]) => prot'[gen'[h].top] \in {"RWE", "RE"}
    <3>1. CASE h = g
      BY <1>1, <1>2, <2>1, <3>1
    <3>2. CASE h # g
      <4>1. Live(h) /\ gen[h].maxSize > 0
        BY <1>2, <2>1, <3>2 DEF Live
      <4>2. QED BY <1>2, <1>6, <3>2, <4>1 DEF IInv, AsPromised, Writable, Executable
    <3>3. QED BY <3>1, <3>2
  <2>2. QED BY <2>1 DEF AsPromised, Live, Writable, Executable
<1>11. BlocksAreOwned'
  <2>1. ASSUME NEW h \in Gens, gen'[h].type \in {"ALLOC_BUF", "AUTO_GROW"}
        PROVE  gen'[h].top \in ToSet(allocList'[gen'[h].alloc])
    <3>1. CASE h = g
      BY <1>1, <1>2, <1>4, <2>1, <3>1
    <3>2. CASE h # g
      <4>1. IsAllocType(h) /\ gen'[h] = gen[h]
        BY <1>2, <2>1, <3>2 DEF IsAllocType
      <4>2. /\ Live(h) /\ gen[h].alloc \in Allocators
            /\ gen[h].top \in ToSet(allocList[gen[h].alloc])
        BY <4>1, Facts DEF Allocator
      <4>3. gen[h].top \notin remove
        BY <1>6, <3>2, <4>2
      <4>4. QED BY <1>4, <4>1, <4>2, <4>3
    <3>3. QED BY <3>1, <3>2
  <2>2. ASSUME NEW h \in Gens \ {g}, Live(h), r.type # "NONE"
        PROVE  gen[h].top # r.top
    <3>1. CASE r.type = "USER_BUF"
      <4>1. r.top = UserBuf[g] /\ r.top \in UserBlocks
        BY <1>1, <3>1 DEF UserBlocks
      <4>2. CASE IsAllocType(h)
        BY <4>1, <4>2, Facts, CodeMemoryAssumption DEF Blocks
      <4>3. CASE gen[h].type = "USER_BUF"
        BY <4>1, <4>3, CodeMemoryAssumption DEF IInv, Kinds
      <4>4. QED BY <2>2, <4>2, <4>3, Facts DEF Live, Generators, Types, IsAllocType
    <3>2. CASE r.type \in {"ALLOC_BUF", "AUTO_GROW"}
      BY <1>1, <1>6, <2>2, <3>2
    <3>3. QED BY <2>2, <3>1, <3>2 DEF Generators, Types
  <2>3. ASSUME NEW h \in Gens, NEW i \in Gens, gen'[h].type # "NONE", gen'[i].type # "NONE", h # i
        PROVE  gen'[h].top # gen'[i].top
    <3>1. CASE h = g
      BY <1>2, <2>2, <2>3, <3>1 DEF Live
    <3>2. CASE i = g
      BY <1>2, <2>2, <2>3, <3>2 DEF Live
    <3>3. CASE h # g /\ i # g
      BY <1>2, <2>3, <3>3 DEF IInv, BlocksAreOwned, Live
    <3>4. QED BY <3>1, <3>2, <3>3
  <2>4. QED BY <1>4, <2>1, <2>3 DEF BlocksAreOwned, IsAllocType, Allocator, Live
<1>12. NoLeak'
  <2>1. ASSUME NEW c \in Allocators, "free" \notin Fails[c], NEW b \in ToSet(allocList'[c])
        PROVE  \E h \in Gens : /\ gen'[h].type \in {"ALLOC_BUF", "AUTO_GROW"}
                               /\ gen'[h].alloc = c /\ gen'[h].top = b
    <3>1. CASE c = a /\ b \in add
      BY <1>1, <1>2, <3>1
    <3>2. CASE ~(c = a /\ b \in add)
      <4>1. b \in ToSet(allocList[c]) /\ ~(c = a /\ b \in remove)
        BY <1>4, <2>1, <3>2
      <4>2. PICK h \in Gens : IsAllocType(h) /\ Allocator(h) = c /\ gen[h].top = b
        BY <2>1, <4>1 DEF IInv, NoLeak
      <4>3. h # g
        BY <1>3, <4>1, <4>2
      <4>4. QED BY <1>2, <4>2, <4>3 DEF IsAllocType, Allocator
    <3>3. QED BY <3>1, <3>2
  <2>2. QED BY <2>1 DEF NoLeak, IsAllocType, Allocator
<1>13. HeapStaysWritable'
  <2>1. ASSUME NEW c \in Allocators \ MmapAllocators, NEW b \in BlocksOf[c],
               \A d \in Allocators : b \notin ToSet(allocList'[d])
        PROVE  prot'[b] \in {"RW", "RWE"}
    <3>1. b \in Addresses /\ b \notin MmapBlocks
      BY HeapBlock DEF Addresses, Blocks
    <3>2. CASE b \in remove
      <4>1. IsAllocType(g) /\ b = gen[g].top /\ a = Allocator(g)
        BY <1>3, <3>2
      <4>2. a \in Allocators /\ b \in BlocksOf[a]
        BY <4>1, Facts
      <4>3. a \notin MmapAllocators
        BY <3>1, <4>2, HeapBlock
      <4>4. QED BY <1>3, <3>2, <4>3
    <3>3. CASE b \notin remove
      <4>1. \A d \in Allocators : b \notin ToSet(allocList[d])
        BY <1>4, <2>1, <3>3
      <4>2. b \in Free(c)
        BY <4>1 DEF Free, Allocated
      <4>3. b \notin add
        BY <1>4, <1>5, <2>1, <3>3
      <4>4. prot[b] \in {"RW", "RWE"}
        BY <4>2 DEF IInv, HeapStaysWritable, Writable
      <4>5. QED BY <1>3, <3>1, <3>3, <4>3, <4>4
    <3>4. QED BY <3>2, <3>3
  <2>2. QED BY <2>1 DEF HeapStaysWritable, Free, Allocated, Writable
<1>14. QED BY <1>4, <1>7, <1>8, <1>9, <1>10, <1>11, <1>12, <1>13 DEF IInv

\* A block that was handed out and not kept: it went back, or it is lost because
\* free threw.
LEMMA LosesInv ==
  ASSUME IInv, NEW a \in Allocators, NEW b \in Free(a), UNCHANGED <<gen, view>>,
         prot' \in [Addresses -> Modes \cup {"none"}],
         \A x \in Addresses \ {b} : prot'[x] = prot[x],
         \/ /\ allocList' = allocList
            /\ a \notin MmapAllocators => prot' = prot
         \/ /\ "free" \in Fails[a]
            /\ allocList' = [allocList EXCEPT ![a] = Append(@, b)]
  PROVE  IInv'
<1>1. PICK add \in SUBSET {b} :
        /\ Change(a, add, {})
        /\ add # {} => "free" \in Fails[a]
        /\ add = {} /\ a \notin MmapAllocators => prot' = prot
  <2>1. CASE allocList' = allocList /\ (a \notin MmapAllocators => prot' = prot)
    BY <2>1, ListsUnchanged
  <2>2. CASE "free" \in Fails[a] /\ allocList' = [allocList EXCEPT ![a] = Append(@, b)]
    <3>1. /\ allocList[a] \in Seq(BlocksOf[a]) /\ IsInjective(allocList[a])
          /\ b \in BlocksOf[a] /\ b \notin ToSet(allocList[a])
      BY NewBlock DEF IInv, Lists, BlocksAreOwned
    <3>2. Change(a, {b}, {})
      BY <2>2, <3>1, AppendBlock, ListsChange
    <3>3. QED BY <2>2, <3>2
  <2>3. QED BY <2>1, <2>2
<1>2. /\ Lists' /\ allocList' \in [Allocators -> Seq(Blocks)]
      /\ \A c \in Allocators : IsInjective(allocList'[c])
      /\ \A c \in Allocators :
           ToSet(allocList'[c]) = IF c = a THEN ToSet(allocList[c]) \cup add
                                           ELSE ToSet(allocList[c])
  BY <1>1 DEF Change
<1>3. ASSUME NEW g \in Gens, Live(g) PROVE prot'[gen[g].top] = prot[gen[g].top]
  BY <1>3, NewBlock, Facts
<1>4. TypeOK'
  BY <1>2 DEF IInv, TypeOK
<1>5. Kinds'
  BY DEF IInv, Kinds, IsAllocType, Allocator
<1>6. Unchangeable'
  <2>1. ASSUME NEW g \in Gens, IsAllocType(g), Allocator(g) \notin MmapAllocators, gen[g].maxSize = 0
        PROVE  prot'[gen[g].top] \in {"RW", "RWE"}
    BY <1>3, <2>1, Facts DEF IInv, Unchangeable, Writable
  <2>2. QED BY <2>1 DEF Unchangeable, IsAllocType, Allocator, Writable
<1>7. AsPromised'
  BY <1>3 DEF IInv, AsPromised, Live, Writable, Executable
<1>8. BlocksAreOwned'
  <2>1. \A g \in Gens : IsAllocType(g) => gen[g].top \in ToSet(allocList'[Allocator(g)])
    BY <1>2, Facts
  <2>2. QED BY <1>2, <2>1 DEF IInv, BlocksAreOwned, IsAllocType, Allocator, Live
<1>9. NoLeak'
  <2>1. ASSUME NEW c \in Allocators, "free" \notin Fails[c], NEW x \in ToSet(allocList'[c])
        PROVE  \E g \in Gens : /\ gen'[g].type \in {"ALLOC_BUF", "AUTO_GROW"}
                               /\ gen'[g].alloc = c /\ gen'[g].top = x
    <3>1. x \in ToSet(allocList[c])
      BY <1>1, <1>2, <2>1
    <3>2. PICK g \in Gens : IsAllocType(g) /\ Allocator(g) = c /\ gen[g].top = x
      BY <2>1, <3>1 DEF IInv, NoLeak
    <3>3. QED BY <3>2 DEF IsAllocType, Allocator
  <2>2. QED BY <2>1 DEF NoLeak, IsAllocType, Allocator
<1>10. HeapStaysWritable'
  <2>1. ASSUME NEW c \in Allocators \ MmapAllocators, NEW x \in BlocksOf[c],
               \A d \in Allocators : x \notin ToSet(allocList'[d])
        PROVE  prot'[x] \in {"RW", "RWE"}
    <3>1. x \in Addresses /\ x \in Free(c)
      BY <1>2, <2>1 DEF Addresses, Blocks, Free, Allocated
    <3>2. prot[x] \in {"RW", "RWE"}
      BY <3>1 DEF IInv, HeapStaysWritable, Writable
    <3>3. CASE x = b
      <4>1. add = {}
        BY <1>1, <1>2, <2>1, <3>3
      <4>2. a \notin MmapAllocators
        BY <3>3, HeapBlock, NewBlock
      <4>3. QED BY <1>1, <3>2, <4>1, <4>2
    <3>4. CASE x # b
      BY <3>1, <3>2, <3>4
    <3>5. QED BY <3>3, <3>4
  <2>2. QED BY <2>1 DEF HeapStaysWritable, Free, Allocated, Writable
<1>11. QED BY <1>2, <1>4, <1>5, <1>6, <1>7, <1>8, <1>9, <1>10 DEF IInv

-----------------------------------------------------------------------------
(* The operations.                                                         *)

LEMMA ConstructInv ==
  ASSUME IInv, NEW g \in Gens, NEW size \in InitSizes, NEW userPtr \in UserPtrs,
         NEW a \in Allocators, Construct(g, size, userPtr, a)
  PROVE  IInv'
<1> DEFINE setRWE == userPtr = "0" /\ UseProtect[a]
<1>1. size \in 0..MaxSize /\ gen[g].type = "NONE" /\ ~IsAllocType(g)
  BY CodeMemoryAssumption DEF Construct, Live, IsAllocType
<1>2. CASE userPtr = "buffer" /\ ConstructOnBuffer(g, size)
  <2>1. UserBuf[g] \in Addresses
    BY DEF Addresses, UserBlocks
  <2> DEFINE r == Fresh("buffer", "none", UserBuf[g], size, "RW")
  <2>2. r \in Generators /\ r.type = "USER_BUF" /\ r.top = UserBuf[g] /\ r.size <= r.maxSize
        /\ r.maxSize = size
    BY <1>1, <2>1, CodeMemoryAssumption DEF Fresh, TypeOf, Generators, Types, Modes
  <2>3. /\ gen' = [gen EXCEPT ![g] = r] /\ view' = [view EXCEPT ![g] = prot[UserBuf[g]]]
        /\ prot' = prot /\ allocList' = allocList
    BY <1>2 DEF ConstructOnBuffer
  <2>4. prot[UserBuf[g]] \in Modes \cup {"none"}
    BY <2>1, Facts
  <2> HIDE DEF r
  <2>5. Moves(g, a, {}, {})
    BY <1>1, <2>2, <2>3, <2>4, Facts, ListsUnchanged DEF Moves, MayWrite, MayRun
  <2>6. QED BY <2>5, MovesInv
<1>3. ASSUME userPtr # "buffer", NEW b \in Free(a), ConstructOnBlock(g, size, userPtr, a, b, setRWE)
      PROVE  IInv'
  <2> DEFINE mode == IF setRWE THEN "RWE" ELSE "RW"
             p == AfterAlloc(prot, b)
             r == Fresh(userPtr, a, b, size, mode)
  <2>1. /\ gen' = [gen EXCEPT ![g] = r] /\ view' = [view EXCEPT ![g] = mode]
        /\ allocList' = [allocList EXCEPT ![a] = Append(@, b)]
        /\ prot' = IF setRWE THEN AfterProtect(p, b, size, mode) ELSE p
    BY <1>3 DEF ConstructOnBlock
  <2>2. /\ b \in BlocksOf[a] /\ b \in Addresses
        /\ b \notin ToSet(allocList[a])
        /\ p \in [Addresses -> Modes \cup {"none"}] /\ p[b] \in {"RW", "RWE"}
        /\ \A x \in Addresses \ {b} : p[x] = prot[x]
    BY NewBlock
  <2>3. /\ r \in Generators /\ r.type \in {"ALLOC_BUF", "AUTO_GROW"} /\ r.alloc = a /\ r.top = b
        /\ r.size <= r.maxSize /\ r.maxSize = size /\ r.curMode = mode
    BY <1>1, <1>3, <2>2, CodeMemoryAssumption
       DEF Fresh, TypeOf, Generators, Types, Modes, UserPtrs
  <2>4. /\ prot' \in [Addresses -> Modes \cup {"none"}]
        /\ \A x \in Addresses \ {b} : prot'[x] = prot[x]
        /\ prot'[b] \in {"RW", "RWE"}
        /\ size > 0 /\ setRWE => prot'[b] = "RWE"
    BY <1>1, <2>1, <2>2 DEF AfterProtect, Modes
  <2>5. Change(a, {b}, {})
    <3>1. allocList[a] \in Seq(BlocksOf[a]) /\ IsInjective(allocList[a])
      BY DEF IInv, Lists, BlocksAreOwned
    <3>2. QED BY <2>1, <2>2, <3>1, AppendBlock, ListsChange
  <2>6. mode \in Modes /\ mode # "RE"
    BY DEF Modes
  <2>7. MayWrite(mode) /\ (MayRun(mode) => setRWE)
    BY DEF MayWrite, MayRun
  <2> HIDE DEF mode, p, r, setRWE
  <2>8. Moves(g, a, {b}, {})
    BY <1>1, <2>1, <2>3, <2>4, <2>5, <2>6, <2>7 DEF Moves
  <2>9. QED BY <2>8, MovesInv
<1>4. ASSUME NEW b \in Free(a), NEW freed \in Outcomes(a, "free"), ConstructFails(a, b, freed)
      PROVE  IInv'
  <2> DEFINE p == AfterAlloc(prot, b)
  <2>1. /\ b \in BlocksOf[a] /\ b \in Addresses
        /\ p \in [Addresses -> Modes \cup {"none"}]
        /\ \A x \in Addresses \ {b} : p[x] = prot[x]
        /\ a \notin MmapAllocators => p = prot
    BY NewBlock
  <2>2. b \in MmapBlocks <=> a \in MmapAllocators
    BY <2>1, HeapBlock
  <2>3. CASE freed
    <3>1. prot' = AfterFree(p, b) /\ UNCHANGED <<allocList, gen, view>>
      BY <1>4, <2>3 DEF ConstructFails
    <3>2. /\ prot' \in [Addresses -> Modes \cup {"none"}]
          /\ \A x \in Addresses \ {b} : prot'[x] = prot[x]
          /\ a \notin MmapAllocators => prot' = prot
      BY <2>1, <2>2, <3>1 DEF AfterFree
    <3>3. QED BY <3>1, <3>2, LosesInv
  <2>4. CASE ~freed
    <3>1. "free" \in Fails[a]
      BY <2>4 DEF Outcomes
    <3>2. /\ prot' = p /\ UNCHANGED <<gen, view>>
          /\ allocList' = [allocList EXCEPT ![a] = Append(@, b)]
      BY <1>4, <2>4 DEF ConstructFails
    <3>3. QED BY <2>1, <3>1, <3>2, LosesInv
  <2>5. QED BY <2>3, <2>4
<1>5. QED BY <1>2, <1>3, <1>4 DEF Construct

LEMMA DestroyInv ==
  ASSUME IInv, NEW g \in Gens, Destroy(g)
  PROVE  IInv'
<1>1. Live(g) /\ Absent \in Generators /\ Absent.type = "NONE" /\ Absent.size <= Absent.maxSize
  BY CodeMemoryAssumption DEF Destroy, Absent, Generators, Types, Modes
<1>2. gen' = [gen EXCEPT ![g] = Absent] /\ view' = [view EXCEPT ![g] = "none"]
  BY DEF Destroy
<1>3. CASE ~IsAllocType(g)
  <2>1. prot' = prot /\ allocList' = allocList
    BY <1>3 DEF Destroy
  <2>2. Moves(g, "none", {}, {})
    BY <1>1, <1>2, <1>3, <2>1, Facts, ListsUnchanged DEF Moves
  <2>3. QED BY <2>2, MovesInv
<1>4. CASE IsAllocType(g)
  <2> DEFINE a == Allocator(g)
             b == gen[g].top
             size == gen[g].maxSize
  <2>1. /\ ~UseProtect[a] => MayWrite(view[g])
        /\ \E restored \in Outcomes(a, "unprotect") : FreeBlock(g, restored)
    BY <1>4 DEF Destroy, Protects
  <2>2. PICK restored \in Outcomes(a, "unprotect") : FreeBlock(g, restored)
    BY <2>1
  <2> DEFINE p == IF UseProtect[a] /\ restored THEN AfterProtect(prot, b, size, "RW") ELSE prot
  <2>3. prot' = AfterFree(p, b) /\ allocList' = [allocList EXCEPT ![a] = Erase(@, b)]
    BY <2>2 DEF FreeBlock, Protects
  <2>4. a \in Allocators /\ b \in ToSet(allocList[a]) /\ b \in BlocksOf[a] /\ b \in Addresses
        /\ size \in Nat
    BY <1>1, <1>4, Facts DEF Generators
  <2>5. Change(a, {}, {b})
    <3>1. allocList[a] \in Seq(BlocksOf[a]) /\ IsInjective(allocList[a])
      BY <2>4 DEF IInv, Lists, BlocksAreOwned
    <3>2. QED BY <2>3, <2>4, <3>1, EraseBlock, ListsChange
  <2>6. b \in MmapBlocks <=> a \in MmapAllocators
    BY <2>4, HeapBlock
  <2>7. /\ p \in [Addresses -> Modes \cup {"none"}]
        /\ \A x \in Addresses \ {b} : p[x] = prot[x]
    BY <2>4, Facts DEF AfterProtect, Modes
  <2>8. /\ prot' \in [Addresses -> Modes \cup {"none"}]
        /\ \A x \in Addresses \ {b} : prot'[x] = prot[x]
    BY <2>3, <2>4, <2>7 DEF AfterFree
  <2>9. a \notin MmapAllocators => prot'[b] \in {"RW", "RWE"}
    <3> SUFFICES ASSUME a \notin MmapAllocators PROVE prot'[b] \in {"RW", "RWE"}
      OBVIOUS
    <3>1. prot' = p
      BY <2>3, <2>6 DEF AfterFree
    <3>2. restored
      BY <2>2, <2>4, CodeMemoryAssumption DEF Outcomes
    <3>3. CASE size = 0
      <4>1. p = prot
        BY <3>3 DEF AfterProtect
      <4>2. QED BY <1>4, <3>1, <3>3, <4>1 DEF IInv, Unchangeable, Writable
    <3>4. CASE size > 0 /\ UseProtect[a]
      <4>1. p[b] = "RW"
        BY <2>4, <3>2, <3>4, Facts DEF AfterProtect
      <4>2. QED BY <3>1, <4>1
    <3>5. CASE size > 0 /\ ~UseProtect[a]
      <4>1. prot[b] \in {"RW", "RWE"}
        BY <1>1, <2>1, <3>5 DEF IInv, AsPromised, Writable
      <4>2. QED BY <3>1, <3>5, <4>1
    <3>6. QED BY <2>4, <3>3, <3>4, <3>5
  <2> HIDE DEF p
  <2>10. Moves(g, a, {}, {b})
    BY <1>1, <1>2, <1>4, <2>5, <2>8, <2>9 DEF Moves
  <2>11. QED BY <2>10, MovesInv
<1>5. QED BY <1>3, <1>4

\* The next block of a generator that grows holds one byte more than is there.
LEMMA BiggerHolds ==
  ASSUME NEW size \in Nat
  PROVE  Bigger(size) \in Nat /\ size + 1 <= Bigger(size)
BY CodeMemoryAssumption DEF Bigger

LEMMA GrowMemoryInv ==
  ASSUME IInv, NEW g \in Gens, IsAutoGrow(g), MayWrite(view[g]), ~Room(g),
         Bigger(gen[g].maxSize) <= MaxSize,
         NEW b \in Free(Allocator(g)), NEW freed \in Outcomes(Allocator(g), "free"),
         GrowMemory(g, b, freed)
  PROVE  IInv'
<1> DEFINE a == Allocator(g)
           old == gen[g].top
           size == gen[g].maxSize
           p == AfterAlloc(prot, b)
           handed == Append(allocList[a], b)
<1>1. /\ IsAllocType(g) /\ Live(g) /\ gen[g].type = "AUTO_GROW"
      /\ gen[g] \in Generators /\ size \in Nat /\ gen[g].size = size
  <2>1. /\ IsAllocType(g) /\ Live(g) /\ gen[g].type = "AUTO_GROW"
        /\ gen[g] \in Generators /\ gen[g].size <= gen[g].maxSize
    BY Facts DEF IsAutoGrow, IsAllocType, Live
  <2>2. QED BY <2>1, CodeMemoryAssumption DEF Room, Generators
<1>2. /\ a \in Allocators /\ old \in ToSet(allocList[a]) /\ old \in BlocksOf[a]
      /\ old \in Addresses
  BY <1>1, Facts
<1>3. /\ b \in BlocksOf[a] /\ b \in Addresses /\ b # old
      /\ b \notin ToSet(allocList[a])
      /\ p \in [Addresses -> Modes \cup {"none"}] /\ p[b] \in {"RW", "RWE"}
      /\ \A x \in Addresses \ {b} : p[x] = prot[x]
      /\ a \notin MmapAllocators => p = prot
  BY <1>1, <1>2, NewBlock
<1>4. old \in MmapBlocks <=> a \in MmapAllocators
  BY <1>2, HeapBlock
<1>5. /\ Erase(handed, old) \in Seq(BlocksOf[a]) /\ IsInjective(Erase(handed, old))
      /\ ToSet(Erase(handed, old)) = (ToSet(allocList[a]) \cup {b}) \ {old}
  <2>1. allocList[a] \in Seq(BlocksOf[a]) /\ IsInjective(allocList[a])
    BY <1>2 DEF IInv, Lists, BlocksAreOwned
  <2>2. QED BY <1>2, <1>3, <2>1, ReplaceBlock
<1>6. CASE freed
  <2> DEFINE r == [gen[g] EXCEPT !.top = b, !.maxSize = Bigger(size), !.size = @ + 1]
  <2>1. /\ prot' = AfterFree(p, old)
        /\ gen' = [gen EXCEPT ![g] = r]
        /\ view' = [view EXCEPT ![g] = "RW"]
    BY <1>1, <1>6, Facts DEF GrowMemory, Emitted, IsAutoGrow
  <2>2. allocList' = [allocList EXCEPT ![a] = Erase(handed, old)]
    BY <1>2, <1>6, Facts DEF GrowMemory
  <2>3. Change(a, {b}, {old})
    BY <1>2, <1>5, <2>2, ListsChange
  <2>4. /\ r \in Generators /\ r.type = "AUTO_GROW" /\ r.alloc = a /\ r.top = b
        /\ r.size <= r.maxSize /\ r.curMode = gen[g].curMode
    <3>1. Bigger(size) \in 0..MaxSize /\ size + 1 <= Bigger(size) /\ size + 1 \in 0..MaxSize
      BY <1>1, BiggerHolds, CodeMemoryAssumption
    <3>2. QED BY <1>1, <1>3, <3>1 DEF Generators, Allocator
  <2>5. /\ prot' \in [Addresses -> Modes \cup {"none"}]
        /\ \A x \in Addresses \ {b, old} : prot'[x] = prot[x]
        /\ prot'[b] \in {"RW", "RWE"}
    BY <1>2, <1>3, <2>1 DEF AfterFree
  <2>6. a \notin MmapAllocators => prot'[old] \in {"RW", "RWE"}
    <3> SUFFICES ASSUME a \notin MmapAllocators PROVE prot'[old] \in {"RW", "RWE"}
      OBVIOUS
    <3>1. prot' = prot
      BY <1>3, <1>4, <2>1 DEF AfterFree
    <3>2. CASE size = 0
      BY <1>1, <3>1, <3>2 DEF IInv, Unchangeable, Writable
    <3>3. CASE size > 0
      BY <1>1, <3>1, <3>3 DEF IInv, AsPromised, Writable
    <3>4. QED BY <1>1, <3>2, <3>3
  <2>7. "RW" \in Modes /\ "RW" # "RE" /\ gen[g].curMode # "RE"
    BY <1>1 DEF IInv, Kinds, MayWrite, Modes
  <2>8. ~MayRun("RW")
    BY DEF MayRun
  <2> HIDE DEF p, r
  <2>9. Moves(g, a, {b}, {old})
    BY <1>1, <1>2, <1>3, <2>1, <2>3, <2>4, <2>5, <2>6, <2>7, <2>8 DEF Moves
  <2>10. QED BY <2>9, MovesInv
<1>7. CASE ~freed
  <2>1. "free" \in Fails[a]
    BY <1>7 DEF Outcomes
  <2>2. /\ prot' = p /\ UNCHANGED <<gen, view>>
        /\ allocList' = [allocList EXCEPT ![a] = Append(@, b)]
    BY <1>7 DEF GrowMemory
  <2>3. QED BY <1>2, <1>3, <2>1, <2>2, LosesInv
<1>8. QED BY <1>6, <1>7

LEMMA DbInv ==
  ASSUME IInv, NEW g \in Gens, Db(g)
  PROVE  IInv'
<1>1. Live(g) /\ MayWrite(view[g])
  BY DEF Db
<1>2. CASE /\ Room(g) /\ gen' = [gen EXCEPT ![g].size = @ + 1]
           /\ view' = Emitted(g) /\ UNCHANGED <<prot, allocList>>
  <2> DEFINE r == [gen[g] EXCEPT !.size = @ + 1]
             v == IF IsAutoGrow(g) THEN "RW" ELSE view[g]
  <2>1. gen[g] \in Generators /\ view[g] \in Modes \cup {"none"}
    BY Facts
  <2>2. /\ r \in Generators /\ r.type = gen[g].type /\ r.alloc = gen[g].alloc
        /\ r.top = gen[g].top /\ r.maxSize = gen[g].maxSize /\ r.size <= r.maxSize
        /\ r.curMode = gen[g].curMode /\ r.maxSize > 0
    BY <1>2, <2>1, CodeMemoryAssumption DEF Generators, Room
  <2>3. gen' = [gen EXCEPT ![g] = r] /\ view' = [view EXCEPT ![g] = v]
    BY <1>2, Facts DEF Emitted
  <2>4. /\ v \in Modes \cup {"none"}
        /\ IsAllocType(g) => v \in Modes /\ (gen[g].curMode = "RE" <=> v = "RE")
    BY <1>1, <2>1 DEF IInv, Kinds, MayWrite, Modes, IsAutoGrow, IsAllocType
  <2>5. /\ MayWrite(v) => prot[gen[g].top] \in {"RW", "RWE"}
        /\ MayRun(v) => prot[gen[g].top] \in {"RWE", "RE"}
    BY <1>1, <2>2 DEF IInv, AsPromised, Writable, Executable, MayRun
  <2>6. prot' = prot /\ allocList' = allocList
    BY <1>2
  <2> HIDE DEF r, v
  <2>7. Keeps(g)
    BY <1>1, <2>2, <2>3, <2>4, <2>5, <2>6 DEF Keeps, Live
  <2>8. QED BY <2>7, KeepsInv
<1>3. CASE ~Room(g) /\ IsAutoGrow(g) /\ Bigger(gen[g].maxSize) <= MaxSize
  BY <1>1, <1>2, <1>3, GrowMemoryInv DEF Db
<1>4. QED BY <1>2, <1>3 DEF Db

LEMMA SetSizeInv ==
  ASSUME IInv, NEW g \in Gens, NEW size \in 0..MaxSize, SetSize(g, size)
  PROVE  IInv'
<1> DEFINE r == [gen[g] EXCEPT !.size = size]
<1>1. gen[g] \in Generators /\ view[g] \in Modes \cup {"none"} /\ Live(g)
  BY Facts DEF SetSize
<1>2. /\ r \in Generators /\ r.type = gen[g].type /\ r.alloc = gen[g].alloc
      /\ r.top = gen[g].top /\ r.maxSize = gen[g].maxSize /\ r.size <= r.maxSize
      /\ r.curMode = gen[g].curMode
  BY <1>1 DEF Generators, SetSize
<1>3. /\ gen' = [gen EXCEPT ![g] = r] /\ view' = [view EXCEPT ![g] = view[g]]
      /\ prot' = prot /\ allocList' = allocList
  BY Facts DEF SetSize
<1>4. IsAllocType(g) => view[g] \in Modes /\ (gen[g].curMode = "RE" <=> view[g] = "RE")
  BY DEF IInv, Kinds
<1>5. gen[g].maxSize > 0 =>
        /\ MayWrite(view[g]) => prot[gen[g].top] \in {"RW", "RWE"}
        /\ MayRun(view[g]) => prot[gen[g].top] \in {"RWE", "RE"}
  BY <1>1 DEF IInv, AsPromised, Writable, Executable
<1> HIDE DEF r
<1>6. Keeps(g)
  BY <1>1, <1>2, <1>3, <1>4, <1>5 DEF Keeps, Live
<1>7. QED BY <1>6, KeepsInv

\* setProtectMode and ready: pages, curMode_ and what is promised change together.
LEMMA ProtectInv ==
  ASSUME IInv, NEW g \in Gens, NEW mode \in Modes, Live(g), Protected(g, mode),
         gen' = [gen EXCEPT ![g].curMode = mode], view' = [view EXCEPT ![g] = mode],
         allocList' = allocList
  PROVE  IInv'
<1> DEFINE r == [gen[g] EXCEPT !.curMode = mode]
<1>1. gen[g] \in Generators /\ gen[g].top \in Addresses /\ gen[g].size <= gen[g].maxSize
  BY Facts
<1>2. /\ r \in Generators /\ r.type = gen[g].type /\ r.alloc = gen[g].alloc
      /\ r.top = gen[g].top /\ r.maxSize = gen[g].maxSize /\ r.size <= r.maxSize
      /\ r.curMode = mode
  BY <1>1 DEF Generators
<1>3. gen' = [gen EXCEPT ![g] = r]
  BY Facts
<1>4. gen[g].maxSize > 0 => prot'[gen[g].top] = mode
  BY <1>1, Facts DEF Protected, AfterProtect
<1>5. /\ MayWrite(mode) => mode \in {"RW", "RWE"}
      /\ MayRun(mode) => mode \in {"RWE", "RE"}
  BY DEF MayWrite, MayRun
<1> HIDE DEF r
<1>6. Keeps(g)
  BY <1>2, <1>3, <1>4, <1>5 DEF Keeps, Live
<1>7. QED BY <1>6, KeepsInv

LEMMA ResetInv ==
  ASSUME IInv, NEW g \in Gens, Reset(g)
  PROVE  IInv'
<1> DEFINE mine == IsAllocType(g) /\ Protects(g)
           restore == mine /\ gen[g].curMode = "RE"
<1>1. PICK ok \in BOOLEAN :
        /\ restore \/ ok
        /\ IF restore /\ ok THEN Protected(g, "RW") ELSE UNCHANGED prot
        /\ gen' = [gen EXCEPT ![g].size = 0,
                              ![g].curMode = IF restore /\ ok THEN "RW" ELSE @]
        /\ view' = [view EXCEPT ![g] = IF mine /\ ok /\ @ = "RE" THEN "RW" ELSE @]
  BY DEF Reset, Outcomes
<1> DEFINE mode == IF restore /\ ok THEN "RW" ELSE gen[g].curMode
           empty == [gen[g] EXCEPT !.size = 0]
           r == [empty EXCEPT !.curMode = mode]
           v == IF mine /\ ok /\ view[g] = "RE" THEN "RW" ELSE view[g]
<1>2. /\ gen[g] \in Generators /\ gen[g].top \in Addresses /\ Live(g)
      /\ view[g] \in Modes \cup {"none"} /\ allocList' = allocList
  BY Facts DEF Reset
<1>3. /\ r \in Generators /\ r.type = gen[g].type /\ r.alloc = gen[g].alloc
      /\ r.top = gen[g].top /\ r.maxSize = gen[g].maxSize /\ r.size <= r.maxSize
      /\ r.curMode = mode
  <2>1. mode \in Modes
    BY <1>2 DEF Generators, Modes
  <2>2. /\ empty \in Generators /\ empty.type = gen[g].type /\ empty.alloc = gen[g].alloc
        /\ empty.top = gen[g].top /\ empty.maxSize = gen[g].maxSize
        /\ empty.size <= empty.maxSize
    BY <1>2, CodeMemoryAssumption DEF Generators
  <2> HIDE DEF mode, empty
  <2>3. QED BY <2>1, <2>2 DEF Generators
<1>4. gen' = [gen EXCEPT ![g] = r] /\ view' = [view EXCEPT ![g] = v]
  BY <1>1, Facts
<1>5. IsAllocType(g) => view[g] \in Modes /\ (gen[g].curMode = "RE" <=> view[g] = "RE")
  BY DEF IInv, Kinds
<1>6. /\ v \in Modes \cup {"none"}
      /\ IsAllocType(g) => v \in Modes /\ (r.curMode = "RE" <=> v = "RE")
  BY <1>1, <1>2, <1>3, <1>5 DEF Modes
<1>7. gen[g].maxSize > 0 =>
        /\ MayWrite(v) => prot'[gen[g].top] \in {"RW", "RWE"}
        /\ MayRun(v) => prot'[gen[g].top] \in {"RWE", "RE"}
  <2>1. CASE restore /\ ok
    <3>1. v = "RW"
      BY <1>5, <2>1
    <3>2. gen[g].maxSize > 0 => prot'[gen[g].top] = "RW"
      BY <1>1, <1>2, <2>1, Facts DEF Protected, AfterProtect
    <3>3. QED BY <3>1, <3>2 DEF MayRun
  <2>2. CASE ~(restore /\ ok)
    <3>1. v = view[g] /\ prot' = prot
      BY <1>1, <1>5, <2>2
    <3>2. QED BY <1>2, <3>1 DEF IInv, AsPromised, Writable, Executable
  <2>3. QED BY <2>1, <2>2
<1>8. prot' = prot \/ Protected(g, "RW")
  BY <1>1
<1>9. "RW" \in Modes
  BY DEF Modes
<1> HIDE DEF r, v
<1>10. Keeps(g)
  BY <1>2, <1>3, <1>4, <1>6, <1>7, <1>8, <1>9 DEF Keeps, Live
<1>11. QED BY <1>10, KeepsInv

-----------------------------------------------------------------------------
(* The theorems.                                                           *)

LEMMA InitInv == Init => IInv
<1> SUFFICES ASSUME Init PROVE IInv
  OBVIOUS
<1> USE CodeMemoryAssumption
<1>1. \A g \in Gens : gen[g] = Absent /\ view[g] = "none"
  BY DEF Init
<1>2. Absent \in Generators /\ Absent.type = "NONE" /\ Absent.size <= Absent.maxSize
  BY DEF Absent, Generators, Types, Modes
<1>3. \A g \in Gens : ~Live(g) /\ ~IsAllocType(g) /\ gen[g].type = "NONE"
  BY <1>1, <1>2 DEF Live, IsAllocType
<1>4. \A a \in Allocators : allocList[a] = <<>> /\ ToSet(allocList[a]) = {}
  BY DEF Init, ToSet
<1>5. TypeOK
  <2>1. gen \in [Gens -> Generators] /\ \A g \in Gens : gen[g].size <= gen[g].maxSize
    BY <1>2 DEF Init
  <2>2. prot \in [Addresses -> Modes \cup {"none"}]
    BY DEF Init, Addresses, Modes
  <2>3. allocList \in [Allocators -> Seq(Blocks)] /\ view \in [Gens -> Modes \cup {"none"}]
    BY DEF Init
  <2>4. QED BY <2>1, <2>2, <2>3 DEF TypeOK, Generators, Types
<1>6. Lists /\ Kinds /\ Unchangeable
  <2>1. ASSUME NEW a \in Allocators PROVE allocList[a] \in Seq(BlocksOf[a])
    <3>1. <<>> \in Seq(BlocksOf[a])
      OBVIOUS
    <3>2. QED BY <1>4, <3>1
  <2>2. QED BY <1>3, <1>4, <2>1 DEF Lists, Kinds, Unchangeable
<1>7. AsPromised /\ NoLeak
  BY <1>3, <1>4 DEF AsPromised, NoLeak
<1>8. BlocksAreOwned
  BY <1>3, <1>4 DEF BlocksAreOwned, IsInjective
<1>9. HeapStaysWritable
  <2>1. ASSUME NEW a \in Allocators \ MmapAllocators, NEW b \in Free(a)
        PROVE  Writable(b)
    <3>1. b \in Blocks /\ b \notin MmapBlocks
      BY HeapBlock DEF Free, Blocks
    <3>2. QED BY <3>1 DEF Init, Writable
  <2>2. QED BY <2>1 DEF HeapStaysWritable
<1>10. QED BY <1>5, <1>6, <1>7, <1>8, <1>9 DEF IInv

LEMMA NextInv == IInv /\ [Next]_vars => IInv'
<1> SUFFICES ASSUME IInv, [Next]_vars PROVE IInv'
  OBVIOUS
<1>1. ASSUME NEW g \in Gens, NEW size \in InitSizes, NEW userPtr \in UserPtrs, NEW a \in Allocators,
             Construct(g, size, userPtr, a)
      PROVE  IInv'
  BY <1>1, ConstructInv
<1>2. ASSUME NEW g \in Gens, Destroy(g) PROVE IInv'
  BY <1>2, DestroyInv
<1>3. ASSUME NEW g \in Gens, Db(g) PROVE IInv'
  BY <1>3, DbInv
<1>4. ASSUME NEW g \in Gens, NEW size \in 0..MaxSize, SetSize(g, size) PROVE IInv'
  BY <1>4, SetSizeInv
<1>5. ASSUME NEW g \in Gens, NEW mode \in Modes, SetProtectMode(g, mode) PROVE IInv'
  BY <1>5, ProtectInv DEF SetProtectMode
<1>6. ASSUME NEW g \in Gens, NEW mode \in Modes, Ready(g, mode) PROVE IInv'
  <2>1. Live(g)
    BY <1>6 DEF Ready, IsAutoGrow, Live
  <2>2. QED BY <1>6, <2>1, ProtectInv DEF Ready
<1>7. ASSUME NEW g \in Gens, Reset(g) PROVE IInv'
  BY <1>7, ResetInv
<1>8. CASE UNCHANGED vars
  BY <1>8 DEF vars, IInv, TypeOK, Lists, Kinds, Unchangeable, AsPromised, BlocksAreOwned,
              NoLeak, HeapStaysWritable, Live, IsAllocType, Allocator, Writable, Executable,
              Free, Allocated
<1>9. QED BY <1>1, <1>2, <1>3, <1>4, <1>5, <1>6, <1>7, <1>8 DEF Next

\* The inductive invariant holds whatever the client calls and whichever system
\* call fails.
THEOREM Invariance == Spec => []IInv
BY InitInv, NextInv, PTL DEF Spec

\* No generator counts more bytes than its block holds, and every field stays in
\* its range, however often the block grows (CodeArray::growMemory, setSize).
THEOREM TypeCorrect == Spec => []TypeOK
BY Invariance, PTL DEF IInv

\* A client that follows the documentation writes and runs only pages that permit
\* it, for any number of generators and allocators and whichever system call fails.
THEOREM PagesAsPromised == Spec => []AsPromised
BY Invariance, PTL DEF IInv

\* No block has two owners (Allocator::alloc and free, CodeArray::growMemory).
THEOREM Ownership == Spec => []BlocksAreOwned
BY Invariance, PTL DEF IInv

\* An allocator whose free never throws gets every block back.
THEOREM NothingLeaks == Spec => []NoLeak
BY Invariance, PTL DEF IInv

\* The heap never gets pages back that its next owner may not write.
THEOREM HeapIsWritable == Spec => []HeapStaysWritable
BY Invariance, PTL DEF IInv

=============================================================================
