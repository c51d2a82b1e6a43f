----------------------------- MODULE CodeMemory -----------------------------
(***************************************************************************)
(* The memory of class CodeArray and its allocators: who owns which block, *)
(* what its pages permit, what curMode_ says of it. The bytes, and the     *)
(* references that ready() fills in, are in module Linker; here a block is *)
(* its size and its protection.                                            *)
(*                                                                         *)
(* A call that throws before it changes anything is a stuttering step. So  *)
(* is what comes after an exception that leaves a destructor: the program  *)
(* has ended.                                                              *)
(***************************************************************************)
EXTENDS Integers, Sequences, FiniteSets, SequencesExt

CONSTANTS
  Gens,         \* generators
  UserBuf,      \* [Gens -> addresses]: the buffer a client has for USER_BUF
  Allocators,
  MmapAllocators,  \* those of class MmapAllocator; the others use the heap
  BlocksOf,     \* [Allocators -> sets of addresses]: what they can return
  UseProtect,   \* [Allocators -> BOOLEAN]: Allocator::useProtect
  Fails,        \* [Allocators -> the system calls that may fail on a block]
  DefaultSize,  \* DEFAULT_MAX_CODE_SIZE
  InitSizes,    \* sizes a client asks for
  MaxSize       \* bound: no block grows beyond it

Modes == {"RW", "RWE", "RE"}
Blocks == UNION {BlocksOf[a] : a \in Allocators}
UserBlocks == {UserBuf[g] : g \in Gens}
MmapBlocks == UNION {BlocksOf[a] : a \in MmapAllocators}

ASSUME CodeMemoryAssumption ==
  /\ UserBlocks \cap Blocks = {}
  /\ \A g, h \in Gens : UserBuf[g] = UserBuf[h] => g = h
  /\ MmapAllocators \subseteq Allocators
  /\ \A a \in Allocators \ MmapAllocators : BlocksOf[a] \cap MmapBlocks = {}
  /\ \A a \in Allocators : UseProtect[a] \in BOOLEAN
  /\ \A a \in Allocators : Fails[a] \subseteq {"protect", "unprotect", "free"}
  \* free() has no result, and pages of the heap go back to what they were.
  /\ \A a \in Allocators \ MmapAllocators : Fails[a] \subseteq {"protect"}
  /\ DefaultSize \in Nat \ {0} /\ MaxSize \in Nat
  /\ InitSizes \subseteq 0..MaxSize

VARIABLES
  gen,        \* [Gens -> the fields of the generator]
  prot,       \* what the pages of each block permit; "none": not mapped
  allocList,  \* allocator -> the blocks it has handed out
  view        \* history: what the client may do with the code by the docs

vars == <<gen, prot, allocList, view>>

Writable(b) == prot[b] \in {"RW", "RWE"}
Executable(b) == prot[b] \in {"RWE", "RE"}
MayWrite(mode) == mode \in {"RW", "RWE"}
MayRun(mode) == mode \in {"RWE", "RE"}

-----------------------------------------------------------------------------
(* Allocators and pages. Definitions marked "Bug:" are no part of the      *)
(* model (see module Linker).                                              *)

Absent == [type |-> "NONE", alloc |-> "none", top |-> "null", maxSize |-> 0,
           size |-> 0, curMode |-> "RW"]

Live(g) == gen[g].type # "NONE"
IsAllocType(g) == gen[g].type \in {"ALLOC_BUF", "AUTO_GROW"}
IsAutoGrow(g) == gen[g].type = "AUTO_GROW"
Allocator(g) == gen[g].alloc
Protects(g) == UseProtect[Allocator(g)]

\* Does a call of the operating system succeed?
Outcomes(a, call) == IF call \in Fails[a] THEN BOOLEAN ELSE {TRUE}

Allocated == UNION {ToSet(allocList[a]) : a \in Allocators}
Free(a) == BlocksOf[a] \ Allocated

\* alloc: mmap maps new pages read/write, the heap returns what it has.
AfterAlloc(p, b) == IF b \in MmapBlocks THEN [p EXCEPT ![b] = "RW"] ELSE p
\* protect: mprotect; of no bytes, it does nothing.
AfterProtect(p, b, size, mode) == IF size = 0 THEN p ELSE [p EXCEPT ![b] = mode]
\* free: munmap, or back to the heap as it is.
AfterFree(p, b) == IF b \in MmapBlocks THEN [p EXCEPT ![b] = "none"] ELSE p

\* Bug: the last entry goes, whichever was to be freed.
EraseBack(list, b) == Front(list)

\* free: the last entry takes the place of the one that goes.
Erase(list, b) ==
  Front([list EXCEPT ![SelectInSeq(list, LAMBDA x : x = b)] = Last(list)])

Bigger(size) == IF 2 * size > DefaultSize THEN 2 * size ELSE DefaultSize

-----------------------------------------------------------------------------
(* Construction and destruction.                                           *)

\* What the constructor is given for userPtr.
UserPtrs == {"0", "AutoGrow", "DontSetProtectRWE", "buffer"}
TypeOf(userPtr) ==
  CASE userPtr = "AutoGrow" -> "AUTO_GROW"
    [] userPtr \in {"0", "DontSetProtectRWE"} -> "ALLOC_BUF"
    [] userPtr = "buffer" -> "USER_BUF"

Fresh(userPtr, a, b, size, mode) ==
  [type |-> TypeOf(userPtr), alloc |-> a, top |-> b, maxSize |-> size,
   size |-> 0, curMode |-> mode]

\* A client's own buffer: not allocated, not protected; alloc_ is not asked.
ConstructOnBuffer(g, size) ==
  /\ gen' = [gen EXCEPT ![g] = Fresh("buffer", "none", UserBuf[g], size, "RW")]
  /\ view' = [view EXCEPT ![g] = prot[UserBuf[g]]]
  /\ UNCHANGED <<prot, allocList>>

\* A block, read/write/exec when asked for; curMode_ starts as RW.
ConstructOnBlock(g, size, userPtr, a, b, setRWE) ==
  LET mode == IF setRWE THEN "RWE" ELSE "RW"
      p    == AfterAlloc(prot, b)
  IN
  /\ gen' = [gen EXCEPT ![g] = Fresh(userPtr, a, b, size, mode)]
  /\ allocList' = [allocList EXCEPT ![a] = Append(@, b)]
  /\ prot' = IF setRWE THEN AfterProtect(p, b, size, mode) ELSE p
  /\ view' = [view EXCEPT ![g] = mode]

\* Bug: the constructor throws without freeing.
ConstructFailsLeaks(a, b, freed) ==
  /\ prot' = AfterAlloc(prot, b)
  /\ allocList' = [allocList EXCEPT ![a] = Append(@, b)]
  /\ UNCHANGED <<gen, view>>

\* ERR_CANT_PROTECT: the block is freed, or lost when free throws as well.
ConstructFails(a, b, freed) ==
  /\ IF freed
     THEN prot' = AfterFree(AfterAlloc(prot, b), b) /\ UNCHANGED allocList
     ELSE /\ prot' = AfterAlloc(prot, b)
          /\ allocList' = [allocList EXCEPT ![a] = Append(@, b)]
  /\ UNCHANGED <<gen, view>>

Construct(g, size, userPtr, a) ==
  LET setRWE == userPtr = "0" /\ UseProtect[a] IN
  /\ ~Live(g)
  /\ \/ userPtr = "buffer" /\ size > 0 /\ ConstructOnBuffer(g, size)
     \/ /\ userPtr # "buffer"
        /\ \E b \in Free(a) :
             \/ ConstructOnBlock(g, size, userPtr, a, b, setRWE)
             \/ /\ setRWE /\ "protect" \in Fails[a]
                /\ \E freed \in Outcomes(a, "free") : ConstructFails(a, b, freed)

\* Bug: the destructor frees the block as it is.
FreeBlockAsIs(g, restored) ==
  /\ prot' = AfterFree(prot, gen[g].top)
  /\ allocList' = [allocList EXCEPT ![Allocator(g)] = Erase(@, gen[g].top)]

\* Pages go back read/write if they can; when free throws the program ends.
FreeBlock(g, restored) ==
  LET b == gen[g].top
      p == IF Protects(g) /\ restored
           THEN AfterProtect(prot, b, gen[g].maxSize, "RW") ELSE prot
  IN
  /\ prot' = AfterFree(p, b)
  /\ allocList' = [allocList EXCEPT ![Allocator(g)] = Erase(@, b)]

\* ~CodeArray. The client has restored what it protects itself.
Destroy(g) ==
  /\ Live(g)
  /\ IF IsAllocType(g)
     THEN /\ ~Protects(g) => MayWrite(view[g])
          /\ \E restored \in Outcomes(Allocator(g), "unprotect") :
               FreeBlock(g, restored)
     ELSE UNCHANGED <<prot, allocList>>
  /\ gen' = [gen EXCEPT ![g] = Absent]
  /\ view' = [view EXCEPT ![g] = "none"]

-----------------------------------------------------------------------------
(* Emission.                                                               *)

Room(g) == gen[g].size < gen[g].maxSize

\* What the client knows after it has emitted: AutoGrow code has to be made
\* ready() before it runs.
Emitted(g) == [view EXCEPT ![g] = IF IsAutoGrow(g) THEN "RW" ELSE @]

\* growMemory: a block of at least twice the size; curMode_ is left alone,
\* and so is everything else when free throws: the new block is lost.
GrowMemory(g, b, freed) ==
  LET old == gen[g].top
      handed == [allocList EXCEPT ![Allocator(g)] = Append(@, b)]
  IN IF freed
     THEN /\ prot' = AfterFree(AfterAlloc(prot, b), old)
          /\ allocList' = [handed EXCEPT ![Allocator(g)] = Erase(@, old)]
          /\ gen' = [gen EXCEPT ![g].top = b,
                                ![g].maxSize = Bigger(gen[g].maxSize),
                                ![g].size = @ + 1]
          /\ view' = Emitted(g)
     ELSE /\ prot' = AfterAlloc(prot, b)
          /\ allocList' = handed
          /\ UNCHANGED <<gen, view>>

\* db: one byte, in a block that the client may write.
Db(g) ==
  /\ Live(g) /\ MayWrite(view[g])
  /\ \/ /\ Room(g)
        /\ gen' = [gen EXCEPT ![g].size = @ + 1]
        /\ view' = Emitted(g)
        /\ UNCHANGED <<prot, allocList>>
     \/ /\ ~Room(g) /\ IsAutoGrow(g) /\ Bigger(gen[g].maxSize) <= MaxSize
        /\ \E b \in Free(Allocator(g)), freed \in Outcomes(Allocator(g), "free") :
             GrowMemory(g, b, freed)

\* Bug: setSize does not look at maxSize_.
SetSizeUnchecked(g, size) ==
  /\ Live(g)
  /\ gen' = [gen EXCEPT ![g].size = size]
  /\ UNCHANGED <<prot, allocList, view>>

\* setSize, for clients that count for themselves.
SetSize(g, size) ==
  /\ Live(g) /\ size <= gen[g].maxSize
  /\ gen' = [gen EXCEPT ![g].size = size]
  /\ UNCHANGED <<prot, allocList, view>>

-----------------------------------------------------------------------------
(* Protection.                                                             *)

Protected(g, mode) ==
  prot' = AfterProtect(prot, gen[g].top, gen[g].maxSize, mode)

\* setProtectMode: curMode_ follows the pages; nothing when mprotect fails.
SetProtectMode(g, mode) ==
  /\ Live(g)
  /\ Protected(g, mode)
  /\ gen' = [gen EXCEPT ![g].curMode = mode]
  /\ view' = [view EXCEPT ![g] = mode]
  /\ UNCHANGED allocList

\* Bug: no call of mprotect when curMode_ is already the mode.
ReadyCached(g, mode) ==
  /\ IsAutoGrow(g) /\ Protects(g)
  /\ IF gen[g].curMode = mode THEN UNCHANGED prot ELSE Protected(g, mode)
  /\ gen' = [gen EXCEPT ![g].curMode = mode]
  /\ view' = [view EXCEPT ![g] = mode]
  /\ UNCHANGED allocList

\* ready(mode), the half that concerns memory: AutoGrow only. Pages that the
\* client protects itself stay as they are.
Ready(g, mode) ==
  /\ IsAutoGrow(g) /\ Protects(g)
  /\ Protected(g, mode)
  /\ gen' = [gen EXCEPT ![g].curMode = mode]
  /\ view' = [view EXCEPT ![g] = mode]
  /\ UNCHANGED allocList

\* reset: read/exec pages become read/write again; if that throws, only the
\* size has been reset.
Reset(g) ==
  LET mine == IsAllocType(g) /\ Protects(g)
      restore == mine /\ gen[g].curMode = "RE"
  IN
  /\ Live(g)
  /\ \E ok \in IF restore THEN Outcomes(Allocator(g), "unprotect") ELSE {TRUE} :
       /\ IF restore /\ ok THEN Protected(g, "RW") ELSE UNCHANGED prot
       /\ gen' = [gen EXCEPT ![g].size = 0,
                             ![g].curMode = IF restore /\ ok THEN "RW" ELSE @]
       /\ view' = [view EXCEPT ![g] =
                     IF mine /\ ok /\ @ = "RE" THEN "RW" ELSE @]
  /\ UNCHANGED allocList

-----------------------------------------------------------------------------
Init ==
  /\ gen = [g \in Gens |-> Absent]
  /\ prot = [b \in Blocks \cup UserBlocks |->
               IF b \in MmapBlocks THEN "none" ELSE "RW"]
  /\ allocList = [a \in Allocators |-> <<>>]
  /\ view = [g \in Gens |-> "none"]

Next ==
  \E g \in Gens :
    \/ \E size \in InitSizes, userPtr \in UserPtrs, a \in Allocators :
         Construct(g, size, userPtr, a)
    \/ Destroy(g)
    \/ Db(g)
    \/ \E size \in 0..MaxSize : SetSize(g, size)
    \/ \E mode \in Modes : SetProtectMode(g, mode) \/ Ready(g, mode)
    \/ Reset(g)

Spec == Init /\ [][Next]_vars

-----------------------------------------------------------------------------
(* Properties.                                                             *)

Addresses == Blocks \cup UserBlocks

\* The type invariant: no generator counts more than its block holds.
TypeOK ==
  /\ gen \in [Gens -> [type : {"NONE", "USER_BUF", "ALLOC_BUF", "AUTO_GROW"},
                       alloc : Allocators \cup {"none"},
                       top : Addresses \cup {"null"}, maxSize : 0..MaxSize,
                       size : 0..MaxSize, curMode : Modes]]
  /\ \A g \in Gens : gen[g].size <= gen[g].maxSize
  /\ prot \in [Addresses -> Modes \cup {"none"}]
  /\ allocList \in [Allocators -> Seq(Blocks)]
  /\ view \in [Gens -> Modes \cup {"none"}]

\* A client that follows the documentation of ready, readyRE, setProtectMode
\* and reset never writes into pages that are not writable and never runs
\* pages that are not executable, whatever has grown, moved or failed
\* between (CodeArray::curMode_ against the pages of top_).
AsPromised ==
  \A g \in Gens : Live(g) /\ gen[g].maxSize > 0 =>
    /\ MayWrite(view[g]) => Writable(gen[g].top)
    /\ MayRun(view[g]) => Executable(gen[g].top)

\* The block of a generator is one its allocator has handed out, once, to
\* nobody else, whichever call threw (CodeArray::growMemory, Allocator::free).
BlocksAreOwned ==
  /\ \A g \in Gens : IsAllocType(g) =>
       gen[g].top \in ToSet(allocList[Allocator(g)])
  /\ \A g, h \in Gens : Live(g) /\ Live(h) /\ g # h => gen[g].top # gen[h].top
  /\ \A a \in Allocators : IsInjective(allocList[a])

\* Nothing stays allocated but the blocks of the generators: not after a
\* constructor that threw, not after growth (CodeArray::CodeArray).
NoLeak ==
  \A a \in Allocators : "free" \notin Fails[a] =>
    \A b \in ToSet(allocList[a]) :
      \E g \in Gens : IsAllocType(g) /\ Allocator(g) = a /\ gen[g].top = b

\* Memory goes back to the heap writable: the next owner may be anybody
\* (CodeArray::~CodeArray).
HeapStaysWritable ==
  \A a \in Allocators \ MmapAllocators : \A b \in Free(a) : Writable(b)

=============================================================================
