# A TLA+ model of xbyak

xbyak is a header-only assembler for x86: a client derives from
`CodeGenerator`, calls one function per instruction, and runs the bytes. What
is hard in it is not the tables of opcodes but what a program does over time:
labels that are referred to before they exist, code that moves while it is
written, objects that outlive each other, calls that throw half-way, the
many ways in which one address or register can be encoded, and a thousand rows of
flags that must fit each other. These
modules model that part, check it with TLC on small instances, and prove the
most important results for every instance with TLAPS.

The library is sequential. It has no threads, tasks or timeouts of its own; a
behaviour is a sequence of calls that the client makes, in an order of the
client's choosing, each of which may throw, after which the client may go on.
A client never has to go on, so its calls have no fairness. A constructor that
runs until it has read enough is another matter: those of `Cpu` and `CpuTopology`
have loops that end where tables and files say so. Their steps are weakly fair
(the thread that runs them waits for nobody), and they end (`Terminates`).

## 1. The system

| Component | State | Operations | Module |
|---|---|---|---|
| Label references: `CodeArray`, the `Label` half of `LabelManager`, `opJmp`, `opJmpAbs`, `opAddr`, `putL_inner`, `ready`, `reset` (xbyak.h) | the buffer `top_`, `maxSize_`, `size_`; `addrInfoList_`, `isCalledCalcJmpAddress_`; `clabelDefList_`, `clabelUndefList_` | emit an instruction with a label, define a label (`L`, `assignL`), `ready`, `reset` | `Linker` |
| `Label` objects: `class Label`, ids and links in `LabelManager` | `Label::id`, `Label::mgr`; `labelId_`, reference counts, `labelPtrList_` | construct, copy, assign, destroy; first use; `L`, `assignL`; `reset` | `LabelHandle` |
| String labels: `SlabelState`, `stateList_` | a stack of tables of defined and undefined names | `L("name")`, `L("@@")`, jumps, `inLocalLabel`, `outLocalLabel`, `ready`, `reset` | `StringLabels`, `ScopedLabels` |
| Code memory: blocks and pages of `CodeArray`, `Allocator`, `MmapAllocator` | `type_`, `top_`, `curMode_`; the protection of the pages; `allocList_` | construct, destroy, grow, `setProtectMode`, `ready`, `reset`, `setSize` | `CodeMemory` |
| `CpuMask` (xbyak_util.h) | `a_`, `n_`, `range_` in one word | `append`, `appendRange`, `clear`, `get`, `size`, `getStr`, `setStr` | `CpuMask`, `IndexSet` |
| Address expressions and operands: `RegExp`, `Address`, `Reg` (xbyak.h) | the terms of a `RegExp` | `operator+`, `operator-`, `optimize`, `verify` | `Operands`, `Encoding` |
| Encoders: `rex`, `rex2`, `vex`, `evex`, `evexLeg`, `setSIB`, `opAddr` and the functions that choose among them | none: functions of their operands | one for each way in which mnemonics call them | `Encoder`, `Processor`, `Encoding` |
| `StackFrame` (xbyak_util.h) | saved registers, stack size | constructor (prolog), `close` (epilog) | `StackFrame` |
| `align`, `nop` | none of their own | | not modelled |
| Mnemonics: `gen/gen_code.cpp`, `gen/gen_avx512.cpp`, which write `xbyak_mnemonic.h` | none: tables of rows | one function per instruction and combination of operands | `MnemonicTable`, `VexTable`, `EvexTable`, `Mnemonics`, `LegacyTable`, `Legacy`, `Instructions` |
| `Cpu` (xbyak_util.h) | `type_`, `numCores_`, `coresSharingDataCache_`, `dataCacheLevels_` | constructor, from cpuid; `getNumCores` | `Cpu` |
| `CpuTopology` (xbyak_util.h) | `logicalCpus_`, `physicalCoreNum_`; the affinity of the thread | constructor, from sysfs or the Windows API | `CpuTopology` |
| Exception-less mode | a sticky error per thread | `SetError`, `ClearError` | not modelled |
| `Profiler`, `Clock`, `Pack`, `xbyak_bin2hex.h` | output, a counter | | not modelled |

How they interact. `CodeGenerator` is a `CodeArray` and owns a `LabelManager`,
which points back at it: defining a label calls `rewrite` on the code or, when
the code moves, `save`; `hasUndefinedLabel` decides whether `ready()` goes on.
`Label` objects belong to the client and hold a pointer to the manager, the
manager holds pointers to them: each end may go first. `growMemory` is called
from `db` and from `opJmp`, in the middle of an instruction, and replaces the
block under everything that was computed from its address. The allocator may
be the client's, and shared by several generators. An instruction passes its
operands through the encoders to `db`; an address with an undefined label goes
through `putL_inner` on the way. `StackFrame` is a client of the generator: it
emits a prolog when it is constructed and an epilog when it is closed. The
generator of mnemonics fixes, per instruction, the flags from which the encoders
choose prefix, opcode map and the unit of a displacement. `CpuTopology` asks a
`Cpu` whether the machine is hybrid and fills a `CpuMask` from each list of
CPUs that it reads.

Hard behaviour, each with its line, is in `hazards` of `PROJECT.json`. The
kinds that occur: calls that fail half-way (a definition that has resolved some
of its references, a `ready()` that has filled in some fields, a constructor
that has its block, a growth that cannot free the old one); stale values
(addresses across a growth, `curMode_`, ids across `reset()`); numeric edges
(8- and 32-bit displacements, the length of an instruction subtracted after a
check); long legal sequences (flips of `@f` and `@b`, scopes, copies of
labels); lists that are read in part; loops that end when a table does. What the program cannot meet, crashes or message loss, is not there.

What makes each component correct:

- references: every reference waits somewhere until it is right; late writes
  stay in their field; after `ready()` everything is right for the final
  address (`NothingLost`, `PatchesHitFields`, `ReadyMeansLinked`);
- label objects: pointers lead to objects that exist, a definition lives as
  long as a label linked to it, two objects are the same label only if one is a
  copy of the other (`LinksAreLive`, `RefCounts`, `NoAliasing`,
  `PlacedLabelsResolve`);
- string labels: a name means one symbol, and the tables never confuse or drop
  symbols (`ImplementsScopedLabels`, `CompleteMeansResolved`);
- memory: every block has one owner, nothing is lost, pages permit what the
  client was told it may do (`BlocksAreOwned`, `NoLeak`, `AsPromised`);
- masks: the two representations list the set of indices that was added
  (`ImplementsIndexSet`, `Increasing`);
- frames: the caller finds its registers and its stack as they were, the client's
  code finds the arguments where it was told (`CallerKeepsItsOwn`,
  `ArgumentsArrive`, `RegistersAreDistinct`, `Alignment`, `HintsAndHalves`);
- encoding: what a processor reads in the bytes is what the client wrote, and
  what is refused could not be written (`ExpressionIsSum`,
  `RefusedIsUnencodable`, `AddressKept`, `OperandsKept`, `ImmediateKept`);
- mnemonics: no two instructions come out as the same bytes, and a displacement
  counts in the size that the instruction's operand has (`OneMeaning`,
  `DisplacementKept`);
- the machine: AVX to AVX-512 are reported only if they may be used, counts and
  caches are those of the machine where its tables say enough, cores and their types too (`FeaturesUsable`,
  `CountsAreTheMachines`, `SharedCachesAreTrue`, `CoresAreTrue`,
  `CoreTypesAreTrue`, `Terminates`).

## 2. Conventions

- Definitions keep the names of the source. `map` in `PROJECT.json` names the
  lines that each one models.
- Definitions with a comment that starts with `Bug:` are no part of a
  specification. Each is what a plausible slip in the code would make of the
  definition that follows it; `mutants` in `PROJECT.json` names the property
  that notices it. They show that the properties say something about the code.
- A case that the code gets wrong, or does not promise, is a constant
  (`Reopen`, `AssignTo`, `FreshAssign`, `StaleReset`, `AnonTooFar`) or
  a conjunct of `Supported`, or in `Encoding` and `Instructions` one of the
  predicates before the properties. The runs named `Claim...` switch one on and find
  the violation; section 5 lists them and the others.
- A call that throws before it has changed anything is a stuttering step.
- History variables are declared apart and named as such.

## 3. The modules

### Linker

State: `buf` is `top_`, `maxSize_`, `size_`; `defs` is `clabelDefList_` (label
to offset), `undef` is `clabelUndefList_` (a set of `JmpLabel`), `info` is
`addrInfoList_` (a set of `AddrInfo`), `isCalled` is
`isCalledCalcJmpAddress_`. The bytes of the code are abstracted to the fields
that a reference occupies: `refs` maps the offset of each to the value its
bytes hold and to what the caller asked for. `err` and `done` tell how the last
call ended.

Actions: `Db` (an instruction without a reference), `Jmp` (`opJmp`, with the
choice of short and near, and growth ahead of a forward jump), `JmpAbs`
(`opJmpAbs`), `PutL` and `AbsRef` (`mov reg, label`, `[label]`, `[reg + label +
d]`, `putL`, all through `putL_inner`), `RipRef` (`[rip + label + d]`), `L` and
`AssignL` (`define_inner`, in any order of the pending references, and stopping
at the first that does not fit), `Ready` (`calcJmpAddress`, which too may stop
half-way), `Reset`. Every action includes what it calls: growth, a failed
allocation, `save`, `rewrite`.

Numbers: addresses are small integers; `Half8` and `Half32` stand for 2^7 and
2^31, and `Wrap` stores a value in a field of their width.

`ReadyMeansLinked` is the point: when `ready()` returns normally, every
supported reference holds the value that makes the processor compute what the
caller wrote. It is not inductive; `NothingLost` says where each field waits
until then, `PatchesHitFields` that no late write can damage another.
`FailedDefinitionIsFinal` states what happens to references that a failed
definition leaves behind: they stay pending, so `ready()` keeps refusing.

### LabelHandle

Takes over what `Linker` simplifies: there a label is its id, here `Label`
objects come and go. `id`, `mgr`, `ptrs`, `labelId`, `defs` are the fields of
`Label` and `LabelManager`; code is a sequence of jumps. `fam` (which label an
object stands for) and `place` (where the client put each label) are history: `NoAliasing`
and `PlacedLabelsResolve` compare the ids with them. `place` belongs to the label
and not to an object, so that a jump through any copy is held to it, a copy made
before `L`, which is not linked, included. The definition goes with the last linked
object, and such a copy then means nothing: `PlacesWithout` takes the label out of
`place` at that moment, and what is jumped to through the copy afterwards, which
waits for ever, is what `PlacedLabelsResolve` does not speak of (section 5). Actions: `Construct`, `Copy`, `Assign`, `Destroy`,
`Jmp`, `JmpThrows`, `L`, `NewL`, `AssignL`, `Reset`; the last is also
the destruction of the generator and the construction of the next, since the
manager's destructor does to labels what its `reset` does.

### StringLabels and ScopedLabels

`ScopedLabels` is the abstract specification, written in terms of symbols: a
global name is one, a local name one per scope, every `L("@@")` a new one. A
jump goes where its symbol is put. `StringLabels` has what the code has: a
stack of tables flattened to keys `<<level, name>>`, and two names, `@f` and
`@b`, one of which is renamed at each `L("@@")`. It carries the variables of
`ScopedLabels` that it has no other use for as history and implements it step
by step, thrown errors included (`ImplementsScopedLabels`). `L("@@")` that throws is
the exception (`AnonTooFar`): it has flipped the names and leaves references
under the old one; then only `CompleteMeansResolved` is claimed.

### CodeMemory

The other half of growth and `ready()`: blocks, who owns them, and what their
pages permit. A record per generator holds `type_`, `top_`, `maxSize_`,
`size_`, `curMode_`; `prot` is what `mprotect` did last to each block;
`allocList` is `allocList_`, from which `free` removes an entry by moving the last
one into its place. Each generator is given one of the `Allocators`:
`MmapAllocators` map fresh pages and unmap them, the others are the heap, whose
pages come and go as they are and may be shared (`BlocksOf`). `UseProtect` is
`Allocator::useProtect`. `Fails` names the system calls that may fail on an
allocator's blocks: `protect`, `unprotect` (to read/write), `free` (`munmap`).
`view` is history: what the documentation lets the client do at the moment.
AutoGrow code that has been added to is only known to be writable, until the next
`ready()`. A client writes only where it may, and restores pages itself when
its allocator says `useProtect() == false`. The bytes, the labels and the
linking half of `ready` and `reset` are in `Linker`; both modules have the same
`size_`, `maxSize_` and growth.

### CpuMask and IndexSet

`CpuMask` is the compact representation, with the elements as integers;
`IndexSet` is the `std::set` variant of the same class, which the compact one
implements as long as it accepts. `AddItem` adds one item of a list, `SetStr` a
whole list; `Before` and `Get` are the iterator. `MaskSpec` is a mask that is
filled by any calls; `CpuTopology` fills masks as the library does, and `Client`
there as a program may that follows `MayAsk`. Runs check the mask inside
`CpuTopology`; the proofs are about both.

### StackFrame

`req` is the arguments of a `StackFrame` constructor, together with the calling
convention; `sf` is the object that it makes: saved registers, parameters,
temporaries, sizes. `Frame(req)` computes them as the constructor does; `Prolog`
and `Epilog` are the instructions that it and `close` emit. `m` is a machine
that runs them, with registers, xmm registers and a stack of words that hold
where their value came from; `phase` is where the call stands. Actions: `Call`
(any request that is accepted, from a caller with `rsp` 8 modulo 16), `Enter`
(the prolog), `Work` (the client writes all that is its own), `Close` (the
epilog), `Return`. `push2` and `pop2` fault when the stack is not aligned to 16;
`pushp` and `popp` are hints that must balance.

### Operands, Encoder, Processor and Encoding

`Operands` and `Encoder` translate the library. An instruction is a record:
the fields of its prefix, of ModRM and SIB, the displacement, the immediate.
Every function of the library that writes such fields is an operator that
returns them (`OpRR`, `OpMR`, `OpROO`, `OpRext`, `OpVex`, `SetSIB` ...), with an
operator named `...Ok` for the calls that do not throw. `Processor` says how the
fields are read, after the manuals of the processors; it knows an instruction by
what a processor sees, not by the calls that made it.

`Encoding` is a client: `expr` is a `RegExp` under construction, `i` the last
instruction; `sum` and `want` are history, what the client wrote. Actions:
`Start`, `Extend`, `Subtract` build an expression from terms in any order, with
the new term on either side; `LegacyM`, `LegacyR` (legacy instructions with
memory or registers), `VectorM`, `VectorR` (VEX and EVEX), `ThreeM`, `ThreeR`,
`VexGp` (APX forms and BMI), `ArithImm`, `TestImm`, `Arith3Imm`, `ImulImm`,
`Shift`, `Shxd`, `MovImmReg`, `MovImmMem` (immediates), `MovMoffs`, `Push` emit an
instruction; `Continue` goes on to the next. Each stands for the mnemonics that
call the encoder that way, with one of them as an example. A refused instruction
has no successor state: a client must drop what it has written of it.
Clients give the three operands of an APX form equal widths, which the code does
not check.

### The tables, Mnemonics, Legacy and Instructions

`VexTable`, `EvexTable` and `LegacyTable` are the tables of `gen_code.cpp` and
`gen_avx512.cpp`, one operator per table or function that prints mnemonics, with
its rows: name, flags, opcode, form. `LegacyTable` has MMX, SSE, x87 and the
general registers with their APX forms, and the instructions that `xbyak.h`
writes by hand. `MnemonicTable` has what they share: how a row is made and what
the generator adds to its flags (`Both`, `Encodings`, `Orders`). A form names the
operands that the printed function takes; `Forms` in `Mnemonics` and
`LegacyForms` in `Legacy` give each its widths, what becomes the reg field, vvvv and
ModRM, and `LegacyForms` the function of `CodeGenerator` that is called.
`Assembled` and `LegacyAssembled` are the instruction that comes out, by the
operators of `Encoder`: `OpVex` for the first, `OpRR`, `OpMR`, `OpRext` and `OpROO`
for the second, with the few that write bytes of their own (`opLoadSeg`, `opFpuMem`,
`opFpuFpu`, prefixes in front of an instruction).

`Instructions` puts them together. `Assemble` takes any row, any operands its form
allows, from registers 0 to 15 or 16 to 31, memory, and memory with broadcast.
`Pattern` is what a decoder knows an instruction by: encoding, prefix, map, opcode,
and the parts of ModRM and of an APX prefix that are no operand (`Any` where they
are one); `Known` is the table of all patterns, and `OneMeaning` says that
patterns that overlap have one name, up to `Synonyms`, one kind of operands and
one immediate. `MemoryBytes` is what an instruction reads, by the manuals.

### Cpu

`machine` is the computer: its vendor, the bits of cpuid, what the operating
system saves (XCR0), how many cores and threads it has, its caches. The first part
of the module says what the leaves of cpuid show of it, which is often not what
they are asked for: Intel counts identifiers, of which there are a power of two,
AMD counts threads, leaf 0Bh may be absent or zeroed. The actions are the
constructor in its order: `DetectVendor` ... `DetectLate` for the features,
`SetNumCores`, then `ReadCache` for each subleaf until `EndCaches`, or
`LegacyCaches`. A division by zero would be an error of TLC. `CpuAssumption` is what
holds of the machines that the tables describe: a cache belongs to whole cores,
one of the first level to a single core, and an AMD machine without leaf 8000001Dh
has cores of one thread and an L3, if any, of all of them.

`CountsAreTheMachines` says how good the counts are. Where the leaves say enough
(`Exact`) cores and threads are right, and so are the sharers of each cache, up to
the identifiers that Intel shows: a cache of three cores counts as one of four,
unless those are all. With leaves 1 and 4 alone (`Bounded`) cores too lie between
what the machine has and what it shows. Of other machines it says that caches come
in order and no count is zero, nothing of the values; section 5 has what those are.
`FeaturesUsable` covers AVX, FMA, AVX2 and the AVX-512 family, whose registers the
constructor asks for; what it reports without asking is in section 5 too.

### CpuTopology

Extends `Cpu` and `CpuMask`: `m` is the mask being filled,
`todo` what is left of the list. On Linux `ReadCoreId` and, per cache, `OpenShared`,
`ReadItem` for each item, `EndShared`; then on a hybrid machine `OpenTypes`,
`ReadItem`, `EndTypes` for the lists of P- and E-cores and, if one is missing,
`Pin` for each CPU and `Unpin`. On Windows `ReadCore` for each core and
`OpenEntry`, `ReadItem`, `EndEntry` for each cache, any query failing
(`QueryFails`). Elsewhere the constructor fails. `machine` has what the system shows: CPUs
that are online, cores, caches, which files are there, where the thread may run,
and whether the library was built to throw. `CpuTopologyAssumption` is what holds
of every such system: the CPUs that share a cache all show the same list, and each
shows itself in it. Of Windows it says more, for the code relies on more: a cache
has a type, a core is of one kind, and the processors of a group are the first bits of
its mask.

### Proof modules

`LinkerProofs`, `LabelHandleProofs`, `StringLabelsProofs`, `CodeMemoryProofs`,
`CpuMaskProofs`, `CpuProofs` (of `CpuTopology` and the `Cpu` in it; it extends
`CpuMaskProofs`), `StackFrameProofs` and `EncodingProofs`, one for each of the
components they extend. `LinkerClaims` states what documentation and comments say
and the code does not do. `MC...` modules give TLC symmetry sets
and functions as constants, nothing else.

## 4. The passing runs

| Run | Instance | Properties | Shows |
|---|---|---|---|
| `LinkerFixed` | fixed buffer of 24 units, 2 labels, one also given by `assignL`, 2 references, displacements 0 and 5, immediates 0 and 1 byte | `ReadyMeansLinked`, `IInv`, `FailedDefinitionIsFinal` | every kind of reference, in every order with definitions, errors and resets, is resolved or waits |
| `LinkerGrow` | AutoGrow from 16 units, `assignL` of both labels, blocks at 100 and 200, allocation may fail beyond 64 | `ReadyMeansLinked`, `NothingLost`, `PatchesHitFields` | moves in the middle of instructions; `ready()` that fails half-way and is called again |
| `LabelHandle` | 3 `Label` objects, ids up to 3, 2 jumps, one reset | `LinksAreLive`, `RefCounts`, `NoAliasing`, `PlacedLabelsResolve`, `IInv` | pointers, counts and identities in every order; a jump through any copy goes where the label was put while a linked object lives |
| `StringLabels` | a global and a local name, a nested scope, `@@` twice, 2 units of code, short jumps that reach 0 units | `AnonAlternates`, `ImplementsScopedLabels` | `@f`/`@b` alternate; refinement of `ScopedLabels`, errors included |
| `StringLabelsFail` | a local name, a nested scope, 3 units, `@@` up to the third, failures of `L("@@")` | `CompleteMeansResolved` | complete code is right after any failure |
| `CodeMemory` | 2 generators, each over mmap (3 blocks, every call may fail), heap, or a heap whose protection is left to the client (the same 2 blocks) | `AsPromised`, `BlocksAreOwned`, `NoLeak`, `HeapStaysWritable` | ownership and protection; no leak; memory goes back writable |
| `StackFrame` | both calling conventions, 0 to 4 parameters, 0 to 14 temporaries with and without `rcx`, `rdx`, `rbp`, `push2`, `pushp`, reserved registers, 0 or 20 bytes of stack, four uses of vector registers | `CallerKeepsItsOwn`, `ArgumentsArrive`, `RegistersAreDistinct`, `Alignment`, `HintsAndHalves` | a call of the function is right for every request |
| `Encoding` | sums of 10 register terms, displacements, pointers, labels and rip; 10 general and 5 vector registers; 6 immediates; every row of the tables with every kind of operand | `ExpressionIsSum`, `RefusedIsUnencodable`, `AddressKept`, `OperandsKept`, `ImmediateKept`, `OneMeaning`, `DisplacementKept` | the processor reads what the client wrote, and only that |
| `CpuTopology` | 4,077 machines: sets of features under three kinds of XCR0; Intel, AMD and others with 1, 2, 3, 4 and 6 cores, all leaves, an L2 of one, some or all cores; Linux with 8 CPUs of which any may be offline; hybrid machines with lists missing; Windows with two groups; a program with a mask of its own. Masks of 4 elements of 3 bits | `FeaturesUsable`, `CountsAreTheMachines`, `SharedCachesAreTrue`, `CoresAreTrue`, `CoreTypesAreTrue`, `Increasing`, `RefusedOnlyWhenFull`, `RoundTrip`, `ImplementsIndexSet`, `Terminates` | AVX to AVX-512, caches, cores and types are true of the machine, counts where the tables say enough; masks keep the set, constructors end |

Why the bounds are enough. `Linker`: `Half8` is 8, so that both results of the
8-bit check occur within 20 units of code, and an instruction of 7 units and a jump
straddle it; `Half32` is 18 in a fixed buffer, so that the 32-bit checks of
definitions fail too within `CodeLimit`, the 20 units after which nothing is
emitted, and 150 in AutoGrow code, where the distance between
blocks and outside addresses passes it and distances inside the code do not;
16 units are less than growth ahead needs, so that every emission can move the
code; two labels are enough for every property that relates a reference to
another label, and two references for a definition that resolves one and fails
at the other. `LabelHandle`: a third object is needed for a copy that
outlives both others, a second epoch for stale ids; ids beyond the number of
objects are those of labels that are gone. `StringLabels`: two `@@` use both names and a jump to a third waits under the name of
the first; three levels are the global one and two local ones, so that a scope is
left into another; two jumps wait in different tables. The results are also proved.
`CodeMemory`: two generators and three blocks leave a free block beside two
that are taken, and two heap blocks pass between an owner that restores protection
and one that has to be told; sizes 1 and 2 give a growth, of a protected block too.
`CpuTopology`: four elements of a mask are two intervals, the smallest mask in
which an interval is refused after another; 8 CPUs have lists of one to four
intervals, on both sides of what such a mask holds, and are the largest index of
3 bits; core counts lie on and between powers of two; four data caches are one
more than `MaxCaches`; a machine with a hole in the CPUs that are online has CPUs beyond
their number.
`StackFrame`: the numbers of temporaries lie on both sides of each end of the
register table, with parity of the saved registers both even and odd; 20 bytes
are no multiple of 16; xmm registers are none, volatile ones, and some or all of
those that Windows saves. `Encoding`: `Half32` is 2^20
and `Half64` 2^27, so that TLC's integers hold sums of addresses, with the limits
of 8, 16 and 32 bits kept apart; registers have the numbers 4, 5, 12, 13, 20 and
21, whose low bits mean no base, no index or SIB, and some others; each limit of
a displacement (8 bits, 8 bits times N, 32 bits) and of an immediate has values
on both sides, of both signs. The rows of the tables are all there are; a
displacement of 64 is a multiple of every size of operand and fits 8 bits
after and before the division.

Generators, labels and blocks are interchangeable where a configuration
declares `SYMMETRY`; no such run checks a temporal property. Deadlock is
checked everywhere but in `CpuTopology`, where the constructors end; where an
exception that leaves `~CodeArray` ends the program, `CodeMemory` stutters.

Fairness: `CpuTopology` alone states it, `WF_vars(Construct)`: the thread that
runs the constructors takes its next step if there is one. It calls nothing that
waits for another thread. `Client` has none.

## 5. Where code and documentation disagree

Each of these is a run that TLC finds violated, and an entry of `findings` with
the lines.

| Run | The code |
|---|---|
| `ClaimAssign` | a pending absolute reference of a fixed buffer is filled with the current position when `assignL` gives its label another |
| `ClaimSharedCaches` | the list of the CPUs that share a cache is cut off at an interval that follows a single index, as in "0,3-4", and nobody looks at the result (xbyak_util.h:1660) |
| `ClaimVp2intersect` | `vp2intersectd` and `vp2intersectq` of registers 0 to 15 come out as the same bytes, of a VEX form that does not exist (gen_avx512.cpp:960) |

The models contain more of the kind, for which no run is kept. Each can be had
by changing what is named, and is why the specification or the property
excludes it.

| Behaviour of the code | Where it shows |
|---|---|
| AutoGrow: `[reg + label + imm]` loses `imm` when the label is already defined (xbyak.h:2086) | `Linker`: `Disps`, excluded by `Supported` |
| `[label]` with a trailing immediate is moved by the size of the immediate, as only a rip-relative operand should be (xbyak.h:2723) | `Linker`: absolute references with `imm > 0`, excluded by `Supported` |
| AutoGrow: what is emitted after the first `ready()` is not filled in by the second (xbyak.h:1754) | `Linker`, `Reopen = TRUE`, excluded by `Supported` |
| `opJmpAbs` checks the distance before the length of the instruction is subtracted: a target just inside the limit is missed by 2^32 (xbyak.h:2826) | `Linker`: `Exts` near `Half32`, excluded by `Supported` |
| `assignL` to a label never used defines id 0; the label gets another id at its next use, and a jump to it stays undefined (xbyak.h:2272; the comment at 3556 requires only that dst is not used by `L()`) | `LabelHandle`, `FreshAssign = TRUE`: `PlacedLabelsResolve` |
| a label first used by `assignL` leaves its pointer in `labelPtrList_` when it is destroyed (xbyak.h:2339) | `LabelHandle`, `FreshAssign = TRUE`: `LinksAreLive` |
| a copy made before `L` is not linked: after `jmp(a); b = a; L(a);` the end of `a` takes the definition along, and `jmp(b)` waits for ever (xbyak.h:2326, 2186) | `LabelHandle`: `PlacesWithout`, outside `PlacedLabelsResolve`, which fails when `Destroy` leaves `place` alone |
| a label used, never defined, and kept over `reset()` shares its id with another afterwards (xbyak.h:2223) | `LabelHandle`, `StaleReset = TRUE`: `NoAliasing` |
| `CpuMask`: intervals are accepted in any order and overlapping: "4-5,1-2" lists 4, 5, 1, 2, where a test expects "2,1" to be refused (xbyak_util.h:1047, test/cpumask_test.cpp:77) | `CpuMask`: `AppendRange` without `MayAsk`: `Increasing` |
| `CpuMask`: an interval after a single value is refused, whatever room there is (xbyak_util.h:1047) | `CpuMask`: the client of `MayAsk` does not ask for it |
| `CpuMask`: the two smallest indices decide the layout for good, so that a set is refused that the other layout would hold: 6 after 1, 3, 4, 5 with four elements, where two intervals would do (xbyak_util.h:1019) | `CpuMask`: `AsIntervals` in `RefusedOnlyWhenFull` |
| `CpuMask`: adjacent values are stored where a comment excludes them (xbyak_util.h:917) | `CpuMask`: 1, 3, 4 |
| `StackFrame`: `rsp` is aligned to 16 in the client's code only when there is a local stack or a saved xmm register (doc/usage.md:640 says it is) | `StackFrame`: the premise of `Alignment` |
| `ah`, `ch`, `dh`, `bh` beside a register that needs a prefix, as in `movzx(rax, ah)`, are written as `spl` and so on (xbyak.h:2749, 2760) | `Encoding`: `HighByteLost` |
| an address of 64 bits is dropped by vex, evex and APX instructions: `opAddr` writes neither ModRM nor address (xbyak.h:2842) | `Encoding`: `Truncated` |
| an APX instruction with a 32-bit address has no 67 prefix (xbyak.h:2912) | `Encoding`: `ShortAddress` |
| a VEX gather with an index of 16 or more loses bit 4 (xbyak.h:2542, 3187) | `Encoding`: `WideIndex` |
| a shift with a new destination and an immediate, of `[rip + pointer]`, is off by one: `opRext` does not pass the size of the immediate on (xbyak.h:2938) | `Encoding`: `ShiftRip` |
| `push` and `pop` of `r16w`, `r16d` and so on move 64 bits (xbyak.h:3058) | `Encoding`: `PushWide` |
| a displacement of -2^31 alone is taken for an address of 64 bits (xbyak.h:1953) | `Encoding`: `AddressMode` |
| of a mask on the address and another on the register, one is dropped silently (xbyak.h:3177) | `Encoding`: `MemAttrs` with both |
| `vpermq(ymm, ymm, ymm)` is written as the VEX form of `vpermd`, which is what its row asks for (gen_code.cpp:1524) | `Instructions`: `NoSuchForm` |
| `vmovhps` and `vmovlps` with two registers give `vmovlhps` and `vmovhlps`, though they are moves from memory (gen_code.cpp:1586) | `Instructions`: `NoSuchForm` |
| the sizes of the operands of `vcvt(t)ss2si` and `vcvt(t)sd2si` are swapped: with a base of 16 or more the displacement is half or twice what was written (gen_code.cpp:1764, 1963) | `Instructions`: `SizesSwapped` |
| `pextrd` and `pinsrd` with a register of 64 bits are written as `pextrq` and `pinsrq` (xbyak.h:2396) | `Instructions`: `NoSuchForm` |
| `fcmovb(st1, st0)`, `fcomi(st1, st0)` and ten others are not refused, though test/make_nm.cpp:1275 knows them with st0 first only, and come out as instructions of the general registers: the code that should be none is 0x00C0 (gen_code.cpp:1248) | `Instructions`: `NoSuchForm` |
| `lss`, `lfs` and `lgs` with a base of r16 to r31 have 0F after REX2, which stands for it (xbyak.h:2763) | `Legacy`: `Shifted` |
| `jmp(qword[...])` and `call(qword[...])` are refused, where `dword` is accepted and jumps by 64 bits (xbyak.h:2830) | `LegacyForms`: `near` |
| `lea(ax, qword[rcx])` has no 66 prefix; a `cmov`, `bt`, `bsf` or `imul` of an 8-bit register with memory is one of 32 bits; `push(es)` and the like are written in 64-bit code, where they do not exist | rows of `LegacyTable` |
| rows with flags that their instruction does not have: `vcmpsd`, `vcmpss`, `vfixupimmsd`, `vfixupimmss` and `vnni` with the SAE of a full vector, `vmpsadbw` with a broadcast; `valignd` and `valignq` without theirs; `vscalefbf16` twice; `vfpclassbf16` takes an address of any size | rows of `VexTable`, `EvexTable` |
| features that need vector or tile registers and are reported whatever the system saves: VAES, VPCLMULQDQ, GFNI, F16C, AVX_VNNI, AVX_IFMA, SHA512, SM3, SM4, AVX10, APX, AMX (xbyak_util.h:669, 710) | `Cpu`: `Leaf7`, `Leaf7Sub1`, not in `FeaturesUsable` |
| leaf 7 and leaf 4 are read without a look at the highest leaf where AVX-512 and the caches of Intel are (xbyak_util.h:687, 398); `KEYLOCKER_WIDE` is set by any of three bits, itself not among them (777) | `Cpu`: `Vector`, `ReadCache`, `DetectLate` |
| an Intel machine with one hyper-threaded core and no leaf 0Bh has two cores (xbyak_util.h:303) | `Cpu`: `Bounded` |
| leaf 0Bh with its level of cores zeroed gives one core on any machine (xbyak_util.h:250); Intel without leaf 0Bh and leaf 4 counts every thread as a core (xbyak_util.h:306), so does AMD without 80000008h, and two at least (282); AMD with more threads than cores and without 8000001Eh takes threads for cores (279) | `Cpu`: machines that are neither `Exact` nor `Bounded` |
| `getNumCores(CoreLevel)` divides by zero for a vendor other than Intel and AMD, for which `src/sample/test_util.cpp:162` calls it (xbyak_util.h:433) | `Cpu`: `KnownVendor` in `CountsAreTheMachines` |
| on Linux the CPUs 0 to n - 1 are described when n are online, whatever their numbers (xbyak_util.h:1577); the number of cores is the largest core_id plus one (1707) | `CpuTopology`: `Described`, `dense` |
| a list of P-cores with more single indices than a mask holds throws out of the constructor, though each CPU could be asked instead (xbyak_util.h:1042, 1692) | `CpuTopology`: `ReadItem`, `machine.throws` |
| an immediate too wide for an 8-bit operand is cut off (xbyak.h:3008) | `Encoding`: `ImmediateKept` compares modulo the width of the operand |

A further behaviour
that no text contradicts: `growMemory` keeps `curMode_`, so that after `ready()`
and growth it names a mode the new block does not have. `AsPromised` shows that this is
harmless: the stale value only ever makes `reset()` restore more than needed,
and `ready()` always calls `mprotect`.

## 6. The proofs

TLAPS checks every step with Z3, Zenon and, for temporal steps, LS4. All
theorems hold for every value of the constants that the assumption of the module
allows (`LinkerAssumption`, `LabelHandleAssumption`, `StringLabelsAssumption`,
`CodeMemoryAssumption`, `CpuMaskAssumption`, `CpuAssumption`,
`CpuTopologyAssumption`, `StackFrameAssumption`, `OperandsAssumption`,
`EncodingAssumption`; TLC evaluates those of a module in its run).

What a recursive function computes is proved by its least wrong argument: if the
sums of a mask, or the masks that a list is read into, were not as claimed, there
would be a first index where they are not (`Least`, from the well-founded
induction of the library), and the step before it says otherwise.

`LinkerProofs`: `IInv` is inductive. It is `TypeOK`, `Bookkeeping`,
`PatchesHitFields` and `NothingLost`. `ReadyMeansLinked` alone says nothing of
the states before `ready()`; `NothingLost` is the strengthening that does, for it
says of each field which list will fill it, with which value, for every address
the block may still get (`SavedKeeps`, `AccountedKeeps`). `Bookkeeping` relates
the flags: after a `ready()` that has been through the list nothing is
pending. `PatchesHitFields` is needed because `rewrite` goes by offset: two
entries for one offset, or a field across another, would break what is
already right. The lemmas about `GrowMemory`, `Emit` and `Reserve` say that
emission only extends the buffer; each action then has one step per
conjunct. From `IInv` follow the theorems `TypeCorrect`, `References`, `Patches`,
`Linked` and the action property `FailedDefinition`.

`LabelHandleProofs`: `IInv` adds `Identity`, which ties the id of an object to
`fam`, and `Standing`, which says that the definition of every label in `place`
is there for each object that stands for it; with the first the counts are
equations about the set `Linked(i)`, and the facts about cardinalities come from
`FiniteSetTheorems`. The theorems assume `~FreshAssign` and `~StaleReset`: with
either of them true the properties are false (section 5).

`StringLabelsProofs`: `Stands(key)` is the symbol that a key of the tables
stands for at present; `IInv` says that tables and symbols agree under it. The heart
is the lemma that `Stands` is injective: open scopes are distinct, and of `@f`
and `@b` one is the last `@@` and the other the next. At `L("@@")` the two
exchange their meanings, while what is filed under the new `@b` moves along. `Refinement` maps the initial state and every action to
`ScopedLabels`. Assumed: `~AnonTooFar`.

`CodeMemoryProofs`: the four properties of the run are not inductive together.
`IInv` adds `Lists` (no block is in two lists, none twice), `Kinds` (a
generator's type says where its block is from, and `curMode_` says RE exactly when
the client may only run the code) and `Unchangeable` (a call of `mprotect` for no
bytes changes nothing, so such a block of the heap stays writable). A block joins
a list, leaves it or replaces another (`AppendBlock`, `EraseBlock`, `ReplaceBlock`);
a step keeps each generator's block, moves one generator, or loses it
(`KeepsInv`, `MovesInv`, `LosesInv`), and every action is one of these.
Theorems: `TypeCorrect`, `PagesAsPromised`, `Ownership`, `NothingLeaks`,
`HeapIsWritable`, for any number of generators and allocators and any set of
calls that may fail.

`CpuMaskProofs`: `WellFormed` says how the elements lie (increasing values, or
intervals in order that do not touch), and `Covered` which indices that is. The
iterator goes over the places of all intervals (`PlacesOfIntervals`) in increasing
order, and what it meets is `Covered` (`ElementsAreCovered`, `IteratorIncreases`).
Each call adds to `Covered` what it was given or leaves the mask alone
(`AppendAdds`, `AppendRangeAdds`), which is the step of `IndexSet`: theorem
`MaskIsIndexSet`. A refused call leads back from the layout to a count of runs and
gaps (`FullOfIntervals`, `FullOfValues`): an index is only refused when the layout
of the mask cannot hold what would be there with it. Which layout that is follows
from the set (`LayoutOfSet`); the other may have room. For `RoundTrip`, reading the first `k` items
of `GetStr` gives the first `k` parts of the mask (`ValuesAreRead`, `IntervalsAreRead`,
`SetStrFollows`).

`CpuProofs`: `Usable` (of AVX, FMA, AVX2 and AVX-512) needs `InOrderFound`: the features that others build on are
found by parts of the constructor that run before those others, and each part
adds only its own. `AffinityIsRestored` needs `Moved`: while the thread is on
another CPU no list is read, so nothing there can throw. Both hold for every
machine, also one that contradicts itself.

The results about masks go over to the masks of `CpuTopology` through `ListInv`:
the list in `todo` is in order (`ItemsFacts`: the runs of a set, in order, have
gaps between them), so each item that is added is one that `MayAsk` allows. The
theorems are `MasksIncrease`, `MasksRefuseOnlyWhenFull`, `MasksAreReadBack` and the
refinement `ListsAreIndexSets`, which also hold for `Client`. `Reading` says that
the mask and what is left of the list make up the list that was opened, and
`FittingIsRead` that nothing of a list that fits a mask is refused.

`TopologyInv` says what the table of CPUs holds in the middle of the loops, and
gives `CachesAreThoseOfTheMachine`, `TypesAreThoseOfTheMachine` and
`CoresAreThoseOfTheMachine`. It is `ListInv` and `Table` (its size and types) with
`LinuxCores`, `LinuxTypes` and `LinuxCaches`, `WindowsCores` and `WindowsCaches`, each of
the form: what the loop has passed is as the machine has it. Types are right
because a CPU is only named by the list of its kind or by the CPU itself. On
Windows the index of a processor is its rank among those that are online, which
follows from the groups being filled from their first bit (`IndexIsRank`); then
cores and caches come in the order of their first processors, and no two records
write the same entry. From it follow the numbers of cores (`LinuxCoresAreTrue`,
`WindowsCoresAreTrue`).

`CountsAreThoseOfTheMachine` is about values only where `Exact` or `Bounded` holds.
It rests on `CpuCounts`: the features name the vendor of
the machine (`VendorFound`), by which the code chooses its leaves; what
`SetNumCores` deduces is exact or bounded by case of those leaves (`CountsFound`,
from `LeafBCounts` and `Leaf1Counts`); and the loop over caches has met the first
data caches of the machine in their order, each with a number in its bounds
(`InLoop`, `Told`). The order needs that the passed subleaves are just those up to the
last cache counted (`NextIsMet`); the bounds need of Intel that a power of two is
divided by the threads of a core (`PowerDoubles`), and of AMD that the first entry,
recorded in threads and corrected when the loop ends, is that of one core
(`AmdIsTold`, `FirstIsOfCore`).

`StackFrameProofs`: all five properties hold for every request, that is for any
numbers of temporaries, any size of stack and any declared use of vector
registers. The code that is emitted has no fixed length, so what a loop
does is proved by induction over its steps: `UpTo`, again from a least
counterexample, applied to what `Run` computes (`RunSteps`), with `RunConcat` to
put the parts of prolog and epilog together. A part of the proof is about the
registers: `Registers` skips entries and keeps the order, `Placed` says which
entry each comes from, and since at most `useNum` entries are skipped
(`SkippedAreReserved`) the last register handed out lies no farther in the table
than `pNum + tNum + useNum`, which is how far `baseSaveNum` saves (`RegIsFree`,
`SaveRegsAre`, `MineIsSaved`). The other part is the inductive invariant
`FrameIs /\ StagesAre`: at `called` nothing is `Pushed`; the loop pushes register
after register (`PushNext`, `PushTwo`, where the parity of the index gives the
alignment); the frame is `Framed` with the xmm registers stored above the local
stack, `Sizes` says that they fit and are aligned; parameters are `Moved`, and since
no substitute is a target the order of the moves is of no account; then the
machine is `Entered`, after the client's code `Worked`, and in the epilog `Loaded`
and `Popped` until nothing is left. `CallerIsUntouched`, `ArgumentsAreThere`,
`StackIsAligned` and `HintsMatch` can be read off the stages.

`EncodingProofs`: `SumIsKept` says of every set of registers, scales and
displacements, and of sums of any length, what `ExpressionIsSum` checks of three terms.
An expression stands for a linear form, `Coef`; the lemmas are about linear
forms (`AddBase`, `AddIndex`, `LinearSwap`, `NoIndex`) and about where `operator+`
puts the registers of its two sides (`PlusRegs`). `RefusalsAreJustified` needs more
than the form: `Shape` says which of the forms that stand for a sum
`operator+` leaves in the expression (a register alone is the base unless it is
scaled or a vector; `esp` is never the index), and `IInv` adds it to `ExpressionIsSum`.
Then what `verify` or `operator+` refuses has two registers too many, a scale that no
encoding has, or `esp` scaled.

`ImmediatesAreKept`, `AddressesAreKept` and `OperandsAreKept` are about single
instructions: what `ImmKept`, `AddrKept` and `OpsKept` say of an instruction and a
history, each action makes true of what it emits. The immediates need arithmetic on words (`Half32` and
`Half64` are multiples of the narrower limits, `Half32Is`, `Half64Is`): cutting a number to a
width and reading it back with its sign, or without, gives the number again within
the limits that `GetImmBit`, `opOI` and `mov_imm` test. The addresses come in
layers. For each prefix a lemma says which bits of the index and base it holds
(`Reaches`, for `RexM`, `Vex`, `Evex`, `EvexLeg`); for `SetSIB` and `OpAddr` lemmas
say what mod, rm, SIB and the displacement are read as, given those bits
(`Suits`: the address size, the unit of an 8-bit displacement, the width of a vector
index); `AddressIs` joins the two, and for each of the ways in which mnemonics
call the encoder (`OpMR`, `OpROO`, `OpRext`, `OpVex` with VEX and with EVEX, `mov`
with an address of 64 bits) one lemma says that its instruction `Suits` its address.
`TupleIs` shows that the N that `evex` divides by is the one by which the
processor multiplies. The operands come in the same layers, for general registers
and for vector registers apart. That the number of a register is put together again
from ModRM and the prefix is `NumberIs`; `Formed` says it of what `OpMR`, `OpRR`,
`OpROO` and `OpRext` write, `VexFormed` of vex, `VexVec` and `EvexVec` of the prefixes
of vector instructions. The widths that the processor takes from W, the 66 prefix, L
and the opcode are in `LegacySizes`, `SizedRead`, `VexGpSized` and `EvexLength`, and
what the fields a, z and b mean is in `CleanReads`, `VexReadBack`, `EvexReadMem` and
`EvexReadReg`: b is a broadcast with memory and a rounding with registers, where L
no longer is a length (`RoundsAre`). `GeneralOps` and `VectorOps` conclude. Assumed (`EncodingAssumption`, `OperandsAssumption`): the
registers are those of the processor, no scale of a term is 0, for such a term is
dropped, and the limits are multiples of each other as the powers of two are.

Only model-checked: `Instructions`, whose tables are data, `StringLabelsFail`, and
the violations. Out of the provers' reach: liveness under fairness (`Terminates`) and
enabledness.

## 7. Not modelled, and why

- names that fix the immediate of another instruction (`cmpeqps`, `vcmpeqps`,
  `pclmullqlqdq`), instructions of 32-bit code alone, `nop` of several bytes;
- what a mnemonic checks before it calls the encoder, unless a form depends on it:
  the widths of registers are those of the form;
- the bytes of an instruction in `Linker`, where opcode, ModRM and prefixes are
  sizes; `Encoding` has their fields, not their layout;
- in `Encoding`, x87, MMX, `lea` and segment registers, of which `Instructions` has
  the rows; the NF and ZU flags that a client sets on an APX instruction; the 32-bit
  build;
- `setSize` and `rewrite` called by a client under pending references, and
  `Label::clear`: nothing is promised about them;
- memfd, the Windows and macOS variants of allocation: the same protocol with
  other calls;
- the build without exceptions: a refused call sets a sticky error and returns, and
  every caller inside the library goes on with the rest of its instruction. Each
  module would need a second version of its actions;
- `align` and `nop`: the padding is computed once, from an address that growth may
  change; pages of the allocator and the check of `align` keep the remainder;
- in `Cpu`: sizes of caches, names, versions of AVX10, AMX and ACE; legacy AMD
  machines with an L3 and no L2; hybrid machines whose cores differ in threads;
- in `CpuTopology`: sizes, ways and lines; lists longer than the 1024 bytes of the
  buffer; a Windows group with a hole in the processors that are active;
- perf and VTune output, `Clock`, `Pack`, the samples.

## 8. Plan

What is done, in the order it was done: `Linker` and its proofs; `LabelHandle`
and its proofs; `ScopedLabels`, `StringLabels` as its refinement, and the
proofs; `CodeMemory`; `IndexSet`, `CpuMask`; `StackFrame` and its proofs; `Operands`, `Encoder`,
`Processor`, `Encoding`; the tables, `Mnemonics`; `Cpu`; `CpuTopology` over
`CpuMask`; `Legacy` and `Instructions`. What is left:

1. the flags that a client sets on an APX instruction, the immediates of `cmpeqps`
   and the like, what each mnemonic refuses;
2. `align`: the padding under growth, composed with `CodeMemory`;
3. `Linker` and `StringLabels` without exceptions.
