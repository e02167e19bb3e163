# TLA+ verification of the LLST virtual machine

LLST (Low Level Smalltalk) is a virtual machine for Little Smalltalk written in
C++: a bytecode interpreter, three memory managers (the one in use is a
Baker-style copying collector), an image loader, an LLVM based just-in-time
compiler, and a Smalltalk image (`image/imageSource.st`) with the class library,
the compiler and a scheduler for green threads. This directory holds TLA+
modules translated from that code, TLC configurations that check them on small
instances, and TLAPS proofs of the results that hold for every instance.

`PROJECT.json` is the index: components, runs, mutants, the map from definitions
to source lines, findings, hazards and theorems. Source paths below are relative
to the repository root.

Running it, in this directory:

    tlc -config BakerRoots.cfg MCBakerRoots       # a run
    tlapm MemoryProofs.tla                        # the proofs of a module

## 1. Inventory

| Component | State | Operations | What makes it correct |
|---|---|---|---|
| Baker memory manager, space (`src/BakerMemoryManager.cpp` 80-215, 380-419) | two semispaces, allocation pointers, `m_heapSize` | `initializeHeap`, `allocate`, `growHeap`, `collectGarbage` | as long as sizes fit in a word, live objects never leave the blocks obtained from malloc and a collection has room; every request is answered, with null only when the memory is full; the limit is exceeded by one growth at most |
| Baker memory manager, copying (217-378, 421-435) | object words (reused for way back and forwarding), root slots | `moveObject`, `moveObjects` | ends on every graph; the copy is isomorphic; shared objects are copied once |
| Baker memory manager, write barrier (437-498) | `m_staticRoots` | `checkRoot`, `addStaticRoot`, `removeStaticRoot` | every pointer from the static to the dynamic heap is known to the collector |
| Baker memory manager, external pointers (500-527, `include/memory.h` 190-300) | intrusive list of `hptr<>` | constructor, copy, assignment, destructor, update by the collector | every live `hptr<>` is in the list and follows its object |
| Method cache (`src/vm.cpp` 160-216, `src/TDictionary.cpp`, `Dictionary` of the image) | `m_lookupCache`, keyed by raw addresses; keys and values of the method dictionaries | lookup, update, flush, change of a dictionary | a hit is what the search of the class hierarchy finds |
| Interpreter (`src/vm.cpp` 218-871) | contexts, blocks, processes, the registers of `ec` | one handler per opcode, `execute` | returns reach the right context although tail calls skip contexts; a preempted process resumes as it was left |
| Primitives (`src/primitives.cpp`, `src/vm.cpp` 725-1101) | none of their own | arithmetic, strings, object fields, bulk copy, I/O | results in range or failure; bounds; the barrier is honoured |
| Image loader and writer (`src/Image.cpp`) | stream, table of objects read | `readObject`, `writeObject` | writing and reading back gives an isomorphic image |
| Non-collecting manager (`src/NonCollectMemoryManager.cpp`) | one heap in use, the abandoned ones | `initializeHeap`, `initializeStaticHeap`, `allocate`, `growHeap` | memory is handed out of the heap it claims |
| LLVM manager (`src/LLVMMemoryManager.cpp`) | the chain of stack frames of compiled code | `moveObjects` | every root of a compiled frame follows its object |
| Generational manager | two more heaps | never created by `main` | -- |
| Scheduler (`image/imageSource.st` 2162-2255, `List`, `Link`) | list of tasks, size, stop | `addProcess:`, `endProcess:`, `runOnce`, `run`, `stop` | every task gets its slice; no finished one is executed again; the loop ends when no task is left |
| Bytecode decoding, control graph (`src/InstructionDecoder.cpp`, `ParsedBytecode.cpp`, `ControlGraph.cpp`, `include/analysis.h`, `stapi.h`) | basic blocks, graph nodes | parse, split, link, remove | branch targets are block starts; nodes keep their stack inputs |
| JIT runtime (`src/JITRuntime.cpp`) | function and block caches, call statistics | lookup, compile, patch call sites, throw block returns | caches name the right function across collections |
| Method compiler, LLVM passes | LLVM IR | code generation | generated code has the interpreter's effect |
| Command line, completion, visualisation, timers, logger | none that lasts | input and output | -- |
| Image builder, radix tree | -- | unfinished grammar; third-party header | -- |

**How they interact.** The interpreter allocates through the memory manager in
almost every handler; any allocation may collect, and a collection moves every
dynamic object. Three lists tell the collector what to update: the static roots
(kept by the barrier that stores into static objects call), the external
pointers (kept by the constructors and destructors of `hptr<>`), and the method
cache, which is not updated but flushed by the VM when an allocation reports
that it collected. The scheduler is Smalltalk code running in a process without
a time limit; it calls primitive 6, which executes another process for a number
of ticks, and gets back how that ended.

**What is hard here.** There are no operating system threads. The hard
behaviours are (a) collections at any allocation, which invalidate every raw
pointer, (b) preemption between any two bytecodes, in the middle of image code
that was written as if it were atomic, (c) in-place algorithms that reuse words
of half-finished objects, (d) tail calls and non-local returns over contexts
that may be skipped or gone, (e) arithmetic on sizes and limits. `PROJECT.json`
lists them at their lines under `hazards`.

## 2. Modules

Every component module has a `MC...` module and one or more `.cfg` files; its
theorems are in a module `...Proofs`. Definitions named after a method or
function translate it; definitions marked "Mutant" are deliberately broken
versions used to show that a property can fail, and are never part of `Next`.

**StaticRoots** and **ExternalPointers** are the two lists of roots of
`BakerMemoryManager`. **BakerRoots** composes them over **Semispaces** (which half is
active, and what `moveObject` makes of a word): while the program runs it changes one
or the other; `CollectGarbage` swaps the halves and rewrites the listed slots, then
the walk over the external pointers is the only thing that goes on.

*StaticRoots.* A slot is a field of a static object; its contents are reduced
to where the word points (static heap, one of the semispaces, or an integer whose
bits may or may not look like a static address, because `isInStaticHeap` does not
test the tag). `Store` is the barriered store of `arrayAtPut` and of the
instructions that assign: `checkRoot` first, then the write. `BulkReplace` is
`memmove` without barrier between two static arrays. The ghost `bypassed` holds
the slots whose contents no `checkRoot` has vouched for.

*ExternalPointers.* Constructors and destructors over a C++ stack of `hptr<>`s,
`releaseExternalHeapPointer` with its head and inner cases, and the walk of the
collector, one pointer per step. `hptr<>`s are automatic variables and temporaries, so
the scope releases the youngest first and the inner cases never run; they are
translated, and nothing is claimed for another order.

**BakerAllocator.** `allocate` with its quick check and its two attempts, one action
each; `growHeap` in four steps, the two reallocations (which may fail and abort) and
the two collections; all as arithmetic on byte offsets. Garbage appears at any time
between calls (`live` may drop). Sizes and addresses are words: the sum `growHeap` and
the quick check compute wraps around at `WordValues`, and so does the difference of the
pointer and the request, for which the half has an address (chosen anew at each test,
one of `Addresses`: more than the code can do). Requests come from Smalltalk, are
multiplied and padded on the way (`src/vm.cpp:50`, `:87`, where they may wrap as well, so
that a small size may arrive), and nobody compares them with anything else. The ghost `wrapped` says that some sum or
difference wrapped, `wild` that memory outside of the halves was written or handed out;
then the call stops.

**NonCollectHeap.** The manager of `--mm_type=nc`: bump allocation in a heap that
is abandoned for a fresh one. `initializeStaticHeap` stores its size in
`m_heapSize`, so all heaps but the first have the size of the static heap; the
model stops (`below`) at a request larger than that, or one for which the difference of
pointers wraps around: the code returns an address outside of the heap.

**MemoryManager** is the abstract specification of both, `IMemoryManager` as the
virtual machine sees it: one request at a time, free room, live bytes, an answer.
Room is only lost to the caller who is served, and nothing else loses live bytes.
**MemoryManagers** composes the two managers with the choice `main` makes and maps
them to it (`Arena`): a collection or growth is `Reclaim`, the bump is `Serve`,
leaving the loop is `Refuse`.

**MoveObject.** One action per iteration of the two loops of `moveObject`:
turn back at null or a foreign pointer, follow a forward, copy and descend, copy
a binary object, go up, go on with the next field, return. Memory is a function
from addresses to objects whose words the algorithm overwrites as the code does.

**MethodCache.** Classes, selectors and methods have addresses; a collection
moves the dynamic ones to any placement in the other semispace, so an address
may come to belong to another object. `LookupMiss` searches the hierarchy and
fills the line, `LookupHit` trusts it. A method dictionary is two arrays, as in the
image: `InsertKey` and `RemoveKey` are the assignments of `keys` in
`Dictionary>>at:put:` and `removeKey:ifAbsent:`, `StoreValues` that of `values` behind
them, `SetValue` the store of a value whose key is there, and `FlushCache` is primitive
34 at the end of `Class>>addMethod:`; a process switch may fall between any two.
`DictionaryFind` takes the value at the index of the key, or one of the `Strays` behind
the array. The ghost `torn` says that a search found its selector in a dictionary
between the two assignments. Assumed: one process at a time changes a given dictionary.

**Interpreter.** All instructions that change control: pushes, assignments,
sends (with the look-ahead that skips the context in front of a return), the three
returns, blocks, primitives that succeed or fail, ends of slices. The model
covers every program: which instruction comes next is free, except that a byte
pointer behind a send remembers what the send saw there. A stack is its height.
The ghost `frames` is the call stack of a machine that never skips a context.

**Scheduler.** `run`, `runOnce` and the walk of the task list as the host's
actions; `List>>add:` and `List>>remove:ifAbsent:` as small steps of the process
that executes them, because a slice may end after any of them. The recursion of
`Link>>remove:ifAbsent:` is a path of links on the way down and stores on the
way back. A link is named by the order in which it was made. The main process adds
tasks and then calls `run` once. The ghost `torn` says
that a list operation overlapped another, or was left undone by a task that is no
longer in the list.

**Bytecode, ParsedBytecode, ControlGraph, MethodCompiler** are one system, each
extending the one before; a behaviour is the life of one method. *Bytecode*: the
image's encoder (`Encoder>>genHigh:low:` and its kin, with patched branch targets)
and the VM's decoder, over a grammar of expressions (constants, variables, sends,
cascades, conditionals, loops, blocks, primitives): `Emit` is what the image's
compiler produces for them, so every method that is decoded is one the image may
contain. `Encodable` and `WellFormed` say what of that a decoder and a parser may rely
on: arguments and targets fit their bytes; the code of a block lies behind its
`pushBlock` and ends, as a method does, in a return; a branch stays in its block, and
behind one begins the target of a conditional branch, unless it is conditional itself.
*ParsedBytecode* assumes it of the methods its `Sources` are compiled to, which TLC
evaluates for all of them. `Collect`, `Populate` and `Wipe` are the three
passes of `ParsedBytecode::parse` (find branch targets, fill basic blocks and link
referers, erase unreachable blocks until nothing changes); `ParseSpec` is the parser
alone, with any reader of the blocks behind it. *ControlGraph*: the four
passes of `buildGraph`: domains with their local stacks and requested arguments,
linking of branches, `getRequestedNode` with its phis, removal of trivial nodes.
*MethodCompiler*: what each instruction reads, whether its code calls something and
whether by an invoke, which producers are put into roots (`shouldProtectProducer`
walks the graph as the code does); `Compile` then fixes that, and `Run`, `Branch`
and `Return` execute the compiled method beside the interpreter's stack. `fault`
is the assertion, endless recursion or null dereference the code stops at.

**JITRuntime.** Functions by name (`Class>>selector`), the function and the block
cache by address, call statistics per call site, `patchHotMethods` with
`createDirectBlocks`, activations (`invoked`) entered by sends, by direct calls, by
block invocations and by the interpreter, methods replaced at any time, collections
that move the dynamic ones.

**Primitives.** A call, its outcome and its return, to any primitive of the module, of the
interpreter (`performPrimitive`) and, as an operator on the same state, of compiled
code (`compilePrimitive`). Words are `Width` bits and wrap (**MachineWords**: two's
complement, its bits, the division of C); shifts by the width or more, which C++ leaves
undefined, have any result. Operands are of any type and objects of either kind, since
the code asks neither whether an object is binary nor, with some primitives, whether it
is one. Fields and bytes are two views of the same memory: read through the wrong one,
an element is some byte or a word that is no value (`Wild`), and `outside` holds the
object whose end the call passed. What lies there is not modelled.

**ImageFormat.** One action writes or reads one record, or one byte of a binary object.
The recursion of `writeObject()` is the stack `calls` (the values of each call and how
many are done), that of `readObject()` the stack `open` of the objects that still miss
their class, fields or bytes, so that no operator is recursive. Objects already written
are given by their index; the writer may be killed anywhere (`Kill`), and the loader
reads what is in the file into a static heap of one and a half times its size. Integers
have four bytes in base `Escape + 1`; the order of the four reads in `readInteger` is
one of `Orders`, fixed for a run.

## 3. Runs

| Run | Expect | Shows |
|---|---|---|
| `baker_roots` | pass | whatever mix of barriered stores, bulk copies, `hptr<>`s that come and go, and collections: a slot `checkRoot` vouches for is a root if its word is not static; the list of `hptr<>`s is the C++ stack; neither dangles |
| `memory_managers` | pass | until a size or difference wraps around, both halves hold what a collection copies, at every step of a growth, and large requests that pass the limit are served; null without growth means full, the limit is exceeded by one growth at most, pointers stay aligned; both managers implement `MemoryManager` and answer every request, as long as they stay in their heaps |
| `move_object` | pass | forwarding, the way back and the isomorphic copy, on every graph of the instance; the collection ends |
| `method_cache` | pass | hits are right between flushes, and in between never more wrong than an old version of the method, unless a search met a half changed dictionary |
| `method_cache_dictionary` | violation | a search that meets one caches another selector's method, or what lies behind the array (`findings`) |
| `interpreter` | pass | tail calls cannot be observed and chains end, for one process and for two that share blocks and are preempted anywhere; saved stacks are exact |
| `scheduler` | pass | the task list stays acyclic under any overlap, passes end, and without overlap the list is exact, finished tasks are not resumed and every task gets its slice |
| `method_compiler` | pass | decoded as emitted; blocks and edges follow control; every instruction gets the values it would pop, except where section 6 says; no direct operand, context or self is stale after a send; a block return finds its landing pad where it should; every stop of the compiler has one of five causes; compilation ends |
| `method_compiler_stack` | violation | in `inst + ((a ifTrue: [t] ifFalse: [1]) ifTrue: [1] ifFalse: [a foo])` the sum gets `t` or 1 in the place of `inst` (`findings` in `PROJECT.json`) |
| `jit_runtime` | pass | cached functions are those of their methods until objects move; an activation runs the code of its method; a direct call goes where the send would; and what breaks each of these |
| `primitives` | pass | arithmetic is exact whenever the result is representable; indices are in range whatever objects are given, a call leaves its object in three named cases only; interpreter and compiled code agree |
| `image_format` | pass | loading gives what was written; a cut file is refused; both end |

Some properties are conjunctions of named parts: `BlocksAsEmitted` (`DecodedAsEmitted`,
`BlocksExact`), `ValuesFresh` (`DirectOperandsFresh`, `ContextFresh`), `DispatchExact`
(`CacheHitIsOwn`, `RunsOwnCode`), `PatchingExact` (`DirectCallsExact`,
`PatchFaultsExplained`), `HitIsMethod` (`HitsAreMethods`) and `MemorySafe` (`IndexInRange`,
`OverrunIsOne`, `AccessInBounds`, `KindsKept`). A module's
`TypeOK` is either proved in its `...Proofs` module or a conjunct of one of the
properties a run checks (`ForwardingExact`, `HitIsMethod`, `ArgumentsExact`,
`DispatchExact`, `MemorySafe`, `CutNotLoaded`). `CopyFits` and `HomeIsMethod` are proved and
have no run of their own.

### Bounds, and why they are enough

* `baker_roots`: a static object with two fields, bulk copies of up to two, so that
  ranges overlap, are shifted or are apart (slots of different objects interact through
  a copy in the same way); `MaxListed = 2` bounds how often one slot is listed; three
  `hptr<>`s, symmetric. The theorems remove these bounds.
* `memory_managers`: requests around every threshold (fits, just does not fit, more
  than half, more than the limit) and two near half the word, `WordValues = 512` and
  `MaxHeapSize = 192`: for one of them the sum wraps to less than the heap there is, for
  the other to more, and either is above the one and below the other address, so that
  the difference of pointers wraps or not. A static heap that holds two of the three
  ordinary requests, three heaps for the non-collecting manager. The theorems remove
  these bounds.
* `move_object`: all graphs over three objects (with two fields, with one, and a
  binary one) and over two (with three fields and with none), classes in the
  heap included, with self references, cycles, sharing, and two roots. Two fields
  are needed for the index to run down over a field, three objects for a reversed
  pointer in the middle of a way back. The theorems remove these bounds for the
  three invariants.
* `method_cache`: a static class and its dynamic subclass, two selectors, three methods
  of the class (two of them versions of one, one dynamic) and one of the subclass, so
  that a key is inserted in front of another and behind it and values are one place
  off, semispaces of two addresses so that the subclass and the method may exchange
  places, and one line, in which all entries collide. `method_cache_dictionary` is the
  same. The theorems remove these bounds.
* `interpreter`: two processes share four contexts with stacks of height two, in
  slices of two ticks, which end before any instruction, since a process may be
  anywhere when its slice begins; one that runs alone and without a limit has
  five contexts of its own (a method, its block, a nested block and their callees)
  and stacks of height one. The constraint `Explored` joins the two, and cuts
  behaviours after a block was invoked while it was active: its context is one
  object with one `previousContext`, so nothing is claimed for them (section 6).
* `scheduler`: three processes, two calls of `endProcess:`. Three are needed for
  an inner link to be removed while another task is inside the list. The theorems
  remove these bounds for the invariants.
* `method_compiler`: all simple expressions and conditionals, alone, as operands of
  every construct that has operands, and in pairs of statements: every way a value
  can lie below one branch, merge or loop, and every fault. `method_compiler_stack`
  has the one method of the finding, which is among them. The theorem removes these bounds for `BlocksAsEmitted`.
* `jit_runtime`: a class and its subclass, four methods in use and a second
  version of one, two sites in a method and one in its block with the same
  index, a line that two methods share, `MaxInvoked = 2` activations,
  `MaxDisturbances = 2` replacements and collections together.
  `Explored` fixes where the class and its method lie until the first collection;
  after it they may lie either way, on either line of the caches. The theorems remove
  these bounds, `Explored` included.
* `primitives`: words of six bits, so that all pairs of operands are tried; two
  strings, one shorter than a word, two arrays of less than three words and of three
  (next to nil, true and false, which are empty), indices from -1 to one more than a
  size, one change of the heap before the call that is looked at, also one that mixes
  kinds. The theorems remove these bounds.
* `image_format`: ten images of up to nine objects; `Escape = 7` stands for the byte
  0xFF, so that indices, sizes and bytes need the escape; cyclic classes, shared
  objects, integers of both signs; pointers of two bytes, so that the static heap is
  large enough for some images and too small for others. The theorems remove these
  bounds.

`CHECK_DEADLOCK FALSE` is set where the system really stops: `move_object` (the
collection is over), `memory_managers` (the program aborted, a heap was left, or the
bound on heaps is reached), `interpreter` (all processes have returned, or a bound is
reached), `scheduler` (no task is left, or the host is halted), `jit_runtime` (the
compiler aborted), and where a method or image has been dealt with.

### Fairness

`MoveObject!FairSpec` is weak fairness of `Next`: the collector is a sequential
loop that nothing interrupts. `Scheduler!FairSpec` is weak fairness of the host's
steps together with the end of the slice: the host runs without a time limit, and
`execute` counts the ticks of a slice down, so a slice ends whatever the task
does. Nothing is assumed about the tasks: one may spend all its slices inside a
list operation. `MemoryManagers!FairSpec` is weak fairness of the steps inside
`allocate`, and the parser, the compiler and the image loader have weak fairness of
their only next step (written `[]<>Over \/ []<><<Next>>_vars`, which is the same where a
step is possible until the work is over): all of them are sequential code that waits
for nothing.

## 4. Proofs

Each theorem holds for every value of the constants that satisfies the module's
`ASSUME`. The shape is always the same: an inductive invariant, one lemma or step
per action, and a temporal conclusion by `PTL`.

* **MemoryProofs**, the static slots. The two safety properties with the types are
  inductive together (`RootsInv`). `CheckRootEffect` is the core: announcing a non-static
  value for a slot that obeyed the barrier leaves it listed, because a non-static old
  value was listed already. That argument is what an integer loaded from the image
  breaks, which is why such slots start as `bypassed`.
* **MemoryProofs**, the external pointers. `PointersInv` with `WalkInv`: during a
  collection the cursor is at some position of the stack, and all younger pointers have
  been updated. A collection is the only step that changes both parts: `CollectorInv`
  joins the two invariants, and `CollectorStep` shows that the steps of either part
  leave the other's alone.
* **MemoryProofs**, the semispaces. `IInv` says of every step of a growth, between
  `realloc()`s and collections too, how large either half is (`HalvesInv`: only the one
  that was reallocated and not yet collected into may be smaller than the mediane, and
  only after a wrap), that a grown half holds the request beside a full old one unless
  a sum wrapped (`GrowthInv`), and what each path of `allocate` knows about the room
  left (`LargeRoom`, `FitsRoom`). `GrownSize` isolates the arithmetic of padding and
  halving in words, `StartGrowthFits` and `CollectGarbageFits` carry it into the
  invariant. `wrapped` is the only excuse, and it is set where the code goes wrong: a size
  that does not fit a word, or a pointer test passed by a difference that wrapped.
  `OrdinaryRequestsNeverWrap` says for which requests it is never needed
  (`Ordinary`: none is larger than an address `malloc()` answers, and twice a request
  and one and a half times the largest heap fit in a word), by `LimitInv`, which adds
  the request under way and bounds the heap. `AlignInv`, under the hypothesis
  of `PointerAligned` that initial halves and requests are whole words, keeps the
  mediane and the live bytes whole words as well: `GrownAligned` shows that the
  adjustment of `growHeap` reaches a multiple of eight, so its half is one of four.
* **MemoryProofs**, the refinement. `RoomGrows` says that a pointer reset to
  the mediane minus the live bytes is not below the one before, since the objects
  lie between pointer and mediane (`SpacesFit` and `top <= Mediane` of `IInv`).
  With it each action of either manager is a step of `MemoryManager`, leaving the
  heap a stuttering one.
* **MoveObjectProofs.** All three invariants, for every well-formed heap, any number
  of roots and spaces of any size (the new one at least
  as large as the old one). `IInv` describes each moment of the walk: an old object
  is untouched, or relocated with its first word the forwarding address and its size
  word the index of the field in hand (`Originals`); a copy has its final words above
  that index (`Copies`); the copies tile the new space (`Tiled`); the reversed
  pointers form one chain without forks from the object in hand to the root, each
  copy below that of its parent (`Way`); and the locals and roots hold what the stage
  of the loop says (`InHand`, `Roots`). No induction over the graph is needed for
  that. Isomorphism is the image of the least closed set `Reachable`: the originals of
  what is reached in the new space form a closed set of the old one.
  `OnlyReachableStep` shows that nothing else is copied.
* **MethodProofs**, the method cache. `PlacedApart` (objects at the same address are the same
  object, by the assumption that the spaces are disjoint) is what makes a hit on
  addresses a hit on objects; `MissKeeps` and `FlushForgets` do the rest of
  `CacheCoherent`. `HitIsMethod` needs to know what the search of `lookupMethod`
  returns, and that rests on `DictInv`: the keys of a dictionary are those of its values
  as they will be when the change under way is complete (`Matched`, with `InsertPairs`,
  `RemovePairs` and `ReplacePairs` for the three kinds of change). A search that meets no
  half of a change answers a method of its selector; one that does is `torn`, and what
  it cached is excepted until the next flush. `Find` is a recursive function; the assumption that every chain of
  superclasses ends is what makes its equation mean anything, and since induction is
  out of reach `SearchExists` exhibits a solution (the one class with a method on the
  path from the receiver's class, the path being the least closed set), from which
  `FindResult` concludes that the answer is a method or nil.
* **MethodProofs**, the parser. `ParsedAsEmitted` is about `ParseSpec`, the
  specification of MethodCompiler as far as it concerns the parser: `Init` there has
  `ParseInit` as a conjunct, and a step is one of `ParseNext` or comes when everything
  is parsed and leaves the blocks, their bodies and referers alone. The assumption is
  that the code is `WellFormed`. There are two halves.
  That the decoder inverts the encoder: `FlattenIs` exhibits the solution of the
  recursive equation by which `FlattenSeq` is defined (`AllNaturals` is the induction),
  so that every instruction lies at its place in the bytes (`WrittenStays`),
  `DecodesEncoded` takes the nibbles and bytes apart, and `CodePlaces` says so of whole
  methods, their padding included. And that control stays among the outer
  instructions of a unit, those in no block nested in it: `OuterCloses` follows it over
  branches, past nested blocks and to the end, `BehindIs` to the terminator it meets
  first, and `UnitsLaid` concludes that a method and each of its blocks is `Laid` out
  like that. `ParseInv` is the inductive invariant over such a layout. In phase 1
  (`Collecting`) the targets of all instructions passed are known. In phase 2
  (`Populating`) a block behind the current one is complete (`Ended`: it has a
  terminator, its successors are blocks, and the next block is the one behind it), one
  ahead of it is empty, and its referers are the blocks behind that branch to it; dead
  code is decoded, in step, up to the next block. In phase 3 (`Wiping`) erasing a
  block leaves that true of the rest (`BlocksKept`, `NextKept`): it is nobody's
  successor, since it has no referers. Behind phase 3 this is `BlocksExact`
  (`DividedAsEmitted`).
* **InterpreterProofs.** Types and `HomeIsMethod`, together with `Fresh` (a
  context that is not allocated yet is not a block). `StepKinds` reduces the
  instructions to a few kinds of step, `RunningFacts` collects what an instruction
  may rely on, `HomesKept` shows that allocation disturbs no home. For `ChainEnds`,
  `Acyclic` (no nonempty set of contexts holds all its previous contexts) is inductive
  while no active block is invoked: a new context leads to an older one, and a block
  that is not on the way back of its caller closes no circle. `ChainClosed` connects
  it with the recursive `Chain`: of its `MaxContexts + 1` sets each is closed or
  larger than the one before, so the last is closed.
  For `TailCallsTransparent` and `SavedStackExact`, `Tracked` holds while no active block
  was invoked and no block has returned from a method that is gone: a method has one
  frame and a live context one, also among processes (`Framed`, `LiveOnce`); the frame a
  blockReturn was left in lies above that of its method; and the previous context of
  every live frame and of every method is the frame that goes on below it (`Returns`).
  `StopsSolve` and `StopsOnly` tie the latter to the recursive `stop` of `Resumed`: a
  frame goes on below itself, so a solution is the only one. Four lemmas say what
  happens to a stack (`ConsistentKept`, `ConsistentPrefix`, `ConsistentLeave`,
  `ConsistentCall`), and `TrackStep` what has to be shown of an instruction. Where the
  tail calls could go wrong is `SendTracked`: the caller `doSendMessage` stores is the
  one the skipped frames would have come back to.
* **SchedulerProofs.** `ListInv`: links lead to older links, *and so does what
  every preempted operation still has in hand* (`OpDescends`: the path it came
  through descends, and the link it will store is older than the last of it).
  The second half is needed because a store may come arbitrarily late, when the
  list has changed under it. `ListAcyclic` follows for any number of tasks.
  `ListHolds`, for `ListExact` and `FinishedNotResumed`, says what is true of the list
  at each step of the one operation under way as long as none was torn (`OpExact`):
  while it stores (`Storing`), searches (`Seeking`: the task is not among the links
  passed), comes back (`Relinking`: the first store takes the task out, every later
  one repeats what is there) and counts (`Counting`: `size` is behind by the
  operation's delta). `PassExact` ties it to the loop: a task that has returned is in
  `finished` until it is removed, and what the walk has ahead of it has not returned
  and holds no link still to be added. The chain of links is the least closed set,
  so `ChainSame`, `ChainCut` and `ChainLength` follow without induction.
* **JITRuntimeProofs.** `IInv`: functions are current for every name that is `Settled`
  (not changed, and staying put), every address in a cache, a statistic or a direct
  call was `Noted` for some method, and is still its address unless that is dynamic
  and a collection came between. `DirectCallStep` is the hard case: what lies at the
  address in the code is the method it was patched for. `PatchInv` adds what the
  statistics mean (`SitesExact`: what is counted at a site is the selector its method
  sends there, unless two sites share the index), that the cases in front of a site
  name what the search for that selector finds (`DirectsExact`), and that until
  something changes or moves whatever was counted was compiled (`CountedCompiled`).
  `Find` is treated as in MethodProofs.

* **PrimitivesProofs.** `AllNaturals` is induction for a set of numbers, from their
  well-foundedness; with it `RecursionExists` and `FollowsAgree` make the recursive
  functions of MachineWords mean what their equations say (`Power2Step`,
  `WithOnesBits`). From `SignedFits` (a number in range survives a round trip through a
  word) follows that sums, products and shifts are exact where they are representable;
  `BitSign` and `HighBits` say that a SmallInteger repeats its sign above its width, from
  which the bitwise operations follow place by place; `QuotientRemainder` and
  `RemainderUnique` make the division of C the only one with a remainder of the sign of
  the dividend. `InBoundsIff` is what every access rests on: one unsigned comparison and
  two signed ones let the same indices through. `IInv` adds to the properties that the
  call under way has one of the forms `CallForm` lists (with receivers of every kind),
  that a reply belongs to a call, that without one nothing outside was touched, and that
  a call whose receiver is of the wrong kind sets `mixed` (`UnderWay`); `GoodCall` says of each form that its outcomes are safe and right in both
  engines, and the same where they can be compared.
* **ImageFormatProofs.** Writer and loader are compared stage by stage. A log of the
  stages the writer went through (`Logged`) says that the record of each stage (`Code`)
  lies in the file as far as the file goes, and that the next stage is its `Step`. While
  it reads, the loader is `At` one of them: `Fits` says that the open objects are the
  calls the writer had at that stage and that every object read `Mirrors` as much as was
  written of it. `WordReadBack` and `IntegerIsItsBytes` invert `writeWord` and
  `IntegerBytes`; `RecordIsRead`, with a lemma for each kind of record, says that the
  loader recognises the record of its stage; `TakeFits` takes it to the next one. At
  the last stage everything fits, which is `LoadedIsomorphic`. A cut file is shorter
  than the last stage needs, so that the loader never reaches it, which is
  `CutNotLoaded`. Nothing is assumed about the size of the heap, which may run out.

Only model-checked: the safety of the compiler behind the parser (`ArgumentsExact`,
`EdgesFollowControl`, `ValuesFresh`, `SendsCatchBlockReturn`, `FaultsExplained`), whose
properties compare the results of recursive definitions over graphs, and whose module
has the recursive operator `getRequestedNode`; that
`Emit` yields well-formed code, which is induction over expressions and is evaluated for
the `Sources` of the run; and all liveness (`CollectionTerminates`, `RequestsAnswered`, `PassEnds`,
`RoundRobin`, `CompilationEnds`, `LoadingEnds`), which is outside the prover's reach.

## 5. Plan

1. Theorems about the control graph, with `getRequestedNode` as a recursive function
   whose termination its `path` gives, on the basic blocks `ParsedAsEmitted`
   gives them.
2. **ContextStack**: `stackPush` growing a stack in the middle of an allocation that
   may collect, with the `hptr<>` discipline of ExternalPointers.
3. A composition of Interpreter slices and Scheduler (primitive 6 as the interface),
   with the abstract specification "each task is a sequence of slices".
4. The roots of compiled frames as data, `llvm_gc_root_chain` walked one entry at a
   time, in the place of MethodCompiler's `Movable`.

The number of runs is kept small: a module that is composed into a larger one gives
up its own run where the larger one covers it.

## 6. Behaviours met while modelling

Besides the findings, the models show the following. The properties say where they
hold and except these cases by name.

*Memory*

* `checkRoot` registers a slot only if its old value lies in the static heap. A slot
  the image loaded with a SmallInteger lies in no heap and was never registered;
  a dynamic pointer stored over it is not tracked, although the comment at
  `src/BakerMemoryManager.cpp:459` takes the slot to be registered already. Such
  slots start in `bypassed`.
* The loop of `allocate` compares the present size with `m_maxHeapSize`, so a growth
  may exceed the maximum that `doc/llst.1.en.pod:38` promises
  (`LimitOvershotOnce` says by how much).
* When the first attempt grows the heap the pointer still starts at the old mediane;
  if the request does not fit there, the second attempt collects, and the loop ends
  with null although there is room now.
* The size of the grown heap is a sum of 32 bits (`src/BakerMemoryManager.cpp:110` and
  164) that a huge request wraps: it passes the comparison with the limit, and the heap
  may shrink under its objects. The test at line 180 subtracts the request from a pointer;
  if the request is larger than the pointer is as a number, the difference is not
  below the base, and memory outside of the half is handed out (`wrapped`, `wild`).
  The non-collecting manager subtracts in the same way. The sums of its callers
  (`src/vm.cpp:87` and 830) wrap too, so that a request may be as small as 0.
* The non-collecting manager grows by the size of the static heap, not by the size it
  was configured with, and does not test that the request fits.
* Primitive 254, and an allocation that collects and fails, do not flush the method
  cache (`src/vm.cpp:62` wants it flushed after every collection); `stale` excepts
  what a lookup answers then.

* `at:put:` and `removeKey:` of a method dictionary store `keys` and then, behind several
  sends, `values` (`src/image/imageSource.st:3442` and 3480); `TDictionary::find`
  (`src/TDictionary.cpp:52`) uses the index of a key for the values. A lookup in between,
  by another process or by the sends of the change itself, finds the method of the
  next selector or reads behind the array, and the cache keeps it (a finding).

* Half of a padded heap size need not be a multiple of four; the heap then starts
  at a misaligned address.
* An `hptr<>` released out of last-in first-out order can damage the list; C++
  scoping prevents this for automatic variables.
* `doBulkReplace` copies dynamic pointers between two static arrays without
  `checkRoot`; such slots are `bypassed` in StaticRoots and nothing is claimed
  for them.

*Interpreter and scheduler*

* A block invoked with too many arguments unrolls the stack by one value more than
  was pushed; nil is written in front of the stack array (`outside`), and the model
  stops.
* A block invoked while it is active overwrites its own `previousContext`, stack
  and byte pointer; a return out of a method that has already returned resumes its
  caller a second time.
* A stop request to the scheduler lasts only until the end of the pass, when `stop`
  is assigned from the size of the list.
* Two tasks preempted inside list operations can lose a task or leave `size` wrong;
  a task that ends itself and loses its slice in the middle never finishes the
  removal; a task that is ended and then returns in the same pass is removed
  twice, and the error of the second removal halts the scheduler's process.

*Compiler*

* A block that only branches, on a value it did not push, is passed by when a value
  further below is looked up, as though it left the stack as it was: an operand comes from
  one place too high (the finding). Where a message send is the receiver, the loss ends
  in the fault "the receiver is a phi" below.
* An assignment at the head of a block asks for its operand without the `keep` flag, so
  that `popTop` behind it asks for one place too low (`KeepsRequested`); the operand of
  `popTop` is never used.
* The compiler stops on `x := c ifTrue: [1] ifFalse: [2]` followed by another use
  (the assignment keeps a value its block does not have, and the phi gets no
  incoming values), on a value that lies on the stack around a loop (endless
  recursion of `getRequestedNode`), on a message sent to a merged value (the
  receiver is a phi), on a merged value read behind a return, and on a referer that
  was erased (`getNextBlockOffset` is called with `stopOffset`, which is 0 for a
  method). `FaultsExplained` says that these are all.
* `protectProducerNode` asks whether the *current* node needs a root, not the phi it is
  called for, and nested phis are not protected: phis are excepted from
  `DirectOperandsFresh`, and so from `ValuesFresh`.
* Sends to super and blocks invoked by primitive are calls, not invokes; the comment
  at `src/MethodCompiler.cpp:406` speaks of all sends. `SendsCatchBlockReturn`
  excepts them.
* The default case of `compilePrimitive` passes the first argument for every one.

*JIT runtime*

* A call site is identified by the index of its node, and a method and its blocks number
  their nodes independently: statistics of a block's send are counted for the
  method's site with the same index, and a direct call to the wrong selector, or
  the `abort` at `src/JITRuntime.cpp:602`, follows.
* A function is found by its name and is not compiled again when the method is
  replaced; addresses in caches, statistics and direct calls survive collections.
* `patchHotMethods` never runs above an activation of a compiled function: only the
  interpreter's `performPrimitive` calls it (`src/vm.cpp:799`), compiled code hands
  opcode 250 to `callPrimitive`, which does not know it, and compiled code never enters
  the interpreter. So `invoked` is empty behind it.

*Primitives and image*

* Sums, products and shifts that leave 31 bits wrap; a left shift of a negative number
  always fails; `doBulkReplace` accepts a last index one beyond the destination.
* No primitive tests what kind of object it is given. `arrayAt` and `arrayAtPut` on a
  binary object (`src/vm.cpp:897`) take its size in bytes for one in words; the
  statistics of a file go into an array of less than three fields and run over its end
  (`src/primitives.cpp:291`); a byte store into an array leaves a word that is no object.
  `AccessInBounds` names these cases, and excepts no other. A primitive that is called
  with fewer arguments than it reads, such as `<105 self>` in `String>>edit`
  (`src/image/imageSource.st:3088`), reads behind its array of arguments.
* Compiled primitives do not test the types of the operands of `integerNew`, `stringAt`
  and `stringAtPut`.
* The order of the four reads of an integer is the compiler's choice; one and a half
  times the file may be too small for the static heap (many small objects), and
  the null it returns is used.

## 7. Not modelled, and why

The contents of the interpreter's stacks and of binary objects, printing and logging
carry no control. What lies behind the end of an object is not modelled: a read there
answers `wild` words and a write ends the claims (`outside`, `wild`). One process at a
time changes a given method dictionary; others look it up while it does. Console primitives, the command line, readline completion, DOT
output, the path verifier of the visualiser's graph and timers are pure input and
output. `GenerationalMemoryManager` is compiled but never created. JITRuntime gives a
method one block at most and leaves out the initialisation of LLVM and the printing of
statistics; Primitives leaves out `getClass`, allocation and cloning, which are the
memory manager's; MethodCompiler leaves out the IR as such. LLVM's own passes and the IR builder are outside
the repository. The image builder is an unfinished grammar, the radix tree is
third-party code. What remains is in the plan.
