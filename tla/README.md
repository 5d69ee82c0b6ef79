# A verification of gem-forge-transform

The repository holds the LLVM passes of the Gem Forge framework.  They
instrument a program so that it traces itself; a runtime library linked into the
program writes the trace; later passes read it back, build a dynamic data graph,
recognise memory streams and loops worth simulating, and rewrite the instruction
stream for a simulator.  This project models the parts with state that lives
longer than one call, checks them with TLC and proves the most important
properties with TLAPS.  All paths below are relative to `src/src/`.

## 1. Inventory

| part | source | state | operations | what is hard | what makes it correct |
|---|---|---|---|---|---|
| Tracer runtime: threads | `trace/Tracer.cpp` | slots of `threadStates`, allocation lock, `insideMyself`, the static flag of `initialize()` | slot lookup, claim, handler entry and exit, start-up | lookups without the lock; threads that start before `main()`; the runtime's own library calls come back as events; slots run out | a slot has one thread; no event is lost or handled recursively; configuration is read before use; calls return |
| Tracer runtime: windows | `trace/Tracer.cpp`, `trace/TracerProtobuf.cpp` | instruction counts, name stack, shared list of intervals, entry in progress, trace file | the `print*` events, file switch, exit | one list for all threads; an entry is completed over several events; exceptions and inlined frames | exactly the windows are traced, entries are whole, a sample has one file, the process stops on time |
| Profile logger | `trace/ProfileLogger.cpp` | block counts of the run and of the interval | log, save, discard | boundaries | counts are those of the interval |
| Basic block tracer | `trace/BasicBlockTracer.cpp` | buffer, file | add, flush | the limit | the file holds the execution |
| Call-loop profile | `trace/CallLoopProfileTree.cpp`, `trace/SimpointIntervalSelectPass.cpp` | region stack, graph of edges, timeline, cuts | add instruction, aggregate, select, cut, insert marks | several regions left at once, recursion, two passes that must agree, numbering of marks | counts per edge, contiguous intervals of the requested size, marks met in the program |
| Stream patterns | `stream/StreamPattern.*`, `stream/DynStream.*` | state machines per access and value shape, iteration counters, aggregate | access, missing access, end of iteration, end of stream | wraparound, gaps, reset between instances | what is recognised replays; nothing simpler is overlooked; aggregate covers all |
| Pattern replay | `stream/ae/FunctionalStreamPattern.cpp` | position in the list of patterns, indices | configure, step, value | must follow the analysis pass | values of the trace |
| Dynamic data graph | `DataGraph.cpp`, `DynamicInstruction.cpp`, `LoopUtils.cpp` | frames, lookup tables, alive window, access maps | parse instruction or function entry, commit | exceptions, callbacks, phi nodes, a bounded log | dependences are those of the execution |
| Replay driver | `Replay.cpp`, `CacheWarmer.cpp` | sliding window, memory snapshot | load, serialize, commit | first store before first load | the snapshot replays the trace |
| Static stream analysis | `stream/StaticStream*.cpp`, `stream/StaticIndVarStream.cpp`, `stream/StaticMemStream.cpp`, `stream/StreamUtils.cpp` | the streams of a region, their base, back and alias relations, qualification, choice, plan, configuration | ten phases of the constructor, plan, configuration, coalescing | work lists over cyclic dependences, an order of phases in which later ones rely on marks of earlier ones, unordered maps | qualification is a fixed point; choices are closed; the plan loses no value |
| Slices | `stream/StreamDataGraph.cpp`, `ExecutionDataGraph.cpp`, `BasicBlockPredicate.*` | nodes, inputs, fused operations | build, extend with a tail, fuse, generate | slices that contain another stream's fused operation | a generated function has all it reads |
| Static stream transformation | `stream/execution/*.cpp` | cloned module, value map, instructions pending for removal, configured loops | transform, merge, step, configure, nest, eliminate, clean | rewrites a program while reading it; several instructions of one loop claim the same place | the program left computes the same; streams are used while configured |
| Abstract data flow accelerator | `adfa/` | state (searching, buffering, data flow), buffer, configured loop, static-to-dynamic map | per traced instruction: buffer, start, continue, end | decisions at the header of the next iteration, end of the trace | nothing lost, segments whole, dependences kept |
| SIMD | `simd/SIMDPass.cpp` | buffered iterations, maps from static instructions to dynamic ones | buffer, check, transform, repair maps | what follows has been parsed before the vectors replace the iterations | vectors do what the instructions did, in an order that respects memory |
| Speculative precomputation | `speculative_precomputation/` | a manager per critical load, the window of instructions, slices | miss, learn, build, trigger, clear | backward walk through a window that moves and contains triggers | a trigger starts what its load needs, before it |
| UID map | `trace/InstructionUIDMap.cpp` | name table, UIDs | allocate, serialize, parse | collisions | a UID names one instruction |
| The rest | readers, serializers, statistics, `CCA.cpp`, small passes, scripts | | | | input, output and reports |

Interaction: instrumented code calls the runtime (`printFuncEnter`, `printInst`,
`printValue`, `printInstEnd`), from many threads at once; the runtime writes one
file per thread and sample, a profile and a basic block trace.  Everything else
is sequential.  `SimpointIntervalSelectPass` reads the basic block trace twice.
`ReplayTrace` and its relatives (accelerator, SIMD, precomputation) pull
instructions out of a `DataGraph` one by one, keep a window of them alive and
hand them to a serializer.  `StreamPass` analyses each region once, statically,
feeds the trace to the analysis of patterns, and in the end gives the chosen
streams to `StreamExecutionTransformer`, which rewrites a clone of the program.
What makes the sequential half hard is not interleaving but order: long
pipelines of phases over shared graphs, where each phase trusts marks that an
earlier one left, and a trace that may begin and end anywhere.

## 2. Modules

| module | models | promise it is measured against |
|---|---|---|
| `ThreadSlots` | what `getOrInitializeThreadState()` promises | abstract specification |
| `TracerThreads` | slot lookup, recursion guard, start-up | `ThreadSlots`, through the mapping `owner <- tid` |
| `TracerThreadsProofs` | proofs about it | |
| `TraceWindow` | what an event does to the slot, the shared list and the files | the windows and stacks computed from the execution itself |
| `TraceWindowProofs` | proofs about it | |
| `ProfileLogger` | the logger as a record with operators | |
| `CallLoopProfile` | recording, profile tree, interval selection, marks | the execution itself |
| `CallLoopProfileProofs` | proofs about it, and about both loggers, that of the runtime and that of the pass | |
| `StreamPattern` | recognition and replay of patterns | the values of the program |
| `StreamPatternProofs` | proofs about it | |
| `MemoryDependence` | last access to each byte, as operators on a map with a bounded log | |
| `TracedProgram` | external: a program in SSA form, and what each traced instruction really depends on | |
| `LoopUtils` | the questions about loops that the trace passes ask | |
| `DataGraph`, `TraceReader` | reading of the trace: frames, dependences, values | the activations, values and dependences of `TracedProgram` |
| `TraceReaderProofs` | proofs about `MemoryDependence` and `TracedProgram` that those on readers of the trace share | |
| `CacheWarmer`, `Replay` | the snapshot of memory, the default `transform()` | memory as `TracedProgram` saw it |
| `ReplayProofs` | proofs about both: memory | |
| `ReplayFramesProofs` | the same: frames, dependences through registers and control, types | |
| `LoopPass` | what the passes on loops share | |
| `AbstractDataFlow` | the accelerator's state machine | the traced execution, entry by entry |
| `SIMDTransform` | the SIMD pass | the bytes and values of the traced execution |
| `SpeculativePrecomputation` | critical loads, slices, triggers | the slice computed from the true dependences |
| `LoopPasses` | one of the three runs on one program | |
| `LoopPassesProofs` | proofs about the accelerator's two streams | |
| `LoopRegion` | a region of code and what LLVM says of it | |
| `StaticStream` | a stream and the expressions it is recognised by | |
| `StreamDataGraph` | slices of addresses, values and conditions | |
| `StaticIndVarStream`, `StaticMemStream` | the two kinds of streams: recognition, candidates, qualification | |
| `StaticStreamRegion` | the analyzer's phases | declarative definitions of each phase's result |
| `ClonedProgram` | the clone being rewritten, LLVM's edits on it | |
| `StreamExecution`, `StreamLoops` | the rewriting per instruction, and per loop | |
| `StreamExecutionTransformer` | the transformer as a sequence of steps | the original program |
| `RegionShapes`, `MC*` | instances for TLC | |

### TracerThreads

One action per access to shared memory.  `Call` is an event of the traced
program, `Recurse` one caused by the runtime's own library calls: those of a
handler, and those of a claim, which makes a `std::string` (138), prints (365)
and sets up the profiler (374) after its two stores.  `ret` is the stack of what
such calls have interrupted (`Frame`).  A handler's are dropped by
`TracerLibSkip`; a claim's are not, since `insideMyself` is still clear, so that
a handler can run inside a claim (`ClaimUntraced`, which the run `threads_claim`
refutes), and its own calls come back one level deeper.  A thread walks `ReadInitialized`, `CompareTid`, then either the next slot
or `AcquireLock`, `RecheckInitialized`, the two stores `StoreTid` and
`StoreInitialized` **in either order** (nothing orders them for a reader without
the lock) and `ReleaseLock`.  `TracerLibEnter`/`TracerLibSkip` are the macro of
that name; `CheckInitialize`, `LoadConfig`, `SetInitialized` are `initialize()`
with its plain static flag, `SecondInitialize` is `secondInitialize()`.  Threads
may be started (`Spawn`) and may end (`Die`), after which their id may be used
again.  When no slot is free the process exits, as in the code.

### TraceWindow

A handler works on its own slot, so it is atomic up to its accesses to the
shared `intervals`: `PrintFuncEnter`, `PrintValue`, `PrintFuncEnterEnd`,
`PrintInst`, `PrintLandingpad` are steps; `printInstEnd` is up to four
(`InstEndLog`, `InstEndCheckSwitch`, `InstEndSwitch`, `InstEndFinish`).  The
program side is `real`, the true call stack including uninstrumented
functions (`EnterExternal`, `ReturnExternal`) and exceptions.  Frames the unwinder
has no name for, or one too long for its buffer (606-617), are left aside
(`Nameless`); they are of uninstrumented functions (`WindowAssumption`), since an
instrumented one whose mangled name is longer than 255 bytes would lose its frame.
Counts, windows,
`stack`/`stackName` (one sequence) and `tracedFunctionsInStack` are the fields of
the slot; `entry`, `file`, `samples`, `out` are the protobuf side.  A history in
`out` (which event wrote the entry, at which count) is what the properties
compare with.

What the command line and the environment decide (mode, counts, intervals,
traced functions, number of threads) is one record, `setup`, chosen by `Init`
from the constant `Setups`; one run covers several.

### ProfileLogger and CallLoopProfile

The program is a constant: kinds of instructions, successors, callees, the
region (innermost loop or function, named by its first instruction) and the
block.  `PrintInst` runs it and records it (`AddInst`, `LogInstFixed`), `Exit`
flushes.  `AddInstruction` is `CallLoopProfileTree::addInstruction`, with
`SameRegion`, `NewRegion` and `OldRegion` for its three branches, of which the
last pops any number of frames.  An edge's instruction count is kept as the two
positions it is the distance of, so that properties can speak of both.  The
variance that selects edges is floating point; `SelectEdges` takes any subset of
the candidates whose counts vary at all, so every threshold is covered.  `CutsOf`
is the cutting and merging, `CutInterval` the second pass, `MarkPlace` is
`insertEdgeMark`: where the call that counts a mark ends up.

### StreamPattern

One record `fsms[a].vals[v]` stands for the fields of the five value state
machines.  `Execute` is an access in the current iteration, `UseLate` the use of
an induction variable after its loop (the event reaches the next instance),
`EndIter` and `EndStream` are the loop's events; a loop that is not a candidate
gets no `EndIter`.  Values are numbers modulo `M`, which is 2^64 in the code, and
division is that of unsigned numbers, as in `computeLinearBaseStride`.
`Indices`/`Replay` is `FunctionalStreamPattern`.  `history` and `seen` are what
the program did.

Wraparound limits what can be promised, and the properties say where.  The
alignment of two points is checked by comparing products modulo `M`, so points
that are not on a line can look as if they were: with `M` = 32, a row 0, 11, _, _,
12 is taken for aligned.  `RowsKnown` therefore asks of the first row that the
products it is checked by do not wrap around; `MostConstrained` asks it of rows
that must be recognised, and of a line with gaps (0, 1 and 12 at the places 0, 3
and 4 are on a line modulo 32 and no division finds its stride).  With 64 bits a
history would have to spread over 2^64 divided by its length to be affected.

### TracedProgram, DataGraph and Replay

`Code` is the program, instruction by instruction; `Incoming` gives a phi's
operand for each predecessor and `Frontier` the post-dominance frontier.  The
program runs with true activations (`real`), in which each instruction knows its
last execution and what it computed; phis read the state at the end of the block
before.  Uninstrumented functions may call back and may throw to an `invoke`.
The trace starts and stops at any moment (`StartTrace`, `StopTrace`), as windows
do.  `seen` records for each traced instruction what it really depends on.  The
`ASSUME`s of `TracedProgram` are the rules of LLVM's IR that the properties rest
on: blocks are phis, other instructions and a terminator; an invoke leaves to a
landing pad when an exception comes; a phi has an operand for each predecessor; a
value that is used has been computed.  What a program must stay clear of besides,
because the code is wrong there (section 5, *Data graph*), is written out at the
end of `Replay` (`PhisApart`, `ResultsTraced`, `CallbacksFit`), and `MCReplay`
assumes it of the loop.

`DataGraph` reads an entry when it is written: `ParseFunctionEnter` pushes a
frame, `GetLLVMInstruction` pops frames until the function of the instruction is
on top (or makes one up), `HandlePhiNode`, `HandleRegisterDependence`,
`HandlePostDominance`, `UpdateEnv`, `PopFrame`, `SetUpCall` are the parts of
`parseDynamicInstruction`, all composed in `ParseInst`.  `frames[k].dep` is
`RegDepLookUpMap`, `env` is `RunTimeEnv`.  A failed assertion sets `aborted`.
A value is the position in the trace of the instruction that computed it, so two
values are equal only if they are the same one.

`Replay` has one action per kind of entry, which is one step of the program and
its parsing, and `Serialize`, one round of the sliding window: output, cache
warmer, commit.  The reader may thus lag behind by what the window holds.

### TraceReader, LoopUtils and CacheWarmer

`LoadOneDynamicInst` is one call of `loadOneDynamicInst`: a step of the program
and the parsing of the entry it writes, or a step that writes nothing.  It is
shared by the replay pass and the passes on loops.  `LoopUtils` holds the
questions about loops that those passes ask (`IsInnerMost`, `IsLoopContinuous`,
`IsStaticInstLoopHead`, ...), over loops given as constants of the program.
`CacheWarmer` is `addAccess`: a byte enters the snapshot with the first load
that reads its address; stores are ignored.

### LoopPass, AbstractDataFlow, SIMDTransform, SpeculativePrecomputation

Each pass is a loop over the trace with a state that survives from one
instruction to the next.  `LoadOne` loads the next instruction into `list`; then
exactly one action of the pass handles it (`fresh` says that one is waiting), and
a last action (`Finish`, `FinishSIMD`, `Drain`) is what happens at the end of the
trace, which may come at any moment.  Each step of a pass is one round of its
`transform()`, with everything it serializes, commits and counts.  `list` is the
graph's `DynamicInstructionList`, `out` what the serializer has been given,
`dataFlow` and `slices` the accelerator's and the precomputation's own files.
An entry carries the position in the trace it comes from (0 for a token), so
that properties can put the streams back together.

* `AbstractDataFlow`: `Search`, `Buffer`, `BoundaryTooSoon`, `ProcessBuffer` and
  `FlowOn` are the cases of the state machine; `ProcessBuffer` is the whole of
  starting, configuring and handing over.  `StreamsMerge`, `SegmentsWhole` and
  `StatsExact` take the two output streams and rebuild the trace: the k-th start
  token stands for what is before the k-th end token.  `DataFlowDepsExact` compares
  the dependences left with those of the program.
* `SIMDTransform`: `SearchSIMD`, `BufferSIMD`, `CommitGroup` (the checks failed)
  and `SimdTransform` (they passed).  Which iterations may be merged depends on
  addresses, so each load and store walks over a pattern that `Init` chooses:
  consecutive, backwards, scattered or overlapping another's.  `covers` says
  which positions a wide instruction stands for and `data` which store supplied
  each byte it writes; `VectorsExact` compares both with memory as the program
  saw it.
* `SpeculativePrecomputation`: a manager per critical load goes through
  `Unknown`, `Idle`, `Building` and `Built` by `Miss`, `Learn`, `Build` and
  `Trigger`; the window (`RIB`) is the end of `list`.  `TrueSlice` recomputes the
  slice from the dependences of the program.

### The static analysis

`LoopRegion` turns a region of LLVM IR into data: loops, blocks, instructions,
and the answers LLVM gives about them (dominance, invariance, and scalar
evolution as sums of recurrences, a linear form being all the code looks at).
`StaticStream` builds, for an instruction seen from one of its loops, the graph
of phis and computations behind it (`MetaNode`), which is what
`StaticStream::constructMetaGraph` does with its work list, and
`StaticIndVarStream`/`StaticMemStream` recognise in it the kind of value
(linear, reduction, pointer chase, ...), of step, and the base streams.  An
analysis `[r, S, F, C]` is the analyzer's own state: the streams and the two
maps to them.

`StaticStreamRegion` is the constructor and the plan.  `phase` is its position;
each phase is an action, in the constructor's order: `InitializeStreams`,
address dependences, aliases, fused load operations, predicates, value graphs,
update pairs, candidates, qualification, back edges, choice; then plan,
configuration and coalescing.  A phase that goes loop by loop, load by load or with
a work list is as many steps (`todo`, `queue`).  Where the code walks an unordered
map and the order shows, the model takes every order (which load gets a store,
`MarkUpdateRelationship`; the loops in `CoalesceStreamsAtLoop`; the streams that
wait to be qualified or disqualified, or, in the transformation, to lose their core
user).  Closures and slices are recursive operators, which is why these modules stay
with TLC.

### The static transformation

`ClonedProgram` is the clone: instructions under their old numbers and inserted
ones after them, the order in each block, `val` for the value map, `removed` for
`PendingRemovedInsts`.  Its operators are LLVM's edits and the passes the
transformer runs (simplification of the control flow graph and elimination of
dead code).  `StreamExecution` is the treatment of one instruction or loop:
stream loads, stores, atomics, merging, steps, configuration, inputs, exit
values.  `StreamLoops` is nesting, elimination and clean-up.
`StreamExecutionTransformer` is their order, one step per instruction, loop or
stream: `StartTransform`, `TransformNextInst`, `ConfigureNextLoop`,
`NestNextLoop`, `EliminateNextLoop`, `CleanClonedModule`, `PropagateNoCoreUser`,
`FinishTransform`.  An assertion that fails is a member of `x.bad`.

Its properties are about the program that is written.  `ProgramPreserved` gives
each operand that is left a meaning in terms of the old program (a stream load
means the load it replaces, an exit value the value after the loop) and asks
that it is the operand's old meaning and dominates its use, and that stores,
atomics and calls stay or give way to a stream.  An atomic left in an eliminated
loop is excepted: it is lost (section 5), and one of the regions shows it.
`ConfiguredWhileUsed` follows all paths through the clone with the set of
configured loops.  `StoresDone` counts the StreamStores of each store: none if it
stays, else exactly one, with the function of its value.  A store merged into its
predicating load has that one too (section 5).

## 3. Runs

| run | question | answer |
|---|---|---|
| `threads_safety` | three threads, two slots, no thread before `main()`: are slots private (`BodiesDisjoint`), events kept (`NoReentry`, `NoLostCall`), configuration in place (`StartUpOrdered`)? | yes; it also refines `ThreadSlots`, and the inductive invariant of the proofs (`IInv`) holds |
| `threads_claim` | is the claim of a slot free of code that is traced, as its comment asks (`ClaimUntraced`)? | **no**: it makes a `std::string`, and a handler runs inside it |
| `threads_live` | do calls return, also with a thread before `main()`? | yes, or the process exits |
| `window_all` | two threads that share three intervals, one thread with uniform windows in traced functions, or one that is traced throughout and has a hard exit; recursion, exceptions, calls through uninstrumented code: are entries whole and files too (`FilesWhole`), is a thread that runs alone traced exactly and stopped on time (`WindowsExact`), is the region of interest where the program is (`ROITracked`)? | yes |
| `window_unwind` | does an exception leave the region of interest (`InROIExact`)? | **no**: the counter stays |
| `profile_loops` | loops, recursion through a loop, an indirect call, recording from the middle | recording, profile, stack, edges, intervals and marks agree with the execution |
| `pattern_mixed` | all sequences of five entries over three values, one or two instances | replay exact, choice minimal, aggregate covers, one entry per iteration |
| `replay_loop` | a loop with two back edges that calls, with callbacks, recursion and exceptions, traced from anywhere to anywhere: are dependences (`DepsExact`, `MemoryOrdered`), frames and values (`CallsFollowed`) and the memory snapshot (`SnapshotReplays`) those of the execution? | yes |
| `replay_swap` | a loop that swaps two variables: do the phis get the right producers (`RegDepsExact`)? | **no**: they are resolved one after the other |
| `execution` | 360 regions through the whole analysis and transformation, in every order of the work lists.  Analysis: do the analyzer's assertions hold, is qualification a fixed point (`QualifiedExact`), is every value that is still used served and each update pair mutual (`PlanComplete`), does each generated function have its inputs (`FunctionsServed`), are the counts of live streams exact (`AliveExact`)?  Transformation: does the program that is written do what the old one did? | yes: no assertion fails, operands keep their meaning, no effect is lost but an atomic's in an eliminated loop, streams are used while configured, a store that is removed has exactly one StreamStore, and no memory stream without core user is read |
| `execution_nest` | is every nested loop one whose trip count is known (`NestTripCountsKnown`)? | **no**: `canStreamsBeNested()` never asks |
| `loop_passes` | three nested loops, four walks over memory, traced from anywhere to anywhere, through each of the three passes on the trace | the two streams of the accelerator are the trace, its segments whole and its statistics exact (`DataFlowSound`); vectors are exact (`VectorsSound`); what the accelerator's instructions wait for, and the slices of the precomputation, are what the program needs, and no assertion of the accelerator or of its reader fails (`NeedsSound`) |

The four runs that expect a violation each quote the comment that the code
disagrees with; the lines are in `PROJECT.json` under `findings`.  Every property
of the other runs has a mutant in `PROJECT.json`: a small change to one modelled
definition, as a mistake in the code would make it, under which TLC finds the
property violated within the run's own bounds.

### Bounds, and why they are enough

* Threads: three threads for two slots, so that a slot is contended, a thread
  finds all taken and the process exits, and ids are reused.  The proofs hold
  for any number of both.
* Windows: counts to six (three intervals, one of a single instruction and two
  that touch) or eight (two uniform windows and a hard exit); depth three gives
  recursion below a traced function.  One value per event is enough to mix up
  entries.
* Profile: recordings of up to 20 instructions pass the buffer limit of four
  five times and the interval size of three six times; call depth three has the
  recursive region three times on the stack.
* Patterns: five entries is the shortest history in which a second row shows
  that the first guess was right and one can also be missing; `M` 32 keeps
  wraparound in reach.
* Replay: nine traced instructions (`MaxTime`) hold an iteration of the loop and
  the call of the next, whose argument is a phi of a phi, or a callback with its
  return; since the trace starts anywhere, what happened before is not bounded
  by it.  Activations are bounded by four (`MaxDepth`): main, its callee, the
  library and the callback.  A window of 1 already separates parsing from
  serialization; a log of three bytes (`LogThreshold`) overflows within a trace.
  Accesses are of one or two bytes at two addresses, so they overlap in part.
* Regions: two loops are enough for a stream to be seen from two loops, for an
  inner one to depend on an outer one and for a value to leave a loop.  The
  nests cross the step of the inner variable (reduction, pointer chase, linear,
  loaded one iteration earlier, conditional), the address of a second access
  (affine in either variable, indirect, invariant), whether it is conditional and
  on what, what it does (store, read-modify-write, compare-and-exchange), the
  user's parameters and the options; rows in compressed form (CSR) add an inner
  loop whose bounds are loaded.  For the transformation there are single
  loops, stencils (merged loads), filters (a conditionally stepped output),
  compressed rows and nests, each with and without merging, nesting and
  elimination.  All of them go through both in `execution`; 98806 states.
  `execution_nest` is one triple nest, the smallest where a loop can be nested past
  another.
* Loop passes: `MaxTime` 21 instructions, of which the data flow uses
  `DataFlowTime` 16: search, a buffer over the threshold of four, two segments
  and the way out.  For SIMD the number of instructions outside inner loops is
  bounded instead (`SIMDOutside` 2), since a group of `VectorizeWidth` 3
  iterations must fit and be followed.  For precomputation the fourth execution of
  a load (unknown, learnt, built, triggered) comes at 16, and `SliceClearPeriod`
  17 lets a clearing follow it.  `RIBSize` 10 is less than an
  iteration of the outer loop around one whole inner one, so the window loses
  producers.  The data flow and the
  precomputation do not look at addresses, and use one pattern.  55839 states.
* Deadlock is not checked: every program here ends, at its own end or at a bound,
  and every pass stops when it is done.

### Fairness

Only `threads_live` uses it.  Weak fairness on the lookup and on handler steps is
that of the operating system's scheduler (and of a mutex that is released).
Handlers and claims make finitely many library calls; since a recursive call
moves their `pc` away and back, that is strong fairness of `Body` and of
`ReleaseLock`, the end of a claim.  Nothing is assumed about the traced program.
The other systems are sequential and terminate by construction of their loops
over finite lists; asking for that would say little.

## 4. Proofs

`TracerThreadsProofs` (for every set of threads and number of slots):

* `Invariance`: `Spec => []IInv`.  `BodiesDisjoint` is not inductive: that two
  threads never share a slot depends on what a thread in the middle of the search
  knows.  `IInv` adds the holder of the lock (`LockInv`), that the two words of a
  slot disagree only while it is claimed (`SettledInv`), that slots are taken from
  the front (`OrderInv`), that ids are unique (`UniqueInv`), what each position
  in the search implies of the slots already passed (`ScanInv`), what an
  interrupted claim is owed when it goes on (`FrameInv`), and that the recursion
  flag is set exactly while a handler runs (`BodyInv`).  `StackInv` bounds
  recursion: a claim may be interrupted by one handler, and that one only by calls
  that are dropped.  A recursive call finds the slot of its thread before any free
  one (by `OrderInv`), so it never waits for a lock its own thread holds.
* `TypeCorrect`, `SlotsPrivate`, `NeverReentered` (handlers never nest, wherever
  the first of them was called from), `CallsKept` follow from it.
* `StartUpOnce`: `StartUpOrdered` when no thread starts before `main()`
  (`Early = {}`): only the first thread can be in `initialize()`, and the flag is
  set before it starts another.  It may get there from its call for `main()` or
  from a function entered inside that call's claim.
* `Refinement`: every step is a `Claim` of `ThreadSlots` or a stutter.  It needs
  `OrderInv` and `ScanInv` to show that the slot claimed is the first free one
  and that the thread has no other.

`TraceWindowProofs` (for all sets of threads, programs, setups and bounds):

* `TypeCorrect` and `ROIKept`: the stack is that of the execution, restricted to
  instrumented functions, and the count of traced functions in it is exact, or
  too high after an exception (`FramesInv`).
* `InvariantCorrect`: `Spec => []IInv`.  What makes the windows hard is the
  interval list that all threads shorten.  `FrontInv`: no thread is past the last
  instruction of the interval at the front, and whoever is at it has not yet
  finished its event.  `EntryInv`: an entry that will be written belongs to the
  event under way, and a function entry left unused cannot be picked up by a later
  event.  `OutInv`: what has been written is whole and in order.  `ExitInv`: a
  thread between two events is not at a count where the process stops.
* For a thread that has run alone so far, `AloneInv` adds: intervals taken off the
  list are behind it (`PoppedInv`); the handler is at the switch only after the
  last instruction of a window (`SwitchInv`); no instruction of a window behind it
  is missing (`CompleteInv`); entries share a file iff they share a window
  (`FilesAreSamples`), and whether the file is still that of the last entry says
  whether its window goes on (`FileInv`).
* Each step is first reduced to what it does to the quantities these speak of
  (`StepEffect`); then each part has a lemma on all kinds of steps.
* `TraceFilesWhole` and `WindowsTracedExactly` follow.  Both assume
  `IntervalsNotEmpty` of the setups: the code accepts an interval that ends
  before instruction 1, the first, and would never get past it.  The intervals
  of the profile all hold instructions (`NoSmallInterval`).  TLC evaluates the
  assumption in `MCTraceWindow`.

`CallLoopProfileProofs` (for every program, option and bound):

* `Invariant`: the inductive invariant adds what each phase leaves to the next
  (`PhaseInv`), where the stack's frames come from in the recording (`ReadInv`),
  that the timeline is strictly ordered (`TimelineInv`) and where the second pass
  stands between two cuts (`CutInv`).
* `TypeCorrect`, `RecordingFaithful`, `StackFollowsControl`, `EdgesCountedOnce`,
  `NoGaps`, `NoSmallInterval`: the run's properties of those names.
* `IntervalsBetweenCuts`: the intervals saved are those between one cut and the
  next (`IntervalsAtCuts`, the first half of `IntervalsFound`).  `PassInv` says
  which cut the pass stands behind: as many cuts precede it as intervals have been
  saved (`Rank`), and the logger holds the number of its mark; `SavedInv` says of
  every interval saved which two cuts it lies between.  Both are relative to `IInv`.
* `IntervalsAlwaysFound`: `IntervalsFound`, by showing that a mark is executed
  exactly when control goes over the edge it is for.  `ProgramInv` says where
  control can be after each instruction executed, `EdgeInv` that the timeline has
  a point for every time control goes over a bridge into a region, with that edge,
  and no other point with a bridge.  So the marks executed up to a point and the
  points up to it correspond one to one.  It needs `MarksPlaceable`: an indirect
  call has one target and a switch does not enter a region, which excludes the two
  defects in section 5 under *Profile*, and a region's header is not the
  instruction after a call or a plain one, which holds in LLVM, where a header
  starts a block.  The program of `MCCallLoopProfile` fulfils it
  (`LoopAssumption`).
* `ProfileCounted`: `ProfileExact`.  The logger's two maps of block counts are
  related to the sequence of instructions given to it (`LogOK`): a block's count
  is the number of its instructions, in the run or after the interval's left end.
  In fixed-size mode the left end is the number of saved intervals times the size
  (`FixedOK`).  `CountInv` says this of both loggers, with the part of the
  recording each has seen; it is relative to `IInv`.

`StreamPatternProofs` (for every modulus, set of values and bound):

* `InvariantHolds`: what the machines hold is related to the history as a set of
  points (step, value), where the steps are counted as the access pattern counts
  them.  `ConstOK`, `LinearOK` and `QuardricOK` say of a machine's parameters that
  they fit all points (`OnLineOf`, `InRowsOf`), and of a machine still undecided
  what its confirmed points are; `AccessOK` says which points each access pattern
  gives its machines.  One lemma per machine shows that a new point keeps this;
  the arithmetic (what the check of alignment modulo `M` implies of the integers)
  is in lemmas of its own.
* `FSMsTight` says the converse: points that lie on a line, or in rows of a rising
  nest, do not make their machine fail, and it has found the stride and the length
  of the row or not yet seen enough (`LinearTight`, `RowsTight`).  Lines may wrap
  around only without gaps, since then the first two points are one step apart and
  the stride comes out of an exact division.  Rows that repeat one value are a line
  to COND_UPDATE, which counts one step per row (`RowStepsAll`).
* `TypeCorrect`, `ReplaysExactly` (`ReplayExact`), `EntriesAreIterations`
  (`OncePerIteration`), `AggregateCorrect` (`AggregateCovers`) and
  `PatternsAreTight` (`PatternsTight`) follow.  Replaying needs the indices after n
  calls of `step()` in closed form, `n % ni` and `n \div ni` (`IndicesExact`); that
  nothing simpler is overlooked, that the pick is ranked no higher than any machine
  that fits (`ChosenNotAbove`).

`TraceReaderProofs` (for every set of addresses and every threshold):

* `UpdateIndexed`: the map of an `AddrToMemAccessMap` holds for each address the
  newest entry in the log and nothing else, after every update whose id is newer
  than those of its address.  `InOrder` (ids of one address increase along the
  log) is the strengthening: without it the release of the oldest entry could
  leave another one with the same id behind.
* `NeverReleasedTwice`: the assertion "This address has already been released"
  holds then.
* `AccessRemembered`: the loop over the bytes of an access keeps a map an index,
  and its log holds the last of all accesses made so far (`Remembers`): what it
  has lost is older than everything in it, and then it is full.

`ReplayProofs` (for every program in LLVM's form, window and threshold, and every
bound on the trace and the activations):

* `ProgramInv` (what the activations of the program hold; it is kept by every step of
  `TracedProgram`, in `TraceReaderProofs`) and `TraceInv` (the
  instructions serialized and those in the window are the trace, in order, each
  with the instruction and the access that the program executed) are what
  everything else is relative to.
* `SnapshotAlwaysReplays`: `SnapshotReplays`.  `MemoryInv` says that the program's
  memory holds for each byte the last store of the trace, so the bytes of a
  traced load name it; `SnapshotInv` that a byte is in the snapshot from the first
  serialized load of it on, with the value that load read.  A load before the
  first store reads the same 0 as any other; after it the last store counts.
* `MemoryAlwaysOrdered`: `MemoryOrdered`.  `MapInv` carries `AccessRemembered` along
  the trace for both maps; so a look-up gives the last access to the byte, or the
  log has had more than `LogThreshold` entries since (`LookedUp`: the entries are
  distinct, so they can be counted).  `DepsInv` keeps that for the dependences of
  each instruction, and along the chain of stores to a byte an instruction waits
  for all of them (`StoresAwaited`, by the least instruction for which it would
  fail).

`ReplayFramesProofs` (as `ReplayProofs`, with the hypotheses named in a theorem):

* `FramesInv`, the inductive invariant: while the trace is read there is a way to
  place the frames on the activations (`Tracked`), in order, so that each frame
  is of its activation's function and knows of its instructions what the
  activation does (`Follows`: the last execution, the block left last, the value
  if it has one).  The frames below the last are in a call, and the call pending in
  them is the activation's (`AtCall`).  An activation without a frame is one that
  the trace has not reached since it began (`Fresh`, so knowing nothing is right)
  or uninstrumented.
* Exceptions are why a placement is needed: the program's activations are gone at
  once, the frames only when the next entry of the trace is read.  The frames left
  behind (`LeftBehind`) are above the one of the activation with the landing pad,
  which stands at its beginning.  None of them is of the same function, since
  `Throw` passes no second activation of the function that catches (section 5), so
  the frame that `GetLLVMInstruction` finds as the last of its function is the
  right one (`FrameFound`), also in recursion.
* One lemma per action keeps it (`PhiFrames`, `CallFrames`, `ReturnFrames`,
  `ThrowFrames`, ...), from lemmas on sequences of frames and activations that
  change only at their ends (`BothChange`, `FallsBack`, `ReturnsIn`, `ReturnsOut`).
* `ControlDepsAlwaysExact` (`ControlDepsExact`) needs no hypothesis.
  `DepsAlwaysExact` (`DepsExact`) needs `PhisApart`; `FramesAlwaysExact`
  (`FramesExact`, with it that no assertion fails) needs `CallbacksFit`; and
  `CallsAlwaysFollowed` (`CallsFollowed`) all three.  These hypotheses are not
  those of a convenient proof: each excludes one of the defects listed in
  section 5 under *Data graph*, and `LoopCode`, which calls, recurses, calls back
  and throws, fulfils all three (`LoopAssumption` of `MCReplay`).
* `TypeCorrect` (`TypeOK`) follows from `FramesInv`, `MapInv` and `WindowInv`.

`LoopPassesProofs` (for every program in LLVM's form, every nest of its blocks in
loops and every buffer threshold):

* `StreamsAlwaysSound`: `DataFlowSound`, which is that of `StreamsMerge` (the
  instruction stream, with the segments of the data flow in place of the start
  tokens, is the trace but for what the list still holds), `SegmentsWhole` (each
  segment is long enough, of one loop, begins with an iteration, is run by an
  accelerator configured for it and ends where the loop is left) and `StatsExact`.
* The inductive invariant has three parts.  `ListOK`: the list is the end of the
  trace.  `StateOK`: what is in the list in each state, so that what
  `ProcessBuffer` hands over is of the loop and begins at its header.
  `StreamsOK`: the streams hold what has left the list (`Placed`), each segment is
  as it should be (`Parts`, `Sizes`, `Ended`) and counted (`Counted`), and the last
  segment is open exactly in a data flow (`Open`, `Closed`).  That a segment ends
  where the loop is left has to be said of the trace as it will be (`LeftAfter`),
  since the instruction that leaves is still in the list when the end token is written.
* The streams only grow at their ends, by instructions or by one token, so there is
  one lemma per kind of growth (`BaseKept`, `BaseConfig`, `BaseStart`, `BaseMoved`,
  `BaseEnd`), each from lemmas on how many start and end tokens are before a position
  (`UpToLess`, `LongerUpTo`, `SegmentsGrow`); one per action puts them together
  (`SearchStep`, `ProcessStep`, `FlowStep`, ...).
* That an instruction in a loop within a candidate is no reason to leave it needs
  that loops nest (`InCurrent`, `InnerContinuous`, from `LoopNestAssumption`).
* `PassAssertsAlways`: no step of the pass fails one of its own assertions on the
  list.  `DataFlowSound` is stated up to the first failed assertion, since one of the
  reader's can fail: a callback may have more parameters than the pending call has
  operands (section 5, *Data graph*).  On the instance of `loop_passes` none does
  (`NeedsSound`).

Assumptions are the `ASSUME`s of the modules: sizes and thresholds are natural
numbers, interval sizes are positive, the program's functions map instructions to
instructions, loops nest.

The library's induction principles take an operator and are out of the provers'
reach.  Where a recursive function has to be known for every argument, the proofs
take the least argument at which the claim would fail, which exists by the
well-foundedness of the natural numbers (`LeastElement`), and refute it.

Only model-checked: `CallsReturn` (liveness under fairness is out of the prover's
reach), the dependences of the accelerator's instructions (`DataFlowDepsExact`, in
`NeedsSound`), the SIMD pass and the precomputation.  The static analysis and
its transformation use recursive operators (work lists, paths, slices) that the
prover cannot expand, so they stay with TLC for good.

## 5. What is not modelled

`PROJECT.json` lists every part with a reason.  In short: encoding and
compression of the files, the instrumentation's rewriting of IR, floating-point
statistics, and reports.  Within modelled parts:

* runtime: exit handlers, the modes `Profile` and mark-delimited tracing (which
  do not count instructions), the operating system's signals;
* data graph: the integrated mode (memory base and offset), values of globals,
  arguments and constants;
* static analysis: scalar evolution beyond linear forms, names and pragmas except
  the user's parameters, the protobuf of the result;
* transformation: matrix tile loads, streams the user defines, the trip count as an input,
  the intrinsics on memory streams, the files written at the end.  The transformation of
  a trace by `DynStreamRegionAnalyzer` has no behaviour to model: `FuncSE` is
  declared (`stream/DynStreamRegionAnalyzer.h:67`) and never created, the base
  step roots it selects by are never computed, and `stream/DynStreamRegionAnalyzer.cpp:94`
  reads a plan of static streams as dynamic ones;
* inline context and prefetch passes, `CCA.cpp` (outside the build),
  `DynamicLoopTree.cpp` and the functional stream engine (created by nobody).

Known limits of the code that the modelled programs stay clear of:

* *Runtime.* Two threads can pass the unlocked flag of `initialize()`
  (`trace/Tracer.cpp:196`) when one starts before `main()`; `StartUpOrdered`
  holds only without.  With shared intervals the first thread to finish one
  takes it away from the others, whose instructions of that interval are not
  traced.  Slots are never given back (`trace/Tracer.cpp:385`).  What a handler
  inside a claim (`threads_claim`) does to the rest of the slot is not followed:
  it works before the profiler is set up (374).  A name longer than 255
  characters is lost to `unwind()` (608), see *TraceWindow* in section 2.
* *Profile.* The mark of an indirect call counts all its targets.  An edge whose
  terminator is a switch gets no mark (`trace/SimpointIntervalSelectPass.cpp:237`).
  An inner loop that leaves to the header of the outer one pushes a frame that
  only the outer one's exit pops (`trace/CallLoopProfileTree.cpp:53`).  The name
  made unique in `trace/InstructionUIDMap.cpp:94` can be another function's.
* *Patterns.* `AggregateCovers` is about value patterns.  Access patterns are merged
  the same way, but conditional access and conditional update are not comparable: of
  these the first is kept (`Merge`), which does not cover the other
  (`stream/StreamPattern.cpp:524`).  The stride of rows is divided as an unsigned number, so falling
  rows get a wrong one; the histories of `pattern_mixed` hold the ones that do
  divide.
* *Data graph.* An exception that passes a second activation of the function that
  catches it (frames are popped to the first with the right function); the result
  of an uninstrumented function (the environment keeps the first value an operand
  shows); a callback with more parameters than the pending call has operands (an
  assertion fails); a phi whose operand is an earlier phi of its block
  (`replay_swap`).
* *Region statistics.* `InRegion` of `RegionStatRecorder.cpp` stays false when a
  region is entered again.
* *Transformation.* The `continue` meant to spare a stream in the propagation of
  `no_core_user` continues only the inner loop; a step is placed ahead of a
  dependent in its own block; a call in the slice of a nest predicate
  (`BasicBlockBranchDataGraph.h:8`).  `NoCoreUserSound` looks at memory streams, and
  none of the regions still reads one that this `continue` adds: it does no harm there.
  Two more are within the regions, and the properties say so.  A store that
  `mergePredicatedStore()` merges into its load (1352-1364) also gets a StreamStore from
  `handleValueDG()` (1439-1456), whereas the option says "Merge predicated store
  stream into load stream." (`stream/StreamPassOptions.cpp:41`).  And an atomic that is
  no stream, say of a fixed address, is lost with the loop when it is eliminated:
  `canLoopBeEliminated()` asks for calls and stores only
  (`stream/execution/StreamLoopEliminator.cpp:204`).
* *Accelerator.* When the trace ends inside a data flow, its last instruction is
  lost (`adfa/AbstractDataFlowAcceleratorPass.cpp:153`).  The wrapper reads only
  one kind of dependence, so those on induction and reduction variables are
  absent from its stream (`DataGraph.cpp:515`); slices of the precomputation
  lack them for the same reason.  Both properties leave these dependences out.
* *SIMD.* Wide instructions drop dependences on induction, reduction and control;
  the cache warmer is never told; an anti-dependence on a load hidden behind a
  newer load of the same bytes is unknown to the pass, so a wide store can move
  ahead of it (`Hidden` in `VectorsExact`); a scattered store has no entry in the
  map to new instructions (an assertion at `simd/SIMDPass.cpp:794`); a
  conditional affine access is taken as scattered (another at 1053); the phis of
  the next header have been parsed and keep ids of replaced instructions, and the
  repaired maps name the wide instruction even where a later one outside is newer
  (857, 1413).

## 6. Plan

What is left, by how much depends on it.

1. Proofs: `ScalarsCovered` of `SIMDTransform` (every replaced instruction is in one
   wide one), as `StreamsMerge` is proved for `AbstractDataFlow`; then
   `DataFlowDepsExact`, from the look up maps of the data graph.
2. `RegionStatRecorder` over the same trace as `Replay`, and the integrated mode
   of `DataGraph`.
3. `InstructionUIDMap`: uniqueness of names, parse after serialize.
4. The inline context pass, over the activations of `TracedProgram`.
