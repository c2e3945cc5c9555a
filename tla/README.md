# TLA+ models of SwitchRecomp

SwitchRecomp translates Switch modules (NSO0 executables, AArch64) ahead of
time and runs the result under a controlled session.  This directory holds
models of its pipeline, from module files to translated blocks, and of the runtime
under them; the TLC configurations that check them on small instances; and the
proofs that carry the results about the runtime, the analyses and the loading of
images to every instance.

Paths below are relative to the repository root.  `PROJECT.json` gives the
machine-readable side of this document: the components, the runs, for every
definition the lines it was written from, for every property a mutated
definition that breaks it, the hazards and the theorems.

    tlc -config MCGuestMemory.cfg MCGuestMemory     # one run
    tlapm --cleanfp GuestMemory_proofs.tla          # one proof module

## 1. The system

### 1.1 The pipeline

    target manifest, SHA-256           target/, common/
      -> NSO0 header, LZ4 segments     format/nso.cpp
      -> MOD0, dynamic section,
         symbols, RELA                 format/mod0.cpp, elf_*.cpp, dynamic_symbols.cpp
      -> guest address space           memory/guest_memory.cpp, loader/nso_guest_loader.cpp
      -> relocations, symbol lookup    loader/relocation_processor.cpp, symbol_resolver.cpp
      -> several modules at once       analysis/module_set.cpp, process_image.cpp
      -> decoding, control flow        aarch64/, analysis/cfg_analyzer.cpp
      -> finalized function map        analysis/function_map.cpp
      -> lifting to a semantic IR      lifter/, ir/
      -> interpreter | LLVM backend    interpreter/, codegen/
      -> execution session             execution/session.cpp over runtime/
      -> observed indirect targets, refinement of the map, and again
                                       analysis/indirect_target.cpp, tools/run-entry

State that lives, and goes wrong, over time is in the guest memory, in the
runtime (shared memory coordinator, threads, the boundary to the host), in the
session and in the refinement loop around it.  Up to the function map everything
is computed once from immutable input and fails as a whole; what can go wrong
there is an algorithm (worklists, waves, fixed points, a transaction) whose
result is to be what a definition without any order says.  Translation has no
state over time, but three descriptions of each instruction (lifter and
interpreter, lifter and LLVM backend, the architecture) that have to agree.
There are models of all three kinds.

### 1.2 Components

For each: its state, its operations, who it talks to, what is hard, and what
makes it correct.

**Atomic memory coordinator** (`runtime/atomic_memory.cpp`, `context.cpp`).
State: guest bytes, a generation number per reservation granule, one
`ExclusiveReservation` and one recorded error per guest thread.  Operations: the C ABI
helpers that generated code and the interpreter call (plain, vector, atomic
and exclusive loads and stores, clear-exclusive, barrier).  Generated code calls
it from every guest thread; host import handlers write the same memory without
it.  Hard: interleavings of threads, and generations that are captured now and
compared much later.  Correct if a load-exclusive / store-exclusive pair is one
atomic step and every write is seen by every reservation it touches.

**Guest threads** (`runtime/thread.cpp`).  State: lifecycle (Created, Running,
Exited, Joined), captured error, native thread; the manager's list and next
identifier.  Operations: create, start, the native body, join, join_all,
has_error, destruction.  Hard: `joinable()` and `join()` run outside the
lifecycle lock; several callers, guest threads included, may join; callbacks go
on while the manager is destroyed, and its destructor drops what its own join_all
returned.  Correct if Joined means reaped, errors are final once visible, calls
return, and destruction leaves no native thread, as long as no callback is inside
a join when it begins or starts one while it runs.

**Guest memory** (`memory/guest_memory.cpp`) and **NSO guest loader**
(`loader/nso_guest_loader.cpp`).  State: the sorted vector of mappings, limits
and counters, ownership domain, tokens held by clients.  Operations: map,
map_owned, release_owned, copy, lookup, read, write, loader_write, load of a
whole image.  Clients: the loader, the relocation processor, the session
(stacks), the coordinator.  Hard: stale tokens, counters apart from the
vector, loads that fail half way.  Correct if mappings never overlap, counters
are exact, only the holder of a live token can release, images are whole.

**Execution session** (`execution/session.cpp`) over the **interpreter**
(`interpreter/interpreter.cpp`).  State: explicit guest call frames, the
interpreter's cursor in the current frame, CPU program counter, counters and
budgets, the bounded event history, the stack mapping.  Operations: `run` (setup,
slice, dispatch of calls, returns, tail transfers, imports, traps, faults,
stops) and destruction.  Hard: long sequences of calls, tail calls and imports;
slices that end anywhere; every limit reached at every point, the event limit
inside the reporting of another stop.  Correct if the frame stack is one the
guest could have built, no budget is exceeded by slicing, every run ends and
says why, the stack mapping is released exactly once.

**Runtime imports and dispatcher** (`runtime/imports.cpp`,
`dispatcher.cpp`, and `session.cpp` where it dispatches an import).  State: the
registry by symbol name, the TLS registrations of modules, the registry of
compiled functions, and during a call what its handler has done.  Operations:
register, find, validate the call frame, invoke, judge the outcome,
register_dso_tls, register and look up compiled code.  A handler is any host
code.  Correct if a handler runs only when it is due and its arguments can be
read, an unimplemented import never runs one, modules share no byte, a call
reaches the one function at its target, and a guest never goes on with a result
nobody wrote.

**Relocation processor, symbol resolver** (`loader/`).  A plan is computed, kept,
validated again when it is applied, committed, and rolled back when a write
fails.  Hard: the memory may have changed in between, and the rollback is made
of writes whose results are ignored.  Correct if memory holds all of the plan or
none of it.

**Process image, module set** (`analysis/process_image.cpp`, `module_set.cpp`)
over the **formats** (`format/`).  Modules are loaded at disjoint bases; every
undefined symbol looks for exactly one provider.  Correct if modules do not
overlap, a bound slot holds the one definition of its name, ambiguity is
reported and never resolved silently, and nothing is bound while the set may be
incomplete.

**CFG analyzer, function map** (`analysis/cfg_analyzer.cpp`,
`function_map.cpp`).  State while building: pending entries, known boundaries,
records, budgets.  A discovery loop in parallel waves, then finalization passes
up to a fixed point; a later build reuses the records of a published map.
Correct if a graph is what reachability defines, whatever order leaders are
found in, and a map does not depend on the number of workers.

**Indirect-target assessment and refinement** (`analysis/indirect_target.cpp`,
driven by `tools/run-entry/main.cpp`).  State: candidate records, map
generation, round state, ledgers, first exhaustion.  Operations: observe,
begin_round, begin_candidate_assessment, can_commit, record_*, end_round; and on
the map assess, rebuild with a batch, accept.  Correct if it ends, overspends
no ledger, drops no candidate silently, publishes a map exactly when it
records one, and a promotion takes nothing from the map but what it moves.

**Translation** (`lifter/`, `interpreter/`, `codegen/`, the vector runtime).
Functions of their input.  Correct if, for each instruction, the lifted
operations mean to the interpreter and to the LLVM backend what the architecture
says.  **Decoder, floating point, tools, common utilities**: see section 5.

### 1.3 How they interact

- Guest threads, through the C ABI, call the coordinator, which locks one mutex
  around every access.  An error is stored in the calling thread's context and
  stops that thread's guest code until the host clears it.
- The session owns one stack mapping in the guest memory by token; loader and
  session are both clients of the mapping limits.
- The interpreter returns to the session when a slice is full or a block ends
  in a boundary; the session keeps the frames and hands one of them back.
- An unknown indirect target ends the session; the driver assesses it, builds
  a new immutable function map and starts a new session on it.
- An import call leaves the guest's registers and a slice of its stack to a host
  handler; how the handler ends is judged before the guest goes on.
- Threads of the analysis pools share only immutable input and write disjoint
  slots, but what was known when their wave started bounds what they see.
- The relocation plan of a process is made by one component and applied by
  another, over a memory that a third owns.

## 2. Modules

| module | models | instance | proofs |
| --- | --- | --- | --- |
| `AtomicMemory` | coordinator and C ABI helpers | `MCAtomicMemory` | `AtomicIncrement_proofs` |
| `AtomicCounter` | abstract: an atomic counter | | |
| `AtomicIncrement` | retry loop over `AtomicMemory`, implements `AtomicCounter` | `MCAtomicIncrement` | `AtomicIncrement_proofs` |
| `ThreadLifecycle` | guest threads and manager | `MCThreadLifecycle` | `ThreadLifecycle_proofs` |
| `AddressSpace` | abstract: who uses which address | | |
| `GuestMemory` | mappings, tokens, transactional load, implements `AddressSpace` | `MCGuestMemory` | `GuestMemory_proofs` |
| `EventLog` | the bounded event history | | |
| `ExecutionSession` | session over the interpreter's cursor, uses `EventLog` | `MCExecutionSession` | `ExecutionSession_proofs` |
| `RefinementWorklist` | records, rounds, ledgers and exhaustion of refinement | | |
| `RefinementDriver` | its two clients: run-entry's loop and any library caller | `MCRefinement` | `RefinementDriver_proofs` |
| `RuntimeImports` | the boundary to the host, the compiled-function registry | `MCStaticAnalysis` | `ProcessImage_proofs` |
| `GuestCode` | code as the analyses see it, and reachability, which they are compared with | | |
| `CfgAnalyzer` | the control-flow graph of one function | `MCStaticAnalysis` | `CfgAnalyzer_proofs` |
| `FunctionMap` | the map: waves, discovery, finalization, conflicts, reuse | `MCStaticAnalysis` | `MapRefinement_proofs` |
| `MapRefinement` | assessment, batch rebuild and acceptance, over `FunctionMap` | `MCStaticAnalysis` | `MapRefinement_proofs` |
| `ModuleFile` | NSO, MOD0, dynamic, symbol and relocation tables | | |
| `Relocation` | resolution, plan, commit and rollback, over `ModuleFile` | `MCStaticAnalysis` | `ProcessImage_proofs` |
| `ProcessImage` | layout, loading, namespace and binding, over `Relocation` | `MCStaticAnalysis` | `ProcessImage_proofs` |
| `CpuState` | registers, flags, vectors, checked memory | | |
| `A64`, `A64Memory` | abstract: what each instruction means | | |
| `Lifter`, `MemoryLifter`, `VectorLifter`, `SystemLifter` | instructions lifted to IR operations | | |
| `BlockLifter` | a block: operations, terminator, limit, trap of a prefix; what counts as liftable | | |
| `Interpreter`, `VectorRuntime` | what an IR operation computes, interpreted | | |
| `LlvmBackend` | and compiled, by both lowerings | | |
| `Translation` | a block executed by all three in lock-step | `MCTranslation`, `MCStaticAnalysis` | |

### AtomicMemory

`bytes`, the generation of every granule, `reservation[t]` and the error of
each thread are the code's state; `seen[t]` is a history variable that
remembers what a load-exclusive returned and what was written since, for the
properties only.  Each helper takes the mutex for all of its effect, and what
it does before locking touches only its own thread, so one helper call is one action:
`GuestLoad`, `GuestStore`, their vector forms, `AtomicLoad`, `AtomicStore`,
`ExclusiveLoad`, `ExclusiveStore`, `ClearExclusive`, `MemoryBarrier`,
`ClearError`.  `HostWrite` is an import handler that writes the raw
`GuestMemory`; the constant `HostBytes` are the addresses it may write.  Every failure path
(width, order, alignment, permission) is in the guards.  The memory-order argument
only matters for validity: the mutex makes every access sequentially
consistent.

### AtomicIncrement and AtomicCounter

The loop of `tests/milestone9_threads_atomics_tests.cpp`: load-exclusive,
add one, store-exclusive, again on status 1; other threads write
beside the cell in the same granule.  `AtomicCounter` is one step, "add one".
The refinement mapping reads the counter out of the bytes of the cell.

### ThreadLifecycle

A step is what a caller does between two acquisitions of a mutex.  `join` is
therefore four steps, `JoinCheck` (locked), `JoinTest` (`joinable()`,
unlocked), `JoinNative` (the blocking join, unlocked), `JoinMark` (locked);
`join_all` is a loop of them.  The body is `EntryReturns`, `RecordError`,
`MarkExited`, `NativeEnds`.  `std::thread` is external: joining waits for the
end of the body, joining a thread that is not joinable, or oneself, throws.
What happens when two threads are inside `join` of one native thread is undefined
behaviour in C++; the model lets each of the possible outcomes happen.

`Destroy` begins `~ThreadManager` at any moment: callbacks may be inside a call
then, and may create, start, join and join_all while the destructor's own join_all
runs (`phase` = joining).  That join_all is the same loop, with the same refusals
and the same throws; a refusal ends it with threads unjoined, a throw terminates
the process, as destructors are noexcept.  `DestroyMembers` drops the result and
goes on to the members (`phase` = destroying): for each thread in order
`DestroyTest` (`joinable()`), `DestroyJoin`, and `DestroyGuest`, which destroys
`worker_`.  `DestroyFails` is a throw of that join, or the destruction of a
`std::thread` that was started after `joinable()` was asked.  A callback that uses
a destroyed thread, or the manager whose members are being destroyed, is undefined
behaviour: `phase` becomes undefined and nothing more is said.  `disturbed`
is a history variable: a callback was inside a join, or in join_all, when
the destructor began, or entered one while it ran, or called anything once the
threads were being destroyed.  Creating and starting threads while join_all runs
does not disturb it: what it misses `~GuestThread` joins.  The only assumption is
that the host owns the manager and calls nothing after it began to destroy it.

### GuestMemory and AddressSpace

`mem[m]` is a `GuestMemory` object; the sorted vector is the set of its
elements and `lower_bound` the least element at or above a base (the set of mappings
has no duplicates, as one mapping starts at each base).  Tokens are
values the client may copy, so `issued` keeps every token ever handed out and
`Release` is tried with any of them; `held` are those never released.
Image loads are a transaction of several steps (`BeginLoad`, `LoadSegment`,
`LoadRunsOut`, `CommitLoad`) on a staged copy.  Contents of the mappings are left to
`AtomicMemory`.

`AddressSpace` is what a client may rely on, without limits, counters, domains or
staged copies: a user for each address, leases in force, and four steps that take
unused addresses or give one lease back.  The refinement mapping reads the users
out of the mappings, the leases out of the tokens held and their number out of
the counter of identities.  Refused calls, failed loads and everything a load
does before it commits are stutters.

### EventLog and ExecutionSession

The guest is any program: at each step the current block may run an operation
or end in any terminator with any target, up to `BlockOps` operations a block.
`Op`, `Branch`, `Return`, `Call`, `Transfer`, the imports and the stops are the
terminators and boundaries; `Dispatch` is the session's switch on them,
`Run` the setup, `Destroy` the destructor.  A frame is its block, the operation
cursor, whether the block was counted, the address it has to return to and its
depth.  The log keeps the number of events, the retained prefix and window as
intervals of event numbers, and the kind of the last event: what the reports
can be asked about.

### RefinementWorklist and RefinementDriver

`items` are the candidate records (pending, assessed, promoted, the generation
of the last assessment); `counters`, `ledger` and `exhaustion` are the code's own.
Each public operation of the worklist is one operator; a counter that is full
reports `CounterOverflow` at `CounterMax`.  The driver's `phase` is its place
between the calls of run-entry's loop; a session reports hits on known entries
and at most one new target, since it ends at it.  The library client calls
anything in any order with batches of any width.  `LedgersHold` is about both
clients, `DriverSettles` and `DriverEnds` about the loop.

### RuntimeImports

`imports` is the registry, `modules` the TLS registrations, `functions` the
compiled functions; `call` is the import whose handler runs.  Registration, the
four ways the session dispatches an import (`Unresolved`, `Invalid`,
`Unimplemented`, `Enters`), what a handler may do (`SetsReturn`, `RegisterTls`)
and how it ends (`ResumesGuest`, `StopsIn`, after any outcome, error or
exception) are actions; `returned` is a history variable, "X0 was written since
the handler was entered", beside the code's own `written`.  Sizes are the real
ones (eight register arguments, 8-byte slots, 16-byte stack alignment, 4-byte
instructions), in a 256-byte address space with a text, a data, a write-only
page and a last page from which sums leave the space.

### GuestCode, CfgAnalyzer, FunctionMap, MapRefinement

An instruction slot holds a kind of control flow and a target.  `GuestCode`
defines by reachability what belongs to a function, where its blocks start and
which edges they have; `CfgAnalyzer` is the worklist that computes it.  One turn
of its loop, `DecodeBlock`, is decode_block with everything it calls: the targets
of the last slot are marked as leaders and enqueued in the code's order (the
branch target before the fall-through), blocks they fall into are split, and the
block is published in as many parts as it has leaders, each of which is enqueued
unless it is in the graph.  `FunctionMap` uses that definition for a single function and models what happens
between functions: seeds, waves of as many entries as there are workers, merging
in address order, boundaries found by direct calls, re-analysis, finalization
passes, conflicts, and a build that reuses a published map.  `wave` holds what is
left of a wave and `checkpoint[e]` the boundaries that had been discovered when a
pass analysed `e`; both are sets, since the code reads them in address order only.
`MapRefinement` adds the assessment of a target that was met at run time, the rebuild with a
batch of them and the test that accepts it; `Matches` compares the three parts of a
reconciliation with what the assessment computed, as boundary_refinement_matches
does.

### ModuleFile, Relocation, ProcessImage

Sizes and addresses count words.  `ModuleFile` says which headers and tables are
accepted and what they yield; `Relocation` has an action per preflight, write and
end of a commit, and the rollback is one action per slot, from the last write done
to the first (`RollBack`, `Restore`, `RolledBack`), beside stores and releases by whoever owns the
memory; `ProcessImage` lays out, loads, indexes symbols, plans, applies and
verifies.  A 64-bit slot is two words, the low one first, so two relocations may
overlap.

### Translation and the modules under it

One guest instruction is one step.  It is lifted by `BlockLifter` over the four
lifters, and each IR operation gets its value from an operator that is a
constant of theirs: `Interpreter` in one instance, the two lowerings of
`LlvmBackend` in the others, so that the lifter is written once and shared, as in
the code.  `A64` and `A64Memory` are the reference, written from the architecture
with integers and bytes; they share no formula with the lifter.  A byte has
`ByteBits` bits; with one, W has 4 and X 8 bits, every width keeps its proportion
to the others and an X register has 256 values.  Vectors keep their 16 bytes, and
the 64 operations an instruction may become are not scaled.

## 3. Runs

| run | question | bounds | distinct states |
| --- | --- | --- | --- |
| `atomic_memory` | is a reservation exactly as stale as the coordinated writes make it, and the pair atomic where host code does not write behind the coordinator? | 2 threads, 2 granules of 2 bytes, one byte that host code writes, a read-only byte, an unmapped address, 2 byte values, 2 orders, 2 generations | 115 000 |
| `atomic_increment` | does the loop implement a counter and end? | 2 workers of 3 rounds, 2 writes beside | 7 000 |
| `thread_lifecycle` | with the host and entry callbacks joining each other and themselves, before and during destruction, what stays true, do calls return, does destruction end and is it safe? | 2 threads | 149 000 |
| `thread_join_error` | does join return the entry's error, as documented? (no) | 1 thread | 272, stops at the violation |
| `guest_memory` | mappings, tokens, loads in any order: are they an address space whose addresses nobody loses? | 5 addresses, regions up to 3, total 4, 3 mappings, 2 colliding images, 3 ownership domains | 40 000 |
| `execution_session` | arbitrary guest code under every budget, run twice | 3 blocks of up to 2 operations, 6 budgets | 226 000 |
| `session_resume_pc` | does a return resume at the continuation, as documented? (no) | the same, run once | 413, stops at the violation |
| `refinement` | can any order of calls overspend a ledger, is exhaustion final, does the loop end and settle? | 2 targets, 1 site, 1 ledger, 5 budgets, counters to 3, 7 library calls | 276 000 |
| `static_analysis` | graph, map, promotion and what makes a build end, relocation, image, translation, boundary: each subject over its own inputs | below | 1 640 000 |
| `refinement_drops_function` | does the old map stay in force when an analysis fails, as documented? (no) | one program of 8 slots, one promotion | stops at the violation |
| `bit_select` | do BIF, BIT and BSL select the bits the architecture selects? (no) | vectors of 16 one-bit bytes | stops at the violation |
| `liftable_too_long` | is what coverage counts as liftable lifted, as documented? (no) | every vector form and structure, 64 operations | stops at the violation |

Why the bounds are enough:

- *Atomic memory*: a straddling access needs two granules, a lost reservation a
  second thread; a second generation is what distinguishes "changed" from
  "changed back".  `Threads` is a symmetry set.  Byte values beyond two add nothing, as no
  operation computes with them.
- *Counter*: two bytes of two values, so the increments carry from one byte to
  the other; the granule is wider than the cell, so it can be lost to a
  neighbour.  `MaxGeneration` is above the writes the run can make.  The table `Succ` is
  checked against addition by the assumption `SuccAddsOne`.
- *Threads*: two identifiers suffice for a self join, a mutual join, two and three
  joiners of one thread, a callback that makes the destructor's join refused or throw,
  and for the identifier to wrap.  The one case they do not reach is a
  thread started between `joinable()` and the end of `~GuestThread` (the second
  alternative of `DestroyFails`), which needs a third; the theorems cover it.
- *Guest memory*: every relation of two ranges (apart, touching, overlapping,
  containing, at the end of the address space, wrapping) fits into five
  addresses, and each limit is reached.  The images share an address after a first
  segment that loads, so one load fails half way in a memory that holds the other.
- *Refinement*: two targets make a batch wider than a budget of one, and a
  candidate that waits for another; each budget set has another limit reached, the
  legacy limits included; counters overflow within the calls.
- *Graphs and maps*: four slots hold a conditional loop, a branch into the middle
  of a published and of the current block, a branch out of the function and calls
  between functions; the second set of limits is met by most programs.  One and
  two workers, up to two promotions of one or two targets.
- *Relocation and images*: two or three writes, overlapping or not, over four
  mappings of which two may go away; up to three modules, explicit and automatic
  bases, weak, strong, local and missing definitions of one name.
- *Translation*: every modelled form of instruction, alone and in blocks of two
  or three with a branch, from register values at the edges of both widths
  (0, 1, the sign and the limit of W and of X) and addresses at the ends of the
  loadable and storable ranges.  Exclusive pairs with 15 kinds of instruction
  between them, five ends and a retry branch.
- *Boundary*: signatures around the number of register arguments and around what
  was observed on the stack; stack pointers aligned, misaligned, zero, unreadable
  and at the end of the space; nine modules that are apart, overlap or are
  invalid; nine ranges of compiled code likewise; two registrations at most
  (`MaxTls`).
- *Session*: two operations distinguish a block cut at its start, inside and at
  its end; two labels and a function give calls, tail calls, continuations and
  recursion up to the depth limit; each of the six budgets hits another limit, and a second run
  meets whatever the first left.

Deadlock is checked everywhere but in `thread_lifecycle`, where two callbacks that
join each other really do block for ever (`CallsReturn` says that nothing else
does), and in `refinement`, `static_analysis`, `refinement_drops_function`,
`bit_select` and `liftable_too_long`, whose subjects end.

`static_analysis` holds several subjects in one state space: `subject` chooses
one at the start and the variables of the others stay constant, so every
behaviour is one of a single module.

### Fairness

- `IFairSpec`: each worker's load and store are weakly fair: native threads are
  scheduled.  That the loop ends is then a consequence of `LossMeansProgress`.
- `ThreadLifecycle!FairSpec`: the native bodies, callers inside a call, and the
  destruction go on (weak fairness).  That an entry callback returns is strongly
  fair: one that keeps coming back from the calls it makes ends at some time, one
  that blocks in a call need not.  Starting, joining or destroying is the client's
  choice and has no fairness.
- `ExecutionSession!FairSpec`: `run` is a loop without waiting, so a step of a
  running session is weakly fair.  The guest may still choose to loop for ever;
  that it cannot is `RunEnds`.
- `RefinementDriver!Spec`: run-entry's loop is sequential and waits for nobody,
  and a session it runs ends (`RunEnds`), so its next call is weakly fair.  A
  library client has no fairness.

### What the properties say of the code

- *Reservations* (`ReservationSound`, `StaleStaysStale`,
  `ExclusivePairAtomic`): a store-exclusive
  succeeds only over the bytes its load-exclusive returned, but for those in
  `HostBytes`: a host write moves no generation.  For them
  `ExclusiveStoreUninterrupted` is what remains, and the reason an import handler
  must not write a cell the guest synchronizes on.
- *Threads*: `JoinedMeansReaped`, `LifecycleForward`, `ErrorFinalOnceExited`,
  `JoinAllComplete`, `CallsReturn`, `DestructionEnds`, `DestructorSafe`.
  `CallsReturn` is about all callers at once: a join can be kept from returning only
  by callbacks that wait for each other in a circle, never by a race of two joiners.
  `DestructorSafe` says what ignoring the result of join_all costs: a manager that is
  gone left no native thread in any case, since `~GuestThread` joins what join_all did
  not; but only undisturbed is the ignored result a success and the process sure to
  survive.  `DestructionEnds` is the same over time.
- *Memory*: `NeighboursSuffice` is the argument the code makes implicitly when
  it compares a new range with its two neighbours; it holds because of
  `MappingsDisjoint`, which holds because of it.  `ImplementsAddressSpace` and
  `HeldTokenReleasable` are the two directions of "a token is a capability": no
  call, release or load takes an address from the holder of another one, and
  nothing others do makes the holder's own release fail.
- *Session*: `FramesAgree` relates each suspended frame to the frame above it
  after any sequence of calls, tail calls, imports and yields.
  `BlocksPayForEverything` is the bound on events of docs/MILESTONE_34.md,
  which states 6 + 11 per block; six setup and stop events and five per block
  are enough.  `BudgetsHold` includes the one permitted excess: guest blocks are compared
  between slices, so a run may enter as many more as a slice has operations.

- *Refinement*: `LedgersHold` relates the counters to the records and budgets they
  account for, after any calls; `ExhaustionStands` is the promise that the limit
  reported is the first one met and that nothing is taken up after it;
  `DriverSettles` says that a loop that ends by itself left no candidate behind,
  and that the map it ends with is the recorded promotions, a generation for each.
- *Analyses*: `CfgExact` and `MapIsExact` compare worklist and waves with
  reachability, so the result depends neither on the order nor on the workers;
  `CfgExact` also says why a build may fail.  `PromotionHolds` is the frame
  condition of a promotion: it takes from a function only where a new entry lies
  in what the function owned, and no two old functions conflict anew.
  `BuildsAdvance` says why a build ends: each of its steps descends, although
  waves re-open functions that were done and passes may start over.
  `FailureKeepsMap`, that it leaves every function its analysis, is what the
  architecture document adds and the code does not keep (Findings).
- *Images*: `RelocationAtomic` is docs/ARCHITECTURE.md's "does not partially
  modify the image", whatever happens to the memory between the plan and the last
  write; `ImageBound` is about layout and the one definition of a bound name.
- *Translation*: `TranslationCorrect` compares registers, flags, vectors, memory,
  exits and faults after each instruction, and asks that a refused instruction had
  no effect.  It also relates the coverage report's predicate to the lifter and the
  injector, which are lists kept by hand: what they refuse, coverage does not count.
  `LiftableMeansLifted` asks the same of the limit on operations, as the support
  document does, and the code does not keep it (Findings).
- *Boundary*: `BoundaryHolds` is section 1.2's "correct if" in three parts;
  `ResumesWhenDone` is the last of it: what X0 held before the call never passes
  for a result.

### Findings

Each is checked by a run that expects the violation.

- docs/MILESTONE_9.md says errors of entry callbacks are returned through
  `join`.  `GuestThread::join` succeeds; the error is only available from
  `has_error()` and `error()`, and `join_all` drops it as well.
- docs/MILESTONE_31.md:80-81 says a return restores the suspended frame and its
  expected continuation PC.  The session pops the frame first and then writes
  the *popped* frame's `expected_return_pc`, the address that caller has itself
  to return to, to `cpu_.pc` and to the FunctionResume event (`session.cpp:3633-3635`).
  Execution goes on from the frame's cursor, so only the reported and recorded
  program counter is affected.
- The lifter takes the first source of BIF and BIT as the mask and inserts the
  second (`lifter.cpp:1132`); the architecture masks with the second and inserts
  the first, and a test is named for "architectural bit selection".  BSL is right.
- docs/ARCHITECTURE.md:2542-2544 says the old generation remains dispatchable if any
  CFG analysis of a refinement fails.  A failure in the waves does end the build
  (`continue_after_function_failure` is false, `indirect_target.cpp:708`), a failure
  in the finalization pass marks the record Failed, drops its graph and goes on
  (`function_map.cpp:1815-1827`), and the map without it replaces the old one.  It
  takes a function that is analysed again in a wave before the boundary is found
  on which it fails: in the run, function 0 reaches slot 2 by a conditional branch
  and by a jump, target 5 calls 1 and 3, and 3 calls 2.
- docs/AARCH64_SUPPORT.md:114-115 says the detailed coverage predicate and the lifter
  agree on the normalized forms.  An instruction that becomes more than 64 operations
  fails its whole function (`lifter.cpp:217-226`), even where a prefix was asked for,
  and `is_instruction_liftable` does not look at that: structures of more than sixteen
  elements, LD4R and post-indexed LD3R of 16 lanes, and widening multiply-accumulates
  into eight lanes are counted as supported.

## 4. Proofs

The proof modules are checked by TLAPS for every value of the constants that
satisfies the assumptions of the modules.  Every invariant and action property of a
passing run is a theorem but for the one about translation (below).

**AtomicIncrement_proofs**, first part: `AtomicMemory`.  `StepKinds` classifies every step by its effect
(nothing shared, reservation dropped, reservation taken, plain write, paired
write), so that each later proof has five cases instead of one per helper.
`TypeOK` is inductive.  `ReservationSound` relates a reservation's generation to
the history of writes and is inductive with it.  `ReservedBytesUnchanged` adds that
the bytes under an untouched reservation, outside `HostBytes`, are those it read.  From these follow the action properties
`ExclusivePairAtomic`, `StaleStaysStale` and `ExclusiveStoreUninterrupted`, and two
that no run checks: `WriteInvalidatesEveryGranule`, and that failing calls touch
nothing shared.

**AtomicIncrement_proofs**, second part: `AtomicIncrement`.  `IncrementInv` says of a worker that holds a value that its reservation is of
the cell's granule and either stale or the value is the cell's.  With
it every step maps to a step of `AtomicCounter` or a stutter: `ISpec => Counter!Spec`,
for any number of workers, rounds, noise and cell width.

**GuestMemory_proofs.**  The inductive invariant is `TypeOK`, *good memories*
(disjoint, non-empty, inside the address space, counters exact, identities
below the next one), ownership domains never shared by two objects, tokens
matching the mappings they name, staged loads a copy of their memory plus a prefix of
an image, and `NoPartialImage`.  Disjointness alone is not inductive, since the
code compares two neighbours; what makes it so is that in a set of disjoint,
non-empty ranges an overlap with any of them is an overlap with a neighbour
(`NeighboursSuffice`).  The exactness of the counters is over the cardinality
of the set of mappings and the sum of their sizes, expressed as the number of
addresses covered, which the library's theorems about finite sets handle.  That
only the holder of a token takes a mapping away (`OnlyTheHolderReleases`) follows
for any number of memories, domains and images.

Its last part is `Spec => Space!Spec`: every step maps to a step of `AddressSpace`
or a stutter.  `MappingTakes` and `ReleaseReturns` are the two steps of the
mappings themselves.  A load needs more than the invariant, which says what a
staged copy holds of each image but not that it holds nothing else: `LoadsExact`
says that it is the memory plus the segments staged so far, and that these share no
address with each other or with a mapping of the memory.  So what `CommitLoad` publishes is one
image in addresses that nobody used (`CommitInstalls`).

**ExecutionSession_proofs.**  `IInv` is the conjunction of all invariants the run
checks, the shape of the log, and `Working`: in a running session the
operations counted in the slice are below the slice's quantum, blocks do not
exceed operations in the slice, a cursor inside a block implies that the
block was counted, and the *credit*

    Credit = used.blocks + slice.blocks - (1 if the current block is counted)

pays for what was logged: `log.total <= 4 + 5 * Credit` and
`used.entries <= 1 + Credit`.  `BlocksPayForEverything` is not inductive, as it
says nothing of blocks counted in the slice and not yet charged; the credit
is.  The proof has a lemma per action, with one step per conjunct it can disturb.
Each of the eight theorems (typing, frames, history, events paid for, budgets,
ends explained, no leak, and `IInv` itself) follows from it.
`RunsAdvance` (`RunAdvances`) is what makes a run end, for any budgets: a step that
does not stop the run uses up one of the blocks the run may still enter, or goes on
in the one it has entered; neither a dispatch nor a yield is for free.

**ThreadLifecycle_proofs.**  `IInv` is the type invariant and seven facts: the
state of a thread and the place of its native thread match (`BodyMatches`), only
an ended body is reaped, Joined means reaped, identifiers are fresh (`FreshIds`) and
distinct (`IdsDistinct`), what a caller inside join, join_all or the destructor holds,
and still owes, is sound (`CallsSound`), and only the destructor is in `~GuestThread`,
at the first thread that is left (`AtHead`).  Nothing is said about the order of two racing callers: whichever
outcome `std::thread::join` has, only an ended body becomes reaped.

Two theorems give the argument behind the liveness the run checks, for any number
of threads and joiners.  `CallsAdvance`: a step inside a call takes it nearer to its
end, and nothing another thread does sends it back.  `OnlyCirclesBlock`: where every caller
waits and no native thread moves, callbacks wait for each other in a circle.

`DestructorJoinsAll` is `DestructorSafe`.  Its first half needs that whatever is
joinable is still in `threads_` (`Listed`), so that the last thread destroyed was the
last to reap.  The second is about undisturbed destruction only (`Undisturbed`): no callback is
inside a call, so nobody but the destructor reaps; its loop therefore enters join
only on threads that are Running or Exited and joins only what is joinable
(`Reaping`), and `~GuestThread` likewise (`Destroying`).  Nothing is assumed of
callbacks beyond the code: what they may do is in `Next`, and `disturbed` records it.

**RefinementDriver_proofs.**  `WorkInv` (types, counters, ledgers) is preserved
by each operation of the worklist for any caller; lemmas count the records before
and after a batch with the library's theorems on finite sets.  `LoopInv` places
the driver: what it holds in each phase agrees with the records (`Books`), with
the report of the last session (`ReportInOrder`), with the worklist's round
(`Place`), and with how the loop ended (`Verdict`).  From these follow
`LedgersHold`, `DriverSettles` and the action property `ExhaustionStands`.
`LoopAlwaysAdvances` (`LoopAdvances`): each call of run-entry's loop brings the end of
its round nearer, and only a promotion, of which there are no more than candidates,
is followed by another round.

**CfgAnalyzer_proofs** (from `GuestCodeAssumption` and `CfgAssumption`: programs,
limits and ranges are well formed).  `ReachLeast` says that `Reach` is the least
set with the entry that is closed under internal edges: it is a recursive
*function* on 0 .. CodeSize, so a least counterexample and a chain of sets that
cannot grow CodeSize times without stopping replace an induction principle.
`CfgInv`, the invariant, has four parts: `Typed`; `Graphed`, blocks are disjoint,
made of reached and decodable slots, plain but for the last, with no leader inside
and the edges of their last slot; `Queued`, every leader has its block or is in the
worklist, without duplicates; `Counted`, `count` is the number of slots in blocks.
`Cut` and `Walk` are what splitting and publishing preserve, so that the proof of
`DecodeBlock` speaks of one block at a time.  When the worklist is empty the blocks
are closed under edges, so they are all of the reachable code (`Complete`), which is
`CfgIsExact`; and each error a step returns is one that `CfgExact` accounts for.
`AnalysisAlwaysAdvances` (`AnalysisAdvances`): a turn of the loop that does not end it
gives a block slots that had none, or takes a start off the worklist; splitting
gives nothing back.

**MapRefinement_proofs** (from the same assumptions, `FunctionMapAssumption` and
`MapRefinementAssumption`), over `ReachLeast`.  `Shrinking`: an analysis with more
boundaries owns and calls less.  All later steps use only that, with the verdicts
of the analysis as a table.  `MapInv` is the invariant of all builds:

- `PublishedHolds`: each published function owns what *some* subset of the entries
  as boundaries makes reachable, calls entries only, and the published conflicts
  are exactly the overlaps;
- `Stock`: during a build the same holds of the records and the known boundaries; a
  reused record is the published one; every other record of an old function owns
  no more than it did, and only if an entry that the build brought lies in
  what it owned (`Reduced`); the targets of the batch are strong;
- `FirstBuild`: in a first build the known boundaries are the strong entries; in the
  waves every record without a verdict is pending or in the wave; in the
  pass no boundary is found, as a graph with all of them calls no more than the
  graph of the wave did, so the records up to the cursor are final.

`FirstMapIsExact` and `PromotionIsSafe` follow.  Neither `MapIsExact` nor
`PromotionHolds` says anything of a build in progress; `MapInv` was checked by TLC on
the instance before it was proved.

`BuildsAlwaysAdvance`, the action property `BuildsAdvance` for any number of
workers: no stage is gone back to, and inside one a step descends lexicographically.
In the waves (`WavesLeft`) it is by the records still reused, the entries not yet
processed, those in the wave and those pending, since only a reused record returns to
the worklist after it was processed, and once; in the finalization (`PassesLeft`), by
the passes left and the records a pass has not reached.

**ProcessImage_proofs**, first part: `Relocation` and `ProcessImage` (from
`ImageAssumption` and `ModuleFileAssumption`).  `RelocationIsAtomic`: `Transaction`
says of a commit that of the writes done the last to reach an address stands
(`InEffect`) and of a rollback that a mapped address is as it was or still has a
slot to be restored, whatever is unmapped in between; overlapping writes are
allowed.  `LayoutHolds`: modules placed so far are apart, inside the memory
and clear of the stack.  `ImageIsBound`: `BindingsHold` says that each binding made
so far is to the sole definition of its name, that its slot holds it, and that no
later write reaches the slot.

**ProcessImage_proofs**, second part: `RuntimeImports`.  `BoundaryInv` says that
registered signatures are known ones, that modules were valid when they came and are
apart, that a handler that runs was seen due, and that compiled functions are placed
apart, which is what makes the lookup by lower bound find the one function.

TLC has checked the inductive invariants of `AtomicMemory`, `AtomicIncrement`,
`GuestMemory`, `ExecutionSession` and `MapRefinement` as invariants too.  The type
invariants of these modules, `OnlyTheHolderReleases`, `WriteInvalidatesEveryGranule`,
`OnlyCirclesBlock`, `IdsDistinct` and what makes runs, loops, calls and
analyses advance are proved and not part of a run.

### Only model-checked

- Liveness (`EveryIncrementLands`, `CallsReturn`, `DestructionEnds`, `RunEnds`,
  `DriverEnds`), which needs fairness.  Of `RunEnds`, `DriverEnds`, `CallsReturn` and
  `DestructionEnds` the argument is proved (`RunAdvances`, `LoopAdvances`,
  `CallsAdvance` with `OnlyCirclesBlock`, `DestructorSafe`): what the runs add
  is that a step is always possible, and taken.
- `TranslationCorrect`: the reference, the lifter and the backends meet in bit arithmetic that is computed by recursion on the width, with
  operators the provers do not have.
- `SuccAddsOne`, which is recursive.

## 5. What is abstracted

- Counters that only feed reports, profiling, wording of diagnostics, JSON.
- Allocation failure, where it only makes an operation fail before any change; an
  image load may run out at each segment.
- In the session: what IR operations compute (that is `Translation`), what import
  handlers do (`RuntimeImports`), the cache of lifted functions, observations;
  continuation mismatches and invalid tail-return contracts, which a verified
  function cannot have (`ir/verifier.cpp:1015-1021`); overflow of 64-bit counters.
- In `GuestMemory`: bytes and permission changes.  In `AtomicMemory` the layout
  of memory is constant; releasing a stack and mapping it again moves no
  generation.
- In `ThreadLifecycle`: a vector destroys its elements in order; a snapshot of
  join_all for which memory runs out, which in the destructor terminates the process;
  what happens after a callback used something destroyed.
- In `RuntimeImports`: the layout of memory is fixed, names are registered only
  between runs, the events and frames of an import are in `ExecutionSession`, the
  report's view of arguments is left out.  A misaligned or zero stack pointer is
  classified a memory fault, since `imports.cpp` counts an invalid guest address
  as one.  A module that a failing handler registered stays until the next run.
- In the map: evidence text, hashes, aliases of symbols; one budget of
  instructions and one of functions stand for all.  There is one module: the
  ownership checks across modules and the provenance of literal tables are left
  out, and a branch through a literal table is an unresolved one.
- In files: decompression and the decoding of fields are their outcome.
- Bounds of the models, each named in its module: `MaxGeneration`, `MaxDomains`,
  `MaxRuns`, `Rounds`, `Noise`, `CounterMax`, `MaxCalls`, `MaxRefinements`,
  `MaxTls`.

### Inputs the runs of the translation leave out

On these the code departs from the architecture or from its own documents.  The
models of lifter and backends do what the code does; the inputs are left out so
that `TranslationCorrect` speaks of everything else.

- Operands extended from their own width: the extension is dropped
  (`lifter.cpp:406-470`; docs/SEMANTIC_IR.md:127, docs/AARCH64_SUPPORT.md:9).
- LD1 of several registers, loaded lane by lane across the registers instead of
  register by register (`lifter.cpp:3494-3517`; docs/MILESTONE_41.md:20).
- EXT .8B (`fp.cpp:465-480`), and TBX .8B, which keeps the upper half
  (`fp.cpp:440-463`).
- BIF and BIT, which have their own run.
- SDIV of the least value by -1: the backend emits `sdiv` unconditionally, whose
  result is undefined then (`llvm_backend.cpp:638-672`;
  docs/AARCH64_SUPPORT.md:31, docs/MILESTONE_38.md:74).
- LDR literal to a vector, the condition NV, and floating point.

What the runs do include, and a reader may not expect:

- An address is a sum that must not leave the address space
  (docs/SEMANTIC_IR.md:97-98), so a negative X index faults
  (`lifter.cpp:3106-3118`); `A64` follows the document here, as it does for
  64-bit LD1 and LD1R, which keep the upper half of their destination.
- Some forms that the coverage predicate counts as liftable become more than 64
  operations and fail their whole function: structures of more than sixteen
  elements, LD4R and post-indexed LD3R of 16 lanes, widening multiply-accumulate
  into eight lanes.  Blocks with them never run (Findings).
- A synchronization or system instruction the injector refuses fails the whole
  function, even where a prefix was asked for (`lifter_m9.cpp:333-391`); the
  backend refuses functions that mix atomics with shifts, flags, conditions,
  vectors or divisions (`llvm_backend_m9.cpp:383`), which is `Compiles`.
- A branch out of a function to a known entry that also leads a block of it makes
  its graph invalid (`control_flow_graph.cpp:101-108`); `Contradicted` in
  `CfgExact`.
- A wave of two workers may fail a function that a serial build analyses
  (`function_map.hpp:398-400`, docs/performance-profiling.md:41); candidates are
  boundaries in a build that reuses a map (docs/MILESTONE_36.md:79-82); a target
  whose code calls into the middle of a trusted function turns both into conflicts
  (`indirect_target.cpp:2205-2220`).  Hence the forms of `MapIsExact` and
  `PromotionHolds`.
- An automatically placed module is not aligned again after it was moved past an
  explicit one (`process_image.cpp:778`), and the rollback of a relocation ignores
  the results of its writes (`relocation_processor.cpp:266`), so
  `RelocationAtomic` speaks of the addresses that are still mapped.

### Not modelled

| component | reason |
| --- | --- |
| matching of 32-bit words in the decoder | a pure table over a space out of TLC's reach; the operands of system instructions are in `SystemLifter` |
| floating point | IEEE arithmetic on 32 and 64-bit patterns |
| IR builder, verifier and printer; LLVM text and declarations | data structures and text without protocol; what the verifier guards is executed in `Translation` |
| LZ4, decoding of ELF fields, manifest, SHA-256 | bounds-checked parsers of byte strings |
| whole-module coverage counts, reports, logging, inspection tools | input and output |

## 6. Plan

Done: the coordinator and its loop, threads, guest memory, the session, the
refinement worklist and its driver, relocation, images, graphs, maps and their
refinement, the boundary to the host, integer and vector translation; proofs of
every invariant and action property but those of translation, of both refinements
of an abstract specification, and of why runs, loops, calls, analyses and builds
end.

Left, in this order:

1. **Composition** of `AtomicMemory` with the mappings of `GuestMemory`: release
   and remapping under a live reservation.
2. **Composition** of the session with refinement: the driver's session step
   replaced by `ExecutionSession` over a map.
3. **Several modules** in `MapRefinement`: ownership of a target across modules.
