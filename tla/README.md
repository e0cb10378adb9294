# A TLA+ model of mudlle

mudlle is a small Lisp-like extension language: a C runtime with a garbage
collector, a byte code compiler and interpreter in C, and an optimising x86-64
compiler written in mudlle itself. This directory holds TLA+ modules of the
runtime, the byte code compiler and the interpreter, TLC configurations that
check them on small instances, and theorems about them checked by TLAPS.
`PROJECT.json` is the index: the components and hazards, the runs, the mutants
that show that each property can fail, the source lines behind each
definition, the findings and the theorems.

mudlle is single-threaded. What makes its state hard to get right is not
parallelism but

* **moving objects**: any allocation may move or drop every object;
* **non-local exits**: an error is a `siglongjmp()` over C functions that had
  something to put back;
* **re-entrancy**: the body of a file loads other files, a handler traps
  errors, a session starts a session, all inside C functions that remember
  what they read before;
* **signals**: `SIGPROF` and `SIGINT` write words that the program is using;
* **arithmetic at boundaries**: block halves, tagged counters, wrap-around in
  hash tables.

## Inventory

| Component | State | Operations | Interaction | Correct when |
|---|---|---|---|---|
| Memory layout, `alloc.c` | block, boundaries of two generations, spill block | `gc_reserve`, `gc_allocate`, `garbage_collect`, three collections, growth | called by every allocation; `gc_save`, `gc_size` reserve scratch space | generations never overlap, the request is satisfied, survivors always fit |
| Object graph, `alloc.c`, `mvalues.h` | objects, flags, generations, roots, weak references | allocate, read, write, `protect`, `rprotect`, `weak_ref`; forward, scan | weak references call back into files, regular expressions and profiles | the program cannot tell that there is a collector; generation 1 is closed |
| Saved data, `alloc.c` | byte images of object graphs | `gc_save`, `gc_load`, `gc_load32`, `gc_size` | tables are rehashed on load | load(save(x)) is isomorphic to x; bad data are refused |
| Free lists and roots of C code, `alloc.c`, `stack.c` | lists of freed objects, GCPRO, dynpro and static lists, value stack | `gc_free`, `get_free_list`, `dynpro`, `undynpro` | interpreter frees its local vector | no free object is referenced; lists are empty after a collection |
| Sessions, catching, throwing: `context.c`, `call.c` | catch contexts, sessions, call stack, GCPRO list, pending exception, jump buffers | `session_start/end`, `mcatch`, `mthrow`, `setjmp`, `longjmp`, `trap_error`, `with_output` | all C functions that call mudlle | each frame gets its own context back; every throw is caught where it should be |
| Execution limits: `context.c`, `x64builtins.S` | `internal_xcount`, a count and a flag in one word | loop checks, `expensive_operation`, reserve of `trap_error` | signal handlers write the word | a session never regains what it has used |
| Profiler, `profile.c` | profiles, active list, timer | start, stop, `collect_profile`, tick, free | signal, collector | active profiles form a stack, none is freed in use |
| Symbol tables: `table.c`, `hash.c`, `runtime/symbol.c` | bucket vector, signed count | set, ref, remove, add, copy, protect, rehash | globals, modules, saved data | a table is a map |
| Modules: `module.c`, `mcompile.c`, `compile.c` | status of modules, owner of each global | load, require, unload, protect, define, assign | recursive through bodies and the `load_library` hook | a library's variables are its own while it is loaded |
| Globals and environments: `global.c`, `env.c`, `objenv.c` | name table, value and status vectors | add, look up, grow | compiler, modules | indices stay valid |
| Parser, lexer, trees: `parser.y`, `lexer.l`, `tree.c`, `mtree.c`, `calloc.c` | regions, token state | parse, allocate, free a region | `interpret()` nests regions | regions are freed innermost first |
| Byte code compiler: `compile.c`, `ins.c`, `inline.c`, `env.c` | instruction lists, labels, stack depth, environments | generate, expand, link branches | trees, globals, errors | code does what the program means |
| Interpreter: `interpret.c` | value stack, closure, locals | one instruction at a time | calls, errors, limits | the same |
| Calls: `call.c`, `runtime/basic.c` | arguments | `callN`, `apply`, `mcatch_call` | interpreter, primitives | every argument arrives |
| Errors: `error.c` | call trace options, error log | `runtime_error`, call traces | throwing, ports | each port is told once, of every call |
| Ports: `ports.c` | blocks of text, standard output | write, append, empty, flush, swap | printing, files | content is what was written |
| Printing: `print.c` | group marks, space left | `output_value_cut` | ports | what fits is printed, cycles end |
| Buffers: `strbuf.c` | bytes, size, room | add, grow, detach | everything that formats | content is what was added |
| Integers: `arith.h`, `runtime/arith.c`, `types.c` | none | arithmetic, reading, printing | interpreter, compiled code | wraps or fails as promised |
| Random numbers: `runtime/arith.c`, `random.c` | generator | ranges, permutations | | every outcome has the same chance |
| Strings: `runtime/mudlle-string.c` | none | search, split, substring, decode | | finds the first, never reads outside |
| Files: `runtime/files.c` | open files and their count | open, close, read, print, ports | collector (finalizers), ports | the count is that of the open files |
| Other primitives, `runtime/` | regular expressions, bigints | several hundred primitives | everything above | mostly pure functions |
| Compiler in mudlle, `*.mud` | trees, flow graphs, bit sets | phases 1-4, optimiser, link | `mc:` primitives | code keeps its meaning |

`PROJECT.json` lists these and the remaining parts (debugger interfaces, main
program, editor mode, tests) with what is modelled of each.

## Modules

| Module | Models | Composes |
|---|---|---|
| `GcSpace` | sizes and boundaries of the collector's block | |
| `Heap` | abstract: a heap whose memory manager may do only harmless things | |
| `GcHeap` | the collector object by object | `INSTANCE Heap`, refines it |
| `Roots` | GCPRO, dynpro and protected variables, the value stack, free lists | |
| `SaveLoad` | saving and loading of object graphs | |
| `CatchContext` | non-local exits and sessions | |
| `LoopCount` | the loop counter word and its users | |
| `Profile` | the profiler | |
| `CallTrace` | error reports and call traces | |
| `ModuleSystem` | loading files and owning variables | |
| `SymMap` | abstract: what tables promise | |
| `SymTable` | tables with their buckets | `INSTANCE SymMap`, refines it |
| `Files` | open files, their limit, ports and contents | |
| `Tree` | syntax trees, as the parser hands them over | |
| `Inline` | expansion of control constructs | `Tree` |
| `Ins` | instruction lists, labels, branches, stack depth | |
| `Compile` | code generation and environments | `Inline`, `Ins` |
| `Primitive` | the primitives that the programs call | |
| `Interpret` | the interpreter, one instruction at a time | `Primitive` |
| `Meaning` | abstract: what a program means, from `mudlle-ref.doc` | `Tree`, `Primitive` |
| `ByteCode` | compiler and interpreter together, against `Meaning` | `Compile`, `Interpret`, `Meaning` |
| `Calls` | calls from C and from byte code | |
| `Arith`, `Random`, `Strings` | pure algorithms on words, draws, texts | |
| `Ports`, `Printer`, `StrBuf` | output ports, printer, buffers | |
| `MCRuntime` | run `runtime` | `ModuleSystem`, `LoopCount`, `Profile`, `CallTrace`, `Roots`, `Files` |
| `MCData` | run `data` | `SymTable` (twice), `Arith`, `Random`, `Strings`, `Calls`, `SaveLoad` |
| `MCOutput` | run `output` | `Ports`, `Printer`, `StrBuf` |
| `GcSpaceProofs`, `GcHeapProofs`, `CatchContextProofs`, `ModuleSystemProofs` | theorems | the module of that name, TLAPS |
| `HostProofs` | theorems | `Files`, `Calls`, `StrBuf`, `Roots`, TLAPS |
| `RuntimeProofs` | theorems | `LoopCount`, `Profile`, `CallTrace`, TLAPS |
| `DataProofs` | theorems | `SymTable`, `Random`, `Strings`, TLAPS |
| `Loops` | lemmas on loops and induction over their turns | used by `RuntimeProofs`, `HostProofs`, `DataProofs` |

`MC...` modules give the constants of the instances. `MCRuntime`, `MCData` and
`MCOutput` put parts side by side that do not meet in the models: each
behaviour is one of the part chosen at its start. A definition named
`X_Something` with a comment that begins with "Mutant" is a wrong version of
`X`, used to show that a property depends on `X`.

### GcSpace

Addresses are byte offsets. An action per phase: `gc_reserve`, the
`garbage_collect()` primitive, `minor_collection`, `major_collection`,
`new_major_collection`, `alloc_gc_block_fails`, and `fast_gc_allocate` and
`use_scratch` for the client that resumes. What survives is a free choice up
to the size of what was there. `pc` says which phase comes next, as decided by
the percentage tests in `garbage_collect()` (`NoMajorNeeded`,
`NoGrowthNeeded`). `HasMcode` adds the holes that align machine code.

### Heap and GcHeap

`Heap` is the program's view: records, weak references, roots, and the
operations the primitives allow. Its memory manager may make things immutable
that are, reclaim what is unreachable, and clear or finalise weak references.
`GcHeap` replaces the manager with the code's collections. Objects are names
and do not move, "moved" being membership of `kept`; what the model keeps of
moving is which pointers the collector has followed. One action scans one
object, in any order within a generation: in the code the order is that of
addresses, which depends on history that the model does not keep.

### CatchContext

`frames` is the C stack: calls of `session()`, `trap_error()`,
`with_output()`, `with_forbid()`, `setjmp()`, error handlers and plain calls.
`pc = "throw"` is the time between `siglongjmp()` and the frame it lands in;
the actions `caught_by_...` are what follows `sigsetjmp()` in `safe_mcatch()`
and its callers, up to where the program runs again or throws again. A
`longjmp()` with a dead buffer writes through a null pointer (`pc = "crash"`,
reached only after a session has ended an earlier `longjmp()`).

### LoopCount

`word` is `internal_xcount` with its real layout at a smaller width: the sign
bit is the profile flag, the rest the count. Compiled code decrements the word
in one instruction. C code (`expensive_operation()`, `session_start()`,
`trap_error()` before and after its function, `with_unlimited_execution()`)
reads the count and writes another in a second access, so each is an action of
two steps with the value read in between (`read`; `Reads`, `WriteBack`), and
signal handlers run before any step, also between the two. The count of 1 that
SIGINT sets there is overwritten, and only the flag `interrupted` (not
modelled), which `check_interrupt()` reads, still tells of it; the profile flag
stays, since `set_xcount()` exchanges the word in one access. `LoopsLimited` says what holds nevertheless: `spent` is
history, what a session has run so far, and `Aside` what its `trap_error()`
calls have set aside; the sum of both and the count never passes
`MAX_LOOP_COUNT` while the limit is in force. The limit is lifted where
the code lifts it, by `with_unlimited_execution()`, and where a count of zero
goes on: by the decrement of finding 1, or when SIGINT or
`expensive_operation()` sets it to 1.

### Profile

`profile_call0()` runs mudlle code in between its steps, so `collect_profile`
is one action for what happens before the call and `collected` one for what
happens after, on return or throw alike. A second `dlist_remove()` of one
profile leads to `outcome = "crash"`. `profile_mudlle_free` is the finaliser of
a profile object; it frees nothing in practice, since no code clears
`is_active` (so a property about what may be freed would say nothing, and there
is none).

The SIGPROF handler may run at any time, and `profile_tick()` is two steps: it
clears the flag and then takes the signals that wait and charges them to every
listed profile. `owed` is history: the signals since a profile was activated
that it has not been charged for. `SignalsCounted` says that none is lost or
charged twice, and that while some wait a tick is due or under way; it fails
when the two steps are exchanged. A profile that is activated while the timer
runs is charged for signals that were waiting then, too, as in the code.

### SymMap and SymTable

`SymTable` keeps the bucket vector and the signed count, and the actions of
`table.c`, their loops as functions of the number of turns. The hash functions
are constants: any function from names to positions for each size is admitted,
and the instances choose functions whose clusters run over the end of the
vector. `SymMap` forgets buckets; `ImplementsMap` is the refinement. The one
table of run `data` is `SymTable` itself, the two tables are an instance
(`TablesSound`).

### ModuleSystem

`frames` are the calls of `interpret()` on the C stack, each in its
"requires" or "body" phase, with the module status that `mstart()` found.
`interpret_starts` is parsing and the first half of `mstart()`; one action per
required module; then one atomic action for each outcome of the rest of
`mstart()`, of `compile_code()` and of `mprerun()`, between which no mudlle
code runs. Bodies are arbitrary programs. `erred` is the global of that name.
In this source tree all seclevels at which code is loaded are equal
(`MAX_SECLEVEL` and `SECLEVEL_GLOBALS` are 1), so they are not modelled.

### Roots

C code holds values in local variables registered with GCPRO, in dynpro nodes
and in `protect()`ed statics. An interpreted function holds a vector and one
variable object per local (`allocate_locals`, with `bases` saying where in
`locals` each running function begins). Room for all of them is reserved, and
then the vector and each variable is taken from the free list of its size if
there is a block, and from the reserved room if not (`NextLocal`, the fast form
of `allocate_obj()`), so objects may be handed out before the
room reserved for them is used. On return only the vector goes back to its free
list (`free_locals`); the variables do not, since closures may have captured
them (`closure_var_local`, a C variable that leads to a local). The model has
one action per registration, release, allocation, call, capture, return,
`gc_free()` and collection, and a throw that drops what lies above the frame
it lands in, locals included, without giving anything back. `who` is history,
the holders that were given a block; the property compares it with what they
point to now.

### SaveLoad

`gc_save()` copies a graph into the block (with its retries when room is
short), `gc_load()` and `gc_load32()` relocate it in rounds. Data that
`gc_save()` did not write are not given to `gc_load()`.

### CallTrace

`stack` is the call stack and `catches` the catching frames, each with the
depth of the stack at which it was entered. `iterate_call_trace()` walks the
stack once for each target, down to the innermost catch that is a barrier. A
line of a trace is the call that it describes, or the count of those left out.
The loops of the walk, of the printer, of `basic_error()` over the targets and
of `get_c_call_trace()` are functions of the number of their turns.
`suppress_extra_calltrace`, with which `basic_error()` returns before it looks
at the targets (`error.c:1453`), is taken to be 0: nothing in the repository
sets it, and with it the targets are told nothing.

### Files

All files are open on one file on disk. A file object refers weakly to the C
data that hold its `FILE`; a collection finalises the objects that the program
has lost, and `file_open()` forces one at the limit. stdio is taken to write
at once and `fclose()` to free the `FILE` even when it fails; `file_flush()`
and `file_setbuf()` are left out. The loop of `print_file_part()` is a function
of the number of passes.

### Tree, Inline, Ins, Compile, Interpret, Primitive, Meaning, ByteCode

`Compile` translates trees as `compile.c` does: block by block, with labels,
environments for captured variables, and the stack depth that `ins.c` counts.
`Interpret` has one action per instruction. `Meaning` is written from the
language reference, not from the compiler, and evaluates the same trees to a
result and a log of what was done in which order; `CompileCorrect` compares the
two. Programs are named by tuples (`<<"cond", c, use>>`), so that a state holds
the name and not the tree. The widths of operands (`UINT8_MAX`, `INT8_MAX`,
`INT16_MAX`) are small, so that short programs need long branches and long
operands.

A closure that captures a variable of a loop's body from one turn to the next
is excluded: the reference and the compiler disagree on whether that is one
variable (`mudlle-ref.doc:739-760`).

### Ports, Printer, StrBuf, Arith, Random, Strings, Calls

Ports keep their blocks, so that the ends of blocks fall within lines. The
printer keeps the space left and the marks of objects printed before. Words
have a width `W`; signed overflow is taken to wrap, as the compilers used make
it. `Random` draws every word and makes every choice, and counts those that
lead to each result. `iconv()` and PCRE are external: `iconv()` takes one
character at a time until the buffer is full or it meets one that it cannot
convert; the groups of a match are free choices.

## Runs

| Run | Instance | Shows |
|---|---|---|
| `gc_space` | 128-byte block, requests of 16, 48 and 96 bytes, survivors in steps of 16, memory for 420 bytes: the block grows twice and then fails | layout, request satisfied, to-space, weak reference range, alignment, no double spill, growth leaves room |
| `gc_heap` | 3 objects of one field, 2 roots, collections of all kinds | nothing dangles, weak references exact, immutable data closed, generations separate, refinement of `Heap` |
| `catch` | up to 4 nested frames, 2 errors, 2 jump buffers, 3 ports | contexts preserved, throws caught, buffers live, throws end |
| `byte_code` | over 4000 programs of eight families: conditions, exits, loops, closures, parameters, patterns, modifications, the reference's library examples | code means what the program means, stack in room, branches hit instructions, programs end |
| `runtime` | modules: `a` requires `b`, `c` defines what `b` defines and requires `a`, a plain `p`, 3 nested loads; loops: 4-bit word, counts up to 3, 3 frames, both signals, between any two accesses; profiles: 3, 3 nested calls, 2 signals that wait; traces: 3 nested calls, 2 catching frames, 2 ports; roots: 2 variables, 2 dynpro nodes, 2 nested calls of up to 2 locals, objects of 1 and 2 fields, 11 words, free lists for sizes 0 and 1, together at most 4 where a local counts 1 and a protected variable or dynpro 2 (`Small`); files: 2, limit 1, 2 bytes on disk, buffer of 1 | ownership, limits on loops, stack order, signals counted, one report per port, roots found, files counted and read |
| `data` | tables: 5 names and 2 hash functions, and 2 tables of either kind with names that differ by case; words of 8 bits; 4-bit draws, arrays up to 4; all short strings; up to 6 arguments; 3 saved objects | tables are maps, arithmetic, numbers read exactly, even chances, first found, arguments arrive, round trip |
| `output` | 2 ports of any kind, blocks of 2; 43000 values of 3 objects cut at 6 to 20 characters; buffers of up to 9 bytes | ports whole, printing kept, buffers kept |
| `loop_zero`, `profile_assert`, `modules_erred`, `byte_code_default`, `files_close` | | findings, below |

**Why the bounds are enough.** Each bound lets the interesting case happen
more than once: the collector's block grows, fills and fails; three objects
give chains, sharing and cycles of two with a bystander; four frames are a
handler inside a trap inside a session plus the thrower; three profiles are
two nested and one started apart; five names fill a table of 4 to its
threshold and double it, with clusters that wrap; three loads are a library
that requires a library whose body loads one of them again; two files at a
limit of one are the file that is lost and the one that needs its place; two
texts cross the end of a block of two. In a heap of eleven words a function of
one local returns and its vector becomes a variable of a function of two,
while a closure still holds the variable of the first. For the parts that are
proved (below) the bounds do not matter. The symmetric sets (objects, roots,
fields) are symmetric in `GcHeap`; runs with a liveness property use no symmetry.

**Deadlock** is checked except where the program really stops: out of memory
(`gc_space`), a write through a null pointer (`catch`), a failed assertion or
`abort()` (`runtime`, `profile_assert`, `modules_erred`), and where an input is
worked on once and done (`data`, `output`).

**Fairness** is assumed twice. `FairSpec` of `CatchContext` is weakly fair in
`Catch`, the C code between a `siglongjmp()` and the next mudlle instruction,
and `Spec` of `ByteCode` in `Run`, the interpreter's loop; both run without
waiting for anything. Nothing is assumed of the program: it may stop calling,
loop, or never return. `ThrowEnds` says that each throw ends in some frame,
even when frames on the way throw again; `Terminates`, that the programs of the
run, which all end, do end.

## Proofs

TLAPS checks the following for every value of the constants that the named
assumptions allow. Each proof has an inductive invariant, one lemma per action
or group of actions, and a last step that puts them together. TLC checked each
inductive invariant on an instance before it was proved.

### GcSpaceProofs, under `SpaceAssumption`

* `SpaceSafety`: types, `Layout`, and `RequestSatisfied`. The inductive
  invariant `SpaceInv` adds that the request is in whole words when an
  allocation made it. Without that, rounding the middle of the block down could
  leave less than the request. The lemmas on rounding are `Floor8Facts`,
  `HalfFacts` and `NewSizeFacts`.
* `HalfSafety`: with no machine code in the heap, `WeakRefsInRange` and
  `ToSpaceFits`. The invariant `HalfInv` says that `startgen0` is exactly the
  middle of what generation 1 leaves. With machine code, alignment holes can
  make generation 1 grow in a major collection, and neither holds.
* `GrowthSafety`: with no machine code, `GrowthLeavesRoom`, for the same
  reason.
* `SpillSafety`: without `gc_size()`, `SpillOnlyOnce`.
* `AlignmentSafety`: if the argument of `garbage_collect()` is a multiple of
  the word size, `HeapAligned`.

Each of these hypotheses is needed: without it there is a short counterexample.

### GcHeapProofs, under `HeapAssumption`

* `GcSafety`: the inductive invariant `GcInv`. Its parts: `Passed`, what the
  scan has passed leads only to what is kept (the collector's three colours);
  `Separate`, the pointers of immutable objects are to old objects by the time
  that a minor collection is done with them; `Needed`, what is kept is
  reachable from the roots, and after a minor collection all of generation 0
  is; `Listed`, the weak references listed are those that exist. Reachability
  is the least closed set, so that no step needs an induction.
* From it `HeapIntact` (`NoDangling`), `ImmutableAllTheWay`
  (`ImmutableClosed`), `NoBarrierNeeded` (`GenerationsSeparate`),
  `WeakReferencesListed` (`WeakListed`), `CollectionExact` (`Exact`), and
  `ScanComplete`: the scan, which never goes back to generation 0, misses
  nothing.
* `Refinement` (`ImplementsHeap`): `detect` and `scan_gen0` are
  `MakeImmutable` of `Heap`, `forward_weak_ref` is `Finalize` or `ClearWeak`,
  the end of a collection is `Reclaim`, and the other steps of the collector
  cannot be seen.

### CatchContextProofs, under `none` not being a jump buffer

The C stack is one chain of contexts (`ChainSafety`): each frame was entered
in the context that the frame below runs its callee in. With it `ContextSafety`
(`ContextPreserved`), `CatchSafety` (`ThrowIsCaught`: below every frame the
last one that catches has the same session and output), `BufferSafety` and
`LongjmpSafety` (`LongjmpReturns`: a buffer is live exactly while its
`setjmp()` is on the stack).

### ModuleSystemProofs, under `HeaderAssumption`

`ModuleSafety` (`OwnerActive`), `DefineSafety` (`DefineOwned`) and
`ConstantsSafety` (`ConstantsKept`), for any headers and any nesting of loads.
The invariant: a call remembers "loading" exactly if it is inside another call
for the same module; such a call never runs a body; a module that was not there
when its load began owns nothing until its body begins.

### RuntimeProofs

The loop counter, under `LoopAssumption`:
`LoopTypes`, and `LoopSafety` (`LoopsLimited`): for every width, every nesting
and both signals, between any two accesses. The invariant relates each frame to
the one below it (`Chained`), bounds the sum for the count in the word
(`Within`), and bounds it likewise for the count that C code has read and not
yet written back (`Pending`).

The profiler: `ProfileOrder` (`StackOrder`) and `ProfileSafety` (`SignalsCounted`): the
active list is without repetition, unlimited profiles first; nothing clears
`is_active`, so that allocated profiles stay; the profile of the last
`collect_profile()` alone is last; a listed profile is owed what waits, and
nothing waits when the timer is off.

Error reports, under `TraceAssumption`: `TraceSafety` (`ReportedOnce`), for any
calls, catches, observers and numbers of lines at the ends of a report. The
state's invariant is small: catches lie on the stack in order, and no port
observes twice. The rest is about the loops. `SoFar` is the invariant of the
printer's: after k calls of n, what is printed is the first k of the report;
`PrintedHidden` is the same one turn later, for a report whose first call is
hidden. `ToldSoFar` is that of the loop over the targets: each port that has
been told is there once. `NeverAgain` is that of `add_trace_entry()`: when no
stretch of up to three calls is repeated, adding a call repeats none.

### HostProofs: files, calls from C, buffers of C code, roots

Files, under `FileAssumption`:

* `OpenFilesCounted` (`FilesCounted`): for finitely many files, any limit, and
  an `fclose()` that succeeds. The invariant `FilesInv` ties the three flags of
  each file to each other and to its port, and says that what the program
  reaches is there; a collection then closes the open files outside of it, one
  by one in the count (`CollectedAll`). With an `fclose()` that fails the count
  goes wrong: run `files_close`.
* `PartsPrinted` (`PartPrinted`): for any length of the file, size of the
  buffer and limits, and whatever `fclose()` answers. `Printed` is the invariant
  of the loop of `print_file_part()`: after n passes that did not end it, k >= n
  bytes are printed, those that follow the first. So the loop ends
  (`PiecesFacts`).
* `FilesSafety` (`FilesSound`): both, for an `fclose()` that succeeds.

Calls, under `CallsAssumptions` (parameters in order, limits respected, nothing
else about the functions): `CallsSafety` (`ArgumentsArrive`). `CallableTakes`,
`PrologueTakes` and `MessageTakes` show that the four places that count
arguments (`callable?()`, the prologue of a closure, the error message, and
`maybe_get_arguments()`) agree on one definition, `Takes` (`Agreement`). `Gets` says what
the function sees of the arguments; each way of building a call, of any number
of arguments and with a vector at the end, hands over exactly that (`CallNGets`,
`CallvGets`, `Call1plusGets`, `FromBytecode`).

Buffers, under `StrBufAssumptions`: `StrBufSafety` (`BufferKept`). For any size
of the small buffer, any step of growth and any texts, every operation keeps
the text that was added, ends it with a NUL and stays inside the block
(`Stores`). `NextPower` is about the rounding up of sizes, by induction on the
powers of 2; the loop of `sb_strftime()`, which tries again with a larger
buffer, has its invariant and its end.

Roots, under `RootsAssumptions` (finitely many dynpros, any C variables, static
roots and sizes): `RootsSafety` (`RootsSound`). The invariant `RootsInv` says
more than the property: every holder, protected or not, owns exactly the block
it was given (`Owns`), which is not free; the vector of a function is the
function's alone (`VectorsApart`), although its variables may be shared, so
that `gc_free()` takes it from nobody else; each function has a part of the
locals of its own (`Bases`); each free list is an order of the free blocks of
its size (`Listed`); the dynpros in use are a ring (`IsRing`). A collection is three
loops over what is held, static roots, dynpros and then variables and locals;
each is a recursive function with the invariant `Collecting`: what was moved is
at its new place with those who hold it, once (`Places`), and a variable is
marked when it has been updated (`MarkedMoved`). `DynObjectsFacts` shows that
the walk over the list of dynpros ends and meets each of them. A call is a loop
over its locals, by induction on the turns (`Filling`), each of which takes a
block off a free list that becomes shorter (`Filled`) or adds one.

### DataProofs: tables, random numbers, strings

Tables, under `TableAssumption` and `SizeAssumption`. For any names, symbols,
kinds of tables, sizes that double (1, 2, and multiples of 4) and hash
functions, which may send every name to one bucket:

* `Inductive`: every table is `Sound`. Its symbols have different names
  (`Unique`); no bucket between the start of a symbol's search and the symbol
  is empty (`AllOpen`); the count is that of the symbols (`Counted`); and a
  table that holds anything has a multiple of four buckets, less than three
  quarters of them taken (`Roomy`), so every search meets an empty one.
* A removal is the hard step. While it runs, a symbol's way may cross the
  emptied bucket; `Holes` says which: only the symbols between the emptied
  bucket and the end of the cluster that have not been placed anew
  (`AgainStep`, one turn; `RemoveFacts`, the loop). `Between` says that three
  buckets lie in the same order on the ring seen from either start.
* `TypeCorrect` (`TypeOK`), `SymbolsFound` (`Findable`), `CountsAreKept`
  (`CountsKept`), `LoadSucceeds`: `gc_load()` under another hash function fails
  no assertion; and `Refinement` (`ImplementsMap`): each operation is one of
  `SymMap`, and a load is a step no program sees.

Random numbers, under `RandomAssumptions`. For words of any even number of bits,
any range and arrays of any length (`RandomEven`, `EvenChances`):

* `ProductExact`: the two words that `mul_u64()` computes from products of
  halves are the product; no carry is lost between them.
* `Chosen`: a word `x` is accepted and gives `v` exactly when `x * n` is between
  `v * WORDS + WORDS % n` and `(v + 1) * WORDS`: an interval that is a multiple
  of `n` wide wherever it lies, so that it holds `WORDS \div n` multiples of `n`
  (`EveryNumberEvenly`), and no sampling by rejection can have more.
* `ChoicesDiffer`: at the first difference of two sequences of choices another
  element is placed, and what was placed stays (`PlacedStays`);
  `EveryOrderReached`: the element that comes next in the order wanted has not
  been placed, because an array of different elements has them all
  (`NextUnplaced`). So each order comes from one sequence of choices.

Strings, under `StringsAssumptions` (sequences of the characters told apart, a
buffer that holds at least one). For any lengths, offsets and modes
(`StringsFindFirst`, `FindsFirst`):

* `TurnSkipsNothing`: `string_search()` looks where the last character of the
  needle occurs next and goes on `steplen()` after the place where it began to
  look. No match ends in between: it would put the last character of the needle
  nearer to its previous occurrence than `steplen()` (`StepFacts`).
  `NoneBefore` is the induction over the turns, `SearchFinds` the loop.
* `ComparedOrders`: the first character that differs orders two texts, and the
  length if one begins the other.
* `SplitSound`, the invariant of `split_words()`: the words so far are what was
  read, without the blanks between them, and each is a word (`WordFacts`).
* `Utf8Sound`, that of `string_from_utf8()`: what was written are the
  characters read that can be represented. Each turn takes one at least, since
  `iconv()` stops for room only when the buffer is full (`IconvTook`); so the
  loop ends, with everything read or for a character its mode refuses.

The loops are recursive functions. `Loops` shows that such a function exists and
obeys its equation (`LoopExists`, `Loop`), and has induction over the turns
(`Induction`): the first turn for which a claim fails is a contradiction.

### What is only model-checked

* Liveness: `ThrowEnds`, `Terminates`; the proof system has no rule for
  fairness.
* What recursive definitions compute: `Arith`, `Compile`, `Ins`, `Inline`,
  `Interpret`, `Meaning`, `Ports`, `Primitive`, `Printer`, `Tree`, and with them `CompileCorrect`, `WithinBounds`, `ResultForArgs`,
  `ArithExact`, `Whole` and `PrintedKept`. The
  prover does not read `RECURSIVE` operators, and the library's induction rules
  cannot be applied by the provers installed; recursive functions can be
  reasoned about, as in `DataProofs`, `HostProofs` and `RuntimeProofs`.
* Folds over data, for which no theorem is written: `RoundTrip` of `SaveLoad`.
* The parts of `MCRuntime` and `MCData` side by side, and `TablesSound`, the
  instance with two tables.

## Where the code and its documentation or assertions disagree

With a run:

1. `loop_zero`: `trap_error()` may set the whole count aside without an
   error; compiled code decrements zero, takes the result for a profile tick
   and goes on with the largest count there is.
2. `profile_assert`: `collect_profile()` given a profile that an earlier call
   returned fails `assert(was_profiling)`.
3. `modules_erred`: a library is refused, without a message, because a
   library it requires coped with an error in a file that it loaded: `erred`
   is cleared before the required modules are loaded and read after.
4. `byte_code_default`: a call that leaves an optional argument out neither
   sets the variable-length parameter after it nor takes the pattern of the
   optional parameter apart.
5. `files_close`: after a `close_file()` that fails, the file is taken for
   open, and its finalizer counts it down a second time.

Seen while modelling, without a run of its own:

* `trap_error()` clears the error to rethrow on entry and restores it only
  after its handler, so a handler that calls `trap_error()` once cannot
  `rethrow_error()` any more (`runtime/basic.c:500`, against the help text at
  `runtime/basic.c:470`).
* A `longjmp()` that a session ends leaves its buffer marked as used; a second
  `longjmp()` to it writes through a null result pointer.
* A library whose body calls `load()` on its own file ends the process in
  `mprerun()` (action `mprerun_aborts`) instead of failing to load.
* `table_add_symbol!()` and `table_symbol_ref()` do not check
  `MAX_TABLE_ENTRIES`; the next growth fails an assertion of `gc_allocate()`.
* `gc_size()` gives up when the block cannot grow and leaves a spill block
  behind, on which the next collection's assertion "Only once !" fails; with
  machine code, alignment holes can push `startgen0` above a weak reference;
  `garbage_collect(n)` with an odd `n` makes the new block size odd. Each is a
  setting of the constants of `GcSpace` (`MeasureSizes`, `HasMcode`,
  `CollectArgs`) outside the hypotheses of the theorems.
* Interpreted code counts no loops in `check_loop()`, although the reference
  says that every call and iteration counts.
* `iterate_call_trace()` drops the second of two adjacent frames of one
  primitive called from C (`NoneLost` of `CallTrace`, `error.c:1297-1320`).
* `port_append()` of a string port to itself does not end (`AppendExact`,
  `ports.c:723`, `758`); `line_port_putnc()` sends several line ends as one
  line; `port_empty!()` leaves `prev_char`.
* `p_setpos()` drops marks of list ends that are pending (`print.c:112`);
  `print_indent()` and `print_constant()` see other objects than were marked
  (`SeenInOrder`, `print.c:938`, `1673`, `536`, `637`); the counts for triple
  quotes are swapped between `print.c:556-562` and `608-613`.
* `string_search()` ignores its offset when the text sought is empty.
* `output_value_cut()` calls `abort()` in `cmp_nref()` (`print.c:1888`) when two
  marks at the same place are of a kind that it does not order, such as the end
  of one list and the definition of another value. `Whole` exempts exactly
  these values (`RoomKept`), and the model ends there as the code does.
* `gc_save()` calls `abort()` for some of the data that its comment says are
  replaced by a gone value (`NeverAborts` of `SaveLoad`, `alloc.c:2011-2020`).
* `file_open()` reads its file name after `garbage_collect(0)` without GCPRO
  (`runtime/files.c:788-802`).
* Reading a number overflows a `long` just before it is found to be too large,
  in bases other than 10 that are not powers of 2 (`types.c:500`; `ReadBases`
  leaves such bases out).
* `tree.c:478` counts with the constant of the list and not of its element;
  the table of names of builtins does not match `tree.h:125-127`;
  `MAX_LOCAL_VARS` is 4096 and `env.c:134` asserts less.

## Not modelled, and why

* **Machine code**: the contents of code objects, register and return address
  forwarding, the assembly entry points. Their correctness is about layouts
  that a model would only repeat.
* **The optimising compiler**: its correctness needs the semantics of x86-64.
* **Parser and lexer**: sequential, without lasting state but for regions.
* **Printing**: markup, storable constants, quoting flags, other bases, floats,
  tables of more than ten entries, symbols.
* **Other primitives**: pure functions over GMP, libxml and the C library.
* **GCDEBUG, GCSTATS, ALLOC_STATS builds** and logging.
* **The recursion limit**, seclevels, the `reads` and `statics` clauses.

## Plan

Done: every module above, and the theorems listed.

Next, in order of importance:

1. Proofs: the totals of `Ports`, with its loops as functions as in `SymTable`.
2. Data-flow passes and graph of the compiler in mudlle as pure operators.
