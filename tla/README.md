# HipScript in TLA+

HipScript compiles HIP (CUDA-like C++) programs in the browser and runs them on WebGPU. This
directory models its own logic in TLA+: the modules, the TLC configurations that check them on
small instances, and the theorems TLAPS proves for every instance.

Contents: [The system](#the-system) · [Modules](#modules) · [What TLC checks](#what-tlc-checks) ·
[Fairness and deadlock](#fairness-and-deadlock) · [What is proved](#what-is-proved) ·
[Where the code and its documentation disagree](#where-the-code-and-its-documentation-disagree) ·
[What is not modelled](#what-is-not-modelled) · [Plan](#plan)

Run `tlc -config X.cfg M` for a configuration and `tlapm M.tla` for a proof module; PROJECT.json
lists the runs with their modules, and for every definition the lines of the source it models.

## The system

| Part | Where | State | Operations |
|---|---|---|---|
| HIP runtime, host side | `emcc/src/lib/wasm/em.cpp`, `errors.cpp`, `impl.hpp` | last error per thread, proxy queue, handles, printf buffer | `hipMalloc`, `hipFree`, `hipMemcpy`, `hipMemcpyToSymbol`, `hipGetSymbolAddress`, `hipLaunchKernel`, `hipGetLastError`, registration |
| HIP runtime, main thread | `emcc/src/lib/wasm/webgpu.js`, `die.js` | error scopes, staging buffers, list of kernels and timestamps | the proxied half of each call, stopping the threads |
| Device printf | `clspv/PrintfPass.cpp`, `emcc/src/lib/wasm/printf.cpp` | the printf buffer | reserve and store a record (device), walk and format the records (host) |
| Arguments of kernels | `clspv/AutoPodArgsPass.cpp`, `ClusterPodKernelArgumentsPass.cpp`, `AllocateDescriptorsPass.cpp` | bindings, specialisation constants | pack the values into a struct, allocate resources |
| Reflection | `clspv/SPIRVProducerPass.cpp`, `reflection/ReflectionParser.cpp`, parsers in `run.ts` and `em.cpp` | lines, table of kernels, map of formats | print and read kernel arguments and printf formats |
| Integer builtins | `clspv/ReplaceOpenCLBuiltinPass.cpp`, `ReplaceLLVMIntrinsicsPass.cpp`, `SignedCompareFixupPass.cpp` | none | replace a call by simpler instructions |
| Compiler worker | `emcc/src/lib/compiler.worker.ts` | stage, artefacts | clang, clspv, reflection, spirv-opt, tint, wasm-ld, precompiled headers |
| Session | `emcc/src/lib/run.ts`, `RunControl.svelte`, `+page.svelte` | toolchain, code cache, abort controller, terminal, running program | load, compile (in parallel or one after the other), run, cancel, run again |
| Start of the page | `init` in `run.ts`, `initOk` in `+page.svelte` | browser cache, crash flag in the local storage | download, cache, precompile headers |
| Wasmer workers | `emcc/src/lib/wasmer.ts`, `wasmer.worker.js` | messages put aside, worker | start, forward |
| Editor | `emcc/src/lib/Monaco.svelte` | text, saved text, pending save | edit, save |
| clspv, the rest | `clspv/` | LLVM module | about seventy compiler passes |

How they interact. The page starts (`initOk`), takes the compilers' package from the browser's cache or
downloads it, and precompiles two sets of headers. A click on Run reads the editor and starts two
compiler workers; each loads the wasmer SDK, whose thread pool starts wasmer workers. Their
results are a shader, a reflection and a WebAssembly program. The page asks for a device, loads
the program, and the program's threads call the HIP runtime. What clspv decided about the arguments of kernels and
the formats of printf reaches page and runtime only through the reflection's lines. The runtime proxies each call that
needs the device to the main thread: there it runs as an asynchronous function, beside those other
threads proxied. A kernel writes printf records into one buffer, which the runtime
copies back after each launch and the host thread prints.

What makes it hard:

- *Interleaving.* A proxied function is asynchronous, and all of them share one stack of error scopes and
  one pair of staging buffers. Invocations of a kernel store printf records at the same time.
- *Awaits.* Between the awaits of a run the user edits, clicks and cancels; messages reach a
  worker while it starts; cache operations run beside the download that nobody makes them wait for.
- *Failure.* Each await may be rejected, each command of a compilation may fail, a worker or a page may die.
- *Limits.* The printf buffer, the 128 pairs of timestamps, and the memory that decides whether
  compilers run in parallel.
- *Arithmetic.* The builtins for integers are computed in words that overflow, and offsets of arguments are
  computed in two places that must agree.

What makes each part correct: a runtime call is atomic on the device and reports what became
of it and of nothing else; the scopes stay balanced and every call returns; records are disjoint and
are printed exactly once, and a walk ends; every message to a worker is handled once; `runCompilers` settles
once, with each result in its place, and what failed was explained on the terminal; an argument
arrives at the binding and byte where its kernel reads it; a replaced builtin yields the exact result wherever that is defined; one run at a time, on its own
device, with code compiled from its own text, and a cancelled run ends; a crash, and only a crash,
stops the automatic start; an edit is stored or about to be.

## Modules

| Module | Models | Notes |
|---|---|---|
| `ErrorScopes` | `pushErrorScope`, `popErrorScope` and an error of the device, as `webgpu.js:12-18` and `em.cpp:50-75` use them | a stack, innermost last |
| `HipBridge` | the runtime, both halves | extends `ErrorScopes` |
| `HipDevice` | what the runtime promises: a call takes effect at one instant | abstract |
| `HipBridgeRefinement` | the mapping from `HipBridge` to `HipDevice` | `ImplementsDevice` |
| `PrintfBuffer` | device printf, from the reservation to the terminal | |
| `Compilers` | `runCompilers` and `compiler.worker.ts` | refines `CompilePromise` |
| `CompilePromise` | what `runCompilers` promises | abstract |
| `Session` | `run`, `compile`, Run and Cancel | uses the outcome of `Compilers` |
| `Startup` | `initOk` and `init`, reloads and crashes | |
| `Page` | the editor and its deferred save | extends `Startup`: a page starts, is edited and is lost |
| `WasmerWorker` | `wasmer.worker.js` | |
| `Descriptors` | the allocation of bindings and constants | |
| `PrintfFormats` | the formats of printf, from the compiler to the runtime | operators only |
| `KernelInterface` | the arguments by value, the reflection, the page's table, a launch | extends `Descriptors` and `PrintfFormats` |
| `Words` | words, and the instructions that wrap at most once | |
| `IntegerBuiltins` | differences, averages, saturated sums, comparisons | extends `Words` |
| `WideBuiltins` | products, shifts, counts, moves of bits and bytes | extends `IntegerBuiltins` |
| `MCHipBridge`, `MCPrintfBuffer`, `MCSession`, `MCStartup`, `MCKernelInterface` | the small instances | the others need none |
| `HipBridge_proofs`, `PrintfBuffer_proofs`, `Compilers_proofs`, `Session_proofs`, `Page_proofs`, `WasmerWorker_proofs`, `KernelInterface_proofs`, `WideBuiltins_proofs` | the theorems | |

A few definitions beside those of the code, such as `AbortKept` or `LatestText`, are small variations of their
neighbours (a flag that is not cleared, a text that is read too late). Nothing of the models uses them; a property is known to
say something when it fails with the variation in place of the definition.

### HipBridge

Each action is one uninterrupted piece of C++ or JavaScript. The host actions (`HipMalloc`, `HipMemcpy`,
...) are the part of a call before `proxySyncWithCtx`: they return at once (a host-to-host
`hipMemcpy`, a bad direction, an unknown symbol, no bytes, a null pointer) or queue the call in `wQueue` and block. The main thread starts
calls in queue order (`StartMalloc`, `StartMemcpy`, ...); a start is everything up to the first `await`:
it pushes its scope and does its work (`hipMalloc` and `hipFree` pop at once, the functions wrapped in `asyncify`
later, in `PopScope`, when they have settled). What follows an await is an action (`CopyMapped`, `PrintfMapped`,
`AbortMapped`, `MallocPopped`; `CopyRejected` where `mapAsync` is rejected because the size is no multiple of four or the device refused the
staging buffer, which leaves the host's memory alone), `Finish` is `ctx.finish`, and `Return` is the rest of the C++ function:
it prints `printfData.buffer`, exits on `hipErrorAssert` and keeps the last error.

`pc[t]` says where the call of thread `t` is; `op[t]` is its arguments and the locals of both halves; `mgr` is the
table of handles; `mem`, `printfBuf`, `abortFlag` and `timestamps` are on the device; `printfMap` and
`abortMap` name the launch that holds a staging buffer. `Fault` is what the device may do to an operation:
nothing, a validation error, an out-of-memory error, or an exception (`"throw"`). The contents
of a buffer are one value, a kernel stores one value in one buffer, and prints one
record, named by its launch. Device variables are registered before `main`, in `Init`. `hipMemcpyToSymbol` is what compiled programs call it for, a
copy to the device; its other kinds take the branches `hipMemcpy` has, and the assertion on its offset is left out.

Three things in the code are modelled as they are although they look unintended: `hipFree` compares a pointer (a handle times 8)
with an unscaled handle; a failed launch leaves the old `printfData.buffer` in place; `asyncify`
takes whichever scope is on top.

### PrintfBuffer

`Reserve` is the atomic addition to word 0; `Plan` is which of the three branches the generated code
takes (the whole record, the identifier alone, nothing). `StoreArg` and `StoreId` are one store each,
arguments first. `Collect` is the copy of the buffer and the reset of word 0, and of no other word. `PrintRecord`,
`SkipRecord`, `Throw` and `EndWalk` are one turn of `cvk_printf`'s loop: a known identifier whose arguments
are there, a format without conversions (which leaves the arguments in front of the pointer), `std::out_of_range`
from `map.at`, and the end. A word of the model is a word of the buffer; an argument takes one. In the code that is so for
arguments of four bytes only: the allocation counts `max(4, size)` bytes for each, while the stores go on by `size / 4` words (`PrintfPass.cpp:217-221`), which is two for eight bytes
and none for fewer than four. A string argument is the
identifier of its literal, looked up in the same map. The text a conversion produces is abstracted.

### Compilers, Session, Startup, Page, WasmerWorker

`Compilers` has the actions of a worker (`Loaded`, a command that succeeds, fails or throws, `NoKernels`, the final message) and of the page
(taking the next message of a worker, starting the next worker, `Promise.all`). `stages` and `parallel`
are chosen in `Init`: the two lists that are compiled, and `navigator.deviceMemory >= 8`.
`shown` is what the terminal received before it was cut off.

`Session` has one action per await of `run` and `compile`, and those of the user (`Edit`, `ClickRun`, `ClickCancel`), of the program
(`ProgramExits`) and of the garbage collector (`Revoke`). A run's record holds its signal, the text
it read, where its code came from, its device and its program. Compiling is one action that succeeds or fails:
what happens within it is `Compilers`.

`Startup` has one action per await of `init`; the cache operations nobody awaits are the actions of `cleaner`.
The pages of a site share `crashFlag` and `cache`. `Leave` has the pagehide event, `Crash` has not.
`localStorage.setItem` succeeds for the flag: where it throws, the code goes on without it.
Any of the cache operations may be refused (`CacheRefuses`): the put by the quota or for a reply of status 206, and so may the lookup. An entry that is there and cannot be
read (`unread`) sends the page to the fetch of `run.ts:90`, and then the deletion nobody awaits can hit the entry that is just being put.

`Page` gives each page an editor: `Mount` opens the text that is stored, or the sample (the empty text counts as none), `Change` is an
edit, and `Save` the idle callback, which fails when the quota is used up. A page that is left or crashes takes its editor with it;
`Lifetime` is that and every action of `Startup`.

`WasmerWorker` has `Post` (the pool), `Receive` (the handler of a message) and the steps of the start (`Imported`, `Instantiated`,
`DrainNext`, `Drained`). The import, the instantiation or the constructor of the worker may fail (`StartFails`): then `worker` is never set and all that
arrives is put aside. Handlers are asynchronous: `Done` and `Reject` end one at any later time.

### Descriptors, PrintfFormats, KernelInterface

`Descriptors` is the pass over the parameters of all kernels of a module, one parameter per step, in three stages: `Scan` looks for
resource variables that kernels can share (`discriminant_map`), `Bind` assigns bindings in the one descriptor set, `Specialize` takes
specialisation constants for shared memory (`GetSpecId`). A type is whatever two parameters must agree in; which parameters are used
is an input.

`KernelInterface` begins with a program as clang leaves it: of each kernel, its arguments and its calls of printf. `Params` is what the two
passes about arguments by value make of them: a uniform struct, or a storage buffer where a struct does not fit the rules for uniforms
(`PodKind`), with padding before structs (`Members`) and an index that is corrected for it (`MemberOf`). The steps are those of
`Descriptors`, the reflection's lines (`Reflect`), the page's table (`BuildTable`), the start of the program, which reads the formats (`StartModule`), and `Launch`, which
fills uniform buffers byte by byte. A byte of a buffer is the argument and the byte of it that were written there. A program has no
kernel that initialises variables (`_chip_var_init_`, for which `run.ts:340` makes an exception), and the buffers of device variables, which the page takes
from `wgpuGlobals` and not from the arguments (`webgpu.js:88-95`), are left out; with neither, the test for a binding that is there already (`run.ts:353`) skips nothing. The programs are those
of HipScript's command line: it has no push constants, and HIP has no samplers or images. An original order of lines
is kept where a reader depends on it.

`PrintfFormats` are the functions in between: clspv's numbering of calls and literals (`FormatTable`), the reflection's stream, which goes on in hexadecimal after the first byte of a text
(`PrintfLine`), and the decimal reader of the runtime (`FormatMap`). The same numbering is in `PrintfBuffer`, as the identifiers that records hold.

### Words, IntegerBuiltins, WideBuiltins

A state is the operands of one call; a step changes one of them, so that all calls are reached. Each builtin is an operator that follows the
instructions clspv generates, on words of `W` bits: a word wider than the target's is built of halves of `W \div 2` bits, a narrower one
is computed in `2 * W`. The properties compare them with exact arithmetic, and where the code is not exact they say for which operands.
`Words` computes with `Half`, the value of the top bit, so that the proofs about `IntegerBuiltins` need no powers; `Pow2`, the powers of two, is a
recursive function, and so is the number that `OfBits` makes of a set of bits.

## What TLC checks

| Run | Question | Bounds | Distinct states |
|---|---|---|---|
| `bridge_one_thread` | With one host thread, every call and fault, and copies and launches with pointers that were freed: `ImplementsDevice` (each call is one atomic step of `HipDevice`), `ErrorsAreOwn`, `SuccessPrintsOwn`, `TypeOK` | 3 calls, 5 kernels (plain, printing, asserting, both, missing) | 131 thousand |
| `bridge_memory` | Do two threads that allocate, free and copy see an atomic device? | 2 calls each, 2 values | 68 thousand |
| `bridge_launches` | Two threads launch: `DroppedIsReported`, `StatusIsResult`, `AssertionIsOwn`, `TimestampsMatch`, `StagingReleased`, `ScopesBalanced`, `CallsReturn` | 2 calls each, 2 kernels, 2 pairs of timestamps | 330 thousand |
| `printf_records` | `RecordsDisjoint`, `RecordsIntact`, `PrintedIsWritten`, `WarningIsTrue`, `WalkEnds` | 2 invocations, 2 calls each, 2 launches, 6 words | 70 thousand |
| `worker_start` | `EachOnce`, `BufferedInOrder`, `AllHandled`, with the start or any handler failing | 5 messages | 2.6 thousand |
| `compilers` | `FailureIsExplained`, `KeepsPromise` (the refinement of `CompilePromise`), `Settles` | both lists, parallel and not, every fault, the silent death of a worker | 20 thousand |
| `session_runs` | `OneRun`, `RunsItsText`, `UrlLives`, `OwnDevice`, `CancelledEnds` | 3 runs, 3 texts, any await fails | 271 thousand |
| `session_loading` | disagreement 1 below | 1 run | |
| `startup` | `CrashStopsAutoStart`, `HeldBackAfterCrash`, `DownloadIsCached`, `EditsAreSaved` | one tab, loaded 4 times, both replies, any cache operation refused, 3 texts | 183 thousand |
| `kernels` | `ResourcesDistinct`, `ArgumentsArrive`, `ReflectionIsRead`, `SharedIsGiven` | 1128 programs of one or two kernels | 20 thousand |
| `kernel_structs` | disagreement 2 below | kernels with 2 or 3 values | |
| `integers` | `ShortFormsExact`, `SumsSaturate`, `MultipliesExact`, `BitsExact` | words of 4 bits, all operands | 4096 |

Why the bounds are enough. The bridge's scopes, staging buffers and queue are disturbed by two threads that
overlap once; two calls of each let an error of one call reach the next one, and fill the two pairs of
timestamps (`Slots`, 128 in the code) and run past them. One thread needs three calls
for an allocation, its use and a use after it, or for a launch that fails between two others. The printf buffer of six words
holds one record with two arguments and one without, and cuts a record at every place, the words of the first
launch being there in the second. Three runs suffice for a program that outlives its
run (1), a run that replaces the device and the cache (2) and one that goes back to the text of either (3).
Every kernel of up to two arguments of nine sorts is launched, alone and with a kernel that
shares its bindings, constants or nothing; longer ones put values of all alignments between pointers, and tables of formats lie on both
sides of the bound of ten. Words of four bits have halves of two, and all triples of them are operands: carries between halves, both signs, and the
least number, whose magnitude does not fit, are among them.
Five messages let three be put aside and two arrive during the loop, or the other way round.

What is only true of one thread, and is checked there: `ErrorsAreOwn` (with two, see `em.cpp:67` below) and `SuccessPrintsOwn`
(`printfData.buffer` is shared, so two threads may print each other's records). Two threads with faults keep the
*number* of scopes right, which `Balanced` proves, never their owner. `bridge_launches` has no `hipMalloc`: that its second pop (`em.cpp:67`) keeps the number as well is
shown by `Balanced` alone. `StagingReleased` needs two threads: only then is a mapping refused because another launch holds the buffer.

`Misused` contains what a program of the run may do wrong. It excludes `hipFree`, because
after it the thread never returns and the other properties would be about nothing.

Where a property has a condition, it is the weakest the code allows: `ReflectionIsRead` says exactly which tables of formats arrive,
`ComparesDifferences`, `MadSaturates` and `FunnelsExact` exactly which operands are computed right. `ArgumentsArrive` leaves out values behind a padded struct
(disagreement 2) and kernels whose values are in a storage buffer, which the page ignores; `SharedIsGiven` leaves out programs with two constants. `EditsAreSaved` ends with the first `setItem` that throws.
`StagingReleased` lets a failed launch keep the assertion buffer. `DownloadIsCached` lets nothing be there if an operation was refused or the page found an entry it could not read,
and something else only after both; an old entry may remain beside the new one if its deletion is refused. `AllHandled` excuses what was put aside when the start fails, or when the handler of another such message does.

## Fairness and deadlock

- `HipBridge`: weak fairness of each thread's `BridgeStep`. The browser runs tasks that are queued, the device settles
  its promises, and C++ goes on once it is woken. The host actions have none: a program may stop calling.
- `PrintfBuffer`: weak fairness of the host's walk only; it is a loop of one thread. A kernel need not end.
- `WasmerWorker`: weak fairness of the event loop and of the start. The start is fair as a whole: an await settles, be it with a failure
  (`StartFails`), after which nothing promises that what was put aside is handled.
- `Compilers`: weak fairness of workers and page. A worker that died takes no step, and `Settles` excuses it.
- `Session`: weak fairness of what a run awaits; none of the program, which may loop for ever, nor of the user,
  so `CancelledEnds` rests on the cancellation and not on the program's end.
- `Startup` and `Page`, `KernelInterface` and `WideBuiltins` have no liveness property and no fairness.

`KernelInterface` is checked for deadlock: its launches never end. All other configurations have `CHECK_DEADLOCK FALSE`: a program may exit, a user may go away, calls, launches and
messages are bounded, and a promise settles once.

## What is proved

TLAPS checks each of these from nothing; they hold for every value of the constants that the named
assumptions (`BridgeAssumption`, `PrintfAssumption`, `SessionAssumption`, `TextsAssumption`, `StartupAssumption`, `WorkerAssumption`, `AbstractionAssumption`, `CompilersAssumption`, `ModulesAssumption`,
`ProgramsAssumption`, `MemoriesAssumption`, `WidthAssumption`, `HalfAssumption`, `ThirdAssumption`, `BytesAssumption`) allow. Where a theorem needs more, its `ASSUME` says so, and the reason is given here.

**The bridge** (`HipBridge_proofs`). All invariants of `HipBridge` are theorems.

- `TypeCorrect`, `Spec => []TypeOK`. The inductive invariant `TypeInv` states the types in four parts, one for each group of
  variables that a step changes together, and adds `Started`: a thread inside a call has made one, so that `Me(t)` is a launch.
- `Balanced`, `Spec => []ScopesBalanced`: for any finite set of threads, any interleaving and any faults, the device has exactly one open
  scope for each call that owes a pop. The proof takes it together with `TypeInv` and counts `Owing`, with the library's theorems on
  cardinalities, as one thread enters or leaves it: a start pushes exactly what the later steps of its call pop, and no pop meets an empty stack.
- `StatusTold`, `Spec => []StatusIsResult`, for any threads, faults and misuse. The invariant `LInv` says what every launch owns: its row in the list (`RowOK`), the staging buffer it waits
  for unless it fails by its own fault (`ClaimOK`), its assertion (`ToldOK`), and the pair of timestamps of its row (`TimesOK`); between two steps the device's printf buffer and assertion flag are empty
  (`DeviceOK`), and a thread's step moves no other thread's call (`OwnStep`, `RowsStay`).
- `OwnErrors` and `OwnRecords` (`ErrorsAreOwn`, `SuccessPrintsOwn`), each for one thread and any kernels, faults and misuse. One thread is what the code supports: a pop returns the innermost
  scope, whoever pushed it, and `printfData` and the staging buffers are shared. The invariant `Alone` ties each place of a call to what is on the stack, in the call's record (`ScopeIsOwn`) and in the
  staging buffers (`MapsAreOwn`, `RecordsAreOwn`).
- `StagingIsReleased`, `Spec => []StagingReleased`, for any threads, faults and misuse. `HeldOK` says that the printf buffer is mapped for a launch that waits for it, and the assertion
  buffer for one that will read it, or that has failed and whose row says so or will (`Told`, `WillTell`).
- `RefusalsAreTold`, `OwnAssertion` and `OwnTimestamps` (`DroppedIsReported`, `AssertionIsOwn`, `TimestampsMatch`) under `Tells`: there is one thread, or no call is refused for its own arguments and none frees a device variable, so
  that taken staging buffers are the only reason of a refusal. Otherwise a refusal can end in another thread's scope, and all three are false. With many threads `RInv` adds that the assertion flag is never freed and that a launch which was
  refused waits for a buffer it does not hold, or has failed; `RowsTimed` adds that a row without its timestamps is a failed launch's or one that is going to fail.
- `BridgeIsDevice`, `Spec => ImplementsDevice`: the refinement of `HipDevice`, initial state and each step, under `Separate`: one thread, and no kernel needs an assertion flag that the program may have freed (`FlagSafe`); or any number
  of threads, and no operation fails on the device but by an exception, no copy overlaps and no kernel needs a staging buffer (`Faultless`). Otherwise an error can end in another thread's scope, and a call returns what is not its own.
  The start of a proxied function is the device's `Apply`, because the device's queue is in order; a mapped copy is `Deliver`, one that is rejected is `Withhold`, the return `Respond`, and every other step on the main thread stutters. `MemInv` says that a call names only handles that were given out
  (`AskedOK`) and that an `hipMalloc` drops the buffer it does not hand out (`MallocOK`); that a call fails by its own errors alone (`Attributed`) comes from `Alone` in the first case,
  and from `CleanInv` (no scope ever holds an error) in the second. `AbstractionAssumption` says that the values the mapping uses for "no request" and "no buffer" are neither.

**Device printf** (`PrintfBuffer_proofs`), for any number of invocations, calls, launches and words:

- `Disjoint` and `Intact` (`RecordsDisjoint`, `RecordsIntact`): records share no word and none reaches the offset in word 0; and the record of a call that has returned and fits holds
  its identifier and arguments while the kernel runs. The invariant `IInv` is the conjunction of `Stacked` (each record begins where
  the one before it ends, and word 0 is the end of the last), `BufferOK` (the buffer has its words), `Owners` (a record that is being stored has one
  invocation), `Progress` (the arguments already stored are in place) and `Finished` (the records nobody stores any
  more are complete if they fit). `Disjoint` follows from `Stacked` alone; `Intact` needs
  all five, because a store of one invocation must be known to miss the record of every other.
- `WarnedRightly` (`WarningIsTrue`): the host says that printfs were skipped only when a record did not fit. `WInv` adds to `IInv` that the records leave no gap up to the offset (`Filled`, so that more reserved than there is means
  that the last record does not fit) and that even a cut-off record begins with its identifier if that fits (`Identified`).
- `Printed` (`PrintedIsWritten`), if every format converts all its arguments (`AllConverted`; otherwise the host loses its place, see below): a walk that completes has printed the records that fit, all of them, in order. `PInv` adds that the host's
  copy has what was stored (`Copy`), and where the walk is (`Walking`): at the beginning of the first record it has not printed, or past the end because that record was cut off. Identifiers of different calls
  differ (`IdIsOne`), because formats and literals are numbered from one count.

**The page**

- `Compilers_proofs!FailuresExplained` (`FailureIsExplained`): for any commands, failures and interleaving of messages. The invariant gives every message that was not taken its place: what a failed command printed is in front of its `err`, or on the terminal (`MessageOK`).
- `Compilers_proofs!PromiseKept`, `Spec => KeepsPromise`: the refinement of `CompilePromise`, initial state and each step. It needs the same invariant, since a promise that resolves must do so with the files of its own job, and `Promise.all` only once all have.
- `Session_proofs`: `OneRunAtATime`, `TextKept`, `UrlKept` and `DeviceKept` (`Spec => []OneRun`, `[]RunsItsText`, `[]UrlLives`, `[]OwnDevice`) and the types,
  for any number of runs, any texts and failures anywhere. `OneRun` is inductive with the types; the others are not: the invariant adds
  `NoCodeYet` (before it has code a run has neither program nor URL, so a revoked URL is never that of a compilation under way), `TextOK` (the cache's
  label is right as well as each run's), `UrlOK` (an active run's URL is that of the cache, which the collector leaves alone) and `DeviceOK`
  (from the device on it is `window.wgpuDevice`). Each step of a run ends it or moves it to the next await, so two lemmas (`EndFacts`, `GoOnFacts`) carry the invariant and
  the lemmas of the actions only give the record the step leaves.
- `Page_proofs!CrashStops`, `HeldBack` and `Cached` (`CrashStopsAutoStart`, `HeldBackAfterCrash`, `DownloadIsCached`), for one tab and any visits, crashes and failures, in whatever order the operations on the cache end and whichever are refused. `StartupInv` says what the flag in local storage means at each place of a page (`ClearsOK`, `FlagOK`) and that the
  operations on the cache delete the entry they put only if the page found one there that it could not read (`CacheOK`). Two tabs share flag and cache, and then all three are false.
- `Page_proofs!EditsSaved` (`EditsAreSaved`), for one tab and any texts: what is stored or due is what the editor shows, until storing fails. Texts are not the value `none` of an empty storage (`TextsAssumption`).
- `Page_proofs!PageImplementsStartup`, `PageSpec => Spec` of `Startup`, for any tabs: the theorems above about the start of the page hold beside the editor.
- `WasmerWorker_proofs!HandledOnce` and `OrderKept` (`EachOnce`, `BufferedInOrder`), for any number of messages and any failing handlers. A message is found in one queue by its number alone (`QueuesOK`: each queue is a stretch of the numbers), and those that were handled are
  those that left the list or came after the worker was there (`HandledOK`).

**clspv**

- `KernelInterface_proofs`: all invariants of `KernelInterface` are theorems, for any programs of any kernels, arguments, layouts and formats.
  - `ResourcesAreDistinct` (`DescriptorsSpec => []ResourcesDistinct`) for the pass alone, and `ResourcesStayDistinct` through every later step. `ResourcesDistinct` is not inductive, because it
    says nothing of the maps that the next parameter is looked up in. `IInv` gives these their meaning: a variable is the place of the discriminant of all its parameters (`VariablesOK`), a binding that of
    their index, each index having one (`BindingsOK`), a constant that of their type, once in a kernel (`ConstantsOK`), and bindings are only given to what was scanned (`ScannedOK`). A shared variable then has one
    binding because equal discriminants have equal indexes.
  - `ArgumentsReachKernels`, `SharedMemoryIsGiven` and `ReflectionIsReadAlways` (`ArgumentsArrive`, `SharedIsGiven`, `ReflectionIsRead`). `Complete` adds to `IInv` what the pass has done at each stage: no parameter without a binding
    or constant at the end, no binding without a parameter. `InterfaceInv` says that lines, table, map and launch are functions of the program and these resources (`LinesOK`, `TableOK`, `DataOK`, `PassOK`); what remains is
    about these functions. Members of a struct end one behind the other (`Ends`), so that the bytes of two values never overlap; the binding of a line is its parameter's own; the format of a line is
    read as it was written if and only if its bytes are ASCII and the numbers behind the first text have one digit.
- `WideBuiltins_proofs`: all four properties of the builtins, for words of every width (`MultipliesAreExact` and `BitsAreExact`: that is a multiple of four, because words have halves and four bytes). The theorems follow from
  lemmas about one builtin and all its operands, because the operands of a call are words (the lemma `OperandsAreWords`).
  - `ShortFormsAreExact`, `SumsAreSaturated` split on where a sum or difference wraps (`SignedSum`, `SignedDifference`). `AverageLemma` writes each operand as twice its half and its last bit.
  - `MultipliesAreExact` takes a product apart by quotient and remainder: what is put together as `q * d + r` has these and no others (`DivUnique`). The four products of halves give both words (`HalvesLower`, `HalvesUpper`) of the product of the
    magnitudes, and the negation of a double word is that of the number, carry included. For the wide signed `mad_sat` it shows in one equivalence that the result is right and that it is wrong: exactly for the operands of `MadSatMisses`.
  - `BitsAreExact` rests on a word being the number of its bits (`OfBitsOf`, `SameBits`): two words with the same bits are one, so a funnel shift, a selection or a swap is compared bit by bit with the double word,
    operand or byte it should be (`BitHigh`, `BitLow`, `BitMoved`). Counted zeros need no bits: they are the least or greatest power of a set (`MinIs`, `MaxIs`).

A fact about every number, such as the sum that `OfBits` computes up to each bit, or about every place of a sequence, cannot cite the library's induction theorems, whose parameter is an operator. It is proved from
well-founded sets instead: the set of counterexamples has no least member, so it is empty (`NoLeast`, `NoFirst`, in both modules). That takes one proof for each fact, and recursion written as recursive functions.

Model-checked only:

- liveness (`CallsReturn`, `WalkEnds`, `AllHandled`, `Settles`, `CancelledEnds`), which rests on fairness;
- the two properties that the code violates, of course.

## Where the code and its documentation disagree

Each has a run that TLC ends with a counterexample.

1. `session_loading`, `CancelStopsProgram`. The signal is not looked at between the compilation and the start of the module (`run.ts:472`): a run that is cancelled there throws when `main` already runs,
   neither `kill` nor `_stop_bg_threads` is called, and the program goes on behind a page that says Run. TLC's shortest trace has the empty text, which is that of the
   initial cache (the code would find no module there); a text that is compiled first takes the same steps after it.
2. `kernel_structs`, `IndexesFixed`. `ClusterPodKernelArgumentsPass.cpp:179` says "Fix the index for the offset of the argument", but the index of an argument is raised only by the
   padding before itself, not by that before earlier ones. In a kernel with a float and two structs by value the second struct is read from padding.

Seen while modelling, without a run of their own. In the runtime:

- `em.cpp:97` compares a pointer, which is a handle times 8, with `user_buffer_start`, which is not scaled: the guard does not
  keep a program from freeing a device variable.
- `hip_runtime_api.h:3909-3911` says `hipFree` returns `hipErrorInvalidDevicePointer` for an invalid pointer; a second `hipFree` throws in the proxied
  function (`em.cpp:108`), `ctx.finish` is never called and the thread stays blocked.
- `hipMalloc` issues its second pop in the callback of the first (`em.cpp:67`): if another thread pushed a scope in between, it takes that thread's validation error for its own.
- `em.cpp:172` uses `RETURN(err)`, and the macro (`impl.hpp:7`) declares a variable of the name `err` that it initialises with itself: for an
  unknown symbol `hipMemcpyToSymbol` returns an indeterminate code. The model returns any.
- `webgpu.js:192-214`: the mapping of the assertion buffer is requested before the one of the printf buffer is awaited. Where the second is rejected, because another launch holds
  that buffer, nobody unmaps the first: it stays mapped, and every later launch that asserts is refused.
- `em.cpp:298`: the host threads share `printfData.buffer`; those whose launches finish close together print each other's records.

In printf:

- `ReflectionParser.cpp:328` leaves the stream in hexadecimal, and `em.cpp:190` and `204` read base 10: of a program with more than ten formats and literals the eleventh replaces the first,
  and an argument of 16 bytes counts as 10. A byte that is not ASCII is printed as a negative number of eight digits and arrives as four bytes. `FormatsRead` has this exactly.
- `printf.cpp:174-176` says that the data pointer is moved to the end for a format without conversions; the statement is commented out (line 180), and with an argument the walk reads that as the next identifier.
- `printf.cpp:278-281` compares the offset, which does not count word 0, with the size of the whole buffer: if the last record is too long by one word nothing says so. `WarningIsTrue` is the direction that holds.
- A cut-off record that begins with a string has the word of an earlier launch behind its identifier; `printf.cpp:231` looks that up and throws `std::out_of_range`.

In clspv and between it and the page:

- The padding before a struct is computed from the offsets without padding, so a second struct need not be at a multiple of 16, although `AutoPodArgsPass.cpp:145` relies on "clustering will fix the layout".
- A kernel whose values are in a storage buffer (`pod`) launches without them: the page knows `buffer` and `pod_ubo` only (`run.ts:316`).
- Only the first constant of shared memory becomes an override; the others are frozen at one element (`compiler.worker.ts:133-161`). The overrides are put in for numbers, and `\b31[ui]?\b` also matches part of a literal such as `31.5`.
- The wide signed `mad_sat` (`ReplaceOpenCLBuiltinPass.cpp:4025`) is wrong for the operands of `MadSatMisses`; a funnel shift by an amount that is no constant and a multiple of the width joins both
  words (`ReplaceLLVMIntrinsicsPass.cpp:277`); the comparisons of `-hack-scf` are wrong where the difference overflows. HipScript's own command line does not pass `-hack-scf`.
- `__urhadd` (`int_intrinsics.hh:203-205`) calls the signed `rhadd`.

In the page:

- `wasmer.worker.js:20-23`: when the SDK cannot be imported or instantiated, or `new ThreadPoolWorker` throws, `worker` stays undefined, every message from then on is put aside, and nobody is told.
- `run.ts:95-100`: nobody looks at the promises of the cache operations. A refused put leaves the cache empty, since the deletions go on; and where an entry could not be read (`run.ts:85`),
  its deletion may end after the put and take the new entry.
- `wasmer.worker.js:25-27` splices all messages before it handles the first: when a handler fails, those behind it are lost.
- For code without kernels `compiler.worker.ts:131` returns early, without `bc` and `cl`, and `run.ts:211-212` hands `undefined` to `download`.
- A compiler worker the browser ends posts nothing and has no error handler: `runCompilers` never settles, and
  Cancel does not end that run either (`run.ts:31`).
- A failed `init` stays the page's `libInit` (`+page.svelte:84`): no click tries again.
- Two tabs share the crash flag (`run.ts:122`): one removes it while the other compiles, or takes it for a crash.
- The reply to the download is used and cached whatever its status (`run.ts:91-100`).
- When `setItem` throws, `willSave` stays set (`Monaco.svelte:32`) and no later edit of that page is stored; an editor that was emptied opens with the sample.

## What is not modelled

- Most of the repository's lines are code of others: the headers of HIP, OpenCL, SPIR-V and spdlog, which are declarations and have no behaviour of this program, and clspv, a compiler whose passes
  transform LLVM modules. A pass whose state is the LLVM IR, with LLVM's analyses as inputs, has no small instance that a model could enumerate and no
  definition to check it against short of a semantics of LLVM and SPIR-V. What of clspv is modelled is what has a specification of its own: numbers (the builtins), resources, the layout
  of arguments, printf, reflection. The share of lines the models stand for is small for that reason.
- Of the builtins: `UndoTruncateToOddInteger`, the byte swap of 64 bits, `upsample`, `copysign`, and everything that converts or computes floating-point numbers or splits vectors.
- `ComputeStructuredOrder.cpp`: a traversal with LLVM's loop and dominator analyses as inputs; without modelling these there is nothing to check it against.
- `twgsl.js`, `llvm_manifest.json`, build files, samples and static files: generated, or without state at run time.
- The layout of the page, panes and the table of kernels; `downloadFile.ts`, one call of the browser.
- In `HipBridge`, bind groups and pipelines of a launch beyond whether the launch is valid, the grid, and the arguments of a kernel beyond one buffer; `KernelInterface` has the arguments.
- `CallConfigStack` (`em.cpp:231-275`): a stack of each thread, pushed and popped by code clang generates around one call.

## Plan

The order was: the bridge first (the runtime is where threads, promises and the device meet), then its abstract device and
refinement, device printf, the compilers and their promise, the session, the start and the wasmer worker; then the editor, the kernel
interface from the arguments to a launch, and the integer builtins;
the theorems about each of them, ending with those about the kernel interface and the products and bits of words. Next:
`CallConfigStack` in the host side of `HipBridge`, with launches nested in the arguments of others.
