------------------------------- MODULE HipBridge -------------------------------
(***************************************************************************)
(* The HIP runtime of a running program: em.cpp, errors.cpp and webgpu.js. *)
(*                                                                         *)
(* A program's host threads are web workers; the WebGPU device lives on    *)
(* the page's main thread.  A runtime call that needs the device is        *)
(* proxied: the caller blocks in proxySyncWithCtx until the main thread    *)
(* calls ctx.finish.  The main thread runs the proxied functions in queue  *)
(* order, but each of them is asynchronous: between the moment it starts   *)
(* and the moment it finishes, functions proxied by other host threads     *)
(* start and run on the same device, the same stack of error scopes and    *)
(* the same staging buffers.                                               *)
(*                                                                         *)
(* One action is one uninterrupted piece of JavaScript or C++.             *)
(***************************************************************************)
EXTENDS Naturals, Sequences, FiniteSets, ErrorScopes

CONSTANTS
    Thread,        \* host threads of the program
    Val, Zero,     \* what a buffer may hold, and what a new one holds
    NVars,         \* device variables registered before main starts
    Kernel,        \* kernels the program launches
    KernelMap,     \* those the compiled module really has (wgpuKernelMap)
    PrintfKernel,  \* those that print
    AbortKernel,   \* those that refer to __chipspv_abort_called
    Slots,         \* kernel launches the timestamp buffer has room for
    MaxCalls,      \* bound: runtime calls per host thread
    Api,           \* runtime functions the program uses
    Fault,         \* what may go wrong with an operation on the device
    Misused,       \* functions the program may call with a pointer that is
                   \* not (or no longer) one hipMalloc returned, or with
                   \* overlapping ones
    None           \* no launch

FaultKinds == {"none", "throw", OutOfMemory, Validation}
ApiNames   == {"hipMalloc", "hipFree", "hipMemcpy", "hipMemcpyToSymbol",
               "hipLaunchKernel", "hipGetLastError"}
CopyKinds  == {"HostToDevice", "DeviceToHost", "DeviceToDevice", "Default"}

\* A launch is named by its thread and the number of the call.
Launch == Thread \X (1 .. MaxCalls)

ASSUME BridgeAssumption ==
    /\ IsFiniteSet(Thread) /\ None \notin Launch
    /\ Zero \in Val
    /\ NVars \in Nat \ {0} /\ Slots \in Nat /\ MaxCalls \in Nat
    /\ KernelMap \subseteq Kernel
    /\ PrintfKernel \subseteq Kernel /\ AbortKernel \subseteq Kernel
    /\ Api \subseteq ApiNames /\ Misused \subseteq ApiNames
    /\ Fault \subseteq FaultKinds

\* The handles of mgrBuffer are small numbers, given out once; the device
\* variables are registered first.  The program sees a handle times 8.
Handle == 1 .. (NVars + MaxCalls * Cardinality(Thread))
AbortVar == 1
UserBufferStart == NVars

Code == {"hipSuccess", "hipErrorInvalidValue", "hipErrorOutOfMemory",
         "hipErrorInvalidSymbol", "hipErrorInvalidDeviceFunction",
         "hipErrorAssert"}

VARIABLES
    pc,          \* where each host thread's call is
    op,          \* the call each host thread is in
    calls,       \* number of calls each host thread has made
    lastError,   \* CHIPTlsLastError
    ret,         \* what each host thread's last call returned
    hostMem,     \* what each host thread last read back from the device
    wQueue,      \* w_queue: threads whose proxied function has not started
    scopes,      \* the device's error scopes
    popped,      \* what the last popErrorScope of each call reported
    mgr,         \* mgrBuffer: "unused", "live" or "gone"
    nextHandle,
    mem,         \* contents of the device's buffers
    printfBuf,   \* wgpuPrintfBuffer: records of kernels not yet collected
    printfStage, \* wgpuPrintfStagingBuffer, and the launch that maps it
    printfMap,
    abortFlag,   \* __chipspv_abort_called on the device
    abortStage,  \* wgpuAbortStagingBuffer, and the launch that maps it
    abortMap,
    hostPrintf,  \* printfData.buffer
    output,      \* records printed on the terminal
    kernelsRan,  \* wgpuKernelsRan
    timestamps,  \* wgpuTimestampReadBuffer: the launch each slot timed
    exited       \* the program has exited

hostVars  == <<calls, lastError, ret, hostMem, output, exited>>
memVars   == <<mgr, nextHandle, mem>>
stageVars == <<printfBuf, printfStage, printfMap, abortFlag, abortStage,
               abortMap>>
launchVars == <<stageVars, hostPrintf, kernelsRan, timestamps>>
vars == <<pc, op, hostVars, wQueue, scopes, popped, memVars, launchVars>>

\* The launch the call of t is, if it is one.
Me(t) == <<t, calls[t]>>

NoOp == [fn |-> "none", kind |-> "none", dst |-> 0, src |-> 0, val |-> Zero,
         kernel |-> "none", fault |-> "none", asserts |-> FALSE,
         failed |-> FALSE, code |-> "hipSuccess", data |-> Zero,
         own |-> FALSE, dropped |-> FALSE, row |-> 0]

Init ==
    /\ pc = [t \in Thread |-> "idle"]
    /\ op = [t \in Thread |-> NoOp]
    /\ calls = [t \in Thread |-> 0]
    /\ lastError = [t \in Thread |-> "hipSuccess"]
    /\ ret = [t \in Thread |-> "hipSuccess"]
    /\ hostMem = [t \in Thread |-> Zero]
    /\ wQueue = <<>>
    /\ scopes = <<>>
    /\ popped = [t \in Thread |-> FALSE]
    /\ mgr = [h \in Handle |-> IF h <= NVars THEN "live" ELSE "unused"]
    /\ nextHandle = NVars + 1
    /\ mem = [h \in Handle |-> Zero]
    /\ printfBuf = <<>> /\ printfStage = <<>> /\ printfMap = None
    /\ abortFlag = FALSE /\ abortStage = FALSE /\ abortMap = None
    /\ hostPrintf = <<>>
    /\ output = <<>>
    /\ kernelsRan = <<>>
    /\ timestamps = [i \in 0 .. (Slots - 1) |-> None]
    /\ exited = FALSE

--------------------------------------------------------------------------------
(* The host side of a runtime call.                                         *)

\* The macro RETURN of impl.hpp: a failing call is remembered in thread-local
\* storage, a successful one leaves that alone.
Returns(t, code) ==
    /\ ret' = [ret EXCEPT ![t] = code]
    /\ lastError' = IF code = "hipSuccess" THEN lastError
                    ELSE [lastError EXCEPT ![t] = code]

\* A call that never reaches the main thread.
ReturnAtOnce(t, code) ==
    /\ calls' = [calls EXCEPT ![t] = @ + 1]
    /\ op' = [op EXCEPT ![t] = NoOp]
    /\ Returns(t, code)
    /\ UNCHANGED <<pc, hostMem, output, exited, wQueue, scopes, popped,
                   memVars, launchVars>>

\* proxySyncWithCtx: queue the function for the main thread and block.
Proxy(t, o) ==
    /\ calls' = [calls EXCEPT ![t] = @ + 1]
    /\ op' = [op EXCEPT ![t] = o]
    /\ pc' = [pc EXCEPT ![t] = "queued"]
    /\ wQueue' = Append(wQueue, t)
    /\ UNCHANGED <<lastError, ret, hostMem, output, exited, scopes, popped,
                   memVars, launchVars>>

MayCall(t, fn) ==
    fn \in Api /\ pc[t] = "idle" /\ ~exited /\ calls[t] < MaxCalls

Busy == {t \in Thread : pc[t] # "idle"}

\* The pointers a program can pass to fn: what hipMalloc and
\* hipGetSymbolAddress gave it and no other thread is freeing, and if it
\* misuses fn, also the stale ones.
Pointer(fn) ==
    LET allocating == {op[u].dst : u \in {v \in Busy : op[v].fn = "hipMalloc"}}
        freeing    == {op[u].dst : u \in {v \in Busy : op[v].fn = "hipFree"}}
        inUse      == UNION {{op[u].dst, op[u].src} : u \in Busy}
        known      == {h \in Handle : h < nextHandle} \ allocating
        alive      == {h \in known : mgr[h] = "live"} \ freeing
    IN  IF fn \in Misused THEN known
        ELSE IF fn = "hipFree" THEN {h \in alive : h > NVars} \ inUse
        ELSE alive

HipMalloc(t) ==
    /\ MayCall(t, "hipMalloc")
    /\ \/ ReturnAtOnce(t, "hipErrorInvalidValue")         \* ptr is null
       \/ ReturnAtOnce(t, "hipSuccess")                   \* size is 0
       \/ \E f \in Fault \ {"throw"} :
            Proxy(t, [NoOp EXCEPT !.fn = "hipMalloc", !.fault = f])

HipFree(t) ==
    /\ MayCall(t, "hipFree")
    /\ \/ ReturnAtOnce(t, "hipSuccess")                   \* ptr is null
       \/ \E h \in Pointer("hipFree") :
            IF 8 * h < UserBufferStart
            THEN ReturnAtOnce(t, "hipErrorInvalidValue")
            ELSE Proxy(t, [NoOp EXCEPT !.fn = "hipFree", !.dst = h])

\* The device side of a copy: which pointers are handles depends on the kind.
CopyOp(kind, d, s, v, f) ==
    [NoOp EXCEPT !.fn = "hipMemcpy", !.kind = kind, !.dst = d, !.src = s,
                 !.val = v, !.fault = f]

HipMemcpy(t) ==
    /\ MayCall(t, "hipMemcpy")
    /\ \/ ReturnAtOnce(t, "hipSuccess")     \* 0 bytes, or from host to host
       \/ ReturnAtOnce(t, "hipErrorInvalidValue")         \* a null pointer
       \/ Proxy(t, CopyOp("Default", 0, 0, Zero, "none"))
       \/ \E f \in Fault \ {OutOfMemory}, p \in Pointer("hipMemcpy") :
            \/ \E v \in Val : Proxy(t, CopyOp("HostToDevice", p, 0, v, f))
            \/ Proxy(t, CopyOp("DeviceToHost", 0, p, Zero, f))
            \/ \E q \in Pointer("hipMemcpy") :
                 /\ p = q => "hipMemcpy" \in Misused
                 /\ Proxy(t, CopyOp("DeviceToDevice", p, q, Zero, f))

\* hipMemcpyToSymbol looks the variable up and copies to its buffer.  When the
\* symbol is unknown, the RETURN of the caller initialises its variable err
\* with itself, so what the caller returns, and remembers unless it is a
\* success, is indeterminate; hipGetSymbolAddress has remembered its own error
\* by then.
HipMemcpyToSymbol(t) ==
    /\ MayCall(t, "hipMemcpyToSymbol")
    /\ \/ ReturnAtOnce(t, "hipSuccess")                   \* 0 bytes
       \/ ReturnAtOnce(t, "hipErrorInvalidValue")         \* the source is null
       \/ Proxy(t, CopyOp("Default", 0, 0, Zero, "none"))
       \/ \E h \in 1 .. NVars, v \in Val, f \in Fault \ {OutOfMemory} :
            Proxy(t, CopyOp("HostToDevice", h, 0, v, f))
       \/ \E code \in Code :
            /\ calls' = [calls EXCEPT ![t] = @ + 1]
            /\ op' = [op EXCEPT ![t] = [NoOp EXCEPT !.fn = "unknown symbol"]]
            /\ lastError' = [lastError EXCEPT ![t] =
                                IF code = "hipSuccess"
                                THEN "hipErrorInvalidSymbol" ELSE code]
            /\ ret' = [ret EXCEPT ![t] = code]
            /\ UNCHANGED <<pc, hostMem, output, exited, wQueue, scopes,
                           popped, memVars, launchVars>>

HipLaunchKernel(t) ==
    /\ MayCall(t, "hipLaunchKernel")
    /\ \E k \in Kernel, p \in Pointer("hipLaunchKernel"), v \in Val,
         f \in Fault \ {OutOfMemory}, a \in BOOLEAN :
         /\ a => k \in AbortKernel \cap KernelMap
         /\ Proxy(t, [NoOp EXCEPT !.fn = "hipLaunchKernel", !.kernel = k,
                                  !.dst = p, !.val = v, !.fault = f,
                                  !.asserts = a])

\* hipGetLastError returns the remembered error and forgets it.
HipGetLastError(t) ==
    /\ pc[t] = "idle" /\ ~exited /\ "hipGetLastError" \in Api
    /\ ret' = [ret EXCEPT ![t] = lastError[t]]
    /\ lastError' = [lastError EXCEPT ![t] = "hipSuccess"]
    /\ op' = [op EXCEPT ![t] = NoOp]
    /\ UNCHANGED <<pc, calls, hostMem, output, exited, wQueue, scopes,
                   popped, memVars, launchVars>>

--------------------------------------------------------------------------------
(* The main thread.  A proxied function starts by pushing its error scopes; *)
(* asyncify pops the scope when the function has settled, and finishes the  *)
(* call when the device has answered the pop.                               *)

Starts(t, fn) ==
    /\ ~exited /\ pc[t] = "queued" /\ op[t].fn = fn
    /\ wQueue # <<>> /\ Head(wQueue) = t
    /\ wQueue' = Tail(wQueue)

Live(h) == h \in Handle /\ mgr[h] = "live"

\* Pop the innermost scope of the given stack on behalf of call t.
Pops(t, stack) ==
    /\ popped' = [popped EXCEPT ![t] = PopReports(stack)]
    /\ scopes' = PopLeaves(stack)

\* hipMalloc creates the buffer between two scopes and pops the inner one
\* without waiting.
StartMalloc(t) ==
    LET f == op[t].fault
        stack == PushScope(PushScope(scopes, OutOfMemory), Validation)
    IN  /\ Starts(t, "hipMalloc")
        /\ op' = [op EXCEPT ![t].dst = nextHandle, ![t].own = f # "none"]
        /\ mgr' = [mgr EXCEPT ![nextHandle] = "live"]
        /\ mem' = [mem EXCEPT ![nextHandle] = Zero]
        /\ nextHandle' = nextHandle + 1
        /\ Pops(t, Raise(stack, f))
        /\ pc' = [pc EXCEPT ![t] = "malloc"]
        /\ UNCHANGED <<hostVars, launchVars>>

\* A null wgpu::Buffer gives its handle back.
Drop(t, failed) ==
    mgr' = IF failed THEN [mgr EXCEPT ![op[t].dst] = "gone"] ELSE mgr

\* The first callback of hipMalloc pops the outer scope only now.
MallocPopped(t) ==
    /\ ~exited /\ pc[t] = "malloc"
    /\ op' = [op EXCEPT ![t].failed = popped[t]]
    /\ Drop(t, popped[t])
    /\ Pops(t, scopes)
    /\ pc' = [pc EXCEPT ![t] = "popped"]
    /\ UNCHANGED <<hostVars, wQueue, mem, nextHandle, launchVars>>

\* hipFree: a handle mgrBuffer does not know makes Destroy throw out of the
\* proxied function, so its scope stays and ctx.finish is never called.
StartFree(t) ==
    LET stack == PushScope(scopes, Validation)
        h == op[t].dst
    IN  /\ Starts(t, "hipFree")
        /\ IF Live(h)
           THEN /\ mgr' = [mgr EXCEPT ![h] = "gone"]
                /\ Pops(t, stack)
                /\ pc' = [pc EXCEPT ![t] = "popped"]
           ELSE /\ scopes' = stack
                /\ pc' = [pc EXCEPT ![t] = "hung"]
                /\ UNCHANGED <<mgr, popped>>
        /\ UNCHANGED <<op, hostVars, mem, nextHandle, launchVars>>

\* An exception in the function given to asyncify, before it reached the device.
Throws(t, handles) ==
    op[t].fault = "throw" \/ \E h \in handles : ~Live(h)

Thrown(t) ==
    /\ scopes' = PushScope(scopes, Validation)
    /\ op' = [op EXCEPT ![t].failed = TRUE, ![t].own = TRUE]
    /\ pc' = [pc EXCEPT ![t] = "settled"]
    /\ UNCHANGED <<mem, launchVars>>

\* The function ran up to its first await, if it has one.
Ran(t, o, invalid, next) ==
    LET stack == PushScope(scopes, Validation)
    IN  /\ scopes' = IF invalid THEN Raise(stack, Validation) ELSE stack
        /\ op' = [op EXCEPT ![t] = [o EXCEPT !.own = invalid]]
        /\ pc' = [pc EXCEPT ![t] = next]

\* Mutation: source and destination swapped.
CopiedBack(dst, src) == [mem EXCEPT ![src] = mem[dst]]

\* copyBufferToBuffer
Copied(dst, src) == [mem EXCEPT ![dst] = mem[src]]

StartMemcpy(t) ==
    LET o == op[t]
        invalid == o.fault = Validation
    IN  /\ Starts(t, "hipMemcpy")
        /\ \/ /\ o.kind = "HostToDevice"
              /\ IF Throws(t, {o.dst}) THEN Thrown(t)
                 ELSE /\ mem' = IF invalid THEN mem
                                ELSE [mem EXCEPT ![o.dst] = o.val]
                      /\ Ran(t, o, invalid, "settled")
                      /\ UNCHANGED launchVars
           \/ /\ o.kind = "DeviceToHost"
              /\ IF Throws(t, {o.src}) THEN Thrown(t)
                 ELSE /\ Ran(t, [o EXCEPT !.data = IF invalid THEN Zero
                                                  ELSE mem[o.src]],
                             invalid, "copy")
                      /\ UNCHANGED <<mem, launchVars>>
           \/ /\ o.kind = "DeviceToDevice"
              /\ IF Throws(t, {o.src, o.dst}) THEN Thrown(t)
                 ELSE LET bad == invalid \/ o.src = o.dst
                      IN  /\ mem' = IF bad THEN mem
                                    ELSE Copied(o.dst, o.src)
                          /\ Ran(t, o, bad, "settled")
                          /\ UNCHANGED launchVars
           \/ /\ o.kind = "Default"
              /\ Ran(t, [o EXCEPT !.code = "hipErrorInvalidValue"], FALSE,
                     "settled")
              /\ UNCHANGED <<mem, launchVars>>
        /\ UNCHANGED <<hostVars, popped, mgr, nextHandle>>

\* Mutation: the host does not wait for the staging buffer.
CopyNotAwaited(t) ==
    /\ ~exited /\ pc[t] = "copy"
    /\ pc' = [pc EXCEPT ![t] = "settled"]
    /\ UNCHANGED <<op, hostVars, wQueue, scopes, popped, memVars, launchVars>>

\* Mutation: the rejection is swallowed.
RejectedSilently(t) ==
    /\ op' = op
    /\ pc' = [pc EXCEPT ![t] = "settled"]

\* An await of the call is rejected.
Rejected(t) ==
    /\ op' = [op EXCEPT ![t].failed = TRUE]
    /\ pc' = [pc EXCEPT ![t] = "settled"]

\* The staging buffer of a device-to-host copy cannot be mapped: the device has
\* refused it, or its size is no multiple of four.  The host's memory is left alone.
CopyRejected(t) ==
    /\ ~exited /\ pc[t] = "copy" /\ op[t].own
    /\ Rejected(t)
    /\ UNCHANGED <<hostVars, wQueue, scopes, popped, memVars, launchVars>>

\* The staging buffer is mapped; after a refused copy it holds zeros.
CopyMapped(t) ==
    /\ ~exited /\ pc[t] = "copy"
    /\ hostMem' = [hostMem EXCEPT ![t] = op[t].data]
    /\ pc' = [pc EXCEPT ![t] = "settled"]
    /\ UNCHANGED <<op, calls, lastError, ret, output, exited, wQueue, scopes,
                   popped, memVars, launchVars>>

\* Mutations: the pop's verdict is not chained; a rejection skips the pop; a
\* rejection skips the rest of the call.
PopScopeBlind(t) ==
    /\ ~exited /\ pc[t] = "settled"
    /\ popped' = [popped EXCEPT ![t] = FALSE]
    /\ scopes' = PopLeaves(scopes)
    /\ pc' = [pc EXCEPT ![t] = "popped"]
    /\ UNCHANGED <<op, hostVars, wQueue, memVars, launchVars>>
PopScopeThen(t) ==
    /\ ~exited /\ pc[t] = "settled"
    /\ IF op[t].failed THEN UNCHANGED <<popped, scopes>> ELSE Pops(t, scopes)
    /\ pc' = [pc EXCEPT ![t] = "popped"]
    /\ UNCHANGED <<op, hostVars, wQueue, memVars, launchVars>>
PopScopeOnSuccess(t) ==
    /\ ~exited /\ pc[t] = "settled" /\ ~op[t].failed
    /\ Pops(t, scopes)
    /\ pc' = [pc EXCEPT ![t] = "popped"]
    /\ UNCHANGED <<op, hostVars, wQueue, memVars, launchVars>>

\* The .finally of asyncify.
PopScope(t) ==
    /\ ~exited /\ pc[t] = "settled"
    /\ Pops(t, scopes)
    /\ pc' = [pc EXCEPT ![t] = "popped"]
    /\ UNCHANGED <<op, hostVars, wQueue, memVars, launchVars>>

\* Mutation: the last row is marked, whoever failed.
ReportedLast(row, failed) ==
    IF failed /\ row > 0
    THEN [kernelsRan EXCEPT ![Len(kernelsRan)].status = "error"]
    ELSE kernelsRan

\* reportErr marks the row of the launch, once there is one.
Reported(row, failed) ==
    IF failed /\ row > 0 THEN [kernelsRan EXCEPT ![row].status = "error"]
    ELSE kernelsRan

\* The device has answered the last pop: the call's result is set and the
\* host thread is released.
Finish(t) ==
    LET o == op[t]
        failed == o.failed \/ popped[t]
    IN  /\ ~exited /\ pc[t] = "popped"
        /\ op' = [op EXCEPT ![t].failed = failed]
        /\ IF o.fn = "hipMalloc" THEN Drop(t, failed) ELSE mgr' = mgr
        /\ kernelsRan' = Reported(o.row, failed)
        /\ pc' = [pc EXCEPT ![t] = "finished"]
        /\ UNCHANGED <<hostVars, wQueue, scopes, popped, mem, nextHandle,
                       stageVars, hostPrintf, timestamps>>

\* Mutation: a rejection does not set the result.
ResultUnset(o) ==
    IF ~o.failed THEN o.code
    ELSE IF o.fn = "hipMalloc" THEN "hipErrorOutOfMemory" ELSE "hipErrorUnknown"

\* What the call returns.
Result(o) ==
    IF ~o.failed THEN o.code
    ELSE IF o.fn = "hipMalloc" THEN "hipErrorOutOfMemory" ELSE "hipErrorInvalidValue"

\* The host thread goes on.  After a launch it prints whatever printfData.buffer
\* holds, and a failed device assertion ends the program.
Return(t) ==
    LET launch == op[t].fn = "hipLaunchKernel"
    IN  /\ ~exited /\ pc[t] = "finished"
        /\ output' = IF launch THEN output \o hostPrintf ELSE output
        /\ exited' = (launch /\ Result(op[t]) = "hipErrorAssert")
        /\ Returns(t, Result(op[t]))
        /\ pc' = [pc EXCEPT ![t] = "idle"]
        /\ UNCHANGED <<op, calls, hostMem, wQueue, scopes, popped, memVars,
                       launchVars>>

--------------------------------------------------------------------------------
(* wasm_hipLaunchKernel.                                                    *)

Prints(k)  == k \in PrintfKernel
Asserts(k) == k \in AbortKernel

\* A command buffer that uses a staging buffer which is mapped, or being mapped,
\* or a destroyed variable, is refused as a whole.
Dropped(o) ==
    \/ o.fault = Validation
    \/ Prints(o.kernel) /\ printfMap # None
    \/ Asserts(o.kernel) /\ (abortMap # None \/ mgr[AbortVar] # "live")

\* Mutations: one of them is not cleared; the row is added first.
PrintfKept(k, records) == records
AbortKept(k, flag)     == flag
SlotLate               == Len(kernelsRan) + 1

\* What the copies of the submission leave in the device's printf buffer and
\* assertion flag: both are cleared once they are collected.
PrintfLeft(k, records) == IF Prints(k) THEN <<>> ELSE records
AbortLeft(k, flag)     == IF Asserts(k) THEN FALSE ELSE flag

\* The pair of timestamps a launch writes: the next row of the list.
Slot == Len(kernelsRan)

\* Submit the kernel with the copies that collect its printf records, its
\* assertion flag and its timestamps; then map the staging buffers.
Submit(t) ==
    LET o == op[t]
        k == o.kernel
        dropped == Dropped(o)
        records == IF Prints(k) THEN Append(printfBuf, Me(t)) ELSE printfBuf
        flag == abortFlag \/ o.asserts
        unmappable == \/ Prints(k) /\ printfMap # None
                      \/ Asserts(k) /\ abortMap # None
    IN  /\ mem' = IF dropped THEN mem ELSE [mem EXCEPT ![o.dst] = o.val]
        /\ timestamps' = IF dropped \/ Slot >= Slots THEN timestamps
                         ELSE [timestamps EXCEPT ![Slot] = Me(t)]
        /\ kernelsRan' = Append(kernelsRan, [launch |-> Me(t), status |-> "none"])
        /\ IF dropped THEN UNCHANGED <<printfBuf, printfStage, abortFlag,
                                       abortStage>>
           ELSE /\ printfStage' = IF Prints(k) THEN records ELSE printfStage
                /\ printfBuf' = PrintfLeft(k, records)
                /\ abortStage' = IF Asserts(k) THEN flag ELSE abortStage
                /\ abortFlag' = AbortLeft(k, flag)
        /\ printfMap' = IF Prints(k) /\ printfMap = None THEN Me(t)
                      ELSE printfMap
        /\ abortMap' = IF Asserts(k) /\ abortMap = None THEN Me(t)
                     ELSE abortMap
        /\ hostPrintf' = IF Prints(k) THEN hostPrintf ELSE <<>>
        /\ Ran(t, [o EXCEPT !.row = Len(kernelsRan) + 1, !.dropped = dropped],
               dropped \/ unmappable,
               IF Prints(k) THEN "printf"
               ELSE IF Asserts(k) THEN "abort" ELSE "settled")

StartLaunch(t) ==
    LET o == op[t]
    IN  /\ Starts(t, "hipLaunchKernel")
        /\ IF o.kernel \notin KernelMap
           THEN /\ Ran(t, [o EXCEPT !.code = "hipErrorInvalidDeviceFunction"],
                       FALSE, "settled")
                /\ UNCHANGED <<mem, launchVars>>
           ELSE IF Throws(t, {o.dst}) THEN Thrown(t) ELSE Submit(t)
        /\ UNCHANGED <<hostVars, popped, mgr, nextHandle>>

\* Mutation: the staging buffer is not unmapped after it has been read.
PrintfStaysMapped(t) ==
    /\ ~exited /\ pc[t] = "printf" /\ printfMap = Me(t)
    /\ hostPrintf' = printfStage
    /\ pc' = [pc EXCEPT ![t] = IF Asserts(op[t].kernel) THEN "abort"
                               ELSE "settled"]
    /\ UNCHANGED <<op, hostVars, wQueue, scopes, popped, memVars, stageVars,
                   kernelsRan, timestamps>>

\* The printf staging buffer is mapped: its records go to the host's buffer.
\* mapAsync has rejected if another launch held the buffer at the submission.
PrintfMapped(t) ==
    /\ ~exited /\ pc[t] = "printf"
    /\ IF printfMap = Me(t)
       THEN /\ hostPrintf' = printfStage
            /\ printfMap' = None
            /\ pc' = [pc EXCEPT ![t] = IF Asserts(op[t].kernel) THEN "abort"
                                       ELSE "settled"]
            /\ op' = op
       ELSE Rejected(t) /\ UNCHANGED <<hostPrintf, printfMap>>
    /\ UNCHANGED <<hostVars, wQueue, scopes, popped, memVars, printfBuf,
                   printfStage, abortFlag, abortStage, abortMap, kernelsRan,
                   timestamps>>

AbortMapped(t) ==
    /\ ~exited /\ pc[t] = "abort"
    /\ IF abortMap = Me(t)
       THEN /\ abortMap' = None
            /\ IF abortStage
               THEN /\ op' = [op EXCEPT ![t].code = "hipErrorAssert"]
                    /\ kernelsRan' =
                         [kernelsRan EXCEPT ![op[t].row].status = "aborted"]
               ELSE UNCHANGED <<op, kernelsRan>>
            /\ pc' = [pc EXCEPT ![t] = "settled"]
       ELSE Rejected(t) /\ UNCHANGED <<abortMap, kernelsRan>>
    /\ UNCHANGED <<hostVars, wQueue, scopes, popped, memVars, printfBuf,
                   printfStage, printfMap, abortFlag, abortStage, hostPrintf,
                   timestamps>>

--------------------------------------------------------------------------------
HostStep(t) == \/ HipMalloc(t) \/ HipFree(t) \/ HipMemcpy(t)
               \/ HipMemcpyToSymbol(t) \/ HipLaunchKernel(t)
               \/ HipGetLastError(t)

BridgeStep(t) == \/ StartMalloc(t) \/ MallocPopped(t) \/ StartFree(t)
                 \/ StartMemcpy(t) \/ CopyMapped(t) \/ CopyRejected(t)
                 \/ StartLaunch(t) \/ PrintfMapped(t) \/ AbortMapped(t) \/ PopScope(t)
                 \/ Finish(t) \/ Return(t)

Next == \E t \in Thread : HostStep(t) \/ BridgeStep(t)

\* The browser runs queued tasks and settles the device's promises; what the
\* program calls, and when, is its own business.
Spec == Init /\ [][Next]_vars /\ \A t \in Thread : WF_vars(BridgeStep(t))

--------------------------------------------------------------------------------
(* Properties.                                                              *)

PcType == {"idle", "queued", "malloc", "copy", "printf", "abort", "settled",
           "popped", "finished", "hung"}
OpType == [fn : ApiNames \cup {"none", "unknown symbol"},
           kind : CopyKinds \cup {"none"},
           dst : Nat, src : Nat, val : Val,
           kernel : Kernel \cup {"none"}, fault : FaultKinds,
           asserts : BOOLEAN, failed : BOOLEAN, code : Code, data : Val,
           own : BOOLEAN, dropped : BOOLEAN, row : Nat]

\* Every variable holds a value of its kind.
TypeOK ==
    /\ pc \in [Thread -> PcType]
    /\ op \in [Thread -> OpType]
    /\ calls \in [Thread -> 0 .. MaxCalls]
    /\ lastError \in [Thread -> Code] /\ ret \in [Thread -> Code]
    /\ hostMem \in [Thread -> Val]
    /\ wQueue \in Seq(Thread)
    /\ scopes \in Seq(ScopeType)
    /\ popped \in [Thread -> BOOLEAN]
    /\ mgr \in [Handle -> {"unused", "live", "gone"}]
    /\ nextHandle \in Nat
    /\ mem \in [Handle -> Val]
    /\ printfBuf \in Seq(Launch) /\ printfStage \in Seq(Launch)
    /\ printfMap \in Launch \cup {None}
    /\ abortFlag \in BOOLEAN /\ abortStage \in BOOLEAN
    /\ abortMap \in Launch \cup {None}
    /\ hostPrintf \in Seq(Launch) /\ output \in Seq(Launch)
    /\ kernelsRan \in Seq([launch : Launch,
                           status : {"none", "error", "aborted"}])
    /\ timestamps \in [0 .. (Slots - 1) -> Launch \cup {None}]
    /\ exited \in BOOLEAN

\* Calls that still owe the device a pop of the scope stack.
Owing == {t \in Thread :
            pc[t] \in {"malloc", "copy", "printf", "abort", "settled", "hung"}}

\* However the asynchronous parts of the calls interleave, the device has one
\* open error scope for each call that will still pop one, and no others: no
\* call ever pops an empty stack, and none leaks into the next call.
ScopesBalanced == Len(scopes) = Cardinality(Owing)

\* A call reports an error exactly when its own operation on the device failed
\* (asyncify and hipMalloc attribute errors by the order of pops alone).
ErrorsAreOwn ==
    \A t \in Thread : pc[t] = "finished" => op[t].failed = op[t].own

Launched(t) == pc[t] = "finished" /\ op[t].fn = "hipLaunchKernel"

\* A launch that does not fail leaves in printfData.buffer the records of its
\* own kernel and nothing else, so each is printed once, by that launch.
SuccessPrintsOwn ==
    \A t \in Thread :
        Launched(t) /\ ~op[t].failed /\ op[t].kernel \in KernelMap =>
            hostPrintf = IF Prints(op[t].kernel) THEN <<Me(t)>> ELSE <<>>

\* A launch ends the program with hipErrorAssert exactly when an assertion
\* failed in its own kernel.
AssertionIsOwn ==
    \A t \in Thread :
        Launched(t) /\ ~op[t].failed =>
            (op[t].code = "hipErrorAssert") = op[t].asserts

\* The launch l has failed, and the program has been told or will be.
FailedLaunch(l) ==
    \/ \E t \in Thread : l = Me(t) /\ pc[t] \in {"settled", "popped"} /\ op[t].failed
    \/ \E i \in DOMAIN kernelsRan : kernelsRan[i] = [launch |-> l, status |-> "error"]

\* However launches overlap, and although mapAsync is rejected for those that find
\* a staging buffer taken, the printf buffer is mapped only while a launch waits for
\* it, and only a launch that failed leaves the other one mapped behind it
\* (webgpu.js:192-214: its await of the printf buffer was rejected when the mapping
\* of the assertion buffer had been requested).
StagingReleased ==
    /\ printfMap # None => \E t \in Thread : printfMap = Me(t) /\ pc[t] = "printf"
    /\ abortMap # None =>
           \/ \E t \in Thread : abortMap = Me(t) /\ pc[t] \in {"printf", "abort"}
           \/ FailedLaunch(abortMap)

\* A kernel that the device refused to run is never reported as a success.
DroppedIsReported ==
    \A t \in Thread : Launched(t) /\ op[t].dropped => op[t].failed

\* The list of kernels marks a launch exactly when the program was told that
\* the launch failed or its assertion did.
StatusIsResult ==
    \A t \in Thread : Launched(t) /\ op[t].row > 0 =>
        (kernelsRan[op[t].row].status = "none") =
            (Result(op[t]) = "hipSuccess")

\* The i-th pair of timestamps belongs to the i-th kernel of the list, and
\* every kernel that ran among the first Slots has its pair.
TimestampsMatch ==
    \A i \in 0 .. (Slots - 1) :
        /\ timestamps[i] # None =>
              i < Len(kernelsRan) /\ kernelsRan[i + 1].launch = timestamps[i]
        /\ i < Len(kernelsRan) /\ kernelsRan[i + 1].status # "error"
              /\ kernelsRan[i + 1].launch \notin
                    {Me(t) : t \in {u \in Busy : op[u].dropped}}
              => timestamps[i] = kernelsRan[i + 1].launch

\* Every runtime call returns to the host thread, unless the program exits.
CallsReturn ==
    \A t \in Thread : pc[t] = "queued" ~> (pc[t] = "idle" \/ exited)
=============================================================================
