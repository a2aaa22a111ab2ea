---------------------------- MODULE HipBridge_proofs ----------------------------
(***************************************************************************)
(* Theorems about HipBridge, for any finite set of host threads, any       *)
(* kernels and any faults of the device; the last part is its refinement   *)
(* of HipDevice.                                                           *)
(***************************************************************************)
EXTENDS HipBridgeRefinement, SequenceTheorems, FiniteSetTheorems, TLAPS

--------------------------------------------------------------------------------
(* The stack of error scopes.                                               *)

\* Pushing keeps the stack a stack and makes it one longer.
LEMMA PushFacts ==
    ASSUME NEW stack \in Seq(ScopeType), NEW f \in Filters
    PROVE  /\ PushScope(stack, f) \in Seq(ScopeType)
           /\ Len(PushScope(stack, f)) = Len(stack) + 1
  BY DEF PushScope, Scope, ScopeType

\* Raising an error changes no filter and no length.
LEMMA RaiseFacts ==
    ASSUME NEW stack \in Seq(ScopeType), NEW f
    PROVE  /\ Raise(stack, f) \in Seq(ScopeType)
           /\ Len(Raise(stack, f)) = Len(stack)
<1>1. DOMAIN stack = 1 .. Len(stack) /\ Len(stack) \in Nat
  OBVIOUS
<1>2. ASSUME NEW i \in DOMAIN stack
      PROVE  [stack[i] EXCEPT !.err = @ \/ Captures(stack, f, i)] \in ScopeType
  <2>1. stack[i] \in ScopeType
    BY <1>1, <1>2
  <2>2. (stack[i].err \/ Captures(stack, f, i)) \in BOOLEAN
    OBVIOUS
  <2> QED BY <2>1, <2>2 DEF ScopeType
<1> DEFINE r(i) == [stack[i] EXCEPT !.err = @ \/ Captures(stack, f, i)]
<1>3. [i \in 1 .. Len(stack) |-> r(i)] \in Seq(ScopeType)
  <2> HIDE DEF r
  <2>1. \A i \in 1 .. Len(stack) : r(i) \in ScopeType
    BY <1>1, <1>2 DEF r
  <2> QED BY <1>1, <2>1
<1>4. Raise(stack, f) = [i \in 1 .. Len(stack) |-> r(i)]
  BY <1>1 DEF Raise
<1> QED BY <1>1, <1>3, <1>4

\* Popping a stack that is not empty makes it one shorter.
LEMMA PopFacts ==
    ASSUME NEW stack \in Seq(ScopeType)
    PROVE  /\ PopReports(stack) \in BOOLEAN
           /\ PopLeaves(stack) \in Seq(ScopeType)
           /\ stack # <<>> => Len(PopLeaves(stack)) = Len(stack) - 1
<1>1. CASE stack = <<>>
  BY <1>1 DEF PopReports, PopLeaves
<1>2. CASE stack # <<>>
  <2>1. Len(stack) \in Nat \ {0}
    BY <1>2
  <2>2. stack[Len(stack)] \in ScopeType
    BY <2>1
  <2>3. PopReports(stack) \in BOOLEAN
    BY <1>2, <2>2 DEF PopReports, ScopeType
  <2>4. /\ SubSeq(stack, 1, Len(stack) - 1) \in Seq(ScopeType)
        /\ Len(SubSeq(stack, 1, Len(stack) - 1)) = Len(stack) - 1
    <3> DEFINE n == Len(stack)
    <3> DEFINE sub == SubSeq(stack, 1, n - 1)
    <3>1. \A i \in 1 .. n - 1 : stack[i] \in ScopeType
      BY <2>1
    <3>2. 1 \in Int /\ n - 1 \in Int
      BY <2>1
    <3>3. /\ sub \in Seq(ScopeType)
          /\ Len(sub) = IF 1 <= n - 1 THEN (n - 1) - 1 + 1 ELSE 0
      BY <3>1, <3>2, SubSeqProperties
    <3>4. n \in Nat \ {0}
      BY <2>1
    <3> HIDE DEF n, sub
    <3>5. Len(sub) = n - 1
      BY <3>3, <3>4
    <3> QED BY <3>3, <3>5 DEF n, sub
  <2> QED BY <1>2, <2>3, <2>4 DEF PopLeaves
<1> QED BY <1>1, <1>2

--------------------------------------------------------------------------------
(* Type correctness, in the parts that different actions touch.             *)

CallOK ==
    /\ pc \in [Thread -> PcType]
    /\ op \in [Thread -> OpType]
    /\ wQueue \in Seq(Thread)
    /\ scopes \in Seq(ScopeType)
    /\ popped \in [Thread -> BOOLEAN]

HostOK ==
    /\ calls \in [Thread -> 0 .. MaxCalls]
    /\ lastError \in [Thread -> Code] /\ ret \in [Thread -> Code]
    /\ hostMem \in [Thread -> Val]
    /\ output \in Seq(Launch)
    /\ exited \in BOOLEAN

MemOK ==
    /\ mgr \in [Handle -> {"unused", "live", "gone"}]
    /\ nextHandle \in Nat
    /\ mem \in [Handle -> Val]

LaunchOK ==
    /\ printfBuf \in Seq(Launch) /\ printfStage \in Seq(Launch)
    /\ printfMap \in Launch \cup {None}
    /\ abortFlag \in BOOLEAN /\ abortStage \in BOOLEAN
    /\ abortMap \in Launch \cup {None}
    /\ hostPrintf \in Seq(Launch)
    /\ kernelsRan \in Seq([launch : Launch,
                           status : {"none", "error", "aborted"}])
    /\ timestamps \in [0 .. (Slots - 1) -> Launch \cup {None}]

\* A thread is in a call only after it has made one.
Started == \A t \in Thread : pc[t] # "idle" => calls[t] >= 1

TypeInv == CallOK /\ HostOK /\ MemOK /\ LaunchOK /\ Started

LEMMA TypeParts == TypeInv => TypeOK
  BY DEF TypeInv, TypeOK, CallOK, HostOK, MemOK, LaunchOK

\* A step leaves the parts alone whose variables it leaves alone.
LEMMA Frames ==
    /\ HostOK /\ UNCHANGED hostVars => HostOK'
    /\ MemOK /\ UNCHANGED memVars => MemOK'
    /\ LaunchOK /\ UNCHANGED launchVars => LaunchOK'
  BY DEF HostOK, hostVars, MemOK, memVars, LaunchOK, launchVars, stageVars

LEMMA NoOpType == NoOp \in OpType
  BY BridgeAssumption DEF NoOp, OpType, ApiNames, CopyKinds, FaultKinds, Code

LEMMA MeType ==
    ASSUME TypeInv, NEW t \in Thread, pc[t] # "idle"
    PROVE  Me(t) \in Launch
  BY DEF TypeInv, HostOK, Started, Me, Launch

\* Threads that are in a call stay in calls they have made.
LEMMA StartedKept ==
    ASSUME TypeInv, NEW t \in Thread, NEW place, pc[t] # "idle",
           pc' = [pc EXCEPT ![t] = place], calls' = calls
    PROVE  Started'
  BY DEF TypeInv, CallOK, HostOK, Started

--------------------------------------------------------------------------------
(* The host's steps.                                                        *)

LEMMA ReturnsType ==
    ASSUME TypeInv, NEW t \in Thread, NEW code \in Code, Returns(t, code)
    PROVE  lastError' \in [Thread -> Code] /\ ret' \in [Thread -> Code]
  BY DEF TypeInv, HostOK, Returns

LEMMA OneCallMore ==
    ASSUME TypeInv, NEW t \in Thread, calls[t] < MaxCalls,
           calls' = [calls EXCEPT ![t] = @ + 1]
    PROVE  calls' \in [Thread -> 0 .. MaxCalls]
  BY BridgeAssumption DEF TypeInv, HostOK

LEMMA ReturnAtOnceType ==
    ASSUME TypeInv, NEW t \in Thread, NEW code \in Code,
           pc[t] = "idle", calls[t] < MaxCalls, ReturnAtOnce(t, code)
    PROVE  TypeInv'
<1>1. CallOK'
  BY NoOpType DEF TypeInv, ReturnAtOnce, CallOK
<1>2. HostOK'
  <2>1. calls' \in [Thread -> 0 .. MaxCalls]
    BY OneCallMore DEF ReturnAtOnce
  <2>2. lastError' \in [Thread -> Code] /\ ret' \in [Thread -> Code]
    BY ReturnsType DEF ReturnAtOnce
  <2> QED BY <2>1, <2>2 DEF TypeInv, HostOK, ReturnAtOnce
<1>3. MemOK' /\ LaunchOK'
  BY Frames DEF TypeInv, ReturnAtOnce
<1>4. Started'
  BY DEF TypeInv, CallOK, HostOK, ReturnAtOnce, Started
<1> QED BY <1>1, <1>2, <1>3, <1>4 DEF TypeInv

LEMMA ProxyType ==
    ASSUME TypeInv, NEW t \in Thread, NEW o \in OpType,
           calls[t] < MaxCalls, Proxy(t, o)
    PROVE  TypeInv'
<1>1. CallOK'
  BY DEF TypeInv, Proxy, CallOK, PcType
<1>2. HostOK'
  BY OneCallMore DEF TypeInv, HostOK, Proxy
<1>3. MemOK' /\ LaunchOK'
  BY Frames DEF TypeInv, Proxy
<1>4. Started'
  BY DEF TypeInv, CallOK, HostOK, Proxy, Started
<1> QED BY <1>1, <1>2, <1>3, <1>4 DEF TypeInv

LEMMA PointerType ==
    ASSUME NEW fn, NEW p \in Pointer(fn)
    PROVE  p \in Handle /\ p \in Nat
<1>1. p \in Handle
  BY DEF Pointer
<1>2. Handle \subseteq Nat
  BY DEF Handle
<1> QED BY <1>1, <1>2

LEMMA CopyOpType ==
    ASSUME NEW kind \in CopyKinds, NEW d \in Nat, NEW s \in Nat, NEW v \in Val,
           NEW f \in Fault
    PROVE  CopyOp(kind, d, s, v, f) \in OpType
  BY NoOpType, BridgeAssumption DEF CopyOp, OpType, ApiNames

LEMMA HipMallocType ==
    ASSUME TypeInv, NEW t \in Thread, HipMalloc(t)
    PROVE  TypeInv'
<1> USE DEF HipMalloc, MayCall
<1>1. CASE ReturnAtOnce(t, "hipErrorInvalidValue")
  BY <1>1, ReturnAtOnceType DEF Code
<1>2. CASE ReturnAtOnce(t, "hipSuccess")
  BY <1>2, ReturnAtOnceType DEF Code
<1>3. ASSUME NEW f \in Fault \ {"throw"},
             Proxy(t, [NoOp EXCEPT !.fn = "hipMalloc", !.fault = f])
      PROVE  TypeInv'
  <2>1. [NoOp EXCEPT !.fn = "hipMalloc", !.fault = f] \in OpType
    BY NoOpType, BridgeAssumption DEF OpType, ApiNames
  <2> QED BY <2>1, <1>3, ProxyType
<1> QED BY <1>1, <1>2, <1>3

LEMMA HipFreeType ==
    ASSUME TypeInv, NEW t \in Thread, HipFree(t)
    PROVE  TypeInv'
<1> USE DEF MayCall
<1>1. CASE ReturnAtOnce(t, "hipSuccess")
  BY <1>1, ReturnAtOnceType DEF Code, HipFree
<1>2. ASSUME NEW h \in Pointer("hipFree"),
             IF 8 * h < UserBufferStart
             THEN ReturnAtOnce(t, "hipErrorInvalidValue")
             ELSE Proxy(t, [NoOp EXCEPT !.fn = "hipFree", !.dst = h])
      PROVE  TypeInv'
  <2>1. [NoOp EXCEPT !.fn = "hipFree", !.dst = h] \in OpType
    BY NoOpType, PointerType DEF OpType, ApiNames
  <2> QED BY <2>1, <1>2, ProxyType, ReturnAtOnceType DEF Code, HipFree
<1> QED BY <1>1, <1>2 DEF HipFree

LEMMA HipMemcpyType ==
    ASSUME TypeInv, NEW t \in Thread, HipMemcpy(t)
    PROVE  TypeInv'
<1> USE DEF MayCall
<1>1. CASE ReturnAtOnce(t, "hipSuccess")
  BY <1>1, ReturnAtOnceType DEF Code, HipMemcpy
<1>2. CASE ReturnAtOnce(t, "hipErrorInvalidValue")
  BY <1>2, ReturnAtOnceType DEF Code, HipMemcpy
<1>3. CASE Proxy(t, CopyOp("Default", 0, 0, Zero, "none"))
  <2>1. CopyOp("Default", 0, 0, Zero, "none") \in OpType
    BY NoOpType, BridgeAssumption DEF CopyOp, OpType, ApiNames, CopyKinds,
       FaultKinds
  <2> QED BY <2>1, <1>3, ProxyType DEF HipMemcpy
<1>4. ASSUME NEW f \in Fault \ {OutOfMemory}, NEW p \in Pointer("hipMemcpy"),
             \/ \E v \in Val : Proxy(t, CopyOp("HostToDevice", p, 0, v, f))
             \/ Proxy(t, CopyOp("DeviceToHost", 0, p, Zero, f))
             \/ \E q \in Pointer("hipMemcpy") :
                  Proxy(t, CopyOp("DeviceToDevice", p, q, Zero, f))
      PROVE  TypeInv'
  <2>1. PICK kind \in CopyKinds, d \in Nat, s \in Nat, v \in Val :
           Proxy(t, CopyOp(kind, d, s, v, f))
    BY <1>4, PointerType, BridgeAssumption DEF CopyKinds
  <2>2. CopyOp(kind, d, s, v, f) \in OpType
    BY CopyOpType
  <2> QED BY <2>1, <2>2, ProxyType DEF HipMemcpy
<1> QED BY <1>1, <1>2, <1>3, <1>4 DEF HipMemcpy

LEMMA HipMemcpyToSymbolType ==
    ASSUME TypeInv, NEW t \in Thread, HipMemcpyToSymbol(t)
    PROVE  TypeInv'
<1> USE DEF MayCall
<1>1. ASSUME NEW h \in 1 .. NVars, NEW v \in Val,
             NEW f \in Fault \ {OutOfMemory},
             Proxy(t, CopyOp("HostToDevice", h, 0, v, f))
      PROVE  TypeInv'
  <2>1. CopyOp("HostToDevice", h, 0, v, f) \in OpType
    BY CopyOpType, BridgeAssumption DEF CopyKinds
  <2> QED BY <2>1, <1>1, ProxyType DEF HipMemcpyToSymbol
<1>2. ASSUME NEW code \in Code,
             calls' = [calls EXCEPT ![t] = @ + 1],
             op' = [op EXCEPT ![t] = [NoOp EXCEPT !.fn = "unknown symbol"]],
             lastError' = [lastError EXCEPT ![t] =
                             IF code = "hipSuccess"
                             THEN "hipErrorInvalidSymbol" ELSE code],
             ret' = [ret EXCEPT ![t] = code],
             UNCHANGED <<pc, hostMem, output, exited, wQueue, scopes,
                         popped, memVars, launchVars>>
      PROVE  TypeInv'
  <2>1. CallOK'
    <3>1. [NoOp EXCEPT !.fn = "unknown symbol"] \in OpType
      BY NoOpType DEF OpType
    <3> QED BY <3>1, <1>2 DEF TypeInv, CallOK
  <2>2. HostOK'
    <3>1. calls[t] < MaxCalls
      BY DEF HipMemcpyToSymbol
    <3>2. calls' \in [Thread -> 0 .. MaxCalls]
      BY <3>1, <1>2, OneCallMore
    <3> QED BY <3>2, <1>2 DEF TypeInv, HostOK, Code
  <2>3. MemOK' /\ LaunchOK'
    BY <1>2, Frames DEF TypeInv
  <2>4. Started'
    <3>1. pc' = pc /\ pc[t] = "idle"
      BY <1>2 DEF HipMemcpyToSymbol
    <3>2. \A u \in Thread : u # t => calls'[u] = calls[u]
      BY <1>2 DEF TypeInv, HostOK
    <3> QED BY <3>1, <3>2 DEF TypeInv, Started
  <2> QED BY <2>1, <2>2, <2>3, <2>4 DEF TypeInv
<1>3. CASE ReturnAtOnce(t, "hipSuccess") \/ ReturnAtOnce(t, "hipErrorInvalidValue")
  BY <1>3, ReturnAtOnceType DEF Code, HipMemcpyToSymbol
<1>4. CASE Proxy(t, CopyOp("Default", 0, 0, Zero, "none"))
  <2>1. CopyOp("Default", 0, 0, Zero, "none") \in OpType
    BY NoOpType, BridgeAssumption DEF CopyOp, OpType, ApiNames, CopyKinds,
       FaultKinds
  <2> QED BY <2>1, <1>4, ProxyType DEF HipMemcpyToSymbol
<1> QED BY <1>1, <1>2, <1>3, <1>4 DEF HipMemcpyToSymbol

LEMMA HipLaunchKernelType ==
    ASSUME TypeInv, NEW t \in Thread, HipLaunchKernel(t)
    PROVE  TypeInv'
<1>1. PICK k \in Kernel, p \in Pointer("hipLaunchKernel"), v \in Val,
           f \in Fault \ {OutOfMemory}, a \in BOOLEAN :
         Proxy(t, [NoOp EXCEPT !.fn = "hipLaunchKernel", !.kernel = k,
                               !.dst = p, !.val = v, !.fault = f,
                               !.asserts = a])
  BY DEF HipLaunchKernel
<1>2. [NoOp EXCEPT !.fn = "hipLaunchKernel", !.kernel = k, !.dst = p, !.val = v,
                   !.fault = f, !.asserts = a] \in OpType
  BY NoOpType, PointerType, BridgeAssumption DEF OpType, ApiNames
<1> QED BY <1>1, <1>2, ProxyType DEF HipLaunchKernel, MayCall

LEMMA HipGetLastErrorType ==
    ASSUME TypeInv, NEW t \in Thread, HipGetLastError(t)
    PROVE  TypeInv'
<1> USE DEF HipGetLastError
<1>1. CallOK'
  BY NoOpType DEF TypeInv, CallOK
<1>2. HostOK'
  BY DEF TypeInv, HostOK, Code
<1>3. MemOK' /\ LaunchOK'
  BY Frames DEF TypeInv
<1>4. Started'
  BY DEF TypeInv, Started
<1> QED BY <1>1, <1>2, <1>3, <1>4 DEF TypeInv

--------------------------------------------------------------------------------
(* The main thread's steps.                                                 *)

LEMMA StartsType ==
    ASSUME TypeInv, NEW t \in Thread, NEW fn, Starts(t, fn)
    PROVE  wQueue' \in Seq(Thread) /\ pc[t] # "idle"
  BY DEF TypeInv, CallOK, Starts

LEMMA PopsType ==
    ASSUME TypeInv, NEW t \in Thread, NEW stack \in Seq(ScopeType),
           Pops(t, stack)
    PROVE  popped' \in [Thread -> BOOLEAN] /\ scopes' \in Seq(ScopeType)
  BY PopFacts DEF TypeInv, CallOK, Pops

LEMMA PushType ==
    ASSUME NEW stack \in Seq(ScopeType)
    PROVE  /\ PushScope(stack, Validation) \in Seq(ScopeType)
           /\ PushScope(stack, OutOfMemory) \in Seq(ScopeType)
           /\ Len(PushScope(stack, Validation)) = Len(stack) + 1
           /\ Len(PushScope(stack, OutOfMemory)) = Len(stack) + 1
  BY PushFacts DEF Filters

LEMMA RanType ==
    ASSUME TypeInv, NEW t \in Thread, NEW o \in OpType,
           NEW invalid \in BOOLEAN, NEW next \in PcType,
           Ran(t, o, invalid, next)
    PROVE  /\ pc' \in [Thread -> PcType]
           /\ op' \in [Thread -> OpType]
           /\ scopes' \in Seq(ScopeType)
<1>1. scopes' \in Seq(ScopeType)
  BY PushType, RaiseFacts DEF TypeInv, CallOK, Ran
<1>2. [o EXCEPT !.own = invalid] \in OpType
  BY DEF OpType
<1> QED BY <1>1, <1>2 DEF TypeInv, CallOK, Ran

LEMMA FailedType ==
    ASSUME NEW o \in OpType, NEW b \in BOOLEAN, NEW c \in BOOLEAN
    PROVE  /\ [o EXCEPT !.failed = b] \in OpType
           /\ [o EXCEPT !.failed = b, !.own = c] \in OpType
  BY DEF OpType

LEMMA ThrownType ==
    ASSUME TypeInv, NEW t \in Thread, Thrown(t)
    PROVE  /\ pc' \in [Thread -> PcType]
           /\ op' \in [Thread -> OpType]
           /\ scopes' \in Seq(ScopeType)
<1>1. [op[t] EXCEPT !.failed = TRUE, !.own = TRUE] \in OpType
  BY FailedType DEF TypeInv, CallOK
<1> QED BY <1>1, PushType DEF TypeInv, CallOK, Thrown, PcType

LEMMA StartMallocType ==
    ASSUME TypeInv, NEW t \in Thread, StartMalloc(t)
    PROVE  TypeInv'
<1>1. wQueue' \in Seq(Thread) /\ pc[t] # "idle"
  BY StartsType DEF StartMalloc
<1>2. popped' \in [Thread -> BOOLEAN] /\ scopes' \in Seq(ScopeType)
  <2>1. scopes \in Seq(ScopeType)
    BY DEF TypeInv, CallOK
  <2>2. Raise(PushScope(PushScope(scopes, OutOfMemory), Validation),
              op[t].fault) \in Seq(ScopeType)
    BY <2>1, PushType, RaiseFacts
  <2> QED BY <2>2, PopsType DEF StartMalloc
<1>3. op' \in [Thread -> OpType]
  <2>1. op[t] \in OpType /\ nextHandle \in Nat
    BY DEF TypeInv, CallOK, MemOK
  <2>2. [op[t] EXCEPT !.dst = nextHandle, !.own = op[t].fault # "none"] \in OpType
    BY <2>1 DEF OpType
  <2>3. op' = [op EXCEPT ![t] = [op[t] EXCEPT !.dst = nextHandle,
                                              !.own = op[t].fault # "none"]]
    BY DEF StartMalloc, TypeInv, CallOK
  <2> QED BY <2>2, <2>3 DEF TypeInv, CallOK
<1>4. CallOK'
  BY <1>1, <1>2, <1>3 DEF TypeInv, CallOK, StartMalloc, PcType
<1>5. MemOK'
  <2>1. Zero \in Val
    BY BridgeAssumption
  <2>2. nextHandle' \in Nat
    BY DEF TypeInv, MemOK, StartMalloc
  <2>3. mgr' \in [Handle -> {"unused", "live", "gone"}]
    BY DEF TypeInv, MemOK, StartMalloc
  <2>4. mem' \in [Handle -> Val]
    BY <2>1 DEF TypeInv, MemOK, StartMalloc
  <2> QED BY <2>2, <2>3, <2>4 DEF MemOK
<1>6. HostOK' /\ LaunchOK'
  BY Frames DEF TypeInv, StartMalloc
<1>7. Started'
  BY <1>1, StartedKept DEF StartMalloc, hostVars
<1> QED BY <1>4, <1>5, <1>6, <1>7 DEF TypeInv

LEMMA DropType ==
    ASSUME TypeInv, NEW t \in Thread, NEW failed, Drop(t, failed)
    PROVE  mgr' \in [Handle -> {"unused", "live", "gone"}]
  BY DEF TypeInv, MemOK, Drop

LEMMA MallocPoppedType ==
    ASSUME TypeInv, NEW t \in Thread, MallocPopped(t)
    PROVE  TypeInv'
<1>1. CallOK'
  <2>1. popped' \in [Thread -> BOOLEAN] /\ scopes' \in Seq(ScopeType)
    BY PopsType DEF MallocPopped, TypeInv, CallOK
  <2>2. [op[t] EXCEPT !.failed = popped[t]] \in OpType
    BY FailedType DEF TypeInv, CallOK
  <2> QED BY <2>1, <2>2 DEF TypeInv, CallOK, MallocPopped, PcType
<1>2. MemOK'
  BY DropType DEF TypeInv, MemOK, MallocPopped
<1>3. HostOK' /\ LaunchOK'
  BY Frames DEF TypeInv, MallocPopped
<1>4. Started'
  BY StartedKept DEF MallocPopped, hostVars
<1> QED BY <1>1, <1>2, <1>3, <1>4 DEF TypeInv

LEMMA StartFreeType ==
    ASSUME TypeInv, NEW t \in Thread, StartFree(t)
    PROVE  TypeInv'
<1>1. wQueue' \in Seq(Thread) /\ pc[t] # "idle"
  BY StartsType DEF StartFree
<1>2. PushScope(scopes, Validation) \in Seq(ScopeType)
  BY PushType DEF TypeInv, CallOK
<1>3. HostOK' /\ LaunchOK'
  BY Frames DEF TypeInv, StartFree
<1>4. CASE Live(op[t].dst)
  <2>1. popped' \in [Thread -> BOOLEAN] /\ scopes' \in Seq(ScopeType)
    BY <1>2, <1>4, PopsType DEF StartFree
  <2>2. CallOK'
    BY <1>1, <1>4, <2>1 DEF TypeInv, CallOK, StartFree, PcType
  <2>3. MemOK'
    BY <1>4 DEF TypeInv, MemOK, StartFree
  <2>4. Started'
    BY <1>1, <1>4, StartedKept DEF StartFree, hostVars
  <2> QED BY <1>3, <2>2, <2>3, <2>4 DEF TypeInv
<1>5. CASE ~Live(op[t].dst)
  <2>1. CallOK'
    BY <1>1, <1>2, <1>5 DEF TypeInv, CallOK, StartFree, PcType
  <2>2. MemOK'
    BY <1>5 DEF TypeInv, MemOK, StartFree
  <2>3. Started'
    BY <1>1, <1>5, StartedKept DEF StartFree, hostVars
  <2> QED BY <1>3, <2>1, <2>2, <2>3 DEF TypeInv
<1> QED BY <1>4, <1>5

LEMMA LiveType ==
    ASSUME TypeInv, NEW t \in Thread, NEW h, NEW handles,
           ~Throws(t, handles), h \in handles
    PROVE  h \in Handle
  BY DEF Throws, Live

LEMMA StartMemcpyType ==
    ASSUME TypeInv, NEW t \in Thread, StartMemcpy(t)
    PROVE  TypeInv'
<1> DEFINE o == op[t]
           invalid == o.fault = Validation
<1>1. wQueue' \in Seq(Thread) /\ pc[t] # "idle"
  BY StartsType DEF StartMemcpy
<1>2. o \in OpType /\ invalid \in BOOLEAN
  BY DEF TypeInv, CallOK
<1>3. /\ HostOK'
      /\ UNCHANGED <<popped, mgr, nextHandle, calls>>
  BY Frames DEF TypeInv, StartMemcpy, hostVars
<1> DEFINE Kept(stage) == /\ pc' \in [Thread -> PcType]
                          /\ op' \in [Thread -> OpType]
                          /\ scopes' \in Seq(ScopeType)
                          /\ mem' \in [Handle -> Val]
                          /\ LaunchOK'
                          /\ pc' = [pc EXCEPT ![t] = stage]
           Good == \E stage \in PcType : Kept(stage)
<1>4. ASSUME Thrown(t) PROVE Good
  BY <1>4, ThrownType, Frames DEF Thrown, TypeInv, MemOK, PcType
<1>5. ASSUME o.kind = "HostToDevice" PROVE Good
  <2>1. CASE ~Throws(t, {o.dst})
    <3>1. /\ mem' = IF invalid THEN mem ELSE [mem EXCEPT ![o.dst] = o.val]
          /\ Ran(t, o, invalid, "settled")
          /\ UNCHANGED launchVars
      BY <1>5, <2>1 DEF StartMemcpy
    <3>2. mem' \in [Handle -> Val]
      BY <1>2, <3>1 DEF TypeInv, MemOK, OpType
    <3>3. Kept("settled")
      BY <1>2, <3>1, <3>2, RanType, Frames DEF Ran, TypeInv, PcType
    <3> QED BY <3>3 DEF PcType
  <2> QED BY <1>4, <1>5, <2>1 DEF StartMemcpy
<1>6. ASSUME o.kind = "DeviceToHost" PROVE Good
  <2>1. CASE ~Throws(t, {o.src})
    <3> DEFINE d == IF invalid THEN Zero ELSE mem[o.src]
    <3>1. /\ Ran(t, [o EXCEPT !.data = d], invalid, "copy")
          /\ UNCHANGED <<mem, launchVars>>
      BY <1>6, <2>1 DEF StartMemcpy
    <3>2. o.src \in Handle
      BY <2>1, LiveType
    <3>3. d \in Val
      BY <3>2, BridgeAssumption DEF TypeInv, MemOK
    <3>4. [o EXCEPT !.data = d] \in OpType
      BY <1>2, <3>3 DEF OpType
    <3> HIDE DEF d
    <3>5. Kept("copy")
      BY <1>2, <3>1, <3>4, RanType, Frames DEF Ran, TypeInv, MemOK, PcType
    <3> QED BY <3>5 DEF PcType
  <2> QED BY <1>4, <1>6, <2>1 DEF StartMemcpy
<1>7. ASSUME o.kind = "DeviceToDevice" PROVE Good
  <2>1. CASE ~Throws(t, {o.src, o.dst})
    <3> DEFINE bad == invalid \/ o.src = o.dst
    <3>1. /\ mem' = IF bad THEN mem ELSE Copied(o.dst, o.src)
          /\ Ran(t, o, bad, "settled")
          /\ UNCHANGED launchVars
      BY <1>7, <2>1 DEF StartMemcpy
    <3>2. o.src \in Handle
      BY <2>1, LiveType
    <3>3. mem' \in [Handle -> Val]
      BY <3>1, <3>2 DEF TypeInv, MemOK, Copied
    <3>4. Kept("settled")
      BY <1>2, <3>1, <3>3, RanType, Frames DEF Ran, TypeInv, PcType
    <3> QED BY <3>4 DEF PcType
  <2> QED BY <1>4, <1>7, <2>1 DEF StartMemcpy
<1>8. ASSUME o.kind = "Default" PROVE Good
  <2>1. /\ Ran(t, [o EXCEPT !.code = "hipErrorInvalidValue"], FALSE, "settled")
        /\ UNCHANGED <<mem, launchVars>>
    BY <1>8 DEF StartMemcpy
  <2>2. [o EXCEPT !.code = "hipErrorInvalidValue"] \in OpType
    BY <1>2 DEF OpType, Code
  <2>3. Kept("settled")
    BY <2>1, <2>2, RanType, Frames DEF Ran, TypeInv, MemOK, PcType
  <2> QED BY <2>3 DEF PcType
<1>9. Good
  BY <1>5, <1>6, <1>7, <1>8 DEF StartMemcpy
<1>10. CallOK' /\ MemOK'
  BY <1>1, <1>3, <1>9 DEF TypeInv, CallOK, MemOK
<1>11. Started'
  BY <1>1, <1>3, <1>9, StartedKept
<1> QED BY <1>3, <1>9, <1>10, <1>11 DEF TypeInv

LEMMA CopyMappedType ==
    ASSUME TypeInv, NEW t \in Thread, CopyMapped(t)
    PROVE  TypeInv'
<1>1. CallOK'
  BY DEF TypeInv, CallOK, CopyMapped, PcType
<1>2. HostOK'
  <2>1. op[t].data \in Val
    BY DEF TypeInv, CallOK, OpType
  <2> QED BY <2>1 DEF TypeInv, HostOK, CopyMapped
<1>3. MemOK' /\ LaunchOK'
  BY Frames DEF TypeInv, CopyMapped
<1>4. Started'
  BY StartedKept DEF CopyMapped
<1> QED BY <1>1, <1>2, <1>3, <1>4 DEF TypeInv

LEMMA PopScopeType ==
    ASSUME TypeInv, NEW t \in Thread, PopScope(t)
    PROVE  TypeInv'
<1>1. CallOK'
  <2>1. popped' \in [Thread -> BOOLEAN] /\ scopes' \in Seq(ScopeType)
    BY PopsType DEF PopScope, TypeInv, CallOK
  <2> QED BY <2>1 DEF TypeInv, CallOK, PopScope, PcType
<1>2. HostOK' /\ MemOK' /\ LaunchOK'
  BY Frames DEF TypeInv, PopScope
<1>3. Started'
  BY StartedKept DEF PopScope, hostVars
<1> QED BY <1>1, <1>2, <1>3 DEF TypeInv

\* Setting the status of a row keeps the list a list.
LEMMA StatusType ==
    ASSUME TypeInv, NEW row,
           NEW status \in {"none", "error", "aborted"}
    PROVE  [kernelsRan EXCEPT ![row].status = status] \in
              Seq([launch : Launch, status : {"none", "error", "aborted"}])
<1> DEFINE Row == [launch : Launch, status : {"none", "error", "aborted"}]
           set == [kernelsRan EXCEPT ![row].status = status]
<1>1. kernelsRan \in Seq(Row)
  BY DEF TypeInv, LaunchOK
<1>2. /\ DOMAIN kernelsRan = 1 .. Len(kernelsRan)
      /\ Len(kernelsRan) \in Nat
      /\ kernelsRan \in [1 .. Len(kernelsRan) -> Row]
  <2> HIDE DEF Row
  <2> QED BY <1>1, LenProperties
<1>3. ASSUME NEW i \in 1 .. Len(kernelsRan)
      PROVE  set[i] \in Row
  <2>1. kernelsRan[i] \in Row
    BY <1>2
  <2>2. [kernelsRan[i] EXCEPT !.status = status] \in Row
    BY <2>1
  <2> HIDE DEF Row
  <2>3. CASE i = row
    BY <1>2, <2>2, <2>3
  <2>4. CASE i # row
    BY <1>2, <2>1, <2>4
  <2> QED BY <2>3, <2>4
<1>4. set \in [1 .. Len(kernelsRan) -> Row]
  <2>1. /\ DOMAIN set = 1 .. Len(kernelsRan)
        /\ set = [i \in 1 .. Len(kernelsRan) |-> set[i]]
    BY <1>2
  <2> HIDE DEF set, Row
  <2> QED BY <1>3, <2>1
<1> HIDE DEF set, Row
<1>5. set \in Seq(Row)
  BY <1>2, <1>4
<1> QED BY <1>5 DEF set, Row

LEMMA ReportedType ==
    ASSUME TypeInv, NEW row, NEW failed
    PROVE  Reported(row, failed) \in
              Seq([launch : Launch, status : {"none", "error", "aborted"}])
<1>1. CASE failed /\ row > 0
  BY <1>1, StatusType DEF Reported
<1>2. CASE ~(failed /\ row > 0)
  BY <1>2 DEF Reported, TypeInv, LaunchOK
<1> QED BY <1>1, <1>2

LEMMA FinishType ==
    ASSUME TypeInv, NEW t \in Thread, Finish(t)
    PROVE  TypeInv'
<1> DEFINE failed == op[t].failed \/ popped[t]
<1>1. CallOK'
  <2>1. failed \in BOOLEAN
    BY DEF TypeInv, CallOK, OpType
  <2>2. [op[t] EXCEPT !.failed = failed] \in OpType
    BY <2>1, FailedType DEF TypeInv, CallOK
  <2> QED BY <2>2 DEF TypeInv, CallOK, Finish, PcType
<1>2. MemOK'
  BY DropType DEF TypeInv, MemOK, Finish
<1>3. LaunchOK'
  BY ReportedType DEF TypeInv, LaunchOK, Finish, stageVars
<1>4. HostOK' /\ Started'
  BY Frames, StartedKept DEF TypeInv, Finish, hostVars
<1> QED BY <1>1, <1>2, <1>3, <1>4 DEF TypeInv

LEMMA ResultType ==
    ASSUME NEW o \in OpType
    PROVE  Result(o) \in Code
  BY DEF Result, OpType, Code

LEMMA ReturnType ==
    ASSUME TypeInv, NEW t \in Thread, Return(t)
    PROVE  TypeInv'
<1>1. CallOK'
  BY DEF TypeInv, CallOK, Return, PcType
<1>2. HostOK'
  <2>1. Result(op[t]) \in Code
    BY ResultType DEF TypeInv, CallOK
  <2>2. lastError' \in [Thread -> Code] /\ ret' \in [Thread -> Code]
    BY <2>1, ReturnsType DEF Return
  <2>3. output' \in Seq(Launch)
    BY DEF TypeInv, HostOK, LaunchOK, Return
  <2>4. exited' \in BOOLEAN
    BY DEF Return
  <2> QED BY <2>2, <2>3, <2>4 DEF TypeInv, HostOK, Return
<1>3. MemOK' /\ LaunchOK'
  BY Frames DEF TypeInv, Return
<1>4. Started'
  BY StartedKept DEF Return
<1> QED BY <1>1, <1>2, <1>3, <1>4 DEF TypeInv

\* What a submission leaves in the launch state.
LEMMA SubmitType ==
    ASSUME TypeInv, NEW t \in Thread, pc[t] # "idle", Submit(t)
    PROVE  /\ LaunchOK'
           /\ mem' \in [Handle -> Val]
           /\ scopes' \in Seq(ScopeType) /\ op' \in [Thread -> OpType]
           /\ \E stage \in PcType : pc' = [pc EXCEPT ![t] = stage]
<1> DEFINE o == op[t]
           k == o.kernel
           dropped == Dropped(o)
           records == IF Prints(k) THEN Append(printfBuf, Me(t)) ELSE printfBuf
           flag == abortFlag \/ o.asserts
           unmappable == \/ Prints(k) /\ printfMap # None
                         \/ Asserts(k) /\ abortMap # None
           stage == IF Prints(k) THEN "printf"
                    ELSE IF Asserts(k) THEN "abort" ELSE "settled"
           ran == [o EXCEPT !.row = Len(kernelsRan) + 1, !.dropped = dropped]
<1>1. o \in OpType /\ Me(t) \in Launch
  BY MeType DEF TypeInv, CallOK
<1>2. dropped \in BOOLEAN /\ unmappable \in BOOLEAN /\ flag \in BOOLEAN
  BY DEF Dropped
<1>3. records \in Seq(Launch)
  BY <1>1 DEF TypeInv, LaunchOK
<1>4. mem' \in [Handle -> Val]
  BY <1>1 DEF TypeInv, MemOK, Submit, OpType
<1>5. LaunchOK'
  <2>1. timestamps' \in [0 .. (Slots - 1) -> Launch \cup {None}]
    BY <1>1 DEF TypeInv, LaunchOK, Submit
  <2>2. kernelsRan' \in Seq([launch : Launch,
                             status : {"none", "error", "aborted"}])
    BY <1>1 DEF TypeInv, LaunchOK, Submit
  <2>3. printfBuf' \in Seq(Launch) /\ printfStage' \in Seq(Launch)
    <3>1. printfBuf \in Seq(Launch) /\ printfStage \in Seq(Launch)
      BY DEF TypeInv, LaunchOK
    <3>2. \/ printfBuf' = printfBuf /\ printfStage' = printfStage
          \/ /\ printfBuf' = IF Prints(k) THEN <<>> ELSE records
             /\ printfStage' = IF Prints(k) THEN records ELSE printfStage
      BY DEF Submit, PrintfLeft
    <3>3. <<>> \in Seq(Launch)
      OBVIOUS
    <3> HIDE DEF records, k
    <3> QED BY <1>3, <3>1, <3>2, <3>3
  <2>4. abortFlag' \in BOOLEAN /\ abortStage' \in BOOLEAN
    BY <1>2 DEF TypeInv, LaunchOK, Submit, AbortLeft
  <2>5. /\ printfMap' \in Launch \cup {None}
        /\ abortMap' \in Launch \cup {None}
    BY <1>1 DEF TypeInv, LaunchOK, Submit
  <2>6. hostPrintf' \in Seq(Launch)
    BY DEF TypeInv, LaunchOK, Submit
  <2> QED BY <2>1, <2>2, <2>3, <2>4, <2>5, <2>6 DEF LaunchOK
<1>6. ran \in OpType
  <2>1. Len(kernelsRan) + 1 \in Nat
    BY DEF TypeInv, LaunchOK
  <2> HIDE DEF dropped, o
  <2> QED BY <1>1, <1>2, <2>1 DEF OpType
<1>7. Ran(t, ran, dropped \/ unmappable, stage)
  BY DEF Submit
<1>8. (dropped \/ unmappable) \in BOOLEAN /\ stage \in PcType
  BY DEF PcType
<1>9. pc' = [pc EXCEPT ![t] = stage]
  BY <1>7 DEF Ran
<1> HIDE DEF ran, dropped, unmappable, stage
<1>10. scopes' \in Seq(ScopeType) /\ op' \in [Thread -> OpType]
  BY <1>6, <1>7, <1>8, RanType
<1> QED BY <1>4, <1>5, <1>8, <1>9, <1>10

LEMMA StartLaunchType ==
    ASSUME TypeInv, NEW t \in Thread, StartLaunch(t)
    PROVE  TypeInv'
<1>1. wQueue' \in Seq(Thread) /\ pc[t] # "idle"
  BY StartsType DEF StartLaunch
<1>2. HostOK' /\ UNCHANGED <<popped, mgr, nextHandle, calls>>
  BY Frames DEF TypeInv, StartLaunch, hostVars
<1> DEFINE Good == /\ LaunchOK'
                   /\ mem' \in [Handle -> Val]
                   /\ scopes' \in Seq(ScopeType) /\ op' \in [Thread -> OpType]
                   /\ \E stage \in PcType : pc' = [pc EXCEPT ![t] = stage]
<1>3. ASSUME op[t].kernel \notin KernelMap PROVE Good
  <2> DEFINE o == [op[t] EXCEPT !.code = "hipErrorInvalidDeviceFunction"]
  <2>1. o \in OpType
    <3>1. op[t] \in OpType
      BY DEF TypeInv, CallOK
    <3> QED BY <3>1 DEF OpType, Code
  <2>2. Ran(t, o, FALSE, "settled") /\ UNCHANGED <<mem, launchVars>>
    BY <1>3 DEF StartLaunch
  <2>3. scopes' \in Seq(ScopeType) /\ op' \in [Thread -> OpType]
    BY <2>1, <2>2, RanType DEF PcType
  <2> QED BY <2>2, <2>3, Frames DEF Ran, TypeInv, MemOK, PcType
<1>4. ASSUME Thrown(t) PROVE Good
  BY <1>4, ThrownType, Frames DEF Thrown, TypeInv, MemOK, PcType
<1>5. ASSUME Submit(t) PROVE Good
  BY <1>1, <1>5, SubmitType
<1>6. Good
  BY <1>3, <1>4, <1>5 DEF StartLaunch
<1>7. CallOK' /\ MemOK'
  BY <1>1, <1>2, <1>6 DEF TypeInv, CallOK, MemOK
<1>8. Started'
  BY <1>1, <1>2, <1>6, StartedKept
<1> QED BY <1>2, <1>6, <1>7, <1>8 DEF TypeInv

LEMMA RejectedType ==
    ASSUME TypeInv, NEW t \in Thread, Rejected(t)
    PROVE  op' \in [Thread -> OpType] /\ pc' = [pc EXCEPT ![t] = "settled"]
<1>1. [op[t] EXCEPT !.failed = TRUE] \in OpType
  BY FailedType DEF TypeInv, CallOK
<1> QED BY <1>1 DEF TypeInv, CallOK, Rejected

LEMMA CopyRejectedType ==
    ASSUME TypeInv, NEW t \in Thread, CopyRejected(t)
    PROVE  TypeInv'
<1>1. op' \in [Thread -> OpType] /\ pc' = [pc EXCEPT ![t] = "settled"]
  BY RejectedType DEF CopyRejected
<1>2. CallOK'
  BY <1>1 DEF TypeInv, CallOK, CopyRejected, PcType
<1>3. HostOK' /\ MemOK' /\ LaunchOK'
  BY Frames DEF TypeInv, CopyRejected
<1>4. Started'
  BY <1>1, StartedKept DEF CopyRejected, hostVars
<1> QED BY <1>2, <1>3, <1>4 DEF TypeInv

LEMMA PrintfMappedType ==
    ASSUME TypeInv, NEW t \in Thread, PrintfMapped(t)
    PROVE  TypeInv'
<1>1. op' \in [Thread -> OpType]
  BY RejectedType DEF TypeInv, CallOK, PrintfMapped
<1>2. \E stage \in PcType : pc' = [pc EXCEPT ![t] = stage]
  BY RejectedType DEF PrintfMapped, PcType
<1>3. CallOK'
  BY <1>1, <1>2 DEF TypeInv, CallOK, PrintfMapped
<1>4. LaunchOK'
  BY DEF TypeInv, LaunchOK, PrintfMapped
<1>5. HostOK' /\ MemOK'
  BY Frames DEF TypeInv, PrintfMapped
<1>6. Started'
  BY <1>2, StartedKept DEF PrintfMapped, hostVars
<1> QED BY <1>3, <1>4, <1>5, <1>6 DEF TypeInv

LEMMA AbortMappedType ==
    ASSUME TypeInv, NEW t \in Thread, AbortMapped(t)
    PROVE  TypeInv'
<1>1. op' \in [Thread -> OpType]
  <2>1. [op[t] EXCEPT !.code = "hipErrorAssert"] \in OpType
    <3>1. op[t] \in OpType
      BY DEF TypeInv, CallOK
    <3> QED BY <3>1 DEF OpType, Code
  <2> QED BY <2>1, RejectedType DEF TypeInv, CallOK, AbortMapped
<1>2. pc' = [pc EXCEPT ![t] = "settled"]
  BY RejectedType DEF AbortMapped
<1>3. CallOK'
  BY <1>1, <1>2 DEF TypeInv, CallOK, AbortMapped, PcType
<1>4. LaunchOK'
  BY StatusType DEF TypeInv, LaunchOK, AbortMapped
<1>5. HostOK' /\ MemOK'
  BY Frames DEF TypeInv, AbortMapped
<1>6. Started'
  BY <1>2, StartedKept DEF AbortMapped, hostVars
<1> QED BY <1>3, <1>4, <1>5, <1>6 DEF TypeInv

--------------------------------------------------------------------------------
LEMMA InitType == Init => TypeInv
<1> SUFFICES ASSUME Init PROVE TypeInv
  OBVIOUS
<1>1. Zero \in Val
  BY BridgeAssumption
<1>2. CallOK
  BY NoOpType DEF Init, CallOK, PcType
<1>3. HostOK
  <2>1. 0 \in 0 .. MaxCalls
    BY BridgeAssumption
  <2>2. <<>> \in Seq(Launch)
    OBVIOUS
  <2> QED BY <1>1, <2>1, <2>2 DEF Init, HostOK, Code
<1>4. MemOK
  BY <1>1, BridgeAssumption DEF Init, MemOK
<1>5. LaunchOK
  <2>1. /\ <<>> \in Seq(Launch)
        /\ <<>> \in Seq([launch : Launch,
                        status : {"none", "error", "aborted"}])
    OBVIOUS
  <2> QED BY <2>1 DEF Init, LaunchOK
<1>6. Started
  BY DEF Init, Started
<1> QED BY <1>2, <1>3, <1>4, <1>5, <1>6 DEF TypeInv

LEMMA NextType == TypeInv /\ [Next]_vars => TypeInv'
<1> SUFFICES ASSUME TypeInv, [Next]_vars PROVE TypeInv'
  OBVIOUS
<1>1. CASE UNCHANGED vars
  BY <1>1, Frames DEF vars, TypeInv, CallOK, Started, hostVars
<1>2. ASSUME NEW t \in Thread, HostStep(t) PROVE TypeInv'
  BY <1>2, HipMallocType, HipFreeType, HipMemcpyType, HipMemcpyToSymbolType,
     HipLaunchKernelType, HipGetLastErrorType DEF HostStep
<1>3. ASSUME NEW t \in Thread, BridgeStep(t) PROVE TypeInv'
  BY <1>3, StartMallocType, MallocPoppedType, StartFreeType, StartMemcpyType,
     CopyMappedType, CopyRejectedType, StartLaunchType, PrintfMappedType, AbortMappedType,
     PopScopeType, FinishType, ReturnType DEF BridgeStep
<1> QED BY <1>1, <1>2, <1>3 DEF Next

\* Every variable of HipBridge always holds a value of its kind.
THEOREM TypeCorrect == Spec => []TypeOK
<1>1. Spec => []TypeInv
  BY InitType, NextType, PTL DEF Spec
<1> QED BY <1>1, TypeParts, PTL

--------------------------------------------------------------------------------
(* The error scopes are balanced.                                           *)

OwingPlaces == {"malloc", "copy", "printf", "abort", "settled", "hung"}

LEMMA OwingFinite == Owing \subseteq Thread /\ IsFiniteSet(Owing)
<1>1. IsFiniteSet(Thread)
  BY BridgeAssumption
<1> QED BY <1>1, FS_Subset DEF Owing

\* The three things a step can do to the calls that owe a pop.
LEMMA OwingGains ==
    ASSUME TypeInv, NEW t \in Thread, NEW place \in OwingPlaces,
           pc[t] = "queued", pc' = [pc EXCEPT ![t] = place]
    PROVE  Cardinality(Owing') = Cardinality(Owing) + 1
<1>1. t \notin Owing
  BY DEF Owing
<1>2. Owing' = Owing \cup {t}
  BY DEF Owing, OwingPlaces, TypeInv, CallOK
<1> QED BY <1>1, <1>2, OwingFinite, FS_AddElement

LEMMA OwingLoses ==
    ASSUME TypeInv, NEW t \in Thread, NEW place \in PcType \ OwingPlaces,
           pc[t] \in OwingPlaces, pc' = [pc EXCEPT ![t] = place]
    PROVE  /\ Cardinality(Owing') = Cardinality(Owing) - 1
           /\ Cardinality(Owing) > 0
<1>1. t \in Owing
  BY DEF Owing, OwingPlaces
<1>2. Owing' = Owing \ {t}
  BY DEF Owing, OwingPlaces, TypeInv, CallOK
<1>3. Cardinality(Owing) \in Nat /\ Cardinality(Owing) # 0
  BY <1>1, OwingFinite, FS_CardinalityType, FS_EmptySet
<1>4. Cardinality(Owing \ {t}) = Cardinality(Owing) - 1
  BY <1>1, OwingFinite, FS_RemoveElement
<1> QED BY <1>2, <1>3, <1>4

LEMMA OwingKept ==
    ASSUME TypeInv, NEW t \in Thread, NEW place \in PcType,
           place \in OwingPlaces <=> pc[t] \in OwingPlaces,
           pc' = [pc EXCEPT ![t] = place]
    PROVE  Owing' = Owing
  BY DEF Owing, OwingPlaces, TypeInv, CallOK

\* Popping on behalf of a call that owes a pop takes exactly one scope.
LEMMA PopBalances ==
    ASSUME TypeInv, NEW t \in Thread, ScopesBalanced,
           pc[t] \in OwingPlaces, pc' = [pc EXCEPT ![t] = "popped"],
           Pops(t, scopes)
    PROVE  ScopesBalanced'
<1>1. /\ Cardinality(Owing') = Cardinality(Owing) - 1
      /\ Cardinality(Owing) > 0
  BY OwingLoses DEF PcType, OwingPlaces
<1>2. scopes \in Seq(ScopeType) /\ scopes # <<>>
  BY <1>1 DEF TypeInv, CallOK, ScopesBalanced
<1>3. Len(scopes') = Len(scopes) - 1
  BY <1>2, PopFacts DEF Pops
<1> QED BY <1>1, <1>3 DEF ScopesBalanced

\* The two ways in which an asynchronous function of webgpu.js starts.
LEMMA RanBalances ==
    ASSUME TypeInv, NEW t \in Thread, ScopesBalanced, pc[t] = "queued",
           NEW o, NEW invalid, NEW next \in OwingPlaces,
           Ran(t, o, invalid, next)
    PROVE  ScopesBalanced'
<1>1. Cardinality(Owing') = Cardinality(Owing) + 1
  BY OwingGains DEF Ran
<1>2. Len(scopes') = Len(scopes) + 1
  <2>1. scopes \in Seq(ScopeType)
    BY DEF TypeInv, CallOK
  <2> QED BY <2>1, PushType, RaiseFacts DEF Ran
<1> QED BY <1>1, <1>2 DEF ScopesBalanced

LEMMA ThrownBalances ==
    ASSUME TypeInv, NEW t \in Thread, ScopesBalanced, pc[t] = "queued",
           Thrown(t)
    PROVE  ScopesBalanced'
<1>1. Cardinality(Owing') = Cardinality(Owing) + 1
  BY OwingGains DEF Thrown, OwingPlaces
<1>2. Len(scopes') = Len(scopes) + 1
  BY PushType DEF Thrown, TypeInv, CallOK
<1> QED BY <1>1, <1>2 DEF ScopesBalanced

\* hipMalloc pushes two scopes and pops one of them at once.
LEMMA StartMallocBalances ==
    ASSUME TypeInv, NEW t \in Thread, ScopesBalanced, StartMalloc(t)
    PROVE  ScopesBalanced'
<1> DEFINE pushed == PushScope(PushScope(scopes, OutOfMemory), Validation)
           raised == Raise(pushed, op[t].fault)
<1>1. Cardinality(Owing') = Cardinality(Owing) + 1
  BY OwingGains DEF StartMalloc, Starts, OwingPlaces
<1>2. scopes \in Seq(ScopeType) /\ Len(scopes) \in Nat
  BY DEF TypeInv, CallOK
<1>3. pushed \in Seq(ScopeType) /\ Len(pushed) = Len(scopes) + 2
  BY <1>2, PushType
<1>4. raised \in Seq(ScopeType) /\ Len(raised) = Len(scopes) + 2
  <2> HIDE DEF pushed
  <2> QED BY <1>3, RaiseFacts
<1>5. Len(scopes') = Len(scopes) + 1
  <2>1. scopes' = PopLeaves(raised)
    BY DEF StartMalloc, Pops
  <2> HIDE DEF raised
  <2>2. raised # <<>>
    BY <1>2, <1>4
  <2> QED BY <1>2, <1>4, <2>1, <2>2, PopFacts
<1> QED BY <1>1, <1>5 DEF ScopesBalanced

LEMMA StartFreeBalances ==
    ASSUME TypeInv, NEW t \in Thread, ScopesBalanced, StartFree(t)
    PROVE  ScopesBalanced'
<1> DEFINE pushed == PushScope(scopes, Validation)
<1>1. scopes \in Seq(ScopeType) /\ Len(scopes) \in Nat
  BY DEF TypeInv, CallOK
<1>2. pushed \in Seq(ScopeType) /\ Len(pushed) = Len(scopes) + 1
  BY <1>1, PushType
<1>3. CASE Live(op[t].dst)
  <2>1. Owing' = Owing
    BY <1>3, OwingKept DEF StartFree, Starts, PcType, OwingPlaces
  <2>2. scopes' = PopLeaves(pushed)
    BY <1>3 DEF StartFree, Pops
  <2>3. Len(scopes') = Len(scopes)
    <3> HIDE DEF pushed
    <3>1. pushed # <<>>
      BY <1>1, <1>2
    <3> QED BY <1>1, <1>2, <2>2, <3>1, PopFacts
  <2> QED BY <2>1, <2>3 DEF ScopesBalanced
<1>4. CASE ~Live(op[t].dst)
  <2>1. Cardinality(Owing') = Cardinality(Owing) + 1
    BY <1>4, OwingGains DEF StartFree, Starts, OwingPlaces
  <2>2. scopes' = pushed
    BY <1>4 DEF StartFree
  <2> QED BY <1>2, <2>1, <2>2 DEF ScopesBalanced
<1> QED BY <1>3, <1>4

LEMMA StartMemcpyBalances ==
    ASSUME TypeInv, NEW t \in Thread, ScopesBalanced, StartMemcpy(t)
    PROVE  ScopesBalanced'
<1>1. pc[t] = "queued"
  BY DEF StartMemcpy, Starts
<1>2. \/ Thrown(t)
      \/ \E o, invalid : \E next \in {"settled", "copy"} :
            Ran(t, o, invalid, next)
  BY DEF StartMemcpy
<1> QED BY <1>1, <1>2, ThrownBalances, RanBalances DEF OwingPlaces

LEMMA StartLaunchBalances ==
    ASSUME TypeInv, NEW t \in Thread, ScopesBalanced, StartLaunch(t)
    PROVE  ScopesBalanced'
<1>1. pc[t] = "queued"
  BY DEF StartLaunch, Starts
<1>2. \/ Thrown(t)
      \/ \E o, invalid : \E next \in {"settled", "printf", "abort"} :
            Ran(t, o, invalid, next)
  BY DEF StartLaunch, Submit
<1> QED BY <1>1, <1>2, ThrownBalances, RanBalances DEF OwingPlaces

LEMMA HostBalances ==
    ASSUME TypeInv, NEW t \in Thread, ScopesBalanced, HostStep(t)
    PROVE  ScopesBalanced'
<1>1. UNCHANGED scopes
  BY DEF HostStep, HipMalloc, HipFree, HipMemcpy, HipMemcpyToSymbol,
         HipLaunchKernel, HipGetLastError, ReturnAtOnce, Proxy
<1>2. pc[t] = "idle" /\ (pc' = pc \/ pc' = [pc EXCEPT ![t] = "queued"])
  BY DEF HostStep, HipMalloc, HipFree, HipMemcpy, HipMemcpyToSymbol,
         HipLaunchKernel, HipGetLastError, MayCall, ReturnAtOnce, Proxy
<1>3. Owing' = Owing
  <2>1. CASE pc' = pc
    BY <2>1 DEF Owing
  <2>2. CASE pc' = [pc EXCEPT ![t] = "queued"]
    BY <1>2, <2>2, OwingKept DEF PcType, OwingPlaces
  <2> QED BY <1>2, <2>1, <2>2
<1> QED BY <1>1, <1>3 DEF ScopesBalanced

LEMMA BridgeBalances ==
    ASSUME TypeInv, NEW t \in Thread, ScopesBalanced, BridgeStep(t)
    PROVE  ScopesBalanced'
<1>1. CASE StartMalloc(t)
  BY <1>1, StartMallocBalances
<1>2. CASE MallocPopped(t)
  BY <1>2, PopBalances DEF MallocPopped, OwingPlaces
<1>3. CASE StartFree(t)
  BY <1>3, StartFreeBalances
<1>4. CASE StartMemcpy(t)
  BY <1>4, StartMemcpyBalances
<1>5. CASE StartLaunch(t)
  BY <1>5, StartLaunchBalances
<1>6. CASE PopScope(t)
  BY <1>6, PopBalances DEF PopScope, OwingPlaces
<1>7. CASE CopyMapped(t) \/ CopyRejected(t) \/ PrintfMapped(t) \/ AbortMapped(t)
  <2>1. /\ pc[t] \in {"copy", "printf", "abort"} /\ UNCHANGED scopes
        /\ \E place \in {"abort", "settled"} : pc' = [pc EXCEPT ![t] = place]
    BY <1>7 DEF CopyMapped, CopyRejected, PrintfMapped, AbortMapped, Rejected
  <2>2. Owing' = Owing
    BY <2>1, OwingKept DEF PcType, OwingPlaces
  <2> QED BY <2>1, <2>2 DEF ScopesBalanced
<1>8. CASE Finish(t) \/ Return(t)
  <2>1. /\ pc[t] \in {"popped", "finished"} /\ UNCHANGED scopes
        /\ \E place \in {"finished", "idle"} : pc' = [pc EXCEPT ![t] = place]
    BY <1>8 DEF Finish, Return
  <2>2. Owing' = Owing
    BY <2>1, OwingKept DEF PcType, OwingPlaces
  <2> QED BY <2>1, <2>2 DEF ScopesBalanced
<1> QED BY <1>1, <1>2, <1>3, <1>4, <1>5, <1>6, <1>7, <1>8 DEF BridgeStep

\* The device always has one open error scope for each call that will still
\* pop one, whatever the host threads call and whatever the device does.
THEOREM Balanced == Spec => []ScopesBalanced
<1> DEFINE Inv == TypeInv /\ ScopesBalanced
<1>1. Init => Inv
  <2> SUFFICES ASSUME Init PROVE ScopesBalanced
    BY InitType
  <2>1. Owing = {}
    BY DEF Init, Owing
  <2> QED BY <2>1, FS_EmptySet DEF Init, ScopesBalanced
<1>2. Inv /\ [Next]_vars => Inv'
  <2> SUFFICES ASSUME Inv, [Next]_vars PROVE ScopesBalanced'
    BY NextType
  <2>1. CASE UNCHANGED vars
    BY <2>1 DEF vars, ScopesBalanced, Owing
  <2> QED BY <2>1, HostBalances, BridgeBalances DEF Next
<1> QED BY <1>1, <1>2, PTL DEF Spec

--------------------------------------------------------------------------------
(* Launches: the invariant.                                                 *)

\* Waiting for no staging buffer; and past its start.
Free(t)  == pc[t] \notin {"printf", "abort"}
Begun(t) == pc[t] \notin {"idle", "queued"}

IsLaunch(t) == op[t].fn = "hipLaunchKernel"

\* What a call is before the main thread starts it.
FreshOK(t) ==
    pc[t] = "queued" =>
        /\ ~op[t].failed /\ ~op[t].own /\ ~op[t].dropped
        /\ op[t].row = 0 /\ op[t].code = "hipSuccess"

\* Only launches of kernels that the module has are run, and only some assert.
KindOK(t) ==
    /\ op[t].asserts => IsLaunch(t) /\ op[t].kernel \in AbortKernel \cap KernelMap
    /\ op[t].row > 0 => IsLaunch(t) /\ op[t].kernel \in KernelMap
    /\ op[t].dropped => op[t].row > 0 /\ op[t].own
    /\ ~Free(t) => op[t].row > 0 /\ ~op[t].failed /\ op[t].code = "hipSuccess"
    /\ pc[t] = "printf" => Prints(op[t].kernel)
    /\ pc[t] = "abort" => Asserts(op[t].kernel)
    /\ pc[t] = "malloc" => ~IsLaunch(t)

\* A launch that waits for a staging buffer holds it, or fails by its own fault;
\* what it is going to find there is its own.
ClaimOK(t) ==
    /\ pc[t] = "printf" =>
           /\ printfMap # Me(t) => op[t].own
           /\ printfMap = Me(t) /\ ~op[t].dropped => printfStage = <<Me(t)>>
    /\ ~Free(t) /\ Asserts(op[t].kernel) =>
           /\ abortMap # Me(t) => op[t].own
           /\ abortMap = Me(t) /\ ~op[t].dropped => abortStage = op[t].asserts

\* What the row of a launch in the list of kernels says.
Status(t) ==
    IF pc[t] = "finished" /\ op[t].failed THEN "error"
    ELSE IF op[t].code = "hipErrorAssert" THEN "aborted" ELSE "none"

RowOK(t) ==
    pc[t] # "idle" /\ op[t].row > 0 =>
        /\ op[t].row <= Len(kernelsRan)
        /\ kernelsRan[op[t].row] = [launch |-> Me(t), status |-> Status(t)]
        /\ op[t].code \in {"hipSuccess", "hipErrorAssert"}

\* A launch that went well knows of its own assertion and of no other.
ToldOK(t) ==
    Free(t) /\ Begun(t) /\ IsLaunch(t) /\ ~op[t].failed /\ ~op[t].dropped =>
        (op[t].code = "hipErrorAssert") = op[t].asserts

LaunchInv(t) == FreshOK(t) /\ KindOK(t) /\ ClaimOK(t) /\ RowOK(t) /\ ToldOK(t)

\* The call of the launch l has been started.
Past(l) == l[2] <= calls[l[1]] /\ (pc[l[1]] = "queued" => l[2] < calls[l[1]])

\* No launch leaves anything in the device's printf buffer and assertion flag,
\* and none holds a staging buffer before its call has been started.
DeviceOK ==
    /\ printfBuf = <<>> /\ abortFlag = FALSE
    /\ printfMap # None => Past(printfMap)
    /\ abortMap # None => Past(abortMap)

\* A pair of timestamps belongs to its row.
TimesOK ==
    \A i \in 0 .. (Slots - 1) :
        timestamps[i] # None =>
            i < Len(kernelsRan) /\ kernelsRan[i + 1].launch = timestamps[i]

LInv == DeviceOK /\ TimesOK /\ \A t \in Thread : LaunchInv(t)

--------------------------------------------------------------------------------
(* Launches: the steps.                                                     *)

Row == [launch : Launch, status : {"none", "error", "aborted"}]

\* What a step of t does to the others: nothing.
OwnStep(t) ==
    /\ \A u \in Thread \ {t} : pc'[u] = pc[u] /\ op'[u] = op[u] /\ calls'[u] = calls[u]
    /\ calls'[t] >= calls[t]
    /\ pc'[t] = "queued" => calls'[t] > calls[t]

\* What it may do to a staging buffer: take it, give it back, or fill it when
\* nobody has it.
Takes(t, map, stage) ==
    /\ map' = map \/ (map = None /\ map' = Me(t)) \/ (map = Me(t) /\ map' = None)
    /\ map # None => stage' = stage

\* And to the list of kernels: add to it, or change its own row.
RowsStay(t) ==
    /\ Len(kernelsRan') >= Len(kernelsRan)
    /\ \A i \in 1 .. Len(kernelsRan) :
          /\ kernelsRan'[i].launch = kernelsRan[i].launch
          /\ kernelsRan[i].launch # Me(t) => kernelsRan'[i] = kernelsRan[i]

\* The calls of different threads are different launches.
LEMMA MeFacts ==
    ASSUME NEW t \in Thread, NEW u \in Thread
    PROVE  /\ Me(t) = Me(u) => t = u
           /\ TypeInv /\ pc[t] # "idle" => Me(t) \in Launch /\ Me(t) # None
<1>1. Me(t) = Me(u) => t = u
  BY DEF Me
<1>2. ASSUME TypeInv, pc[t] # "idle" PROVE Me(t) \in Launch /\ Me(t) # None
  BY <1>2, MeType, BridgeAssumption
<1> QED BY <1>1, <1>2

LEMMA OpFacts ==
    ASSUME TypeInv, NEW t \in Thread
    PROVE  /\ op[t] \in OpType /\ op[t].row \in Nat /\ op[t].failed \in BOOLEAN
           /\ op[t].own \in BOOLEAN /\ op[t].dropped \in BOOLEAN /\ op[t].asserts \in BOOLEAN
           /\ calls[t] \in Nat /\ pc[t] \in PcType
           /\ DOMAIN pc = Thread /\ DOMAIN op = Thread /\ DOMAIN calls = Thread
           /\ kernelsRan \in Seq(Row) /\ Len(kernelsRan) \in Nat
<1>1. op[t] \in OpType
  BY DEF TypeInv, CallOK
<1>2. kernelsRan \in Seq(Row)
  BY DEF TypeInv, LaunchOK, Row
<1>3. Len(kernelsRan) \in Nat
  <2> HIDE DEF Row
  <2> QED BY <1>2
<1>4. /\ op[t].row \in Nat /\ op[t].failed \in BOOLEAN /\ op[t].own \in BOOLEAN
      /\ op[t].dropped \in BOOLEAN /\ op[t].asserts \in BOOLEAN
  BY <1>1 DEF OpType
<1>5. calls[t] \in Nat /\ DOMAIN calls = Thread
  BY BridgeAssumption DEF TypeInv, HostOK
<1>6. pc[t] \in PcType /\ DOMAIN pc = Thread /\ DOMAIN op = Thread
  BY DEF TypeInv, CallOK
<1> QED BY <1>1, <1>2, <1>3, <1>4, <1>5, <1>6

\* A step leaves the invariant of the other calls alone.
LEMMA OthersKept ==
    ASSUME TypeInv, LInv, NEW t \in Thread, NEW u \in Thread \ {t}, OwnStep(t), pc[t] # "idle",
           Takes(t, printfMap, printfStage), Takes(t, abortMap, abortStage), RowsStay(t)
    PROVE  LaunchInv(u)'
<1>1. /\ pc'[u] = pc[u] /\ op'[u] = op[u] /\ calls'[u] = calls[u]
      /\ Me(u)' = Me(u) /\ Me(t) # Me(u) /\ Me(t) # None
  BY MeFacts DEF OwnStep, Me
<1>2. LaunchInv(u)
  BY DEF LInv
<1>3. FreshOK(u)' /\ KindOK(u)' /\ ToldOK(u)'
  BY <1>1, <1>2 DEF LaunchInv, FreshOK, KindOK, ToldOK, Free, Begun, IsLaunch
<1>4. ClaimOK(u)'
  <2>1. ASSUME pc[u] # "idle" PROVE Me(u) # None
    BY <2>1, MeFacts
  <2>2. ASSUME pc[u] = "printf"
        PROVE  /\ printfMap' = Me(u) => printfMap = Me(u) /\ printfStage' = printfStage
               /\ printfMap' # Me(u) => printfMap # Me(u)
    BY <1>1, <2>1, <2>2 DEF Takes
  <2>3. ASSUME ~Free(u)
        PROVE  /\ abortMap' = Me(u) => abortMap = Me(u) /\ abortStage' = abortStage
               /\ abortMap' # Me(u) => abortMap # Me(u)
    BY <1>1, <2>1, <2>3 DEF Takes, Free
  <2> QED BY <1>1, <1>2, <2>2, <2>3 DEF LaunchInv, ClaimOK, Free
<1>5. RowOK(u)'
  <2> SUFFICES ASSUME pc[u] # "idle", op[u].row > 0 PROVE RowOK(u)'
    BY <1>1 DEF RowOK
  <2>1. /\ op[u].row \in 1 .. Len(kernelsRan)
        /\ kernelsRan[op[u].row] = [launch |-> Me(u), status |-> Status(u)]
        /\ op[u].code \in {"hipSuccess", "hipErrorAssert"}
    BY <1>2, OpFacts DEF LaunchInv, RowOK
  <2>2. kernelsRan[op[u].row].launch # Me(t)
    BY <1>1, <2>1
  <2>3. kernelsRan'[op[u].row] = kernelsRan[op[u].row] /\ op[u].row <= Len(kernelsRan')
    BY <2>1, <2>2, OpFacts DEF RowsStay
  <2>4. Status(u)' = Status(u)
    BY <1>1 DEF Status
  <2> QED BY <1>1, <2>1, <2>3, <2>4 DEF RowOK
<1> QED BY <1>3, <1>4, <1>5 DEF LaunchInv

\* The launches that hold a buffer, and the rows of the list, are as good after a
\* step as before it.
LEMMA PastKept ==
    ASSUME TypeInv, NEW t \in Thread, OwnStep(t), calls' \in [Thread -> 0 .. MaxCalls],
           NEW l \in Launch, Past(l)
    PROVE  Past(l)'
<1>1. l[1] \in Thread /\ l[2] \in Nat
  BY BridgeAssumption DEF Launch
<1>2. /\ calls[l[1]] \in Nat /\ calls'[l[1]] \in Nat
  BY <1>1, BridgeAssumption DEF TypeInv, HostOK
<1>3. CASE l[1] # t
  BY <1>1, <1>3 DEF OwnStep, Past
<1>4. CASE l[1] = t
  BY <1>1, <1>2, <1>4 DEF OwnStep, Past
<1> QED BY <1>3, <1>4

\* A step that touches no launch.
LEMMA QuietKept ==
    ASSUME TypeInv, LInv, NEW t \in Thread, OwnStep(t), calls' \in [Thread -> 0 .. MaxCalls],
           UNCHANGED launchVars, LaunchInv(t)'
    PROVE  LInv'
<1>1. /\ UNCHANGED <<printfBuf, printfStage, printfMap, abortFlag, abortStage, abortMap>>
      /\ UNCHANGED <<hostPrintf, kernelsRan, timestamps>>
  BY DEF launchVars, stageVars
<1>2. DeviceOK'
  <2>1. printfMap \in Launch \cup {None} /\ abortMap \in Launch \cup {None}
    BY DEF TypeInv, LaunchOK
  <2> QED BY <1>1, <2>1, PastKept DEF LInv, DeviceOK
<1>3. TimesOK'
  BY <1>1 DEF LInv, TimesOK
<1>4. ASSUME NEW u \in Thread \ {t} PROVE LaunchInv(u)'
  <2>1. /\ pc'[u] = pc[u] /\ op'[u] = op[u] /\ calls'[u] = calls[u] /\ Me(u)' = Me(u)
    BY DEF OwnStep, Me
  <2>2. LaunchInv(u)
    BY DEF LInv
  <2>3. FreshOK(u)' /\ KindOK(u)' /\ ToldOK(u)'
    BY <2>1, <2>2 DEF LaunchInv, FreshOK, KindOK, ToldOK, Free, Begun, IsLaunch
  <2>4. ClaimOK(u)'
    BY <1>1, <2>1, <2>2 DEF LaunchInv, ClaimOK, Free
  <2>5. RowOK(u)'
    BY <1>1, <2>1, <2>2 DEF LaunchInv, RowOK, Status
  <2> QED BY <2>3, <2>4, <2>5 DEF LaunchInv
<1> QED BY <1>2, <1>3, <1>4 DEF LInv

\* A step of t from one place of its call to the next.
LEMMA MovesOwn ==
    ASSUME TypeInv, NEW t \in Thread, NEW place \in PcType \ {"queued"}, NEW o,
           pc' = [pc EXCEPT ![t] = place], op' = [op EXCEPT ![t] = o], calls' = calls
    PROVE  /\ OwnStep(t) /\ calls' \in [Thread -> 0 .. MaxCalls]
           /\ pc'[t] = place /\ op'[t] = o /\ Me(t)' = Me(t)
<1>1. calls[t] \in Nat
  BY OpFacts
<1> QED BY <1>1, OpFacts DEF TypeInv, HostOK, OwnStep, Me

\* A call that is made, and one that is not a launch, keep the invariant.
LEMMA NewCallKept ==
    ASSUME TypeInv, LInv, NEW t \in Thread, pc[t] = "idle", NEW place \in {"idle", "queued"},
           NEW o \in OpType, op' = [op EXCEPT ![t] = o],
           pc' = [pc EXCEPT ![t] = place], UNCHANGED launchVars,
           calls' \in [Thread -> 0 .. MaxCalls], \A u \in Thread \ {t} : calls'[u] = calls[u],
           calls'[t] >= calls[t], place = "queued" => calls'[t] > calls[t],
           ~o.failed /\ ~o.own /\ ~o.dropped /\ o.row = 0 /\ o.code = "hipSuccess",
           o.asserts => o.fn = "hipLaunchKernel" /\ o.kernel \in AbortKernel \cap KernelMap
    PROVE  LInv'
<1>1. pc'[t] = place /\ op'[t] = o /\ OwnStep(t)
  BY OpFacts DEF OwnStep
<1>2. LaunchInv(t)'
  <2>1. FreshOK(t)' /\ KindOK(t)' /\ ToldOK(t)'
    BY <1>1 DEF FreshOK, KindOK, ToldOK, Free, Begun, IsLaunch
  <2>2. ClaimOK(t)' /\ RowOK(t)'
    BY <1>1 DEF ClaimOK, RowOK, Free
  <2> QED BY <2>1, <2>2 DEF LaunchInv
<1> QED BY <1>1, <1>2, QuietKept

LEMMA NotLaunchKept ==
    ASSUME TypeInv, LInv, NEW t \in Thread, NEW o, NEW place \in PcType,
           place \notin {"queued", "printf", "abort"},
           pc' = [pc EXCEPT ![t] = place], op' = [op EXCEPT ![t] = o],
           UNCHANGED <<calls, launchVars>>,
           o.fn # "hipLaunchKernel", ~o.dropped, o.row = 0, ~o.asserts
    PROVE  LInv'
<1>1. /\ pc'[t] = place /\ op'[t] = o /\ OwnStep(t)
      /\ calls' \in [Thread -> 0 .. MaxCalls]
  BY MovesOwn
<1>2. LaunchInv(t)'
  <2>1. FreshOK(t)' /\ KindOK(t)' /\ ToldOK(t)'
    BY <1>1 DEF FreshOK, KindOK, ToldOK, Free, Begun, IsLaunch
  <2>2. ClaimOK(t)' /\ RowOK(t)'
    BY <1>1 DEF ClaimOK, RowOK, Free
  <2> QED BY <2>1, <2>2 DEF LaunchInv
<1> QED BY <1>1, <1>2, QuietKept

LEMMA CountUp ==
    ASSUME TypeInv, NEW t \in Thread, calls[t] < MaxCalls,
           calls' = [calls EXCEPT ![t] = @ + 1]
    PROVE  /\ calls' \in [Thread -> 0 .. MaxCalls]
           /\ calls'[t] > calls[t] /\ calls'[t] >= calls[t]
           /\ \A u \in Thread \ {t} : calls'[u] = calls[u]
<1>1. calls[t] \in Nat /\ calls \in [Thread -> 0 .. MaxCalls]
  BY OpFacts DEF TypeInv, HostOK
<1>2. calls' \in [Thread -> 0 .. MaxCalls]
  BY OneCallMore
<1>3. calls'[t] = calls[t] + 1 /\ \A u \in Thread \ {t} : calls'[u] = calls[u]
  BY <1>1
<1>4. calls'[t] > calls[t] /\ calls'[t] >= calls[t]
  BY ONLY <1>1, <1>3
<1> QED BY <1>2, <1>3, <1>4

LEMMA ReturnAtOnceKept ==
    ASSUME TypeInv, LInv, NEW t \in Thread, NEW code \in Code, pc[t] = "idle",
           calls[t] < MaxCalls, ReturnAtOnce(t, code)
    PROVE  LInv'
<1>1. /\ op' = [op EXCEPT ![t] = NoOp] /\ pc' = [pc EXCEPT ![t] = "idle"]
      /\ calls' = [calls EXCEPT ![t] = @ + 1] /\ UNCHANGED launchVars
  BY OpFacts DEF ReturnAtOnce, TypeInv, CallOK
<1>2. /\ calls' \in [Thread -> 0 .. MaxCalls]
      /\ calls'[t] > calls[t] /\ calls'[t] >= calls[t]
      /\ \A u \in Thread \ {t} : calls'[u] = calls[u]
  BY <1>1, CountUp
<1>3. /\ ~NoOp.failed /\ ~NoOp.own /\ ~NoOp.dropped /\ NoOp.row = 0
      /\ NoOp.code = "hipSuccess" /\ ~NoOp.asserts
  BY DEF NoOp
<1> QED BY <1>1, <1>2, <1>3, NoOpType, NewCallKept

LEMMA ProxyKept ==
    ASSUME TypeInv, LInv, NEW t \in Thread, NEW o \in OpType, pc[t] = "idle",
           calls[t] < MaxCalls, Proxy(t, o),
           ~o.failed /\ ~o.own /\ ~o.dropped /\ o.row = 0 /\ o.code = "hipSuccess",
           o.asserts => o.fn = "hipLaunchKernel" /\ o.kernel \in AbortKernel \cap KernelMap
    PROVE  LInv'
<1>1. /\ op' = [op EXCEPT ![t] = o] /\ pc' = [pc EXCEPT ![t] = "queued"]
      /\ calls' = [calls EXCEPT ![t] = @ + 1] /\ UNCHANGED launchVars
  BY DEF Proxy
<1>2. /\ calls' \in [Thread -> 0 .. MaxCalls]
      /\ calls'[t] > calls[t] /\ calls'[t] >= calls[t]
      /\ \A u \in Thread \ {t} : calls'[u] = calls[u]
  BY <1>1, CountUp
<1> QED BY <1>1, <1>2, NewCallKept

LEMMA HostKept ==
    ASSUME TypeInv, LInv, NEW t \in Thread, HostStep(t)
    PROVE  LInv'
<1> DEFINE Plain(o) == /\ ~o.failed /\ ~o.own /\ ~o.dropped /\ o.row = 0
                       /\ o.code = "hipSuccess"
                       /\ o.asserts => /\ o.fn = "hipLaunchKernel"
                                        /\ o.kernel \in AbortKernel \cap KernelMap
<1>1. ASSUME pc[t] = "idle", calls[t] < MaxCalls,
             \E code \in {"hipSuccess", "hipErrorInvalidValue"} : ReturnAtOnce(t, code)
      PROVE  LInv'
  BY <1>1, ReturnAtOnceKept DEF Code
<1>2. ASSUME pc[t] = "idle", calls[t] < MaxCalls,
             NEW o \in OpType, Plain(o), Proxy(t, o)
      PROVE  LInv'
  BY <1>2, ProxyKept
<1>3. ASSUME HipMalloc(t) PROVE LInv'
  <2>1. ASSUME NEW f \in Fault \ {"throw"},
               Proxy(t, [NoOp EXCEPT !.fn = "hipMalloc", !.fault = f])
        PROVE  LInv'
    <3> DEFINE o == [NoOp EXCEPT !.fn = "hipMalloc", !.fault = f]
    <3>1. o \in OpType
      BY NoOpType, BridgeAssumption DEF OpType, ApiNames
    <3>2. Plain(o)
      BY DEF NoOp
    <3> HIDE DEF o, Plain
    <3>3. pc[t] = "idle" /\ calls[t] < MaxCalls
      BY <1>3 DEF HipMalloc, MayCall
    <3> QED BY <1>2, <2>1, <3>1, <3>2, <3>3 DEF o
  <2> QED BY <1>1, <1>3, <2>1 DEF HipMalloc, MayCall
<1>4. ASSUME HipFree(t) PROVE LInv'
  <2>1. pc[t] = "idle" /\ calls[t] < MaxCalls
    BY <1>4 DEF HipFree, MayCall
  <2>2. ASSUME NEW h \in Pointer("hipFree"),
               Proxy(t, [NoOp EXCEPT !.fn = "hipFree", !.dst = h])
        PROVE  LInv'
    <3> DEFINE o == [NoOp EXCEPT !.fn = "hipFree", !.dst = h]
    <3>1. o \in OpType
      BY NoOpType, PointerType DEF OpType, ApiNames
    <3>2. Plain(o)
      BY DEF NoOp
    <3> HIDE DEF o, Plain
    <3> QED BY <1>2, <2>1, <2>2, <3>1, <3>2 DEF o
  <2> QED BY <1>1, <1>4, <2>1, <2>2 DEF HipFree
<1>5. ASSUME NEW kind \in CopyKinds, NEW d \in Nat, NEW s \in Nat, NEW v \in Val,
             NEW f \in FaultKinds, pc[t] = "idle", calls[t] < MaxCalls,
             Proxy(t, CopyOp(kind, d, s, v, f))
      PROVE  LInv'
  <2>1. CopyOp(kind, d, s, v, f) \in OpType
    BY NoOpType DEF CopyOp, OpType, ApiNames
  <2>2. Plain(CopyOp(kind, d, s, v, f))
    BY DEF NoOp, CopyOp
  <2> HIDE DEF Plain
  <2> QED BY <1>2, <1>5, <2>1, <2>2
<1>6. ASSUME HipMemcpy(t) PROVE LInv'
  <2>1. pc[t] = "idle" /\ calls[t] < MaxCalls
    BY <1>6 DEF HipMemcpy, MayCall
  <2>2. CASE ReturnAtOnce(t, "hipSuccess") \/ ReturnAtOnce(t, "hipErrorInvalidValue")
    BY <1>1, <2>1, <2>2
  <2>3. CASE Proxy(t, CopyOp("Default", 0, 0, Zero, "none"))
    BY <1>5, <2>1, <2>3, BridgeAssumption DEF CopyKinds, FaultKinds
  <2>4. ASSUME NEW f \in Fault \ {OutOfMemory}, NEW p \in Pointer("hipMemcpy"),
               \/ \E v \in Val : Proxy(t, CopyOp("HostToDevice", p, 0, v, f))
               \/ Proxy(t, CopyOp("DeviceToHost", 0, p, Zero, f))
               \/ \E q \in Pointer("hipMemcpy") :
                    Proxy(t, CopyOp("DeviceToDevice", p, q, Zero, f))
        PROVE  LInv'
    <3>1. f \in FaultKinds /\ Zero \in Val
      BY BridgeAssumption
    <3>2. PICK kind \in CopyKinds, d \in Nat, s \in Nat, v \in Val :
             Proxy(t, CopyOp(kind, d, s, v, f))
      BY <2>4, PointerType, BridgeAssumption DEF CopyKinds
    <3> QED BY <1>5, <2>1, <3>1, <3>2
  <2> QED BY <1>6, <2>2, <2>3, <2>4 DEF HipMemcpy
<1>7. ASSUME HipMemcpyToSymbol(t) PROVE LInv'
  <2>1. pc[t] = "idle" /\ calls[t] < MaxCalls
    BY <1>7 DEF HipMemcpyToSymbol, MayCall
  <2>2. ASSUME NEW h \in 1 .. NVars, NEW v \in Val, NEW f \in Fault \ {OutOfMemory},
               Proxy(t, CopyOp("HostToDevice", h, 0, v, f))
        PROVE  LInv'
    <3>1. h \in Nat /\ f \in FaultKinds /\ "HostToDevice" \in CopyKinds
      BY BridgeAssumption DEF CopyKinds
    <3> QED BY <1>5, <2>1, <2>2, <3>1
  <2>3. ASSUME calls' = [calls EXCEPT ![t] = @ + 1],
               op' = [op EXCEPT ![t] = [NoOp EXCEPT !.fn = "unknown symbol"]],
               UNCHANGED <<pc, launchVars>>
        PROVE  LInv'
    <3> DEFINE o == [NoOp EXCEPT !.fn = "unknown symbol"]
    <3>1. o \in OpType
      BY NoOpType DEF OpType
    <3>2. Plain(o)
      BY DEF NoOp
    <3>3. pc' = [pc EXCEPT ![t] = "idle"]
      BY <2>1, <2>3, OpFacts DEF TypeInv, CallOK
    <3>4. /\ calls' \in [Thread -> 0 .. MaxCalls]
          /\ calls'[t] > calls[t] /\ calls'[t] >= calls[t]
          /\ \A u \in Thread \ {t} : calls'[u] = calls[u]
      BY <2>1, <2>3, CountUp
    <3> HIDE DEF o
    <3> QED BY <2>1, <2>3, <3>1, <3>2, <3>3, <3>4, NewCallKept DEF o
  <2>4. CASE ReturnAtOnce(t, "hipSuccess") \/ ReturnAtOnce(t, "hipErrorInvalidValue")
    BY <1>1, <2>1, <2>4
  <2>5. CASE Proxy(t, CopyOp("Default", 0, 0, Zero, "none"))
    <3>1. Zero \in Val /\ "none" \in FaultKinds /\ "Default" \in CopyKinds
      BY BridgeAssumption DEF FaultKinds, CopyKinds
    <3> QED BY <1>5, <2>1, <2>5, <3>1
  <2> QED BY <1>7, <2>2, <2>3, <2>4, <2>5 DEF HipMemcpyToSymbol
<1>8. ASSUME HipLaunchKernel(t) PROVE LInv'
  <2>1. pc[t] = "idle" /\ calls[t] < MaxCalls
    BY <1>8 DEF HipLaunchKernel, MayCall
  <2>2. PICK k \in Kernel, p \in Pointer("hipLaunchKernel"), v \in Val,
             f \in Fault \ {OutOfMemory}, a \in BOOLEAN :
           /\ a => k \in AbortKernel \cap KernelMap
           /\ Proxy(t, [NoOp EXCEPT !.fn = "hipLaunchKernel", !.kernel = k,
                                    !.dst = p, !.val = v, !.fault = f,
                                    !.asserts = a])
    BY <1>8 DEF HipLaunchKernel
  <2> DEFINE o == [NoOp EXCEPT !.fn = "hipLaunchKernel", !.kernel = k, !.dst = p,
                               !.val = v, !.fault = f, !.asserts = a]
  <2>3. o \in OpType
    BY NoOpType, PointerType, BridgeAssumption DEF OpType, ApiNames
  <2>4. Plain(o)
    BY <2>2 DEF NoOp
  <2> HIDE DEF o, Plain
  <2> QED BY <1>2, <2>1, <2>2, <2>3, <2>4 DEF o
<1>9. ASSUME HipGetLastError(t) PROVE LInv'
  <2>1. /\ pc[t] = "idle" /\ op' = [op EXCEPT ![t] = NoOp] /\ UNCHANGED <<pc, calls, launchVars>>
    BY <1>9 DEF HipGetLastError
  <2>2. pc' = [pc EXCEPT ![t] = "idle"] /\ calls' \in [Thread -> 0 .. MaxCalls]
    BY <2>1 DEF TypeInv, CallOK, HostOK
  <2>3. Plain(NoOp)
    BY DEF NoOp
  <2>4. calls'[t] >= calls[t] /\ \A u \in Thread \ {t} : calls'[u] = calls[u]
    BY <2>1, OpFacts
  <2> QED BY <2>1, <2>2, <2>3, <2>4, NoOpType, NewCallKept
<1> QED BY <1>3, <1>4, <1>6, <1>7, <1>8, <1>9 DEF HostStep

\* What the common ends of the starts make of the record of a call.
LEMMA RanOp ==
    ASSUME TypeInv, NEW t \in Thread, NEW o \in OpType, NEW invalid \in BOOLEAN,
           NEW next, Ran(t, o, invalid, next)
    PROVE  /\ pc' = [pc EXCEPT ![t] = next]
           /\ op' = [op EXCEPT ![t] = [o EXCEPT !.own = invalid]]
           /\ [o EXCEPT !.own = invalid] \in OpType
<1>1. [o EXCEPT !.own = invalid] \in OpType
  BY DEF OpType
<1> QED BY <1>1 DEF Ran

LEMMA ThrownOp ==
    ASSUME TypeInv, NEW t \in Thread, Thrown(t)
    PROVE  /\ pc' = [pc EXCEPT ![t] = "settled"]
           /\ op' = [op EXCEPT ![t] = [op[t] EXCEPT !.failed = TRUE, !.own = TRUE]]
<1> QED BY OpFacts DEF Thrown

\* What is known of a call that the main thread starts.
LEMMA StartFacts ==
    ASSUME TypeInv, LInv, NEW t \in Thread, NEW fn, Starts(t, fn)
    PROVE  /\ pc[t] = "queued" /\ op[t].fn = fn /\ op[t] \in OpType
           /\ ~op[t].failed /\ ~op[t].own /\ ~op[t].dropped
           /\ op[t].row = 0 /\ op[t].code = "hipSuccess"
           /\ op[t].asserts =>
                 fn = "hipLaunchKernel" /\ op[t].kernel \in AbortKernel \cap KernelMap
  BY OpFacts DEF LInv, LaunchInv, FreshOK, KindOK, Starts, IsLaunch

LEMMA StartMallocKept ==
    ASSUME TypeInv, LInv, NEW t \in Thread, StartMalloc(t)
    PROVE  LInv'
<1> DEFINE o == [op[t] EXCEPT !.dst = nextHandle, !.own = op[t].fault # "none"]
<1>1. Starts(t, "hipMalloc") /\ pc' = [pc EXCEPT ![t] = "malloc"]
      /\ UNCHANGED <<calls, launchVars>>
  BY DEF StartMalloc, hostVars
<1>2. op' = [op EXCEPT ![t] = o]
  BY OpFacts DEF StartMalloc
<1>3. o.fn = "hipMalloc" /\ ~o.dropped /\ o.row = 0 /\ ~o.asserts
  <2>1. /\ op[t] \in OpType /\ op[t].fn = "hipMalloc"
        /\ ~op[t].dropped /\ op[t].row = 0 /\ ~op[t].asserts
    BY <1>1, StartFacts
  <2> QED BY <2>1 DEF OpType
<1> HIDE DEF o
<1> QED BY <1>1, <1>2, <1>3, NotLaunchKept DEF PcType

LEMMA StartFreeKept ==
    ASSUME TypeInv, LInv, NEW t \in Thread, StartFree(t)
    PROVE  LInv'
<1>1. Starts(t, "hipFree") /\ UNCHANGED <<calls, launchVars>>
      /\ \E place \in {"popped", "hung"} : pc' = [pc EXCEPT ![t] = place]
  BY DEF StartFree, hostVars
<1>2. op' = [op EXCEPT ![t] = op[t]]
  BY OpFacts DEF StartFree, TypeInv, CallOK
<1>3. op[t].fn = "hipFree" /\ ~op[t].dropped /\ op[t].row = 0 /\ ~op[t].asserts
  BY <1>1, StartFacts
<1> QED BY <1>1, <1>2, <1>3, NotLaunchKept DEF PcType

\* The ways hipMemcpy goes on from its start.
LEMMA MemcpyRuns ==
    ASSUME TypeInv, NEW t \in Thread, StartMemcpy(t)
    PROVE  \/ Thrown(t)
           \/ /\ UNCHANGED launchVars
              /\ \E invalid \in BOOLEAN : Ran(t, op[t], invalid, "settled")
           \/ /\ UNCHANGED launchVars
              /\ \E invalid \in BOOLEAN, d \in Val : Ran(t, [op[t] EXCEPT !.data = d], invalid, "copy")
           \/ /\ UNCHANGED launchVars
              /\ Ran(t, [op[t] EXCEPT !.code = "hipErrorInvalidValue"], FALSE, "settled")
<1>1. CASE op[t].kind = "HostToDevice"
  BY <1>1 DEF StartMemcpy
<1>2. CASE op[t].kind = "DeviceToHost"
  <2>1. CASE Throws(t, {op[t].src})
    BY <1>2, <2>1 DEF StartMemcpy
  <2>2. CASE ~Throws(t, {op[t].src})
    <3> DEFINE d == IF op[t].fault = Validation THEN Zero ELSE mem[op[t].src]
    <3>1. d \in Val
      <4>1. op[t].src \in Handle
        BY <2>2, LiveType
      <4> QED BY <4>1, BridgeAssumption DEF TypeInv, MemOK
    <3>2. Ran(t, [op[t] EXCEPT !.data = d], op[t].fault = Validation, "copy")
          /\ UNCHANGED launchVars
      BY <1>2, <2>2 DEF StartMemcpy
    <3>3. (op[t].fault = Validation) \in BOOLEAN
      OBVIOUS
    <3> HIDE DEF d
    <3> QED BY <3>1, <3>2, <3>3
  <2> QED BY <2>1, <2>2
<1>3. CASE op[t].kind = "DeviceToDevice"
  BY <1>3 DEF StartMemcpy
<1>4. CASE op[t].kind = "Default"
  BY <1>4 DEF StartMemcpy
<1> QED BY <1>1, <1>2, <1>3, <1>4 DEF StartMemcpy

LEMMA StartMemcpyKept ==
    ASSUME TypeInv, LInv, NEW t \in Thread, StartMemcpy(t)
    PROVE  LInv'
<1>1. Starts(t, "hipMemcpy") /\ UNCHANGED calls
  BY DEF StartMemcpy, hostVars
<1>2. op[t].fn = "hipMemcpy" /\ ~op[t].dropped /\ op[t].row = 0 /\ ~op[t].asserts
      /\ op[t] \in OpType
  BY <1>1, StartFacts
<1>3. ASSUME Thrown(t) PROVE LInv'
  <2> DEFINE o == [op[t] EXCEPT !.failed = TRUE, !.own = TRUE]
  <2>1. o.fn = "hipMemcpy" /\ ~o.dropped /\ o.row = 0 /\ ~o.asserts
    BY <1>2 DEF OpType
  <2>2. op' = [op EXCEPT ![t] = o] /\ pc' = [pc EXCEPT ![t] = "settled"]
        /\ UNCHANGED launchVars
    BY <1>3, ThrownOp DEF Thrown
  <2> HIDE DEF o
  <2> QED BY <1>1, <2>1, <2>2, NotLaunchKept DEF PcType
<1>4. ASSUME NEW o, NEW invalid \in BOOLEAN, NEW next \in {"copy", "settled"},
             o \in OpType, o.fn = "hipMemcpy" /\ ~o.dropped /\ o.row = 0 /\ ~o.asserts,
             Ran(t, o, invalid, next), UNCHANGED launchVars
      PROVE  LInv'
  <2> DEFINE p == [o EXCEPT !.own = invalid]
  <2>1. p.fn = "hipMemcpy" /\ ~p.dropped /\ p.row = 0 /\ ~p.asserts
    BY <1>4 DEF OpType
  <2>2. op' = [op EXCEPT ![t] = p]
    BY <1>4 DEF Ran
  <2>3. pc' = [pc EXCEPT ![t] = next]
    BY <1>4 DEF Ran
  <2> HIDE DEF p
  <2> QED BY <1>1, <1>4, <2>1, <2>2, <2>3, NotLaunchKept DEF PcType
<1>5. \/ Thrown(t)
      \/ /\ UNCHANGED launchVars
         /\ \E invalid \in BOOLEAN : Ran(t, op[t], invalid, "settled")
      \/ /\ UNCHANGED launchVars
         /\ \E invalid \in BOOLEAN, d \in Val : Ran(t, [op[t] EXCEPT !.data = d], invalid, "copy")
      \/ /\ UNCHANGED launchVars
         /\ Ran(t, [op[t] EXCEPT !.code = "hipErrorInvalidValue"], FALSE, "settled")
  BY MemcpyRuns
<1>6. ASSUME NEW d \in Val
      PROVE  LET o == [op[t] EXCEPT !.data = d] IN
             o \in OpType /\ o.fn = "hipMemcpy" /\ ~o.dropped /\ o.row = 0 /\ ~o.asserts
  BY <1>2 DEF OpType
<1>7. LET o == [op[t] EXCEPT !.code = "hipErrorInvalidValue"] IN
      o \in OpType /\ o.fn = "hipMemcpy" /\ ~o.dropped /\ o.row = 0 /\ ~o.asserts
  BY <1>2 DEF OpType, Code
<1> QED BY <1>2, <1>3, <1>4, <1>5, <1>6, <1>7

\* The steps that only move a call on, and the first callback of hipMalloc.
LEMMA MovedKept ==
    ASSUME TypeInv, LInv, NEW t \in Thread, NEW from \in {"malloc", "copy", "settled", "finished"},
           NEW place \in {"settled", "popped", "idle"}, pc[t] = from,
           place = "idle" <=> from = "finished",
           pc' = [pc EXCEPT ![t] = place], UNCHANGED <<calls, launchVars>>,
           \/ op' = op
           \/ from = "malloc" /\ \E b \in BOOLEAN : op' = [op EXCEPT ![t].failed = b]
    PROVE  LInv'
<1>1. PICK o \in OpType : /\ op' = [op EXCEPT ![t] = o]
                          /\ \/ o = op[t]
                             \/ /\ from = "malloc"
                                /\ \E b \in BOOLEAN : o = [op[t] EXCEPT !.failed = b]
  <2>1. CASE op' = op
    <3>1. op' = [op EXCEPT ![t] = op[t]]
      BY <2>1 DEF TypeInv, CallOK
    <3>2. op[t] \in OpType
      BY OpFacts
    <3> QED BY <3>1, <3>2
  <2>2. ASSUME from = "malloc", NEW b \in BOOLEAN, op' = [op EXCEPT ![t].failed = b]
        PROVE  \E o \in OpType : /\ op' = [op EXCEPT ![t] = o]
                                 /\ from = "malloc" /\ o = [op[t] EXCEPT !.failed = b]
    <3>1. [op[t] EXCEPT !.failed = b] \in OpType
      <4>1. op[t] \in OpType
        BY OpFacts
      <4> QED BY <4>1 DEF OpType
    <3> QED BY <2>2, <3>1
  <2> QED BY <2>1, <2>2
<1>2. /\ o.fn = op[t].fn /\ o.kernel = op[t].kernel /\ o.asserts = op[t].asserts
      /\ o.dropped = op[t].dropped /\ o.own = op[t].own /\ o.row = op[t].row
      /\ o.code = op[t].code
      /\ from # "malloc" => o.failed = op[t].failed
  BY <1>1, OpFacts DEF OpType
<1>3. /\ OwnStep(t) /\ calls' \in [Thread -> 0 .. MaxCalls]
      /\ pc'[t] = place /\ op'[t] = o /\ Me(t)' = Me(t) /\ kernelsRan' = kernelsRan
  BY <1>1, MovesOwn DEF PcType, launchVars
<1>4. LaunchInv(t)
  BY DEF LInv
<1>5. KindOK(t)' /\ FreshOK(t)'
  BY <1>2, <1>3, <1>4 DEF LaunchInv, KindOK, FreshOK, IsLaunch, Free
<1>6. ClaimOK(t)'
  BY <1>3 DEF ClaimOK, Free
<1>7. RowOK(t)'
  BY <1>2, <1>3, <1>4 DEF LaunchInv, RowOK, Status
<1>8. ToldOK(t)'
  BY <1>2, <1>3, <1>4 DEF LaunchInv, KindOK, ToldOK, IsLaunch, Free, Begun
<1> QED BY <1>3, <1>5, <1>6, <1>7, <1>8, QuietKept DEF LaunchInv

\* Setting the status of a row changes that and no other row.
LEMMA StatusFacts ==
    ASSUME TypeInv, NEW row \in 1 .. Len(kernelsRan), NEW status,
           kernelsRan' = [kernelsRan EXCEPT ![row].status = status]
    PROVE  /\ Len(kernelsRan') = Len(kernelsRan)
           /\ \A i \in 1 .. Len(kernelsRan) :
                 /\ kernelsRan'[i].launch = kernelsRan[i].launch
                 /\ i # row => kernelsRan'[i] = kernelsRan[i]
           /\ kernelsRan'[row] = [launch |-> kernelsRan[row].launch, status |-> status]
<1>1. kernelsRan \in Seq(Row) /\ Len(kernelsRan) \in Nat
      /\ DOMAIN kernelsRan = 1 .. Len(kernelsRan)
  <2>1. kernelsRan \in Seq(Row)
    BY DEF TypeInv, LaunchOK, Row
  <2> HIDE DEF Row
  <2> QED BY <2>1
<1>2. \A i \in 1 .. Len(kernelsRan) : kernelsRan[i] \in Row
  <2> HIDE DEF Row
  <2> QED BY <1>1
<1>3. Len(kernelsRan') = Len(kernelsRan)
  <2>1. DOMAIN kernelsRan' = 1 .. Len(kernelsRan)
    BY <1>1
  <2>2. kernelsRan' = [i \in 1 .. Len(kernelsRan) |-> kernelsRan'[i]]
    BY <2>1
  <2> QED BY <1>1, <2>1, <2>2
<1>4. kernelsRan'[row] = [kernelsRan[row] EXCEPT !.status = status]
  BY <1>1
<1>5. \A i \in 1 .. Len(kernelsRan) : i # row => kernelsRan'[i] = kernelsRan[i]
  BY <1>1
<1>6. kernelsRan[row] \in Row
  BY <1>2
<1>7. kernelsRan'[row] = [launch |-> kernelsRan[row].launch, status |-> status]
  BY <1>4, <1>6 DEF Row
<1>8. \A i \in 1 .. Len(kernelsRan) : kernelsRan'[i].launch = kernelsRan[i].launch
  BY <1>5, <1>7
<1> QED BY <1>3, <1>5, <1>7, <1>8

\* A step that touches the launch of t.
LEMMA LaunchStepKept ==
    ASSUME TypeInv, LInv, NEW t \in Thread, pc[t] # "idle", OwnStep(t), RowsStay(t),
           Takes(t, printfMap, printfStage), Takes(t, abortMap, abortStage),
           LaunchInv(t)', DeviceOK', TimesOK'
    PROVE  LInv'
<1>1. ASSUME NEW u \in Thread PROVE LaunchInv(u)'
  BY OthersKept
<1> QED BY <1>1 DEF LInv

\* The device between launches, when at most the buffers change hands.
LEMMA DeviceKept ==
    ASSUME TypeInv, LInv, NEW t \in Thread, OwnStep(t), calls' = calls,
           pc[t] # "idle", pc'[t] # "queued", printfBuf' = <<>>, abortFlag' = FALSE,
           printfMap' \in {printfMap, Me(t), None}, abortMap' \in {abortMap, Me(t), None}
    PROVE  DeviceOK'
<1>1. calls' \in [Thread -> 0 .. MaxCalls] /\ calls[t] \in Nat
  BY OpFacts DEF TypeInv, HostOK
<1>2. Past(Me(t))'
  BY <1>1 DEF Past, Me
<1>3. Me(t)' = Me(t)
  BY DEF Me
<1>4. Past(Me(t)') = Past(Me(t))
  BY <1>3
<1>5. ASSUME NEW l \in Launch, Past(l) PROVE Past(l)'
  BY <1>1, <1>5, PastKept
<1>6. calls[t] <= calls'[t] /\ (pc'[t] = "queued" => calls[t] < calls'[t])
  BY <1>1
<1>7. printfMap \in Launch \cup {None} /\ abortMap \in Launch \cup {None}
  BY DEF TypeInv, LaunchOK
<1>8. ASSUME NEW m, NEW n, m \in Launch \cup {None}, n \in {m, Me(t), None}, n # None,
             m # None => Past(m)
      PROVE  n[2] <= calls'[n[1]] /\ (pc'[n[1]] = "queued" => n[2] < calls'[n[1]])
  <2>1. CASE n = m
    BY <1>5, <1>8, <2>1 DEF Past
  <2>2. CASE n = Me(t)
    <3>1. n[1] = t /\ n[2] = calls[t]
      BY <2>2 DEF Me
    <3> QED BY <1>6, <3>1
  <2> QED BY <1>8, <2>1, <2>2
<1>9. printfMap' # None => Past(printfMap)'
  BY <1>7, <1>8 DEF LInv, DeviceOK, Past
<1>10. abortMap' # None => Past(abortMap)'
  BY <1>7, <1>8 DEF LInv, DeviceOK, Past
<1> QED BY <1>9, <1>10 DEF DeviceOK

LEMMA TimesKept ==
    ASSUME TypeInv, LInv, NEW t \in Thread, RowsStay(t), timestamps' = timestamps
    PROVE  TimesOK'
<1> SUFFICES ASSUME NEW i \in 0 .. (Slots - 1), timestamps[i] # None
             PROVE  i < Len(kernelsRan') /\ kernelsRan'[i + 1].launch = timestamps[i]
  BY DEF TimesOK
<1>1. i < Len(kernelsRan) /\ kernelsRan[i + 1].launch = timestamps[i]
  BY DEF LInv, TimesOK
<1>2. Len(kernelsRan) \in Nat /\ i \in Nat /\ Len(kernelsRan') >= Len(kernelsRan)
  BY OpFacts, BridgeAssumption DEF RowsStay
<1>3. i + 1 \in 1 .. Len(kernelsRan)
  BY <1>1, <1>2
<1>4. i < Len(kernelsRan')
  BY <1>1, <1>2
<1> QED BY <1>1, <1>3, <1>4 DEF RowsStay

\* The rows when nothing happens to them, and when that of t is marked.
LEMMA RowsSame == ASSUME NEW t, kernelsRan' = kernelsRan, TypeInv, Thread # {} PROVE RowsStay(t)
<1>1. PICK u : u \in Thread
  OBVIOUS
<1>2. Len(kernelsRan) \in Nat
  BY <1>1, OpFacts
<1> QED BY <1>2 DEF RowsStay

LEMMA RowMarked ==
    ASSUME TypeInv, LInv, NEW t \in Thread, pc[t] # "idle", op[t].row > 0, NEW status,
           kernelsRan' = [kernelsRan EXCEPT ![op[t].row].status = status]
    PROVE  /\ RowsStay(t) /\ op[t].row \in 1 .. Len(kernelsRan) /\ Len(kernelsRan') = Len(kernelsRan)
           /\ kernelsRan'[op[t].row] = [launch |-> Me(t), status |-> status]
<1>1. /\ op[t].row \in 1 .. Len(kernelsRan)
      /\ kernelsRan[op[t].row] = [launch |-> Me(t), status |-> Status(t)]
  BY OpFacts DEF LInv, LaunchInv, RowOK
<1>2. /\ Len(kernelsRan') = Len(kernelsRan) /\ Len(kernelsRan) \in Nat
      /\ \A i \in 1 .. Len(kernelsRan) :
            /\ kernelsRan'[i].launch = kernelsRan[i].launch
            /\ i # op[t].row => kernelsRan'[i] = kernelsRan[i]
      /\ kernelsRan'[op[t].row] = [launch |-> kernelsRan[op[t].row].launch, status |-> status]
  BY <1>1, StatusFacts, OpFacts
<1>3. kernelsRan[op[t].row].launch = Me(t)
  BY <1>1
<1>4. RowsStay(t)
  BY <1>2, <1>3 DEF RowsStay
<1> QED BY <1>1, <1>2, <1>3, <1>4

LEMMA FinishKept ==
    ASSUME TypeInv, LInv, NEW t \in Thread, Finish(t)
    PROVE  LInv'
<1> DEFINE failed == op[t].failed \/ popped[t]
           o == [op[t] EXCEPT !.failed = failed]
<1>1. /\ pc[t] = "popped" /\ pc' = [pc EXCEPT ![t] = "finished"] /\ calls' = calls
      /\ kernelsRan' = Reported(op[t].row, failed)
      /\ UNCHANGED <<stageVars, hostPrintf, timestamps>>
  BY DEF Finish, hostVars
<1>2. op' = [op EXCEPT ![t] = o]
  BY OpFacts DEF Finish
<1>3. failed \in BOOLEAN
  BY OpFacts DEF TypeInv, CallOK
<1>4. /\ o.fn = op[t].fn /\ o.kernel = op[t].kernel /\ o.asserts = op[t].asserts
      /\ o.dropped = op[t].dropped /\ o.own = op[t].own /\ o.row = op[t].row
      /\ o.code = op[t].code /\ o.failed = failed
  BY OpFacts DEF OpType
<1> HIDE DEF o
<1>5. /\ OwnStep(t) /\ calls' \in [Thread -> 0 .. MaxCalls]
      /\ pc'[t] = "finished" /\ op'[t] = o /\ Me(t)' = Me(t)
  BY <1>1, <1>2, MovesOwn DEF PcType
<1>6. LaunchInv(t)
  BY DEF LInv
<1>7. /\ RowsStay(t)
      /\ op[t].row > 0 =>
             /\ op[t].row <= Len(kernelsRan')
             /\ kernelsRan'[op[t].row] =
                   [launch |-> Me(t), status |-> IF failed THEN "error" ELSE Status(t)]
  <2>1. CASE failed /\ op[t].row > 0
    <3>1. kernelsRan' = [kernelsRan EXCEPT ![op[t].row].status = "error"]
      BY <1>1, <2>1 DEF Reported
    <3>2. /\ RowsStay(t) /\ op[t].row \in 1 .. Len(kernelsRan)
          /\ Len(kernelsRan') = Len(kernelsRan)
          /\ kernelsRan'[op[t].row] = [launch |-> Me(t), status |-> "error"]
      BY <1>1, <2>1, <3>1, RowMarked
    <3> QED BY <2>1, <3>2
  <2>2. CASE ~(failed /\ op[t].row > 0)
    <3>1. kernelsRan' = kernelsRan
      BY <1>1, <2>2 DEF Reported
    <3>2. RowsStay(t)
      BY <3>1, RowsSame
    <3> QED BY <1>1, <1>6, <2>2, <3>1, <3>2 DEF LaunchInv, RowOK
  <2> QED BY <2>1, <2>2
<1> HIDE DEF failed
<1>8. /\ printfMap' = printfMap /\ abortMap' = abortMap /\ printfBuf' = printfBuf
      /\ abortFlag' = abortFlag /\ printfStage' = printfStage /\ abortStage' = abortStage
      /\ timestamps' = timestamps
  BY <1>1 DEF stageVars
<1>9. Takes(t, printfMap, printfStage) /\ Takes(t, abortMap, abortStage)
  BY <1>8 DEF Takes
<1>10. DeviceOK'
  BY <1>1, <1>5, <1>8, DeviceKept DEF LInv, DeviceOK
<1>11. TimesOK'
  BY <1>7, <1>8, TimesKept
<1>12. KindOK(t)' /\ FreshOK(t)' /\ ClaimOK(t)'
  BY <1>4, <1>5, <1>6 DEF LaunchInv, KindOK, FreshOK, ClaimOK, IsLaunch, Free
<1>13. RowOK(t)'
  BY <1>1, <1>4, <1>5, <1>6, <1>7 DEF LaunchInv, RowOK, Status
<1>14. ToldOK(t)'
  <2>1. ~failed => ~op[t].failed
    BY DEF failed
  <2> QED BY <1>1, <1>4, <1>5, <1>6, <2>1 DEF LaunchInv, ToldOK, IsLaunch, Free, Begun
<1> QED BY <1>1, <1>5, <1>7, <1>9, <1>10, <1>11, <1>12, <1>13, <1>14, LaunchStepKept DEF LaunchInv

LEMMA SubmitKept ==
    ASSUME TypeInv, TypeInv', LInv, NEW t \in Thread, Starts(t, "hipLaunchKernel"), op[t].kernel \in KernelMap,
           Submit(t), calls' = calls
    PROVE  LInv'
<1> DEFINE k == op[t].kernel
           dropped == Dropped(op[t])
           unmappable == \/ Prints(k) /\ printfMap # None
                         \/ Asserts(k) /\ abortMap # None
           stage == IF Prints(k) THEN "printf"
                    ELSE IF Asserts(k) THEN "abort" ELSE "settled"
           ran == [op[t] EXCEPT !.row = Len(kernelsRan) + 1, !.dropped = dropped]
           o == [ran EXCEPT !.own = dropped \/ unmappable]
<1>1. /\ pc[t] = "queued" /\ op[t].fn = "hipLaunchKernel" /\ op[t] \in OpType
      /\ ~op[t].failed /\ op[t].code = "hipSuccess"
      /\ op[t].asserts => Asserts(k)
      /\ op[t].asserts => k \in AbortKernel \cap KernelMap
  BY StartFacts DEF Asserts
<1>2. /\ Len(kernelsRan) \in Nat /\ kernelsRan \in Seq(Row) /\ Me(t) \in Launch
      /\ Me(t) # None
  BY <1>1, OpFacts, MeFacts
<1>3. Ran(t, ran, dropped \/ unmappable, stage)
  BY DEF Submit
<1>4. pc' = [pc EXCEPT ![t] = stage] /\ op' = [op EXCEPT ![t] = o] /\ stage \in PcType \ {"queued"}
  BY <1>3 DEF Ran, PcType
<1>5. /\ OwnStep(t) /\ pc'[t] = stage /\ op'[t] = o /\ Me(t)' = Me(t)
  BY <1>4, MovesOwn
<1>6. dropped \in BOOLEAN /\ unmappable \in BOOLEAN
  BY DEF Dropped
<1>7. /\ o.fn = "hipLaunchKernel" /\ o.kernel = k /\ o.asserts = op[t].asserts
      /\ o.failed = FALSE /\ o.code = "hipSuccess"
      /\ o.row = Len(kernelsRan) + 1 /\ o.dropped = dropped /\ o.own = (dropped \/ unmappable)
  <2> HIDE DEF dropped, unmappable, k
  <2> QED BY <1>1, <1>6 DEF OpType, k
<1>8. /\ kernelsRan' = Append(kernelsRan, [launch |-> Me(t), status |-> "none"])
      /\ timestamps' = IF dropped \/ Len(kernelsRan) >= Slots THEN timestamps
                       ELSE [timestamps EXCEPT ![Len(kernelsRan)] = Me(t)]
      /\ printfMap' = IF Prints(k) /\ printfMap = None THEN Me(t) ELSE printfMap
      /\ abortMap' = IF Asserts(k) /\ abortMap = None THEN Me(t) ELSE abortMap
  BY DEF Submit, Slot
<1>9. printfBuf = <<>> /\ abortFlag = FALSE
  BY DEF LInv, DeviceOK
<1>10. /\ printfBuf' = <<>>
       /\ printfStage' = IF ~dropped /\ Prints(k) THEN <<Me(t)>> ELSE printfStage
  <2>1. Append(printfBuf, Me(t)) = <<Me(t)>>
    BY <1>9
  <2>2. CASE dropped
    BY <1>9, <2>2 DEF Submit
  <2>3. CASE ~dropped
    BY <1>9, <2>1, <2>3 DEF Submit, PrintfLeft
  <2> QED BY <2>2, <2>3
<1>11. /\ abortFlag' = FALSE
       /\ abortStage' = IF ~dropped /\ Asserts(k) THEN op[t].asserts ELSE abortStage
  <2>1. (abortFlag \/ op[t].asserts) = op[t].asserts
    BY <1>1, <1>9 DEF OpType
  <2>2. CASE dropped
    BY <1>9, <2>2 DEF Submit
  <2>3. CASE ~dropped
    BY <1>1, <1>9, <2>1, <2>3 DEF Submit, AbortLeft
  <2> QED BY <2>2, <2>3
<1>12. /\ Prints(k) /\ printfMap # None => dropped /\ unmappable
       /\ Asserts(k) /\ abortMap # None => dropped /\ unmappable
  BY DEF Dropped
<1> HIDE DEF ran, o, dropped, unmappable
<1>13. /\ Len(kernelsRan') = Len(kernelsRan) + 1
       /\ \A i \in 1 .. Len(kernelsRan) : kernelsRan'[i] = kernelsRan[i]
       /\ kernelsRan'[Len(kernelsRan) + 1] = [launch |-> Me(t), status |-> "none"]
  <2>1. [launch |-> Me(t), status |-> "none"] \in Row
    BY <1>2 DEF Row
  <2> HIDE DEF Row
  <2> QED BY <1>2, <1>8, <2>1
<1>14. RowsStay(t)
  BY <1>2, <1>13 DEF RowsStay
<1>15. Takes(t, printfMap, printfStage) /\ Takes(t, abortMap, abortStage)
  BY <1>8, <1>10, <1>11, <1>12 DEF Takes
<1>16. DeviceOK'
  BY <1>1, <1>4, <1>5, <1>8, <1>10, <1>11, DeviceKept
<1>17. TimesOK'
  <2> SUFFICES ASSUME NEW i \in 0 .. (Slots - 1), timestamps'[i] # None
               PROVE  i < Len(kernelsRan') /\ kernelsRan'[i + 1].launch = timestamps'[i]
    BY DEF TimesOK
  <2>1. timestamps \in [0 .. (Slots - 1) -> Launch \cup {None}]
    BY DEF TypeInv, LaunchOK
  <2>2. i \in Nat
    BY BridgeAssumption
  <2>3. CASE timestamps'[i] = timestamps[i]
    <3>1. i < Len(kernelsRan) /\ kernelsRan[i + 1].launch = timestamps[i]
      BY <2>3 DEF LInv, TimesOK
    <3>2. i + 1 \in 1 .. Len(kernelsRan)
      BY <1>2, <2>2, <3>1
    <3> QED BY <1>2, <1>13, <2>2, <2>3, <3>1, <3>2
  <2>4. CASE i = Len(kernelsRan) /\ timestamps'[i] = Me(t)
    BY <1>2, <1>13, <2>4
  <2> QED BY <1>8, <2>1, <2>3, <2>4
<1>18. KindOK(t)' /\ FreshOK(t)'
  BY <1>1, <1>2, <1>5, <1>6, <1>7 DEF KindOK, FreshOK, IsLaunch, Free
<1>19. ClaimOK(t)'
  BY <1>2, <1>5, <1>6, <1>7, <1>8, <1>10, <1>11, <1>12 DEF ClaimOK, Free
<1>20. RowOK(t)'
  <2>1. Status(t)' = "none"
    BY <1>5, <1>7 DEF Status
  <2>2. Len(kernelsRan) + 1 <= Len(kernelsRan')
    BY <1>2, <1>13
  <2> QED BY <1>5, <1>7, <1>13, <2>1, <2>2 DEF RowOK
<1>21. ToldOK(t)'
  <2> SUFFICES ASSUME Free(t)' PROVE ToldOK(t)'
    BY DEF ToldOK
  <2>1. stage = "settled"
    BY <1>5 DEF Free
  <2>2. ~Asserts(k)
    BY <2>1
  <2>3. op[t].asserts = FALSE
    BY <1>1, <2>2, OpFacts
  <2> QED BY <1>5, <1>7, <2>3 DEF ToldOK
<1> QED BY <1>1, <1>5, <1>14, <1>15, <1>16, <1>17, <1>18, <1>19, <1>20, <1>21, LaunchStepKept
        DEF LaunchInv

LEMMA StartLaunchKept ==
    ASSUME TypeInv, TypeInv', LInv, NEW t \in Thread, StartLaunch(t)
    PROVE  LInv'
<1>1. Starts(t, "hipLaunchKernel") /\ calls' = calls
  BY DEF StartLaunch, hostVars
<1>2. /\ pc[t] = "queued" /\ op[t].fn = "hipLaunchKernel" /\ op[t] \in OpType
      /\ ~op[t].failed /\ ~op[t].own /\ ~op[t].dropped
      /\ op[t].row = 0 /\ op[t].code = "hipSuccess"
      /\ op[t].asserts => op[t].kernel \in AbortKernel \cap KernelMap
  BY <1>1, StartFacts
<1>3. ASSUME NEW o, op' = [op EXCEPT ![t] = o], pc' = [pc EXCEPT ![t] = "settled"],
             UNCHANGED launchVars,
             o.fn = "hipLaunchKernel", o.kernel = op[t].kernel, o.asserts = op[t].asserts,
             ~o.dropped, o.row = 0,
             o.failed \/ (~o.asserts /\ o.code # "hipErrorAssert"), o.asserts \in BOOLEAN
      PROVE  LInv'
  <2>1. /\ OwnStep(t) /\ calls' \in [Thread -> 0 .. MaxCalls]
        /\ pc'[t] = "settled" /\ op'[t] = o
    BY <1>1, <1>3, MovesOwn DEF PcType
  <2>2. FreshOK(t)' /\ KindOK(t)'
    BY <1>2, <1>3, <2>1 DEF FreshOK, KindOK, Free, IsLaunch
  <2>3. ClaimOK(t)' /\ RowOK(t)'
    BY <1>3, <2>1 DEF ClaimOK, RowOK, Free
  <2>4. ToldOK(t)'
    BY <1>3, <2>1 DEF ToldOK, Free, Begun, IsLaunch
  <2> QED BY <1>3, <2>1, <2>2, <2>3, <2>4, QuietKept DEF LaunchInv
<1>4. CASE op[t].kernel \notin KernelMap
  <2> DEFINE ran == [op[t] EXCEPT !.code = "hipErrorInvalidDeviceFunction"]
             o == [ran EXCEPT !.own = FALSE]
  <2>1. Ran(t, ran, FALSE, "settled") /\ UNCHANGED launchVars
    BY <1>4 DEF StartLaunch
  <2>2. op' = [op EXCEPT ![t] = o] /\ pc' = [pc EXCEPT ![t] = "settled"]
    BY <2>1 DEF Ran
  <2>3. /\ o.fn = "hipLaunchKernel" /\ o.kernel = op[t].kernel /\ o.asserts = op[t].asserts
        /\ ~o.dropped /\ o.row = 0 /\ o.code = "hipErrorInvalidDeviceFunction"
        /\ o.asserts \in BOOLEAN
    BY <1>2 DEF OpType
  <2>4. ~o.asserts
    BY <1>2, <1>4, <2>3
  <2> HIDE DEF o
  <2> QED BY <1>3, <2>1, <2>2, <2>3, <2>4
<1>5. CASE Thrown(t)
  <2> DEFINE o == [op[t] EXCEPT !.failed = TRUE, !.own = TRUE]
  <2>1. op' = [op EXCEPT ![t] = o] /\ pc' = [pc EXCEPT ![t] = "settled"] /\ UNCHANGED launchVars
    BY <1>5, ThrownOp DEF Thrown
  <2>2. /\ o.fn = "hipLaunchKernel" /\ o.kernel = op[t].kernel /\ o.asserts = op[t].asserts
        /\ ~o.dropped /\ o.row = 0 /\ o.failed /\ o.asserts \in BOOLEAN
    BY <1>2 DEF OpType
  <2> HIDE DEF o
  <2> QED BY <1>3, <2>1, <2>2
<1>6. CASE op[t].kernel \in KernelMap /\ Submit(t)
  BY <1>1, <1>6, SubmitKept
<1> QED BY <1>4, <1>5, <1>6 DEF StartLaunch

\* A launch whose staging buffer is not given to it fails, and is its own fault.
LEMMA RejectedKept ==
    ASSUME TypeInv, LInv, NEW t \in Thread, ~Free(t) \/ pc[t] = "copy", Rejected(t),
           UNCHANGED <<calls, launchVars>>
    PROVE  LInv'
<1> DEFINE o == [op[t] EXCEPT !.failed = TRUE]
<1>1. op' = [op EXCEPT ![t] = o] /\ pc' = [pc EXCEPT ![t] = "settled"]
  BY OpFacts DEF Rejected
<1>2. /\ o.fn = op[t].fn /\ o.kernel = op[t].kernel /\ o.asserts = op[t].asserts
      /\ o.dropped = op[t].dropped /\ o.own = op[t].own /\ o.row = op[t].row
      /\ o.code = op[t].code /\ o.failed = TRUE
  BY OpFacts DEF OpType
<1> HIDE DEF o
<1>3. /\ OwnStep(t) /\ calls' \in [Thread -> 0 .. MaxCalls]
      /\ pc'[t] = "settled" /\ op'[t] = o /\ Me(t)' = Me(t) /\ kernelsRan' = kernelsRan
  BY <1>1, MovesOwn DEF PcType, launchVars
<1>4. LaunchInv(t)
  BY DEF LInv
<1>5. KindOK(t)' /\ FreshOK(t)' /\ ClaimOK(t)'
  BY <1>2, <1>3, <1>4 DEF LaunchInv, KindOK, FreshOK, ClaimOK, IsLaunch, Free
<1>6. RowOK(t)' /\ ToldOK(t)'
  BY <1>2, <1>3, <1>4 DEF LaunchInv, RowOK, Status, ToldOK, Free
<1> QED BY <1>3, <1>5, <1>6, QuietKept DEF LaunchInv

LEMMA PrintfMappedKept ==
    ASSUME TypeInv, LInv, NEW t \in Thread, PrintfMapped(t)
    PROVE  LInv'
<1>1. pc[t] = "printf" /\ calls' = calls
  BY DEF PrintfMapped, hostVars
<1>2. CASE printfMap # Me(t)
  <2>1. Rejected(t) /\ UNCHANGED launchVars
    BY <1>2 DEF PrintfMapped, launchVars, stageVars
  <2> QED BY <1>1, <2>1, RejectedKept DEF Free
<1>3. CASE printfMap = Me(t)
  <2> DEFINE stage == IF Asserts(op[t].kernel) THEN "abort" ELSE "settled"
  <2>1. /\ printfMap' = None /\ pc' = [pc EXCEPT ![t] = stage] /\ op' = op
        /\ UNCHANGED <<printfBuf, printfStage, abortFlag, abortStage, abortMap, kernelsRan, timestamps>>
    BY <1>3 DEF PrintfMapped
  <2>2. stage \in PcType \ {"queued"} /\ op' = [op EXCEPT ![t] = op[t]]
    BY <2>1 DEF PcType, TypeInv, CallOK
  <2>3. /\ OwnStep(t) /\ pc'[t] = stage /\ op'[t] = op[t] /\ Me(t)' = Me(t)
    BY <1>1, <2>1, <2>2, MovesOwn
  <2>4. RowsStay(t) /\ Takes(t, printfMap, printfStage) /\ Takes(t, abortMap, abortStage)
    BY <1>3, <2>1, RowsSame DEF Takes
  <2>5. DeviceOK'
    BY <1>1, <2>1, <2>2, <2>3, DeviceKept DEF LInv, DeviceOK
  <2>6. TimesOK'
    BY <2>1, <2>4, TimesKept
  <2>7. LaunchInv(t)
    BY DEF LInv
  <2>8. KindOK(t)' /\ FreshOK(t)'
    BY <1>1, <2>3, <2>7 DEF LaunchInv, KindOK, FreshOK, IsLaunch, Free
  <2>9. ClaimOK(t)'
    BY <1>1, <2>1, <2>3, <2>7 DEF LaunchInv, ClaimOK, Free
  <2>10. RowOK(t)'
    BY <1>1, <2>1, <2>3, <2>7 DEF LaunchInv, RowOK, Status
  <2>11. ToldOK(t)'
    BY <1>1, <2>3, <2>7, OpFacts DEF LaunchInv, KindOK, ToldOK, IsLaunch, Free, Begun, Asserts
  <2> QED BY <1>1, <2>3, <2>4, <2>5, <2>6, <2>8, <2>9, <2>10, <2>11, LaunchStepKept DEF LaunchInv
<1> QED BY <1>2, <1>3

LEMMA AbortMappedKept ==
    ASSUME TypeInv, LInv, NEW t \in Thread, AbortMapped(t)
    PROVE  LInv'
<1>1. pc[t] = "abort" /\ calls' = calls
      /\ UNCHANGED <<printfBuf, printfStage, printfMap, abortFlag, abortStage, hostPrintf, timestamps>>
  BY DEF AbortMapped, hostVars
<1>2. CASE abortMap # Me(t)
  <2>1. Rejected(t) /\ UNCHANGED launchVars
    BY <1>2 DEF AbortMapped, launchVars, stageVars
  <2> QED BY <1>1, <2>1, RejectedKept DEF Free
<1>3. CASE abortMap = Me(t)
  <2> DEFINE o == IF abortStage THEN [op[t] EXCEPT !.code = "hipErrorAssert"] ELSE op[t]
  <2>1. /\ abortMap' = None /\ pc' = [pc EXCEPT ![t] = "settled"]
        /\ kernelsRan' = IF abortStage THEN [kernelsRan EXCEPT ![op[t].row].status = "aborted"]
                         ELSE kernelsRan
    BY <1>3 DEF AbortMapped
  <2>2. op' = [op EXCEPT ![t] = o]
    BY <1>3, OpFacts DEF AbortMapped, TypeInv, CallOK
  <2>3. /\ o.fn = op[t].fn /\ o.kernel = op[t].kernel /\ o.asserts = op[t].asserts
        /\ o.dropped = op[t].dropped /\ o.own = op[t].own /\ o.row = op[t].row
        /\ o.failed = op[t].failed
        /\ o.code = IF abortStage THEN "hipErrorAssert" ELSE op[t].code
    BY OpFacts DEF OpType
  <2> HIDE DEF o
  <2>4. /\ OwnStep(t) /\ pc'[t] = "settled" /\ op'[t] = o /\ Me(t)' = Me(t)
    BY <1>1, <2>1, <2>2, MovesOwn DEF PcType
  <2>5. LaunchInv(t) /\ op[t].row > 0 /\ op[t].code = "hipSuccess" /\ ~op[t].failed
        /\ abortStage \in BOOLEAN
    BY <1>1 DEF LInv, LaunchInv, KindOK, Free, TypeInv, LaunchOK
  <2>6. /\ RowsStay(t) /\ op[t].row <= Len(kernelsRan')
        /\ kernelsRan'[op[t].row] = [launch |-> Me(t), status |-> IF abortStage THEN "aborted" ELSE "none"]
    <3>1. CASE abortStage
      <4>1. kernelsRan' = [kernelsRan EXCEPT ![op[t].row].status = "aborted"]
        BY <2>1, <3>1
      <4>2. pc[t] # "idle" /\ op[t].row > 0
        BY <1>1, <2>5
      <4>3. /\ RowsStay(t) /\ op[t].row \in 1 .. Len(kernelsRan) /\ Len(kernelsRan') = Len(kernelsRan)
            /\ kernelsRan'[op[t].row] = [launch |-> Me(t), status |-> "aborted"]
        BY <4>1, <4>2, RowMarked
      <4>4. op[t].row <= Len(kernelsRan')
        BY ONLY <4>3, Len(kernelsRan) \in Nat, OpFacts
      <4> QED BY <3>1, <4>3, <4>4
    <3>2. CASE ~abortStage
      BY <1>1, <2>1, <2>5, <3>2, RowsSame DEF LaunchInv, RowOK, Status
    <3> QED BY <3>1, <3>2
  <2>7. Takes(t, printfMap, printfStage) /\ Takes(t, abortMap, abortStage)
    BY <1>1, <1>3, <2>1 DEF Takes
  <2>8. DeviceOK'
    BY <1>1, <2>1, <2>4, DeviceKept DEF LInv, DeviceOK
  <2>9. TimesOK'
    BY <1>1, <2>6, TimesKept
  <2>10. KindOK(t)' /\ FreshOK(t)' /\ ClaimOK(t)'
    BY <2>3, <2>4, <2>5 DEF LaunchInv, KindOK, FreshOK, ClaimOK, IsLaunch, Free
  <2>11. RowOK(t)'
    BY <2>3, <2>4, <2>5, <2>6 DEF RowOK, Status
  <2>12. ToldOK(t)'
    <3>1. ~op[t].dropped => abortStage = op[t].asserts
      BY <1>1, <1>3, <2>5 DEF LaunchInv, KindOK, ClaimOK, Free
    <3> QED BY <2>3, <2>4, <2>5, <3>1, OpFacts DEF ToldOK
  <2> QED BY <1>1, <2>4, <2>6, <2>7, <2>8, <2>9, <2>10, <2>11, <2>12, LaunchStepKept DEF LaunchInv
<1> QED BY <1>2, <1>3

LEMMA InitLaunches == Init => LInv
<1> SUFFICES ASSUME Init PROVE LInv
  OBVIOUS
<1>1. DeviceOK /\ TimesOK
  BY DEF Init, DeviceOK, TimesOK
<1>2. ASSUME NEW t \in Thread PROVE LaunchInv(t)
  <2>1. pc[t] = "idle" /\ op[t] = NoOp
    BY DEF Init
  <2>2. ~NoOp.asserts /\ NoOp.row = 0 /\ ~NoOp.dropped
    BY DEF NoOp
  <2>3. FreshOK(t) /\ KindOK(t) /\ ToldOK(t)
    BY <2>1, <2>2 DEF FreshOK, KindOK, ToldOK, Free, Begun
  <2>4. ClaimOK(t) /\ RowOK(t)
    BY <2>1 DEF ClaimOK, RowOK, Free
  <2> QED BY <2>3, <2>4 DEF LaunchInv
<1> QED BY <1>1, <1>2 DEF LInv

LEMMA NextLaunches == TypeInv /\ LInv /\ [Next]_vars => LInv'
<1> SUFFICES ASSUME TypeInv, LInv, [Next]_vars PROVE LInv'
  OBVIOUS
<1>1. TypeInv'
  BY NextType
<1>2. CASE UNCHANGED vars
  <2>1. UNCHANGED <<pc, op, calls, printfBuf, printfStage, printfMap, abortFlag, abortStage,
                    abortMap, kernelsRan, timestamps>>
    BY <1>2 DEF vars, hostVars, launchVars, stageVars
  <2>2. DeviceOK' /\ TimesOK'
    BY <2>1 DEF LInv, DeviceOK, TimesOK, Past
  <2>3. ASSUME NEW t \in Thread PROVE LaunchInv(t)'
    <3>1. LaunchInv(t)
      BY DEF LInv
    <3>2. FreshOK(t)' /\ KindOK(t)' /\ ToldOK(t)'
      BY <2>1, <3>1 DEF LaunchInv, FreshOK, KindOK, ToldOK, Free, Begun, IsLaunch
    <3>3. ClaimOK(t)' /\ RowOK(t)'
      BY <2>1, <3>1 DEF LaunchInv, ClaimOK, RowOK, Status, Free, Me
    <3> QED BY <3>2, <3>3 DEF LaunchInv
  <2> QED BY <2>2, <2>3 DEF LInv
<1>3. ASSUME NEW t \in Thread, HostStep(t) PROVE LInv'
  BY <1>3, HostKept
<1>4. ASSUME NEW t \in Thread, MallocPopped(t) PROVE LInv'
  <2>1. popped[t] \in BOOLEAN
    BY DEF TypeInv, CallOK
  <2> QED BY <1>4, <2>1, MovedKept DEF MallocPopped, hostVars
<1>5. ASSUME NEW t \in Thread, CopyMapped(t) \/ CopyRejected(t) \/ PopScope(t) \/ Return(t)
      PROVE  LInv'
  <2>1. CASE CopyMapped(t)
    BY <2>1, MovedKept DEF CopyMapped
  <2>2. CASE PopScope(t)
    BY <2>2, MovedKept DEF PopScope, hostVars
  <2>3. CASE Return(t)
    BY <2>3, MovedKept DEF Return
  <2>4. CASE CopyRejected(t)
    BY <2>4, RejectedKept DEF CopyRejected, hostVars
  <2> QED BY <1>5, <2>1, <2>2, <2>3, <2>4
<1>6. ASSUME NEW t \in Thread, BridgeStep(t) PROVE LInv'
  BY <1>1, <1>4, <1>5, <1>6, StartMallocKept, StartFreeKept, StartMemcpyKept, StartLaunchKept,
     PrintfMappedKept, AbortMappedKept, FinishKept DEF BridgeStep
<1> QED BY <1>2, <1>3, <1>6 DEF Next

LEMMA Launches == Spec => [](TypeInv /\ LInv)
<1>1. Init => TypeInv /\ LInv
  BY InitType, InitLaunches
<1>2. (TypeInv /\ LInv) /\ [Next]_vars => (TypeInv /\ LInv)'
  BY NextType, NextLaunches
<1> QED BY <1>1, <1>2, PTL DEF Spec

\* For any threads and any faults: the list of kernels marks a launch exactly when
\* the program is told that it failed or that its assertion did.
THEOREM StatusTold == Spec => []StatusIsResult
<1>1. TypeInv /\ LInv => StatusIsResult
  <2> SUFFICES ASSUME TypeInv, LInv, NEW t \in Thread, Launched(t), op[t].row > 0
               PROVE  (kernelsRan[op[t].row].status = "none") = (Result(op[t]) = "hipSuccess")
    BY DEF StatusIsResult
  <2>1. /\ pc[t] = "finished" /\ op[t].fn = "hipLaunchKernel"
        /\ kernelsRan[op[t].row] = [launch |-> Me(t), status |-> Status(t)]
        /\ op[t].code \in {"hipSuccess", "hipErrorAssert"}
    BY DEF LInv, LaunchInv, RowOK, Launched
  <2>2. kernelsRan[op[t].row].status = Status(t)
    BY <2>1
  <2> QED BY <2>1, <2>2 DEF Status, Result
<1> QED BY <1>1, Launches, PTL

--------------------------------------------------------------------------------
(* A program with one host thread: its calls follow one another, so the      *)
(* scopes, the staging buffers and printfData are its own.                   *)

\* The open scope of a call, if it has one, or else its record, says what
\* happened to its own operation.
ScopeIsOwn(t) ==
    /\ pc[t] \in {"idle", "queued", "popped", "finished"} => scopes = <<>>
    /\ pc[t] \in {"malloc", "copy", "printf", "abort", "settled"} => Len(scopes) = 1
    /\ pc[t] = "queued" /\ op[t].fn = "hipMalloc" => op[t].fault # "throw"
    /\ pc[t] = "malloc" => (popped[t] \/ scopes[1].err) = op[t].own
    /\ pc[t] \in {"copy", "printf", "abort"} => ~op[t].failed /\ scopes[1].err = op[t].own
    /\ pc[t] = "settled" => (op[t].failed \/ scopes[1].err) = op[t].own
    /\ pc[t] = "popped" => (op[t].failed \/ popped[t]) = op[t].own
    /\ pc[t] = "finished" => op[t].failed = op[t].own

\* A launch holds exactly the staging buffers it still waits for.
MapsAreOwn(t) ==
    /\ printfMap = IF pc[t] = "printf" THEN Me(t) ELSE None
    /\ abortMap = IF ~Free(t) /\ Asserts(op[t].kernel) THEN Me(t) ELSE None

\* The records of a launch that went well are there once it has collected them.
RecordsAreOwn(t) ==
    Begun(t) /\ pc[t] # "printf" /\ IsLaunch(t) /\ op[t].kernel \in KernelMap /\ ~op[t].own =>
        hostPrintf = IF Prints(op[t].kernel) THEN <<Me(t)>> ELSE <<>>

Alone(t) == ScopeIsOwn(t) /\ MapsAreOwn(t) /\ RecordsAreOwn(t)

\* A scope that is opened on an empty stack, and what it captures.
LEMMA Opened ==
    ASSUME scopes = <<>>, NEW f
    PROVE  LET pushed == PushScope(scopes, Validation)
           IN  /\ Len(pushed) = 1 /\ pushed[1].err = FALSE
               /\ Len(Raise(pushed, f)) = 1
               /\ Raise(pushed, f)[1].err = (f = Validation)
<1> DEFINE pushed == PushScope(scopes, Validation)
           raised == Raise(pushed, f)
<1>1. pushed = <<Scope(Validation)>>
  BY DEF PushScope
<1>2. Len(pushed) = 1 /\ pushed[1] = Scope(Validation) /\ DOMAIN pushed = {1}
  BY <1>1
<1> HIDE DEF pushed
<1>3. pushed[1] \in ScopeType /\ pushed[1].err = FALSE /\ pushed[1].filter = Validation
  BY <1>2 DEF Scope, ScopeType, Filters
<1>4. pushed \in Seq(ScopeType)
  BY <1>1, <1>2, <1>3
<1>5. Len(raised) = 1
  BY <1>2, <1>4, RaiseFacts
<1>6. raised[1] = [pushed[1] EXCEPT !.err = pushed[1].err \/ Captures(pushed, f, 1)]
  BY <1>2 DEF Raise
<1>7. Captures(pushed, f, 1) <=> f = Validation
  <2>1. 1 <= 1
    OBVIOUS
  <2> QED BY <1>2, <1>3, <2>1 DEF Captures
<1>8. raised[1].err = (pushed[1].err \/ Captures(pushed, f, 1))
  BY <1>3, <1>6 DEF ScopeType
<1>9. raised[1].err = (f = Validation)
  BY <1>3, <1>7, <1>8
<1> QED BY <1>2, <1>3, <1>5, <1>9 DEF pushed

\* Popping the only scope.
LEMMA Closed ==
    ASSUME NEW stack \in Seq(ScopeType), Len(stack) = 1
    PROVE  PopReports(stack) = stack[1].err /\ PopLeaves(stack) = <<>>
<1>1. stack # <<>>
  <2> SUFFICES ASSUME stack = <<>> PROVE FALSE
    OBVIOUS
  <2>1. Len(stack) = 0
    OBVIOUS
  <2> QED BY ONLY <2>1, Len(stack) = 1
<1>2. PopReports(stack) = stack[1].err
  BY <1>1 DEF PopReports
<1> DEFINE left == PopLeaves(stack)
<1>3. left \in Seq(ScopeType) /\ Len(left) = 0
  BY <1>1, PopFacts
<1> HIDE DEF left
<1>4. left = <<>>
  BY <1>3
<1> QED BY <1>2, <1>4 DEF left

\* Pushing a scope on an empty stack and popping it again.
LEMMA OpenedAndClosed ==
    ASSUME scopes = <<>>
    PROVE  LET pushed == PushScope(scopes, Validation)
           IN  PopReports(pushed) = FALSE /\ PopLeaves(pushed) = <<>>
<1>1. scopes \in Seq(ScopeType) /\ Validation \in Filters
  BY DEF Filters
<1>2. PushScope(scopes, Validation) \in Seq(ScopeType)
  BY <1>1, PushFacts
<1> QED BY <1>2, Opened, Closed

\* The two scopes of hipMalloc: the inner one reports a validation error, the
\* outer one keeps a lack of memory.
LEMMA MallocScopes ==
    ASSUME scopes = <<>>, NEW f \in FaultKinds \ {"throw"}
    PROVE  LET raised == Raise(PushScope(PushScope(scopes, OutOfMemory), Validation), f)
           IN  /\ Len(PopLeaves(raised)) = 1
               /\ (PopReports(raised) \/ PopLeaves(raised)[1].err) = (f # "none")
<1> DEFINE pushed == PushScope(PushScope(scopes, OutOfMemory), Validation)
           raised == Raise(pushed, f)
<1>1. pushed \in Seq(ScopeType)
  <2>1. scopes \in Seq(ScopeType) /\ {OutOfMemory, Validation} \subseteq Filters
    BY DEF Filters
  <2> QED BY <2>1, PushFacts
<1>2. /\ DOMAIN pushed = {1, 2} /\ Len(pushed) = 2
      /\ pushed[1] = Scope(OutOfMemory) /\ pushed[2] = Scope(Validation)
  <2> DEFINE outer == PushScope(scopes, OutOfMemory)
  <2>1. outer = <<Scope(OutOfMemory)>>
    BY DEF PushScope
  <2>2. Len(outer) = 1 /\ outer[1] = Scope(OutOfMemory)
    BY <2>1
  <2>3. outer \in Seq(ScopeType)
    <3>1. scopes \in Seq(ScopeType) /\ OutOfMemory \in Filters
      BY DEF Filters
    <3> QED BY <3>1, PushFacts
  <2>4. pushed = Append(outer, Scope(Validation)) /\ Scope(Validation) \in ScopeType
    BY DEF PushScope, Scope, ScopeType, Filters
  <2> HIDE DEF outer, pushed
  <2>5. ASSUME NEW S, NEW s \in Seq(S), NEW e \in S, Len(s) = 1
        PROVE  /\ Len(Append(s, e)) = 2 /\ DOMAIN Append(s, e) = {1, 2}
               /\ Append(s, e)[1] = s[1] /\ Append(s, e)[2] = e
    <3>1. /\ Append(s, e) \in Seq(S) /\ Len(Append(s, e)) = Len(s) + 1
          /\ Append(s, e)[Len(s) + 1] = e
          /\ \A i \in 1 .. Len(s) : Append(s, e)[i] = s[i]
      BY ONLY S = S, s \in Seq(S), e \in S, AppendProperties
    <3>2. Len(s) + 1 = 2 /\ 1 \in 1 .. Len(s) /\ 1 .. 2 = {1, 2}
      BY ONLY <2>5
    <3>3. DOMAIN Append(s, e) = 1 .. 2
      BY ONLY <3>1, <3>2
    <3> QED BY <3>1, <3>2, <3>3
  <2>6. /\ Len(pushed) = 2 /\ DOMAIN pushed = {1, 2}
        /\ pushed[1] = outer[1] /\ pushed[2] = Scope(Validation)
    BY <2>2, <2>3, <2>4, <2>5
  <2> QED BY <2>2, <2>6
<1>3. /\ pushed[1] \in ScopeType /\ pushed[2] \in ScopeType
      /\ pushed[1].err = FALSE /\ pushed[2].err = FALSE
      /\ pushed[1].filter = OutOfMemory /\ pushed[2].filter = Validation
  <2>1. ASSUME NEW g \in Filters
        PROVE  Scope(g) \in ScopeType /\ Scope(g).err = FALSE /\ Scope(g).filter = g
    BY DEF Scope, ScopeType
  <2> QED BY <1>2, <2>1 DEF Filters
<1> HIDE DEF pushed
<1>4. /\ Captures(pushed, f, 1) <=> f = OutOfMemory
      /\ Captures(pushed, f, 2) <=> f = Validation
  <2>1. 1 <= 1 /\ 1 <= 2 /\ 2 <= 2 /\ OutOfMemory # Validation
    BY DEF OutOfMemory, Validation
  <2> QED BY <1>2, <1>3, <2>1 DEF Captures
<1>5. /\ raised[1] = [pushed[1] EXCEPT !.err = pushed[1].err \/ Captures(pushed, f, 1)]
      /\ raised[2] = [pushed[2] EXCEPT !.err = pushed[2].err \/ Captures(pushed, f, 2)]
  BY <1>2 DEF Raise
<1>6. /\ raised[1].err = (pushed[1].err \/ Captures(pushed, f, 1))
      /\ raised[2].err = (pushed[2].err \/ Captures(pushed, f, 2))
  BY <1>3, <1>5 DEF ScopeType
<1>7. raised[1].err = (f = OutOfMemory) /\ raised[2].err = (f = Validation)
  BY <1>3, <1>4, <1>6
<1>8. raised \in Seq(ScopeType) /\ Len(raised) = 2
  BY <1>1, <1>2, RaiseFacts
<1> HIDE DEF raised
<1>9. PopReports(raised) = raised[2].err /\ PopLeaves(raised) = SubSeq(raised, 1, 1)
  <2>1. raised # <<>>
    BY <1>8
  <2> QED BY <1>8, <2>1 DEF PopReports, PopLeaves
<1>10. Len(SubSeq(raised, 1, 1)) = 1 /\ SubSeq(raised, 1, 1)[1] = raised[1]
  BY <1>8
<1>11. (f # "none") = ((f = Validation) \/ (f = OutOfMemory))
  BY DEF FaultKinds, Validation, OutOfMemory
<1> QED BY <1>7, <1>9, <1>10, <1>11 DEF raised, pushed

\* What a call of the host does to what the bridge keeps: nothing.  hipMalloc
\* throws no exceptions on its way, and hipFree is given a pointer it may have.
MadeCall(t) ==
    /\ pc[t] = "idle" /\ pc'[t] \in {"idle", "queued"}
    /\ \A u \in Thread \ {t} : pc'[u] = pc[u] /\ op'[u] = op[u]
    /\ UNCHANGED <<scopes, popped, memVars, launchVars>>
    /\ op'[t].fault \in Fault \cup {"none"} /\ ~op'[t].dropped
    /\ pc'[t] = "queued" /\ op'[t].fn = "hipMalloc" => op'[t].fault # "throw"
    /\ pc'[t] = "queued" /\ op'[t].fn = "hipFree" => op'[t].dst \in Pointer("hipFree")

LEMMA HostMoves ==
    ASSUME TypeInv, NEW t \in Thread, HostStep(t)
    PROVE  MadeCall(t)
<1>1. DOMAIN pc = Thread /\ DOMAIN op = Thread
  BY OpFacts
<1>2. NoOp.fault = "none" /\ ~NoOp.dropped /\ NoOp.fn = "none"
  BY DEF NoOp
<1>3. ASSUME pc[t] = "idle", NEW code, ReturnAtOnce(t, code) PROVE MadeCall(t)
  BY <1>1, <1>2, <1>3 DEF ReturnAtOnce, MadeCall
<1>4. ASSUME pc[t] = "idle", NEW o, Proxy(t, o),
             o.fault \in Fault \cup {"none"}, ~o.dropped,
             o.fn = "hipMalloc" => o.fault # "throw",
             o.fn = "hipFree" => o.dst \in Pointer("hipFree")
      PROVE  MadeCall(t)
  BY <1>1, <1>4 DEF Proxy, MadeCall
<1>5. ASSUME pc[t] = "idle", NEW kind, NEW d, NEW s, NEW v, NEW f \in Fault \cup {"none"},
             Proxy(t, CopyOp(kind, d, s, v, f)) PROVE MadeCall(t)
  <2> DEFINE o == CopyOp(kind, d, s, v, f)
  <2>1. o.fn = "hipMemcpy" /\ o.fault = f /\ ~o.dropped
    BY DEF CopyOp, NoOp
  <2> HIDE DEF o
  <2> QED BY <1>4, <1>5, <2>1 DEF o
<1>6. ASSUME HipMalloc(t) PROVE MadeCall(t)
  <2>1. pc[t] = "idle"
    BY <1>6 DEF HipMalloc, MayCall
  <2>2. ASSUME NEW f \in Fault \ {"throw"},
               Proxy(t, [NoOp EXCEPT !.fn = "hipMalloc", !.fault = f])
        PROVE  MadeCall(t)
    <3> DEFINE o == [NoOp EXCEPT !.fn = "hipMalloc", !.fault = f]
    <3>1. o.fn = "hipMalloc" /\ o.fault = f /\ ~o.dropped
      BY DEF NoOp
    <3> HIDE DEF o
    <3> QED BY <1>4, <2>1, <2>2, <3>1 DEF o
  <2> QED BY <1>3, <1>6, <2>1, <2>2 DEF HipMalloc
<1>7. ASSUME HipFree(t) PROVE MadeCall(t)
  <2>1. pc[t] = "idle"
    BY <1>7 DEF HipFree, MayCall
  <2>2. ASSUME NEW h \in Pointer("hipFree"), Proxy(t, [NoOp EXCEPT !.fn = "hipFree", !.dst = h])
        PROVE  MadeCall(t)
    <3> DEFINE o == [NoOp EXCEPT !.fn = "hipFree", !.dst = h]
    <3>1. o.fn = "hipFree" /\ o.fault = "none" /\ ~o.dropped /\ o.dst = h
      BY DEF NoOp
    <3> HIDE DEF o
    <3> QED BY <1>4, <2>1, <2>2, <3>1 DEF o
  <2> QED BY <1>3, <1>7, <2>1, <2>2 DEF HipFree
<1>8. ASSUME HipMemcpy(t) PROVE MadeCall(t)
  <2>1. pc[t] = "idle"
    BY <1>8 DEF HipMemcpy, MayCall
  <2> QED BY <1>3, <1>5, <1>8, <2>1 DEF HipMemcpy
<1>9. ASSUME HipMemcpyToSymbol(t) PROVE MadeCall(t)
  <2>1. pc[t] = "idle"
    BY <1>9 DEF HipMemcpyToSymbol, MayCall
  <2>2. ASSUME op' = [op EXCEPT ![t] = [NoOp EXCEPT !.fn = "unknown symbol"]],
               UNCHANGED <<pc, scopes, popped, memVars, launchVars>>
        PROVE  MadeCall(t)
    <3> DEFINE o == [NoOp EXCEPT !.fn = "unknown symbol"]
    <3>1. o.fn = "unknown symbol" /\ o.fault = "none" /\ ~o.dropped
      BY DEF NoOp
    <3> HIDE DEF o
    <3>2. op'[t] = o /\ \A u \in Thread \ {t} : op'[u] = op[u]
      BY <1>1, <2>2 DEF o
    <3> QED BY <2>1, <2>2, <3>1, <3>2 DEF MadeCall
  <2> QED BY <1>3, <1>5, <1>9, <2>1, <2>2 DEF HipMemcpyToSymbol
<1>10. ASSUME HipLaunchKernel(t) PROVE MadeCall(t)
  <2>1. pc[t] = "idle"
    BY <1>10 DEF HipLaunchKernel, MayCall
  <2>2. ASSUME NEW k, NEW p, NEW v, NEW f \in Fault, NEW a,
               Proxy(t, [NoOp EXCEPT !.fn = "hipLaunchKernel", !.kernel = k, !.dst = p,
                                     !.val = v, !.fault = f, !.asserts = a])
        PROVE  MadeCall(t)
    <3> DEFINE o == [NoOp EXCEPT !.fn = "hipLaunchKernel", !.kernel = k, !.dst = p, !.val = v,
                                 !.fault = f, !.asserts = a]
    <3>1. o.fn = "hipLaunchKernel" /\ o.fault = f /\ ~o.dropped
      BY DEF NoOp
    <3> HIDE DEF o
    <3> QED BY <1>4, <2>1, <2>2, <3>1 DEF o
  <2> QED BY <1>10, <2>2 DEF HipLaunchKernel
<1>11. ASSUME HipGetLastError(t) PROVE MadeCall(t)
  BY <1>1, <1>2, <1>11 DEF HipGetLastError, MadeCall
<1> QED BY <1>6, <1>7, <1>8, <1>9, <1>10, <1>11 DEF HostStep

LEMMA HostAlone ==
    ASSUME TypeInv, NEW t \in Thread, Alone(t), HostStep(t)
    PROVE  Alone(t)'
<1>1. /\ pc[t] = "idle" /\ pc'[t] \in {"idle", "queued"}
      /\ scopes' = scopes /\ printfMap' = printfMap /\ abortMap' = abortMap
      /\ pc'[t] = "queued" /\ op'[t].fn = "hipMalloc" => op'[t].fault # "throw"
  BY HostMoves DEF MadeCall, launchVars, stageVars
<1>2. ScopeIsOwn(t)'
  BY <1>1 DEF Alone, ScopeIsOwn
<1>3. MapsAreOwn(t)' /\ RecordsAreOwn(t)'
  BY <1>1 DEF Alone, MapsAreOwn, RecordsAreOwn, Free, Begun
<1> QED BY <1>2, <1>3 DEF Alone

\* A call that has run to its end without waiting for a staging buffer: its
\* scope is open, and its error is in it or in its record.
LEMMA SettledAlone ==
    ASSUME TypeInv, NEW t \in Thread, Alone(t), NEW o, NEW place \in {"settled", "copy"},
           pc[t] = "queued", pc' = [pc EXCEPT ![t] = place], op' = [op EXCEPT ![t] = o],
           Len(scopes') = 1, UNCHANGED <<calls, printfMap, abortMap>>,
           (o.failed \/ scopes'[1].err) = o.own, place = "copy" => ~o.failed /\ scopes'[1].err = o.own,
           o.fn = "hipLaunchKernel" => o.own \/ o.kernel \notin KernelMap
    PROVE  Alone(t)'
<1>1. pc'[t] = place /\ op'[t] = o
  BY MovesOwn DEF PcType
<1>2. ScopeIsOwn(t)'
  BY <1>1 DEF ScopeIsOwn
<1>3. MapsAreOwn(t)' /\ RecordsAreOwn(t)'
  BY <1>1 DEF Alone, MapsAreOwn, RecordsAreOwn, Free, Begun, IsLaunch
<1> QED BY <1>2, <1>3 DEF Alone

LEMMA StartMallocAlone ==
    ASSUME TypeInv, LInv, NEW t \in Thread, Alone(t), StartMalloc(t)
    PROVE  Alone(t)'
<1> DEFINE f == op[t].fault
           raised == Raise(PushScope(PushScope(scopes, OutOfMemory), Validation), f)
           o == [op[t] EXCEPT !.dst = nextHandle, !.own = f # "none"]
<1>1. Starts(t, "hipMalloc") /\ pc' = [pc EXCEPT ![t] = "malloc"] /\ calls' = calls
      /\ printfMap' = printfMap /\ abortMap' = abortMap
      /\ scopes' = PopLeaves(raised) /\ popped' = [popped EXCEPT ![t] = PopReports(raised)]
  BY DEF StartMalloc, Pops, hostVars, launchVars, stageVars
<1>2. pc[t] = "queued" /\ op[t].fn = "hipMalloc" /\ op[t] \in OpType
  BY <1>1, StartFacts
<1>3. op' = [op EXCEPT ![t] = o]
  BY OpFacts DEF StartMalloc
<1>4. o.fn = "hipMalloc" /\ o.own = (f # "none")
  BY <1>2 DEF OpType
<1>5. scopes = <<>> /\ f \in FaultKinds \ {"throw"}
  BY <1>2 DEF Alone, ScopeIsOwn, OpType
<1>6. Len(PopLeaves(raised)) = 1 /\ (PopReports(raised) \/ PopLeaves(raised)[1].err) = (f # "none")
  BY <1>5, MallocScopes
<1> HIDE DEF f, raised, o
<1>7. pc'[t] = "malloc" /\ op'[t] = o /\ popped'[t] = PopReports(raised)
  BY <1>1, <1>3, MovesOwn DEF PcType, TypeInv, CallOK
<1>8. ScopeIsOwn(t)'
  BY <1>1, <1>4, <1>6, <1>7 DEF ScopeIsOwn
<1>9. MapsAreOwn(t)' /\ RecordsAreOwn(t)'
  BY <1>1, <1>2, <1>4, <1>7 DEF Alone, MapsAreOwn, RecordsAreOwn, Free, Begun, IsLaunch
<1> QED BY <1>8, <1>9 DEF Alone

LEMMA StartFreeAlone ==
    ASSUME TypeInv, LInv, NEW t \in Thread, Alone(t), StartFree(t)
    PROVE  Alone(t)'
<1>1. Starts(t, "hipFree") /\ op' = op /\ UNCHANGED <<calls, printfMap, abortMap>>
  BY DEF StartFree, hostVars, launchVars, stageVars
<1>2. pc[t] = "queued" /\ op[t].fn = "hipFree" /\ ~op[t].failed /\ ~op[t].own
  BY <1>1, StartFacts
<1>3. scopes = <<>>
  BY <1>2 DEF Alone, ScopeIsOwn
<1>4. \/ pc'[t] = "popped" /\ scopes' = <<>> /\ popped'[t] = FALSE
      \/ pc'[t] = "hung"
  <2>1. DOMAIN pc = Thread /\ DOMAIN popped = Thread
    BY DEF TypeInv, CallOK
  <2>2. CASE Live(op[t].dst)
    BY <1>3, <2>1, <2>2, OpenedAndClosed DEF StartFree, Pops
  <2>3. CASE ~Live(op[t].dst)
    BY <2>1, <2>3 DEF StartFree
  <2> QED BY <2>2, <2>3
<1>5. ScopeIsOwn(t)'
  <2>1. op[t].failed = FALSE /\ op[t].own = FALSE
    BY <1>2, OpFacts
  <2> QED BY <1>1, <1>4, <2>1 DEF ScopeIsOwn
<1>6. MapsAreOwn(t)' /\ RecordsAreOwn(t)'
  BY <1>1, <1>2, <1>4 DEF Alone, MapsAreOwn, RecordsAreOwn, Free, Begun, IsLaunch
<1> QED BY <1>5, <1>6 DEF Alone

\* A function that throws before it reaches the device.
LEMMA ThrownAlone ==
    ASSUME TypeInv, NEW t \in Thread, Alone(t), pc[t] = "queued", Thrown(t), calls' = calls
    PROVE  Alone(t)'
<1> DEFINE o == [op[t] EXCEPT !.failed = TRUE, !.own = TRUE]
<1>1. /\ pc' = [pc EXCEPT ![t] = "settled"] /\ op' = [op EXCEPT ![t] = o]
      /\ UNCHANGED <<printfMap, abortMap>> /\ scopes' = PushScope(scopes, Validation)
  BY ThrownOp DEF Thrown, launchVars, stageVars
<1>2. o.failed = TRUE /\ o.own = TRUE
  BY OpFacts DEF OpType
<1>3. Len(scopes') = 1
  BY <1>1, Opened DEF Alone, ScopeIsOwn
<1> HIDE DEF o
<1> QED BY <1>1, <1>2, <1>3, SettledAlone

\* What Ran leaves in the only scope.
LEMMA RanAlone ==
    ASSUME NEW t \in Thread, Alone(t), pc[t] = "queued", NEW o, NEW invalid \in BOOLEAN,
           NEW next, Ran(t, o, invalid, next)
    PROVE  Len(scopes') = 1 /\ scopes'[1].err = invalid
<1>1. scopes = <<>>
  BY DEF Alone, ScopeIsOwn
<1> QED BY <1>1, Opened DEF Ran

LEMMA StartMemcpyAlone ==
    ASSUME TypeInv, LInv, NEW t \in Thread, Alone(t), StartMemcpy(t)
    PROVE  Alone(t)'
<1>1. Starts(t, "hipMemcpy") /\ UNCHANGED calls
  BY DEF StartMemcpy, hostVars
<1>2. pc[t] = "queued" /\ op[t].fn = "hipMemcpy" /\ ~op[t].failed /\ op[t] \in OpType
  BY <1>1, StartFacts
<1>3. ASSUME Thrown(t) PROVE Alone(t)'
  BY <1>1, <1>2, <1>3, ThrownAlone
<1>4. ASSUME NEW o, NEW invalid \in BOOLEAN, NEW next \in {"copy", "settled"},
             o \in OpType, o.fn = "hipMemcpy", ~o.failed,
             Ran(t, o, invalid, next), UNCHANGED launchVars
      PROVE  Alone(t)'
  <2>0. PICK p : p = [o EXCEPT !.own = invalid]
    OBVIOUS
  <2>1. op' = [op EXCEPT ![t] = p] /\ pc' = [pc EXCEPT ![t] = next]
    BY <1>4, <2>0 DEF Ran
  <2>2. /\ Len(scopes') = 1 /\ scopes'[1].err = invalid
        /\ p.own = invalid /\ p.failed = FALSE /\ p.fn = o.fn
    <3>1. Len(scopes') = 1 /\ scopes'[1].err = invalid
      BY <1>2, <1>4, RanAlone
    <3>2. p.own = invalid /\ p.failed = FALSE /\ p.fn = o.fn
      BY <1>4, <2>0 DEF OpType
    <3> QED BY <3>1, <3>2
  <2>3. UNCHANGED <<printfMap, abortMap>>
    BY <1>4 DEF launchVars, stageVars
  <2> QED BY <1>1, <1>2, <1>4, <2>1, <2>2, <2>3, SettledAlone
<1>5. \/ Thrown(t)
      \/ /\ UNCHANGED launchVars
         /\ \E invalid \in BOOLEAN : Ran(t, op[t], invalid, "settled")
      \/ /\ UNCHANGED launchVars
         /\ \E invalid \in BOOLEAN, d \in Val : Ran(t, [op[t] EXCEPT !.data = d], invalid, "copy")
      \/ /\ UNCHANGED launchVars
         /\ Ran(t, [op[t] EXCEPT !.code = "hipErrorInvalidValue"], FALSE, "settled")
  BY MemcpyRuns
<1>6. ASSUME NEW d \in Val
      PROVE  LET o == [op[t] EXCEPT !.data = d] IN
             o \in OpType /\ o.fn = "hipMemcpy" /\ ~o.failed
  BY <1>2 DEF OpType
<1>7. LET o == [op[t] EXCEPT !.code = "hipErrorInvalidValue"] IN
      o \in OpType /\ o.fn = "hipMemcpy" /\ ~o.failed
  BY <1>2 DEF OpType, Code
<1> QED BY <1>2, <1>3, <1>4, <1>5, <1>6, <1>7

LEMMA CopyMappedAlone ==
    ASSUME TypeInv, NEW t \in Thread, Alone(t), CopyMapped(t)
    PROVE  Alone(t)'
<1>1. /\ pc[t] = "copy" /\ pc'[t] = "settled" /\ op' = op
      /\ UNCHANGED <<calls, scopes, printfMap, abortMap, hostPrintf>>
  BY OpFacts DEF CopyMapped, launchVars, stageVars
<1>2. ScopeIsOwn(t)'
  BY <1>1, OpFacts DEF Alone, ScopeIsOwn
<1>3. MapsAreOwn(t)' /\ RecordsAreOwn(t)'
  BY <1>1 DEF Alone, MapsAreOwn, RecordsAreOwn, Free, Begun, IsLaunch, Me
<1> QED BY <1>2, <1>3 DEF Alone

LEMMA CopyRejectedAlone ==
    ASSUME TypeInv, NEW t \in Thread, Alone(t), CopyRejected(t)
    PROVE  Alone(t)'
<1>1. /\ pc[t] = "copy" /\ pc'[t] = "settled" /\ op[t].own
      /\ op'[t] = [op[t] EXCEPT !.failed = TRUE]
      /\ UNCHANGED <<calls, scopes, printfMap, abortMap, hostPrintf>>
  BY OpFacts DEF CopyRejected, Rejected, hostVars, launchVars, stageVars
<1>2. /\ op'[t].fn = op[t].fn /\ op'[t].kernel = op[t].kernel
      /\ op'[t].own = op[t].own /\ op'[t].failed
  BY <1>1, OpFacts DEF OpType
<1>3. ScopeIsOwn(t)'
  BY <1>1, <1>2, OpFacts DEF Alone, ScopeIsOwn
<1>4. MapsAreOwn(t)' /\ RecordsAreOwn(t)'
  BY <1>1, <1>2 DEF Alone, MapsAreOwn, RecordsAreOwn, Free, Begun, IsLaunch, Me
<1> QED BY <1>3, <1>4 DEF Alone

LEMMA PopScopeAlone ==
    ASSUME TypeInv, NEW t \in Thread, Alone(t), PopScope(t)
    PROVE  Alone(t)'
<1>1. /\ pc[t] = "settled" /\ pc'[t] = "popped" /\ op' = op
      /\ UNCHANGED <<calls, printfMap, abortMap, hostPrintf>>
      /\ scopes' = PopLeaves(scopes) /\ popped'[t] = PopReports(scopes)
  BY OpFacts DEF PopScope, Pops, hostVars, launchVars, stageVars, TypeInv, CallOK
<1>2. Len(scopes) = 1 /\ (op[t].failed \/ scopes[1].err) = op[t].own
  BY <1>1 DEF Alone, ScopeIsOwn
<1>3. scopes' = <<>> /\ popped'[t] = scopes[1].err
  BY <1>1, <1>2, Closed DEF TypeInv, CallOK
<1>4. ScopeIsOwn(t)'
  BY <1>1, <1>2, <1>3 DEF ScopeIsOwn
<1>5. MapsAreOwn(t)' /\ RecordsAreOwn(t)'
  BY <1>1 DEF Alone, MapsAreOwn, RecordsAreOwn, Free, Begun, IsLaunch, Me
<1> QED BY <1>4, <1>5 DEF Alone

LEMMA MallocPoppedAlone ==
    ASSUME TypeInv, LInv, NEW t \in Thread, Alone(t), MallocPopped(t)
    PROVE  Alone(t)'
<1> DEFINE o == [op[t] EXCEPT !.failed = popped[t]]
<1>1. /\ pc[t] = "malloc" /\ pc'[t] = "popped" /\ op'[t] = o
      /\ UNCHANGED <<calls, printfMap, abortMap, hostPrintf>>
      /\ scopes' = PopLeaves(scopes) /\ popped'[t] = PopReports(scopes)
  BY OpFacts DEF MallocPopped, Pops, hostVars, launchVars, stageVars, TypeInv, CallOK
<1>2. /\ o.fn = op[t].fn /\ o.own = op[t].own /\ o.kernel = op[t].kernel /\ o.failed = popped[t]
      /\ o.dropped = op[t].dropped
  BY OpFacts DEF OpType, TypeInv, CallOK
<1> HIDE DEF o
<1>3. Len(scopes) = 1 /\ (popped[t] \/ scopes[1].err) = op[t].own
  BY <1>1 DEF Alone, ScopeIsOwn
<1>4. scopes' = <<>> /\ popped'[t] = scopes[1].err
  BY <1>1, <1>3, Closed DEF TypeInv, CallOK
<1>5. ScopeIsOwn(t)'
  BY <1>1, <1>2, <1>3, <1>4 DEF ScopeIsOwn
<1>6. ~IsLaunch(t)
  BY <1>1 DEF LInv, LaunchInv, KindOK
<1>7. MapsAreOwn(t)' /\ RecordsAreOwn(t)'
  BY <1>1, <1>2, <1>6 DEF Alone, MapsAreOwn, RecordsAreOwn, Free, Begun, IsLaunch
<1> QED BY <1>5, <1>7 DEF Alone

LEMMA FinishAlone ==
    ASSUME TypeInv, NEW t \in Thread, Alone(t), Finish(t)
    PROVE  Alone(t)'
<1> DEFINE o == [op[t] EXCEPT !.failed = op[t].failed \/ popped[t]]
<1>1. /\ pc[t] = "popped" /\ pc'[t] = "finished" /\ op'[t] = o
      /\ UNCHANGED <<calls, printfMap, abortMap, hostPrintf, scopes>>
  BY OpFacts DEF Finish, hostVars, stageVars
<1>2. /\ o.fn = op[t].fn /\ o.own = op[t].own /\ o.kernel = op[t].kernel
      /\ o.failed = (op[t].failed \/ popped[t])
  BY OpFacts DEF OpType, TypeInv, CallOK
<1> HIDE DEF o
<1>3. ScopeIsOwn(t)'
  BY <1>1, <1>2 DEF Alone, ScopeIsOwn
<1>4. MapsAreOwn(t)' /\ RecordsAreOwn(t)'
  BY <1>1, <1>2 DEF Alone, MapsAreOwn, RecordsAreOwn, Free, Begun, IsLaunch, Me
<1> QED BY <1>3, <1>4 DEF Alone

LEMMA ReturnAlone ==
    ASSUME TypeInv, NEW t \in Thread, Alone(t), Return(t)
    PROVE  Alone(t)'
<1>1. /\ pc[t] = "finished" /\ pc'[t] = "idle"
      /\ UNCHANGED <<calls, printfMap, abortMap, hostPrintf, scopes>>
  BY OpFacts DEF Return, launchVars, stageVars
<1>2. ScopeIsOwn(t)' /\ MapsAreOwn(t)' /\ RecordsAreOwn(t)'
  BY <1>1 DEF Alone, ScopeIsOwn, MapsAreOwn, RecordsAreOwn, Free, Begun
<1> QED BY <1>2 DEF Alone

LEMMA SubmitAlone ==
    ASSUME TypeInv, LInv, NEW t \in Thread, Alone(t), Starts(t, "hipLaunchKernel"), Submit(t),
           calls' = calls
    PROVE  Alone(t)'
<1> DEFINE k == op[t].kernel
           dropped == Dropped(op[t])
           stage == IF Prints(k) THEN "printf"
                    ELSE IF Asserts(k) THEN "abort" ELSE "settled"
           ran == [op[t] EXCEPT !.row = Len(kernelsRan) + 1, !.dropped = dropped]
           o == [ran EXCEPT !.own = dropped]
<1>1. pc[t] = "queued" /\ op[t].fn = "hipLaunchKernel" /\ ~op[t].failed /\ op[t] \in OpType
  BY StartFacts
<1>2. printfMap = None /\ abortMap = None
  BY <1>1 DEF Alone, MapsAreOwn, Free
<1>3. dropped \in BOOLEAN
  BY DEF Dropped
<1>4. Ran(t, ran, dropped, stage)
  <2>1. (dropped \/ (\/ Prints(k) /\ printfMap # None
                     \/ Asserts(k) /\ abortMap # None)) = dropped
    BY <1>2, <1>3
  <2> QED BY <2>1 DEF Submit
<1>5. op' = [op EXCEPT ![t] = o] /\ pc' = [pc EXCEPT ![t] = stage]
  BY <1>4 DEF Ran
<1>6. stage \in PcType \ {"queued"}
  BY DEF PcType
<1>7. op'[t] = o /\ pc'[t] = stage /\ Me(t)' = Me(t)
  BY <1>5, <1>6, MovesOwn
<1>8. /\ o.fn = "hipLaunchKernel" /\ o.kernel = k /\ o.failed = FALSE
      /\ o.own = dropped
  <2> HIDE DEF dropped, k
  <2> QED BY <1>1, <1>3 DEF OpType, k
<1>9. Len(scopes') = 1 /\ scopes'[1].err = dropped
  <2> HIDE DEF ran, stage, dropped
  <2> QED BY <1>1, <1>3, <1>4, RanAlone
<1>10. /\ printfMap' = IF Prints(k) THEN Me(t) ELSE None
       /\ abortMap' = IF Asserts(k) THEN Me(t) ELSE None
       /\ hostPrintf' = IF Prints(k) THEN hostPrintf ELSE <<>>
  BY <1>2 DEF Submit
<1> HIDE DEF o, ran, dropped
<1>11. ScopeIsOwn(t)'
  <2>1. pc'[t] \in {"printf", "abort", "settled"}
    BY <1>7
  <2>2. op'[t].failed = FALSE /\ op'[t].own = dropped /\ scopes'[1].err = dropped
    BY <1>7, <1>8, <1>9
  <2> QED BY <1>3, <1>9, <2>1, <2>2 DEF ScopeIsOwn
<1>12. MapsAreOwn(t)'
  BY <1>7, <1>8, <1>10 DEF MapsAreOwn, Free
<1>13. RecordsAreOwn(t)'
  BY <1>7, <1>8, <1>10 DEF RecordsAreOwn
<1> QED BY <1>11, <1>12, <1>13 DEF Alone

LEMMA StartLaunchAlone ==
    ASSUME TypeInv, LInv, NEW t \in Thread, Alone(t), StartLaunch(t)
    PROVE  Alone(t)'
<1>1. Starts(t, "hipLaunchKernel") /\ calls' = calls
  BY DEF StartLaunch, hostVars
<1>2. pc[t] = "queued" /\ op[t].fn = "hipLaunchKernel" /\ ~op[t].failed /\ op[t] \in OpType
  BY <1>1, StartFacts
<1>3. CASE op[t].kernel \notin KernelMap
  <2> DEFINE ran == [op[t] EXCEPT !.code = "hipErrorInvalidDeviceFunction"]
             o == [ran EXCEPT !.own = FALSE]
  <2>1. Ran(t, ran, FALSE, "settled") /\ UNCHANGED launchVars
    BY <1>3 DEF StartLaunch
  <2>2. op' = [op EXCEPT ![t] = o] /\ pc' = [pc EXCEPT ![t] = "settled"]
    BY <2>1 DEF Ran
  <2>3. o.failed = FALSE /\ o.own = FALSE /\ o.kernel = op[t].kernel
    BY <1>2 DEF OpType
  <2>4. UNCHANGED <<printfMap, abortMap>>
    BY <2>1 DEF launchVars, stageVars
  <2>5. Len(scopes') = 1 /\ scopes'[1].err = FALSE
    <3> HIDE DEF ran
    <3> QED BY <1>2, <2>1, RanAlone
  <2> HIDE DEF o
  <2> QED BY <1>1, <1>2, <1>3, <2>2, <2>3, <2>4, <2>5, SettledAlone
<1>4. CASE Thrown(t)
  BY <1>1, <1>2, <1>4, ThrownAlone
<1>5. CASE Submit(t)
  BY <1>1, <1>5, SubmitAlone
<1> QED BY <1>3, <1>4, <1>5 DEF StartLaunch

LEMMA PrintfMappedAlone ==
    ASSUME TypeInv, LInv, NEW t \in Thread, Alone(t), PrintfMapped(t)
    PROVE  Alone(t)'
<1> DEFINE stage == IF Asserts(op[t].kernel) THEN "abort" ELSE "settled"
<1>1. pc[t] = "printf" /\ printfMap = Me(t)
  BY DEF PrintfMapped, Alone, MapsAreOwn
<1>2. /\ pc'[t] = stage /\ op' = op /\ printfMap' = None /\ hostPrintf' = printfStage
      /\ UNCHANGED <<calls, scopes, abortMap>> /\ Me(t)' = Me(t)
  BY <1>1, OpFacts DEF PrintfMapped, hostVars, Me
<1>3. LaunchInv(t)
  BY DEF LInv
<1>4. ScopeIsOwn(t)'
  BY <1>1, <1>2, OpFacts DEF Alone, ScopeIsOwn
<1>5. MapsAreOwn(t)'
  BY <1>1, <1>2 DEF Alone, MapsAreOwn, Free
<1>6. RecordsAreOwn(t)'
  BY <1>1, <1>2, <1>3 DEF RecordsAreOwn, LaunchInv, KindOK, ClaimOK
<1> QED BY <1>4, <1>5, <1>6 DEF Alone

LEMMA AbortMappedAlone ==
    ASSUME TypeInv, LInv, NEW t \in Thread, Alone(t), AbortMapped(t)
    PROVE  Alone(t)'
<1>1. pc[t] = "abort" /\ LaunchInv(t)
  BY DEF AbortMapped, LInv
<1>2. abortMap = Me(t)
  BY <1>1 DEF Alone, MapsAreOwn, Free, LaunchInv, KindOK
<1>3. /\ pc'[t] = "settled" /\ abortMap' = None
      /\ UNCHANGED <<calls, scopes, printfMap, hostPrintf>> /\ Me(t)' = Me(t)
  BY <1>1, <1>2, OpFacts DEF AbortMapped, hostVars, Me
<1>4. /\ op'[t].fn = op[t].fn /\ op'[t].kernel = op[t].kernel
      /\ op'[t].own = op[t].own /\ op'[t].failed = op[t].failed
  <2>1. CASE abortStage
    <3>1. op'[t] = [op[t] EXCEPT !.code = "hipErrorAssert"]
      BY <1>2, <2>1, OpFacts DEF AbortMapped
    <3> QED BY <3>1, OpFacts DEF OpType
  <2>2. CASE ~abortStage
    BY <1>2, <2>2 DEF AbortMapped
  <2> QED BY <2>1, <2>2
<1>5. ScopeIsOwn(t)'
  BY <1>1, <1>3, <1>4, OpFacts DEF Alone, ScopeIsOwn
<1>6. MapsAreOwn(t)'
  BY <1>1, <1>3 DEF Alone, MapsAreOwn, Free
<1>7. RecordsAreOwn(t)'
  BY <1>1, <1>3, <1>4 DEF Alone, RecordsAreOwn, IsLaunch, Begun
<1> QED BY <1>5, <1>6, <1>7 DEF Alone

\* With one thread every step is its own.
LEMMA OneAlone ==
    ASSUME NEW t, Thread = {t}
    PROVE  Spec => [](TypeInv /\ LInv /\ Alone(t))
<1>1. t \in Thread
  OBVIOUS
<1>2. Init => Alone(t)
  <2> SUFFICES ASSUME Init PROVE Alone(t)
    OBVIOUS
  <2>1. pc[t] = "idle" /\ scopes = <<>> /\ printfMap = None /\ abortMap = None
    BY <1>1 DEF Init
  <2> QED BY <2>1 DEF Alone, ScopeIsOwn, MapsAreOwn, RecordsAreOwn, Free, Begun
<1>3. TypeInv /\ LInv /\ Alone(t) /\ [Next]_vars => Alone(t)'
  <2> SUFFICES ASSUME TypeInv, LInv, Alone(t), [Next]_vars PROVE Alone(t)'
    OBVIOUS
  <2>1. CASE UNCHANGED vars
    <3>1. UNCHANGED <<pc, op, calls, scopes, popped, printfMap, abortMap, hostPrintf>>
      BY <2>1 DEF vars, hostVars, launchVars, stageVars
    <3>2. ScopeIsOwn(t)' /\ RecordsAreOwn(t)' /\ MapsAreOwn(t)'
      BY <3>1 DEF Alone, ScopeIsOwn, RecordsAreOwn, MapsAreOwn, Free, Begun, IsLaunch, Me
    <3> QED BY <3>2 DEF Alone
  <2>2. CASE HostStep(t)
    BY <1>1, <2>2, HostAlone
  <2>3. CASE BridgeStep(t)
    BY <1>1, <2>3, StartMallocAlone, MallocPoppedAlone, StartFreeAlone, StartMemcpyAlone,
       CopyMappedAlone, CopyRejectedAlone, StartLaunchAlone, PrintfMappedAlone, AbortMappedAlone, PopScopeAlone,
       FinishAlone, ReturnAlone DEF BridgeStep
  <2> QED BY <2>1, <2>2, <2>3 DEF Next
<1>4. Init => TypeInv /\ LInv
  BY InitType, InitLaunches
<1>5. TypeInv /\ LInv /\ [Next]_vars => (TypeInv /\ LInv)'
  BY NextType, NextLaunches
<1> QED BY <1>2, <1>3, <1>4, <1>5, PTL DEF Spec

\* For a program with one thread, whatever it calls and whatever fails: each call
\* reports an error exactly when its own operation on the device failed, although
\* the bridge tells errors apart by the order of pops alone.
THEOREM OwnErrors ==
    ASSUME NEW t, Thread = {t}
    PROVE  Spec => []ErrorsAreOwn
<1>1. Alone(t) => ErrorsAreOwn
  BY DEF Alone, ScopeIsOwn, ErrorsAreOwn
<1> QED BY <1>1, OneAlone, PTL

\* For a program with one thread: a launch that does not fail leaves the records
\* of its own kernel, and no others, for the host to print.
THEOREM OwnRecords ==
    ASSUME NEW t, Thread = {t}
    PROVE  Spec => []SuccessPrintsOwn
<1>1. TypeInv /\ Alone(t) => SuccessPrintsOwn
  <2> SUFFICES ASSUME TypeInv, Alone(t), Launched(t), ~op[t].failed, op[t].kernel \in KernelMap
               PROVE  hostPrintf = IF Prints(op[t].kernel) THEN <<Me(t)>> ELSE <<>>
    BY DEF SuccessPrintsOwn
  <2> QED BY DEF Alone, ScopeIsOwn, RecordsAreOwn, Launched, IsLaunch, Begun
<1> QED BY <1>1, OneAlone, PTL

--------------------------------------------------------------------------------
(* Any number of host threads: what a step on the main thread does to the    *)
(* call it is a step of, to the handles and to the launches.                 *)

CallMoves(t) ==
    /\ pc[t] # "idle" /\ pc'[t] # "queued" /\ calls' = calls
    /\ \A u \in Thread \ {t} : pc'[u] = pc[u] /\ op'[u] = op[u]
    /\ op'[t].fn = op[t].fn /\ op'[t].fault = op[t].fault

\* A handle is given out by the start of hipMalloc, and is dropped by hipFree and
\* by an hipMalloc that fails.
HandlesMove(t) ==
    \/ /\ UNCHANGED <<mgr, nextHandle>> /\ op'[t].dst = op[t].dst
       /\ pc'[t] # "malloc" /\ (pc[t] = "queued" => op[t].fn # "hipMalloc")
    \/ /\ nextHandle' = nextHandle /\ op'[t].dst = op[t].dst /\ pc'[t] # "malloc"
       /\ mgr' = [mgr EXCEPT ![op[t].dst] = "gone"]
       /\ \/ pc[t] = "malloc"
          \/ pc[t] = "queued" /\ op[t].fn = "hipFree"
          \/ Begun(t) /\ op[t].fn = "hipMalloc"
    \/ /\ nextHandle' = nextHandle + 1 /\ op'[t].dst = nextHandle
       /\ mgr' = [mgr EXCEPT ![nextHandle] = "live"]

\* Only three steps touch the staging buffers; of the others, one marks a row.
LaunchStays(t) ==
    /\ Free(t) /\ Free(t)' /\ UNCHANGED <<printfMap, abortMap, timestamps>>
    /\ op'[t].dropped = op[t].dropped /\ op'[t].row = op[t].row
    /\ op[t].failed /\ pc[t] # "malloc" => op'[t].failed
    /\ pc'[t] = "idle" => pc[t] = "finished"
    /\ \/ kernelsRan' = kernelsRan
       \/ /\ op[t].row > 0
          /\ kernelsRan' = [kernelsRan EXCEPT ![op[t].row].status = "error"]

LaunchMoves(t) ==
    \/ LaunchStays(t)
    \/ Starts(t, "hipLaunchKernel") /\ Submit(t)
    \/ PrintfMapped(t)
    \/ AbortMapped(t)

Moves(t) == CallMoves(t) /\ HandlesMove(t) /\ LaunchMoves(t)

\* What is the same in most steps, so that the rest can be said of each.
LEMMA MovesOn ==
    ASSUME TypeInv, NEW t \in Thread, NEW place, NEW o,
           pc' = [pc EXCEPT ![t] = place], op' = [op EXCEPT ![t] = o]
    PROVE  /\ pc'[t] = place /\ op'[t] = o
           /\ \A u \in Thread \ {t} : pc'[u] = pc[u] /\ op'[u] = op[u]
  BY OpFacts

\* A step that touches neither handles nor launches.
LEMMA PlainMoves ==
    ASSUME TypeInv, NEW t \in Thread, NEW place \in {"copy", "settled", "popped", "idle", "hung"},
           NEW o, pc[t] # "idle", Free(t), pc[t] = "queued" => op[t].fn # "hipMalloc",
           place = "idle" => pc[t] = "finished",
           pc' = [pc EXCEPT ![t] = place], op' = [op EXCEPT ![t] = o],
           UNCHANGED <<calls, mgr, nextHandle, printfMap, abortMap, timestamps, kernelsRan>>,
           o.fn = op[t].fn, o.fault = op[t].fault, o.dst = op[t].dst,
           o.dropped = op[t].dropped, o.row = op[t].row, op[t].failed => o.failed
    PROVE  Moves(t)
<1>1. /\ pc'[t] = place /\ op'[t] = o
      /\ \A u \in Thread \ {t} : pc'[u] = pc[u] /\ op'[u] = op[u]
  BY MovesOn
<1>2. CallMoves(t) /\ HandlesMove(t)
  BY <1>1 DEF CallMoves, HandlesMove
<1>3. LaunchMoves(t)
  BY <1>1 DEF LaunchMoves, LaunchStays, Free
<1> QED BY <1>2, <1>3 DEF Moves

LEMMA ThrownMoves ==
    ASSUME TypeInv, NEW t \in Thread, pc[t] = "queued", op[t].fn # "hipMalloc", Thrown(t),
           UNCHANGED <<calls, mgr, nextHandle>>
    PROVE  Moves(t)
<1> DEFINE o == [op[t] EXCEPT !.failed = TRUE, !.own = TRUE]
<1>1. /\ pc' = [pc EXCEPT ![t] = "settled"] /\ op' = [op EXCEPT ![t] = o]
      /\ UNCHANGED <<printfMap, abortMap, timestamps, kernelsRan>>
  BY ThrownOp DEF Thrown, launchVars, stageVars
<1>2. /\ o.fn = op[t].fn /\ o.fault = op[t].fault /\ o.dst = op[t].dst
      /\ o.dropped = op[t].dropped /\ o.row = op[t].row /\ o.failed
  BY OpFacts DEF OpType
<1> HIDE DEF o
<1> QED BY <1>1, <1>2, PlainMoves DEF Free

LEMMA RanMoves ==
    ASSUME TypeInv, NEW t \in Thread, pc[t] = "queued", op[t].fn # "hipMalloc", ~op[t].failed,
           NEW q \in OpType, NEW invalid \in BOOLEAN, NEW place \in {"copy", "settled"},
           Ran(t, q, invalid, place), UNCHANGED <<calls, mgr, nextHandle, launchVars>>,
           q.fn = op[t].fn, q.fault = op[t].fault, q.dst = op[t].dst,
           q.dropped = op[t].dropped, q.row = op[t].row
    PROVE  Moves(t)
<1> DEFINE o == [q EXCEPT !.own = invalid]
<1>1. /\ pc' = [pc EXCEPT ![t] = place] /\ op' = [op EXCEPT ![t] = o]
      /\ UNCHANGED <<printfMap, abortMap, timestamps, kernelsRan>>
  BY DEF Ran, launchVars, stageVars
<1>2. /\ o.fn = op[t].fn /\ o.fault = op[t].fault /\ o.dst = op[t].dst
      /\ o.dropped = op[t].dropped /\ o.row = op[t].row
  BY DEF OpType
<1> HIDE DEF o
<1> QED BY <1>1, <1>2, PlainMoves DEF Free

LEMMA StartsMove ==
    ASSUME TypeInv, LInv, NEW t \in Thread,
           StartMalloc(t) \/ StartFree(t) \/ StartMemcpy(t) \/ StartLaunch(t)
    PROVE  Moves(t)
<1>1. CASE StartMalloc(t)
  <2> DEFINE o == [op[t] EXCEPT !.dst = nextHandle, !.own = op[t].fault # "none"]
  <2>1. /\ Starts(t, "hipMalloc") /\ pc' = [pc EXCEPT ![t] = "malloc"] /\ calls' = calls
        /\ mgr' = [mgr EXCEPT ![nextHandle] = "live"] /\ nextHandle' = nextHandle + 1
        /\ UNCHANGED <<printfMap, abortMap, timestamps, kernelsRan>>
    BY <1>1 DEF StartMalloc, hostVars, launchVars, stageVars
  <2>2. op' = [op EXCEPT ![t] = o]
    BY <1>1, OpFacts DEF StartMalloc
  <2>3. pc[t] = "queued" /\ op[t] \in OpType /\ ~op[t].failed
    BY <2>1, StartFacts
  <2>4. /\ o.fn = op[t].fn /\ o.fault = op[t].fault /\ o.dst = nextHandle
        /\ o.dropped = op[t].dropped /\ o.row = op[t].row
    BY <2>3 DEF OpType
  <2> HIDE DEF o
  <2>5. /\ pc'[t] = "malloc" /\ op'[t] = o
        /\ \A u \in Thread \ {t} : pc'[u] = pc[u] /\ op'[u] = op[u]
    BY <2>1, <2>2, MovesOn
  <2>6. CallMoves(t) /\ HandlesMove(t)
    BY <2>1, <2>3, <2>4, <2>5 DEF CallMoves, HandlesMove
  <2>7. LaunchMoves(t)
    BY <2>1, <2>3, <2>4, <2>5 DEF LaunchMoves, LaunchStays, Free
  <2> QED BY <2>6, <2>7 DEF Moves
<1>2. CASE StartFree(t)
  <2>1. Starts(t, "hipFree") /\ op' = [op EXCEPT ![t] = op[t]] /\ calls' = calls
        /\ UNCHANGED <<nextHandle, printfMap, abortMap, timestamps, kernelsRan>>
    BY <1>2, OpFacts DEF StartFree, hostVars, launchVars, stageVars, TypeInv, CallOK
  <2>2. pc[t] = "queued" /\ op[t].fn = "hipFree"
    BY <2>1, StartFacts
  <2>3. CASE Live(op[t].dst)
    <3>1. pc' = [pc EXCEPT ![t] = "popped"] /\ mgr' = [mgr EXCEPT ![op[t].dst] = "gone"]
      BY <1>2, <2>3 DEF StartFree
    <3>2. /\ pc'[t] = "popped" /\ op'[t] = op[t]
          /\ \A u \in Thread \ {t} : pc'[u] = pc[u] /\ op'[u] = op[u]
      BY <2>1, <3>1, MovesOn
    <3>3. CallMoves(t) /\ HandlesMove(t) /\ LaunchMoves(t)
      BY <2>1, <2>2, <3>1, <3>2 DEF CallMoves, HandlesMove, LaunchMoves, LaunchStays, Free
    <3> QED BY <3>3 DEF Moves
  <2>4. CASE ~Live(op[t].dst)
    <3>1. pc' = [pc EXCEPT ![t] = "hung"] /\ mgr' = mgr
      BY <1>2, <2>4 DEF StartFree
    <3> QED BY <2>1, <2>2, <3>1, PlainMoves DEF Free
  <2> QED BY <2>3, <2>4
<1>3. CASE StartMemcpy(t)
  <2>1. Starts(t, "hipMemcpy") /\ UNCHANGED <<calls, mgr, nextHandle>>
    BY <1>3 DEF StartMemcpy, hostVars
  <2>2. pc[t] = "queued" /\ op[t].fn = "hipMemcpy" /\ op[t] \in OpType /\ ~op[t].failed
    BY <2>1, StartFacts
  <2>3. CASE Thrown(t)
    BY <2>1, <2>2, <2>3, ThrownMoves
  <2>4. ASSUME NEW d \in Val
        PROVE  LET q == [op[t] EXCEPT !.data = d]
               IN  /\ q \in OpType /\ q.fn = op[t].fn /\ q.fault = op[t].fault
                   /\ q.dst = op[t].dst /\ q.dropped = op[t].dropped /\ q.row = op[t].row
    BY <2>2 DEF OpType
  <2>5. LET q == [op[t] EXCEPT !.code = "hipErrorInvalidValue"]
        IN  /\ q \in OpType /\ q.fn = op[t].fn /\ q.fault = op[t].fault
            /\ q.dst = op[t].dst /\ q.dropped = op[t].dropped /\ q.row = op[t].row
    BY <2>2 DEF OpType, Code
  <2>6. ASSUME UNCHANGED launchVars, NEW invalid \in BOOLEAN, Ran(t, op[t], invalid, "settled")
        PROVE  Moves(t)
    BY <2>1, <2>2, <2>6, RanMoves
  <2>7. ASSUME UNCHANGED launchVars, NEW invalid \in BOOLEAN, NEW d \in Val,
               Ran(t, [op[t] EXCEPT !.data = d], invalid, "copy")
        PROVE  Moves(t)
    BY <2>1, <2>2, <2>4, <2>7, RanMoves
  <2>8. ASSUME UNCHANGED launchVars,
               Ran(t, [op[t] EXCEPT !.code = "hipErrorInvalidValue"], FALSE, "settled")
        PROVE  Moves(t)
    BY <2>1, <2>2, <2>5, <2>8, RanMoves
  <2> QED BY <1>3, <2>3, <2>6, <2>7, <2>8, MemcpyRuns
<1>4. CASE StartLaunch(t)
  <2>1. Starts(t, "hipLaunchKernel") /\ UNCHANGED <<calls, mgr, nextHandle>>
    BY <1>4 DEF StartLaunch, hostVars
  <2>2. pc[t] = "queued" /\ op[t].fn = "hipLaunchKernel" /\ op[t] \in OpType /\ ~op[t].failed
    BY <2>1, StartFacts
  <2>3. CASE Thrown(t)
    BY <2>1, <2>2, <2>3, ThrownMoves
  <2>4. CASE Submit(t)
    <3> DEFINE k == op[t].kernel
               ran == [op[t] EXCEPT !.row = Len(kernelsRan) + 1, !.dropped = Dropped(op[t])]
               invalid == Dropped(op[t]) \/ (\/ Prints(k) /\ printfMap # None
                                             \/ Asserts(k) /\ abortMap # None)
               place == IF Prints(k) THEN "printf"
                        ELSE IF Asserts(k) THEN "abort" ELSE "settled"
               o == [ran EXCEPT !.own = invalid]
    <3>1. Ran(t, ran, invalid, place) /\ place # "queued" /\ place # "malloc"
      BY <2>4 DEF Submit
    <3>2. pc' = [pc EXCEPT ![t] = place] /\ op' = [op EXCEPT ![t] = o]
      BY <3>1 DEF Ran
    <3>3. o.fn = op[t].fn /\ o.fault = op[t].fault /\ o.dst = op[t].dst
      BY <2>2 DEF OpType
    <3> HIDE DEF o, ran, place
    <3>4. /\ pc'[t] = place /\ op'[t] = o
          /\ \A u \in Thread \ {t} : pc'[u] = pc[u] /\ op'[u] = op[u]
      BY <3>2, MovesOn
    <3>5. CallMoves(t) /\ HandlesMove(t)
      BY <2>1, <2>2, <3>1, <3>3, <3>4 DEF CallMoves, HandlesMove
    <3> QED BY <2>1, <2>4, <3>5 DEF Moves, LaunchMoves
  <2>5. CASE op[t].kernel \notin KernelMap
    <3> DEFINE q == [op[t] EXCEPT !.code = "hipErrorInvalidDeviceFunction"]
    <3>1. Ran(t, q, FALSE, "settled") /\ UNCHANGED launchVars
      BY <1>4, <2>5 DEF StartLaunch
    <3>2. /\ q \in OpType /\ q.fn = op[t].fn /\ q.fault = op[t].fault
          /\ q.dst = op[t].dst /\ q.dropped = op[t].dropped /\ q.row = op[t].row
      BY <2>2 DEF OpType, Code
    <3> HIDE DEF q
    <3> QED BY <2>1, <2>2, <3>1, <3>2, RanMoves
  <2> QED BY <1>4, <2>3, <2>4, <2>5 DEF StartLaunch
<1> QED BY <1>1, <1>2, <1>3, <1>4

LEMMA WaitsMove ==
    ASSUME TypeInv, NEW t \in Thread, PrintfMapped(t) \/ AbortMapped(t)
    PROVE  Moves(t)
<1>1. /\ pc[t] \in {"printf", "abort"} /\ UNCHANGED <<calls, mgr, nextHandle>>
      /\ LaunchMoves(t)
  BY DEF PrintfMapped, AbortMapped, hostVars, memVars, LaunchMoves
<1>2. \E place \in {"settled", "abort"} : pc' = [pc EXCEPT ![t] = place]
  BY DEF PrintfMapped, AbortMapped, Rejected
<1>3. \E o : /\ op' = [op EXCEPT ![t] = o]
             /\ o.fn = op[t].fn /\ o.fault = op[t].fault /\ o.dst = op[t].dst
  <2>1. op' = op \/ op' = [op EXCEPT ![t].failed = TRUE] \/ op' = [op EXCEPT ![t].code = "hipErrorAssert"]
    BY DEF PrintfMapped, AbortMapped, Rejected
  <2>2. CASE op' = op
    <3>1. op' = [op EXCEPT ![t] = op[t]]
      BY <2>2, OpFacts DEF TypeInv, CallOK
    <3> QED BY <3>1
  <2>3. CASE op' = [op EXCEPT ![t].failed = TRUE]
    <3> DEFINE o == [op[t] EXCEPT !.failed = TRUE]
    <3>1. op' = [op EXCEPT ![t] = o]
      BY <2>3, OpFacts
    <3>2. o.fn = op[t].fn /\ o.fault = op[t].fault /\ o.dst = op[t].dst
      BY OpFacts DEF OpType
    <3> HIDE DEF o
    <3> QED BY <3>1, <3>2
  <2>4. CASE op' = [op EXCEPT ![t].code = "hipErrorAssert"]
    <3> DEFINE o == [op[t] EXCEPT !.code = "hipErrorAssert"]
    <3>1. op' = [op EXCEPT ![t] = o]
      BY <2>4, OpFacts
    <3>2. o.fn = op[t].fn /\ o.fault = op[t].fault /\ o.dst = op[t].dst
      BY OpFacts DEF OpType
    <3> HIDE DEF o
    <3> QED BY <3>1, <3>2
  <2> QED BY <2>1, <2>2, <2>3, <2>4
<1>4. CallMoves(t) /\ HandlesMove(t)
  BY <1>1, <1>2, <1>3, MovesOn DEF CallMoves, HandlesMove
<1> QED BY <1>1, <1>4 DEF Moves

LEMMA DropMoves ==
    ASSUME TypeInv, NEW t \in Thread, NEW from \in {"malloc", "copy", "popped"},
           NEW place \in {"settled", "popped", "finished"}, NEW failed \in BOOLEAN, NEW dropping \in BOOLEAN,
           pc[t] = from, pc' = [pc EXCEPT ![t] = place], op' = [op EXCEPT ![t].failed = failed],
           UNCHANGED <<calls, nextHandle, printfMap, abortMap, timestamps>>,
           from # "malloc" => (op[t].failed => failed),
           \/ mgr' = mgr
           \/ (from = "malloc" \/ op[t].fn = "hipMalloc") /\ Drop(t, dropping),
           \/ kernelsRan' = kernelsRan
           \/ op[t].row > 0 /\ kernelsRan' = [kernelsRan EXCEPT ![op[t].row].status = "error"]
    PROVE  Moves(t)
<1> DEFINE o == [op[t] EXCEPT !.failed = failed]
<1>1. op' = [op EXCEPT ![t] = o]
  BY OpFacts
<1>2. /\ o.fn = op[t].fn /\ o.fault = op[t].fault /\ o.dst = op[t].dst
      /\ o.dropped = op[t].dropped /\ o.row = op[t].row /\ o.failed = failed
  BY OpFacts DEF OpType
<1> HIDE DEF o
<1>3. /\ pc'[t] = place /\ op'[t] = o
      /\ \A u \in Thread \ {t} : pc'[u] = pc[u] /\ op'[u] = op[u]
  BY <1>1, MovesOn
<1>4. CallMoves(t)
  BY <1>2, <1>3 DEF CallMoves
<1>5. HandlesMove(t)
  BY <1>2, <1>3 DEF HandlesMove, Drop, Begun
<1>6. LaunchMoves(t)
  BY <1>2, <1>3 DEF LaunchMoves, LaunchStays, Free
<1> QED BY <1>4, <1>5, <1>6 DEF Moves

LEMMA BridgeMoves ==
    ASSUME TypeInv, LInv, NEW t \in Thread, BridgeStep(t)
    PROVE  Moves(t)
<1>1. op = [op EXCEPT ![t] = op[t]]
  BY DEF TypeInv, CallOK
<1>2. CASE MallocPopped(t)
  <2>1. /\ pc[t] = "malloc" /\ pc' = [pc EXCEPT ![t] = "popped"]
        /\ op' = [op EXCEPT ![t].failed = popped[t]] /\ Drop(t, popped[t])
        /\ UNCHANGED <<calls, nextHandle, printfMap, abortMap, timestamps, kernelsRan>>
    BY <1>2 DEF MallocPopped, hostVars, launchVars, stageVars
  <2>2. popped[t] \in BOOLEAN
    BY DEF TypeInv, CallOK
  <2> QED BY <2>1, <2>2, DropMoves
<1>3. CASE CopyMapped(t)
  <2>1. /\ pc[t] = "copy" /\ pc' = [pc EXCEPT ![t] = "settled"] /\ op' = op
        /\ UNCHANGED <<calls, mgr, nextHandle, printfMap, abortMap, timestamps, kernelsRan>>
    BY <1>3 DEF CopyMapped, memVars, launchVars, stageVars
  <2> QED BY <1>1, <2>1, PlainMoves DEF Free
<1>4. CASE PopScope(t)
  <2>1. /\ pc[t] = "settled" /\ pc' = [pc EXCEPT ![t] = "popped"] /\ op' = op
        /\ UNCHANGED <<calls, mgr, nextHandle, printfMap, abortMap, timestamps, kernelsRan>>
    BY <1>4 DEF PopScope, hostVars, memVars, launchVars, stageVars
  <2> QED BY <1>1, <2>1, PlainMoves DEF Free
<1>5. CASE Return(t)
  <2>1. /\ pc[t] = "finished" /\ pc' = [pc EXCEPT ![t] = "idle"] /\ op' = op
        /\ UNCHANGED <<calls, mgr, nextHandle, printfMap, abortMap, timestamps, kernelsRan>>
    BY <1>5 DEF Return, memVars, launchVars, stageVars
  <2> QED BY <1>1, <2>1, PlainMoves DEF Free
<1>6. CASE Finish(t)
  <2> DEFINE failed == op[t].failed \/ popped[t]
  <2>1. /\ pc[t] = "popped" /\ pc' = [pc EXCEPT ![t] = "finished"]
        /\ op' = [op EXCEPT ![t].failed = failed]
        /\ UNCHANGED <<calls, nextHandle, printfMap, abortMap, timestamps>>
    BY <1>6 DEF Finish, hostVars, stageVars
  <2>2. failed \in BOOLEAN
    BY OpFacts DEF TypeInv, CallOK
  <2>3. mgr' = mgr \/ (op[t].fn = "hipMalloc" /\ Drop(t, failed))
    BY <1>6 DEF Finish
  <2>4. \/ kernelsRan' = kernelsRan
        \/ op[t].row > 0 /\ kernelsRan' = [kernelsRan EXCEPT ![op[t].row].status = "error"]
    BY <1>6 DEF Finish, Reported
  <2>5. op[t].failed => failed
    OBVIOUS
  <2> HIDE DEF failed
  <2> QED BY <2>1, <2>2, <2>3, <2>4, <2>5, DropMoves
<1>7. CASE CopyRejected(t)
  <2>1. /\ pc[t] = "copy" /\ pc' = [pc EXCEPT ![t] = "settled"]
        /\ op' = [op EXCEPT ![t].failed = TRUE]
        /\ UNCHANGED <<calls, mgr, nextHandle, printfMap, abortMap, timestamps, kernelsRan>>
    BY <1>7 DEF CopyRejected, Rejected, hostVars, memVars, launchVars, stageVars
  <2> QED BY <2>1, DropMoves
<1> QED BY <1>2, <1>3, <1>4, <1>5, <1>6, <1>7, StartsMove, WaitsMove DEF BridgeStep

--------------------------------------------------------------------------------
(* A launch that the device refused fails, whoever else uses the device, if  *)
(* the only reason for a refusal is a staging buffer that is taken.          *)

NoMisuse == Validation \notin Fault /\ "hipFree" \notin Misused

\* No call destroys the assertion flag.
FlagLives ==
    /\ mgr[AbortVar] = "live" /\ nextHandle \in Nat /\ nextHandle > NVars
    /\ \A t \in Thread :
          /\ op[t].fault # Validation
          /\ pc[t] = "queued" /\ op[t].fn = "hipFree" => op[t].dst # AbortVar
          /\ pc[t] = "malloc" \/ (Begun(t) /\ op[t].fn = "hipMalloc") => op[t].dst # AbortVar

\* A launch that was refused and has not failed yet waits for a staging buffer
\* that it does not hold.
Refused(t) ==
    op[t].dropped =>
        /\ pc[t] = "printf" =>
              printfMap # Me(t) \/ (Asserts(op[t].kernel) /\ abortMap # Me(t))
        /\ pc[t] = "abort" => abortMap # Me(t)
        /\ Free(t) => op[t].failed

RInv == FlagLives /\ \A t \in Thread : Refused(t)

LEMMA FlagKept ==
    ASSUME NoMisuse, TypeInv, LInv, FlagLives, NEW t \in Thread, HostStep(t) \/ BridgeStep(t)
    PROVE  FlagLives'
<1>1. AbortVar \in Handle /\ AbortVar = 1 /\ NVars \in Nat \ {0}
  <2>1. MaxCalls * Cardinality(Thread) \in Nat
    <3>1. Cardinality(Thread) \in Nat
      BY BridgeAssumption, FS_CardinalityType
    <3>2. MaxCalls \in Nat
      BY BridgeAssumption
    <3> QED BY <3>1, <3>2
  <2> QED BY <2>1, BridgeAssumption DEF AbortVar, Handle
<1>2. mgr \in [Handle -> {"unused", "live", "gone"}] /\ nextHandle \in Nat
  BY DEF TypeInv, MemOK
<1>3. nextHandle # AbortVar
  BY <1>1, <1>2 DEF FlagLives
<1>4. ASSUME HostStep(t) PROVE FlagLives'
  <2>1. MadeCall(t)
    BY <1>4, HostMoves
  <2>2. op'[t].fault # Validation
    BY <2>1, BridgeAssumption DEF MadeCall, NoMisuse, Validation
  <2>3. ASSUME NEW h \in Pointer("hipFree") PROVE h # AbortVar
    <3>1. h > NVars
      BY DEF Pointer, NoMisuse
    <3>2. h \in Nat
      BY PointerType
    <3> QED BY <1>1, <3>1, <3>2
  <2>4. ASSUME NEW u \in Thread
        PROVE  /\ op'[u].fault # Validation
               /\ pc'[u] = "queued" /\ op'[u].fn = "hipFree" => op'[u].dst # AbortVar
               /\ pc'[u] = "malloc" \/ (Begun(u)' /\ op'[u].fn = "hipMalloc") => op'[u].dst # AbortVar
    <3>1. CASE u = t
      BY <2>1, <2>2, <2>3, <3>1 DEF MadeCall, Begun
    <3>2. CASE u # t
      BY <2>1, <3>2 DEF MadeCall, FlagLives, Begun
    <3> QED BY <3>1, <3>2
  <2> QED BY <2>1, <2>4 DEF MadeCall, memVars, FlagLives
<1>5. ASSUME BridgeStep(t) PROVE FlagLives'
  <2>1. CallMoves(t) /\ HandlesMove(t)
    BY <1>5, BridgeMoves DEF Moves
  <2>2. mgr'[AbortVar] = "live" /\ nextHandle' \in Nat /\ nextHandle' > NVars
    <3>1. CASE UNCHANGED <<mgr, nextHandle>>
      BY <3>1 DEF FlagLives
    <3>2. CASE mgr' = [mgr EXCEPT ![nextHandle] = "live"] /\ nextHandle' = nextHandle + 1
      BY <1>1, <1>2, <1>3, <3>2 DEF FlagLives
    <3>3. CASE /\ mgr' = [mgr EXCEPT ![op[t].dst] = "gone"] /\ nextHandle' = nextHandle
               /\ \/ pc[t] = "malloc"
                  \/ pc[t] = "queued" /\ op[t].fn = "hipFree"
                  \/ Begun(t) /\ op[t].fn = "hipMalloc"
      <4>1. op[t].dst # AbortVar
        BY <3>3 DEF FlagLives
      <4> QED BY <1>1, <1>2, <3>3, <4>1 DEF FlagLives
    <3> QED BY <2>1, <3>1, <3>2, <3>3 DEF HandlesMove
  <2>3. ASSUME NEW u \in Thread
        PROVE  /\ op'[u].fault # Validation
               /\ pc'[u] = "queued" /\ op'[u].fn = "hipFree" => op'[u].dst # AbortVar
               /\ pc'[u] = "malloc" \/ (Begun(u)' /\ op'[u].fn = "hipMalloc") => op'[u].dst # AbortVar
    <3>1. CASE u = t
      <4>1. op'[t].fault # Validation /\ pc'[t] # "queued"
        BY <2>1 DEF CallMoves, FlagLives
      <4>2. ASSUME pc'[t] = "malloc" \/ op[t].fn = "hipMalloc" PROVE op'[t].dst # AbortVar
        <5>1. CASE op'[t].dst = nextHandle
          BY <1>3, <5>1
        <5>2. CASE op'[t].dst = op[t].dst /\ pc'[t] # "malloc" /\ op[t].fn = "hipMalloc" /\ Begun(t)
          BY <5>2 DEF FlagLives
        <5>3. pc[t] # "idle"
          BY <2>1 DEF CallMoves
        <5> QED BY <2>1, <4>2, <5>1, <5>2, <5>3 DEF HandlesMove, Begun
      <4>3. op'[t].fn = op[t].fn
        BY <2>1 DEF CallMoves
      <4> QED BY <3>1, <4>1, <4>2, <4>3
    <3>2. CASE u # t
      BY <2>1, <3>2 DEF CallMoves, FlagLives, Begun
    <3> QED BY <3>1, <3>2
  <2> QED BY <2>2, <2>3 DEF FlagLives
<1> QED BY <1>4, <1>5

LEMMA HostCalls ==
    ASSUME TypeInv, NEW t \in Thread, HostStep(t)
    PROVE  \A u \in Thread \ {t} : calls'[u] = calls[u]
  BY OpFacts DEF HostStep, HipMalloc, HipFree, HipMemcpy, HipMemcpyToSymbol, HipLaunchKernel,
                 HipGetLastError, ReturnAtOnce, Proxy

\* A launch that is refused when it is submitted will not get one of the staging
\* buffers it waits for.
LEMMA SubmitRefused ==
    ASSUME TypeInv, LInv, NEW t \in Thread, Starts(t, "hipLaunchKernel"), Submit(t),
           mgr[AbortVar] = "live", op[t].fault # Validation, Me(t)' = Me(t)
    PROVE  Refused(t)'
<1> DEFINE k == op[t].kernel
           dropped == Dropped(op[t])
           unmappable == \/ Prints(k) /\ printfMap # None
                         \/ Asserts(k) /\ abortMap # None
           stage == IF Prints(k) THEN "printf"
                    ELSE IF Asserts(k) THEN "abort" ELSE "settled"
           ran == [op[t] EXCEPT !.row = Len(kernelsRan) + 1, !.dropped = dropped]
           o == [ran EXCEPT !.own = dropped \/ unmappable]
<1>1. pc[t] = "queued" /\ op[t] \in OpType
  BY StartFacts
<1>2. dropped = unmappable
  BY DEF Dropped
<1>3. /\ dropped /\ Prints(k) /\ printfMap # None => printfMap' # Me(t)
      /\ dropped /\ Asserts(k) /\ abortMap # None => abortMap' # Me(t)
  <2>1. calls[t] \in Nat
    BY OpFacts
  <2>2. ~Past(Me(t))
    BY <1>1, <2>1 DEF Past, Me
  <2>3. printfMap # Me(t) \/ printfMap = None
    BY <2>2 DEF LInv, DeviceOK
  <2>4. abortMap # Me(t) \/ abortMap = None
    BY <2>2 DEF LInv, DeviceOK
  <2>5. /\ printfMap # None => printfMap' = printfMap
        /\ abortMap # None => abortMap' = abortMap
    BY DEF Submit
  <2> QED BY <2>3, <2>4, <2>5
<1>4. op' = [op EXCEPT ![t] = o] /\ pc' = [pc EXCEPT ![t] = stage]
  BY DEF Submit, Ran
<1>5. op'[t] = o /\ pc'[t] = stage
  <2>1. DOMAIN pc = Thread /\ DOMAIN op = Thread
    BY OpFacts
  <2> HIDE DEF o, stage
  <2> QED BY <1>4, <2>1
<1>6. o.kernel = k /\ o.dropped = dropped
  <2> HIDE DEF dropped, unmappable, k
  <2>1. dropped \in BOOLEAN
    BY DEF dropped, Dropped
  <2> QED BY <1>1, <2>1 DEF OpType, k
<1> HIDE DEF o, ran
<1> QED BY <1>2, <1>3, <1>5, <1>6 DEF Refused, Free

LEMMA RefusedKept ==
    ASSUME TypeInv, LInv, FlagLives, NEW t \in Thread, HostStep(t) \/ BridgeStep(t),
           \A u \in Thread : Refused(u)
    PROVE  \A u \in Thread : Refused(u)'
<1>1. ASSUME HostStep(t) PROVE \A u \in Thread : Refused(u)'
  <2>1. MadeCall(t) /\ UNCHANGED <<printfMap, abortMap>>
    BY <1>1, HostMoves DEF MadeCall, launchVars, stageVars
  <2>2. \A u \in Thread \ {t} : calls'[u] = calls[u]
    BY <1>1, HostCalls
  <2> SUFFICES ASSUME NEW u \in Thread PROVE Refused(u)'
    OBVIOUS
  <2>3. CASE u = t
    BY <2>1, <2>3 DEF MadeCall, Refused
  <2>4. CASE u # t
    <3>1. Me(u)' = Me(u)
      BY <2>2, <2>4, OpFacts DEF Me
    <3> QED BY <2>1, <2>4, <3>1 DEF MadeCall, Refused, Free
  <2> QED BY <2>3, <2>4
<1>2. ASSUME BridgeStep(t) PROVE \A u \in Thread : Refused(u)'
  <2>1. CallMoves(t) /\ LaunchMoves(t)
    BY <1>2, BridgeMoves DEF Moves
  <2>2. ASSUME NEW u \in Thread PROVE Me(u)' = Me(u)
    BY <2>1 DEF CallMoves, Me
  <2>3. /\ printfMap' \in {printfMap, None} \/ (printfMap = None /\ printfMap' = Me(t))
        /\ abortMap' \in {abortMap, None} \/ (abortMap = None /\ abortMap' = Me(t))
    BY <2>1 DEF LaunchMoves, LaunchStays, Submit, PrintfMapped, AbortMapped
  <2>4. ASSUME NEW u \in Thread \ {t} PROVE Refused(u)'
    <3>1. pc'[u] = pc[u] /\ op'[u] = op[u] /\ Me(t) # Me(u)
      BY <2>1, MeFacts DEF CallMoves
    <3>2. pc[u] # "idle" => Me(u) # None
      BY MeFacts
    <3>3. /\ pc[u] # "idle" /\ printfMap # Me(u) => printfMap' # Me(u)
          /\ pc[u] # "idle" /\ abortMap # Me(u) => abortMap' # Me(u)
      BY <2>3, <3>1, <3>2
    <3> QED BY <2>2, <3>1, <3>3 DEF Refused, Free
  <2>5. Refused(t)'
    <3>1. LaunchInv(t)
      BY DEF LInv
    <3>2. CASE LaunchStays(t)
      <4>1. pc[t] = "malloc" => ~op[t].dropped
        BY <3>1 DEF LaunchInv, KindOK
      <4> QED BY <3>2, <4>1 DEF LaunchStays, Refused, Free
    <3>3. CASE Starts(t, "hipLaunchKernel") /\ Submit(t)
      <4>1. mgr[AbortVar] = "live" /\ op[t].fault # Validation /\ Me(t)' = Me(t)
        BY <2>2 DEF FlagLives
      <4> QED BY <3>3, <4>1, SubmitRefused
    <3>4. CASE PrintfMapped(t)
      <4>1. CASE printfMap = Me(t)
        BY <2>2, <3>4, <4>1, OpFacts DEF PrintfMapped, Refused, Free
      <4>2. CASE printfMap # Me(t)
        <5>1. pc'[t] = "settled" /\ op'[t] = [op[t] EXCEPT !.failed = TRUE]
          BY <3>4, <4>2, OpFacts DEF PrintfMapped, Rejected
        <5>2. op'[t].failed
          BY <5>1, OpFacts DEF OpType
        <5> QED BY <5>1, <5>2 DEF Refused
      <4> QED BY <4>1, <4>2
    <3>5. CASE AbortMapped(t)
      <4>1. CASE abortMap = Me(t)
        <5>1. ~op[t].dropped
          BY <3>5, <4>1 DEF AbortMapped, Refused
        <5>2. op'[t].dropped = op[t].dropped
          <6>1. CASE abortStage
            <7>1. op'[t] = [op[t] EXCEPT !.code = "hipErrorAssert"]
              BY <3>5, <4>1, <6>1, OpFacts DEF AbortMapped
            <7> QED BY <7>1, OpFacts DEF OpType
          <6>2. CASE ~abortStage
            BY <3>5, <4>1, <6>2 DEF AbortMapped
          <6> QED BY <6>1, <6>2
        <5> QED BY <5>1, <5>2 DEF Refused
      <4>2. CASE abortMap # Me(t)
        <5>1. pc'[t] = "settled" /\ op'[t] = [op[t] EXCEPT !.failed = TRUE]
          BY <3>5, <4>2, OpFacts DEF AbortMapped, Rejected
        <5>2. op'[t].failed
          BY <5>1, OpFacts DEF OpType
        <5> QED BY <5>1, <5>2 DEF Refused
      <4> QED BY <4>1, <4>2
    <3> QED BY <2>1, <3>2, <3>3, <3>4, <3>5 DEF LaunchMoves
  <2> QED BY <2>4, <2>5
<1> QED BY <1>1, <1>2

LEMMA RefusedFail ==
    ASSUME NoMisuse
    PROVE  Spec => [](TypeInv /\ LInv /\ RInv)
<1>1. Init => RInv
  <2> SUFFICES ASSUME Init PROVE RInv
    OBVIOUS
  <2>1. /\ mgr = [h \in Handle |-> IF h <= NVars THEN "live" ELSE "unused"]
        /\ nextHandle = NVars + 1
        /\ \A t \in Thread : pc[t] = "idle" /\ op[t] = NoOp
    BY DEF Init
  <2>2. NVars \in Nat \ {0} /\ AbortVar = 1
    BY BridgeAssumption DEF AbortVar
  <2>3. AbortVar \in Handle
    <3>1. MaxCalls * Cardinality(Thread) \in Nat
      <4>1. MaxCalls \in Nat /\ Cardinality(Thread) \in Nat
        BY BridgeAssumption, FS_CardinalityType
      <4> QED BY <4>1
    <3> QED BY <2>2, <3>1 DEF Handle
  <2>4. NoOp.fault # Validation /\ ~NoOp.dropped
    BY DEF NoOp, Validation
  <2>5. mgr[AbortVar] = "live" /\ nextHandle \in Nat /\ nextHandle > NVars
    BY <2>1, <2>2, <2>3
  <2>6. FlagLives
    BY <2>1, <2>4, <2>5 DEF FlagLives, Begun
  <2>7. \A t \in Thread : Refused(t)
    BY <2>1, <2>4 DEF Refused
  <2> QED BY <2>6, <2>7 DEF RInv
<1>2. TypeInv /\ LInv /\ RInv /\ [Next]_vars => RInv'
  <2> SUFFICES ASSUME TypeInv, LInv, RInv, [Next]_vars PROVE RInv'
    OBVIOUS
  <2>1. CASE UNCHANGED vars
    <3>1. UNCHANGED <<pc, op, calls, mgr, nextHandle, printfMap, abortMap>>
      BY <2>1 DEF vars, hostVars, memVars, launchVars, stageVars
    <3>2. FlagLives'
      BY <3>1 DEF RInv, FlagLives, Begun
    <3>3. \A t \in Thread : Refused(t)'
      BY <3>1 DEF RInv, Refused, Free, Me
    <3> QED BY <3>2, <3>3 DEF RInv
  <2>2. ASSUME NEW t \in Thread, HostStep(t) \/ BridgeStep(t) PROVE RInv'
    BY <2>2, FlagKept, RefusedKept DEF RInv
  <2> QED BY <2>1, <2>2 DEF Next
<1>3. Init => TypeInv /\ LInv
  BY InitType, InitLaunches
<1>4. TypeInv /\ LInv /\ [Next]_vars => (TypeInv /\ LInv)'
  BY NextType, NextLaunches
<1> QED BY <1>1, <1>2, <1>3, <1>4, PTL DEF Spec

\* The device's refusals reach the call they belong to: there is one host thread,
\* or else the only refusals are those of staging buffers that are taken.
Tells == (\E t : Thread = {t}) \/ NoMisuse

\* A kernel that the device refused to run is never reported as a success, neither
\* to a program with one thread nor, for any number of threads, when only taken
\* staging buffers make the device refuse.
THEOREM RefusalsAreTold ==
    ASSUME Tells
    PROVE  Spec => []DroppedIsReported
<1>1. CASE \E t : Thread = {t}
  <2>1. PICK t : Thread = {t}
    BY <1>1
  <2>2. TypeInv /\ LInv /\ Alone(t) => DroppedIsReported
    <3> SUFFICES ASSUME LInv, Alone(t), pc[t] = "finished", op[t].dropped PROVE op[t].failed
      BY <2>1 DEF DroppedIsReported, Launched
    <3> QED BY <2>1 DEF LInv, LaunchInv, KindOK, Alone, ScopeIsOwn
  <2> QED BY <2>1, <2>2, OneAlone, PTL
<1>2. CASE NoMisuse
  <2>1. TypeInv /\ LInv /\ RInv => DroppedIsReported
    BY DEF RInv, Refused, Free, DroppedIsReported, Launched
  <2>2. Spec => [](TypeInv /\ LInv /\ RInv)
    BY <1>2, RefusedFail
  <2> QED BY <2>1, <2>2, PTL
<1> QED BY <1>1, <1>2 DEF Tells

\* Under the same conditions a launch ends the program exactly when an assertion
\* of its own kernel failed.
THEOREM OwnAssertion ==
    ASSUME Tells
    PROVE  Spec => []AssertionIsOwn
<1>1. LInv /\ DroppedIsReported => AssertionIsOwn
  <2> SUFFICES ASSUME LInv, DroppedIsReported, NEW t \in Thread, Launched(t), ~op[t].failed
               PROVE  (op[t].code = "hipErrorAssert") = op[t].asserts
    BY DEF AssertionIsOwn
  <2> QED BY DEF LInv, LaunchInv, ToldOK, DroppedIsReported, Launched, Free, Begun, IsLaunch
<1> QED BY <1>1, Launches, RefusalsAreTold, PTL

--------------------------------------------------------------------------------
(* The staging buffers, however many threads launch kernels: the printf      *)
(* buffer is held while its launch waits for it, the assertion buffer until  *)
(* its launch has read it or has failed.                                     *)

\* The list of kernels says that the launch failed.
Told(l) == \E i \in DOMAIN kernelsRan : kernelsRan[i] = [launch |-> l, status |-> "error"]

\* The launch of u will read the assertion buffer, or the list will say that it failed.
WillTell(u) ==
    \/ ~Free(u) /\ Asserts(op[u].kernel)
    \/ pc[u] \in {"settled", "popped"} /\ op[u].failed /\ op[u].row > 0

HeldOK ==
    /\ printfMap # None => \E u \in Thread : printfMap = Me(u) /\ pc[u] = "printf"
    /\ abortMap # None =>
           Told(abortMap) \/ \E u \in Thread : abortMap = Me(u) /\ WillTell(u)

\* A step of t that takes nothing it does not wait for, and gives back or reports
\* what it held.
LEMMA HeldStep ==
    ASSUME NEW t \in Thread, HeldOK,
           \A u \in Thread \ {t} : pc'[u] = pc[u] /\ op'[u] = op[u] /\ Me(u)' = Me(u),
           \/ printfMap' = None
           \/ printfMap' = Me(t)' /\ pc'[t] = "printf"
           \/ printfMap' = printfMap /\ ~(pc[t] = "printf" /\ printfMap = Me(t)),
           \/ abortMap' = None
           \/ abortMap' = Me(t)' /\ WillTell(t)'
           \/ /\ abortMap' = abortMap
              /\ Told(abortMap) => Told(abortMap)'
              /\ abortMap = Me(t) /\ WillTell(t) =>
                    Told(abortMap)' \/ (Me(t)' = Me(t) /\ WillTell(t)')
    PROVE  HeldOK'
<1>1. ASSUME printfMap' # None
      PROVE  \E u \in Thread : printfMap' = Me(u)' /\ pc'[u] = "printf"
  BY <1>1 DEF HeldOK
<1>2. ASSUME abortMap' # None
      PROVE  Told(abortMap)' \/ \E u \in Thread : abortMap' = Me(u)' /\ WillTell(u)'
  <2>1. CASE abortMap' = Me(t)' /\ WillTell(t)'
    BY <2>1
  <2>2. CASE /\ abortMap' = abortMap
             /\ Told(abortMap) => Told(abortMap)'
             /\ abortMap = Me(t) /\ WillTell(t) =>
                   Told(abortMap)' \/ (Me(t)' = Me(t) /\ WillTell(t)')
    <3>1. CASE Told(abortMap)
      BY <2>2, <3>1
    <3>2. CASE \E u \in Thread : abortMap = Me(u) /\ WillTell(u)
      <4>1. PICK u \in Thread : abortMap = Me(u) /\ WillTell(u)
        BY <3>2
      <4>2. CASE u = t
        BY <2>2, <4>1, <4>2
      <4>3. CASE u # t
        <5>1. WillTell(u)' /\ Me(u)' = Me(u)
          BY <4>1, <4>3 DEF WillTell, Free
        <5> QED BY <2>2, <4>1, <5>1
      <4> QED BY <4>2, <4>3
    <3> QED BY <1>2, <2>2, <3>1, <3>2 DEF HeldOK
  <2> QED BY <1>2, <2>1, <2>2
<1> QED BY <1>1, <1>2 DEF HeldOK

\* What the list says of a failed launch stays, when a row is added and when one is
\* marked as failed.
LEMMA ToldKept ==
    ASSUME TypeInv, Thread # {}, NEW l, Told(l),
           \/ kernelsRan' = kernelsRan
           \/ \E r : kernelsRan' = Append(kernelsRan, r)
           \/ \E i : kernelsRan' = [kernelsRan EXCEPT ![i].status = "error"]
    PROVE  \E i \in DOMAIN kernelsRan' : kernelsRan'[i] = [launch |-> l, status |-> "error"]
<1>1. PICK i \in DOMAIN kernelsRan : kernelsRan[i] = [launch |-> l, status |-> "error"]
  BY DEF Told
<1>2. kernelsRan \in Seq(Row) /\ Len(kernelsRan) \in Nat
  BY OpFacts
<1>3. i \in DOMAIN kernelsRan' /\ kernelsRan'[i] = kernelsRan[i]
  <2>1. CASE \E r : kernelsRan' = Append(kernelsRan, r)
    <3> HIDE DEF Row
    <3> QED BY <1>1, <1>2, <2>1
  <2>2. CASE \E j : kernelsRan' = [kernelsRan EXCEPT ![j].status = "error"]
    <3>1. PICK j : kernelsRan' = [kernelsRan EXCEPT ![j].status = "error"]
      BY <2>2
    <3>2. DOMAIN kernelsRan' = DOMAIN kernelsRan
      BY <3>1
    <3>3. CASE i = j
      <4>1. kernelsRan'[i] = [kernelsRan[i] EXCEPT !.status = "error"]
        BY <1>1, <3>1, <3>3
      <4> QED BY <1>1, <3>2, <4>1
    <3>4. CASE i # j
      BY <1>1, <3>1, <3>2, <3>4
    <3> QED BY <3>3, <3>4
  <2> QED BY <1>1, <2>1, <2>2
<1> QED BY <1>1, <1>3

LEMMA HostHeld ==
    ASSUME TypeInv, HeldOK, NEW t \in Thread, HostStep(t)
    PROVE  HeldOK'
<1>1. MadeCall(t) /\ UNCHANGED <<printfMap, abortMap, kernelsRan>>
  BY HostMoves DEF MadeCall, launchVars, stageVars
<1>2. \A u \in Thread \ {t} : pc'[u] = pc[u] /\ op'[u] = op[u] /\ Me(u)' = Me(u)
  BY <1>1, HostCalls DEF MadeCall, Me
<1>3. pc[t] = "idle"
  BY <1>1 DEF MadeCall
<1>4. pc[t] # "printf" /\ ~WillTell(t) /\ (Told(abortMap) => Told(abortMap)')
  BY <1>1, <1>3 DEF WillTell, Free, Told
<1> QED BY <1>1, <1>2, <1>4, HeldStep

\* The steps of the main thread that leave the staging buffers alone.
LEMMA StaysHeld ==
    ASSUME TypeInv, LInv, HeldOK, NEW t \in Thread, BridgeStep(t), CallMoves(t), LaunchStays(t)
    PROVE  HeldOK'
<1>1. /\ \A u \in Thread \ {t} : pc'[u] = pc[u] /\ op'[u] = op[u] /\ Me(u)' = Me(u)
      /\ Me(t)' = Me(t)
  BY DEF CallMoves, Me
<1>2. printfMap' = printfMap /\ abortMap' = abortMap /\ pc[t] # "printf" /\ pc[t] # "abort"
  BY DEF LaunchStays, Free
<1>3. Told(abortMap) => Told(abortMap)'
  <2>1. \/ kernelsRan' = kernelsRan
        \/ \E i : kernelsRan' = [kernelsRan EXCEPT ![i].status = "error"]
    BY DEF LaunchStays
  <2> QED BY <1>2, <2>1, ToldKept DEF Told
<1>4. ASSUME WillTell(t), abortMap = Me(t) PROVE Told(abortMap)' \/ WillTell(t)'
  <2>1. pc[t] \in {"settled", "popped"} /\ op[t].failed /\ op[t].row > 0
    BY <1>2, <1>4 DEF WillTell, Free
  <2>2. CASE PopScope(t)
    BY <2>1, <2>2, OpFacts DEF PopScope, WillTell
  <2>3. CASE Finish(t)
    <3>1. kernelsRan' = [kernelsRan EXCEPT ![op[t].row].status = "error"]
      BY <2>1, <2>3 DEF Finish, Reported
    <3>2. /\ op[t].row \in 1 .. Len(kernelsRan) /\ Len(kernelsRan') = Len(kernelsRan)
          /\ kernelsRan'[op[t].row] = [launch |-> Me(t), status |-> "error"]
      BY <2>1, <3>1, RowMarked
    <3>3. op[t].row \in DOMAIN kernelsRan'
      BY <3>1, <3>2, OpFacts
    <3> QED BY <1>2, <1>4, <3>2, <3>3 DEF Told
  <2>4. PopScope(t) \/ Finish(t)
    BY <2>1 DEF BridgeStep, StartMalloc, MallocPopped, StartFree, StartMemcpy, CopyMapped,
                CopyRejected, StartLaunch, PrintfMapped, AbortMapped, Return, Starts
  <2> QED BY <2>2, <2>3, <2>4
<1> QED BY <1>1, <1>2, <1>3, <1>4, HeldStep

\* A submission takes the staging buffers that are free and waits for its own.
LEMMA SubmitHeld ==
    ASSUME TypeInv, LInv, HeldOK, NEW t \in Thread, CallMoves(t),
           Starts(t, "hipLaunchKernel"), Submit(t)
    PROVE  HeldOK'
<1> DEFINE k == op[t].kernel
           dropped == Dropped(op[t])
           unmappable == \/ Prints(k) /\ printfMap # None
                         \/ Asserts(k) /\ abortMap # None
           stage == IF Prints(k) THEN "printf"
                    ELSE IF Asserts(k) THEN "abort" ELSE "settled"
           ran == [op[t] EXCEPT !.row = Len(kernelsRan) + 1, !.dropped = dropped]
           o == [ran EXCEPT !.own = dropped \/ unmappable]
<1>1. /\ \A u \in Thread \ {t} : pc'[u] = pc[u] /\ op'[u] = op[u] /\ Me(u)' = Me(u)
      /\ Me(t)' = Me(t)
  BY DEF CallMoves, Me
<1>2. pc[t] = "queued" /\ op[t] \in OpType
  BY StartFacts
<1>3. op' = [op EXCEPT ![t] = o] /\ pc' = [pc EXCEPT ![t] = stage]
  BY DEF Submit, Ran
<1>4. op'[t] = o /\ pc'[t] = stage
  <2>1. DOMAIN pc = Thread /\ DOMAIN op = Thread
    BY OpFacts
  <2> HIDE DEF o, stage
  <2> QED BY <1>3, <2>1
<1>5. o.kernel = k
  <2> HIDE DEF dropped, unmappable, k
  <2>1. dropped \in BOOLEAN /\ unmappable \in BOOLEAN
    BY DEF dropped, unmappable, Dropped
  <2> QED BY <1>2, <2>1, OpFacts DEF OpType, k
<1>6. Asserts(k) => WillTell(t)'
  BY <1>4, <1>5 DEF WillTell, Free
<1>7. ~WillTell(t)
  BY <1>2 DEF WillTell, Free
<1>8. printfMap' = printfMap \/ (printfMap' = Me(t)' /\ pc'[t] = "printf")
  BY <1>1, <1>4 DEF Submit
<1>9. abortMap' = abortMap \/ (abortMap' = Me(t)' /\ WillTell(t)')
  BY <1>1, <1>6 DEF Submit
<1>10. Told(abortMap) /\ abortMap' = abortMap => Told(abortMap)'
  <2>1. \E r : kernelsRan' = Append(kernelsRan, r)
    BY DEF Submit
  <2> QED BY <2>1, ToldKept DEF Told
<1> QED BY <1>1, <1>2, <1>7, <1>8, <1>9, <1>10, HeldStep

\* A launch whose await is rejected fails, and its row will say so.
LEMMA RejectedHeld ==
    ASSUME TypeInv, LInv, HeldOK, NEW t \in Thread, CallMoves(t), ~Free(t), Rejected(t),
           UNCHANGED <<printfMap, abortMap, kernelsRan>>, pc[t] = "printf" => printfMap # Me(t)
    PROVE  HeldOK'
<1>1. /\ \A u \in Thread \ {t} : pc'[u] = pc[u] /\ op'[u] = op[u] /\ Me(u)' = Me(u)
      /\ Me(t)' = Me(t)
  BY DEF CallMoves, Me
<1>2. op[t].row > 0 /\ op[t] \in OpType
  BY OpFacts DEF LInv, LaunchInv, KindOK
<1>3. pc'[t] = "settled" /\ op'[t] = [op[t] EXCEPT !.failed = TRUE]
  BY OpFacts DEF Rejected
<1>4. op'[t].failed /\ op'[t].row = op[t].row
  BY <1>3, OpFacts DEF OpType
<1>5. WillTell(t)'
  BY <1>2, <1>3, <1>4 DEF WillTell
<1>6. Told(abortMap) => Told(abortMap)'
  BY DEF Told
<1> QED BY <1>1, <1>5, <1>6, HeldStep

LEMMA PrintfHeld ==
    ASSUME TypeInv, LInv, HeldOK, NEW t \in Thread, CallMoves(t), PrintfMapped(t)
    PROVE  HeldOK'
<1>1. /\ \A u \in Thread \ {t} : pc'[u] = pc[u] /\ op'[u] = op[u] /\ Me(u)' = Me(u)
      /\ Me(t)' = Me(t)
  BY DEF CallMoves, Me
<1>2. pc[t] = "printf" /\ UNCHANGED <<abortMap, kernelsRan>>
  BY DEF PrintfMapped
<1>3. CASE printfMap = Me(t)
  <2>1. /\ printfMap' = None /\ op' = op
        /\ pc'[t] = IF Asserts(op[t].kernel) THEN "abort" ELSE "settled"
    BY <1>3, OpFacts DEF PrintfMapped
  <2>2. ASSUME WillTell(t) PROVE WillTell(t)'
    BY <1>2, <2>1, <2>2 DEF WillTell, Free
  <2>3. Told(abortMap) => Told(abortMap)'
    BY <1>2 DEF Told
  <2> QED BY <1>1, <1>2, <2>1, <2>2, <2>3, HeldStep
<1>4. CASE printfMap # Me(t)
  <2>1. Rejected(t) /\ UNCHANGED printfMap /\ ~Free(t)
    BY <1>2, <1>4 DEF PrintfMapped, Free
  <2> QED BY <1>2, <1>4, <2>1, RejectedHeld
<1> QED BY <1>3, <1>4

LEMMA AbortHeld ==
    ASSUME TypeInv, LInv, HeldOK, NEW t \in Thread, CallMoves(t), AbortMapped(t)
    PROVE  HeldOK'
<1>1. \A u \in Thread \ {t} : pc'[u] = pc[u] /\ op'[u] = op[u] /\ Me(u)' = Me(u)
  BY DEF CallMoves, Me
<1>2. pc[t] = "abort" /\ printfMap' = printfMap
  BY DEF AbortMapped
<1>3. CASE abortMap = Me(t)
  <2>1. abortMap' = None
    BY <1>3 DEF AbortMapped
  <2> QED BY <1>1, <1>2, <2>1, HeldStep
<1>4. CASE abortMap # Me(t)
  <2>1. Rejected(t) /\ UNCHANGED <<abortMap, kernelsRan>> /\ ~Free(t)
    BY <1>2, <1>4 DEF AbortMapped, Free
  <2> QED BY <1>2, <2>1, RejectedHeld
<1> QED BY <1>3, <1>4

\* For any number of threads, whatever they launch, however the launches overlap
\* and whatever fails: the printf buffer is mapped only while a launch waits for
\* it, and the assertion buffer stays mapped only behind a launch that failed, of
\* which the program is told.
THEOREM StagingIsReleased == Spec => []StagingReleased
<1>1. Init => HeldOK
  BY DEF Init, HeldOK
<1>2. TypeInv /\ LInv /\ HeldOK /\ [Next]_vars => HeldOK'
  <2> SUFFICES ASSUME TypeInv, LInv, HeldOK, [Next]_vars PROVE HeldOK'
    OBVIOUS
  <2>1. CASE UNCHANGED vars
    BY <2>1 DEF vars, hostVars, launchVars, stageVars, HeldOK, Told, WillTell, Free, Me
  <2>2. ASSUME NEW t \in Thread, HostStep(t) PROVE HeldOK'
    BY <2>2, HostHeld
  <2>3. ASSUME NEW t \in Thread, BridgeStep(t) PROVE HeldOK'
    <3>1. CallMoves(t) /\ LaunchMoves(t)
      BY <2>3, BridgeMoves DEF Moves
    <3> QED BY <2>3, <3>1, StaysHeld, SubmitHeld, PrintfHeld, AbortHeld DEF LaunchMoves
  <2> QED BY <2>1, <2>2, <2>3 DEF Next
<1>3. HeldOK => StagingReleased
  <2> SUFFICES ASSUME HeldOK, abortMap # None
               PROVE  \/ \E t \in Thread : abortMap = Me(t) /\ pc[t] \in {"printf", "abort"}
                      \/ FailedLaunch(abortMap)
    BY DEF HeldOK, StagingReleased
  <2>1. CASE Told(abortMap)
    BY <2>1 DEF Told, FailedLaunch
  <2>2. CASE \E u \in Thread : abortMap = Me(u) /\ WillTell(u)
    BY <2>2 DEF WillTell, Free, FailedLaunch
  <2> QED BY <2>1, <2>2 DEF HeldOK
<1> QED BY <1>1, <1>2, <1>3, Launches, PTL DEF Spec

--------------------------------------------------------------------------------
(* The pairs of timestamps.                                                  *)

\* The row at index i of the list has a pair, or says that its launch failed, or
\* belongs to a launch that was refused and is still going to say so.
Timed(i) ==
    \/ timestamps[i] = kernelsRan[i + 1].launch
    \/ kernelsRan[i + 1].status = "error"
    \/ \E t \in Busy : op[t].dropped /\ op[t].row = i + 1

RowsTimed == \A i \in 0 .. (Slots - 1) : i < Len(kernelsRan) => Timed(i)

\* A step that neither adds a row nor lets go of a refused launch.
LEMMA TimedKept ==
    ASSUME TypeInv, RowsTimed, timestamps' = timestamps, Len(kernelsRan') = Len(kernelsRan),
           \A i \in 1 .. Len(kernelsRan) :
              /\ kernelsRan'[i].launch = kernelsRan[i].launch
              /\ kernelsRan[i].status = "error" => kernelsRan'[i].status = "error",
           \A t \in Busy : op[t].dropped =>
              \/ t \in Busy' /\ op'[t].dropped /\ op'[t].row = op[t].row
              \/ op[t].row \in 1 .. Len(kernelsRan) /\ kernelsRan'[op[t].row].status = "error",
           Len(kernelsRan) \in Nat
    PROVE  RowsTimed'
<1> SUFFICES ASSUME NEW i \in 0 .. (Slots - 1), i < Len(kernelsRan) PROVE Timed(i)'
  BY DEF RowsTimed
<1>1. i \in Nat /\ i + 1 \in 1 .. Len(kernelsRan) /\ Timed(i)
  BY BridgeAssumption DEF RowsTimed
<1>2. CASE timestamps[i] = kernelsRan[i + 1].launch \/ kernelsRan[i + 1].status = "error"
  BY <1>1, <1>2 DEF Timed
<1>3. ASSUME NEW t \in Busy, op[t].dropped, op[t].row = i + 1 PROVE Timed(i)'
  BY <1>1, <1>3 DEF Timed
<1> QED BY <1>1, <1>2, <1>3 DEF Timed

\* What a submission makes of the record of its call.
LEMMA SubmittedOp ==
    ASSUME TypeInv, NEW t \in Thread, Submit(t), Len(kernelsRan) \in Nat
    PROVE  /\ pc'[t] # "idle" /\ op'[t].dropped = Dropped(op[t])
           /\ op'[t].row = Len(kernelsRan) + 1
<1> DEFINE k == op[t].kernel
           invalid == Dropped(op[t]) \/ (\/ Prints(k) /\ printfMap # None
                                         \/ Asserts(k) /\ abortMap # None)
           place == IF Prints(k) THEN "printf"
                    ELSE IF Asserts(k) THEN "abort" ELSE "settled"
           ran == [op[t] EXCEPT !.row = Len(kernelsRan) + 1, !.dropped = Dropped(op[t])]
           o == [ran EXCEPT !.own = invalid]
<1>1. op' = [op EXCEPT ![t] = o] /\ pc' = [pc EXCEPT ![t] = place] /\ place # "idle"
  BY DEF Submit, Ran
<1>2. o.dropped = Dropped(op[t]) /\ o.row = Len(kernelsRan) + 1
  BY OpFacts DEF OpType
<1> HIDE DEF o, place
<1>3. pc'[t] = place /\ op'[t] = o
  <2>1. DOMAIN pc = Thread /\ DOMAIN op = Thread
    BY OpFacts
  <2> QED BY <1>1, <2>1
<1> QED BY <1>1, <1>2, <1>3

LEMMA RowsTimedKept ==
    ASSUME TypeInv, LInv, DroppedIsReported, RowsTimed, NEW t \in Thread,
           HostStep(t) \/ BridgeStep(t)
    PROVE  RowsTimed'
<1>1. Len(kernelsRan) \in Nat /\ kernelsRan \in Seq(Row)
  BY OpFacts
<1>2. \A i \in 1 .. Len(kernelsRan) : kernelsRan[i] \in Row
  <2> HIDE DEF Row
  <2> QED BY <1>1
<1>3. CASE HostStep(t)
  <2>1. MadeCall(t) /\ kernelsRan' = kernelsRan /\ timestamps' = timestamps
    BY <1>3, HostMoves DEF MadeCall, launchVars
  <2>2. \A u \in Busy : u \in Busy' /\ op'[u] = op[u]
    BY <2>1 DEF MadeCall, Busy
  <2> QED BY <1>1, <2>1, <2>2, TimedKept
<1>4. ASSUME BridgeStep(t), LaunchStays(t) PROVE RowsTimed'
  <2>1. CallMoves(t)
    BY <1>4, BridgeMoves DEF Moves
  <2>2. LaunchInv(t)
    BY DEF LInv
  <2>3. /\ timestamps' = timestamps
        /\ op'[t].dropped = op[t].dropped /\ op'[t].row = op[t].row
        /\ pc'[t] = "idle" => pc[t] = "finished"
    BY <1>4 DEF LaunchStays
  <2>4. /\ Len(kernelsRan') = Len(kernelsRan)
        /\ \A i \in 1 .. Len(kernelsRan) :
              /\ kernelsRan'[i].launch = kernelsRan[i].launch
              /\ kernelsRan[i].status = "error" => kernelsRan'[i].status = "error"
    <3>1. CASE kernelsRan' = kernelsRan
      BY <3>1
    <3>2. CASE op[t].row > 0 /\ kernelsRan' = [kernelsRan EXCEPT ![op[t].row].status = "error"]
      <4>1. pc[t] # "idle"
        BY <2>1 DEF CallMoves
      <4>2. op[t].row \in 1 .. Len(kernelsRan)
        BY <1>1, <2>2, <3>2, <4>1, OpFacts DEF LaunchInv, RowOK
      <4>3. /\ Len(kernelsRan') = Len(kernelsRan)
            /\ \A i \in 1 .. Len(kernelsRan) :
                 /\ kernelsRan'[i].launch = kernelsRan[i].launch
                 /\ i # op[t].row => kernelsRan'[i] = kernelsRan[i]
            /\ kernelsRan'[op[t].row] =
                  [launch |-> kernelsRan[op[t].row].launch, status |-> "error"]
        BY <3>2, <4>2, StatusFacts
      <4> QED BY <4>3
    <3> QED BY <1>4, <3>1, <3>2 DEF LaunchStays
  <2>5. ASSUME NEW u \in Busy, op[u].dropped
        PROVE  \/ u \in Busy' /\ op'[u].dropped /\ op'[u].row = op[u].row
               \/ op[u].row \in 1 .. Len(kernelsRan) /\ kernelsRan'[op[u].row].status = "error"
    <3>1. CASE u # t
      BY <2>1, <2>5, <3>1 DEF CallMoves, Busy
    <3>2. CASE u = t /\ pc'[t] # "idle"
      BY <2>3, <2>5, <3>2 DEF Busy
    <3>3. CASE u = t /\ pc'[t] = "idle"
      <4>1. pc[t] = "finished" /\ op[t].dropped
        BY <2>3, <2>5, <3>3
      <4>2. op[t].row > 0 /\ op[t].fn = "hipLaunchKernel"
        BY <2>2, <4>1 DEF LaunchInv, KindOK, IsLaunch
      <4>3. op[t].failed
        BY <4>1, <4>2 DEF DroppedIsReported, Launched
      <4>4. /\ op[t].row \in 1 .. Len(kernelsRan)
            /\ kernelsRan[op[t].row] = [launch |-> Me(t), status |-> "error"]
        BY <1>1, <2>2, <4>1, <4>2, <4>3, OpFacts DEF LaunchInv, RowOK, Status
      <4>5. kernelsRan[op[t].row].status = "error"
        BY <4>4
      <4> QED BY <2>4, <3>3, <4>4, <4>5
    <3> QED BY <3>1, <3>2, <3>3
  <2> QED BY <1>1, <2>3, <2>4, <2>5, TimedKept
<1>5. CASE PrintfMapped(t)
  <2>1. CallMoves(t)
    BY <1>5, WaitsMove DEF Moves
  <2>2. kernelsRan' = kernelsRan /\ timestamps' = timestamps /\ pc'[t] # "idle"
        /\ op'[t].dropped = op[t].dropped /\ op'[t].row = op[t].row
    <3>1. op'[t] = op[t] \/ op'[t] = [op[t] EXCEPT !.failed = TRUE]
      BY <1>5, OpFacts DEF PrintfMapped, Rejected
    <3>2. op'[t].dropped = op[t].dropped /\ op'[t].row = op[t].row
      BY <3>1, OpFacts DEF OpType
    <3> QED BY <1>5, <3>2, OpFacts DEF PrintfMapped, Rejected
  <2>3. \A u \in Busy : u \in Busy' /\ op'[u].dropped = op[u].dropped /\ op'[u].row = op[u].row
    BY <2>1, <2>2 DEF CallMoves, Busy
  <2> QED BY <1>1, <2>2, <2>3, TimedKept
<1>6. CASE AbortMapped(t)
  <2>1. CallMoves(t)
    BY <1>6, WaitsMove DEF Moves
  <2>2. LaunchInv(t) /\ pc[t] = "abort" /\ timestamps' = timestamps /\ pc'[t] # "idle"
    BY <1>6, OpFacts DEF LInv, AbortMapped, Rejected
  <2>3. op'[t].dropped = op[t].dropped /\ op'[t].row = op[t].row
    <3>1. \/ op'[t] = op[t]
          \/ op'[t] = [op[t] EXCEPT !.failed = TRUE]
          \/ op'[t] = [op[t] EXCEPT !.code = "hipErrorAssert"]
      BY <1>6, OpFacts DEF AbortMapped, Rejected
    <3> QED BY <3>1, OpFacts DEF OpType
  <2>4. \A u \in Busy : u \in Busy' /\ op'[u].dropped = op[u].dropped /\ op'[u].row = op[u].row
    BY <2>1, <2>2, <2>3 DEF CallMoves, Busy
  <2>5. /\ Len(kernelsRan') = Len(kernelsRan)
        /\ \A i \in 1 .. Len(kernelsRan) :
              /\ kernelsRan'[i].launch = kernelsRan[i].launch
              /\ kernelsRan[i].status = "error" => kernelsRan'[i].status = "error"
    <3>1. CASE kernelsRan' = kernelsRan
      BY <3>1
    <3>2. CASE kernelsRan' = [kernelsRan EXCEPT ![op[t].row].status = "aborted"]
      <4>1. /\ op[t].row > 0 /\ op[t].code = "hipSuccess"
            /\ op[t].row \in 1 .. Len(kernelsRan)
            /\ kernelsRan[op[t].row] = [launch |-> Me(t), status |-> Status(t)]
        BY <1>1, <2>2, OpFacts DEF LaunchInv, KindOK, RowOK, Free
      <4>2. kernelsRan[op[t].row].status = "none"
        BY <2>2, <4>1 DEF Status
      <4>3. /\ Len(kernelsRan') = Len(kernelsRan)
            /\ \A i \in 1 .. Len(kernelsRan) :
                 /\ kernelsRan'[i].launch = kernelsRan[i].launch
                 /\ i # op[t].row => kernelsRan'[i] = kernelsRan[i]
        BY <3>2, <4>1, StatusFacts
      <4> QED BY <4>2, <4>3
    <3> QED BY <1>6, <3>1, <3>2 DEF AbortMapped
  <2> QED BY <1>1, <2>2, <2>4, <2>5, TimedKept
<1>7. CASE BridgeStep(t) /\ Starts(t, "hipLaunchKernel") /\ Submit(t)
  <2>1. CallMoves(t)
    BY <1>7, BridgeMoves DEF Moves
  <2>2. pc[t] = "queued" /\ op[t].row = 0 /\ op[t] \in OpType /\ op[t].fn = "hipLaunchKernel"
    BY <1>7, StartFacts
  <2> DEFINE dropped == Dropped(op[t])
  <2>3. pc'[t] # "idle" /\ op'[t].dropped = dropped /\ op'[t].row = Len(kernelsRan) + 1
    BY <1>7, <1>1, <2>2, SubmittedOp
  <2>4. /\ kernelsRan' = Append(kernelsRan, [launch |-> Me(t), status |-> "none"])
        /\ timestamps' = IF dropped \/ Len(kernelsRan) >= Slots THEN timestamps
                         ELSE [timestamps EXCEPT ![Len(kernelsRan)] = Me(t)]
    BY <1>7 DEF Submit, Slot
  <2>5. /\ Len(kernelsRan') = Len(kernelsRan) + 1
        /\ \A i \in 1 .. Len(kernelsRan) : kernelsRan'[i] = kernelsRan[i]
        /\ kernelsRan'[Len(kernelsRan) + 1] = [launch |-> Me(t), status |-> "none"]
    <3>1. [launch |-> Me(t), status |-> "none"] \in Row
      BY <2>2, MeFacts DEF Row
    <3> HIDE DEF Row
    <3> QED BY <1>1, <2>4, <3>1
  <2>6. timestamps \in [0 .. (Slots - 1) -> Launch \cup {None}]
    BY DEF TypeInv, LaunchOK
  <2> HIDE DEF dropped
  <2> SUFFICES ASSUME NEW i \in 0 .. (Slots - 1), i < Len(kernelsRan') PROVE Timed(i)'
    BY DEF RowsTimed
  <2>7. i \in Nat
    BY BridgeAssumption
  <2>8. CASE i < Len(kernelsRan)
    <3>1. i + 1 \in 1 .. Len(kernelsRan) /\ Timed(i)
      BY <1>1, <2>7, <2>8 DEF RowsTimed
    <3>2. kernelsRan'[i + 1] = kernelsRan[i + 1] /\ timestamps'[i] = timestamps[i]
      BY <1>1, <2>4, <2>5, <2>6, <2>7, <2>8, <3>1
    <3>3. ASSUME NEW u \in Busy, op[u].dropped, op[u].row = i + 1 PROVE Timed(i)'
      <4>1. u # t
        BY <2>2, <2>7, <3>3
      <4>2. u \in Busy' /\ op'[u] = op[u]
        BY <2>1, <4>1 DEF CallMoves, Busy
      <4> QED BY <3>3, <4>2 DEF Timed
    <3>4. CASE timestamps[i] = kernelsRan[i + 1].launch \/ kernelsRan[i + 1].status = "error"
      BY <3>2, <3>4 DEF Timed
    <3> QED BY <3>1, <3>3, <3>4 DEF Timed
  <2>9. CASE i = Len(kernelsRan)
    <3>1. CASE dropped
      BY <2>3, <2>9, <3>1 DEF Timed, Busy
    <3>2. CASE ~dropped
      <4>1. timestamps'[i] = Me(t) /\ kernelsRan'[i + 1].launch = Me(t)
        BY <1>1, <2>4, <2>5, <2>6, <2>7, <2>9, <3>2, BridgeAssumption
      <4> QED BY <4>1 DEF Timed
    <3> QED BY <3>1, <3>2
  <2> QED BY <1>1, <2>5, <2>7, <2>8, <2>9
<1>8. ASSUME BridgeStep(t) PROVE LaunchMoves(t)
  BY <1>8, BridgeMoves DEF Moves
<1> QED BY <1>3, <1>4, <1>5, <1>6, <1>7, <1>8 DEF LaunchMoves

\* Under the same conditions, and for any number of slots: the i-th pair of
\* timestamps belongs to the i-th kernel of the list, and each kernel that ran
\* among the first ones has its pair.
THEOREM OwnTimestamps ==
    ASSUME Tells
    PROVE  Spec => []TimestampsMatch
<1>1. Init => RowsTimed
  BY BridgeAssumption DEF Init, RowsTimed
<1>2. TypeInv /\ LInv /\ DroppedIsReported /\ RowsTimed /\ [Next]_vars => RowsTimed'
  <2> SUFFICES ASSUME TypeInv, LInv, DroppedIsReported, RowsTimed, [Next]_vars PROVE RowsTimed'
    OBVIOUS
  <2>1. CASE UNCHANGED vars
    <3>1. UNCHANGED <<pc, op, timestamps, kernelsRan>>
      BY <2>1 DEF vars, launchVars
    <3> QED BY <3>1 DEF RowsTimed, Timed, Busy
  <2> QED BY <2>1, RowsTimedKept DEF Next
<1>3. TypeInv /\ LInv /\ RowsTimed => TimestampsMatch
  <2> SUFFICES ASSUME TypeInv, LInv, RowsTimed, NEW i \in 0 .. (Slots - 1), i < Len(kernelsRan),
                      kernelsRan[i + 1].status # "error",
                      kernelsRan[i + 1].launch \notin
                         {Me(t) : t \in {u \in Busy : op[u].dropped}}
               PROVE  timestamps[i] = kernelsRan[i + 1].launch
    BY DEF LInv, TimesOK, TimestampsMatch
  <2>1. ASSUME NEW t \in Busy, op[t].dropped, op[t].row = i + 1 PROVE FALSE
    <3>1. i \in Nat
      BY BridgeAssumption
    <3>2. kernelsRan[i + 1] = [launch |-> Me(t), status |-> Status(t)]
      BY <2>1, <3>1 DEF LInv, LaunchInv, RowOK, Busy
    <3>3. kernelsRan[i + 1].launch = Me(t)
      BY <3>2
    <3> QED BY <2>1, <3>3
  <2> QED BY <2>1 DEF RowsTimed, Timed
<1> QED BY <1>1, <1>2, <1>3, Launches, RefusalsAreTold, PTL DEF Spec

--------------------------------------------------------------------------------
(* HipBridge implements HipDevice: what the main thread knows of the handles.*)

\* The call is an hipMalloc that has been started.
Allocates(t) == Begun(t) /\ op[t].fn = "hipMalloc"

\* What a call asks for, by function and kind.
CallAsked(o) ==
    /\ o.fn = "hipMalloc" => o.kind = "none" /\ o.fault # "throw"
    /\ o.fn = "hipFree" => o.kind = "none" /\ o.fault = "none"
    /\ o.fn = "hipMemcpy" => /\ o.kind \in CopyKinds /\ o.fault # OutOfMemory
                             /\ o.kind = "Default" => o.fault = "none"
    /\ o.fn = "hipLaunchKernel" => o.kind = "none" /\ o.fault # OutOfMemory
    /\ o.dst \in Handle \/ (o.dst = 0 /\ ~(o.fn \in {"hipFree", "hipLaunchKernel"}))
    /\ o.src \in Handle \cup {0}
    /\ o.fn \in ApiNames

\* The handles that a call may use: those that were given out and that no
\* hipMalloc is still to return.
Given == {h \in Handle : h < nextHandle /\ \A u \in Thread : Allocates(u) => op[u].dst # h}

\* A call that waits for its start asks for what it may, of handles it may use.
AskedOK(t) ==
    pc[t] = "queued" =>
        /\ CallAsked(op[t])
        /\ op[t].dst \in Given \cup {0} /\ op[t].src \in Given \cup {0}
        /\ op[t].fn = "hipFree" /\ "hipFree" \notin Misused => op[t].dst > NVars

\* An hipMalloc has a handle of its own, and drops it if it fails.
MallocOK(t) ==
    /\ pc[t] = "malloc" => op[t].fn = "hipMalloc"
    /\ Allocates(t) =>
          /\ NVars < op[t].dst /\ op[t].dst < nextHandle
          /\ pc[t] = "finished" /\ op[t].own => ~Live(op[t].dst)

\* The handles that were given out, and the one of the assertion flag.
HandlesOK ==
    /\ nextHandle > NVars
    /\ \A h \in Handle : nextHandle <= h => mgr[h] # "live"
    /\ "hipFree" \notin Misused => mgr[AbortVar] = "live"

\* The inductive invariant of the handles.
MemInv == HandlesOK /\ \A t \in Thread : MallocOK(t) /\ AskedOK(t)

--------------------------------------------------------------------------------
(* The mapped state: how it follows the record of a call.                    *)

\* A step that gives t's call the record o and the state p.
Leaves(t, p, o) == pc' = [pc EXCEPT ![t] = p] /\ op' = [op EXCEPT ![t] = o]

\* What is asked for, and answered, in such a state.
RequestIn(p, o) == IF p = "idle" THEN NoCall ELSE Arguments(o)
AnswerIn(p, o) ==
    IF p \in {"idle", "queued"} THEN NoCall
    ELSE [code |-> Due(o), data |-> IF p = "copy" THEN o.data ELSE Absent]

\* Such a step maps to one that changes t's request and t's answer alone.
LEMMA Maps ==
    ASSUME TypeInv, NEW t \in Thread, NEW p, NEW o, Leaves(t, p, o)
    PROVE  /\ Requested' = [Requested EXCEPT ![t] = RequestIn(p, o)]
           /\ Answered' = [Answered EXCEPT ![t] = AnswerIn(p, o)]
<1>1. DOMAIN pc = Thread /\ DOMAIN op = Thread
  BY OpFacts
<1>2. pc' = [pc EXCEPT ![t] = p] /\ op' = [op EXCEPT ![t] = o]
  BY DEF Leaves
<1>3. /\ pc'[t] = p /\ op'[t] = o
      /\ \A u \in Thread \ {t} : pc'[u] = pc[u] /\ op'[u] = op[u]
  BY <1>1, <1>2
<1>4. Requested' = [u \in Thread |-> RequestIn(pc'[u], op'[u])]
  BY DEF Requested, RequestIn
<1>5. Answered' = [u \in Thread |-> AnswerIn(pc'[u], op'[u])]
  BY DEF Answered, AnswerIn
<1>6. Requested = [u \in Thread |-> RequestIn(pc[u], op[u])]
  BY DEF Requested, RequestIn
<1>7. Answered = [u \in Thread |-> AnswerIn(pc[u], op[u])]
  BY DEF Answered, AnswerIn
<1> HIDE DEF Requested, Answered, RequestIn, AnswerIn
<1>8. Requested' = [Requested EXCEPT ![t] = RequestIn(p, o)]
  BY <1>3, <1>4, <1>6
<1>9. Answered' = [Answered EXCEPT ![t] = AnswerIn(p, o)]
  BY <1>3, <1>5, <1>7
<1> QED BY <1>8, <1>9

\* What t has asked for and been answered.
LEMMA MappedAt ==
    ASSUME NEW t \in Thread
    PROVE  /\ Requested[t] = IF pc[t] = "idle" THEN NoCall ELSE Arguments(op[t])
           /\ Answered[t] = IF pc[t] \in {"idle", "queued"} THEN NoCall
                            ELSE [code |-> Due(op[t]),
                                  data |-> IF pc[t] = "copy" THEN op[t].data ELSE Absent]
  BY DEF Requested, Answered

--------------------------------------------------------------------------------
(* The host's steps: a call is decided at once, or proxied.                  *)

\* A call of the host that is over at once, and one that is proxied.
Decided(t) ==
    /\ pc' = pc
    /\ \/ \E code \in {"hipSuccess", "hipErrorInvalidValue"} : Returns(t, code)
       \/ \E code \in Code :
             /\ ret' = [ret EXCEPT ![t] = code]
             /\ lastError' = [lastError EXCEPT ![t] =
                                IF code = "hipSuccess" THEN "hipErrorInvalidSymbol" ELSE code]
       \/ /\ ret' = [ret EXCEPT ![t] = lastError[t]]
          /\ lastError' = [lastError EXCEPT ![t] = "hipSuccess"]

\* A call of the host that is proxied: what it asks for, and of which handles.
Asks(t, o) ==
    /\ pc' = [pc EXCEPT ![t] = "queued"] /\ op' = [op EXCEPT ![t] = o]
    /\ UNCHANGED <<ret, lastError>>
    /\ o \in OpType /\ CallAsked(o) /\ ~o.own /\ ~o.failed
    /\ o.dst \in Given \cup {0} /\ o.src \in Given \cup {0}
    /\ o.fn = "hipFree" /\ "hipFree" \notin Misused => o.dst > NVars
    /\ o.fault \in Fault \cup {"none"}
    /\ o.kind = "DeviceToDevice" /\ "hipMemcpy" \notin Misused => o.dst # o.src

\* A pointer of the program is one that an hipMalloc has returned.
LEMMA PointerGiven ==
    ASSUME TypeInv, NEW fn, NEW p \in Pointer(fn)
    PROVE  p \in Given /\ p \in Handle /\ p \in Nat
  BY PointerType DEF Pointer, Given, Allocates, Begun, Busy

\* A step of a host thread: a call that is over at once, or one that is proxied.
Calls(t) ==
    /\ pc[t] = "idle" /\ UNCHANGED <<memVars, hostMem>>
    /\ (Decided(t) /\ \E o : op' = [op EXCEPT ![t] = o]) \/ \E o : Asks(t, o)

\* Every call of a host thread is of these two kinds.
LEMMA HostAsks ==
    ASSUME TypeInv, MemInv, NEW t \in Thread, HostStep(t)
    PROVE  Calls(t)
<1>1. ASSUME pc[t] = "idle", NEW code \in {"hipSuccess", "hipErrorInvalidValue"},
             ReturnAtOnce(t, code)
      PROVE  /\ UNCHANGED <<memVars, hostMem>>
             /\ Decided(t) /\ \E o : op' = [op EXCEPT ![t] = o]
  BY <1>1 DEF ReturnAtOnce, Decided
<1>2. ASSUME pc[t] = "idle", NEW o \in OpType, Proxy(t, o), CallAsked(o), ~o.own, ~o.failed,
             o.dst \in Given \cup {0}, o.src \in Given \cup {0},
             o.fn = "hipFree" /\ "hipFree" \notin Misused => o.dst > NVars,
             o.fault \in Fault \cup {"none"},
             o.kind = "DeviceToDevice" /\ "hipMemcpy" \notin Misused => o.dst # o.src
      PROVE  UNCHANGED <<memVars, hostMem>> /\ \E q : Asks(t, q)
  BY <1>2 DEF Proxy, Asks
<1>3. NoOp \in OpType /\ NoOp.kind = "none" /\ NoOp.fault = "none" /\ NoOp.src = 0 /\ NoOp.dst = 0
      /\ ~NoOp.own /\ ~NoOp.failed
  BY NoOpType DEF NoOp
<1>4. ASSUME NEW kind \in CopyKinds, NEW d, NEW s, NEW v \in Val,
             NEW f \in (Fault \ {OutOfMemory}) \cup {"none"},
             pc[t] = "idle", Proxy(t, CopyOp(kind, d, s, v, f)),
             d \in Given \cup {0}, s \in Given \cup {0}, kind = "Default" => f = "none",
             kind = "DeviceToDevice" /\ "hipMemcpy" \notin Misused => d # s
      PROVE  UNCHANGED <<memVars, hostMem>> /\ \E q : Asks(t, q)
  <2> DEFINE o == CopyOp(kind, d, s, v, f)
  <2>1. f \in FaultKinds /\ f # OutOfMemory
    BY BridgeAssumption DEF FaultKinds, OutOfMemory
  <2>2. d \in Nat /\ s \in Nat /\ d \in Handle \cup {0} /\ s \in Handle \cup {0}
    BY <1>4 DEF Given, Handle
  <2>3. o \in OpType
    BY <2>1, <2>2, NoOpType DEF CopyOp, OpType, ApiNames
  <2>4. /\ o.fn = "hipMemcpy" /\ o.kind = kind /\ o.dst = d /\ o.src = s /\ o.fault = f
        /\ ~o.own /\ ~o.failed
    BY DEF CopyOp, NoOp
  <2> HIDE DEF o
  <2>5. CallAsked(o)
    BY <1>4, <2>1, <2>2, <2>4 DEF CallAsked, ApiNames
  <2>6. Proxy(t, o) /\ o.fault \in Fault \cup {"none"}
    BY <1>4, <2>4 DEF o
  <2> QED BY <1>2, <1>4, <2>3, <2>4, <2>5, <2>6
<1>5. ASSUME HipMalloc(t) PROVE Calls(t)
  <2>1. pc[t] = "idle"
    BY <1>5 DEF HipMalloc, MayCall
  <2>2. ASSUME NEW f \in Fault \ {"throw"}, Proxy(t, [NoOp EXCEPT !.fn = "hipMalloc", !.fault = f])
        PROVE  UNCHANGED <<memVars, hostMem>> /\ \E q : Asks(t, q)
    <3> DEFINE o == [NoOp EXCEPT !.fn = "hipMalloc", !.fault = f]
    <3>1. o \in OpType
      BY NoOpType, BridgeAssumption DEF OpType, ApiNames
    <3>2. /\ o.fn = "hipMalloc" /\ o.kind = "none" /\ o.dst = 0 /\ o.src = 0 /\ o.fault = f
          /\ ~o.own /\ ~o.failed
      BY DEF NoOp
    <3> HIDE DEF o
    <3>3. CallAsked(o)
      BY <3>2 DEF CallAsked, ApiNames
    <3>4. Proxy(t, o)
      BY <2>2 DEF o
    <3> QED BY <1>2, <2>1, <3>1, <3>2, <3>3, <3>4
  <2> QED BY <1>1, <1>5, <2>1, <2>2 DEF HipMalloc, Calls
<1>6. ASSUME HipFree(t) PROVE Calls(t)
  <2>1. pc[t] = "idle"
    BY <1>6 DEF HipFree, MayCall
  <2>2. ASSUME NEW h \in Pointer("hipFree"), Proxy(t, [NoOp EXCEPT !.fn = "hipFree", !.dst = h])
        PROVE  UNCHANGED <<memVars, hostMem>> /\ \E q : Asks(t, q)
    <3> DEFINE o == [NoOp EXCEPT !.fn = "hipFree", !.dst = h]
    <3>0. h \in Given /\ h \in Handle /\ h \in Nat
      BY PointerGiven
    <3>1. o \in OpType
      BY <3>0, NoOpType DEF OpType, ApiNames
    <3>2. /\ o.fn = "hipFree" /\ o.kind = "none" /\ o.dst = h /\ o.src = 0 /\ o.fault = "none"
          /\ ~o.own /\ ~o.failed
      BY DEF NoOp
    <3> HIDE DEF o
    <3>3. CallAsked(o)
      BY <3>0, <3>2 DEF CallAsked, ApiNames
    <3>4. Proxy(t, o)
      BY <2>2 DEF o
    <3>5. "hipFree" \notin Misused => h > NVars
      BY DEF Pointer
    <3> QED BY <1>2, <2>1, <3>0, <3>1, <3>2, <3>3, <3>4, <3>5
  <2> QED BY <1>1, <1>6, <2>1, <2>2 DEF HipFree, Calls
<1>7. ASSUME HipMemcpy(t) PROVE Calls(t)
  <2>1. pc[t] = "idle"
    BY <1>7 DEF HipMemcpy, MayCall
  <2>2. {"Default", "HostToDevice", "DeviceToHost", "DeviceToDevice"} \subseteq CopyKinds /\ Zero \in Val
    BY BridgeAssumption DEF CopyKinds
  <2>3. CASE Proxy(t, CopyOp("Default", 0, 0, Zero, "none"))
    BY <1>4, <2>1, <2>2, <2>3 DEF Calls
  <2>4. ASSUME NEW f \in Fault \ {OutOfMemory}, NEW p \in Pointer("hipMemcpy"), NEW v \in Val,
               Proxy(t, CopyOp("HostToDevice", p, 0, v, f))
        PROVE  UNCHANGED <<memVars, hostMem>> /\ \E q : Asks(t, q)
    BY <1>4, <2>1, <2>2, <2>4, PointerGiven
  <2>5. ASSUME NEW f \in Fault \ {OutOfMemory}, NEW p \in Pointer("hipMemcpy"),
               Proxy(t, CopyOp("DeviceToHost", 0, p, Zero, f))
        PROVE  UNCHANGED <<memVars, hostMem>> /\ \E q : Asks(t, q)
    BY <1>4, <2>1, <2>2, <2>5, PointerGiven
  <2>6. ASSUME NEW f \in Fault \ {OutOfMemory}, NEW p \in Pointer("hipMemcpy"),
               NEW q \in Pointer("hipMemcpy"), p = q => "hipMemcpy" \in Misused,
               Proxy(t, CopyOp("DeviceToDevice", p, q, Zero, f))
        PROVE  UNCHANGED <<memVars, hostMem>> /\ \E r : Asks(t, r)
    BY <1>4, <2>1, <2>2, <2>6, PointerGiven
  <2> QED BY <1>1, <1>7, <2>1, <2>3, <2>4, <2>5, <2>6 DEF HipMemcpy, Calls
<1>8. ASSUME HipMemcpyToSymbol(t) PROVE Calls(t)
  <2>1. pc[t] = "idle"
    BY <1>8 DEF HipMemcpyToSymbol, MayCall
  <2>2. ASSUME NEW h \in 1 .. NVars, NEW v \in Val, NEW f \in Fault \ {OutOfMemory},
               Proxy(t, CopyOp("HostToDevice", h, 0, v, f))
        PROVE  UNCHANGED <<memVars, hostMem>> /\ \E q : Asks(t, q)
    <3>1. h \in Given
      <4>1. h \in Handle /\ h \in Nat /\ h <= NVars /\ NVars \in Nat
        <5>1. MaxCalls * Cardinality(Thread) \in Nat
          <6>1. MaxCalls \in Nat /\ Cardinality(Thread) \in Nat
            BY BridgeAssumption, FS_CardinalityType
          <6> QED BY <6>1
        <5> QED BY <5>1, BridgeAssumption DEF Handle
      <4>2. h < nextHandle /\ nextHandle \in Nat
        BY <4>1 DEF MemInv, HandlesOK, TypeInv, MemOK
      <4>3. ASSUME NEW u \in Thread, Allocates(u) PROVE op[u].dst # h
        BY <4>1, <4>3 DEF MemInv, MallocOK
      <4> QED BY <4>1, <4>2, <4>3 DEF Given
    <3> QED BY <1>4, <2>1, <2>2, <3>1 DEF CopyKinds
  <2>3. ASSUME NEW code \in Code,
               op' = [op EXCEPT ![t] = [NoOp EXCEPT !.fn = "unknown symbol"]],
               lastError' = [lastError EXCEPT ![t] =
                                IF code = "hipSuccess" THEN "hipErrorInvalidSymbol" ELSE code],
               ret' = [ret EXCEPT ![t] = code], UNCHANGED <<pc, hostMem, memVars>>
        PROVE  UNCHANGED <<memVars, hostMem>> /\ Decided(t) /\ \E o : op' = [op EXCEPT ![t] = o]
    BY <2>3 DEF Decided
  <2>4. CASE Proxy(t, CopyOp("Default", 0, 0, Zero, "none"))
    <3>1. "Default" \in CopyKinds /\ Zero \in Val
      BY BridgeAssumption DEF CopyKinds
    <3> QED BY <1>4, <2>1, <2>4, <3>1 DEF Calls
  <2> QED BY <1>1, <1>8, <2>1, <2>2, <2>3, <2>4 DEF HipMemcpyToSymbol, Calls
<1>9. ASSUME HipLaunchKernel(t)
      PROVE  UNCHANGED <<memVars, hostMem>> /\ pc[t] = "idle" /\ \E o : Asks(t, o)
  <2>1. pc[t] = "idle"
    BY <1>9 DEF HipLaunchKernel, MayCall
  <2>2. PICK k \in Kernel, p \in Pointer("hipLaunchKernel"), v \in Val,
             f \in Fault \ {OutOfMemory}, a \in BOOLEAN :
           Proxy(t, [NoOp EXCEPT !.fn = "hipLaunchKernel", !.kernel = k,
                                 !.dst = p, !.val = v, !.fault = f, !.asserts = a])
    BY <1>9 DEF HipLaunchKernel
  <2> DEFINE o == [NoOp EXCEPT !.fn = "hipLaunchKernel", !.kernel = k, !.dst = p,
                               !.val = v, !.fault = f, !.asserts = a]
  <2>3. p \in Given /\ p \in Handle /\ p \in Nat
    BY PointerGiven
  <2>4. o \in OpType
    BY <2>3, NoOpType, BridgeAssumption DEF OpType, ApiNames
  <2>5. /\ o.fn = "hipLaunchKernel" /\ o.kind = "none" /\ o.dst = p /\ o.src = 0 /\ o.fault = f
        /\ ~o.own /\ ~o.failed
    BY DEF NoOp
  <2>6. Proxy(t, o)
    BY <2>2
  <2> HIDE DEF o
  <2>7. CallAsked(o)
    BY <2>3, <2>5 DEF CallAsked, ApiNames
  <2> QED BY <1>2, <2>1, <2>3, <2>4, <2>5, <2>6, <2>7
<1>10. ASSUME HipGetLastError(t)
       PROVE  /\ UNCHANGED <<memVars, hostMem>> /\ pc[t] = "idle"
              /\ Decided(t) /\ \E o : op' = [op EXCEPT ![t] = o]
  BY <1>10 DEF HipGetLastError, Decided
<1> QED BY <1>5, <1>6, <1>7, <1>8, <1>9, <1>10 DEF HostStep, Calls

--------------------------------------------------------------------------------
(* The handles.                                                             *)

\* No call takes the error of another for its own, and none finds a staging
\* buffer taken.
Attributed ==
    \A t \in Thread :
        /\ pc[t] = "malloc" /\ popped[t] => op[t].own
        /\ pc[t] = "popped" => (op[t].failed \/ popped[t]) = op[t].own
        /\ pc[t] = "finished" => op[t].failed = op[t].own
        /\ pc[t] = "queued" /\ IsLaunch(t) /\ op[t].kernel \in KernelMap =>
               /\ Prints(op[t].kernel) => printfMap = None
               /\ Asserts(op[t].kernel) => abortMap = None

\* The assertion flag is the first of the buffers there are at the start.
LEMMA AbortHandle == AbortVar \in Handle /\ AbortVar = 1 /\ NVars \in Nat \ {0} /\ NVars \in Handle
<1>1. MaxCalls * Cardinality(Thread) \in Nat
  <2>1. Cardinality(Thread) \in Nat
    BY BridgeAssumption, FS_CardinalityType
  <2>2. MaxCalls \in Nat
    BY BridgeAssumption
  <2> QED BY <2>1, <2>2
<1> QED BY <1>1, BridgeAssumption DEF AbortVar, Handle

\* It holds at the start.
LEMMA InitMem == Init => MemInv
<1> SUFFICES ASSUME Init PROVE MemInv
  OBVIOUS
<1>1. /\ mgr = [h \in Handle |-> IF h <= NVars THEN "live" ELSE "unused"]
      /\ nextHandle = NVars + 1
      /\ \A t \in Thread : pc[t] = "idle"
  BY DEF Init
<1>2. HandlesOK
  <2>1. Handle \subseteq Nat
    BY DEF Handle
  <2> QED BY <1>1, <2>1, AbortHandle DEF HandlesOK
<1> QED BY <1>1, <1>2 DEF MemInv, MallocOK, AskedOK, Allocates, Begun

\* A host thread names only handles that were given to it.
LEMMA HostMem ==
    ASSUME TypeInv, MemInv, NEW t \in Thread, HostStep(t)
    PROVE  MemInv'
<1>1. /\ pc[t] = "idle" /\ UNCHANGED <<mgr, nextHandle>>
      /\ \A u \in Thread \ {t} : pc'[u] = pc[u] /\ op'[u] = op[u]
      /\ pc'[t] \in {"idle", "queued"}
  BY HostMoves DEF MadeCall, memVars
<1>2. Given' = Given
  BY <1>1 DEF Given, Allocates, Begun
<1>3. HandlesOK'
  BY <1>1 DEF MemInv, HandlesOK
<1>4. ASSUME NEW u \in Thread \ {t} PROVE MallocOK(u)' /\ AskedOK(u)'
  BY <1>1, <1>2 DEF MemInv, MallocOK, AskedOK, Allocates, Begun, Live
<1>5. MallocOK(t)'
  BY <1>1 DEF MallocOK, Allocates, Begun
<1>6. AskedOK(t)'
  <2>1. CASE pc' = pc
    BY <1>1, <2>1 DEF AskedOK
  <2>2. ASSUME NEW o, Asks(t, o) PROVE AskedOK(t)'
    <3>1. op'[t] = o
      BY <2>2, OpFacts DEF Asks
    <3> QED BY <1>2, <2>2, <3>1 DEF Asks, AskedOK
  <2> QED BY <2>1, <2>2, HostAsks DEF Calls, Decided
<1> QED BY <1>3, <1>4, <1>5, <1>6 DEF MemInv

\* Only the last step on the main thread finishes a call.
LEMMA OnlyFinish ==
    ASSUME TypeInv, NEW t \in Thread, BridgeStep(t), pc'[t] = "finished"
    PROVE  Finish(t)
<1>1. ASSUME NEW p \in PcType \ {"finished"}, pc' = [pc EXCEPT ![t] = p] PROVE FALSE
  BY <1>1, OpFacts
<1>2. ~(StartMalloc(t) \/ MallocPopped(t) \/ CopyMapped(t) \/ PopScope(t) \/ Return(t))
  BY <1>1 DEF StartMalloc, MallocPopped, CopyMapped, PopScope, Return, PcType
<1>3. ~StartFree(t)
  BY <1>1 DEF StartFree, PcType
<1>4. ~(CopyRejected(t) \/ PrintfMapped(t) \/ AbortMapped(t))
  BY <1>1 DEF CopyRejected, PrintfMapped, AbortMapped, Rejected, PcType
<1>5. ~StartMemcpy(t)
  BY <1>1 DEF StartMemcpy, Thrown, Ran, PcType
<1>6. ~StartLaunch(t)
  BY <1>1 DEF StartLaunch, Submit, Thrown, Ran, PcType
<1> QED BY <1>2, <1>3, <1>4, <1>5, <1>6 DEF BridgeStep

\* An hipMalloc that fails drops its buffer before it is finished.
LEMMA FinishDrops ==
    ASSUME TypeInv, Attributed, NEW t \in Thread, Finish(t), op[t].fn = "hipMalloc"
    PROVE  op'[t].own => ~(op'[t].dst \in Handle /\ mgr'[op'[t].dst] = "live")
<1>1. op'[t].own = op[t].own /\ op'[t].dst = op[t].dst
  BY OpFacts DEF Finish, OpType
<1>2. op[t].own => (op[t].failed \/ popped[t])
  BY DEF Finish, Attributed
<1>3. op[t].own => mgr' = [mgr EXCEPT ![op[t].dst] = "gone"]
  BY <1>2 DEF Finish, Drop
<1> QED BY <1>1, <1>3 DEF Live, TypeInv, MemOK

\* The main thread gives out no handle twice, and none that is in use.
LEMMA BridgeMem ==
    ASSUME TypeInv, LInv, Attributed, MemInv, NEW t \in Thread, BridgeStep(t)
    PROVE  MemInv'
<1>1. CallMoves(t) /\ HandlesMove(t)
  BY BridgeMoves DEF Moves
<1>2. /\ pc[t] # "idle" /\ pc'[t] # "queued" /\ op'[t].fn = op[t].fn
      /\ \A u \in Thread \ {t} : pc'[u] = pc[u] /\ op'[u] = op[u]
  BY <1>1 DEF CallMoves
<1>3. /\ mgr \in [Handle -> {"unused", "live", "gone"}] /\ nextHandle \in Nat
      /\ nextHandle > NVars /\ Handle \subseteq Nat
  BY DEF TypeInv, MemOK, MemInv, HandlesOK, Handle
<1>4. MallocOK(t) /\ AskedOK(t)
  BY DEF MemInv
<1>5. CASE UNCHANGED <<mgr, nextHandle>> /\ op'[t].dst = op[t].dst
           /\ pc'[t] # "malloc" /\ (pc[t] = "queued" => op[t].fn # "hipMalloc")
  <2>1. HandlesOK'
    BY <1>5 DEF MemInv, HandlesOK
  <2>2. Allocates(t)' => Allocates(t)
    BY <1>2, <1>5 DEF Allocates, Begun
  <2>3. MallocOK(t)'
    <3>1. ASSUME Allocates(t)', pc'[t] = "finished", op'[t].own 
          PROVE  ~(op'[t].dst \in Handle /\ mgr'[op'[t].dst] = "live")
      <4>1. Finish(t)
        BY <3>1, OnlyFinish
      <4> QED BY <1>2, <3>1, <4>1, FinishDrops DEF Allocates
    <3> QED BY <1>4, <1>5, <2>2, <3>1 DEF MallocOK, Live
  <2>4. Given \subseteq Given'
    BY <1>2, <1>5, <2>2 DEF Given, Allocates, Begun
  <2>5. ASSUME NEW u \in Thread \ {t} PROVE MallocOK(u)' /\ AskedOK(u)'
    BY <1>2, <1>5, <2>4 DEF MemInv, MallocOK, AskedOK, Allocates, Begun, Live
  <2>6. AskedOK(t)'
    BY <1>2 DEF AskedOK
  <2> QED BY <2>1, <2>3, <2>5, <2>6 DEF MemInv
<1>6. CASE /\ nextHandle' = nextHandle /\ op'[t].dst = op[t].dst /\ pc'[t] # "malloc"
           /\ mgr' = [mgr EXCEPT ![op[t].dst] = "gone"]
           /\ \/ pc[t] = "malloc"
              \/ pc[t] = "queued" /\ op[t].fn = "hipFree"
              \/ Begun(t) /\ op[t].fn = "hipMalloc"
  <2>1. "hipFree" \notin Misused => op[t].dst # AbortVar
    <3>1. op[t].dst \in Nat /\ op[t].dst > NVars => op[t].dst # AbortVar
      BY AbortHandle
    <3>2. op[t].dst \in Nat
      BY OpFacts DEF OpType
    <3>3. "hipFree" \notin Misused => op[t].dst > NVars
      BY <1>4, <1>6 DEF MallocOK, AskedOK, Allocates, Begun
    <3> QED BY <3>1, <3>2, <3>3
  <2>2. HandlesOK'
    <3>1. \A h \in Handle : mgr'[h] = "live" => mgr[h] = "live"
      BY <1>3, <1>6
    <3>2. "hipFree" \notin Misused => mgr'[AbortVar] = "live"
      BY <1>3, <1>6, <2>1, AbortHandle DEF MemInv, HandlesOK
    <3> QED BY <1>6, <3>1, <3>2 DEF MemInv, HandlesOK
  <2>3. Allocates(t)' => Allocates(t)
    BY <1>2, <1>4, <1>6 DEF Allocates, Begun, MallocOK
  <2>4. \A h : Live(h)' => Live(h)
    BY <1>3, <1>6 DEF Live
  <2>5. MallocOK(t)'
    <3>1. ASSUME Allocates(t)', pc'[t] = "finished", op'[t].own 
          PROVE  ~(op'[t].dst \in Handle /\ mgr'[op'[t].dst] = "live")
      <4>1. Finish(t)
        BY <3>1, OnlyFinish
      <4> QED BY <1>2, <3>1, <4>1, FinishDrops DEF Allocates
    <3> QED BY <1>4, <1>6, <2>3, <3>1 DEF MallocOK, Live
  <2>6. Given \subseteq Given'
    BY <1>2, <1>6, <2>3 DEF Given, Allocates, Begun
  <2>7. ASSUME NEW u \in Thread \ {t} PROVE MallocOK(u)' /\ AskedOK(u)'
    <3>1. op'[u].dst = op[u].dst /\ pc'[u] = pc[u] /\ op'[u] = op[u]
      BY <1>2
    <3>2. MallocOK(u)'
      BY <1>6, <2>4, <3>1 DEF MemInv, MallocOK, Allocates, Begun
    <3>3. AskedOK(u)'
      BY <2>6, <3>1 DEF MemInv, AskedOK
    <3> QED BY <3>2, <3>3
  <2>8. AskedOK(t)'
    BY <1>2 DEF AskedOK
  <2> QED BY <2>2, <2>5, <2>7, <2>8 DEF MemInv
<1>7. CASE /\ nextHandle' = nextHandle + 1 /\ op'[t].dst = nextHandle
           /\ mgr' = [mgr EXCEPT ![nextHandle] = "live"]
  <2>1. HandlesOK'
    <3>1. nextHandle' > NVars /\ nextHandle # AbortVar
      BY <1>3, <1>7, AbortHandle
    <3>2. ASSUME NEW h \in Handle, nextHandle' <= h PROVE mgr'[h] # "live"
      <4>1. nextHandle <= h /\ h # nextHandle
        BY <1>3, <1>7, <3>2
      <4> QED BY <1>3, <1>7, <4>1 DEF MemInv, HandlesOK
    <3>3. mgr'[AbortVar] = mgr[AbortVar]
      BY <1>3, <1>7, <3>1, AbortHandle
    <3> QED BY <3>1, <3>2, <3>3 DEF MemInv, HandlesOK
  <2>2. pc'[t] # "finished"
    <3> SUFFICES ASSUME pc'[t] = "finished" PROVE FALSE
      OBVIOUS
    <3>1. Finish(t)
      BY OnlyFinish
    <3>2. nextHandle' = nextHandle
      BY <3>1 DEF Finish
    <3> QED BY <1>3, <1>7, <3>2
  <2>3. MallocOK(t)'
    <3>1. pc'[t] = "malloc" => op[t].fn = "hipMalloc"
      <4>1. ASSUME ~StartMalloc(t) PROVE nextHandle' = nextHandle
        BY <4>1 DEF BridgeStep, MallocPopped, StartFree, StartMemcpy, CopyMapped, CopyRejected,
                    StartLaunch, PrintfMapped, AbortMapped, PopScope, Finish, Return, memVars
      <4>2. StartMalloc(t)
        BY <1>3, <1>7, <4>1
      <4> QED BY <4>2 DEF StartMalloc, Starts
    <3> QED BY <1>2, <1>3, <1>7, <2>2, <3>1 DEF MallocOK
  <2>4. Given \subseteq Given'
    <3> SUFFICES ASSUME NEW h \in Given PROVE h \in Given'
      OBVIOUS
    <3>1. h \in Nat /\ h < nextHandle /\ h \in Handle
      BY <1>3 DEF Given
    <3>2. h < nextHandle' /\ h # nextHandle
      BY <1>3, <1>7, <3>1
    <3> QED BY <1>2, <1>7, <3>1, <3>2 DEF Given, Allocates, Begun
  <2>5. ASSUME NEW u \in Thread \ {t} PROVE MallocOK(u)' /\ AskedOK(u)'
    <3>1. pc'[u] = pc[u] /\ op'[u] = op[u] /\ op[u].dst \in Nat
      BY <1>2, OpFacts DEF OpType
    <3>2. ASSUME Allocates(u) PROVE op[u].dst < nextHandle' /\ (Live(op[u].dst)' => Live(op[u].dst))
      <4>1. op[u].dst < nextHandle
        BY <3>2 DEF MemInv, MallocOK
      <4> QED BY <1>3, <1>7, <3>1, <4>1 DEF Live
    <3>3. MallocOK(u)'
      BY <3>1, <3>2 DEF MemInv, MallocOK, Allocates, Begun
    <3>4. AskedOK(u)'
      BY <2>4, <3>1 DEF MemInv, AskedOK
    <3> QED BY <3>3, <3>4
  <2>6. AskedOK(t)'
    BY <1>2 DEF AskedOK
  <2> QED BY <2>1, <2>3, <2>5, <2>6 DEF MemInv
<1> QED BY <1>1, <1>5, <1>6, <1>7 DEF HandlesMove

\* The step of the device that returns to the host, put together.
LEMMA ResponseStep ==
    ASSUME NEW t \in Thread, Answered[t] # NoCall, Answered[t].data = Absent,
           ret' = [ret EXCEPT ![t] = Answered[t].code],
           lastError' = IF Answered[t].code = "hipSuccess" THEN lastError
                        ELSE [lastError EXCEPT ![t] = Answered[t].code],
           Requested' = [Requested EXCEPT ![t] = NoCall],
           Answered' = [Answered EXCEPT ![t] = NoCall],
           UNCHANGED <<Store, nextHandle, hostMem>>
    PROVE  Device!Next
  BY DEF Device!Next, Device!Respond, Device!Remember

--------------------------------------------------------------------------------
(* The store.                                                               *)

\* The call of t is an hipMalloc whose buffer is not going to belong to the
\* program.
Failing(t) == pc[t] # "idle" /\ op[t].fn = "hipMalloc" /\ op[t].own

\* The handles that will never belong to the program.
LEMMA StillbornIs ==
    Stillborn = {op[u].dst : u \in {v \in Thread : Failing(v)}}
  BY DEF Stillborn, Busy, Failing

\* They stay the same when t's call fails neither before nor after the step, or
\* fails both before and after with the same handle.
LEMMA StillbornKept ==
    ASSUME NEW t \in Thread, \A u \in Thread \ {t} : pc'[u] = pc[u] /\ op'[u] = op[u],
           Failing(t)' <=> Failing(t), Failing(t) => op'[t].dst = op[t].dst
    PROVE  Stillborn' = Stillborn
<1>1. \A u \in Thread : Failing(u)' <=> Failing(u)
  BY DEF Failing
<1>2. \A u \in Thread : Failing(u) => op'[u].dst = op[u].dst
  OBVIOUS
<1>3. {v \in Thread : Failing(v)'} = {v \in Thread : Failing(v)}
  BY <1>1
<1>4. Stillborn' = {op'[u].dst : u \in {v \in Thread : Failing(v)'}}
  BY DEF Stillborn, Busy, Failing
<1>5. Stillborn' = {op'[u].dst : u \in {v \in Thread : Failing(v)}}
  BY <1>3, <1>4
<1> QED BY <1>2, <1>5, StillbornIs

\* A buffer of the mapped store.
LEMMA StoreAt ==
    ASSUME NEW h \in Handle
    PROVE  /\ mgr[h] = "live" /\ h \notin Stillborn => Store[h] = mem[h]
           /\ ~(mgr[h] = "live" /\ h \notin Stillborn) => Store[h] = Absent
  BY DEF Store

\* A step that changes no buffer of the program.
LEMMA StoreKept ==
    ASSUME mem' = mem,
           \A h \in Handle : (mgr'[h] = "live" /\ h \notin Stillborn')
                              <=> (mgr[h] = "live" /\ h \notin Stillborn)
    PROVE  Store' = Store
  BY DEF Store

\* A step that writes one buffer of the program.
LEMMA StoreWritten ==
    ASSUME TypeInv, NEW d \in Handle, NEW v, mem' = [mem EXCEPT ![d] = v],
           mgr' = mgr, Stillborn' = Stillborn, mgr[d] = "live", d \notin Stillborn
    PROVE  Store' = [Store EXCEPT ![d] = v]
  BY DEF Store, TypeInv, MemOK

\* A handle that was given out is alive on the device when it is live here.
LEMMA GivenFacts ==
    ASSUME TypeInv, LInv, NEW h \in Given \cup {0}
    PROVE  /\ Device!Alive(h) <=> Live(h)
           /\ Live(h) => Store[h] = mem[h] /\ h \notin Stillborn /\ h \in Handle /\ mem[h] \in Val
<1>1. 0 \notin Handle
  BY DEF Handle
<1>2. ASSUME NEW u \in Thread, Failing(u) PROVE Allocates(u)
  BY <1>2, OpFacts DEF Failing, Allocates, Begun, LInv, LaunchInv, FreshOK
<1>3. h \in Handle => h \notin Stillborn
  BY <1>1, <1>2, StillbornIs DEF Given
<1>4. h \in Handle => mem[h] \in Val
  BY DEF TypeInv, MemOK
<1>5. Live(h) => Store[h] = mem[h]
  BY <1>3, StoreAt DEF Live
<1>6. Live(h) => Device!Alive(h)
  BY <1>4, <1>5, AbstractionAssumption DEF Device!Alive, Live
<1>7. Device!Alive(h) => Live(h)
  BY <1>3, StoreAt DEF Device!Alive, Live
<1> QED BY <1>3, <1>4, <1>5, <1>6, <1>7 DEF Live

--------------------------------------------------------------------------------
(* The host's steps.                                                        *)

\* What a call asks for is a request of the device.
LEMMA ArgumentsType ==
    ASSUME NEW o \in OpType, CallAsked(o)
    PROVE  Arguments(o) \in Requests /\ Arguments(o) # NoCall
<1>1. Arguments(o) \in Requests
  BY DEF Arguments, Requests, OpType, CallAsked
<1> QED BY <1>1, AbstractionAssumption

\* A call of a host thread is an invocation, a refusal, or a query of the error.
LEMMA HostRefines ==
    ASSUME TypeInv, MemInv, LInv, NEW t \in Thread, HostStep(t)
    PROVE  Device!Next
<1>1. pc[t] = "idle" /\ UNCHANGED <<memVars, hostMem>>
  BY HostAsks DEF Calls
<1>2. Requested[t] = NoCall
  BY <1>1, MappedAt
<1>3. Store' = Store
  <2>1. \A u \in Thread \ {t} : pc'[u] = pc[u] /\ op'[u] = op[u]
    BY HostMoves DEF MadeCall
  <2>2. ~Failing(t)
    BY <1>1 DEF Failing
  <2>3. ~Failing(t)'
    <3>1. CASE Decided(t)
      BY <1>1, <3>1 DEF Decided, Failing
    <3>2. ASSUME NEW o, Asks(t, o) PROVE ~Failing(t)'
      <4>1. op'[t] = o
        BY <3>2, OpFacts DEF Asks
      <4> QED BY <3>2, <4>1 DEF Asks, Failing
    <3> QED BY <3>1, <3>2, HostAsks DEF Calls
  <2>4. Stillborn' = Stillborn
    BY <2>1, <2>2, <2>3, StillbornKept
  <2> QED BY <1>1, <2>4, StoreKept DEF memVars
<1>4. ASSUME Decided(t), NEW o, op' = [op EXCEPT ![t] = o] PROVE Device!Next
  <2>1. pc' = [pc EXCEPT ![t] = "idle"]
    BY <1>1, <1>4, OpFacts DEF Decided, TypeInv, CallOK
  <2>2. Requested' = [Requested EXCEPT ![t] = NoCall] /\ Answered' = [Answered EXCEPT ![t] = NoCall]
    <3>1. Leaves(t, "idle", o)
      BY <1>4, <2>1 DEF Leaves
    <3>2. RequestIn("idle", o) = NoCall /\ AnswerIn("idle", o) = NoCall
      BY DEF RequestIn, AnswerIn
    <3> QED BY <3>1, <3>2, Maps
  <2>3. Requested[t] = NoCall /\ Answered[t] = NoCall
    BY <1>1, MappedAt
  <2>4. Requested' = Requested /\ Answered' = Answered
    BY <2>2, <2>3 DEF Requested, Answered
  <2>5. ASSUME NEW code \in {"hipSuccess", "hipErrorInvalidValue"}, Returns(t, code)
        PROVE  Device!Refuse(t)
    BY <1>1, <1>2, <1>3, <2>4, <2>5 DEF Device!Refuse, Device!Remember, Returns, memVars
  <2>6. ASSUME NEW code \in Code, ret' = [ret EXCEPT ![t] = code],
               lastError' = [lastError EXCEPT ![t] = IF code = "hipSuccess" THEN "hipErrorInvalidSymbol" ELSE code]
        PROVE  Device!RefuseSymbol(t)
    <3>1. (IF code = "hipSuccess" THEN "hipErrorInvalidSymbol" ELSE code) # "hipSuccess"
      OBVIOUS
    <3> QED BY <1>1, <1>2, <1>3, <2>4, <2>6, <3>1 DEF Device!RefuseSymbol, Device!Remember, memVars
  <2>7. ASSUME ret' = [ret EXCEPT ![t] = lastError[t]], lastError' = [lastError EXCEPT ![t] = "hipSuccess"]
        PROVE  Device!Forget(t)
    BY <1>1, <1>2, <1>3, <2>4, <2>7 DEF Device!Forget, memVars
  <2> QED BY <1>4, <2>5, <2>6, <2>7 DEF Decided, Device!Next
<1>5. ASSUME NEW o, Asks(t, o) PROVE Device!Next
  <2>1. /\ Requested' = [Requested EXCEPT ![t] = Arguments(o)]
        /\ Answered' = [Answered EXCEPT ![t] = NoCall]
    <3>1. Leaves(t, "queued", o)
      BY <1>5 DEF Leaves, Asks
    <3>2. RequestIn("queued", o) = Arguments(o) /\ AnswerIn("queued", o) = NoCall
      BY DEF RequestIn, AnswerIn
    <3> QED BY <3>1, <3>2, Maps
  <2>2. Answered' = Answered
    BY <1>1, <2>1, MappedAt DEF Answered
  <2>3. Arguments(o) \in Requests
    BY <1>5, ArgumentsType DEF Asks
  <2>4. Requested'[t] = Arguments(o)
    BY <2>1 DEF Requested
  <2>5. Device!Invoke(t)
    BY <1>1, <1>2, <1>3, <1>5, <2>1, <2>2, <2>3, <2>4 DEF Device!Invoke, Asks, memVars
  <2> QED BY <2>5 DEF Device!Next
<1> QED BY <1>4, <1>5, HostAsks DEF Calls

--------------------------------------------------------------------------------
(* The start of a call is the instant at which it takes effect.             *)

\* The step of the device at which a request takes effect, put together: the
\* code, the data and the store after it are those that the device computes.
LEMMA ApplyStep ==
    ASSUME TypeInv, MemInv, NEW t \in Thread, pc[t] = "queued", NEW p \in PcType \ {"idle", "queued"},
           NEW o, pc' = [pc EXCEPT ![t] = p], op' = [op EXCEPT ![t] = o],
           Arguments(o) = Arguments(op[t]), Due(o) = Device!Verdict(Arguments(op[t])),
           (IF p = "copy" THEN o.data ELSE Absent) = Device!Data(Arguments(op[t])),
           Store' = IF Device!Accepted(Arguments(op[t])) THEN Device!Effect(Arguments(op[t])) ELSE Store,
           nextHandle' = IF op[t].fn = "hipMalloc" THEN nextHandle + 1 ELSE nextHandle,
           UNCHANGED <<ret, lastError, hostMem>>
    PROVE  Device!Next
<1> DEFINE r == Arguments(op[t])
<1>1. Requested[t] = r /\ Answered[t] = NoCall
  BY MappedAt
<1>2. r # NoCall
  BY ArgumentsType, OpFacts DEF MemInv, AskedOK
<1>3. /\ Requested' = [Requested EXCEPT ![t] = r]
      /\ Answered' = [Answered EXCEPT ![t] = [code |-> Device!Verdict(r), data |-> Device!Data(r)]]
  <2>1. Leaves(t, p, o)
    BY DEF Leaves
  <2>2. /\ RequestIn(p, o) = r
        /\ AnswerIn(p, o) = [code |-> Device!Verdict(r), data |-> Device!Data(r)]
    BY DEF RequestIn, AnswerIn
  <2> QED BY <2>1, <2>2, Maps
<1>4. Requested' = Requested
  BY <1>1, <1>3 DEF Requested
<1>5. r.fn = op[t].fn
  BY DEF Arguments
<1> HIDE DEF r
<1>6. Store' = (IF Device!Accepted(r) THEN Device!Effect(r) ELSE Store)
      /\ nextHandle' = IF r.fn = "hipMalloc" THEN nextHandle + 1 ELSE nextHandle
  BY <1>5 DEF r
<1>7. Device!Apply(t)
  BY <1>1, <1>2, <1>3, <1>4, <1>6 DEF Device!Apply
<1> QED BY <1>7 DEF Device!Next

\* A record that differs in other fields asks for the same.
LEMMA SameArguments ==
    ASSUME NEW o, NEW q, q.fn = o.fn, q.kind = o.kind, q.src = o.src, q.val = o.val,
           q.dst = o.dst \/ o.fn = "hipMalloc", q.kernel = o.kernel,
           q.fault = o.fault, q.asserts = o.asserts
    PROVE  Arguments(q) = Arguments(o)
  BY DEF Arguments

\* The code a call is going to return, by the fields of its record.
LEMMA DueIs ==
    ASSUME NEW o \in OpType
    PROVE  Due(o) = IF o.own
                    THEN IF o.fn = "hipMalloc" THEN "hipErrorOutOfMemory" ELSE "hipErrorInvalidValue"
                    ELSE IF o.fn = "hipLaunchKernel" /\ o.asserts THEN "hipErrorAssert"
                    ELSE o.code
<1> DEFINE q == [o EXCEPT !.failed = o.own]
<1>1. q.failed = o.own /\ q.code = o.code /\ q.fn = o.fn
  BY DEF OpType
<1>2. Due(o) = IF o.fn = "hipLaunchKernel" /\ ~o.own /\ o.asserts THEN "hipErrorAssert"
               ELSE Result(q)
  BY DEF Due
<1> HIDE DEF q
<1>3. o.own \in BOOLEAN
  BY DEF OpType
<1> QED BY <1>1, <1>2, <1>3 DEF Result

\* What the device says of a request, by the fields of the call.
LEMMA AcceptedIs ==
    ASSUME NEW o
    PROVE  Device!Accepted(Arguments(o)) <=>
             /\ o.fault = "none"
             /\ o.fn = "hipMemcpy" =>
                  /\ o.kind # "Default"
                  /\ o.kind \in {"DeviceToHost", "DeviceToDevice"} => Device!Alive(o.src)
                  /\ o.kind \in {"HostToDevice", "DeviceToDevice"} => Device!Alive(o.dst)
                  /\ o.kind = "DeviceToDevice" => o.src # o.dst
             /\ o.fn = "hipLaunchKernel" => o.kernel \in KernelMap /\ Device!Alive(o.dst)
<1> DEFINE r == Arguments(o)
<1>1. /\ r.fn = o.fn /\ r.kind = o.kind /\ r.src = o.src /\ r.kernel = o.kernel /\ r.fault = o.fault
      /\ o.fn # "hipMalloc" => r.dst = o.dst
  BY DEF Arguments
<1> HIDE DEF r
<1>2. Device!Accepted(r) <=>
             /\ o.fault = "none"
             /\ o.fn = "hipMemcpy" =>
                  /\ o.kind # "Default"
                  /\ o.kind \in {"DeviceToHost", "DeviceToDevice"} => Device!Alive(o.src)
                  /\ o.kind \in {"HostToDevice", "DeviceToDevice"} => Device!Alive(o.dst)
                  /\ o.kind = "DeviceToDevice" => o.src # o.dst
             /\ o.fn = "hipLaunchKernel" => o.kernel \in KernelMap /\ Device!Alive(o.dst)
  <2>1. CASE o.fn = "hipMalloc"
    BY <1>1, <2>1 DEF Device!Accepted
  <2>2. CASE o.fn # "hipMalloc"
    BY <1>1, <2>2 DEF Device!Accepted
  <2> QED BY <2>1, <2>2
<1> QED BY <1>2 DEF r

\* The code the device returns for a request, by the fields of the call.
LEMMA VerdictIs ==
    ASSUME NEW o
    PROVE  Device!Verdict(Arguments(o)) =
             IF o.fn = "hipLaunchKernel" /\ o.kernel \notin KernelMap
             THEN "hipErrorInvalidDeviceFunction"
             ELSE IF Device!Accepted(Arguments(o))
                  THEN IF o.asserts THEN "hipErrorAssert" ELSE "hipSuccess"
             ELSE IF o.fn = "hipMalloc" THEN "hipErrorOutOfMemory" ELSE "hipErrorInvalidValue"
<1> DEFINE r == Arguments(o)
<1>1. r.fn = o.fn /\ r.kernel = o.kernel /\ r.asserts = o.asserts
  BY DEF Arguments
<1> HIDE DEF r
<1>2. Device!Verdict(r) =
             IF o.fn = "hipLaunchKernel" /\ o.kernel \notin KernelMap
             THEN "hipErrorInvalidDeviceFunction"
             ELSE IF Device!Accepted(r)
                  THEN IF o.asserts THEN "hipErrorAssert" ELSE "hipSuccess"
             ELSE IF o.fn = "hipMalloc" THEN "hipErrorOutOfMemory" ELSE "hipErrorInvalidValue"
  BY <1>1 DEF Device!Verdict
<1> QED BY <1>2 DEF r

\* The data it reads.
LEMMA DataIs ==
    ASSUME NEW o
    PROVE  Device!Data(Arguments(o)) =
             IF ~(o.kind = "DeviceToHost" /\ o.fault # "throw" /\ Device!Alive(o.src)) THEN Absent
             ELSE IF Device!Accepted(Arguments(o)) THEN Store[o.src] ELSE Zero
<1> DEFINE r == Arguments(o)
<1>1. r.kind = o.kind /\ r.fault = o.fault /\ r.src = o.src
  BY DEF Arguments
<1> HIDE DEF r
<1>2. Device!Data(r) =
             IF ~(o.kind = "DeviceToHost" /\ o.fault # "throw" /\ Device!Alive(o.src)) THEN Absent
             ELSE IF Device!Accepted(r) THEN Store[o.src] ELSE Zero
  BY <1>1 DEF Device!Data
<1> QED BY <1>2 DEF r

\* The store it leaves.
LEMMA EffectIs ==
    ASSUME NEW o
    PROVE  Device!Effect(Arguments(o)) =
             IF o.fn = "hipMalloc" THEN [Store EXCEPT ![nextHandle] = Zero]
             ELSE IF o.fn = "hipFree" THEN [Store EXCEPT ![o.dst] = Absent]
             ELSE IF o.fn = "hipLaunchKernel" \/ o.kind = "HostToDevice"
             THEN [Store EXCEPT ![o.dst] = o.val]
             ELSE IF o.kind = "DeviceToHost" THEN Store
             ELSE [Store EXCEPT ![o.dst] = Store[o.src]]
<1> DEFINE r == Arguments(o)
<1>1. /\ r.fn = o.fn /\ r.kind = o.kind /\ r.src = o.src /\ r.val = o.val
      /\ o.fn # "hipMalloc" => r.dst = o.dst
  BY DEF Arguments
<1> HIDE DEF r
<1>2. Device!Effect(r) =
             IF o.fn = "hipMalloc" THEN [Store EXCEPT ![nextHandle] = Zero]
             ELSE IF o.fn = "hipFree" THEN [Store EXCEPT ![o.dst] = Absent]
             ELSE IF o.fn = "hipLaunchKernel" \/ o.kind = "HostToDevice"
             THEN [Store EXCEPT ![o.dst] = o.val]
             ELSE IF o.kind = "DeviceToHost" THEN Store
             ELSE [Store EXCEPT ![o.dst] = Store[o.src]]
  <2>1. CASE o.fn = "hipMalloc"
    BY <1>1, <2>1 DEF Device!Effect
  <2>2. CASE o.fn # "hipMalloc"
    BY <1>1, <2>2 DEF Device!Effect
  <2> QED BY <2>1, <2>2
<1> QED BY <1>2 DEF r

\* What is known of a call that the main thread starts.
LEMMA StartAsked ==
    ASSUME TypeInv, LInv, MemInv, NEW t \in Thread, NEW fn, Starts(t, fn)
    PROVE  /\ pc[t] = "queued" /\ op[t].fn = fn /\ op[t] \in OpType
           /\ ~op[t].failed /\ ~op[t].own /\ op[t].code = "hipSuccess"
           /\ CallAsked(op[t]) /\ op[t].dst \in Given \cup {0} /\ op[t].src \in Given \cup {0}
           /\ op[t].asserts => fn = "hipLaunchKernel"
           /\ ~Failing(t)
  BY StartFacts DEF MemInv, AskedOK, Failing

\* The start of hipMalloc takes a fresh buffer, or is refused one.
LEMMA StartMallocRefines ==
    ASSUME TypeInv, LInv, MemInv, NEW t \in Thread, StartMalloc(t)
    PROVE  Device!Next
<1> DEFINE o == [op[t] EXCEPT !.dst = nextHandle, !.own = op[t].fault # "none"]
<1>1. /\ Starts(t, "hipMalloc") /\ pc' = [pc EXCEPT ![t] = "malloc"]
      /\ mgr' = [mgr EXCEPT ![nextHandle] = "live"] /\ mem' = [mem EXCEPT ![nextHandle] = Zero]
      /\ nextHandle' = nextHandle + 1 /\ UNCHANGED <<ret, lastError, hostMem>>
  BY DEF StartMalloc, hostVars
<1>2. op' = [op EXCEPT ![t] = o]
  BY OpFacts DEF StartMalloc
<1>3. /\ pc[t] = "queued" /\ op[t].fn = "hipMalloc" /\ op[t] \in OpType
      /\ op[t].code = "hipSuccess" /\ CallAsked(op[t]) /\ ~op[t].asserts /\ ~Failing(t)
  BY <1>1, StartAsked
<1>4. /\ o.fn = op[t].fn /\ o.kind = op[t].kind /\ o.src = op[t].src /\ o.val = op[t].val
      /\ o.kernel = op[t].kernel /\ o.fault = op[t].fault /\ o.asserts = op[t].asserts
      /\ o.code = op[t].code /\ o.dst = nextHandle /\ o.own = (op[t].fault # "none") /\ o \in OpType
  BY <1>3 DEF OpType, TypeInv, MemOK
<1> HIDE DEF o
<1>5. Arguments(o) = Arguments(op[t])
  BY <1>3, <1>4, SameArguments
<1>6. op[t].kind = "none" /\ (Device!Accepted(Arguments(op[t])) <=> op[t].fault = "none")
  BY <1>3, AcceptedIs DEF CallAsked
<1>7. Due(o) = Device!Verdict(Arguments(op[t]))
  BY <1>3, <1>4, <1>6, DueIs, VerdictIs
<1>8. Device!Data(Arguments(op[t])) = Absent
  BY <1>6, DataIs
<1>9. op'[t] = o /\ pc'[t] = "malloc" /\ \A u \in Thread \ {t} : pc'[u] = pc[u] /\ op'[u] = op[u]
  <2>1. DOMAIN pc = Thread /\ DOMAIN op = Thread
    BY OpFacts
  <2> QED BY <1>1, <1>2, <2>1
<1>10. ASSUME NEW u \in Thread, Failing(u) PROVE op[u].dst \in Nat /\ op[u].dst < nextHandle
  BY <1>10, OpFacts DEF Failing, Allocates, Begun, LInv, LaunchInv, FreshOK, MemInv, MallocOK, OpType
<1>11. nextHandle \in Nat
  BY DEF TypeInv, MemOK
<1>12. nextHandle \notin Stillborn
  BY <1>10, <1>11, StillbornIs
<1>13. CASE op[t].fault = "none"
  <2>1. ~Failing(t)'
    BY <1>4, <1>9, <1>13 DEF Failing
  <2>2. Stillborn' = Stillborn
    BY <1>3, <1>9, <2>1, StillbornKept
  <2>3. Store' = [Store EXCEPT ![nextHandle] = Zero]
    BY <1>1, <1>12, <2>2 DEF Store, TypeInv, MemOK
  <2>4. Device!Effect(Arguments(op[t])) = [Store EXCEPT ![nextHandle] = Zero]
    BY <1>3, EffectIs
  <2>5. Store' = IF Device!Accepted(Arguments(op[t])) THEN Device!Effect(Arguments(op[t])) ELSE Store
    BY <1>6, <1>13, <2>3, <2>4
  <2> QED BY <1>1, <1>2, <1>3, <1>5, <1>7, <1>8, <2>5, ApplyStep DEF PcType
<1>14. CASE op[t].fault # "none"
  <2>1. Stillborn' = Stillborn \cup {nextHandle}
    <3>1. Failing(t)' /\ op'[t].dst = nextHandle
      BY <1>3, <1>4, <1>9, <1>14 DEF Failing
    <3>2. \A u \in Thread \ {t} : (Failing(u)' <=> Failing(u)) /\ op'[u].dst = op[u].dst
      BY <1>9 DEF Failing
    <3>3. Stillborn' = {op'[u].dst : u \in {v \in Thread : Failing(v)'}}
      BY DEF Stillborn, Busy, Failing
    <3>4. {v \in Thread : Failing(v)'} = {v \in Thread : Failing(v)} \cup {t}
      BY <3>1, <3>2
    <3> QED BY <1>3, <3>1, <3>2, <3>3, <3>4, StillbornIs
  <2>2. nextHandle \in Handle => mgr[nextHandle] # "live"
    BY <1>11 DEF MemInv, HandlesOK
  <2>3. Store' = Store
    <3>1. \A h \in Handle : h # nextHandle =>
                /\ mem'[h] = mem[h] /\ mgr'[h] = mgr[h]
                /\ h \in Stillborn' <=> h \in Stillborn
      BY <1>1, <2>1 DEF TypeInv, MemOK
    <3>2. \A h \in Handle : (IF mgr'[h] = "live" /\ h \notin Stillborn' THEN mem'[h] ELSE Absent)
                            = (IF mgr[h] = "live" /\ h \notin Stillborn THEN mem[h] ELSE Absent)
      BY <2>1, <2>2, <3>1
    <3> QED BY <3>2 DEF Store
  <2>4. Store' = IF Device!Accepted(Arguments(op[t])) THEN Device!Effect(Arguments(op[t])) ELSE Store
    BY <1>6, <1>14, <2>3
  <2> QED BY <1>1, <1>2, <1>3, <1>5, <1>7, <1>8, <2>4, ApplyStep DEF PcType
<1> QED BY <1>13, <1>14

\* The start of hipFree drops the buffer, or hangs.
LEMMA StartFreeRefines ==
    ASSUME TypeInv, LInv, MemInv, NEW t \in Thread, StartFree(t)
    PROVE  Device!Next
<1> DEFINE o == op[t]
<1>1. /\ Starts(t, "hipFree") /\ mem' = mem /\ nextHandle' = nextHandle
      /\ UNCHANGED <<ret, lastError, hostMem>>
      /\ \/ Live(o.dst) /\ mgr' = [mgr EXCEPT ![o.dst] = "gone"] /\ pc' = [pc EXCEPT ![t] = "popped"]
         \/ ~Live(o.dst) /\ mgr' = mgr /\ pc' = [pc EXCEPT ![t] = "hung"]
  BY DEF StartFree, hostVars
<1>2. op' = [op EXCEPT ![t] = o]
  BY OpFacts DEF StartFree, TypeInv, CallOK
<1>3. /\ pc[t] = "queued" /\ o.fn = "hipFree" /\ o \in OpType
      /\ o.code = "hipSuccess" /\ CallAsked(o) /\ ~o.asserts /\ ~o.own /\ ~Failing(t)
      /\ o.dst \in Given \cup {0}
  BY <1>1, StartAsked
<1> HIDE DEF o
<1>4. o.kind = "none" /\ o.fault = "none"
  BY <1>3 DEF CallAsked
<1>5. Device!Accepted(Arguments(o))
  BY <1>3, <1>4, AcceptedIs
<1>6. Due(o) = Device!Verdict(Arguments(o))
  BY <1>3, <1>5, DueIs, VerdictIs
<1>7. Device!Data(Arguments(o)) = Absent
  BY <1>4, DataIs
<1>8. Device!Effect(Arguments(o)) = [Store EXCEPT ![o.dst] = Absent]
  BY <1>3, EffectIs
<1>9. Stillborn' = Stillborn
  <2>0. PICK p \in {"popped", "hung"} : pc' = [pc EXCEPT ![t] = p]
    BY <1>1
  <2>1. op'[t] = o /\ \A u \in Thread \ {t} : pc'[u] = pc[u] /\ op'[u] = op[u]
    <3>1. DOMAIN pc = Thread /\ DOMAIN op = Thread
      BY OpFacts
    <3> QED BY <1>2, <2>0, <3>1
  <2>2. ~Failing(t)'
    BY <1>3, <2>1 DEF Failing
  <2> QED BY <1>3, <2>1, <2>2, StillbornKept
<1>10. Store' = [Store EXCEPT ![o.dst] = Absent]
  <2>1. CASE Live(o.dst)
    BY <1>1, <1>9, <2>1 DEF Store, TypeInv, MemOK
  <2>2. CASE ~Live(o.dst)
    <3>1. Store' = Store
      BY <1>1, <1>9, <2>2 DEF Store
    <3>2. o.dst \in Handle => Store[o.dst] = Absent
      BY <2>2 DEF Store, Live
    <3> QED BY <3>1, <3>2 DEF Store
  <2> QED BY <2>1, <2>2
<1>11. o = op[t]
  BY DEF o
<1>12. \E p \in {"popped", "hung"} : pc' = [pc EXCEPT ![t] = p]
  BY <1>1
<1> QED BY <1>1, <1>2, <1>3, <1>5, <1>6, <1>7, <1>8, <1>10, <1>11, <1>12, ApplyStep DEF PcType

\* The start of a call that is no hipMalloc is not about handles still to come.
LEMMA StillbornStart ==
    ASSUME TypeInv, LInv, MemInv, NEW t \in Thread, NEW fn, fn # "hipMalloc", Starts(t, fn),
           NEW p, NEW o, pc' = [pc EXCEPT ![t] = p], op' = [op EXCEPT ![t] = o], o.fn = fn
    PROVE  Stillborn' = Stillborn
<1>1. op'[t] = o /\ \A u \in Thread \ {t} : pc'[u] = pc[u] /\ op'[u] = op[u]
  <2>1. DOMAIN pc = Thread /\ DOMAIN op = Thread
    BY OpFacts
  <2> QED BY <2>1
<1>2. ~Failing(t) /\ ~Failing(t)'
  BY <1>1, StartAsked DEF Failing
<1> QED BY <1>1, <1>2, StillbornKept

\* A proxied function that throws before it has changed anything is refused.
LEMMA ThrownRefines ==
    ASSUME TypeInv, LInv, MemInv, NEW t \in Thread, NEW fn, fn # "hipMalloc",
           Starts(t, fn), Thrown(t),
           ~Device!Accepted(Arguments(op[t])), fn = "hipLaunchKernel" => op[t].kernel \in KernelMap,
           ~(op[t].kind = "DeviceToHost" /\ op[t].fault # "throw" /\ Device!Alive(op[t].src)),
           UNCHANGED <<mgr, nextHandle, ret, lastError, hostMem>>
    PROVE  Device!Next
<1> DEFINE o == [op[t] EXCEPT !.failed = TRUE, !.own = TRUE]
<1>1. /\ pc' = [pc EXCEPT ![t] = "settled"] /\ op' = [op EXCEPT ![t] = o] /\ mem' = mem
  BY ThrownOp DEF Thrown
<1>2. pc[t] = "queued" /\ op[t].fn = fn /\ op[t] \in OpType
  BY StartAsked
<1>3. /\ o.fn = op[t].fn /\ o.kind = op[t].kind /\ o.src = op[t].src /\ o.val = op[t].val
      /\ o.kernel = op[t].kernel /\ o.fault = op[t].fault /\ o.asserts = op[t].asserts
      /\ o.dst = op[t].dst /\ o.own = TRUE /\ o \in OpType
  BY <1>2 DEF OpType
<1> HIDE DEF o
<1>4. Arguments(o) = Arguments(op[t])
  BY <1>3, SameArguments
<1>5. Due(o) = Device!Verdict(Arguments(op[t]))
  BY <1>2, <1>3, DueIs, VerdictIs
<1>6. Device!Data(Arguments(op[t])) = Absent
  BY DataIs
<1>7. Stillborn' = Stillborn
  BY <1>1, <1>2, <1>3, StillbornStart
<1>8. Store' = Store
  BY <1>1, <1>7, StoreKept
<1> QED BY <1>1, <1>2, <1>4, <1>5, <1>6, <1>8, ApplyStep DEF PcType

\* A proxied function that runs takes effect as the device says, given that its
\* verdict, its data and its store agree.
LEMMA RanRefines ==
    ASSUME TypeInv, LInv, MemInv, NEW t \in Thread, NEW fn, fn # "hipMalloc", Starts(t, fn),
           NEW q \in OpType, NEW invalid \in BOOLEAN, NEW p \in PcType \ {"idle", "queued"},
           Ran(t, q, invalid, p), Arguments(q) = Arguments(op[t]),
           (IF invalid THEN "hipErrorInvalidValue"
            ELSE IF fn = "hipLaunchKernel" /\ op[t].asserts THEN "hipErrorAssert"
            ELSE q.code) = Device!Verdict(Arguments(op[t])),
           (IF p = "copy" THEN q.data ELSE Absent) = Device!Data(Arguments(op[t])),
           Stillborn' = Stillborn =>
             Store' = IF Device!Accepted(Arguments(op[t]))
                      THEN Device!Effect(Arguments(op[t])) ELSE Store,
           UNCHANGED <<nextHandle, ret, lastError, hostMem>>
    PROVE  Device!Next
<1> DEFINE o == [q EXCEPT !.own = invalid]
<1>1. pc' = [pc EXCEPT ![t] = p] /\ op' = [op EXCEPT ![t] = o] /\ o \in OpType
  BY RanOp
<1>2. pc[t] = "queued" /\ op[t].fn = fn /\ op[t] \in OpType
  BY StartAsked
<1>3. /\ Arguments(q).fn = q.fn /\ Arguments(q).asserts = q.asserts
      /\ Arguments(op[t]).fn = op[t].fn /\ Arguments(op[t]).asserts = op[t].asserts
  BY DEF Arguments
<1>4. /\ o.fn = q.fn /\ o.kind = q.kind /\ o.src = q.src /\ o.val = q.val
      /\ o.kernel = q.kernel /\ o.fault = q.fault /\ o.asserts = q.asserts
      /\ o.dst = q.dst /\ o.own = invalid /\ o.code = q.code /\ o.data = q.data
  BY DEF OpType
<1> HIDE DEF o
<1>5. o.fn = fn /\ o.asserts = op[t].asserts
  BY <1>2, <1>3, <1>4
<1>6. Arguments(o) = Arguments(op[t])
  BY <1>4, SameArguments
<1>7. Due(o) = Device!Verdict(Arguments(op[t]))
  BY <1>1, <1>4, <1>5, DueIs
<1>8. Stillborn' = Stillborn
  BY <1>1, <1>5, StillbornStart
<1>9. (IF p = "copy" THEN o.data ELSE Absent) = Device!Data(Arguments(op[t]))
  BY <1>4
<1> QED BY <1>1, <1>2, <1>6, <1>7, <1>8, <1>9, ApplyStep

\* The start of hipMemcpy copies, reads, or is refused.
LEMMA StartMemcpyRefines ==
    ASSUME TypeInv, LInv, MemInv, NEW t \in Thread, StartMemcpy(t)
    PROVE  Device!Next
<1> DEFINE o == op[t]
           r == Arguments(o)
           invalid == o.fault = Validation
<1>1. /\ Starts(t, "hipMemcpy") /\ UNCHANGED <<mgr, nextHandle, ret, lastError, hostMem>>
  BY DEF StartMemcpy, hostVars
<1>2. /\ pc[t] = "queued" /\ o.fn = "hipMemcpy" /\ o \in OpType
      /\ o.code = "hipSuccess" /\ CallAsked(o) /\ ~o.asserts /\ ~o.own
      /\ o.dst \in Given \cup {0} /\ o.src \in Given \cup {0}
  BY <1>1, StartAsked
<1>3. o.fault \in {"none", "throw", Validation} /\ Validation \notin {"none", "throw"}
  BY <1>2 DEF CallAsked, OpType, FaultKinds, Validation, OutOfMemory
<1>4. /\ Device!Alive(o.src) <=> Live(o.src)
      /\ Device!Alive(o.dst) <=> Live(o.dst)
      /\ Live(o.src) => Store[o.src] = mem[o.src] /\ mem[o.src] \in Val
      /\ Live(o.dst) => o.dst \in Handle /\ mgr[o.dst] = "live" /\ o.dst \notin Stillborn
  BY <1>2, GivenFacts DEF Live
<1>5. Zero \in Val /\ invalid \in BOOLEAN
  BY BridgeAssumption
<1>6. Device!Verdict(r) = IF Device!Accepted(r) THEN "hipSuccess" ELSE "hipErrorInvalidValue"
  BY <1>2, VerdictIs
<1>7. CASE o.kind = "HostToDevice"
  <2>1. Device!Accepted(r) <=> o.fault = "none" /\ Live(o.dst)
    BY <1>2, <1>4, <1>7, AcceptedIs
  <2>2. Device!Data(r) = Absent
    BY <1>7, DataIs
  <2>3. CASE Throws(t, {o.dst})
    <3>1. Thrown(t)
      BY <1>7, <2>3 DEF StartMemcpy
    <3>2. ~Device!Accepted(r)
      BY <1>3, <2>1, <2>3 DEF Throws
    <3> QED BY <1>1, <1>7, <3>1, <3>2, ThrownRefines
  <2>4. CASE ~Throws(t, {o.dst})
    <3>1. Ran(t, o, invalid, "settled") /\ mem' = IF invalid THEN mem ELSE [mem EXCEPT ![o.dst] = o.val]
      BY <1>7, <2>4 DEF StartMemcpy
    <3>2. Live(o.dst) /\ (o.fault = "none" <=> ~invalid)
      BY <1>3, <2>4 DEF Throws
    <3>3. ASSUME Stillborn' = Stillborn
          PROVE  Store' = IF Device!Accepted(r) THEN Device!Effect(r) ELSE Store
      <4>1. CASE invalid
        BY <1>1, <2>1, <3>1, <3>2, <3>3, <4>1, StoreKept
      <4>2. CASE ~invalid
        <5>1. Store' = [Store EXCEPT ![o.dst] = o.val]
          BY <1>1, <1>4, <3>1, <3>2, <3>3, <4>2, StoreWritten
        <5> QED BY <1>2, <1>7, <2>1, <3>2, <4>2, <5>1, EffectIs
      <4> QED BY <4>1, <4>2
    <3>4. (IF invalid THEN "hipErrorInvalidValue" ELSE o.code) = Device!Verdict(r)
      BY <1>2, <1>6, <2>1, <3>2
    <3> QED BY <1>1, <1>2, <1>5, <2>2, <3>1, <3>3, <3>4, RanRefines DEF PcType
  <2> QED BY <2>3, <2>4
<1>8. CASE o.kind = "DeviceToHost"
  <2>1. Device!Accepted(r) <=> o.fault = "none" /\ Live(o.src)
    BY <1>2, <1>4, <1>8, AcceptedIs
  <2>2. CASE Throws(t, {o.src})
    <3>1. Thrown(t)
      BY <1>8, <2>2 DEF StartMemcpy
    <3>2. ~(o.fault # "throw" /\ Live(o.src))
      BY <2>2 DEF Throws
    <3>3. ~Device!Accepted(r)
      BY <1>3, <2>1, <3>2
    <3> QED BY <1>1, <1>4, <1>8, <3>1, <3>2, <3>3, ThrownRefines
  <2>3. CASE ~Throws(t, {o.src})
    <3> DEFINE d == IF invalid THEN Zero ELSE mem[o.src]
               q == [o EXCEPT !.data = d]
    <3>1. Ran(t, q, invalid, "copy") /\ mem' = mem
      BY <1>8, <2>3 DEF StartMemcpy
    <3>2. Live(o.src) /\ (o.fault = "none" <=> ~invalid) /\ o.fault # "throw"
      BY <1>3, <2>3 DEF Throws
    <3>3. d \in Val
      BY <1>4, <1>5, <3>2
    <3> HIDE DEF d
    <3>4. /\ q \in OpType /\ q.data = d /\ q.code = o.code
          /\ q.fn = o.fn /\ q.kind = o.kind /\ q.src = o.src /\ q.val = o.val
          /\ q.kernel = o.kernel /\ q.fault = o.fault /\ q.asserts = o.asserts /\ q.dst = o.dst
      BY <1>2, <3>3 DEF OpType
    <3> HIDE DEF q
    <3>5. Arguments(q) = r
      BY <3>4, SameArguments
    <3>6. d = Device!Data(r)
      BY <1>4, <1>8, <2>1, <3>2, DataIs DEF d
    <3>7. ASSUME Stillborn' = Stillborn
          PROVE  Store' = IF Device!Accepted(r) THEN Device!Effect(r) ELSE Store
      <4>1. Store' = Store
        BY <1>1, <3>1, <3>7, StoreKept
      <4>2. Device!Effect(r) = Store
        BY <1>2, <1>8, EffectIs
      <4> QED BY <4>1, <4>2
    <3>8. (IF invalid THEN "hipErrorInvalidValue" ELSE q.code) = Device!Verdict(r)
      BY <1>2, <1>6, <2>1, <3>2, <3>4
    <3> QED BY <1>1, <1>2, <1>5, <3>1, <3>4, <3>5, <3>6, <3>7, <3>8, RanRefines DEF PcType
  <2> QED BY <2>2, <2>3
<1>9. CASE o.kind = "DeviceToDevice"
  <2> DEFINE bad == invalid \/ o.src = o.dst
  <2>1. Device!Accepted(r) <=> o.fault = "none" /\ Live(o.src) /\ Live(o.dst) /\ o.src # o.dst
    BY <1>2, <1>4, <1>9, AcceptedIs
  <2>2. Device!Data(r) = Absent
    BY <1>9, DataIs
  <2>3. CASE Throws(t, {o.src, o.dst})
    <3>1. Thrown(t)
      BY <1>9, <2>3 DEF StartMemcpy
    <3>2. ~Device!Accepted(r)
      BY <1>3, <2>1, <2>3 DEF Throws
    <3> QED BY <1>1, <1>9, <3>1, <3>2, ThrownRefines
  <2>4. CASE ~Throws(t, {o.src, o.dst})
    <3>1. Ran(t, o, bad, "settled") /\ mem' = IF bad THEN mem ELSE [mem EXCEPT ![o.dst] = mem[o.src]]
      BY <1>9, <2>4 DEF StartMemcpy, Copied
    <3>2. Live(o.src) /\ Live(o.dst) /\ (o.fault = "none" /\ o.src # o.dst <=> ~bad)
      BY <1>3, <2>4 DEF Throws
    <3>3. bad \in BOOLEAN
      OBVIOUS
    <3> HIDE DEF bad
    <3>4. ASSUME Stillborn' = Stillborn
          PROVE  Store' = IF Device!Accepted(r) THEN Device!Effect(r) ELSE Store
      <4>1. CASE bad
        BY <1>1, <2>1, <3>1, <3>2, <3>4, <4>1, StoreKept
      <4>2. CASE ~bad
        <5>1. Store' = [Store EXCEPT ![o.dst] = Store[o.src]]
          BY <1>1, <1>4, <3>1, <3>2, <3>4, <4>2, StoreWritten
        <5> QED BY <1>2, <1>9, <2>1, <3>2, <4>2, <5>1, EffectIs
      <4> QED BY <4>1, <4>2
    <3>5. (IF bad THEN "hipErrorInvalidValue" ELSE o.code) = Device!Verdict(r)
      BY <1>2, <1>6, <2>1, <3>2
    <3> QED BY <1>1, <1>2, <2>2, <3>1, <3>3, <3>4, <3>5, RanRefines DEF PcType
  <2> QED BY <2>3, <2>4
<1>10. CASE o.kind = "Default"
  <2> DEFINE q == [o EXCEPT !.code = "hipErrorInvalidValue"]
  <2>1. Ran(t, q, FALSE, "settled") /\ mem' = mem
    BY <1>10 DEF StartMemcpy
  <2>2. ~Device!Accepted(r)
    BY <1>2, <1>10, AcceptedIs
  <2>3. Device!Data(r) = Absent
    BY <1>10, DataIs
  <2>4. /\ q \in OpType /\ q.code = "hipErrorInvalidValue"
        /\ q.fn = o.fn /\ q.kind = o.kind /\ q.src = o.src /\ q.val = o.val
        /\ q.kernel = o.kernel /\ q.fault = o.fault /\ q.asserts = o.asserts /\ q.dst = o.dst
    BY <1>2 DEF OpType, Code
  <2> HIDE DEF q
  <2>5. Arguments(q) = r
    BY <2>4, SameArguments
  <2>6. Stillborn' = Stillborn => Store' = IF Device!Accepted(r) THEN Device!Effect(r) ELSE Store
    BY <1>1, <2>1, <2>2, StoreKept
  <2> QED BY <1>1, <1>2, <1>6, <2>1, <2>2, <2>3, <2>4, <2>5, <2>6, RanRefines DEF PcType
<1> QED BY <1>2, <1>7, <1>8, <1>9, <1>10 DEF CallAsked, CopyKinds

\* No kernel needs an assertion flag that the program may have freed.
FlagSafe == "hipFree" \notin Misused \/ KernelMap \cap AbortKernel = {}

\* The start of a launch runs the kernel, or is refused.
LEMMA StartLaunchRefines ==
    ASSUME TypeInv, LInv, MemInv, Attributed, FlagSafe, NEW t \in Thread, StartLaunch(t)
    PROVE  Device!Next
<1> DEFINE o == op[t]
           r == Arguments(o)
<1>1. /\ Starts(t, "hipLaunchKernel") /\ UNCHANGED <<mgr, nextHandle, ret, lastError, hostMem>>
  BY DEF StartLaunch, hostVars
<1>2. /\ pc[t] = "queued" /\ o.fn = "hipLaunchKernel" /\ o \in OpType
      /\ o.code = "hipSuccess" /\ CallAsked(o) /\ ~o.own
      /\ o.dst \in Given \cup {0}
  BY <1>1, StartAsked
<1>3. o.fault \in {"none", "throw", Validation} /\ Validation \notin {"none", "throw"} /\ o.kind = "none"
  BY <1>2 DEF CallAsked, OpType, FaultKinds, Validation, OutOfMemory
<1>4. /\ Device!Alive(o.dst) <=> Live(o.dst)
      /\ Live(o.dst) => o.dst \in Handle /\ mgr[o.dst] = "live" /\ o.dst \notin Stillborn
  BY <1>2, GivenFacts DEF Live
<1>5. Device!Accepted(r) <=> o.fault = "none" /\ o.kernel \in KernelMap /\ Live(o.dst)
  BY <1>2, <1>4, AcceptedIs
<1>6. Device!Data(r) = Absent
  BY <1>3, DataIs
<1>7. CASE o.kernel \notin KernelMap
  <2> DEFINE q == [o EXCEPT !.code = "hipErrorInvalidDeviceFunction"]
  <2>1. Ran(t, q, FALSE, "settled") /\ mem' = mem
    BY <1>7 DEF StartLaunch
  <2>2. /\ q \in OpType /\ q.code = "hipErrorInvalidDeviceFunction"
        /\ q.fn = o.fn /\ q.kind = o.kind /\ q.src = o.src /\ q.val = o.val
        /\ q.kernel = o.kernel /\ q.fault = o.fault /\ q.asserts = o.asserts /\ q.dst = o.dst
    BY <1>2 DEF OpType, Code
  <2> HIDE DEF q
  <2>3. Arguments(q) = r
    BY <2>2, SameArguments
  <2>4. Stillborn' = Stillborn => Store' = IF Device!Accepted(r) THEN Device!Effect(r) ELSE Store
    BY <1>1, <1>5, <1>7, <2>1, StoreKept
  <2>5. ~o.asserts
    BY <1>1, <1>7, StartFacts
  <2>6. Device!Verdict(r) = "hipErrorInvalidDeviceFunction"
    BY <1>2, <1>7, VerdictIs
  <2> QED BY <1>1, <1>2, <1>6, <2>1, <2>2, <2>3, <2>4, <2>5, <2>6, RanRefines DEF PcType
<1>8. CASE o.kernel \in KernelMap /\ Throws(t, {o.dst})
  <2>1. Thrown(t)
    BY <1>8 DEF StartLaunch
  <2>2. ~Device!Accepted(r)
    BY <1>3, <1>5, <1>8 DEF Throws
  <2> QED BY <1>1, <1>3, <1>8, <2>1, <2>2, ThrownRefines
<1>9. CASE o.kernel \in KernelMap /\ ~Throws(t, {o.dst})
  <2> DEFINE bad == Dropped(o) \/ (\/ Prints(o.kernel) /\ printfMap # None
                                   \/ Asserts(o.kernel) /\ abortMap # None)
             place == IF Prints(o.kernel) THEN "printf"
                      ELSE IF Asserts(o.kernel) THEN "abort" ELSE "settled"
             q == [o EXCEPT !.row = Len(kernelsRan) + 1, !.dropped = Dropped(o)]
  <2>1. /\ Ran(t, q, bad, place)
        /\ mem' = IF Dropped(o) THEN mem ELSE [mem EXCEPT ![o.dst] = o.val]
    BY <1>9 DEF StartLaunch, Submit
  <2>2. Live(o.dst) /\ o.fault # "throw"
    BY <1>9 DEF Throws
  <2>3. /\ Prints(o.kernel) => printfMap = None
        /\ Asserts(o.kernel) => abortMap = None
    BY <1>2, <1>9 DEF Attributed, IsLaunch
  <2>4. Asserts(o.kernel) => mgr[AbortVar] = "live"
    BY <1>9 DEF MemInv, HandlesOK, FlagSafe, Asserts
  <2>5. Dropped(o) <=> o.fault = Validation
    BY <2>3, <2>4 DEF Dropped
  <2>6. bad <=> o.fault # "none"
    BY <1>3, <2>2, <2>3, <2>5
  <2>7. bad \in BOOLEAN /\ place \in PcType \ {"idle", "queued", "copy"} /\ Dropped(o) \in BOOLEAN
    <3>1. bad \in BOOLEAN
      OBVIOUS
    <3>2. place \in PcType \ {"idle", "queued", "copy"}
      BY DEF PcType
    <3>3. Dropped(o) \in BOOLEAN
      BY DEF Dropped
    <3> QED BY <3>1, <3>2, <3>3
  <2>8. Len(kernelsRan) + 1 \in Nat
    BY OpFacts
  <2>9. /\ q \in OpType /\ q.code = o.code
        /\ q.fn = o.fn /\ q.kind = o.kind /\ q.src = o.src /\ q.val = o.val
        /\ q.kernel = o.kernel /\ q.fault = o.fault /\ q.asserts = o.asserts /\ q.dst = o.dst
    BY <1>2, <2>7, <2>8 DEF OpType
  <2> HIDE DEF q, bad, place
  <2>10. Arguments(q) = r
    BY <2>9, SameArguments
  <2>11. ASSUME Stillborn' = Stillborn
         PROVE  Store' = IF Device!Accepted(r) THEN Device!Effect(r) ELSE Store
    <3>1. CASE o.fault # "none"
      <4>1. mem' = mem
        BY <1>3, <2>1, <2>2, <2>5, <3>1
      <4> QED BY <1>1, <1>5, <2>11, <3>1, <4>1, StoreKept
    <3>2. CASE o.fault = "none"
      <4>1. mem' = [mem EXCEPT ![o.dst] = o.val]
        BY <1>3, <2>1, <2>5, <3>2
      <4>2. Store' = [Store EXCEPT ![o.dst] = o.val]
        BY <1>1, <1>4, <2>2, <2>11, <4>1, StoreWritten
      <4> QED BY <1>2, <1>5, <1>9, <2>2, <3>2, <4>2, EffectIs
    <3> QED BY <3>1, <3>2
  <2>12. (IF bad THEN "hipErrorInvalidValue" ELSE IF o.asserts THEN "hipErrorAssert" ELSE q.code)
         = Device!Verdict(r)
    BY <1>2, <1>5, <1>9, <2>2, <2>6, <2>9, VerdictIs
  <2> QED BY <1>1, <1>2, <1>6, <2>1, <2>7, <2>9, <2>10, <2>11, <2>12, RanRefines
<1> QED BY <1>7, <1>8, <1>9

--------------------------------------------------------------------------------
(* The other steps on the main thread.                                      *)

\* A step that the device does not see.
LEMMA StutterStep ==
    ASSUME TypeInv, NEW t \in Thread, pc[t] \notin {"idle", "queued", "copy"},
           NEW p, p \notin {"idle", "queued", "copy"}, NEW o,
           pc' = [pc EXCEPT ![t] = p], op' = [op EXCEPT ![t] = o],
           Arguments(o) = Arguments(op[t]), Due(o) = Due(op[t]),
           Store' = Store, UNCHANGED <<nextHandle, ret, lastError, hostMem>>
    PROVE  UNCHANGED Device!vars
<1>1. /\ Requested' = [Requested EXCEPT ![t] = Arguments(o)]
      /\ Answered' = [Answered EXCEPT ![t] = [code |-> Due(o), data |-> Absent]]
  <2>1. Leaves(t, p, o)
    BY DEF Leaves
  <2>2. RequestIn(p, o) = Arguments(o) /\ AnswerIn(p, o) = [code |-> Due(o), data |-> Absent]
    BY DEF RequestIn, AnswerIn
  <2> QED BY <2>1, <2>2, Maps
<1>2. Requested[t] = Arguments(o) /\ Answered[t] = [code |-> Due(o), data |-> Absent]
  BY MappedAt
<1>3. Requested' = Requested
  BY <1>1, <1>2 DEF Requested
<1>4. Answered' = Answered
  BY <1>1, <1>2 DEF Answered
<1> QED BY <1>3, <1>4 DEF Device!vars

\* A call that goes on without being an hipMalloc, or that drops a buffer only if
\* it was never to be the program's.
LEMMA GoesOn ==
    ASSUME TypeInv, LInv, MemInv, NEW t \in Thread, pc[t] \notin {"idle", "queued", "copy"},
           NEW p, p \notin {"idle", "queued", "copy"}, NEW failed \in BOOLEAN, NEW code \in Code,
           pc' = [pc EXCEPT ![t] = p],
           op' = [op EXCEPT ![t] = [op[t] EXCEPT !.failed = failed, !.code = code]],
           code = op[t].code \/ op[t].own \/ (op[t].fn = "hipLaunchKernel" /\ op[t].asserts),
           \/ mgr' = mgr
           \/ op[t].fn = "hipMalloc" /\ op[t].own /\ mgr' = [mgr EXCEPT ![op[t].dst] = "gone"],
           UNCHANGED <<mem, nextHandle, ret, lastError, hostMem>>
    PROVE  UNCHANGED Device!vars
<1>1. PICK q : q = [op[t] EXCEPT !.failed = failed, !.code = code]
  OBVIOUS
<1>2. op' = [op EXCEPT ![t] = q]
  BY <1>1
<1>3. op[t] \in OpType
  BY OpFacts
<1>4. /\ q \in OpType /\ q.code = code /\ q.own = op[t].own
      /\ q.fn = op[t].fn /\ q.kind = op[t].kind /\ q.src = op[t].src /\ q.val = op[t].val
      /\ q.kernel = op[t].kernel /\ q.fault = op[t].fault /\ q.asserts = op[t].asserts
      /\ q.dst = op[t].dst
  BY <1>1, <1>3 DEF OpType
<1>5. Arguments(q) = Arguments(op[t]) /\ Due(q) = Due(op[t])
  BY <1>3, <1>4, SameArguments, DueIs
<1>6. pc'[t] = p /\ op'[t] = q /\ \A u \in Thread \ {t} : pc'[u] = pc[u] /\ op'[u] = op[u]
  BY <1>2, MovesOn
<1>7. Stillborn' = Stillborn
  <2>1. Failing(t)' <=> Failing(t)
    BY <1>4, <1>6 DEF Failing
  <2> QED BY <1>4, <1>6, <2>1, StillbornKept
<1>8. Store' = Store
  <2>1. CASE mgr' = mgr
    BY <1>7, <2>1, StoreKept
  <2>2. CASE op[t].fn = "hipMalloc" /\ op[t].own /\ mgr' = [mgr EXCEPT ![op[t].dst] = "gone"]
    <3>1. op[t].dst \in Stillborn
      BY <2>2, StillbornIs DEF Failing
    <3>2. \A h \in Handle : h # op[t].dst => mgr'[h] = mgr[h]
      BY <2>2 DEF TypeInv, MemOK
    <3> QED BY <1>7, <3>1, <3>2, StoreKept
  <2> QED BY <2>1, <2>2
<1> QED BY <1>5, <1>2, <1>8, StutterStep

\* Updates of a record that write back what is there.
LEMMA RecordFacts ==
    ASSUME NEW o \in OpType, NEW failed \in BOOLEAN, NEW code \in Code
    PROVE  /\ [o EXCEPT !.failed = failed, !.code = o.code] = [o EXCEPT !.failed = failed]
           /\ [o EXCEPT !.failed = o.failed, !.code = code] = [o EXCEPT !.code = code]
           /\ [o EXCEPT !.failed = o.failed, !.code = o.code] = o
  BY DEF OpType

\* An answer is never the absence of one.
LEMMA DueType ==
    ASSUME TypeInv, NEW t \in Thread, NEW d \in Val \cup {Absent}
    PROVE  Due(op[t]) \in Code /\ [code |-> Due(op[t]), data |-> d] # NoCall
<1>1. op[t] \in OpType /\ op[t].code \in Code
  BY OpFacts DEF OpType
<1>2. Due(op[t]) \in Code
  BY <1>1, DueIs DEF Code
<1> QED BY <1>2, AbstractionAssumption

\* The callbacks that settle a call change nothing that the device sees.
LEMMA QuietRefines ==
    ASSUME TypeInv, LInv, MemInv, Attributed, NEW t \in Thread,
           MallocPopped(t) \/ PopScope(t) \/ Finish(t) \/ PrintfMapped(t) \/ AbortMapped(t)
    PROVE  UNCHANGED Device!vars
<1>0. /\ op[t] \in OpType /\ op[t].code \in Code /\ op[t].failed \in BOOLEAN /\ popped[t] \in BOOLEAN
      /\ "hipErrorAssert" \in Code
  BY OpFacts DEF OpType, TypeInv, CallOK, Code
<1>1. CASE MallocPopped(t)
  <2>1. /\ pc[t] = "malloc" /\ pc' = [pc EXCEPT ![t] = "popped"]
        /\ op' = [op EXCEPT ![t] = [op[t] EXCEPT !.failed = popped[t]]]
        /\ mgr' = IF popped[t] THEN [mgr EXCEPT ![op[t].dst] = "gone"] ELSE mgr
        /\ UNCHANGED <<mem, nextHandle, ret, lastError, hostMem>>
    BY <1>1 DEF MallocPopped, Drop, hostVars
  <2>2. op' = [op EXCEPT ![t] = [op[t] EXCEPT !.failed = popped[t], !.code = op[t].code]]
    BY <1>0, <2>1, RecordFacts
  <2>3. op[t].fn = "hipMalloc" /\ (popped[t] => op[t].own)
    BY <2>1 DEF MemInv, MallocOK, Attributed
  <2> QED BY <1>0, <2>1, <2>2, <2>3, GoesOn
<1>2. CASE PopScope(t)
  <2>1. /\ pc[t] = "settled" /\ pc' = [pc EXCEPT ![t] = "popped"]
        /\ op' = op /\ UNCHANGED <<mgr, mem, nextHandle, ret, lastError, hostMem>>
    BY <1>2 DEF PopScope, hostVars, memVars
  <2>2. op' = [op EXCEPT ![t] = [op[t] EXCEPT !.failed = op[t].failed, !.code = op[t].code]]
    <3>1. op = [op EXCEPT ![t] = op[t]]
      BY OpFacts DEF TypeInv, CallOK
    <3> QED BY <1>0, <2>1, <3>1, RecordFacts
  <2> QED BY <1>0, <2>1, <2>2, GoesOn
<1>3. CASE Finish(t)
  <2> DEFINE failed == op[t].failed \/ popped[t]
  <2>1. /\ pc[t] = "popped" /\ pc' = [pc EXCEPT ![t] = "finished"]
        /\ op' = [op EXCEPT ![t] = [op[t] EXCEPT !.failed = failed]]
        /\ \/ mgr' = mgr
           \/ failed /\ op[t].fn = "hipMalloc" /\ mgr' = [mgr EXCEPT ![op[t].dst] = "gone"]
        /\ UNCHANGED <<mem, nextHandle, ret, lastError, hostMem>>
    BY <1>3 DEF Finish, Drop, hostVars
  <2>2. failed \in BOOLEAN /\ (failed => op[t].own)
    BY <2>1 DEF Attributed
  <2> HIDE DEF failed
  <2>3. op' = [op EXCEPT ![t] = [op[t] EXCEPT !.failed = failed, !.code = op[t].code]]
    BY <1>0, <2>1, <2>2, RecordFacts
  <2> QED BY <1>0, <2>1, <2>2, <2>3, GoesOn
<1>4. CASE PrintfMapped(t)
  <2>1. /\ pc[t] = "printf" /\ UNCHANGED <<mgr, mem, nextHandle, ret, lastError, hostMem>>
    BY <1>4 DEF PrintfMapped, hostVars, memVars
  <2>2. CASE printfMap = Me(t)
    <3>1. PICK p \in {"abort", "settled"} : pc' = [pc EXCEPT ![t] = p]
      BY <1>4, <2>2 DEF PrintfMapped
    <3>2. op' = [op EXCEPT ![t] = [op[t] EXCEPT !.failed = op[t].failed, !.code = op[t].code]]
      <4>1. op = [op EXCEPT ![t] = op[t]] /\ op' = op
        BY <1>4, <2>2, OpFacts DEF TypeInv, CallOK, PrintfMapped
      <4> QED BY <1>0, <4>1, RecordFacts
    <3> QED BY <1>0, <2>1, <3>1, <3>2, GoesOn
  <2>3. CASE printfMap # Me(t)
    <3>1. /\ pc' = [pc EXCEPT ![t] = "settled"]
          /\ op' = [op EXCEPT ![t] = [op[t] EXCEPT !.failed = TRUE]]
      BY <1>4, <2>3 DEF PrintfMapped, Rejected
    <3>2. op' = [op EXCEPT ![t] = [op[t] EXCEPT !.failed = TRUE, !.code = op[t].code]]
      BY <1>0, <3>1, RecordFacts
    <3> QED BY <1>0, <2>1, <3>1, <3>2, GoesOn
  <2> QED BY <2>2, <2>3
<1>5. CASE AbortMapped(t)
  <2>1. /\ pc[t] = "abort" /\ UNCHANGED <<mgr, mem, nextHandle, ret, lastError, hostMem>>
        /\ pc' = [pc EXCEPT ![t] = "settled"]
    BY <1>5 DEF AbortMapped, Rejected, hostVars, memVars
  <2>2. CASE abortMap = Me(t) /\ abortStage
    <3>1. op' = [op EXCEPT ![t] = [op[t] EXCEPT !.code = "hipErrorAssert"]]
      BY <1>5, <2>2 DEF AbortMapped
    <3>2. op' = [op EXCEPT ![t] = [op[t] EXCEPT !.failed = op[t].failed, !.code = "hipErrorAssert"]]
      BY <1>0, <3>1, RecordFacts
    <3>3. op[t].own \/ (op[t].fn = "hipLaunchKernel" /\ op[t].asserts)
      <4>1. KindOK(t) /\ ClaimOK(t)
        BY DEF LInv, LaunchInv
      <4> QED BY <2>1, <2>2, <4>1 DEF KindOK, ClaimOK, Free, IsLaunch
    <3> QED BY <1>0, <2>1, <3>2, <3>3, GoesOn
  <2>3. CASE abortMap = Me(t) /\ ~abortStage
    <3>1. op' = [op EXCEPT ![t] = [op[t] EXCEPT !.failed = op[t].failed, !.code = op[t].code]]
      <4>1. op = [op EXCEPT ![t] = op[t]] /\ op' = op
        BY <1>5, <2>3, OpFacts DEF TypeInv, CallOK, AbortMapped
      <4> QED BY <1>0, <4>1, RecordFacts
    <3> QED BY <1>0, <2>1, <3>1, GoesOn
  <2>4. CASE abortMap # Me(t)
    <3>1. op' = [op EXCEPT ![t] = [op[t] EXCEPT !.failed = TRUE]]
      BY <1>5, <2>4 DEF AbortMapped, Rejected
    <3>2. op' = [op EXCEPT ![t] = [op[t] EXCEPT !.failed = TRUE, !.code = op[t].code]]
      BY <1>0, <3>1, RecordFacts
    <3> QED BY <1>0, <2>1, <3>2, GoesOn
  <2> QED BY <2>2, <2>3, <2>4
<1> QED BY <1>1, <1>2, <1>3, <1>4, <1>5

\* The mapped staging buffer is the delivery of the data that was read.
LEMMA CopyMappedRefines ==
    ASSUME TypeInv, LInv, MemInv, NEW t \in Thread, CopyMapped(t)
    PROVE  Device!Next
<1>0. op' = op
  BY DEF CopyMapped
<1>1. /\ pc[t] = "copy" /\ pc' = [pc EXCEPT ![t] = "settled"]
      /\ hostMem' = [hostMem EXCEPT ![t] = op[t].data]
      /\ UNCHANGED <<mgr, mem, nextHandle, ret, lastError>>
  BY DEF CopyMapped, memVars
<1>2. op' = [op EXCEPT ![t] = op[t]] /\ op[t].data \in Val
  BY <1>0, OpFacts DEF TypeInv, CallOK, OpType
<1>3. /\ Requested' = [Requested EXCEPT ![t] = Arguments(op[t])]
      /\ Answered' = [Answered EXCEPT ![t] = [code |-> Due(op[t]), data |-> Absent]]
  <2>1. Leaves(t, "settled", op[t])
    BY <1>1, <1>2 DEF Leaves
  <2>2. /\ RequestIn("settled", op[t]) = Arguments(op[t])
        /\ AnswerIn("settled", op[t]) = [code |-> Due(op[t]), data |-> Absent]
    BY DEF RequestIn, AnswerIn
  <2> QED BY <2>1, <2>2, Maps
<1>4. /\ Requested[t] = Arguments(op[t])
      /\ Answered[t] = [code |-> Due(op[t]), data |-> op[t].data]
  BY <1>1, MappedAt
<1>5. Requested' = Requested
  BY <1>3, <1>4 DEF Requested
<1>6. Answered[t] # NoCall /\ Answered[t].data = op[t].data /\ op[t].data # Absent
  <2>1. [code |-> Due(op[t]), data |-> op[t].data] # NoCall
    BY <1>2, DueType
  <2> QED BY <1>2, <1>4, <2>1, AbstractionAssumption
<1>7. Answered' = [Answered EXCEPT ![t].data = Absent]
  <2>1. [Answered[t] EXCEPT !.data = Absent] = [code |-> Due(op[t]), data |-> Absent]
    BY <1>4
  <2> QED BY <1>3, <2>1
<1>8. Store' = Store
  <2>1. \A u \in Thread \ {t} : pc'[u] = pc[u] /\ op'[u] = op[u]
    BY <1>1, <1>2, MovesOn
  <2>2. pc[t] # "idle" /\ pc'[t] = "settled"
    BY <1>1, <1>2, MovesOn
  <2>3. Failing(t)' <=> Failing(t)
    BY <1>0, <2>2 DEF Failing
  <2>4. Stillborn' = Stillborn
    BY <1>0, <2>1, <2>3, StillbornKept
  <2> QED BY <1>1, <2>4, StoreKept
<1>9. Device!Deliver(t)
  BY <1>1, <1>5, <1>6, <1>7, <1>8 DEF Device!Deliver
<1> QED BY <1>9 DEF Device!Next

\* A staging buffer that cannot be mapped: the call fails and delivers nothing.
LEMMA CopyRejectedRefines ==
    ASSUME TypeInv, LInv, MemInv, NEW t \in Thread, CopyRejected(t)
    PROVE  Device!Next
<1> DEFINE o == [op[t] EXCEPT !.failed = TRUE]
<1>1. /\ pc[t] = "copy" /\ pc' = [pc EXCEPT ![t] = "settled"] /\ op[t].own
      /\ op' = [op EXCEPT ![t] = o]
      /\ UNCHANGED <<mgr, mem, nextHandle, ret, lastError, hostMem>>
  BY OpFacts DEF CopyRejected, Rejected, hostVars, memVars
<1>2. op[t] \in OpType /\ op[t].data \in Val
  BY OpFacts DEF OpType
<1>3. /\ o \in OpType /\ o.fn = op[t].fn /\ o.kind = op[t].kind /\ o.src = op[t].src
      /\ o.val = op[t].val /\ o.dst = op[t].dst /\ o.kernel = op[t].kernel
      /\ o.fault = op[t].fault /\ o.asserts = op[t].asserts /\ o.own = op[t].own
      /\ o.code = op[t].code
  BY <1>2 DEF OpType
<1> HIDE DEF o
<1>4. Arguments(o) = Arguments(op[t]) /\ Due(o) = Due(op[t]) /\ Due(o) # "hipSuccess"
  BY <1>1, <1>2, <1>3, SameArguments, DueIs
<1>5. /\ Requested' = [Requested EXCEPT ![t] = Arguments(op[t])]
      /\ Answered' = [Answered EXCEPT ![t] = [code |-> Due(op[t]), data |-> Absent]]
  <2>1. Leaves(t, "settled", o)
    BY <1>1 DEF Leaves
  <2>2. /\ RequestIn("settled", o) = Arguments(op[t])
        /\ AnswerIn("settled", o) = [code |-> Due(op[t]), data |-> Absent]
    BY <1>4 DEF RequestIn, AnswerIn
  <2> QED BY <2>1, <2>2, Maps
<1>6. /\ Requested[t] = Arguments(op[t])
      /\ Answered[t] = [code |-> Due(op[t]), data |-> op[t].data]
  BY <1>1, MappedAt
<1>7. Requested' = Requested
  BY <1>5, <1>6 DEF Requested
<1>8. Answered[t] # NoCall /\ Answered[t].code # "hipSuccess"
  <2>1. [code |-> Due(op[t]), data |-> op[t].data] # NoCall
    BY <1>2, DueType
  <2> QED BY <1>4, <1>6, <2>1
<1>9. Answered' = [Answered EXCEPT ![t].data = Absent]
  <2>1. [Answered[t] EXCEPT !.data = Absent] = [code |-> Due(op[t]), data |-> Absent]
    BY <1>6
  <2> QED BY <1>5, <2>1
<1>10. Store' = Store
  <2>1. /\ \A u \in Thread \ {t} : pc'[u] = pc[u] /\ op'[u] = op[u]
        /\ pc[t] # "idle" /\ pc'[t] = "settled" /\ op'[t] = o
    BY <1>1, MovesOn
  <2>2. (Failing(t)' <=> Failing(t)) /\ op'[t].dst = op[t].dst
    BY <1>3, <2>1 DEF Failing
  <2>3. Stillborn' = Stillborn
    BY <2>1, <2>2, StillbornKept
  <2> QED BY <1>1, <2>3, StoreKept
<1>11. Device!Withhold(t)
  BY <1>1, <1>7, <1>8, <1>9, <1>10 DEF Device!Withhold
<1> QED BY <1>11 DEF Device!Next

\* The return of the proxied call is the device's response: the code is that of
\* the call itself, since its errors are its own.
LEMMA ReturnRefines ==
    ASSUME TypeInv, LInv, MemInv, Attributed, NEW t \in Thread, Return(t)
    PROVE  Device!Next
<1>0. op' = op
  BY DEF Return
<1>1. /\ pc[t] = "finished" /\ pc' = [pc EXCEPT ![t] = "idle"]
      /\ Returns(t, Result(op[t]))
      /\ UNCHANGED <<mgr, mem, nextHandle, hostMem>>
  BY DEF Return, memVars
<1>2. op' = [op EXCEPT ![t] = op[t]] /\ op[t] \in OpType
  BY <1>0, OpFacts DEF TypeInv, CallOK
<1>3. Due(op[t]) = Result(op[t])
  <2>1. op[t].failed = op[t].own
    BY <1>1 DEF Attributed
  <2>2. KindOK(t) /\ ToldOK(t)
    BY DEF LInv, LaunchInv
  <2>3. ASSUME ~op[t].own, op[t].fn = "hipLaunchKernel", op[t].asserts PROVE op[t].code = "hipErrorAssert"
    BY <1>1, <2>1, <2>2, <2>3 DEF KindOK, ToldOK, Free, Begun, IsLaunch
  <2> QED BY <1>2, <2>1, <2>3, DueIs DEF Result
<1>4. /\ Requested' = [Requested EXCEPT ![t] = NoCall] /\ Answered' = [Answered EXCEPT ![t] = NoCall]
  <2>1. Leaves(t, "idle", op[t])
    BY <1>1, <1>2 DEF Leaves
  <2>2. RequestIn("idle", op[t]) = NoCall /\ AnswerIn("idle", op[t]) = NoCall
    BY DEF RequestIn, AnswerIn
  <2> QED BY <2>1, <2>2, Maps
<1>5. Answered[t] = [code |-> Result(op[t]), data |-> Absent]
  BY <1>1, <1>3, MappedAt
<1>6. Answered[t] # NoCall
  BY <1>3, <1>5, DueType
<1>7. Store' = Store
  <2>1. \A u \in Thread \ {t} : pc'[u] = pc[u] /\ op'[u] = op[u]
    BY <1>1, <1>2, MovesOn
  <2>2. pc'[t] = "idle"
    BY <1>1, <1>2, MovesOn
  <2>3. \A u \in Thread \ {t} : (Failing(u)' <=> Failing(u)) /\ op'[u].dst = op[u].dst
    BY <2>1 DEF Failing
  <2>4. Stillborn' = {op'[u].dst : u \in {v \in Thread : Failing(v)'}}
    BY DEF Stillborn, Busy, Failing
  <2>5. ~Failing(t)'
    BY <2>2 DEF Failing
  <2>6. Failing(t) => ~Live(op[t].dst)
    BY <1>1 DEF MemInv, MallocOK, Allocates, Begun, Failing
  <2>7. \A h \in Handle : Live(h) => (h \in Stillborn' <=> h \in Stillborn)
    BY <2>3, <2>4, <2>5, <2>6, StillbornIs
  <2> QED BY <1>1, <2>7, StoreKept DEF Live
<1>8. /\ Answered[t].data = Absent /\ Answered[t].code = Result(op[t])
      /\ nextHandle' = nextHandle /\ hostMem' = hostMem
  BY <1>1, <1>5
<1>9. /\ ret' = [ret EXCEPT ![t] = Answered[t].code]
      /\ lastError' = IF Answered[t].code = "hipSuccess" THEN lastError
                      ELSE [lastError EXCEPT ![t] = Answered[t].code]
  BY <1>1, <1>8 DEF Returns
<1> QED BY <1>4, <1>6, <1>7, <1>8, <1>9, ResponseStep

\* Every step on the main thread is a step of the device or stutters.
LEMMA BridgeRefines ==
    ASSUME TypeInv, LInv, MemInv, Attributed, FlagSafe, NEW t \in Thread, BridgeStep(t)
    PROVE  Device!Next \/ UNCHANGED Device!vars
  BY StartMallocRefines, StartFreeRefines, StartMemcpyRefines, StartLaunchRefines, QuietRefines,
     CopyMappedRefines, CopyRejectedRefines, ReturnRefines DEF BridgeStep

\* The start of the program is the start of the device.
LEMMA InitRefines == Init => Device!Init
<1> SUFFICES ASSUME Init PROVE Device!Init
  OBVIOUS
<1>1. /\ \A t \in Thread : pc[t] = "idle"
      /\ mgr = [h \in Handle |-> IF h <= NVars THEN "live" ELSE "unused"]
      /\ mem = [h \in Handle |-> Zero] /\ nextHandle = NVars + 1
      /\ ret = [t \in Thread |-> "hipSuccess"] /\ lastError = [t \in Thread |-> "hipSuccess"]
      /\ hostMem = [t \in Thread |-> Zero]
  BY DEF Init
<1>2. Stillborn = {}
  BY <1>1, StillbornIs DEF Failing
<1>3. Requested = [t \in Thread |-> NoCall] /\ Answered = [t \in Thread |-> NoCall]
  BY <1>1 DEF Requested, Answered
<1>4. NVars \in Nat \ {0} /\ NVars \in Handle /\ Handle \subseteq Nat \ {0}
  BY AbortHandle DEF Handle
<1>5. Store = [h \in Handle |-> IF h \in 1 .. NVars THEN Zero ELSE Absent]
  BY <1>1, <1>2, <1>4 DEF Store
<1>6. nextHandle \in Handle \cup {h + 1 : h \in Handle} /\ \A h \in 1 .. NVars : h < nextHandle
  BY <1>1, <1>4
<1> QED BY <1>1, <1>3, <1>5, <1>6 DEF Device!Init

\* Every step is one of the device, while errors are attributed to their calls.
LEMMA StepRefines ==
    ASSUME TypeInv, LInv, MemInv, Attributed, FlagSafe, [Next]_vars
    PROVE  [Device!Next]_(Device!vars)
<1>1. CASE UNCHANGED vars
  <2>1. UNCHANGED <<pc, op, mgr, nextHandle, mem, ret, lastError, hostMem>>
    BY <1>1 DEF vars, hostVars, memVars
  <2>2. Requested' = Requested /\ Answered' = Answered
    BY <2>1 DEF Requested, Answered
  <2>3. Stillborn' = Stillborn
    BY <2>1 DEF Stillborn, Busy
  <2>4. Store' = Store
    BY <2>1, <2>3, StoreKept
  <2> QED BY <2>1, <2>2, <2>4 DEF Device!vars
<1>2. ASSUME NEW t \in Thread, HostStep(t) PROVE Device!Next
  BY <1>2, HostRefines
<1>3. ASSUME NEW t \in Thread, BridgeStep(t) PROVE Device!Next \/ UNCHANGED Device!vars
  BY <1>3, BridgeRefines
<1> QED BY <1>1, <1>2, <1>3 DEF Next

--------------------------------------------------------------------------------
(* Which programs: those whose calls cannot take each other's errors.       *)

\* One thread; or any number, when the device refuses nothing: no operation
\* fails on it, no copy overlaps, and no kernel shares a staging buffer.
Faultless ==
    /\ Fault \subseteq {"none", "throw"}
    /\ "hipMemcpy" \notin Misused
    /\ KernelMap \cap (PrintfKernel \cup AbortKernel) = {}

\* No scope of the stack holds an error.
Clean(stack) == \A i \in 1 .. Len(stack) : ~stack[i].err

\* Pushing a scope leaves the stack clean.
LEMMA CleanPush ==
    ASSUME NEW stack \in Seq(ScopeType), Clean(stack), NEW f \in Filters
    PROVE  /\ PushScope(stack, f) \in Seq(ScopeType) /\ PushScope(stack, f) # <<>>
           /\ Clean(PushScope(stack, f))
<1> DEFINE pushed == Append(stack, Scope(f))
<1>1. Scope(f) \in ScopeType /\ Scope(f).err = FALSE
  BY DEF Scope, ScopeType
<1>2. /\ pushed \in Seq(ScopeType) /\ Len(pushed) = Len(stack) + 1
      /\ \A i \in 1 .. Len(stack) : pushed[i] = stack[i]
      /\ pushed[Len(stack) + 1] = Scope(f)
  BY <1>1, AppendProperties
<1> HIDE DEF pushed
<1>3. Len(stack) \in Nat
  OBVIOUS
<1>4. \A i \in 1 .. Len(pushed) : i \in 1 .. Len(stack) \/ i = Len(stack) + 1
  BY <1>2, <1>3
<1>5. Clean(pushed)
  BY <1>1, <1>2, <1>4 DEF Clean
<1>6. pushed # <<>>
  BY <1>2, <1>3
<1> QED BY <1>2, <1>5, <1>6 DEF pushed, PushScope

\* An error that no filter takes leaves it clean,
LEMMA CleanRaise ==
    ASSUME NEW stack \in Seq(ScopeType), Clean(stack), NEW f, f \notin Filters, stack # <<>>
    PROVE  Raise(stack, f) \in Seq(ScopeType) /\ Raise(stack, f) # <<>> /\ Clean(Raise(stack, f))
<1> DEFINE raised == Raise(stack, f)
<1>1. raised \in Seq(ScopeType) /\ Len(raised) = Len(stack) /\ Len(stack) \in Nat \ {0}
  BY RaiseFacts
<1>2. ASSUME NEW i \in 1 .. Len(stack) PROVE ~raised[i].err
  <2>1. stack[i] \in ScopeType /\ i \in DOMAIN stack /\ ~stack[i].err
    BY <1>2 DEF Clean
  <2>2. raised[i] = [stack[i] EXCEPT !.err = stack[i].err \/ Captures(stack, f, i)]
    BY <2>1 DEF Raise
  <2>3. ~Captures(stack, f, i)
    BY <2>1 DEF Captures, ScopeType
  <2> QED BY <2>1, <2>2, <2>3 DEF ScopeType
<1> HIDE DEF raised
<1>3. Clean(raised)
  BY <1>1, <1>2 DEF Clean
<1>4. raised # <<>>
  BY <1>1
<1> QED BY <1>1, <1>3, <1>4 DEF raised

\* and so does a pop, which reports none.
LEMMA CleanPop ==
    ASSUME NEW stack \in Seq(ScopeType), Clean(stack), stack # <<>>
    PROVE  PopReports(stack) = FALSE /\ Clean(PopLeaves(stack))
<1> DEFINE n == Len(stack)
<1>1. n \in Nat \ {0} /\ stack[n] \in ScopeType /\ ~stack[n].err
  BY DEF Clean
<1>2. PopReports(stack) = FALSE
  BY <1>1 DEF PopReports, ScopeType
<1> DEFINE left == SubSeq(stack, 1, n - 1)
<1>3. PopLeaves(stack) = left
  BY DEF PopLeaves
<1>4. Len(left) = n - 1 /\ \A i \in 1 .. n - 1 : left[i] = stack[i]
  <2>1. \A i \in 1 .. n - 1 : stack[i] \in ScopeType
    BY <1>1
  <2>2. 1 \in Int /\ n - 1 \in Int
    BY <1>1
  <2>3. /\ left \in Seq(ScopeType)
        /\ Len(left) = IF 1 <= n - 1 THEN (n - 1) - 1 + 1 ELSE 0
        /\ \A i \in 1 .. (n - 1) - 1 + 1 : left[i] = stack[1 + i - 1]
    BY <2>1, <2>2, SubSeqProperties
  <2> HIDE DEF n, left
  <2>4. Len(left) = n - 1
    BY <1>1, <2>3
  <2>5. ASSUME NEW i \in 1 .. n - 1 PROVE left[i] = stack[i]
    BY <1>1, <2>3
  <2> QED BY <2>4, <2>5
<1>5. Clean(left)
  <2> HIDE DEF left
  <2> QED BY <1>1, <1>4 DEF Clean
<1> QED BY <1>2, <1>3, <1>5

\* Then no scope ever holds an error, and a call fails only by an exception of
\* its own.
CleanCall(t) ==
    /\ op[t].fault \in {"none", "throw"} /\ Free(t)
    /\ Begun(t) => op[t].failed = op[t].own /\ (op[t].fn = "hipMalloc" => ~op[t].own)
    /\ pc[t] = "queued" /\ op[t].kind = "DeviceToDevice" => op[t].dst # op[t].src

\* The inductive invariant of a device that refuses nothing.
CleanInv ==
    /\ Clean(scopes) /\ printfMap = None /\ abortMap = None
    /\ \A t \in Thread : CleanCall(t) /\ ~popped[t]

\* A step of t keeps it, by what the step makes of t's call.
LEMMA CleanStep ==
    ASSUME TypeInv, CleanInv, NEW t \in Thread, NEW p, NEW o,
           pc' = [pc EXCEPT ![t] = p], op' = [op EXCEPT ![t] = o],
           popped' = popped \/ popped' = [popped EXCEPT ![t] = FALSE],
           Clean(scopes'), UNCHANGED <<printfMap, abortMap>>,
           p \notin {"printf", "abort"}, o.fault \in {"none", "throw"},
           p \notin {"idle", "queued"} => o.failed = o.own /\ (o.fn = "hipMalloc" => ~o.own),
           p = "queued" /\ o.kind = "DeviceToDevice" => o.dst # o.src
    PROVE  CleanInv'
<1>1. pc'[t] = p /\ op'[t] = o /\ \A u \in Thread \ {t} : pc'[u] = pc[u] /\ op'[u] = op[u]
  BY MovesOn
<1>2. \A u \in Thread : ~popped'[u]
  BY DEF CleanInv, TypeInv, CallOK
<1>3. CleanCall(t)'
  BY <1>1 DEF CleanCall, Free, Begun
<1>4. \A u \in Thread \ {t} : CleanCall(u)'
  BY <1>1 DEF CleanInv, CleanCall, Free, Begun
<1> QED BY <1>2, <1>3, <1>4 DEF CleanInv, Clean

\* Every call of a host thread keeps it.
LEMMA HostClean ==
    ASSUME Faultless, TypeInv, MemInv, CleanInv, NEW t \in Thread, HostStep(t)
    PROVE  CleanInv'
<1>1. /\ pc[t] = "idle" /\ pc'[t] \in {"idle", "queued"}
      /\ \A u \in Thread \ {t} : pc'[u] = pc[u] /\ op'[u] = op[u]
      /\ UNCHANGED <<scopes, popped, printfMap, abortMap>>
      /\ op'[t].fault \in {"none", "throw"}
  BY HostMoves DEF MadeCall, launchVars, stageVars, Faultless
<1>2. pc'[t] = "queued" /\ op'[t].kind = "DeviceToDevice" => op'[t].dst # op'[t].src
  <2>1. CASE Decided(t)
    BY <1>1, <2>1 DEF Decided
  <2>2. ASSUME NEW o, Asks(t, o) PROVE op'[t].kind = "DeviceToDevice" => op'[t].dst # op'[t].src
    <3>1. op'[t] = o
      BY <2>2, OpFacts DEF Asks
    <3> QED BY <2>2, <3>1 DEF Asks, Faultless
  <2> QED BY <2>1, <2>2, HostAsks DEF Calls
<1>3. CleanCall(t)'
  BY <1>1, <1>2 DEF CleanCall, Free, Begun
<1>4. \A u \in Thread \ {t} : CleanCall(u)'
  BY <1>1 DEF CleanInv, CleanCall, Free, Begun
<1> QED BY <1>1, <1>3, <1>4 DEF CleanInv, Clean

\* A proxied function that throws marks its own call and no other.
LEMMA ThrownClean ==
    ASSUME TypeInv, CleanInv, NEW t \in Thread, op[t].fn # "hipMalloc", Thrown(t),
           UNCHANGED popped
    PROVE  CleanInv'
<1> DEFINE o == [op[t] EXCEPT !.failed = TRUE, !.own = TRUE]
<1>1. /\ pc' = [pc EXCEPT ![t] = "settled"] /\ op' = [op EXCEPT ![t] = o]
      /\ UNCHANGED <<printfMap, abortMap>> /\ scopes' = PushScope(scopes, Validation)
  BY ThrownOp DEF Thrown, launchVars, stageVars
<1>2. /\ o.fn = op[t].fn /\ o.fault = op[t].fault /\ o.failed = TRUE /\ o.own = TRUE
  BY OpFacts DEF OpType
<1> HIDE DEF o
<1>3. o.fault \in {"none", "throw"}
  BY <1>2 DEF CleanInv, CleanCall
<1>4. Clean(scopes')
  BY <1>1, CleanPush DEF CleanInv, TypeInv, CallOK, Filters
<1> QED BY <1>1, <1>2, <1>3, <1>4, CleanStep

\* One that runs without an error marks none.
LEMMA RanClean ==
    ASSUME TypeInv, CleanInv, NEW t \in Thread, NEW q \in OpType,
           q.fault = op[t].fault, ~q.failed, NEW p \in {"copy", "settled"},
           Ran(t, q, FALSE, p), UNCHANGED <<popped, printfMap, abortMap>>
    PROVE  CleanInv'
<1> DEFINE o == [q EXCEPT !.own = FALSE]
<1>1. /\ pc' = [pc EXCEPT ![t] = p] /\ op' = [op EXCEPT ![t] = o]
      /\ UNCHANGED <<printfMap, abortMap>> /\ scopes' = PushScope(scopes, Validation)
  BY DEF Ran, launchVars, stageVars
<1>2. /\ o.fn = q.fn /\ o.fault = op[t].fault /\ o.failed = FALSE /\ o.own = FALSE
  BY DEF OpType
<1> HIDE DEF o
<1>3. o.fault \in {"none", "throw"}
  BY <1>2 DEF CleanInv, CleanCall
<1>4. Clean(scopes')
  BY <1>1, CleanPush DEF CleanInv, TypeInv, CallOK, Filters
<1> QED BY <1>1, <1>2, <1>3, <1>4, CleanStep

\* Every start keeps it.
LEMMA StartClean ==
    ASSUME Faultless, TypeInv, LInv, MemInv, CleanInv, NEW t \in Thread,
           StartMalloc(t) \/ StartFree(t) \/ StartMemcpy(t) \/ StartLaunch(t)
    PROVE  CleanInv'
<1>0. scopes \in Seq(ScopeType) /\ Clean(scopes) /\ Validation \in Filters /\ OutOfMemory \in Filters
      /\ op[t].fault \in {"none", "throw"} /\ op[t].fault \notin Filters /\ op[t].fault # Validation
  BY DEF CleanInv, CleanCall, TypeInv, CallOK, Filters, Validation, OutOfMemory
<1>1. CASE StartMalloc(t)
  <2> DEFINE outer == PushScope(scopes, OutOfMemory)
             pushed == PushScope(outer, Validation)
             raised == Raise(pushed, op[t].fault)
             o == [op[t] EXCEPT !.dst = nextHandle, !.own = op[t].fault # "none"]
  <2>1. /\ Starts(t, "hipMalloc") /\ pc' = [pc EXCEPT ![t] = "malloc"]
        /\ Pops(t, raised) /\ UNCHANGED <<printfMap, abortMap>>
    BY <1>1 DEF StartMalloc, launchVars, stageVars
  <2>2. op' = [op EXCEPT ![t] = o]
    BY <1>1, OpFacts DEF StartMalloc
  <2>3. /\ op[t] \in OpType /\ op[t].fn = "hipMalloc" /\ ~op[t].failed /\ CallAsked(op[t])
    BY <2>1, StartAsked
  <2>4. op[t].fault = "none"
    BY <1>0, <2>3 DEF CallAsked
  <2>5. o.failed = FALSE /\ o.own = FALSE /\ o.fault = "none"
    BY <2>3, <2>4 DEF OpType
  <2> HIDE DEF o
  <2>6. outer \in Seq(ScopeType) /\ Clean(outer)
    BY <1>0, CleanPush
  <2> HIDE DEF outer
  <2>7. pushed \in Seq(ScopeType) /\ Clean(pushed) /\ pushed # <<>>
    BY <1>0, <2>6, CleanPush
  <2> HIDE DEF pushed
  <2>8. raised \in Seq(ScopeType) /\ Clean(raised) /\ raised # <<>>
    BY <1>0, <2>7, CleanRaise
  <2> HIDE DEF raised
  <2>9. popped' = [popped EXCEPT ![t] = FALSE] /\ Clean(scopes')
    BY <2>1, <2>8, CleanPop DEF Pops
  <2> QED BY <2>1, <2>2, <2>5, <2>9, CleanStep
<1>2. CASE StartFree(t)
  <2>1. /\ Starts(t, "hipFree") /\ UNCHANGED <<printfMap, abortMap>> /\ op' = op
        /\ \/ Pops(t, PushScope(scopes, Validation)) /\ pc' = [pc EXCEPT ![t] = "popped"]
           \/ /\ scopes' = PushScope(scopes, Validation) /\ popped' = popped
              /\ pc' = [pc EXCEPT ![t] = "hung"]
    BY <1>2 DEF StartFree, launchVars, stageVars
  <2>2. /\ op[t] \in OpType /\ op[t].fn = "hipFree" /\ ~op[t].failed /\ ~op[t].own
    BY <2>1, StartAsked
  <2>3. op' = [op EXCEPT ![t] = op[t]] /\ op[t].failed = op[t].own
    BY <2>1, <2>2, OpFacts DEF TypeInv, CallOK
  <2> DEFINE pushed == PushScope(scopes, Validation)
  <2>4. pushed \in Seq(ScopeType) /\ Clean(pushed) /\ pushed # <<>>
    BY <1>0, CleanPush
  <2> HIDE DEF pushed
  <2>5. Clean(scopes') /\ (popped' = popped \/ popped' = [popped EXCEPT ![t] = FALSE])
    BY <2>1, <2>4, CleanPop DEF Pops, pushed
  <2>6. PICK p \in {"popped", "hung"} : pc' = [pc EXCEPT ![t] = p]
    BY <2>1
  <2>7. UNCHANGED <<printfMap, abortMap>>
    BY <2>1
  <2> QED BY <1>0, <2>2, <2>3, <2>5, <2>6, <2>7, CleanStep
<1>3. CASE StartMemcpy(t)
  <2>1. Starts(t, "hipMemcpy") /\ UNCHANGED popped
    BY <1>3 DEF StartMemcpy
  <2>2. /\ op[t] \in OpType /\ op[t].fn = "hipMemcpy" /\ ~op[t].failed /\ pc[t] = "queued"
    BY <2>1, StartAsked
  <2>3. UNCHANGED <<printfMap, abortMap>> \/ Thrown(t)
    BY <1>3 DEF StartMemcpy, launchVars, stageVars
  <2>4. CASE Thrown(t)
    BY <2>1, <2>2, <2>4, ThrownClean
  <2>5. ASSUME ~Thrown(t) PROVE \E q \in OpType, p \in {"copy", "settled"} :
           q.fault = op[t].fault /\ ~q.failed /\ Ran(t, q, FALSE, p)
    <3>1. CASE op[t].kind = "HostToDevice"
      <4>1. Ran(t, op[t], op[t].fault = Validation, "settled")
        BY <1>3, <2>5, <3>1 DEF StartMemcpy
      <4>2. (op[t].fault = Validation) = FALSE
        BY <1>0
      <4> QED BY <2>2, <4>1, <4>2
    <3>2. CASE op[t].kind = "DeviceToHost"
      <4> DEFINE d == IF op[t].fault = Validation THEN Zero ELSE mem[op[t].src]
                 q == [op[t] EXCEPT !.data = d]
      <4>1. Ran(t, q, op[t].fault = Validation, "copy") /\ ~Throws(t, {op[t].src})
        BY <1>3, <2>5, <3>2 DEF StartMemcpy
      <4>2. (op[t].fault = Validation) = FALSE
        BY <1>0
      <4>3. d \in Val
        BY <1>0, <4>1, LiveType DEF TypeInv, MemOK
      <4> HIDE DEF d
      <4>4. q \in OpType /\ q.fault = op[t].fault /\ ~q.failed
        BY <2>2, <4>3 DEF OpType
      <4> HIDE DEF q
      <4> QED BY <4>1, <4>2, <4>4
    <3>3. CASE op[t].kind = "DeviceToDevice"
      <4>1. Ran(t, op[t], op[t].fault = Validation \/ op[t].src = op[t].dst, "settled")
        BY <1>3, <2>5, <3>3 DEF StartMemcpy
      <4>2. op[t].dst # op[t].src
        BY <2>2, <3>3 DEF CleanInv, CleanCall
      <4>3. (op[t].fault = Validation \/ op[t].src = op[t].dst) = FALSE
        BY <1>0, <4>2
      <4> QED BY <2>2, <4>1, <4>3
    <3>4. CASE op[t].kind = "Default"
      <4> DEFINE q == [op[t] EXCEPT !.code = "hipErrorInvalidValue"]
      <4>1. Ran(t, q, FALSE, "settled")
        BY <1>3, <3>4 DEF StartMemcpy
      <4>2. q \in OpType /\ q.fault = op[t].fault /\ ~q.failed
        BY <2>2 DEF OpType, Code
      <4> HIDE DEF q
      <4> QED BY <4>1, <4>2
    <3> QED BY <1>3, <3>1, <3>2, <3>3, <3>4 DEF StartMemcpy
  <2> QED BY <2>1, <2>3, <2>4, <2>5, RanClean
<1>4. CASE StartLaunch(t)
  <2>1. Starts(t, "hipLaunchKernel") /\ UNCHANGED popped
    BY <1>4 DEF StartLaunch
  <2>2. /\ op[t] \in OpType /\ op[t].fn = "hipLaunchKernel" /\ ~op[t].failed /\ pc[t] = "queued"
    BY <2>1, StartAsked
  <2>3. CASE op[t].kernel \notin KernelMap
    <3> DEFINE q == [op[t] EXCEPT !.code = "hipErrorInvalidDeviceFunction"]
    <3>1. Ran(t, q, FALSE, "settled") /\ UNCHANGED <<printfMap, abortMap>>
      BY <1>4, <2>3 DEF StartLaunch, launchVars, stageVars
    <3>2. q \in OpType /\ q.fault = op[t].fault /\ ~q.failed
      BY <2>2 DEF OpType, Code
    <3> HIDE DEF q
    <3> QED BY <2>1, <3>1, <3>2, RanClean
  <2>4. CASE op[t].kernel \in KernelMap /\ Throws(t, {op[t].dst})
    <3>1. Thrown(t)
      BY <1>4, <2>4 DEF StartLaunch
    <3> QED BY <2>1, <2>2, <3>1, ThrownClean
  <2>5. CASE op[t].kernel \in KernelMap /\ ~Throws(t, {op[t].dst})
    <3>1. Submit(t)
      BY <1>4, <2>5 DEF StartLaunch
    <3>2. ~Prints(op[t].kernel) /\ ~Asserts(op[t].kernel)
      BY <2>5 DEF Faultless, Prints, Asserts
    <3>3. Dropped(op[t]) = FALSE
      BY <1>0, <3>2 DEF Dropped
    <3> DEFINE q == [op[t] EXCEPT !.row = Len(kernelsRan) + 1, !.dropped = Dropped(op[t])]
               bad == Dropped(op[t]) \/ (\/ Prints(op[t].kernel) /\ printfMap # None
                                         \/ Asserts(op[t].kernel) /\ abortMap # None)
               place == IF Prints(op[t].kernel) THEN "printf"
                        ELSE IF Asserts(op[t].kernel) THEN "abort" ELSE "settled"
    <3>4. Ran(t, q, bad, place)
      BY <3>1 DEF Submit
    <3>5. bad = FALSE /\ place = "settled"
      BY <3>2, <3>3
    <3>6. q \in OpType /\ q.fault = op[t].fault /\ ~q.failed
      <4>1. Len(kernelsRan) + 1 \in Nat /\ Dropped(op[t]) \in BOOLEAN
        <5>1. Len(kernelsRan) + 1 \in Nat
          BY OpFacts
        <5> QED BY <3>3, <5>1
      <4> QED BY <2>2, <4>1 DEF OpType
    <3> HIDE DEF q, bad, place
    <3>7. UNCHANGED <<printfMap, abortMap>>
      BY <3>1, <3>2 DEF Submit
    <3>8. Ran(t, q, FALSE, "settled")
      BY <3>4, <3>5
    <3> QED BY <2>1, <3>6, <3>7, <3>8, RanClean
  <2> QED BY <2>3, <2>4, <2>5
<1> QED BY <1>1, <1>2, <1>3, <1>4

\* A call that owes a pop finds a scope to pop.
LEMMA ScopeThere ==
    ASSUME TypeInv, ScopesBalanced, NEW t \in Thread, pc[t] \in OwingPlaces
    PROVE  scopes \in Seq(ScopeType) /\ scopes # <<>>
<1>1. t \in Owing
  BY DEF Owing, OwingPlaces
<1>2. Cardinality(Owing) \in Nat /\ Cardinality(Owing) # 0
  BY <1>1, OwingFinite, FS_CardinalityType, FS_EmptySet
<1> QED BY <1>2 DEF TypeInv, CallOK, ScopesBalanced

\* Every step on the main thread keeps it.
LEMMA BridgeClean ==
    ASSUME Faultless, TypeInv, LInv, MemInv, ScopesBalanced, CleanInv, NEW t \in Thread, BridgeStep(t)
    PROVE  CleanInv'
<1>1. /\ op[t].fault \in {"none", "throw"} /\ Clean(scopes) /\ popped[t] = FALSE /\ op[t] \in OpType
      /\ Begun(t) => op[t].failed = op[t].own /\ (op[t].fn = "hipMalloc" => ~op[t].own)
  BY OpFacts DEF CleanInv, CleanCall, TypeInv, CallOK
<1>2. PICK o : o = op[t]
  OBVIOUS
<1>3. op = [op EXCEPT ![t] = o]
  BY <1>2, OpFacts DEF TypeInv, CallOK
<1>4. /\ o.fault \in {"none", "throw"}
      /\ Begun(t) => o.failed = o.own /\ (o.fn = "hipMalloc" => ~o.own)
  BY <1>1, <1>2
<1>5. CASE StartMalloc(t) \/ StartFree(t) \/ StartMemcpy(t) \/ StartLaunch(t)
  BY <1>5, StartClean
<1>6. CASE MallocPopped(t)
  <2> DEFINE q == [op[t] EXCEPT !.failed = popped[t]]
  <2>1. /\ pc[t] = "malloc" /\ pc' = [pc EXCEPT ![t] = "popped"] /\ op' = [op EXCEPT ![t] = q]
        /\ Pops(t, scopes) /\ UNCHANGED <<printfMap, abortMap>>
    BY <1>6 DEF MallocPopped, launchVars, stageVars
  <2>2. op[t].fn = "hipMalloc" /\ ~op[t].own
    BY <1>1, <2>1 DEF MemInv, MallocOK, Begun
  <2>3. q.failed = FALSE /\ q.own = FALSE /\ q.fault \in {"none", "throw"}
    BY <1>1, <2>2 DEF OpType
  <2> HIDE DEF q
  <2>4. scopes \in Seq(ScopeType) /\ scopes # <<>>
    BY <2>1, ScopeThere DEF OwingPlaces
  <2>5. popped' = [popped EXCEPT ![t] = FALSE] /\ Clean(scopes')
    BY <1>1, <2>1, <2>4, CleanPop DEF Pops
  <2> QED BY <2>1, <2>3, <2>5, CleanStep
<1>7. CASE CopyMapped(t)
  <2>1. /\ pc[t] = "copy" /\ pc' = [pc EXCEPT ![t] = "settled"] /\ op' = [op EXCEPT ![t] = o]
        /\ UNCHANGED <<scopes, popped, printfMap, abortMap>>
    BY <1>3, <1>7 DEF CopyMapped, launchVars, stageVars
  <2>2. o.failed = o.own /\ (o.fn = "hipMalloc" => ~o.own)
    BY <1>4, <2>1 DEF Begun
  <2>3. Clean(scopes') /\ popped' = popped
    BY <1>1, <2>1
  <2> QED BY <1>4, <2>1, <2>2, <2>3, CleanStep
<1>8. CASE PrintfMapped(t) \/ AbortMapped(t)
  BY <1>8 DEF PrintfMapped, AbortMapped, CleanInv, CleanCall, Free
<1>9. CASE PopScope(t)
  <2>1. /\ pc[t] = "settled" /\ pc' = [pc EXCEPT ![t] = "popped"] /\ op' = [op EXCEPT ![t] = o]
        /\ Pops(t, scopes) /\ UNCHANGED <<printfMap, abortMap>>
    BY <1>3, <1>9 DEF PopScope, launchVars, stageVars
  <2>2. scopes \in Seq(ScopeType) /\ scopes # <<>>
    BY <2>1, ScopeThere DEF OwingPlaces
  <2>3. popped' = [popped EXCEPT ![t] = FALSE] /\ Clean(scopes')
    BY <1>1, <2>1, <2>2, CleanPop DEF Pops
  <2> QED BY <1>4, <2>1, <2>3, CleanStep DEF Begun
<1>10. CASE Finish(t)
  <2> DEFINE q == [op[t] EXCEPT !.failed = op[t].failed \/ popped[t]]
  <2>1. /\ pc[t] = "popped" /\ pc' = [pc EXCEPT ![t] = "finished"] /\ op' = [op EXCEPT ![t] = q]
        /\ UNCHANGED <<scopes, popped, printfMap, abortMap>>
    BY <1>10 DEF Finish, stageVars
  <2>2. q.failed = q.own /\ (q.fn = "hipMalloc" => ~q.own) /\ q.fault \in {"none", "throw"}
    BY <1>1, <2>1 DEF OpType, Begun
  <2>3. Clean(scopes') /\ popped' = popped
    BY <1>1, <2>1
  <2> HIDE DEF q
  <2> QED BY <2>1, <2>2, <2>3, CleanStep
<1>11. CASE Return(t)
  <2>1. /\ pc' = [pc EXCEPT ![t] = "idle"] /\ op' = [op EXCEPT ![t] = o]
        /\ UNCHANGED <<scopes, popped, printfMap, abortMap>>
    BY <1>3, <1>11 DEF Return, launchVars, stageVars
  <2>3. Clean(scopes') /\ popped' = popped
    BY <1>1, <2>1
  <2> QED BY <1>4, <2>1, <2>3, CleanStep
<1>12. CASE CopyRejected(t)
  <2> DEFINE q == [op[t] EXCEPT !.failed = TRUE]
  <2>1. /\ pc[t] = "copy" /\ pc' = [pc EXCEPT ![t] = "settled"] /\ op' = [op EXCEPT ![t] = q]
        /\ op[t].own /\ UNCHANGED <<scopes, popped, printfMap, abortMap>>
    BY <1>12 DEF CopyRejected, Rejected, launchVars, stageVars
  <2>2. q.failed = q.own /\ (q.fn = "hipMalloc" => ~q.own) /\ q.fault \in {"none", "throw"}
    BY <1>1, <2>1 DEF OpType, Begun
  <2>3. Clean(scopes') /\ popped' = popped
    BY <1>1, <2>1
  <2> HIDE DEF q
  <2> QED BY <2>1, <2>2, <2>3, CleanStep
<1> QED BY <1>5, <1>6, <1>7, <1>8, <1>9, <1>10, <1>11, <1>12 DEF BridgeStep

\* One thread, and no kernel needs an assertion flag that the program may have
\* freed; or any number of threads, and a device that refuses nothing.
Separate == ((\E t : Thread = {t}) /\ FlagSafe) \/ Faultless

\* The handles, along every step.
LEMMA MemStep ==
    ASSUME TypeInv, LInv, Attributed, MemInv, [Next]_vars
    PROVE  MemInv'
<1>1. CASE UNCHANGED vars
  <2>1. UNCHANGED <<pc, op, mgr, nextHandle>>
    BY <1>1 DEF vars, memVars
  <2>2. Given' = Given /\ HandlesOK'
    BY <2>1 DEF Given, Allocates, Begun, MemInv, HandlesOK
  <2>3. \A t \in Thread : MallocOK(t)' /\ AskedOK(t)'
    BY <2>1, <2>2 DEF MemInv, MallocOK, AskedOK, Allocates, Begun, Live
  <2> QED BY <2>2, <2>3 DEF MemInv
<1>2. ASSUME NEW t \in Thread, HostStep(t) \/ BridgeStep(t) PROVE MemInv'
  BY <1>2, HostMem, BridgeMem
<1> QED BY <1>1, <1>2 DEF Next

\* A thread alone is given its own errors.
LEMMA OneAttributed ==
    ASSUME NEW t, Thread = {t}, Alone(t)
    PROVE  Attributed
  BY DEF Alone, ScopeIsOwn, MapsAreOwn, Attributed, Free

\* Where the device refuses nothing, there is no error to be given away.
LEMMA CleanAttributed ==
    ASSUME Faultless, MemInv, CleanInv, TypeInv
    PROVE  Attributed
<1> SUFFICES ASSUME NEW t \in Thread
             PROVE  /\ pc[t] = "malloc" /\ popped[t] => op[t].own
                    /\ pc[t] = "popped" => (op[t].failed \/ popped[t]) = op[t].own
                    /\ pc[t] = "finished" => op[t].failed = op[t].own
                    /\ printfMap = None /\ abortMap = None
  BY DEF Attributed
<1>1. op[t].failed \in BOOLEAN /\ op[t].own \in BOOLEAN
  BY OpFacts
<1> QED BY <1>1 DEF CleanInv, CleanCall, Begun

\* The first case of the theorem: one thread.
LEMMA OneImplements ==
    ASSUME NEW t, Thread = {t}, FlagSafe
    PROVE  Spec => Device!Spec
<1>1. Spec => [](TypeInv /\ LInv /\ Alone(t))
  BY OneAlone
<1>2. Init => MemInv /\ Device!Init
  BY InitMem, InitRefines
<1>3. TypeInv /\ LInv /\ Alone(t) /\ MemInv /\ [Next]_vars
      => MemInv' /\ [Device!Next]_(Device!vars)
  BY OneAttributed, MemStep, StepRefines
<1> QED BY <1>1, <1>2, <1>3, PTL DEF Spec, Device!Spec

\* The second: a device that refuses nothing.
LEMMA FaultlessImplements ==
    ASSUME Faultless
    PROVE  Spec => Device!Spec
<1>1. Spec => [](TypeInv /\ LInv)
  BY Launches
<1>2. Spec => []ScopesBalanced
  BY Balanced
<1>3. Init => MemInv /\ CleanInv /\ Device!Init
  <2> SUFFICES ASSUME Init PROVE CleanInv
    BY InitMem, InitRefines
  <2>1. /\ scopes = <<>> /\ printfMap = None /\ abortMap = None
        /\ \A t \in Thread : pc[t] = "idle" /\ op[t] = NoOp /\ popped[t] = FALSE
    BY DEF Init
  <2>2. NoOp.fault = "none"
    BY DEF NoOp
  <2>3. Clean(scopes)
    BY <2>1 DEF Clean
  <2> QED BY <2>1, <2>2, <2>3 DEF CleanInv, CleanCall, Free, Begun
<1>4. TypeInv /\ LInv /\ ScopesBalanced /\ MemInv /\ CleanInv /\ [Next]_vars
      => (MemInv /\ CleanInv)' /\ [Device!Next]_(Device!vars)
  <2> SUFFICES ASSUME TypeInv, LInv, ScopesBalanced, MemInv, CleanInv, [Next]_vars
               PROVE  MemInv' /\ CleanInv' /\ [Device!Next]_(Device!vars)
    OBVIOUS
  <2>1. Attributed /\ FlagSafe
    <3>1. FlagSafe
      BY DEF Faultless, FlagSafe
    <3> QED BY <3>1, CleanAttributed
  <2>2. MemInv' /\ [Device!Next]_(Device!vars)
    BY <2>1, MemStep, StepRefines
  <2>3. CASE UNCHANGED vars
    <3>1. UNCHANGED <<pc, op, scopes, popped, printfMap, abortMap>>
      BY <2>3 DEF vars, launchVars, stageVars
    <3>2. CleanInv'
      BY <3>1 DEF CleanInv, CleanCall, Clean, Free, Begun
    <3> QED BY <2>2, <3>2
  <2>4. ASSUME NEW t \in Thread, HostStep(t) \/ BridgeStep(t) PROVE CleanInv'
    BY <2>4, HostClean, BridgeClean
  <2> QED BY <2>2, <2>3, <2>4 DEF Next
<1> QED BY <1>1, <1>2, <1>3, <1>4, PTL DEF Spec, Device!Spec

\* HipBridge implements HipDevice: each call of the runtime is one atomic step on
\* the device between its invocation and its return (the start of its proxied
\* function), and it returns what that step decided, however the pushes and pops
\* of error scopes, the mapping of the staging buffers and the calls of the other
\* threads fall between; for one thread, if no kernel needs an assertion flag the
\* program may have freed, and for any number of threads on a device that
\* refuses nothing.
THEOREM BridgeIsDevice ==
    ASSUME Separate
    PROVE  Spec => ImplementsDevice
<1>1. CASE (\E t : Thread = {t}) /\ FlagSafe
  <2>1. PICK t : Thread = {t}
    BY <1>1
  <2> QED BY <1>1, <2>1, OneImplements DEF ImplementsDevice
<1>2. CASE Faultless
  BY <1>2, FaultlessImplements DEF ImplementsDevice
<1> QED BY <1>1, <1>2 DEF Separate

=============================================================================
