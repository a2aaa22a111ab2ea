\* Two host threads launch kernels at the same time; the device is faultless.
SPECIFICATION Spec
CONSTANTS
    t1 = t1
    t2 = t2
    Thread <- TwoThreads
    Val <- OneValue
    Zero = 0
    NVars = 1
    Kernel <- TwoKernels
    KernelMap <- TwoKernels
    PrintfKernel <- TwoKernels
    AbortKernel <- Both
    Slots = 2
    MaxCalls = 2
    Api = {"hipMemcpyToSymbol", "hipLaunchKernel"}
    Fault = {"none"}
    Misused = {}
    None = None
    NoCall = NoCall
    Absent = Absent
INVARIANTS DroppedIsReported StatusIsResult AssertionIsOwn TimestampsMatch ScopesBalanced StagingReleased
PROPERTIES CallsReturn
\* The program may exit.
CHECK_DEADLOCK FALSE
