\* One host thread, everything it can call, every fault of the device.
SPECIFICATION Spec
CONSTANTS
    t1 = t1
    t2 = t2
    Thread <- OneThread
    Val <- Values
    Zero = 0
    NVars = 1
    Kernel <- AllKernels
    KernelMap <- InModule
    PrintfKernel <- Printing
    AbortKernel <- Asserting
    Slots = 2
    MaxCalls = 3
    Api = {"hipMalloc", "hipFree", "hipMemcpy", "hipLaunchKernel",
           "hipGetLastError", "hipMemcpyToSymbol"}
    Fault = {"none", "throw", "validation", "out-of-memory"}
    Misused = {"hipMemcpy", "hipLaunchKernel"}
    None = None
    NoCall = NoCall
    Absent = Absent
INVARIANTS TypeOK ErrorsAreOwn SuccessPrintsOwn
PROPERTIES ImplementsDevice
\* The program may exit.
CHECK_DEADLOCK FALSE
