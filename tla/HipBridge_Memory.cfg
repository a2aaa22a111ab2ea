\* Two host threads share the device memory; the device is faultless.
SPECIFICATION Spec
CONSTANTS
    t1 = t1
    t2 = t2
    Thread <- TwoThreads
    Val <- Values
    Zero = 0
    NVars = 1
    Kernel <- AllKernels
    KernelMap <- InModule
    PrintfKernel <- Printing
    AbortKernel <- Asserting
    Slots = 2
    MaxCalls = 2
    Api = {"hipMalloc", "hipFree", "hipMemcpy"}
    Fault = {"none"}
    Misused = {}
    None = None
    NoCall = NoCall
    Absent = Absent
PROPERTIES ImplementsDevice
\* The program may exit.
CHECK_DEADLOCK FALSE
