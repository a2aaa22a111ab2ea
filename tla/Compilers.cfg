\* Both callers, in parallel or one after the other, and everything that may
\* go wrong in a worker.
SPECIFICATION FairSpec
CONSTANTS
    Fault = {"fails", "throws", "dies", "free"}
    None = None
INVARIANTS FailureIsExplained
PROPERTIES KeepsPromise Settles
\* The promise settles once.
CHECK_DEADLOCK FALSE
