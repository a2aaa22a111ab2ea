\* A run is cancelled while it loads the program.
SPECIFICATION Spec
CONSTANTS
    c1 = c1
    c2 = c2
    empty = empty
    MaxRuns = 1
    Contents <- Texts
    Empty <- empty
    Fails <- Awaits
    None = None
INVARIANTS CancelStopsProgram
\* The user may stop.
CHECK_DEADLOCK FALSE
