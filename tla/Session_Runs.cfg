\* Runs that may fail or be cancelled anywhere.
SPECIFICATION FairSpec
CONSTANTS
    c1 = c1
    c2 = c2
    empty = empty
    MaxRuns = 3
    Contents <- Texts
    Empty <- empty
    Fails <- Awaits
    None = None
INVARIANTS OneRun RunsItsText UrlLives OwnDevice
PROPERTIES CancelledEnds
\* The user may stop.
CHECK_DEADLOCK FALSE
