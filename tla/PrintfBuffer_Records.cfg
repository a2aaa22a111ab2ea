\* Two invocations print concurrently; the record that is cut off begins with
\* a string, and the second launch finds the words of the first.
SPECIFICATION FairSpec
CONSTANTS
    i1 = i1
    i2 = i2
    Inv <- TwoInvocations
    Args <- StringFirst
    Conv <- StringFirstConv
    IntVal <- SomeInts
    BuffWords = 6
    MaxCalls = 2
    MaxLaunches = 2
INVARIANTS RecordsDisjoint RecordsIntact PrintedIsWritten WarningIsTrue
PROPERTIES WalkEnds
\* Launches are bounded, and the host may throw.
CHECK_DEADLOCK FALSE
