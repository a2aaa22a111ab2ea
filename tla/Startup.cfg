\* One tab that is loaded four times and left, or crashes, anywhere.
SPECIFICATION PageSpec
CONSTANTS
    a = a
    Tab <- OneTab
    MaxLoads = 4
    Replies = {"package", "error page"}
    Texts = {"", "sample", "own"}
    Sample = "sample"
INVARIANTS CrashStopsAutoStart HeldBackAfterCrash DownloadIsCached EditsAreSaved
\* The user may stop.
CHECK_DEADLOCK FALSE
