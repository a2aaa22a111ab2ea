\* Five messages arrive at any time during the start; any handler may fail.
SPECIFICATION FairSpec
CONSTANTS
    N = 5
INVARIANTS EachOnce BufferedInOrder
PROPERTIES AllHandled
\* The pool may post no more.
CHECK_DEADLOCK FALSE
