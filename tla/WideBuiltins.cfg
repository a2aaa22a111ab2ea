\* Words of four bits, with all the operands of up to three arguments.
SPECIFICATION Spec
CONSTANTS
    W = 4
    Half = 8
    Third = {0, 1, 2, 3, 4, 5, 6, 7, 8, 9, 10, 11, 12, 13, 14, 15}
INVARIANTS
    ShortFormsExact
    SumsSaturate
    MultipliesExact
    BitsExact
CHECK_DEADLOCK FALSE
