----------------------------- MODULE MCHipBridge -----------------------------
(* Small instances of HipBridge for TLC.                                    *)
EXTENDS HipBridgeRefinement

CONSTANTS t1, t2

OneThread  == {t1}
TwoThreads == {t1, t2}

Values   == {0, 1}
OneValue == {0}

\* One kernel of each sort, and one the compiled module does not have.
AllKernels  == {"plain", "prints", "asserts", "both", "missing"}
InModule    == {"plain", "prints", "asserts", "both"}
Printing    == {"prints", "both"}
Asserting   == {"asserts", "both"}

\* For two threads: both use the printf staging buffer, one the other as well.
TwoKernels  == {"prints", "both"}
Both        == {"both"}
=============================================================================
