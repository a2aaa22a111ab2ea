---------------------------- MODULE MCPrintfBuffer ----------------------------
(* Small instances of PrintfBuffer for TLC.                                 *)
EXTENDS PrintfBuffer

CONSTANTS i1, i2

TwoInvocations == {i1, i2}

\* 0 is also the identifier of the first call; 9 is no identifier.
SomeInts == {0, 9}

\* printf("%s %d", "literal", x) and printf("text")
StringFirst     == << <<"str", "int">>, <<>> >>
StringFirstConv == << 2, 0 >>
=============================================================================
