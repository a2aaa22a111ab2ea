------------------------------- MODULE MCSession -------------------------------
(* Small instances of Session for TLC.                                      *)
EXTENDS Session

CONSTANTS c1, c2, empty

Texts == {c1, c2, empty}
=============================================================================
