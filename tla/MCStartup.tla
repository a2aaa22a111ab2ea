------------------------------- MODULE MCStartup -------------------------------
(* Small instances of Page, and Startup in it, for TLC.                     *)
EXTENDS Page

CONSTANT a

OneTab == {a}
=============================================================================
