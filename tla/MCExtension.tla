---------------------------- MODULE MCExtension ----------------------------
(* Small instances of the extension for TLC. *)
EXTENDS Extension

CONSTANTS a, b, t1, t2, f1, f2
=============================================================================
