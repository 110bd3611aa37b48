---------------------------- MODULE MCConsoleOut ----------------------------
(* Two connections and a buffer of two bytes, so that a dump fills it.       *)
EXTENDS ConsoleOut

CONSTANTS p1, p2

=============================================================================
