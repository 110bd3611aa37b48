---------------------------- MODULE MCMainLoop ----------------------------
(* No link, 100 and 1000 Mbit.  The timer wraps after four milliseconds.    *)
EXTENDS MainLoop

MCStatus == {NoLink, [up |-> TRUE, speed |-> 1], [up |-> TRUE, speed |-> 2]}

=============================================================================
