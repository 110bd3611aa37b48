---------------------------- MODULE MCFlashView ----------------------------
(* Six blocks of two pages; dumps of less than a chunk, of a chunk, of one   *)
(* and a bit, up to and past the end of the chip, and past the end of a word. *)
EXTENDS FlashView

MCDumpArgs == {0, 3, 11, 12, 13} \X {0, 1, 4, 5, 6, 9, 12, 19, 31}

=============================================================================
