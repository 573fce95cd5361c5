------------------------------- MODULE MCDisman -------------------------------
(* A small instance of Disman for TLC. *)
EXTENDS Disman

MCThreads == {"t1", "t2"}
MCLevels == {0, 5, 9}
MCFalling == 1

=============================================================================
