------------------------------- MODULE TtyMC --------------------------------
(* An instance of Tty for TLC: two processes.  A code without a key, which is *)
(* like a key that finds no room in ibuf, is not sent.                       *)
EXTENDS Tty
CONSTANTS u1, u2

MCTwoUsers == {u1, u2}
MCCounts == {2}
MCPressed == {"char", "newline", "backspace"}
=============================================================================
