------------------------------- MODULE IpcMC --------------------------------
(* Instances of Ipc for TLC: user processes, the terminal and the disk.    *)
EXTENDS Ipc, TLC
CONSTANTS u1, u2, tty, hd, x1

MCFour == {u1, u2, tty, hd}
MCIrqTasks == {hd}
MCOneData == {x1}
\* The processes no interrupt is for are interchangeable.
Symmetry == Permutations({u1, u2, tty})
=============================================================================
