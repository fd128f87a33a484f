------------------------------ MODULE IpcIrqMC ------------------------------
(* An instance of IpcIrq for TLC: a user process, the terminal and the disk. *)
EXTENDS IpcIrq
CONSTANTS u1, tty, hd, x1, x2

MCProcs == {u1, tty, hd}
MCIrqTasks == {tty, hd}
MCDiskTasks == {hd}
MCData == {x1, x2}
=============================================================================
