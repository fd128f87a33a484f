------------------------------ MODULE SchedMC -------------------------------
(* TASK_SYS, the file system, the memory manager, INIT and one free entry.   *)
EXTENDS DiskLog

MCPriority == [p \in Procs |-> IF p < FS THEN 2 ELSE 1]
=============================================================================
