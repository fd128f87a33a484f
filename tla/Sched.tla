------------------------------- MODULE Sched --------------------------------
(***************************************************************************)
(* The choice of the next process: schedule() in kernel/proc.c, which picks*)
(* the runnable process with the most ticks left, and clock_handler() in   *)
(* kernel/clock.c, which takes a tick from the running process and calls   *)
(* schedule() when none is left, unless it struck inside the kernel.       *)
(*                                                                         *)
(* The other modules let any runnable process run next, and assume that    *)
(* each of them runs sooner or later.  Module DiskLog puts these actions   *)
(* together with the one part of the system that interferes with them, and *)
(* shows that it does.                                                     *)
(***************************************************************************)
EXTENDS Naturals

CONSTANTS Last,       \* proc_table[] is 0 .. Last
          Priority,   \* 15 for a task, 5 for a process
          Slots       \* the entries that are free at the start

Procs == 0 .. Last
ASSUME SchedAssumption == /\ Last \in Nat
                          /\ Priority \in [Procs -> Nat \ {0}]
                          /\ Slots \subseteq Procs \ {0}

VARIABLES blocked,       \* p_flags # 0
          ticks,         \* what is left to each process
          priority,      \* what it gets when ticks are given out
          p_proc_ready,
          k_reenter      \* where the CPU is: "user", "kernel", or "idle" when
                         \* schedule() loops because nobody is runnable

schedvars == <<blocked, ticks, priority, p_proc_ready, k_reenter>>

Init == /\ blocked = [p \in Procs |-> p \in Slots]
        /\ ticks = Priority /\ priority = Priority
        /\ p_proc_ready = 0
        /\ k_reenter = "user"

MayRun(b) == {p \in Procs : ~b[p]}

\* Those with ticks left.
Ready(b, t) == {p \in MayRun(b) : t[p] > 0}

\* The process with the most ticks in t, the first of the table among equals.
Chosen(b, t) ==
  CHOOSE p \in Ready(b, t) :
    \A q \in Ready(b, t) : t[q] < t[p] \/ (t[q] = t[p] /\ p <= q)

\* New ticks for those who can run.
Renewed(b, t) == [p \in Procs |-> IF b[p] THEN t[p] ELSE priority[p]]

\* schedule() when b are blocked and t is left: new ticks are given out when
\* all who can run have used up theirs, and it loops while nobody has any.
Schedule(b, t) ==
  /\ ticks' = IF Ready(b, t) = {} THEN Renewed(b, t) ELSE t
  /\ IF Ready(b, ticks') = {}
     THEN k_reenter' = "idle" /\ UNCHANGED p_proc_ready
     ELSE k_reenter' = "user" /\ p_proc_ready' = Chosen(b, ticks')

-----------------------------------------------------------------------------
\* A process makes a system call, and comes back from it unblocked.
EnterKernel ==
  /\ k_reenter = "user" /\ k_reenter' = "kernel"
  /\ UNCHANGED <<blocked, ticks, priority, p_proc_ready>>

LeaveKernel ==
  /\ k_reenter = "kernel" /\ k_reenter' = "user"
  /\ UNCHANGED <<blocked, ticks, priority, p_proc_ready>>

\* block() of the caller.
Block ==
  /\ k_reenter = "kernel"
  /\ blocked' = [blocked EXCEPT ![p_proc_ready] = TRUE]
  /\ Schedule(blocked', ticks)
  /\ UNCHANGED priority

\* unblock() by a message or by an interrupt: schedule() is not called.
Unblock(p) ==
  /\ blocked[p]
  /\ blocked' = [blocked EXCEPT ![p] = FALSE]
  /\ UNCHANGED <<ticks, priority, p_proc_ready, k_reenter>>

\* The loop of schedule() finds a process.
IdleEnds ==
  /\ k_reenter = "idle"
  /\ Ready(blocked, ticks) # {} \/ Ready(blocked, Renewed(blocked, ticks)) # {}
  /\ Schedule(blocked, ticks)
  /\ UNCHANGED <<blocked, priority>>

\* Mutant: no tick is taken from a process.
ChargedMut == ticks

\* The tick of clock_handler.
Charged == [ticks EXCEPT ![p_proc_ready] = IF @ > 0 THEN @ - 1 ELSE 0]

\* p_proc_ready has ticks left after this one.
Keeps == Charged[p_proc_ready] > 0

ClockInUser ==
  /\ k_reenter = "user"
  /\ \/ Keeps /\ ticks' = Charged /\ UNCHANGED <<p_proc_ready, k_reenter>>
     \/ ~Keeps /\ Schedule(blocked, Charged)
  /\ UNCHANGED <<blocked, priority>>

\* k_reenter # 0: the tick is counted and that is all.
ClockInKernel ==
  /\ k_reenter # "user"
  /\ ticks' = Charged
  /\ UNCHANGED <<blocked, priority, p_proc_ready, k_reenter>>

-----------------------------------------------------------------------------
\* The CPU never runs a blocked process, however interrupts and messages
\* block and unblock them.
RunsOnlyRunnable == k_reenter # "idle" => ~blocked[p_proc_ready]
=============================================================================
