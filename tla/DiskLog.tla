------------------------------ MODULE DiskLog -------------------------------
(***************************************************************************)
(* The scheduler while the file system writes its tables to the disk log:  *)
(* dump_fd_graph() of fs/disklog.c, called after every unlink(), takes the *)
(* ticks and the priority of every process but TTY, SYS, HD and the file   *)
(* system itself, draws the tables with interrupts off, writes the drawing *)
(* to the disk, and gives ticks and priorities back.  With priority 0 a    *)
(* process gets no ticks, so schedule() passes it over.                    *)
(*                                                                         *)
(* The loop that gives them back asks TASK_SYS for the caller's pid once   *)
(* per process: the file system blocks there with interrupts off, and who  *)
(* has been thawed already runs, the memory manager among them.            *)
(***************************************************************************)
EXTENDS Sched

CONSTANTS FS, MM,      \* TASK_FS and TASK_MM
          Kept,        \* TASK_TTY, TASK_SYS and TASK_HD: never frozen
          InitProc,    \* INIT, the first of the processes that can fork
          Garbage,     \* what tcks[] and prio[] hold where nothing was saved
          MaxDumps     \* bound: how often the graph is dumped

ASSUME DiskLogAssumption ==
  /\ {FS, MM, InitProc} \subseteq Procs /\ FS < InitProc /\ MM < InitProc
  /\ Kept \subseteq Procs \ {FS} /\ Slots \subseteq InitProc + 1 .. Last
  /\ \A p \in InitProc .. Last : Priority[p] = Priority[InitProc]
  /\ Garbage \subseteq Nat /\ MaxDumps \in Nat

VARIABLES free,      \* p_flags = FREE_SLOT
          dump,      \* where dump_fd_graph is: its phase pc, the entry i it thaws
                     \* next, whether it has asked for its pid for i, tcks[] and
                     \* prio[] as far as they are still needed, and dumps so far
          frozen,    \* history: who was frozen and has not been thawed
          tainted    \* history: whose priority was not the one it should be

logvars == <<free, dump, frozen, tainted>>
vars == <<schedvars, logvars>>

LogInit ==
  /\ Init
  /\ free = Slots /\ frozen = {} /\ tainted = {}
  /\ dump = [pc |-> "none", i |-> 0, asked |-> FALSE, saved |-> <<>>, done |-> 0]

FsRuns == k_reenter = "user" /\ p_proc_ready = FS
MmRuns == k_reenter = "user" /\ p_proc_ready = MM

\* disable_int() holds while the file system runs outside the kernel.
IntDisabled == FsRuns /\ dump.pc = "thaw"

\* The loop passes an entry over: it is free, or one of the tasks left alone.
Skipped(p) == p \in free \cup Kept

\* The file system must still ask for its pid for this entry: getpid() sends to
\* TASK_SYS and receives from it, one system call here.
AsksPid == dump.pc = "thaw" /\ dump.i <= Last /\ ~Skipped(dump.i) /\ ~dump.asked

-----------------------------------------------------------------------------
\* Those whose ticks and priority are taken away.
FrozenSet == {p \in Procs : ~Skipped(p) /\ p # FS}

\* dump_fd_graph begins: interrupts are off until the tables are drawn, and it
\* calls nothing that blocks, so this is one step.
Freeze ==
  /\ FsRuns /\ dump.pc = "none" /\ dump.done < MaxDumps
  /\ LET gone == FrozenSet
     IN /\ dump' = [dump EXCEPT !.pc = "log", !.done = @ + 1,
                    !.saved = [p \in gone |-> <<ticks[p], priority[p], tainted \cap {p}>>]]
        /\ ticks' = [p \in Procs |-> IF p \in gone THEN 0 ELSE ticks[p]]
        /\ priority' = [p \in Procs |-> IF p \in gone THEN 0 ELSE priority[p]]
        /\ frozen' = gone
  /\ UNCHANGED <<blocked, p_proc_ready, k_reenter, free, tainted>>

\* The last disklog() has returned; disable_int().
Logged ==
  /\ FsRuns /\ dump.pc = "log"
  /\ dump' = [dump EXCEPT !.pc = "thaw", !.i = 0, !.asked = FALSE]
  /\ UNCHANGED <<schedvars, free, frozen, tainted>>

\* Mutant: the first entry after the tasks is taken for the caller's.
IsCallerMut(p) == p = FS + 1

\* i == getpid()
IsCaller(p) == p = FS

\* The loop goes on to the next entry.  Unless this one is passed over, it is
\* given what was saved, or garbage if it was free when the others were frozen;
\* the entry may have become free while the pid was asked for.
ThawNext ==
  /\ FsRuns /\ dump.pc = "thaw" /\ dump.i <= Last /\ ~AsksPid
  /\ LET p == dump.i
     IN IF (Skipped(p) /\ ~dump.asked) \/ IsCaller(p)
        THEN UNCHANGED <<ticks, priority, frozen, tainted>>
        ELSE \E v \in IF p \in DOMAIN dump.saved THEN {dump.saved[p]}
                      ELSE Garbage \X Garbage \X {{p}} :
               /\ ticks' = [ticks EXCEPT ![p] = v[1]]
               /\ priority' = [priority EXCEPT ![p] = v[2]]
               /\ frozen' = frozen \ {p}
               /\ tainted' = (tainted \ {p}) \cup v[3]
  /\ dump' = [dump EXCEPT !.i = @ + 1, !.asked = FALSE,
              !.saved = [p \in DOMAIN @ \ {dump.i} |-> @[p]]]
  /\ UNCHANGED <<blocked, p_proc_ready, k_reenter, free>>

\* The loop is over; enable_int().
Thawed ==
  /\ FsRuns /\ dump.pc = "thaw" /\ dump.i > Last
  /\ dump' = [dump EXCEPT !.pc = "none", !.i = 0]
  /\ UNCHANGED <<schedvars, free, frozen, tainted>>

-----------------------------------------------------------------------------
\* do_fork: *p = proc_table[pid] gives the child the ticks and the priority its
\* parent has at that moment; it stays blocked until it is replied to.
Fork(parent) ==
  /\ MmRuns /\ free # {} /\ blocked[parent] /\ parent \notin free
  /\ LET child == CHOOSE c \in free : \A d \in free : c <= d
     IN /\ ticks' = [ticks EXCEPT ![child] = ticks[parent]]
        /\ priority' = [priority EXCEPT ![child] = priority[parent]]
        /\ free' = free \ {child}
        /\ tainted' = IF parent \in tainted \cup frozen
                      THEN tainted \cup {child} ELSE tainted \ {child}
  /\ UNCHANGED <<blocked, p_proc_ready, k_reenter, dump, frozen>>

\* cleanup(): the entry of a process that has exited is free again.
Release(p) ==
  /\ MmRuns /\ blocked[p] /\ p \notin free
  /\ free' = free \cup {p} /\ frozen' = frozen \ {p} /\ tainted' = tainted \ {p}
  /\ UNCHANGED <<schedvars, dump>>

-----------------------------------------------------------------------------
\* A system call; the file system makes none of its own while it gives the
\* ticks back.
Call ==
  /\ EnterKernel /\ (p_proc_ready = FS => dump.pc # "thaw" \/ AsksPid)
  /\ UNCHANGED logvars

\* It returns at once, or the caller blocks.
Return ==
  /\ LeaveKernel \/ Block
  /\ dump' = IF p_proc_ready = FS /\ dump.pc = "thaw"
             THEN [dump EXCEPT !.asked = TRUE] ELSE dump
  /\ UNCHANGED <<free, frozen, tainted>>

Wakes(p) == p \notin free /\ Unblock(p) /\ UNCHANGED logvars

Clock == ClockInKernel \/ (~IntDisabled /\ ClockInUser)

FsStep == Freeze \/ Logged \/ ThawNext \/ Thawed

LogNext ==
  \/ Call \/ Return \/ FsStep
  \/ (Clock \/ IdleEnds) /\ UNCHANGED logvars
  \/ \E p \in Procs : Wakes(p)
  \/ \E p \in InitProc .. Last : Fork(p) \/ (p # InitProc /\ Release(p))

\* The scheduler's fairness; and the file system goes on with a dump it has
\* begun: it runs often enough, makes its calls, and is answered.
LogFairness ==
  /\ WF_vars(Return) /\ WF_vars(IdleEnds /\ UNCHANGED logvars)
  /\ SF_vars(~IntDisabled /\ ClockInUser /\ UNCHANGED logvars)
  /\ SF_vars(Logged \/ ThawNext \/ Thawed)
  /\ WF_vars(AsksPid /\ FsRuns /\ Call)
  /\ WF_vars(dump.pc # "none" /\ Wakes(FS))

LogSpec == LogInit /\ [][LogNext]_vars /\ LogFairness

-----------------------------------------------------------------------------
\* The file system's tables stay as they are while it writes them out: nobody
\* it froze runs before it has given its ticks back.
FrozenWait == k_reenter # "idle" => p_proc_ready \notin frozen

\* After a dump everybody is scheduled as before it, whoever was created or
\* exited meanwhile; except who was forked while its parent was frozen, or in
\* an entry that was free when the dump began.
PrioritiesRestored ==
  dump.pc = "none" =>
    \A p \in Procs \ (free \cup tainted) : priority[p] = Priority[p]

\* Whoever is runnable runs sooner or later, dumps notwithstanding: the file
\* system finishes each although all but three tasks are frozen, and gives the
\* others back what they need to be chosen again.
RunnableRuns ==
  \A p \in Procs :
    ~blocked[p] ~> ((p_proc_ready = p /\ k_reenter # "idle") \/ p \in tainted)
=============================================================================
