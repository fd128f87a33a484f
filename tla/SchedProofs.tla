---------------------------- MODULE SchedProofs -----------------------------
(***************************************************************************)
(* Proofs about the scheduler with the dumps of module DiskLog, for any    *)
(* table of processes, any priorities and any number of dumps: the CPU     *)
(* never runs a blocked process, nor one that is frozen, and a dump gives  *)
(* back the priorities it took.                                            *)
(***************************************************************************)
EXTENDS DiskLog, WellFoundedInduction, TLAPS

\* Every nonempty set of numbers has a least one.
LEMMA LeastNumber ==
  ASSUME NEW T \in SUBSET Nat, T # {}
  PROVE  \E n \in T : \A m \in T : n <= m
<1> DEFINE R == {ss \in Nat \X Nat : ss[1] < ss[2]}
<1>1. IsWellFoundedOn(R, Nat)
  BY NatLessThanWellFounded DEF OpToRel
<1> HIDE DEF R
<1>2. PICK n \in T : \A m \in T : ~ (<<m, n>> \in R)
  BY <1>1, WFMin
<1>3. \A m \in T : ~ (m < n)
  BY <1>2 DEF R
<1> QED BY <1>3

\* The table is finite: the ticks of all processes have a bound.
LEMMA TicksBounded ==
  ASSUME NEW t \in [Procs -> Nat]
  PROVE  \E m \in Nat : \A p \in Procs : t[p] <= m
<1> USE SchedAssumption DEF Procs
<1> DEFINE Bound(k, m) == \A p \in 0 .. k : t[p] <= m
           T == {k \in 0 .. Last : ~ \E m \in Nat : Bound(k, m)}
<1>1. SUFFICES ASSUME T # {} PROVE FALSE
  <2>1. Last \in 0 .. Last
    OBVIOUS
  <2> QED BY <1>1, <2>1
<1>2. PICK n \in T : \A k \in T : n <= k
  <2>1. T \in SUBSET Nat
    OBVIOUS
  <2> HIDE DEF T
  <2> QED BY <1>1, <2>1, LeastNumber
<1>3. CASE n = 0
  <2>1. Bound(n, t[0])
    BY <1>3
  <2> QED BY <2>1, <1>2, <1>3
<1>4. CASE n # 0
  <2>1. n - 1 \in 0 .. Last /\ n - 1 \notin T
    <3>1. n \in 0 .. Last
      BY <1>2
    <3> HIDE DEF T
    <3> QED BY <1>2, <1>4, <3>1
  <2>2. PICK m \in Nat : Bound(n - 1, m)
    BY <2>1
  <2>3. n \in 0 .. Last /\ t[n] \in Nat
    BY <1>2
  <2>4. Bound(n, m + t[n])
    <3> TAKE p \in 0 .. n
    <3>1. CASE p = n
      BY <3>1, <2>3
    <3>2. CASE p # n
      BY <3>2, <2>2, <2>3
    <3> QED BY <3>1, <3>2
  <2>5. m + t[n] \in Nat
    BY <2>3
  <2> QED BY <2>4, <2>5, <1>2
<1> QED BY <1>3, <1>4

\* schedule() chooses a process that can run and has ticks.
LEMMA ChosenRuns ==
  ASSUME NEW b \in [Procs -> BOOLEAN], NEW t \in [Procs -> Nat], Ready(b, t) # {}
  PROVE  Chosen(b, t) \in Ready(b, t)
<1> DEFINE R == Ready(b, t)
<1>1. R \subseteq Procs /\ Procs \subseteq Nat /\ R # {}
  BY SchedAssumption DEF Ready, MayRun, Procs
<1>2. PICK m \in Nat : \A p \in Procs : t[p] <= m
  BY TicksBounded
<1> HIDE DEF R
<1> DEFINE D == {m - t[p] : p \in R}
<1>3. PICK d \in D : \A e \in D : d <= e
  <2>1. D \in SUBSET Nat
    <3>1. \A p \in R : t[p] \in Nat /\ t[p] <= m
      BY <1>1, <1>2
    <3>2. \A p \in R : m - t[p] \in Nat
      BY <3>1
    <3> QED BY <3>2
  <2>2. D # {}
    BY <1>1
  <2> HIDE DEF D
  <2> QED BY <2>1, <2>2, LeastNumber
<1> DEFINE S == {p \in R : m - t[p] = d}
<1>4. PICK p \in S : \A q \in S : p <= q
  <2>1. S \in SUBSET Nat
    BY <1>1
  <2>2. S # {}
    BY <1>3
  <2> HIDE DEF S
  <2> QED BY <2>1, <2>2, LeastNumber
<1> DEFINE Best(r) == \A q \in R : t[q] < t[r] \/ (t[q] = t[r] /\ r <= q)
<1>5. Best(p)
  <2> TAKE q \in R
  <2>1. t[p] \in Nat /\ t[q] \in Nat /\ m - t[p] = d
    BY <1>1, <1>4
  <2>2. d <= m - t[q]
    BY <1>3
  <2>3. CASE t[q] = t[p]
    <3>1. q \in S
      BY <2>1, <2>3
    <3> QED BY <3>1, <1>4, <2>3
  <2>4. CASE t[q] # t[p]
    BY <2>1, <2>2, <2>4
  <2> QED BY <2>3, <2>4
<1>6. p \in R
  BY <1>4
<1>7. Chosen(b, t) = CHOOSE r \in R : Best(r)
  BY DEF Chosen, R
<1> HIDE DEF Best
<1>8. Chosen(b, t) \in R
  BY <1>5, <1>6, <1>7
<1> QED BY <1>8 DEF R

-----------------------------------------------------------------------------
\* The inductive invariant: types; what is known of those frozen; and where
\* the priorities are that are not in the table.
TypeInv ==
  /\ blocked \in [Procs -> BOOLEAN]
  /\ ticks \in [Procs -> Nat] /\ priority \in [Procs -> Nat]
  /\ p_proc_ready \in Procs /\ k_reenter \in {"user", "kernel", "idle"}
  /\ free \subseteq InitProc .. Last /\ frozen \subseteq Procs /\ tainted \subseteq Procs

\* What tcks[] and prio[] hold for p, and whether p was tainted then.
IsSaved(p, v) == /\ v[1] \in Nat /\ v[2] \in Nat /\ v[3] \subseteq {p}
                 /\ v[2] = Priority[p] \/ p \in v[3]

DumpInv ==
  /\ DOMAIN dump = {"pc", "i", "asked", "saved", "done"}
  /\ dump.pc \in {"none", "log", "thaw"} /\ dump.i \in Nat
  /\ DOMAIN dump.saved \subseteq Procs
  /\ \A p \in DOMAIN dump.saved : IsSaved(p, dump.saved[p])

FrozenInv ==
  /\ frozen \cap (free \cup Kept \cup {FS}) = {}
  /\ \A p \in frozen : ticks[p] = 0 /\ priority[p] = 0

\* The loop has still to come to those frozen.
SavedInv ==
  /\ \A p \in frozen : p \in DOMAIN dump.saved
  /\ dump.pc = "none" => frozen = {}
  /\ dump.pc = "thaw" => \A p \in frozen : dump.i <= p

PriorityInv ==
  \A p \in Procs : p \in free \cup tainted \cup frozen \/ priority[p] = Priority[p]

LInv == /\ TypeInv /\ DumpInv /\ FrozenInv /\ SavedInv /\ PriorityInv
        /\ RunsOnlyRunnable /\ FrozenWait

\* What schedule() leaves behind: the frozen have no ticks, and none is chosen.
LEMMA ScheduleEffect ==
  ASSUME NEW b \in [Procs -> BOOLEAN], NEW t \in [Procs -> Nat],
         priority \in [Procs -> Nat], frozen \subseteq Procs,
         \A p \in frozen : t[p] = 0 /\ priority[p] = 0,
         p_proc_ready \in Procs, Schedule(b, t)
  PROVE  /\ ticks' \in [Procs -> Nat] /\ \A p \in frozen : ticks'[p] = 0
         /\ p_proc_ready' \in Procs /\ k_reenter' \in {"user", "idle"}
         /\ k_reenter' # "idle" => ~b[p_proc_ready'] /\ p_proc_ready' \notin frozen
<1>1. /\ Renewed(b, t) \in [Procs -> Nat]
      /\ \A p \in frozen : Renewed(b, t)[p] = 0
  BY DEF Renewed
<1>2. ticks' \in [Procs -> Nat] /\ \A p \in frozen : ticks'[p] = 0
  BY <1>1 DEF Schedule
<1>3. CASE Ready(b, ticks') = {}
  BY <1>2, <1>3 DEF Schedule
<1>4. CASE Ready(b, ticks') # {}
  <2>1. Chosen(b, ticks') \in Ready(b, ticks')
    BY <1>2, <1>4, ChosenRuns
  <2>2. /\ Chosen(b, ticks') \in Procs /\ ~b[Chosen(b, ticks')]
        /\ ticks'[Chosen(b, ticks')] > 0
    BY <2>1 DEF Ready, MayRun
  <2>3. Chosen(b, ticks') \notin frozen
    BY <1>2, <2>2
  <2>4. k_reenter' = "user" /\ p_proc_ready' = Chosen(b, ticks')
    BY <1>4 DEF Schedule
  <2> QED BY <1>2, <2>2, <2>3, <2>4
<1> QED BY <1>3, <1>4

\* The tick that a clock interrupt takes leaves frozen processes without any.
LEMMA ChargedEffect ==
  ASSUME LInv
  PROVE  /\ Charged \in [Procs -> Nat]
         /\ \A p \in frozen : Charged[p] = 0
BY DEF LInv, TypeInv, FrozenInv, Charged

\* A step that schedules, wakes or charges somebody, and leaves priorities, the
\* table and the dump alone, keeps the invariant.
LEMMA SchedulerStep ==
  ASSUME LInv, UNCHANGED <<priority, free, frozen, tainted>>, TypeInv', DumpInv',
         dump'.pc = dump.pc, dump'.i = dump.i, dump'.saved = dump.saved,
         \A p \in frozen : ticks'[p] = 0,
         RunsOnlyRunnable', FrozenWait'
  PROVE  LInv'
BY DEF LInv, FrozenInv, SavedInv, PriorityInv

\* What the dump keeps while it is not at work.
LEMMA DumpKept ==
  ASSUME LInv, dump' = dump \/ dump' = [dump EXCEPT !.asked = TRUE]
  PROVE  DumpInv' /\ dump'.pc = dump.pc /\ dump'.i = dump.i /\ dump'.saved = dump.saved
BY DEF LInv, DumpInv

\* A system call begins.
LEMMA CallStep == ASSUME LInv, Call PROVE LInv'
<1> USE DEF Call, EnterKernel, logvars
<1>1. TypeInv'
  BY DEF LInv, TypeInv
<1>2. RunsOnlyRunnable' /\ FrozenWait'
  BY DEF LInv, RunsOnlyRunnable, FrozenWait
<1>3. \A p \in frozen : ticks'[p] = 0
  BY DEF LInv, FrozenInv
<1> QED BY <1>1, <1>2, <1>3, DumpKept, SchedulerStep

\* A system call ends, its caller blocked or not.
LEMMA ReturnStep == ASSUME LInv, Return PROVE LInv'
<1>1. DumpInv' /\ dump'.pc = dump.pc /\ dump'.i = dump.i /\ dump'.saved = dump.saved
  BY DumpKept DEF Return
<1>2. CASE LeaveKernel
  <2> USE <1>2 DEF LeaveKernel, Return
  <2>1. TypeInv'
    BY DEF LInv, TypeInv
  <2>2. RunsOnlyRunnable' /\ FrozenWait'
    BY DEF LInv, RunsOnlyRunnable, FrozenWait
  <2>3. \A p \in frozen : ticks'[p] = 0
    BY DEF LInv, FrozenInv
  <2> QED BY <1>1, <2>1, <2>2, <2>3, SchedulerStep
<1>3. CASE Block
  <2>1. blocked' \in [Procs -> BOOLEAN] /\ Schedule(blocked', ticks)
    BY <1>3 DEF Block, LInv, TypeInv
  <2>2. /\ ticks' \in [Procs -> Nat] /\ \A p \in frozen : ticks'[p] = 0
        /\ p_proc_ready' \in Procs /\ k_reenter' \in {"user", "idle"}
        /\ k_reenter' # "idle" => ~blocked'[p_proc_ready'] /\ p_proc_ready' \notin frozen
    BY <2>1, ScheduleEffect DEF LInv, TypeInv, FrozenInv
  <2>3. UNCHANGED <<priority, free, frozen, tainted>>
    BY <1>3 DEF Block, Return
  <2>4. TypeInv'
    BY <2>1, <2>2, <2>3 DEF LInv, TypeInv
  <2>5. RunsOnlyRunnable' /\ FrozenWait'
    BY <2>2, <2>3 DEF RunsOnlyRunnable, FrozenWait
  <2> QED BY <1>1, <2>2, <2>3, <2>4, <2>5, SchedulerStep
<1> QED BY <1>2, <1>3 DEF Return

\* schedule() called by an interrupt handler or by its own loop.
LEMMA RescheduleStep ==
  ASSUME LInv, UNCHANGED <<blocked, priority, logvars>>, NEW t \in [Procs -> Nat],
         \A p \in frozen : t[p] = 0, Schedule(blocked, t)
  PROVE  LInv'
<1>1. /\ ticks' \in [Procs -> Nat] /\ \A p \in frozen : ticks'[p] = 0
      /\ p_proc_ready' \in Procs /\ k_reenter' \in {"user", "idle"}
      /\ k_reenter' # "idle" => ~blocked[p_proc_ready'] /\ p_proc_ready' \notin frozen
  BY ScheduleEffect DEF LInv, TypeInv, FrozenInv
<1>2. UNCHANGED <<priority, free, frozen, tainted>> /\ dump' = dump /\ blocked' = blocked
  BY DEF logvars
<1>3. TypeInv'
  BY <1>1, <1>2 DEF LInv, TypeInv
<1>4. RunsOnlyRunnable' /\ FrozenWait'
  BY <1>1, <1>2 DEF RunsOnlyRunnable, FrozenWait
<1> QED BY <1>1, <1>2, <1>3, <1>4, DumpKept, SchedulerStep

\* A clock interrupt, outside the kernel or in its idle loop.
LEMMA ClockStep == ASSUME LInv, Clock \/ IdleEnds, UNCHANGED logvars PROVE LInv'
<1>1. CASE IdleEnds
  <2>1. ticks \in [Procs -> Nat] /\ \A p \in frozen : ticks[p] = 0
    BY DEF LInv, TypeInv, FrozenInv
  <2> QED BY <1>1, <2>1, RescheduleStep DEF IdleEnds
<1>2. CASE ClockInUser /\ ~Keeps
  BY <1>2, ChargedEffect, RescheduleStep DEF ClockInUser
<1>3. CASE ClockInKernel \/ (ClockInUser /\ Keeps)
  <2>1. ticks' = Charged /\ UNCHANGED <<blocked, priority, p_proc_ready, k_reenter>>
    BY <1>3 DEF ClockInKernel, ClockInUser
  <2>2. UNCHANGED <<free, frozen, tainted>> /\ dump' = dump
    BY DEF logvars
  <2>3. TypeInv' /\ \A p \in frozen : ticks'[p] = 0
    BY <2>1, <2>2, ChargedEffect DEF LInv, TypeInv
  <2>4. RunsOnlyRunnable' /\ FrozenWait'
    BY <2>1, <2>2 DEF LInv, RunsOnlyRunnable, FrozenWait
  <2> QED BY <2>1, <2>2, <2>3, <2>4, DumpKept, SchedulerStep
<1> QED BY <1>1, <1>2, <1>3 DEF Clock

\* A process is unblocked.
LEMMA WakesStep == ASSUME LInv, NEW p \in Procs, Wakes(p) PROVE LInv'
<1> USE DEF Wakes, Unblock, logvars
<1>1. TypeInv'
  BY DEF LInv, TypeInv
<1>2. RunsOnlyRunnable' /\ FrozenWait'
  BY DEF LInv, TypeInv, RunsOnlyRunnable, FrozenWait
<1>3. \A q \in frozen : ticks'[q] = 0
  BY DEF LInv, FrozenInv
<1> QED BY <1>1, <1>2, <1>3, DumpKept, SchedulerStep

-----------------------------------------------------------------------------
\* The dump saves the priorities and freezes the processes.
LEMMA FreezeStep == ASSUME LInv, Freeze PROVE LInv'
<1> DEFINE gone == FrozenSet
<1>1. gone \subseteq Procs /\ gone \cap (free \cup Kept \cup {FS}) = {}
  BY DEF FrozenSet, Skipped
<1>2. frozen = {}
  BY DEF LInv, SavedInv, Freeze
<1>3. TypeInv'
  BY <1>1 DEF LInv, TypeInv, Freeze
<1>4. dump' = [dump EXCEPT !.pc = "log", !.done = dump.done + 1,
               !.saved = [p \in gone |-> <<ticks[p], priority[p], tainted \cap {p}>>]]
  BY DEF Freeze
<1> HIDE DEF gone
<1>5. /\ DOMAIN dump' = {"pc", "i", "asked", "saved", "done"} /\ dump'.pc = "log"
      /\ dump'.i = dump.i
      /\ dump'.saved = [p \in gone |-> <<ticks[p], priority[p], tainted \cap {p}>>]
  BY <1>4 DEF LInv, DumpInv
<1>6. DumpInv'
  <2>1. \A p \in gone : IsSaved(p, dump'.saved[p])
    <3> TAKE p \in gone
    <3>1. p \in Procs /\ p \notin free
      BY <1>1
    <3>2. ticks[p] \in Nat /\ priority[p] \in Nat
      BY <3>1 DEF LInv, TypeInv
    <3>3. p \in tainted \/ priority[p] = Priority[p]
      BY <1>2, <3>1 DEF LInv, PriorityInv
    <3>4. dump'.saved[p] = <<ticks[p], priority[p], tainted \cap {p}>>
      BY <1>5
    <3> QED BY <3>2, <3>3, <3>4 DEF IsSaved
  <2>2. dump'.i \in Nat
    BY <1>5 DEF LInv, DumpInv
  <2> QED BY <1>1, <1>5, <2>1, <2>2 DEF DumpInv
<1>7. frozen' = gone /\ free' = free /\ tainted' = tainted
  BY DEF Freeze, gone
<1>8. /\ ticks' = [p \in Procs |-> IF p \in gone THEN 0 ELSE ticks[p]]
      /\ priority' = [p \in Procs |-> IF p \in gone THEN 0 ELSE priority[p]]
  BY DEF Freeze, gone
<1>9. FrozenInv' /\ SavedInv'
  <2>1. FrozenInv'
    BY <1>1, <1>7, <1>8 DEF FrozenInv
  <2>2. SavedInv'
    BY <1>5, <1>7 DEF SavedInv
  <2> QED BY <2>1, <2>2
<1>10. PriorityInv'
  BY <1>2, <1>7, <1>8 DEF LInv, PriorityInv
<1>11. RunsOnlyRunnable' /\ FrozenWait'
  BY <1>1, <1>7 DEF LInv, Freeze, FsRuns, RunsOnlyRunnable, FrozenWait
<1> QED BY <1>3, <1>6, <1>9, <1>10, <1>11 DEF LInv

\* The dump has been written, or all are thawed.
LEMMA PhaseStep == ASSUME LInv, Logged \/ Thawed PROVE LInv'
<1>1. UNCHANGED <<schedvars, free, frozen, tainted>>
  BY DEF Logged, Thawed
<1>2. /\ TypeInv' /\ PriorityInv' /\ RunsOnlyRunnable' /\ FrozenWait'
      /\ UNCHANGED <<ticks, priority, free, frozen, tainted>>
  BY <1>1 DEF schedvars, LInv, TypeInv, PriorityInv, RunsOnlyRunnable, FrozenWait
<1>3. CASE Logged
  <2>1. /\ DOMAIN dump' = DOMAIN dump /\ dump'.saved = dump.saved
        /\ dump'.pc = "thaw" /\ dump'.i = 0
    BY <1>3 DEF Logged, LInv, DumpInv
  <2>2. DumpInv'
    BY <2>1 DEF LInv, DumpInv
  <2>3. \A p \in frozen : 0 <= p
    BY SchedAssumption DEF LInv, TypeInv, Procs
  <2>4. FrozenInv' /\ SavedInv'
    BY <1>2, <2>1, <2>3 DEF LInv, FrozenInv, SavedInv
  <2> QED BY <1>2, <2>2, <2>4 DEF LInv
<1>4. CASE Thawed
  <2>1. /\ DOMAIN dump' = DOMAIN dump /\ dump'.saved = dump.saved
        /\ dump'.pc = "none" /\ dump'.i = 0
    BY <1>4 DEF Thawed, LInv, DumpInv
  <2>2. DumpInv'
    BY <2>1 DEF LInv, DumpInv
  <2>3. frozen = {}
    <3> SUFFICES ASSUME NEW p \in frozen PROVE FALSE
      OBVIOUS
    <3>1. p \in 0 .. Last /\ dump.i \in Nat
      BY DEF LInv, TypeInv, DumpInv, Procs
    <3>2. dump.i <= p /\ dump.i > Last
      BY <1>4 DEF LInv, SavedInv, Thawed
    <3> QED BY <3>1, <3>2, SchedAssumption
  <2>4. FrozenInv' /\ SavedInv'
    BY <1>2, <2>3 DEF FrozenInv, SavedInv
  <2> QED BY <1>2, <2>2, <2>4 DEF LInv
<1> QED BY <1>3, <1>4

\* The loop that thaws goes on to the next entry.
LEMMA ThawStep == ASSUME LInv, ThawNext PROVE LInv'
<1> DEFINE p == dump.i
<1>1. /\ p \in Procs /\ dump.pc = "thaw" /\ p_proc_ready = FS /\ k_reenter = "user"
      /\ UNCHANGED <<blocked, p_proc_ready, k_reenter, free>>
  BY SchedAssumption DEF ThawNext, FsRuns, LInv, DumpInv, Procs
<1>2. /\ DOMAIN dump' = DOMAIN dump /\ dump'.pc = "thaw" /\ dump'.i = p + 1
      /\ dump'.saved = [q \in DOMAIN dump.saved \ {p} |-> dump.saved[q]]
  BY <1>1 DEF ThawNext, LInv, DumpInv
<1>3. DumpInv'
  BY <1>2 DEF LInv, DumpInv
<1>4. \A q \in frozen : q # p => q \in DOMAIN dump'.saved /\ p + 1 <= q
  <2> SUFFICES ASSUME NEW q \in frozen, q # p PROVE q \in DOMAIN dump'.saved /\ p + 1 <= q
    OBVIOUS
  <2>1. q \in Nat /\ p \in Nat
    <3>1. q \in Procs
      BY DEF LInv, TypeInv
    <3> QED BY <1>1, <3>1, SchedAssumption DEF Procs
  <2>2. p <= q /\ q \in DOMAIN dump.saved
    BY <1>1 DEF LInv, SavedInv
  <2> QED BY <1>2, <2>1, <2>2
<1>5. CASE UNCHANGED <<ticks, priority, frozen, tainted>> /\ p \notin frozen
  <2>1. FrozenInv' /\ SavedInv'
    BY <1>1, <1>2, <1>4, <1>5 DEF LInv, FrozenInv, SavedInv
  <2>2. TypeInv' /\ PriorityInv' /\ RunsOnlyRunnable' /\ FrozenWait'
    BY <1>1, <1>5 DEF LInv, TypeInv, PriorityInv, RunsOnlyRunnable, FrozenWait
  <2> QED BY <1>3, <2>1, <2>2 DEF LInv
<1>6. ASSUME NEW v, IsSaved(p, v),
             ticks' = [ticks EXCEPT ![p] = v[1]],
             priority' = [priority EXCEPT ![p] = v[2]],
             frozen' = frozen \ {p},
             tainted' = (tainted \ {p}) \cup v[3]
      PROVE  LInv'
  <2> HIDE DEF p
  <2>1. TypeInv'
    BY <1>1, <1>6 DEF LInv, TypeInv, IsSaved
  <2>2. FrozenInv' /\ SavedInv'
    <3>1. FrozenInv'
      BY <1>1, <1>6 DEF LInv, TypeInv, FrozenInv
    <3>2. SavedInv'
      BY <1>2, <1>4, <1>6 DEF SavedInv
    <3> QED BY <3>1, <3>2
  <2>3. PriorityInv'
    BY <1>1, <1>6 DEF LInv, TypeInv, PriorityInv, IsSaved
  <2>4. RunsOnlyRunnable' /\ FrozenWait'
    BY <1>1, <1>6 DEF LInv, RunsOnlyRunnable, FrozenWait
  <2> QED BY <1>3, <2>1, <2>2, <2>3, <2>4 DEF LInv
<1>7. CASE (Skipped(p) /\ ~dump.asked) \/ IsCaller(p)
  <2>1. p \notin frozen
    BY <1>7 DEF Skipped, IsCaller, LInv, FrozenInv
  <2> QED BY <1>5, <1>7, <2>1 DEF ThawNext
<1>8. CASE ~((Skipped(p) /\ ~dump.asked) \/ IsCaller(p))
  <2>1. PICK v \in IF p \in DOMAIN dump.saved THEN {dump.saved[p]}
                   ELSE Garbage \X Garbage \X {{p}} :
               /\ ticks' = [ticks EXCEPT ![p] = v[1]]
               /\ priority' = [priority EXCEPT ![p] = v[2]]
               /\ frozen' = frozen \ {p}
               /\ tainted' = (tainted \ {p}) \cup v[3]
    BY <1>8 DEF ThawNext
  <2>2. IsSaved(p, v)
    <3>1. CASE p \in DOMAIN dump.saved
      BY <2>1, <3>1 DEF LInv, DumpInv
    <3>2. CASE p \notin DOMAIN dump.saved
      BY <2>1, <3>2, DiskLogAssumption DEF IsSaved
    <3> QED BY <3>1, <3>2
  <2> QED BY <1>6, <2>1, <2>2
<1> QED BY <1>7, <1>8

-----------------------------------------------------------------------------
\* MM forks, meanwhile, into a free entry.
LEMMA ForkStep == ASSUME LInv, NEW parent \in InitProc .. Last, Fork(parent) PROVE LInv'
<1> DEFINE child == CHOOSE c \in free : \A d \in free : c <= d
<1>1. child \in free
  <2>1. free \in SUBSET Nat /\ free # {}
    BY DiskLogAssumption DEF LInv, TypeInv, Fork, Procs
  <2>2. \E c \in free : \A d \in free : c <= d
    BY <2>1, LeastNumber
  <2> QED BY <2>2
<1>2. /\ ticks' = [ticks EXCEPT ![child] = ticks[parent]]
      /\ priority' = [priority EXCEPT ![child] = priority[parent]]
      /\ free' = free \ {child}
      /\ tainted' = IF parent \in tainted \cup frozen
                    THEN tainted \cup {child} ELSE tainted \ {child}
      /\ UNCHANGED <<blocked, p_proc_ready, k_reenter, dump, frozen>>
      /\ parent \notin free
  BY DEF Fork
<1> HIDE DEF child
<1>3. child \in Procs /\ parent \in Procs /\ Priority[child] = Priority[parent]
  <2>1. InitProc .. Last \subseteq Procs
    BY DiskLogAssumption, SchedAssumption DEF Procs
  <2>2. child \in InitProc .. Last
    BY <1>1 DEF LInv, TypeInv
  <2> QED BY <2>1, <2>2, DiskLogAssumption
<1>4. child \notin frozen
  BY <1>1 DEF LInv, FrozenInv
<1>5. TypeInv'
  BY <1>2, <1>3 DEF LInv, TypeInv
<1>6. DumpInv'
  BY <1>2 DEF LInv, DumpInv
<1>7. FrozenInv' /\ SavedInv'
  <2>1. FrozenInv'
    BY <1>2, <1>3, <1>4 DEF LInv, TypeInv, FrozenInv
  <2>2. SavedInv'
    BY <1>2 DEF LInv, SavedInv
  <2> QED BY <2>1, <2>2
<1>8. PriorityInv'
  <2>1. ASSUME NEW q \in Procs, q # child
        PROVE  q \in free' \cup tainted' \cup frozen' \/ priority'[q] = Priority[q]
    <3>1. priority'[q] = priority[q]
      BY <1>2, <2>1 DEF LInv, TypeInv
    <3>2. q \in free \cup tainted \cup frozen \/ priority[q] = Priority[q]
      BY DEF LInv, PriorityInv
    <3> QED BY <1>2, <2>1, <3>1, <3>2
  <2>2. child \in tainted' \/ priority'[child] = Priority[child]
    <3>1. priority'[child] = priority[parent]
      BY <1>2, <1>3 DEF LInv, TypeInv
    <3>2. parent \in tainted \cup frozen \/ priority[parent] = Priority[parent]
      BY <1>2, <1>3 DEF LInv, PriorityInv
    <3> QED BY <1>2, <1>3, <3>1, <3>2
  <2> QED BY <2>1, <2>2 DEF PriorityInv
<1>9. RunsOnlyRunnable' /\ FrozenWait'
  BY <1>2 DEF LInv, RunsOnlyRunnable, FrozenWait
<1> QED BY <1>5, <1>6, <1>7, <1>8, <1>9 DEF LInv

\* MM frees an entry, meanwhile.
LEMMA ReleaseStep == ASSUME LInv, NEW p \in InitProc .. Last, Release(p) PROVE LInv'
<1> USE DEF Release, schedvars
<1>1. TypeInv'
  BY DEF LInv, TypeInv
<1>2. DumpInv'
  BY DEF LInv, DumpInv
<1>3. FrozenInv' /\ SavedInv'
  BY DEF LInv, FrozenInv, SavedInv
<1>4. PriorityInv'
  BY DEF LInv, PriorityInv
<1>5. RunsOnlyRunnable' /\ FrozenWait'
  BY DEF LInv, RunsOnlyRunnable, FrozenWait
<1> QED BY <1>1, <1>2, <1>3, <1>4, <1>5 DEF LInv

\* Every step keeps LInv.
LEMMA LogStep == LInv /\ [LogNext]_vars => LInv'
<1> SUFFICES ASSUME LInv, [LogNext]_vars PROVE LInv'
  OBVIOUS
<1>1. CASE Call \/ Return
  BY <1>1, CallStep, ReturnStep
<1>2. CASE FsStep
  BY <1>2, FreezeStep, PhaseStep, ThawStep DEF FsStep
<1>3. CASE (Clock \/ IdleEnds) /\ UNCHANGED logvars
  BY <1>3, ClockStep
<1>4. CASE \E p \in Procs : Wakes(p)
  BY <1>4, WakesStep
<1>5. CASE \E p \in InitProc .. Last : Fork(p) \/ (p # InitProc /\ Release(p))
  BY <1>5, ForkStep, ReleaseStep
<1>6. CASE UNCHANGED vars
  <2>1. /\ UNCHANGED <<blocked, ticks, priority, p_proc_ready, k_reenter>>
        /\ UNCHANGED <<free, dump, frozen, tainted>>
    BY <1>6 DEF vars, schedvars, logvars
  <2> QED BY <2>1 DEF LInv, TypeInv, DumpInv, FrozenInv, SavedInv, PriorityInv,
                      RunsOnlyRunnable, FrozenWait
<1> QED BY <1>1, <1>2, <1>3, <1>4, <1>5, <1>6 DEF LogNext

\* LInv holds in every reachable state.
LEMMA LogInvariance == LogSpec => []LInv
<1>1. LogInit => LInv
  <2> SUFFICES ASSUME LogInit PROVE LInv
    OBVIOUS
  <2> USE SchedAssumption, DiskLogAssumption DEF LogInit, Init
  <2>1. TypeInv
    BY DEF TypeInv, Procs
  <2>2. DumpInv
    BY DEF DumpInv
  <2>3. FrozenInv /\ SavedInv /\ PriorityInv
    BY DEF FrozenInv, SavedInv, PriorityInv
  <2>4. RunsOnlyRunnable /\ FrozenWait
    BY SMTT(30) DEF RunsOnlyRunnable, FrozenWait, Procs
  <2> QED BY <2>1, <2>2, <2>3, <2>4 DEF LInv
<1>2. LInv /\ [LogNext]_vars => LInv'
  BY LogStep
<1> QED BY <1>1, <1>2, PTL DEF LogSpec

\* The CPU is never given to a blocked process: schedule() chooses well
\* whenever anybody can run, dumps change only ticks and priorities, and what
\* happens between two calls of schedule() blocks nobody but the caller.
THEOREM RunnableOnly == LogSpec => []RunsOnlyRunnable
BY LogInvariance, PTL DEF LInv

\* Whoever dump_fd_graph froze waits until it is thawed: schedule() gives it
\* no ticks, and nothing else does.
THEOREM FrozenAreNotRun == LogSpec => []FrozenWait
BY LogInvariance, PTL DEF LInv

\* A dump gives back every priority it took, to whoever is there to have it;
\* the exceptions are the processes forked while the loop that does so waits
\* for its own pid.
THEOREM DumpRestores == LogSpec => []PrioritiesRestored
<1>1. LInv => PrioritiesRestored
  BY DEF LInv, SavedInv, PriorityInv, PrioritiesRestored
<1> QED BY <1>1, LogInvariance, PTL
=============================================================================
