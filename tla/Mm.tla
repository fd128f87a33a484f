--------------------------------- MODULE Mm ---------------------------------
(***************************************************************************)
(* The task MM (mm/main.c, mm/forkexit.c) and the processes that call      *)
(* fork(), exit() and wait(): INIT and its descendants.                    *)
(*                                                                         *)
(* The kernel's message passing is the one of module Rendezvous: a call is *)
(* a SEND to MM followed, in a second system call, by a RECEIVE from MM;   *)
(* MM serves one request at a time, in the order of arrival, and its SEND  *)
(* waits for the RECEIVE of the other side.  MM writes proc_table itself,  *)
(* in ring 1 and without the kernel, while the processes it writes about   *)
(* go on.  With SplitUpdates the clock may interrupt MM between the load   *)
(* and the store of p_flags |= X, and inside the copy *p = proc_table[pid].*)
(***************************************************************************)
EXTENDS Integers, Sequences, FiniteSets

CONSTANTS First, Last,   \* the entries of proc_table: First is INIT
          Statuses,      \* the arguments of exit()
          NO_TASK,
          SplitUpdates

ASSUME MmAssumption ==
  /\ First \in Nat /\ Last \in Nat /\ First <= Last
  /\ NO_TASK \notin First .. Last
  /\ -1 \notin Statuses
  /\ SplitUpdates \in BOOLEAN

Pids == First .. Last
INIT == First
Calls == {"FORK", "EXIT", "WAIT"}

VARIABLES p_flags, p_parent, exit_status,   \* proc_table, as MM writes it
          regs,       \* where each process is in its call of MM
          mem,        \* the MESSAGE buffer of each process inside a call
          q_sending,  \* the processes blocked in a SEND to MM
          mm,         \* MM: where it is, and what it holds of the request
          fs_procs,   \* the processes whose descriptors FS counts
          panicked    \* deadlock() found a cycle

mmvars == <<p_flags, p_parent, exit_status, regs, mem, q_sending, mm, fs_procs,
            panicked>>

Message(t, pid, x) == [type |-> t, pid |-> pid, value |-> x]
\* PID and STATUS are not set by a caller that does not use them.
Request(call, x) == Message(call, NO_TASK, x)
Reply(pid, x) == Message("SYSCALL_RET", pid, x)
NoStatus == 0
NoMessage == Request("none", NoStatus)
NotLoaded == {"not loaded"}

Working   == [at |-> "run", call |-> "none"]
InCall(c) == [at |-> "receive", call |-> c]   \* between SEND and RECEIVE
\* Stopped: the spin() after a failed assertion of lib/fork.c.
Stopped   == [at |-> "spin", call |-> "none"]

Live(p)     == "FREE_SLOT" \notin p_flags[p]
Zombie(p)   == "HANGING" \in p_flags[p]
Waiting(p)  == "WAITING" \in p_flags[p]
Receiving(p) == "RECEIVING" \in p_flags[p]
Runnable(p) == p_flags[p] = {} /\ ~panicked

MmIdle == mm.pc = "take"
Idle == [pc |-> "take", call |-> "none", src |-> NO_TASK, who |-> NO_TASK,
         status |-> NoStatus, word |-> NotLoaded]

Init ==
  /\ p_flags = [p \in Pids |-> IF p = INIT THEN {} ELSE {"FREE_SLOT"}]
  /\ p_parent = [p \in Pids |-> NO_TASK]
  /\ exit_status = [p \in Pids |-> NoStatus]
  /\ regs = [p \in Pids |-> Working]
  /\ mem = [p \in Pids |-> NoMessage]
  /\ q_sending = <<>>
  /\ mm = Idle
  /\ fs_procs = {INIT}
  /\ panicked = FALSE

-----------------------------------------------------------------------------
\* The processes: lib/fork.c, lib/exit.c and lib/wait.c.

\* The SEND of send_recv(BOTH, TASK_MM, &msg).
SendCall(p, c, x) ==
  /\ Runnable(p) /\ regs[p] = Working
  /\ p_flags' = [p_flags EXCEPT ![p] = {"SENDING"}]
  /\ regs' = [regs EXCEPT ![p] = InCall(c)]
  /\ mem' = [mem EXCEPT ![p] = Request(c, x)]
  /\ q_sending' = Append(q_sending, p)
  /\ UNCHANGED <<p_parent, exit_status, mm, fs_procs, panicked>>

\* INIT does not exit.
UserCall(p) ==
  \/ SendCall(p, "FORK", NoStatus)
  \/ SendCall(p, "WAIT", NoStatus)
  \/ p # INIT /\ \E x \in Statuses : SendCall(p, "EXIT", x)

\* The RECEIVE of send_recv(BOTH, TASK_MM, &msg).
ReceiveReply(p) ==
  /\ Runnable(p) /\ regs[p].at = "receive"
  /\ p_flags' = [p_flags EXCEPT ![p] = {"RECEIVING"}]
  /\ regs' = [regs EXCEPT ![p].at = "got"]
  /\ UNCHANGED <<p_parent, exit_status, mem, q_sending, mm, fs_procs, panicked>>

\* fork() asserts that RETVAL = 0, exit() and fork() that the type is
\* SYSCALL_RET; wait() asserts nothing.
AssertionFails(p) ==
  \/ regs[p].call \in {"FORK", "EXIT"} /\ mem[p].type # "SYSCALL_RET"
  \/ regs[p].call = "FORK" /\ mem[p].value # 0

Return(p) ==
  /\ Runnable(p) /\ regs[p].at = "got"
  /\ regs' = [regs EXCEPT ![p] = IF AssertionFails(p) THEN Stopped ELSE Working]
  /\ mem' = [mem EXCEPT ![p] = NoMessage]
  /\ UNCHANGED <<p_flags, p_parent, exit_status, q_sending, mm, fs_procs, panicked>>

-----------------------------------------------------------------------------
\* MM is at pc with the processor; nothing runs after panic().
MmAt(pc) == mm.pc = pc /\ ~panicked

\* task_mm receives the next request from ANY.
Take ==
  LET p == Head(q_sending)
  IN  /\ MmAt("take") /\ q_sending # <<>>
      /\ q_sending' = Tail(q_sending)
      /\ p_flags' = [p_flags EXCEPT ![p] = @ \ {"SENDING"}]
      /\ mm' = [Idle EXCEPT !.pc = mem[p].type, !.call = mem[p].type,
                            !.src = p, !.status = mem[p].value]
      /\ UNCHANGED <<p_parent, exit_status, regs, mem, fs_procs, panicked>>

\* MM's SEND of m to p is over: p is in its RECEIVE and gets the message.
Deliver(p, m) ==
  /\ Receiving(p)
  /\ mem' = [mem EXCEPT ![p] = m]

\* MM's SEND to p while p sends to MM: deadlock() panics.
SendTarget ==
  IF mm.pc = "birth" THEN {mm.who}
  ELSE IF mm.pc \in {"reply", "fail"} THEN {mm.src}
  ELSE IF mm.pc = "cleanup" THEN {p_parent[mm.who]}
  ELSE {}

MmDeadlock ==
  /\ ~panicked
  /\ \E p \in SendTarget \intersect Pids : "SENDING" \in p_flags[p]
  /\ panicked' = TRUE
  /\ UNCHANGED <<p_flags, p_parent, exit_status, regs, mem, q_sending, mm, fs_procs>>

FreeSlots == {p \in Pids : p_flags[p] = {"FREE_SLOT"}}
FirstOf(S) == CHOOSE p \in S : \A q \in S : p <= q

\* Mutant: the failure is not told to the caller.
ForkFailsMut ==
  /\ MmAt("FORK") /\ FreeSlots = {}
  /\ mm' = Idle
  /\ UNCHANGED <<p_flags, p_parent, exit_status, regs, mem, q_sending, fs_procs, panicked>>

\* do_fork finds no free slot and returns -1.
ForkFails ==
  /\ MmAt("FORK") /\ FreeSlots = {}
  /\ mm' = [mm EXCEPT !.pc = "fail"]
  /\ UNCHANGED <<p_flags, p_parent, exit_status, regs, mem, q_sending, fs_procs, panicked>>

\* *p = proc_table[pid] begins with the saved registers.
ForkCopyRegs ==
  LET child == FirstOf(FreeSlots)
  IN  /\ MmAt("FORK") /\ FreeSlots # {} /\ SplitUpdates
      /\ regs' = [regs EXCEPT ![child] = regs[mm.src]]
      /\ mm' = [mm EXCEPT !.pc = "fork_copy", !.who = child]
      /\ UNCHANGED <<p_flags, p_parent, exit_status, mem, q_sending, fs_procs, panicked>>

\* Mutant: p_parent of the child is the parent of its parent.
ForkCopyMut(child) ==
  /\ p_flags' = [p_flags EXCEPT ![child] = p_flags[mm.src]]
  /\ exit_status' = [exit_status EXCEPT ![child] = exit_status[mm.src]]
  /\ p_parent' = [p_parent EXCEPT ![child] = p_parent[mm.src]]
  /\ mem' = [mem EXCEPT ![child] = mem[mm.src]]

\* The entry of the child is a copy of that of its parent, p_flags included,
\* except p_parent; phys_copy copies the memory.
ForkCopy(child) ==
  /\ p_flags' = [p_flags EXCEPT ![child] = p_flags[mm.src]]
  /\ exit_status' = [exit_status EXCEPT ![child] = exit_status[mm.src]]
  /\ p_parent' = [p_parent EXCEPT ![child] = mm.src]
  /\ mem' = [mem EXCEPT ![child] = mem[mm.src]]

ForkDuplicate ==
  /\ \/ /\ MmAt("FORK") /\ FreeSlots # {} /\ ~SplitUpdates
        /\ ForkCopy(FirstOf(FreeSlots))
        /\ regs' = [regs EXCEPT ![FirstOf(FreeSlots)] = regs[mm.src]]
        /\ mm' = [mm EXCEPT !.pc = "fork_fs", !.who = FirstOf(FreeSlots)]
     \/ /\ MmAt("fork_copy")
        /\ ForkCopy(mm.who)
        /\ mm' = [mm EXCEPT !.pc = "fork_fs"]
        /\ UNCHANGED regs
  /\ UNCHANGED <<q_sending, fs_procs, panicked>>

\* FS counts the descriptors of the child (fs_fork) and answers.
ForkTellsFs ==
  /\ MmAt("fork_fs")
  /\ fs_procs' = fs_procs \union {mm.who}
  /\ mm' = [mm EXCEPT !.pc = "birth"]
  /\ UNCHANGED <<p_flags, p_parent, exit_status, regs, mem, q_sending, panicked>>

\* The birth of the child: it receives 0 from its fork().
Birth ==
  /\ MmAt("birth")
  /\ Deliver(mm.who, Reply(0, 0))
  /\ p_flags' = [p_flags EXCEPT ![mm.who] = @ \ {"RECEIVING"}]
  /\ mm' = [mm EXCEPT !.pc = "reply"]
  /\ UNCHANGED <<p_parent, exit_status, regs, q_sending, fs_procs, panicked>>

\* The reply of task_mm to a fork, or of do_wait to a process with no child.
ReplyToCaller ==
  /\ \/ MmAt("reply") /\ mm.call = "FORK" /\ Deliver(mm.src, Reply(mm.who, 0))
     \/ MmAt("fail") /\ mm.call = "FORK" /\ Deliver(mm.src, Reply(NO_TASK, -1))
     \/ MmAt("fail") /\ mm.call = "WAIT" /\ Deliver(mm.src, Reply(NO_TASK, NoStatus))
  /\ p_flags' = [p_flags EXCEPT ![mm.src] = @ \ {"RECEIVING"}]
  /\ mm' = Idle
  /\ UNCHANGED <<p_parent, exit_status, regs, q_sending, fs_procs, panicked>>

-----------------------------------------------------------------------------
\* p_flags |= WAITING or HANGING, and p_flags &= ~WAITING: whose entry.
UpdateTarget == CASE mm.pc = "set_waiting" -> mm.src
                  [] mm.pc = "set_hanging" -> mm.src
                  [] mm.pc = "wake_parent" -> p_parent[mm.who]

Updated(f) == CASE mm.pc = "set_waiting" -> f \union {"WAITING"}
                [] mm.pc = "set_hanging" -> f \union {"HANGING"}
                [] mm.pc = "wake_parent" -> f \ {"WAITING"}

AfterUpdate == CASE mm.pc = "set_waiting" -> Idle
                 [] mm.pc = "set_hanging" -> [mm EXCEPT !.pc = "adopt", !.who = First]
                 [] mm.pc = "wake_parent" -> [mm EXCEPT !.pc = "cleanup"]

Updating == mm.pc \in {"set_waiting", "set_hanging", "wake_parent"} /\ ~panicked

LoadFlags ==
  /\ Updating /\ SplitUpdates /\ mm.word = NotLoaded
  /\ mm' = [mm EXCEPT !.word = p_flags[UpdateTarget]]
  /\ UNCHANGED <<p_flags, p_parent, exit_status, regs, mem, q_sending, fs_procs, panicked>>

\* The flags stored are those loaded, whatever p_flags has become since.
StoreFlags ==
  /\ Updating /\ (SplitUpdates => mm.word # NotLoaded)
  /\ p_flags' = [p_flags EXCEPT ![UpdateTarget] =
                   Updated(IF SplitUpdates THEN mm.word ELSE @)]
  /\ mm' = [AfterUpdate EXCEPT !.word = NotLoaded]
  /\ UNCHANGED <<p_parent, exit_status, regs, mem, q_sending, fs_procs, panicked>>

\* cleanup(p): the parent gets pid and status of p, the slot is released.
\* do_exit goes on with the children of the process that exits.
Cleanup ==
  LET p == mm.who
      parent == p_parent[p]
  IN  /\ MmAt("cleanup")
      /\ Deliver(parent, Reply(p, exit_status[p]))
      /\ p_flags' = [p_flags EXCEPT ![parent] = @ \ {"RECEIVING"},
                                    ![p] = {"FREE_SLOT"}]
      /\ mm' = IF mm.call = "WAIT" THEN Idle
               ELSE [mm EXCEPT !.pc = "adopt",
                               !.who = IF p = mm.src THEN First ELSE p + 1]
      /\ UNCHANGED <<p_parent, exit_status, regs, q_sending, fs_procs, panicked>>

\* Mutant: the status is not stored.
ExitRecordMut == UNCHANGED exit_status

ExitRecord == exit_status' = [exit_status EXCEPT ![mm.src] = mm.status]

\* Mutant: FS is not told.
FsExitMut(p) == UNCHANGED fs_procs

FsExit(p) == fs_procs' = fs_procs \ {p}

\* Mutant: the parent is taken for one that does not wait.
ParentWaitsMut(p) == FALSE

ParentWaits(p) == Waiting(p_parent[p])

\* do_exit: FS releases the descriptors (fs_exit), the status is stored,
\* and the parent is woken when it waits.
Exit ==
  /\ MmAt("EXIT")
  /\ FsExit(mm.src)
  /\ ExitRecord
  /\ mm' = [mm EXCEPT !.who = mm.src,
                      !.pc = IF ParentWaits(mm.src) THEN "wake_parent" ELSE "set_hanging"]
  /\ UNCHANGED <<p_flags, p_parent, regs, mem, q_sending, panicked>>

\* Mutant: a child that hangs is handed to INIT, but INIT is not woken.
WakesInitMut(p) == FALSE

\* INIT waits and its new child p hangs.
WakesInit(p) == Waiting(INIT) /\ Zombie(p)

\* Mutant: the children keep their parent.
AdoptMut(p) == UNCHANGED p_parent

Adopt(p) == p_parent' = [p_parent EXCEPT ![p] = INIT]

\* One round of the loop of do_exit that hands the children to INIT.
AdoptRound ==
  /\ MmAt("adopt")
  /\ IF mm.who \in Pids /\ p_parent[mm.who] = mm.src
     THEN /\ Adopt(mm.who)
          /\ mm' = IF WakesInit(mm.who) THEN [mm EXCEPT !.pc = "wake_parent"]
                                        ELSE [mm EXCEPT !.who = @ + 1]
     ELSE /\ mm' = IF mm.who \in Pids THEN [mm EXCEPT !.who = @ + 1] ELSE Idle
          /\ UNCHANGED p_parent
  /\ UNCHANGED <<p_flags, exit_status, regs, mem, q_sending, fs_procs, panicked>>

Children(p) == {c \in Pids : p_parent[c] = p}
Zombies(p) == {c \in Children(p) : Zombie(c)}

\* do_wait: the first child that hangs is cleaned up; a caller with children
\* is WAITING; a caller without is told so.
Wait ==
  /\ MmAt("WAIT")
  /\ \/ /\ Zombies(mm.src) # {}
        /\ mm' = [mm EXCEPT !.pc = "cleanup", !.who = FirstOf(Zombies(mm.src))]
     \/ /\ Zombies(mm.src) = {} /\ Children(mm.src) # {}
        /\ mm' = [mm EXCEPT !.pc = "set_waiting"]
     \/ /\ Children(mm.src) = {}
        /\ mm' = [mm EXCEPT !.pc = "fail"]
  /\ UNCHANGED <<p_flags, p_parent, exit_status, regs, mem, q_sending, fs_procs, panicked>>

MmStep == \/ Take \/ ForkFails \/ ForkCopyRegs \/ ForkDuplicate \/ ForkTellsFs
          \/ Birth \/ ReplyToCaller \/ LoadFlags \/ StoreFlags
          \/ Exit \/ AdoptRound \/ Wait \/ Cleanup \/ MmDeadlock

Next == MmStep \/ \E p \in Pids : UserCall(p) \/ ReceiveReply(p) \/ Return(p)

Spec == Init /\ [][Next]_mmvars

\* schedule() lets every runnable process run: its ticks are renewed when
\* all are used up.  No process is obliged to make a call.
FairSpec == Spec /\ WF_mmvars(MmStep)
                 /\ \A p \in Pids : WF_mmvars(ReceiveReply(p)) /\ WF_mmvars(Return(p))

-----------------------------------------------------------------------------
\* No zombie is missed: between two requests no process is WAITING while a
\* child of it hangs, whether it waited first, the child exited first, or the
\* child came to it from a parent that exited.
NoZombieMissed ==
  MmIdle => \A p \in Pids : Waiting(p) => Zombies(p) = {}

\* Between two requests the parent of every process, alive or hanging, can
\* still call wait(): do_exit leaves no orphan.
ParentsAlive ==
  MmIdle => \A p \in Pids \ {INIT} :
    Live(p) => p_parent[p] \in Pids /\ Live(p_parent[p]) /\ ~Zombie(p_parent[p])

\* Between two requests every process blocked in its RECEIVE from MM waits
\* for a child or hangs: no caller is forgotten, and no child is born into a
\* second RECEIVE.
NoCallerForgotten ==
  MmIdle => \A p \in Pids : Receiving(p) => Waiting(p) \/ Zombie(p)

\* FS counts the descriptors of exactly the processes that can still use
\* them: each birth and each exit is told once.
FsKnowsLiving ==
  MmIdle => fs_procs = {p \in Pids : Live(p) /\ ~Zombie(p)}

\* wait() returns a child of the caller that exited, with the status that
\* child passed to exit(), and from then on its slot is free: no zombie is
\* reaped twice, or by a stranger, or with the status of another process.
ReapsOwnChild ==
  [][\A p \in Pids : Receiving(p) /\ "RECEIVING" \notin p_flags'[p]
                     /\ regs[p].call = "WAIT" /\ mem'[p].pid # NO_TASK
       => LET c == mem'[p].pid
          IN  /\ p_parent[c] = p /\ Live(c) /\ p_flags'[c] = {"FREE_SLOT"}
              /\ regs[c].call = "EXIT" /\ mem[c].value = mem'[p].value]_mmvars

\* The call of fork() returns twice, in the parent with the PID of a process
\* that is its child, and in that child, first, with 0.
ForkReturnsTwice ==
  [][\A p \in Pids : Receiving(p) /\ "RECEIVING" \notin p_flags'[p]
                     /\ regs[p].call = "FORK" /\ mem'[p].value = 0
       => \/ mem'[p].pid = 0 /\ p = mm.who
          \/ /\ mem'[p].pid = mm.who /\ p_parent[mm.who] = p
             /\ Live(mm.who) /\ ~Receiving(mm.who)]_mmvars

\* A process blocked in wait() is woken when one of its children exits.
WaiterIsWoken ==
  \A p, c \in Pids :
    (Waiting(p) /\ Live(c) /\ p_parent[c] = p /\ regs[c].call = "EXIT") ~> ~Waiting(p)
=============================================================================
