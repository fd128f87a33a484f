-------------------------------- MODULE Ipc ---------------------------------
(***************************************************************************)
(* The message passing of the kernel (kernel/proc.c): msg_send and         *)
(* msg_receive with their sending queues, the deadlock check of msg_send,  *)
(* inform_int, and the choice of the next process by schedule().           *)
(*                                                                         *)
(* A system call is one step here: no process runs while another is inside *)
(* the kernel, because clock_handler() returns before schedule() when      *)
(* k_reenter # 0.  The interrupts that strike inside a call, which sys_call*)
(* allows by its sti, are the subject of module IpcIrq.                    *)
(*                                                                         *)
(* A process has one MESSAGE buffer, mem[p]; p_msg[p] says whether the     *)
(* entry of p in proc_table points at it.  What the processes compute is   *)
(* left open: a running process may make any call at any time.             *)
(***************************************************************************)
EXTENDS Naturals, Sequences

CONSTANTS Procs,      \* the processes of proc_table that are not free
          IrqTasks,   \* the tasks inform_int is called for: HD and TTY
          Data,       \* the contents of a message
          ANY, INTERRUPT, HARD_INT, NO_TASK

ASSUME IpcAssumption ==
  /\ IrqTasks \subseteq Procs
  /\ {ANY, INTERRUPT, NO_TASK} \intersect Procs = {}
  /\ ANY # INTERRUPT /\ ANY # NO_TASK /\ INTERRUPT # NO_TASK
  /\ HARD_INT \notin Data

VARIABLES p_flags,      \* the reasons why a process does not run
          p_msg,        \* TRUE: p_msg points to the buffer of the caller
          p_recvfrom,   \* whom a RECEIVING process waits for
          p_sendto,     \* whom a SENDING process sends to
          q_sending,    \* the processes that wait to send to a process
          has_int_msg,  \* an interrupt came while the task was busy
          mem,          \* the MESSAGE buffer of each process
          p_proc_ready, \* the process chosen by schedule()
          panicked      \* panic() halted the machine

ipcvars == <<p_flags, p_msg, p_recvfrom, p_sendto, q_sending, has_int_msg,
             mem, p_proc_ready, panicked>>

Sources == Procs \union {ANY, INTERRUPT}
Flags   == {"SENDING", "RECEIVING"}

Message(s, x) == [source |-> s, type |-> x]
IntMessage    == Message(INTERRUPT, HARD_INT)
Messages      == [source : Procs \union {INTERRUPT, NO_TASK},
                  type : Data \union {HARD_INT, NO_TASK}]

Sending(p)   == "SENDING" \in p_flags[p]
Receiving(p) == "RECEIVING" \in p_flags[p]
Runnable(p)  == p_flags[p] = {}

\* p makes a system call: it is the process the CPU runs.
Running(p) == p_proc_ready = p /\ Runnable(p) /\ ~panicked

-----------------------------------------------------------------------------
Init == /\ p_flags = [p \in Procs |-> {}]
        /\ p_msg = [p \in Procs |-> FALSE]
        /\ p_recvfrom = [p \in Procs |-> NO_TASK]
        /\ p_sendto = [p \in Procs |-> NO_TASK]
        /\ q_sending = [p \in Procs |-> <<>>]
        /\ has_int_msg = [p \in Procs |-> FALSE]
        /\ mem = [p \in Procs |-> Message(NO_TASK, NO_TASK)]
        /\ p_proc_ready \in Procs
        /\ panicked = FALSE

\* schedule(): any process with p_flags = 0 may be the next.  It is called
\* by block() and by clock_handler(); until a blocked p_proc_ready is
\* replaced nobody runs, as in the while loop of schedule().
Schedule ==
  /\ ~panicked
  /\ \E p \in Procs : Runnable(p) /\ p_proc_ready' = p
  /\ UNCHANGED <<p_flags, p_msg, p_recvfrom, p_sendto, q_sending,
                 has_int_msg, mem, panicked>>

\* Mutant: only a cycle of two processes is found.
DeadlockMut(src, dest) == Sending(dest) /\ p_sendto[dest] = src

\* The chain of sends that starts at dest leads to src: src is in every set
\* that holds dest and is closed under "is sending to".
Deadlock(src, dest) ==
  \A C \in SUBSET Procs :
     (dest \in C /\ \A p \in C : Sending(p) => p_sendto[p] \in C) => src \in C

\* dest is blocked in a receive that a message of s satisfies.
Awaits(dest, s) == Receiving(dest) /\ p_recvfrom[dest] \in {s, ANY}

\* dest has its message and stops receiving.
StopsReceiving(dest) ==
  /\ p_msg' = [p_msg EXCEPT ![dest] = FALSE]
  /\ p_flags' = [p_flags EXCEPT ![dest] = @ \ {"RECEIVING"}]
  /\ p_recvfrom' = [p_recvfrom EXCEPT ![dest] = NO_TASK]

SendPanics(s, dest) ==
  /\ Running(s)
  /\ Deadlock(s, dest)
  /\ panicked' = TRUE
  /\ UNCHANGED <<p_flags, p_msg, p_recvfrom, p_sendto, q_sending,
                 has_int_msg, mem, p_proc_ready>>

SendDirect(s, dest, x) ==
  /\ Running(s)
  /\ ~ Deadlock(s, dest)
  /\ Awaits(dest, s)
  /\ StopsReceiving(dest)
  /\ mem' = [mem EXCEPT ![s] = Message(s, x), ![dest] = Message(s, x)]
  /\ UNCHANGED <<p_sendto, q_sending, has_int_msg, p_proc_ready, panicked>>

\* Mutant: the sender is put before the head of the queue.
EnqueueMut(q, s) == <<s>> \o q

Enqueue(q, s) == Append(q, s)

SendQueue(s, dest, x) ==
  /\ Running(s)
  /\ ~ Deadlock(s, dest)
  /\ ~ Awaits(dest, s)
  /\ p_flags' = [p_flags EXCEPT ![s] = @ \union {"SENDING"}]
  /\ p_sendto' = [p_sendto EXCEPT ![s] = dest]
  /\ p_msg' = [p_msg EXCEPT ![s] = TRUE]
  /\ q_sending' = [q_sending EXCEPT ![dest] = Enqueue(@, s)]
  /\ mem' = [mem EXCEPT ![s] = Message(s, x)]
  /\ UNCHANGED <<p_recvfrom, has_int_msg, p_proc_ready, panicked>>

-----------------------------------------------------------------------------
\* Mutant: a receive from INTERRUPT does not look at has_int_msg.
SeesInterruptMut(r, src) == has_int_msg[r] /\ src = ANY

\* A pending interrupt is for this receive.
SeesInterrupt(r, src) == has_int_msg[r] /\ src \in {ANY, INTERRUPT}

ReceiveInterrupt(r, src) ==
  /\ Running(r)
  /\ SeesInterrupt(r, src)
  /\ mem' = [mem EXCEPT ![r] = IntMessage]
  /\ has_int_msg' = [has_int_msg EXCEPT ![r] = FALSE]
  /\ UNCHANGED <<p_flags, p_msg, p_recvfrom, p_sendto, q_sending,
                 p_proc_ready, panicked>>

\* The place in the sending queue of r of the process r receives from: the
\* first of the queue for ANY, and the process itself when r names it.
TakenFrom(r, src) ==
  {i \in DOMAIN q_sending[r] :
     IF src = ANY THEN i = 1
     ELSE q_sending[r][i] = src /\ Sending(src) /\ p_sendto[src] = r}

\* Mutant: q_sending moves on although the process is not the first.
UnlinkMut(q, i) == Tail(q)

\* The queue q without its entry number i.
Unlink(q, i) == [j \in 1 .. Len(q) - 1 |-> IF j < i THEN q[j] ELSE q[j + 1]]

\* Mutant: source and destination of phys_copy are swapped.
PhysCopyMut(to, from) == [mem EXCEPT ![from] = mem[to]]

PhysCopy(to, from) == [mem EXCEPT ![to] = mem[from]]

\* The message of the process at place i of the queue of r is copied to r;
\* that process leaves the queue and is unblocked.
TakeFrom(r, i) ==
  LET from == q_sending[r][i]
  IN  /\ q_sending' = [q_sending EXCEPT ![r] = Unlink(@, i)]
      /\ mem' = PhysCopy(r, from)
      /\ p_msg' = [p_msg EXCEPT ![from] = FALSE]
      /\ p_sendto' = [p_sendto EXCEPT ![from] = NO_TASK]
      /\ p_flags' = [p_flags EXCEPT ![from] = @ \ {"SENDING"}]
      /\ UNCHANGED p_recvfrom

\* r is blocked until a message from src arrives.
StartReceiving(r, src) ==
  /\ p_flags' = [p_flags EXCEPT ![r] = @ \union {"RECEIVING"}]
  /\ p_msg' = [p_msg EXCEPT ![r] = TRUE]
  /\ p_recvfrom' = [p_recvfrom EXCEPT ![r] = src]
  /\ mem' = [mem EXCEPT ![r].source = r]
  /\ UNCHANGED <<p_sendto, q_sending>>

ReceiveQueued(r, src) ==
  /\ Running(r)
  /\ ~ SeesInterrupt(r, src)
  /\ \E i \in TakenFrom(r, src) : TakeFrom(r, i)
  /\ UNCHANGED <<has_int_msg, p_proc_ready, panicked>>

ReceiveBlocks(r, src) ==
  /\ Running(r)
  /\ ~ SeesInterrupt(r, src)
  /\ TakenFrom(r, src) = {}
  /\ StartReceiving(r, src)
  /\ UNCHANGED <<has_int_msg, p_proc_ready, panicked>>

\* inform_int(t), called by hd_handler and clock_handler.
InformInt(t) ==
  /\ ~panicked
  /\ IF Awaits(t, INTERRUPT)
     THEN /\ StopsReceiving(t)
          /\ mem' = [mem EXCEPT ![t] = IntMessage]
          /\ has_int_msg' = [has_int_msg EXCEPT ![t] = FALSE]
     ELSE /\ has_int_msg' = [has_int_msg EXCEPT ![t] = TRUE]
          /\ UNCHANGED <<p_flags, p_msg, p_recvfrom, mem>>
  /\ UNCHANGED <<p_sendto, q_sending, p_proc_ready, panicked>>

Send(s, dest) ==
  \/ SendPanics(s, dest)
  \/ \E x \in Data : SendDirect(s, dest, x)
  \/ \E x \in Data : SendQueue(s, dest, x)

Receive(r, src) ==
  \/ ReceiveInterrupt(r, src)
  \/ ReceiveQueued(r, src)
  \/ ReceiveBlocks(r, src)

Next ==
  \/ Schedule
  \/ \E s, dest \in Procs : s # dest /\ Send(s, dest)
  \/ \E r \in Procs, src \in Sources : r # src /\ Receive(r, src)
  \/ \E t \in IrqTasks : InformInt(t)

Spec == Init /\ [][Next]_ipcvars

-----------------------------------------------------------------------------
\* Every variable has its type: a process is at most in one of the two
\* blocked states of message passing, and queues hold processes.
TypeOK ==
  /\ p_flags \in [Procs -> {{}, {"SENDING"}, {"RECEIVING"}}]
  /\ p_msg \in [Procs -> BOOLEAN]
  /\ p_recvfrom \in [Procs -> Sources \union {NO_TASK}]
  /\ p_sendto \in [Procs -> Procs \union {NO_TASK}]
  /\ q_sending \in [Procs -> Seq(Procs)]
  /\ has_int_msg \in [Procs -> BOOLEAN]
  /\ mem \in [Procs -> Messages]
  /\ p_proc_ready \in Procs
  /\ panicked \in BOOLEAN

\* The fields of a blocked process say why it is blocked, and those of a
\* process that is not are clear: the assertions that msg_send and
\* msg_receive repeat on p_flags, p_msg, p_recvfrom and p_sendto.
FieldsMatchFlags ==
  \A p \in Procs :
    /\ p_msg[p] <=> ~Runnable(p)
    /\ p_sendto[p] # NO_TASK <=> Sending(p)
    /\ p_recvfrom[p] # NO_TASK <=> Receiving(p)
    /\ p_sendto[p] # p /\ p_recvfrom[p] # p

\* The sending queue of a process holds exactly the processes blocked on a
\* send to it, each once: the removal of a process from the middle of the
\* queue by a receive that names it loses and repeats nobody.
QueuesHoldSenders ==
  \A d \in Procs :
    /\ \A p \in Procs : Sending(p) /\ p_sendto[p] = d
                          <=> \E i \in DOMAIN q_sending[d] : q_sending[d][i] = p
    /\ \A i, j \in DOMAIN q_sending[d] :
         q_sending[d][i] = q_sending[d][j] => i = j

\* No rendezvous is missed: two processes never wait for each other, one
\* blocked in a send and the other in the receive that would take it, and
\* no task waits for an interrupt that has been recorded for it.
NoMissedRendezvous ==
  /\ \A r, s \in Procs : ~ (Awaits(r, s) /\ Sending(s) /\ p_sendto[s] = r)
  /\ \A t \in IrqTasks : ~ (Awaits(t, INTERRUPT) /\ has_int_msg[t])

\* Processes blocked in sends never wait for each other in a circle: the
\* cycle would close in msg_send, where deadlock() finds it first.
NoSendCycle ==
  \A S \in SUBSET Procs :
    (\A p \in S : Sending(p) /\ p_sendto[p] \in S) => S = {}

\* A step that ends a send puts the message of that sender in the buffer of
\* the process it was sent to: nothing is dropped when a sender is unblocked.
SendIsDelivered ==
  [][\A s, d \in Procs : (Sending(s) /\ p_sendto[s] = d /\ p_flags'[s] = {})
        => mem'[d] = mem[s]]_ipcvars

\* First come, first served: a sender overtakes another one in the queue of
\* a process only if that process asked for it by name, so a queue only
\* grows at its end and the order of those who stay never changes.
QueueOrderKept ==
  [][\A d \in Procs : \A i, j \in DOMAIN q_sending'[d] : i < j =>
        \/ \E k, l \in DOMAIN q_sending[d] :
              k < l /\ q_sending[d][k] = q_sending'[d][i]
                    /\ q_sending[d][l] = q_sending'[d][j]
        \/ j = Len(q_sending'[d]) /\ ~Sending(q_sending'[d][j])]_ipcvars

-----------------------------------------------------------------------------
\* What a caller of sendrec() sees of a process: the flags, fields and
\* queues are an implementation of synchronous message passing.
WaitOf(p) ==
  IF Sending(p) THEN [op |-> "send", who |-> p_sendto[p]]
  ELSE IF Receiving(p) THEN [op |-> "recv", who |-> p_recvfrom[p]]
  ELSE [op |-> "ready", who |-> NO_TASK]

R == INSTANCE Rendezvous WITH
       waits <- [p \in Procs |-> WaitOf(p)],
       notified <- {p \in Procs : has_int_msg[p]}

\* The kernel implements synchronous message passing: each message crosses
\* from a sender to the receiver it names in one step, and a process blocks
\* only while its counterpart is not there.
ImplementsRendezvous == R!RSpec
=============================================================================
