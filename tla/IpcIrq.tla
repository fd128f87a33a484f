------------------------------- MODULE IpcIrq -------------------------------
(***************************************************************************)
(* The message passing of kernel/proc.c step by step, with the interrupts  *)
(* that strike inside it.  sys_call executes sti before it calls           *)
(* sys_sendrec, so hd_handler and clock_handler may call inform_int() for  *)
(* HD or TTY between any two instructions of msg_send, msg_receive and     *)
(* schedule().  No process switch happens there: clock_handler returns     *)
(* when k_reenter # 0.  A step below ends where such an interrupt makes a  *)
(* difference; the entries of other processes cannot change in a call.     *)
(*                                                                         *)
(* block() does not stop the caller at once: schedule() only chooses       *)
(* another p_proc_ready, and the assertions that follow block() run before *)
(* the kernel leaves for that process.                                     *)
(***************************************************************************)
EXTENDS Ipc

CONSTANT DiskTasks   \* the tasks whose interrupt answers their own command

ASSUME IpcIrqAssumption == DiskTasks \subseteq IrqTasks

VARIABLES kpc,      \* where the kernel is in the current system call
          call,     \* the call: its caller, and the other process
          dest_ok,  \* the pointer p_dest->p_msg that msg_send loaded is not 0
          irq_due,  \* the tasks whose interrupt is pending or repeating
          failed    \* the assertion that stopped the kernel

irqvars == <<kpc, call, dest_ok, irq_due, failed>>
allvars == <<ipcvars, irqvars>>

Stages == {"user", "send_assert", "send_load", "send_copy", "send_clear",
           "send_flags", "recv_int", "recv_int_assert", "recv_scan",
           "schedule", "assert"}
Asserts == {"none", "send_p_msg", "recv_flags", "recv_has_int", "int_has_int"}

NoCall == [who |-> NO_TASK, other |-> NO_TASK, data |-> NO_TASK]
Call(p, q, x) == [who |-> p, other |-> q, data |-> x]
Alive == ~panicked /\ failed = "none"
At(stage) == kpc = stage /\ Alive

IrqInit == /\ Init
           /\ kpc = "user" /\ call = NoCall /\ dest_ok = FALSE
           /\ irq_due = {} /\ failed = "none"

-----------------------------------------------------------------------------
\* The clock interrupts a process: schedule() when its ticks are used up.
ClockTick ==
  /\ At("user")
  /\ Schedule
  /\ UNCHANGED irqvars

\* A process calls SEND: the deadlock check, and the test of p_dest.
SendCall(s, dest, x) ==
  /\ At("user")
  /\ \/ SendPanics(s, dest) /\ UNCHANGED irqvars
     \/ /\ SendQueue(s, dest, x)
        /\ kpc' = "schedule" /\ call' = Call(s, dest, x)
        /\ UNCHANGED <<dest_ok, irq_due, failed>>
     \/ /\ Running(s) /\ ~Deadlock(s, dest) /\ Awaits(dest, s)
        /\ kpc' = "send_assert" /\ call' = Call(s, dest, x)
        /\ UNCHANGED <<ipcvars, dest_ok, irq_due, failed>>

\* assert(p_dest->p_msg)
SendAssert ==
  /\ At("send_assert")
  /\ IF p_msg[call.other]
     THEN kpc' = "send_load" /\ UNCHANGED failed
     ELSE failed' = "send_p_msg" /\ UNCHANGED kpc
  /\ UNCHANGED <<ipcvars, call, dest_ok, irq_due>>

\* va2la(dest, p_dest->p_msg): the pointer is read once more.
SendLoad ==
  /\ At("send_load")
  /\ dest_ok' = p_msg[call.other]
  /\ kpc' = "send_copy"
  /\ UNCHANGED <<ipcvars, call, irq_due, failed>>

\* phys_copy to the buffer of dest, or to address 0 if the pointer was 0.
SendCopy ==
  LET m == Message(call.who, call.data)
  IN  /\ At("send_copy")
      /\ mem' = [p \in Procs |-> IF p = call.who \/ (p = call.other /\ dest_ok)
                                 THEN m ELSE mem[p]]
      /\ kpc' = "send_clear"
      /\ UNCHANGED <<p_flags, p_msg, p_recvfrom, p_sendto, q_sending, has_int_msg,
                     p_proc_ready, panicked, call, dest_ok, irq_due, failed>>

SendClear ==
  /\ At("send_clear")
  /\ p_msg' = [p_msg EXCEPT ![call.other] = FALSE]
  /\ kpc' = "send_flags"
  /\ UNCHANGED <<p_flags, p_recvfrom, p_sendto, q_sending, has_int_msg, mem,
                 p_proc_ready, panicked, call, dest_ok, irq_due, failed>>

\* Mutant: dest is not unblocked.
SendFlagsMut ==
  /\ At("send_flags")
  /\ kpc' = "user" /\ call' = NoCall /\ dest_ok' = FALSE
  /\ UNCHANGED <<ipcvars, irq_due, failed>>

SendFlags ==
  /\ At("send_flags")
  /\ StopsReceiving(call.other)
  /\ kpc' = "user" /\ call' = NoCall /\ dest_ok' = FALSE
  /\ UNCHANGED <<p_sendto, q_sending, has_int_msg, mem, p_proc_ready, panicked,
                 irq_due, failed>>

-----------------------------------------------------------------------------
\* A command of the disk task t whose interrupt t has not received yet.
Unanswered(t) == t \in irq_due \/ has_int_msg[t]

\* HD waits for an interrupt when and only when it gave a command, and does
\* not return to its receive from ANY before; nobody else names INTERRUPT.
Protocol(r, src) ==
  /\ src = INTERRUPT => r \in DiskTasks /\ Unanswered(r)
  /\ src = ANY /\ r \in DiskTasks => ~Unanswered(r)

\* A process calls RECEIVE: the test of has_int_msg.
ReceiveCall(r, src) ==
  /\ At("user")
  /\ Running(r)
  /\ Protocol(r, src)
  /\ kpc' = IF SeesInterrupt(r, src) THEN "recv_int" ELSE "recv_scan"
  /\ call' = Call(r, src, NO_TASK)
  /\ UNCHANGED <<ipcvars, dest_ok, irq_due, failed>>

\* The HARD_INT message is copied and has_int_msg reset.
ReceiveInt ==
  /\ At("recv_int")
  /\ mem' = [mem EXCEPT ![call.who] = IntMessage]
  /\ has_int_msg' = [has_int_msg EXCEPT ![call.who] = FALSE]
  /\ kpc' = "recv_int_assert"
  /\ UNCHANGED <<p_flags, p_msg, p_recvfrom, p_sendto, q_sending,
                 p_proc_ready, panicked, call, dest_ok, irq_due, failed>>

\* assert(p_who_wanna_recv->has_int_msg == 0) before the return.
ReceiveIntAssert ==
  /\ At("recv_int_assert")
  /\ IF has_int_msg[call.who]
     THEN failed' = "int_has_int" /\ UNCHANGED <<kpc, call>>
     ELSE kpc' = "user" /\ call' = NoCall /\ UNCHANGED failed
  /\ UNCHANGED <<ipcvars, dest_ok, irq_due>>

\* The queue is searched; the receiver takes a message or sets its flag.
\* has_int_msg is not looked at again.
ReceiveScan ==
  LET r == call.who
      src == call.other
  IN  /\ At("recv_scan")
      /\ \/ /\ \E i \in TakenFrom(r, src) : TakeFrom(r, i)
            /\ kpc' = "user" /\ call' = NoCall
         \/ /\ TakenFrom(r, src) = {}
            /\ StartReceiving(r, src)
            /\ kpc' = "schedule" /\ UNCHANGED call
      /\ UNCHANGED <<has_int_msg, p_proc_ready, panicked, dest_ok, irq_due, failed>>

\* block(): schedule() chooses the next process, looping while there is none.
BlockSchedule ==
  /\ At("schedule")
  /\ Schedule
  /\ kpc' = "assert"
  /\ UNCHANGED <<call, dest_ok, irq_due, failed>>

\* Mutant: the last assertion, has_int_msg == 0, is missing.
BlockFailureMut(p) ==
  IF p_sendto[p] = NO_TASK /\ ~Receiving(p) THEN "recv_flags" ELSE "none"

\* The assertion of msg_send or msg_receive after block() that p fails.
BlockFailure(p) ==
  IF p_sendto[p] # NO_TASK THEN "none"
  ELSE IF ~Receiving(p) THEN "recv_flags"
  ELSE IF has_int_msg[p] THEN "recv_has_int"
  ELSE "none"

BlockAssert ==
  /\ At("assert")
  /\ failed' = BlockFailure(call.who)
  /\ IF failed' = "none" THEN kpc' = "user" /\ call' = NoCall
                         ELSE UNCHANGED <<kpc, call>>
  /\ UNCHANGED <<ipcvars, dest_ok, irq_due>>

-----------------------------------------------------------------------------
\* HD gives the disk a command; the disk will answer with an interrupt.
DiskCommand(t) ==
  /\ At("user") /\ Running(t) /\ t \in DiskTasks /\ ~Unanswered(t)
  /\ irq_due' = irq_due \union {t}
  /\ UNCHANGED <<ipcvars, kpc, call, dest_ok, failed>>

\* keyboard_handler sets key_pressed; from then on each clock interrupt
\* informs TTY, until TTY resets key_pressed.
KeyPress(t) ==
  /\ Alive /\ t \notin DiskTasks
  /\ irq_due' = irq_due \union {t}
  /\ UNCHANGED <<ipcvars, kpc, call, dest_ok, failed>>

KeyTaken(t) ==
  /\ At("user") /\ Running(t) /\ t \notin DiskTasks
  /\ irq_due' = irq_due \ {t}
  /\ UNCHANGED <<ipcvars, kpc, call, dest_ok, failed>>

\* Mutant: an interrupt for a busy task is not recorded.
RememberMut(t) == UNCHANGED has_int_msg

Remember(t) == has_int_msg' = [has_int_msg EXCEPT ![t] = TRUE]

\* inform_int(t) at any point of a call.  Its store through p_msg goes to
\* address 0 when msg_send has just cleared the pointer.
Interrupt(t) ==
  /\ Alive /\ t \in irq_due
  /\ irq_due' = IF t \in DiskTasks THEN irq_due \ {t} ELSE irq_due
  /\ IF Awaits(t, INTERRUPT)
     THEN /\ StopsReceiving(t)
          /\ mem' = IF p_msg[t] THEN [mem EXCEPT ![t] = IntMessage] ELSE mem
          /\ has_int_msg' = [has_int_msg EXCEPT ![t] = FALSE]
     ELSE /\ Remember(t)
          /\ UNCHANGED <<p_flags, p_msg, p_recvfrom, mem>>
  /\ UNCHANGED <<p_sendto, q_sending, p_proc_ready, panicked, kpc, call,
                 dest_ok, failed>>

Kernel == \/ SendAssert \/ SendLoad \/ SendCopy \/ SendClear \/ SendFlags
          \/ ReceiveInt \/ ReceiveIntAssert \/ ReceiveScan
          \/ BlockSchedule \/ BlockAssert

IrqNext ==
  \/ ClockTick
  \/ \E s, dest \in Procs, x \in Data : s # dest /\ SendCall(s, dest, x)
  \/ \E r \in Procs, src \in Sources : r # src /\ ReceiveCall(r, src)
  \/ Kernel
  \/ \E t \in IrqTasks : DiskCommand(t) \/ KeyPress(t) \/ KeyTaken(t) \/ Interrupt(t)

IrqSpec == IrqInit /\ [][IrqNext]_allvars

-----------------------------------------------------------------------------
\* Interrupts inside system calls never damage the sending queues nor the
\* graph of blocked senders: inform_int touches receivers only.
QueuesSurviveInterrupts == QueuesHoldSenders /\ NoSendCycle

\* The assertions after block() are complete: when the kernel is back in a
\* process and none of them has failed, no interrupt that struck inside a
\* system call has left a field of a blocked process wrong or a wakeup lost.
ConsistentWhenBack ==
  At("user") => FieldsMatchFlags /\ NoMissedRendezvous

\* An interrupt of the disk is never lost: the command of a disk task that is
\* blocked until its interrupt is still unanswered by the disk, unless an
\* assertion stopped the kernel.
DiskInterruptNotLost ==
  \A t \in DiskTasks :
    At("user") /\ Receiving(t) /\ p_recvfrom[t] = INTERRUPT => t \in irq_due

-----------------------------------------------------------------------------
\* Without interrupts for the processes of a call the stages are invisible:
\* after the copy the rest of msg_send is mapped to its end.
Sent(p) == kpc \in {"send_clear", "send_flags"} /\ call.other = p

BarMsg      == [p \in Procs |-> p_msg[p] /\ ~Sent(p)]
BarFlags    == [p \in Procs |-> IF Sent(p) THEN p_flags[p] \ {"RECEIVING"} ELSE p_flags[p]]
BarRecvfrom == [p \in Procs |-> IF Sent(p) THEN NO_TASK ELSE p_recvfrom[p]]

Atomic == INSTANCE Ipc WITH
  p_msg <- BarMsg, p_flags <- BarFlags, p_recvfrom <- BarRecvfrom

\* A history variable: an interrupt changed something inside the call that is
\* under way.
VARIABLE struck

HistoryInit == IrqInit /\ struck = FALSE

HistoryNext ==
  /\ IrqNext
  /\ struck' = /\ kpc' # "user"
               /\ \/ struck
                  \/ kpc' = kpc /\ ipcvars' # ipcvars

HistorySpec == HistoryInit /\ [][HistoryNext]_<<allvars, struck>>

\* A system call is atomic, as Ipc has it, and so is an interrupt that strikes
\* a process: the steps of sys_sendrec implement its single step, except in a
\* call an interrupt has changed something for.
ImplementsIpc ==
  Atomic!Init /\ [][Atomic!Next \/ struck \/ struck']_(Atomic!ipcvars)
=============================================================================
