----------------------------- MODULE Rendezvous -----------------------------
(***************************************************************************)
(* What the kernel promises a caller of sendrec(): synchronous message     *)
(* passing.  A process is Ready, or it waits to hand a message to one      *)
(* process, or it waits for a message of one process (or of ANY, or for an *)
(* INTERRUPT).  A process waits only while its counterpart is not there,   *)
(* and a message goes from the buffer of its sender to the buffer of its   *)
(* receiver in one step that makes both Ready.  There is no queue, no flag *)
(* and no scheduler here: module Ipc has those, and implements this.       *)
(***************************************************************************)
CONSTANTS Procs,      \* the processes
          IrqTasks,   \* the tasks an interrupt handler informs
          Data,       \* the contents of a message
          ANY, INTERRUPT, HARD_INT, NO_TASK

VARIABLES waits,      \* what each process waits for
          mem,        \* the MESSAGE buffer of each process
          notified    \* the tasks with an interrupt they have not seen

rvars == <<waits, mem, notified>>

Ready       == [op |-> "ready", who |-> NO_TASK]
SendTo(d)   == [op |-> "send", who |-> d]
RecvFrom(s) == [op |-> "recv", who |-> s]

Message(s, x) == [source |-> s, type |-> x]
IntMessage    == Message(INTERRUPT, HARD_INT)

\* r is blocked in a receive that a message of source s satisfies.
AwaitsFrom(r, s) == waits[r] \in {RecvFrom(s), RecvFrom(ANY)}

RInit == /\ waits = [p \in Procs |-> Ready]
         /\ mem = [p \in Procs |-> Message(NO_TASK, NO_TASK)]
         /\ notified = {}

\* s calls SEND and r is already waiting for it: the message crosses.
HandOver(s, r, x) ==
  /\ waits[s] = Ready
  /\ AwaitsFrom(r, s)
  /\ mem' = [mem EXCEPT ![s] = Message(s, x), ![r] = Message(s, x)]
  /\ waits' = [waits EXCEPT ![r] = Ready]
  /\ UNCHANGED notified

\* s calls SEND and d is not waiting for it.
WaitToSend(s, d, x) ==
  /\ waits[s] = Ready
  /\ ~ AwaitsFrom(d, s)
  /\ waits' = [waits EXCEPT ![s] = SendTo(d)]
  /\ mem' = [mem EXCEPT ![s] = Message(s, x)]
  /\ UNCHANGED notified

\* r calls RECEIVE and takes the message of s, which waits to send to r.
PickUp(r, s) ==
  /\ waits[r] = Ready
  /\ waits[s] = SendTo(r)
  /\ mem' = [mem EXCEPT ![r] = mem[s]]
  /\ waits' = [waits EXCEPT ![s] = Ready]
  /\ UNCHANGED notified

\* r calls RECEIVE and nobody it names is waiting to send to it.
WaitToReceive(r, src) ==
  /\ waits[r] = Ready
  /\ \A s \in Procs : src \in {s, ANY} => waits[s] # SendTo(r)
  /\ src \in {ANY, INTERRUPT} => r \notin notified
  /\ waits' = [waits EXCEPT ![r] = RecvFrom(src)]
  /\ mem' = [mem EXCEPT ![r].source = r]
  /\ UNCHANGED notified

\* r calls RECEIVE and an interrupt came since it last saw one.
SeeInterrupt(r) ==
  /\ waits[r] = Ready
  /\ r \in notified
  /\ notified' = notified \ {r}
  /\ mem' = [mem EXCEPT ![r] = IntMessage]
  /\ UNCHANGED waits

\* An interrupt for t: it wakes t if t waits for one, and is kept if not.
Notify(t) ==
  IF AwaitsFrom(t, INTERRUPT)
  THEN /\ waits' = [waits EXCEPT ![t] = Ready]
       /\ mem' = [mem EXCEPT ![t] = IntMessage]
       /\ UNCHANGED notified
  ELSE /\ notified' = notified \union {t}
       /\ UNCHANGED <<waits, mem>>

RNext ==
  \/ \E s, r \in Procs : s # r /\ \/ \E x \in Data : HandOver(s, r, x)
                                  \/ \E x \in Data : WaitToSend(s, r, x)
                                  \/ PickUp(r, s)
  \/ \E r \in Procs, src \in Procs \union {ANY, INTERRUPT} :
        r # src /\ WaitToReceive(r, src)
  \/ \E r \in Procs : SeeInterrupt(r)
  \/ \E t \in IrqTasks : Notify(t)

RSpec == RInit /\ [][RNext]_rvars
=============================================================================
