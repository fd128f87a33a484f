----------------------------- MODULE IpcProofs ------------------------------
(***************************************************************************)
(* Proofs about the message passing of modules Ipc and IpcIrq, for any set *)
(* of processes and tasks.                                                 *)
(*                                                                         *)
(* For Ipc, where a system call is one step: the inductive invariant IInv, *)
(* the safety properties that follow from it, and the refinement of        *)
(* Rendezvous.  For IpcIrq, its steps with interrupts between them: IrqInv *)
(* and what follows from it, that whatever interrupt strikes the sending   *)
(* queues stay right, and when the kernel is back in a process and no      *)
(* assertion has failed nothing is wrong and no interrupt of the disk is   *)
(* lost; and that a call no interrupt disturbs is the one step of Ipc.     *)
(***************************************************************************)
EXTENDS IpcIrq, TLAPS


\* Unlink takes one entry and leaves the order of the others.
LEMMA UnlinkType ==
  ASSUME NEW S, NEW q \in Seq(S), NEW i \in DOMAIN q
  PROVE  /\ Unlink(q, i) \in Seq(S)
         /\ DOMAIN Unlink(q, i) = 1 .. Len(q) - 1
         /\ \A j \in 1 .. Len(q) - 1 :
              Unlink(q, i)[j] = IF j < i THEN q[j] ELSE q[j + 1]
BY DEF Unlink

\* What the kernel builds and changes are messages.
LEMMA MessageType ==
  /\ \A p \in Procs, x \in Data : Message(p, x) \in Messages
  /\ IntMessage \in Messages
  /\ Message(NO_TASK, NO_TASK) \in Messages
  /\ \A m \in Messages, p \in Procs : [m EXCEPT !.source = p] \in Messages
BY DEF Messages, Message, IntMessage

\* The initial state is well typed.
LEMMA InitType == Init => TypeOK
<1> SUFFICES ASSUME Init PROVE TypeOK
  OBVIOUS
<1>1. mem \in [Procs -> Messages]
  BY MessageType DEF Init
<1>2. q_sending \in [Procs -> Seq(Procs)]
  BY DEF Init
<1> QED BY <1>1, <1>2 DEF Init, TypeOK

\* A step of the kernel keeps the types.
LEMMA StepType == TypeOK /\ [Next]_ipcvars => TypeOK'
<1> SUFFICES ASSUME TypeOK, [Next]_ipcvars PROVE TypeOK'
  OBVIOUS
<1> USE IpcAssumption, MessageType DEF TypeOK, Sources, Running, Runnable
<1>1. CASE Schedule
  BY <1>1 DEF Schedule
<1>2. ASSUME NEW s \in Procs, NEW dest \in Procs, SendPanics(s, dest) PROVE TypeOK'
  BY <1>2 DEF SendPanics
<1>3. ASSUME NEW s \in Procs, NEW dest \in Procs, NEW x \in Data,
             SendDirect(s, dest, x)
      PROVE  TypeOK'
  BY <1>3 DEF SendDirect, StopsReceiving
<1>4. ASSUME NEW s \in Procs, NEW dest \in Procs, NEW x \in Data,
             SendQueue(s, dest, x)
      PROVE  TypeOK'
  <2>1. /\ p_flags' \in [Procs -> {{}, {"SENDING"}, {"RECEIVING"}}]
        /\ p_msg' \in [Procs -> BOOLEAN]
        /\ p_sendto' \in [Procs -> Procs \union {NO_TASK}]
    BY <1>4 DEF SendQueue, Enqueue
  <2>2. q_sending' \in [Procs -> Seq(Procs)] /\ mem' \in [Procs -> Messages]
    BY <1>4 DEF SendQueue, Enqueue
  <2> QED BY <1>4, <2>1, <2>2 DEF SendQueue, Enqueue
<1>5. ASSUME NEW r \in Procs, NEW src \in Sources, ReceiveInterrupt(r, src)
      PROVE  TypeOK'
  BY <1>5 DEF ReceiveInterrupt
<1>6. ASSUME NEW r \in Procs, NEW src \in Sources, ReceiveQueued(r, src)
      PROVE  TypeOK'
  <2>1. PICK i \in TakenFrom(r, src) :
              /\ q_sending' = [q_sending EXCEPT ![r] = Unlink(@, i)]
              /\ mem' = [mem EXCEPT ![r] = mem[q_sending[r][i]]]
              /\ p_msg' = [p_msg EXCEPT ![q_sending[r][i]] = FALSE]
              /\ p_sendto' = [p_sendto EXCEPT ![q_sending[r][i]] = NO_TASK]
              /\ p_flags' = [p_flags EXCEPT ![q_sending[r][i]] = @ \ {"SENDING"}]
    BY <1>6 DEF ReceiveQueued, TakeFrom, PhysCopy
  <2>2. i \in DOMAIN q_sending[r] /\ q_sending[r] \in Seq(Procs)
    BY DEF TakenFrom
  <2>3. q_sending[r][i] \in Procs /\ Unlink(q_sending[r], i) \in Seq(Procs)
    BY <2>2, UnlinkType
  <2>4. /\ p_flags' \in [Procs -> {{}, {"SENDING"}, {"RECEIVING"}}]
        /\ p_msg' \in [Procs -> BOOLEAN]
        /\ p_sendto' \in [Procs -> Procs \union {NO_TASK}]
    BY <2>1, <2>3
  <2>5. q_sending' \in [Procs -> Seq(Procs)] /\ mem' \in [Procs -> Messages]
    BY <2>1, <2>3
  <2> QED BY <1>6, <2>4, <2>5, ZenonT(30) DEF ReceiveQueued, TakeFrom, PhysCopy
<1>7. ASSUME NEW r \in Procs, NEW src \in Sources, ReceiveBlocks(r, src)
      PROVE  TypeOK'
  <2>1. /\ p_flags' \in [Procs -> {{}, {"SENDING"}, {"RECEIVING"}}]
        /\ p_msg' \in [Procs -> BOOLEAN]
        /\ p_recvfrom' \in [Procs -> Sources \union {NO_TASK}]
    BY <1>7 DEF ReceiveBlocks, StartReceiving
  <2>2. mem' \in [Procs -> Messages]
    BY <1>7 DEF ReceiveBlocks, StartReceiving
  <2> QED BY <1>7, <2>1, <2>2 DEF ReceiveBlocks, StartReceiving
<1>8. ASSUME NEW t \in IrqTasks, InformInt(t) PROVE TypeOK'
  <2>1. CASE Awaits(t, INTERRUPT)
    <3>1. mem' \in [Procs -> Messages]
      BY <1>8, <2>1, ZenonT(30) DEF InformInt
    <3>2. /\ p_flags' \in [Procs -> {{}, {"SENDING"}, {"RECEIVING"}}]
          /\ p_msg' \in [Procs -> BOOLEAN]
          /\ p_recvfrom' \in [Procs -> Sources \union {NO_TASK}]
      <4>1. StopsReceiving(t) /\ t \in Procs
        BY <1>8, <2>1 DEF InformInt
      <4> QED BY <4>1 DEF StopsReceiving
    <3>3. has_int_msg' \in [Procs -> BOOLEAN]
      BY <1>8, <2>1 DEF InformInt
    <3> QED BY <1>8, <3>1, <3>2, <3>3 DEF InformInt
  <2>2. CASE ~Awaits(t, INTERRUPT)
    BY <1>8, <2>2 DEF InformInt
  <2> QED BY <2>1, <2>2
<1>9. CASE UNCHANGED ipcvars
  BY <1>9 DEF ipcvars
<1> QED
  BY <1>1, <1>2, <1>3, <1>4, <1>5, <1>6, <1>7, <1>8, <1>9
  DEF Next, Send, Receive

\* Every reachable state of the kernel is well typed.
THEOREM TypeCorrect == Spec => []TypeOK
<1>1. Init => TypeOK
  BY InitType
<1>2. TypeOK /\ [Next]_ipcvars => TypeOK'
  BY StepType
<1> QED BY <1>1, <1>2, PTL DEF Spec

-----------------------------------------------------------------------------
\* The inductive invariant.  Both receive branches need QueuesHoldSenders
\* (whoever is on the queue is blocked in a send to it) to keep the fields and
\* to miss no rendezvous.
IInv == /\ TypeOK
        /\ FieldsMatchFlags
        /\ QueuesHoldSenders
        /\ NoMissedRendezvous
        /\ NoSendCycle

\* What a step does to one process: the cases of the step lemmas below.
LEMMA SendDirectEffect ==
  ASSUME TypeOK, NEW s \in Procs, NEW dest \in Procs,
         NEW x \in Data, SendDirect(s, dest, x)
  PROVE  /\ p_flags[s] = {} /\ p_flags[dest] = {"RECEIVING"}
         /\ p_flags' = [p_flags EXCEPT ![dest] = {}]
         /\ p_recvfrom' = [p_recvfrom EXCEPT ![dest] = NO_TASK]
         /\ p_msg' = [p_msg EXCEPT ![dest] = FALSE]
         /\ UNCHANGED <<p_sendto, q_sending, has_int_msg>>
<1>1. p_flags[dest] = {"RECEIVING"}
  BY DEF SendDirect, Awaits, Receiving, TypeOK
<1>2. {"RECEIVING"} \ {"RECEIVING"} = {}
  OBVIOUS
<1> QED
  BY <1>1, <1>2 DEF SendDirect, StopsReceiving, Running, Runnable

\* inform_int wakes a task that waits for its interrupt.
LEMMA InformEffect ==
  ASSUME TypeOK, NEW t \in Procs, InformInt(t), Awaits(t, INTERRUPT)
  PROVE  /\ p_flags[t] = {"RECEIVING"}
         /\ p_flags' = [p_flags EXCEPT ![t] = {}]
         /\ p_recvfrom' = [p_recvfrom EXCEPT ![t] = NO_TASK]
         /\ p_msg' = [p_msg EXCEPT ![t] = FALSE]
         /\ has_int_msg' = [has_int_msg EXCEPT ![t] = FALSE]
         /\ UNCHANGED <<p_sendto, q_sending>>
<1>1. p_flags[t] = {"RECEIVING"}
  BY DEF Awaits, Receiving, TypeOK
<1>2. {"RECEIVING"} \ {"RECEIVING"} = {}
  OBVIOUS
<1> QED
  BY <1>1, <1>2 DEF InformInt, StopsReceiving

\* msg_send blocks its caller in the queue of the destination.
LEMMA SendQueueEffect ==
  ASSUME TypeOK, NEW s \in Procs, NEW dest \in Procs, NEW x \in Data,
         SendQueue(s, dest, x)
  PROVE  /\ p_flags[s] = {}
         /\ p_flags' = [p_flags EXCEPT ![s] = {"SENDING"}]
         /\ p_sendto' = [p_sendto EXCEPT ![s] = dest]
         /\ p_msg' = [p_msg EXCEPT ![s] = TRUE]
         /\ q_sending' = [q_sending EXCEPT ![dest] = Append(@, s)]
         /\ UNCHANGED <<p_recvfrom, has_int_msg>>
BY DEF SendQueue, Enqueue, Running, Runnable, TypeOK

\* msg_receive blocks its caller.
LEMMA ReceiveBlocksEffect ==
  ASSUME TypeOK, NEW r \in Procs, NEW src \in Sources, ReceiveBlocks(r, src)
  PROVE  /\ p_flags[r] = {}
         /\ p_flags' = [p_flags EXCEPT ![r] = {"RECEIVING"}]
         /\ p_recvfrom' = [p_recvfrom EXCEPT ![r] = src]
         /\ p_msg' = [p_msg EXCEPT ![r] = TRUE]
         /\ UNCHANGED <<p_sendto, q_sending, has_int_msg>>
BY DEF ReceiveBlocks, StartReceiving, Running, Runnable, TypeOK

\* A receive that takes a queued message frees a process that was blocked
\* in a send to the receiver.
LEMMA TakeEffect ==
  ASSUME TypeOK, QueuesHoldSenders, NEW r \in Procs, NEW src \in Sources,
         \E i \in TakenFrom(r, src) : TakeFrom(r, i)
  PROVE  \E i \in DOMAIN q_sending[r], from \in Procs :
           /\ i \in TakenFrom(r, src)
           /\ from = q_sending[r][i]
           /\ p_flags[from] = {"SENDING"} /\ p_sendto[from] = r
           /\ p_flags' = [p_flags EXCEPT ![from] = {}]
           /\ p_sendto' = [p_sendto EXCEPT ![from] = NO_TASK]
           /\ p_msg' = [p_msg EXCEPT ![from] = FALSE]
           /\ q_sending' = [q_sending EXCEPT ![r] = Unlink(@, i)]
           /\ mem' = [mem EXCEPT ![r] = mem[from]]
           /\ UNCHANGED p_recvfrom
<1>1. PICK i \in TakenFrom(r, src) :
            /\ q_sending' = [q_sending EXCEPT ![r] = Unlink(@, i)]
            /\ mem' = [mem EXCEPT ![r] = mem[q_sending[r][i]]]
            /\ p_msg' = [p_msg EXCEPT ![q_sending[r][i]] = FALSE]
            /\ p_sendto' = [p_sendto EXCEPT ![q_sending[r][i]] = NO_TASK]
            /\ p_flags' = [p_flags EXCEPT ![q_sending[r][i]] = @ \ {"SENDING"}]
            /\ UNCHANGED p_recvfrom
  BY DEF TakeFrom, PhysCopy
<1> DEFINE from == q_sending[r][i]
<1>2. i \in DOMAIN q_sending[r]
  BY DEF TakenFrom
<1>3. from \in Procs
  BY <1>2 DEF TypeOK
<1>4. Sending(from) /\ p_sendto[from] = r
  BY <1>2, <1>3 DEF QueuesHoldSenders
<1>5. p_flags[from] = {"SENDING"}
  <2>1. \A p \in Procs : "SENDING" \in p_flags[p] => p_flags[p] = {"SENDING"}
    BY DEF TypeOK
  <2> QED BY <1>3, <1>4, <2>1 DEF Sending
<1>6. {"SENDING"} \ {"SENDING"} = {}
  OBVIOUS
<1> QED BY <1>1, <1>2, <1>3, <1>4, <1>5, <1>6

\* msg_receive takes the message of a blocked sender.
LEMMA ReceiveQueuedEffect ==
  ASSUME TypeOK, QueuesHoldSenders, NEW r \in Procs, NEW src \in Sources,
         ReceiveQueued(r, src)
  PROVE  \E i \in DOMAIN q_sending[r], from \in Procs :
           /\ i \in TakenFrom(r, src)
           /\ from = q_sending[r][i]
           /\ p_flags[from] = {"SENDING"} /\ p_sendto[from] = r
           /\ p_flags' = [p_flags EXCEPT ![from] = {}]
           /\ p_sendto' = [p_sendto EXCEPT ![from] = NO_TASK]
           /\ p_msg' = [p_msg EXCEPT ![from] = FALSE]
           /\ q_sending' = [q_sending EXCEPT ![r] = Unlink(@, i)]
           /\ mem' = [mem EXCEPT ![r] = mem[from]]
           /\ UNCHANGED <<p_recvfrom, has_int_msg>>
<1>1. /\ \E i \in TakenFrom(r, src) : TakeFrom(r, i)
      /\ UNCHANGED has_int_msg
  BY DEF ReceiveQueued
<1> QED BY <1>1, TakeEffect

\* Every step keeps the fields in agreement with the flags.
LEMMA FieldsStep ==
  TypeOK /\ FieldsMatchFlags /\ QueuesHoldSenders /\ [Next]_ipcvars
    => FieldsMatchFlags'
<1> SUFFICES ASSUME TypeOK, FieldsMatchFlags, QueuesHoldSenders, [Next]_ipcvars
             PROVE  FieldsMatchFlags'
  OBVIOUS
<1> USE IpcAssumption DEF FieldsMatchFlags, Sending, Receiving, Runnable
<1> p_flags \in [Procs -> {{}, {"SENDING"}, {"RECEIVING"}}]
  BY DEF TypeOK
<1> /\ p_msg \in [Procs -> BOOLEAN]
    /\ p_sendto \in [Procs -> Procs \union {NO_TASK}]
    /\ p_recvfrom \in [Procs -> Sources \union {NO_TASK}]
  BY DEF TypeOK
<1>1. CASE Schedule \/ UNCHANGED ipcvars
  BY <1>1 DEF Schedule, ipcvars
<1>2. ASSUME NEW s \in Procs, NEW dest \in Procs, SendPanics(s, dest)
      PROVE  FieldsMatchFlags'
  BY <1>2 DEF SendPanics
<1>3. ASSUME NEW s \in Procs, NEW dest \in Procs, NEW x \in Data,
             SendDirect(s, dest, x)
      PROVE  FieldsMatchFlags'
  BY <1>3, SendDirectEffect
<1>4. ASSUME NEW s \in Procs, NEW dest \in Procs, s # dest, NEW x \in Data,
             SendQueue(s, dest, x)
      PROVE  FieldsMatchFlags'
  BY <1>4, SendQueueEffect
<1>5. ASSUME NEW r \in Procs, NEW src \in Sources, ReceiveInterrupt(r, src)
      PROVE  FieldsMatchFlags'
  BY <1>5 DEF ReceiveInterrupt
<1>6. ASSUME NEW r \in Procs, NEW src \in Sources, ReceiveQueued(r, src)
      PROVE  FieldsMatchFlags'
  <2>1. PICK from \in Procs :
           /\ p_flags[from] = {"SENDING"}
           /\ p_flags' = [p_flags EXCEPT ![from] = {}]
           /\ p_sendto' = [p_sendto EXCEPT ![from] = NO_TASK]
           /\ p_msg' = [p_msg EXCEPT ![from] = FALSE]
           /\ UNCHANGED p_recvfrom
    BY <1>6, ReceiveQueuedEffect
  <2> QED BY <2>1
<1>7. ASSUME NEW r \in Procs, NEW src \in Sources, r # src, ReceiveBlocks(r, src)
      PROVE  FieldsMatchFlags'
  <2>1. NO_TASK \notin Sources /\ src # NO_TASK
    BY DEF Sources
  <2>2. \A p \in Procs : p # r => /\ p_flags'[p] = p_flags[p]
                                 /\ p_recvfrom'[p] = p_recvfrom[p]
                                 /\ p_msg'[p] = p_msg[p]
    BY <1>7, ReceiveBlocksEffect
  <2>3. /\ p_flags'[r] = {"RECEIVING"} /\ p_recvfrom'[r] = src /\ p_msg'[r]
        /\ p_flags[r] = {} /\ p_sendto' = p_sendto
    BY <1>7, ReceiveBlocksEffect
  <2> QED BY <1>7, <2>1, <2>2, <2>3
<1>8. ASSUME NEW t \in IrqTasks, InformInt(t) PROVE FieldsMatchFlags'
  <2>1. CASE Awaits(t, INTERRUPT)
    BY <1>8, <2>1, InformEffect
  <2>2. CASE ~Awaits(t, INTERRUPT)
    BY <1>8, <2>2 DEF InformInt
  <2> QED BY <2>1, <2>2
<1> QED
  BY <1>1, <1>2, <1>3, <1>4, <1>5, <1>6, <1>7, <1>8
  DEF Next, Send, Receive

\* Whoever is unlinked leaves the queue, and nobody else does.
LEMMA UnlinkKeepsQueues ==
  ASSUME TypeOK, QueuesHoldSenders, NEW r \in Procs, NEW i \in DOMAIN q_sending[r],
         NEW from \in Procs, from = q_sending[r][i],
         p_flags[from] = {"SENDING"}, p_sendto[from] = r,
         p_flags' = [p_flags EXCEPT ![from] = {}],
         p_sendto' = [p_sendto EXCEPT ![from] = NO_TASK],
         q_sending' = [q_sending EXCEPT ![r] = Unlink(@, i)]
  PROVE  QueuesHoldSenders'
<1>0. /\ p_flags \in [Procs -> {{}, {"SENDING"}, {"RECEIVING"}}]
      /\ p_sendto \in [Procs -> Procs \union {NO_TASK}]
      /\ q_sending \in [Procs -> Seq(Procs)]
  BY DEF TypeOK
<1> DEFINE q == q_sending[r]
           u == Unlink(q, i)
<1>2. /\ \A p \in Procs : Sending(p)' <=> (Sending(p) /\ p # from)
      /\ \A p \in Procs \ {from} : p_sendto'[p] = p_sendto[p]
      /\ \A d \in Procs \ {r} : q_sending'[d] = q_sending[d]
      /\ q_sending'[r] = u
  BY <1>0 DEF Sending
<1>1. q \in Seq(Procs) /\ Len(q) \in Nat /\ i \in 1 .. Len(q)
  BY <1>0
<1>3. /\ q \in Seq(Procs) /\ Len(q) \in Nat /\ i \in 1 .. Len(q)
      /\ DOMAIN u = 1 .. Len(q) - 1
      /\ \A j \in 1 .. Len(q) - 1 : u[j] = IF j < i THEN q[j] ELSE q[j + 1]
  BY <1>1 DEF Unlink
<1>4. \A j, k \in 1 .. Len(q) : q[j] = q[k] => j = k
  BY <1>3 DEF QueuesHoldSenders
<1>5. ASSUME NEW d \in Procs \ {r}
      PROVE  /\ \A p \in Procs : (Sending(p) /\ p_sendto[p] = d)'
                  <=> \E j \in DOMAIN q_sending'[d] : q_sending'[d][j] = p
             /\ \A j, k \in DOMAIN q_sending'[d] :
                  q_sending'[d][j] = q_sending'[d][k] => j = k
  <2>1. \A j \in DOMAIN q_sending[d] : q_sending[d][j] # from
    BY DEF QueuesHoldSenders
  <2> QED BY <1>2, <2>1 DEF QueuesHoldSenders
<1>6. \A p \in Procs : (\E j \in 1 .. Len(q) - 1 : u[j] = p)
                          <=> p # from /\ \E k \in 1 .. Len(q) : q[k] = p
  <2>1. ASSUME NEW p \in Procs, NEW j \in 1 .. Len(q) - 1, u[j] = p
        PROVE  p # from /\ \E k \in 1 .. Len(q) : q[k] = p
    <3>1. CASE j < i
      BY <1>3, <1>4, <2>1, <3>1
    <3>2. CASE ~(j < i)
      <4>1. u[j] = q[j + 1] /\ j + 1 \in 1 .. Len(q) /\ j + 1 # i
        BY <1>3, <3>2
      <4> QED BY <1>3, <1>4, <2>1, <4>1
    <3> QED BY <3>1, <3>2
  <2>2. ASSUME NEW p \in Procs, p # from, NEW k \in 1 .. Len(q), q[k] = p
        PROVE  \E j \in 1 .. Len(q) - 1 : u[j] = p
    <3>1. k # i
      BY <2>2
    <3>2. CASE k < i
      <4>1. k \in 1 .. Len(q) - 1 /\ u[k] = p
        BY <1>3, <2>2, <3>2
      <4> QED BY <4>1
    <3>3. CASE k > i
      <4>1. k - 1 \in 1 .. Len(q) - 1 /\ ~(k - 1 < i) /\ (k - 1) + 1 = k
        BY <1>3, <2>2, <3>3
      <4>2. u[k - 1] = p
        BY <1>3, <2>2, <4>1
      <4> QED BY <4>1, <4>2
    <3> QED BY <1>3, <3>1, <3>2, <3>3
  <2> QED BY <2>1, <2>2
<1>7. \A p \in Procs : (Sending(p) /\ p_sendto[p] = r)'
        <=> \E j \in DOMAIN q_sending'[r] : q_sending'[r][j] = p
  <2>1. \A p \in Procs : (Sending(p) /\ p_sendto[p] = r)'
          <=> p # from /\ Sending(p) /\ p_sendto[p] = r
    BY <1>2
  <2>2. \A p \in Procs : Sending(p) /\ p_sendto[p] = r
          <=> \E k \in 1 .. Len(q) : q[k] = p
    <3>1. DOMAIN q = 1 .. Len(q)
      BY <1>1
    <3>2. \A p \in Procs : Sending(p) /\ p_sendto[p] = r <=> \E k \in DOMAIN q : q[k] = p
      BY DEF QueuesHoldSenders
    <3> QED BY <3>1, <3>2
  <2>3. DOMAIN q_sending'[r] = 1 .. Len(q) - 1 /\ q_sending'[r] = u
    BY <1>2, <1>3
  <2> HIDE DEF u, q
  <2> QED BY <1>6, <2>1, <2>2, <2>3
<1>8. \A j, k \in DOMAIN q_sending'[r] :
        q_sending'[r][j] = q_sending'[r][k] => j = k
  <2>1. ASSUME NEW j \in 1 .. Len(q) - 1, NEW k \in 1 .. Len(q) - 1, u[j] = u[k]
        PROVE  j = k
    <3> DEFINE j1 == IF j < i THEN j ELSE j + 1
               k1 == IF k < i THEN k ELSE k + 1
    <3>1. j1 \in 1 .. Len(q) /\ k1 \in 1 .. Len(q) /\ u[j] = q[j1] /\ u[k] = q[k1]
      <4> HIDE DEF u, q
      <4>1. Len(q) \in Nat /\ i \in 1 .. Len(q)
        BY <1>3
      <4>2. j1 \in 1 .. Len(q) /\ k1 \in 1 .. Len(q)
        BY <4>1
      <4>3. u[j] = q[j1] /\ u[k] = q[k1]
        BY <1>3
      <4> QED BY <4>2, <4>3
    <3>2. j1 = k1
      BY <1>4, <2>1, <3>1
    <3> QED BY <1>3, <3>2
  <2> QED BY <1>2, <1>3, <2>1
<1> QED BY <1>5, <1>7, <1>8 DEF QueuesHoldSenders

\* An Append of a process that was not queued, and the removal of one
\* entry, keep the queue of d equal to the set of senders.
LEMMA QueuesStep ==
  TypeOK /\ QueuesHoldSenders /\ [Next]_ipcvars => QueuesHoldSenders'
<1> SUFFICES ASSUME TypeOK, QueuesHoldSenders, [Next]_ipcvars
             PROVE  QueuesHoldSenders'
  OBVIOUS
<1>0. /\ p_flags \in [Procs -> {{}, {"SENDING"}, {"RECEIVING"}}]
      /\ p_sendto \in [Procs -> Procs \union {NO_TASK}]
      /\ q_sending \in [Procs -> Seq(Procs)]
  BY DEF TypeOK
<1>a. ASSUME UNCHANGED <<p_sendto, q_sending>>,
             \A p \in Procs : Sending(p)' <=> Sending(p)
      PROVE  QueuesHoldSenders'
  BY <1>a DEF QueuesHoldSenders
<1>1. CASE Schedule \/ UNCHANGED ipcvars
  BY <1>1, <1>a DEF Schedule, ipcvars, Sending
<1>2. ASSUME NEW s \in Procs, NEW dest \in Procs, SendPanics(s, dest)
      PROVE  QueuesHoldSenders'
  BY <1>2, <1>a DEF SendPanics, Sending
<1>3. ASSUME NEW s \in Procs, NEW dest \in Procs, NEW x \in Data,
             SendDirect(s, dest, x)
      PROVE  QueuesHoldSenders'
  <2>1. \A p \in Procs : Sending(p)' <=> Sending(p)
    <3>1. p_flags[dest] = {"RECEIVING"} /\ p_flags' = [p_flags EXCEPT ![dest] = {}]
      BY <1>3, SendDirectEffect
    <3> QED BY <1>0, <3>1 DEF Sending
  <2>2. UNCHANGED <<p_sendto, q_sending>>
    BY <1>3 DEF SendDirect
  <2> QED BY <2>1, <2>2, <1>a
<1>4. ASSUME NEW s \in Procs, NEW dest \in Procs, s # dest, NEW x \in Data,
             SendQueue(s, dest, x)
      PROVE  QueuesHoldSenders'
  <2> DEFINE q == q_sending[dest]
  <2>1. q \in Seq(Procs) /\ Append(q, s) \in Seq(Procs)
    BY <1>0
  <2>2. /\ ~Sending(s)
        /\ \A d \in Procs : \A i \in DOMAIN q_sending[d] : q_sending[d][i] # s
    BY <1>0, <1>4, SendQueueEffect DEF QueuesHoldSenders, Sending
  <2>3. \A p \in Procs : Sending(p)' <=> (Sending(p) \/ p = s)
    BY <1>0, <1>4, SendQueueEffect DEF Sending
  <2>4. /\ \A d \in Procs \ {dest} : q_sending'[d] = q_sending[d]
        /\ q_sending'[dest] = Append(q, s)
        /\ \A p \in Procs \ {s} : p_sendto'[p] = p_sendto[p]
        /\ p_sendto'[s] = dest
    BY <1>0, <1>4, SendQueueEffect
  <2>5. /\ DOMAIN Append(q, s) = 1 .. Len(q) + 1
        /\ \A i \in 1 .. Len(q) : Append(q, s)[i] = q[i]
        /\ Append(q, s)[Len(q) + 1] = s
        /\ DOMAIN q = 1 .. Len(q) /\ Len(q) \in Nat
    BY <2>1
  <2>6. ASSUME NEW d \in Procs \ {dest}
        PROVE  /\ \A p \in Procs : (Sending(p) /\ p_sendto[p] = d)'
                    <=> \E i \in DOMAIN q_sending'[d] : q_sending'[d][i] = p
               /\ \A i, j \in DOMAIN q_sending'[d] :
                    q_sending'[d][i] = q_sending'[d][j] => i = j
    BY <2>2, <2>3, <2>4 DEF QueuesHoldSenders
  <2>7. \A p \in Procs : (Sending(p) /\ p_sendto[p] = dest)'
          <=> \E i \in DOMAIN q_sending'[dest] : q_sending'[dest][i] = p
    <3>1. \A p \in Procs : (\E i \in DOMAIN q_sending'[dest] : q_sending'[dest][i] = p)
                              <=> (p = s \/ \E i \in DOMAIN q : q[i] = p)
      BY <2>4, <2>5
    <3> QED BY <2>2, <2>3, <2>4, <3>1 DEF QueuesHoldSenders
  <2>8. \A i, j \in DOMAIN q_sending'[dest] :
          q_sending'[dest][i] = q_sending'[dest][j] => i = j
    BY <2>2, <2>4, <2>5 DEF QueuesHoldSenders
  <2> QED BY <2>6, <2>7, <2>8 DEF QueuesHoldSenders
<1>5. ASSUME NEW r \in Procs, NEW src \in Sources, ReceiveInterrupt(r, src)
      PROVE  QueuesHoldSenders'
  BY <1>5, <1>a DEF ReceiveInterrupt, Sending
<1>6. ASSUME NEW r \in Procs, NEW src \in Sources, ReceiveQueued(r, src)
      PROVE  QueuesHoldSenders'
  <2>1. PICK i \in DOMAIN q_sending[r], from \in Procs :
           /\ from = q_sending[r][i]
           /\ p_flags[from] = {"SENDING"} /\ p_sendto[from] = r
           /\ p_flags' = [p_flags EXCEPT ![from] = {}]
           /\ p_sendto' = [p_sendto EXCEPT ![from] = NO_TASK]
           /\ q_sending' = [q_sending EXCEPT ![r] = Unlink(@, i)]
    BY <1>6, ReceiveQueuedEffect, SMTT(30)
  <2> QED BY <2>1, UnlinkKeepsQueues
<1>7. ASSUME NEW r \in Procs, NEW src \in Sources, r # src, ReceiveBlocks(r, src)
      PROVE  QueuesHoldSenders'
  <2>1. \A p \in Procs : Sending(p)' <=> Sending(p)
    BY <1>0, <1>7, ReceiveBlocksEffect DEF Sending
  <2>2. UNCHANGED <<p_sendto, q_sending>>
    BY <1>7 DEF ReceiveBlocks, StartReceiving
  <2> QED BY <2>1, <2>2, <1>a
<1>8. ASSUME NEW t \in IrqTasks, InformInt(t) PROVE QueuesHoldSenders'
  <2>1. CASE Awaits(t, INTERRUPT)
    <3>1. t \in Procs
      BY IpcAssumption
    <3>2. \A p \in Procs : Sending(p)' <=> Sending(p)
      <4>1. p_flags[t] = {"RECEIVING"} /\ p_flags' = [p_flags EXCEPT ![t] = {}]
        BY <1>8, <2>1, <3>1, InformEffect
      <4> QED BY <1>0, <4>1 DEF Sending
    <3> QED BY <1>8, <3>2, <1>a DEF InformInt
  <2>2. CASE ~Awaits(t, INTERRUPT)
    BY <1>8, <2>2, <1>a DEF InformInt, Sending
  <2> QED BY <2>1, <2>2
<1> QED
  BY <1>1, <1>2, <1>3, <1>4, <1>5, <1>6, <1>7, <1>8
  DEF Next, Send, Receive

\* A receive that finds nobody has nobody blocked on it whom it asks for.
LEMMA NobodyQueued ==
  ASSUME TypeOK, QueuesHoldSenders, NEW r \in Procs, NEW src \in Sources,
         TakenFrom(r, src) = {},
         NEW s \in Procs, src \in {s, ANY}, Sending(s), p_sendto[s] = r
  PROVE  FALSE
<1>1. PICK i \in DOMAIN q_sending[r] : q_sending[r][i] = s
  BY DEF QueuesHoldSenders
<1>2. i \in 1 .. Len(q_sending[r]) /\ 1 \in DOMAIN q_sending[r]
  BY <1>1 DEF TypeOK
<1>3. CASE src = ANY
  BY <1>2, <1>3 DEF TakenFrom
<1>4. CASE src # ANY
  BY <1>1, <1>4 DEF TakenFrom
<1> QED BY <1>3, <1>4

\* A process blocks in a send only when its counterpart does not await it,
\* and in a receive only when nobody it asks for is in its queue.
LEMMA RendezvousStep ==
  TypeOK /\ FieldsMatchFlags /\ QueuesHoldSenders /\ NoMissedRendezvous
    /\ [Next]_ipcvars => NoMissedRendezvous'
<1> SUFFICES ASSUME TypeOK, FieldsMatchFlags, QueuesHoldSenders,
                    NoMissedRendezvous, [Next]_ipcvars
             PROVE  NoMissedRendezvous'
  OBVIOUS
<1>0. /\ p_flags \in [Procs -> {{}, {"SENDING"}, {"RECEIVING"}}]
      /\ p_sendto \in [Procs -> Procs \union {NO_TASK}]
      /\ p_recvfrom \in [Procs -> Sources \union {NO_TASK}]
      /\ q_sending \in [Procs -> Seq(Procs)]
      /\ has_int_msg \in [Procs -> BOOLEAN]
  BY DEF TypeOK
<1> USE IpcAssumption DEF Awaits, Sending, Receiving
<1>a. ASSUME UNCHANGED <<p_flags, p_sendto, p_recvfrom>>,
             \A t \in IrqTasks : has_int_msg'[t] => has_int_msg[t]
      PROVE  NoMissedRendezvous'
  BY <1>a DEF NoMissedRendezvous
\* Unblocking a process misses nothing.
<1>b. ASSUME NEW p \in Procs, p_flags' = [p_flags EXCEPT ![p] = {}],
             \A q \in Procs : q # p => /\ p_sendto'[q] = p_sendto[q]
                                       /\ p_recvfrom'[q] = p_recvfrom[q],
             \A t \in IrqTasks : has_int_msg'[t] => has_int_msg[t]
      PROVE  NoMissedRendezvous'
  BY <1>0, <1>b DEF NoMissedRendezvous
<1>1. CASE Schedule \/ UNCHANGED ipcvars
  BY <1>1, <1>a DEF Schedule, ipcvars
<1>2. ASSUME NEW s \in Procs, NEW dest \in Procs, SendPanics(s, dest)
      PROVE  NoMissedRendezvous'
  BY <1>2, <1>a DEF SendPanics
<1>3. ASSUME NEW s \in Procs, NEW dest \in Procs, NEW x \in Data,
             SendDirect(s, dest, x)
      PROVE  NoMissedRendezvous'
  <2>1. /\ p_flags' = [p_flags EXCEPT ![dest] = {}]
        /\ p_recvfrom' = [p_recvfrom EXCEPT ![dest] = NO_TASK]
        /\ UNCHANGED <<p_sendto, has_int_msg>>
    BY <1>3, SendDirectEffect
  <2> QED BY <1>0, <2>1, <1>b
<1>4. ASSUME NEW s \in Procs, NEW dest \in Procs, s # dest, NEW x \in Data,
             SendQueue(s, dest, x)
      PROVE  NoMissedRendezvous'
  <2>1. /\ p_flags[s] = {}
        /\ p_flags' = [p_flags EXCEPT ![s] = {"SENDING"}]
        /\ p_sendto' = [p_sendto EXCEPT ![s] = dest]
        /\ UNCHANGED <<p_recvfrom, has_int_msg>>
    BY <1>4, SendQueueEffect
  <2>2. ~ Awaits(dest, s)
    BY <1>4 DEF SendQueue, Enqueue
  <2> QED BY <1>0, <1>4, <2>1, <2>2 DEF NoMissedRendezvous
<1>5. ASSUME NEW r \in Procs, NEW src \in Sources, ReceiveInterrupt(r, src)
      PROVE  NoMissedRendezvous'
  <2>1. has_int_msg' = [has_int_msg EXCEPT ![r] = FALSE]
    BY <1>5 DEF ReceiveInterrupt
  <2> QED BY <1>0, <1>5, <2>1, <1>a DEF ReceiveInterrupt
<1>6. ASSUME NEW r \in Procs, NEW src \in Sources, ReceiveQueued(r, src)
      PROVE  NoMissedRendezvous'
  <2>1. PICK from \in Procs :
           /\ p_flags' = [p_flags EXCEPT ![from] = {}]
           /\ p_sendto' = [p_sendto EXCEPT ![from] = NO_TASK]
           /\ UNCHANGED <<p_recvfrom, has_int_msg>>
    BY <1>6, ReceiveQueuedEffect
  <2> QED BY <1>0, <2>1, <1>b
<1>7. ASSUME NEW r \in Procs, NEW src \in Sources, r # src, ReceiveBlocks(r, src)
      PROVE  NoMissedRendezvous'
  <2>1. /\ p_flags[r] = {}
        /\ p_flags' = [p_flags EXCEPT ![r] = {"RECEIVING"}]
        /\ p_recvfrom' = [p_recvfrom EXCEPT ![r] = src]
        /\ UNCHANGED <<p_sendto, has_int_msg>>
    BY <1>7, ReceiveBlocksEffect
  <2>2. ASSUME NEW s \in Procs, src \in {s, ANY}, Sending(s), p_sendto[s] = r
        PROVE  FALSE
    BY <1>7, <2>2, NobodyQueued DEF ReceiveBlocks
  <2>3. src \in {ANY, INTERRUPT} => ~has_int_msg[r]
    BY <1>7 DEF ReceiveBlocks, SeesInterrupt
  <2>4. ASSUME NEW d \in Procs, NEW s \in Procs
        PROVE  ~ (Awaits(d, s) /\ Sending(s) /\ p_sendto[s] = d)'
    BY <1>0, <2>1, <2>2, <2>4 DEF NoMissedRendezvous
  <2>5. ASSUME NEW t \in IrqTasks
        PROVE  ~ (Awaits(t, INTERRUPT) /\ has_int_msg[t])'
    BY <1>0, <2>1, <2>3, <2>5 DEF NoMissedRendezvous
  <2> QED BY <2>4, <2>5 DEF NoMissedRendezvous
<1>8. ASSUME NEW t \in IrqTasks, InformInt(t) PROVE NoMissedRendezvous'
  <2>0. t \in Procs
    OBVIOUS
  <2>1. CASE Awaits(t, INTERRUPT)
    <3>1. /\ p_flags' = [p_flags EXCEPT ![t] = {}]
          /\ p_recvfrom' = [p_recvfrom EXCEPT ![t] = NO_TASK]
          /\ has_int_msg' = [has_int_msg EXCEPT ![t] = FALSE]
          /\ UNCHANGED p_sendto
      BY <1>8, <2>0, <2>1, InformEffect
    <3> QED BY <1>0, <2>0, <3>1, <1>b
  <2>2. CASE ~Awaits(t, INTERRUPT)
    <3>1. /\ UNCHANGED <<p_flags, p_sendto, p_recvfrom>>
          /\ has_int_msg' = [has_int_msg EXCEPT ![t] = TRUE]
      BY <1>8, <2>2 DEF InformInt
    <3> QED BY <1>0, <2>0, <2>2, <3>1 DEF NoMissedRendezvous
  <2> QED BY <2>1, <2>2
<1> QED
  BY <1>1, <1>2, <1>3, <1>4, <1>5, <1>6, <1>7, <1>8
  DEF Next, Send, Receive

\* Only a queued send adds an edge s -> dest to the graph of senders.  If a
\* cycle S used the edge, take the set C that holds dest, is closed under
\* "is sending to" and misses s (there is one, as deadlock() found nothing):
\* S \intersect C would have been a cycle before.
LEMMA CycleStep ==
  TypeOK /\ QueuesHoldSenders /\ NoSendCycle /\ [Next]_ipcvars => NoSendCycle'
<1> SUFFICES ASSUME TypeOK, QueuesHoldSenders, NoSendCycle, [Next]_ipcvars
             PROVE  NoSendCycle'
  OBVIOUS
<1>0. /\ p_flags \in [Procs -> {{}, {"SENDING"}, {"RECEIVING"}}]
      /\ p_sendto \in [Procs -> Procs \union {NO_TASK}]
  BY DEF TypeOK
<1> USE IpcAssumption DEF Sending
<1>a. ASSUME \A p \in Procs : Sending(p)' => Sending(p) /\ p_sendto'[p] = p_sendto[p]
      PROVE  NoSendCycle'
  BY <1>a DEF NoSendCycle
<1>1. CASE Schedule \/ UNCHANGED ipcvars
  BY <1>1, <1>a DEF Schedule, ipcvars
<1>2. ASSUME NEW s \in Procs, NEW dest \in Procs, SendPanics(s, dest)
      PROVE  NoSendCycle'
  BY <1>2, <1>a DEF SendPanics
<1>3. ASSUME NEW s \in Procs, NEW dest \in Procs, NEW x \in Data,
             SendDirect(s, dest, x)
      PROVE  NoSendCycle'
  <2>1. p_flags' = [p_flags EXCEPT ![dest] = {}] /\ UNCHANGED p_sendto
    BY <1>3, SendDirectEffect
  <2> QED BY <1>0, <2>1, <1>a
<1>4. ASSUME NEW s \in Procs, NEW dest \in Procs, s # dest, NEW x \in Data,
             SendQueue(s, dest, x)
      PROVE  NoSendCycle'
  <2>1. /\ p_flags[s] = {}
        /\ p_flags' = [p_flags EXCEPT ![s] = {"SENDING"}]
        /\ p_sendto' = [p_sendto EXCEPT ![s] = dest]
    BY <1>4, SendQueueEffect
  <2>2. PICK C \in SUBSET Procs :
            /\ dest \in C /\ s \notin C
            /\ \A p \in C : Sending(p) => p_sendto[p] \in C
    BY <1>4 DEF SendQueue, Deadlock
  <2>3. SUFFICES ASSUME NEW S \in SUBSET Procs,
                        \A p \in S : Sending(p)' /\ p_sendto'[p] \in S
                 PROVE  S = {}
    BY DEF NoSendCycle
  <2>4. CASE s \notin S
    BY <1>0, <2>1, <2>3, <2>4 DEF NoSendCycle
  <2>5. CASE s \in S
    <3>1. dest \in S \intersect C
      BY <1>0, <2>1, <2>2, <2>3, <2>5
    <3>2. \A p \in S \intersect C : Sending(p) /\ p_sendto[p] \in S \intersect C
      BY <1>0, <2>1, <2>2, <2>3
    <3> QED BY <3>1, <3>2 DEF NoSendCycle
  <2> QED BY <2>4, <2>5
<1>5. ASSUME NEW r \in Procs, NEW src \in Sources, ReceiveInterrupt(r, src)
      PROVE  NoSendCycle'
  BY <1>5, <1>a DEF ReceiveInterrupt
<1>6. ASSUME NEW r \in Procs, NEW src \in Sources, ReceiveQueued(r, src)
      PROVE  NoSendCycle'
  <2>1. PICK from \in Procs :
           /\ p_flags' = [p_flags EXCEPT ![from] = {}]
           /\ p_sendto' = [p_sendto EXCEPT ![from] = NO_TASK]
    BY <1>6, ReceiveQueuedEffect
  <2> QED BY <1>0, <2>1, <1>a
<1>7. ASSUME NEW r \in Procs, NEW src \in Sources, r # src, ReceiveBlocks(r, src)
      PROVE  NoSendCycle'
  <2>1. p_flags' = [p_flags EXCEPT ![r] = {"RECEIVING"}] /\ UNCHANGED p_sendto
    BY <1>7, ReceiveBlocksEffect
  <2> QED BY <1>0, <2>1, <1>a
<1>8. ASSUME NEW t \in IrqTasks, InformInt(t) PROVE NoSendCycle'
  <2>1. CASE Awaits(t, INTERRUPT)
    <3>1. p_flags' = [p_flags EXCEPT ![t] = {}] /\ UNCHANGED p_sendto
      BY <1>8, <2>1, InformEffect
    <3> QED BY <1>0, <3>1, <1>a
  <2>2. CASE ~Awaits(t, INTERRUPT)
    BY <1>8, <2>2, <1>a DEF InformInt
  <2> QED BY <2>1, <2>2
<1> QED
  BY <1>1, <1>2, <1>3, <1>4, <1>5, <1>6, <1>7, <1>8
  DEF Next, Send, Receive

\* IInv holds initially.
LEMMA InitInv == Init => IInv
<1> SUFFICES ASSUME Init PROVE IInv
  OBVIOUS
<1> USE IpcAssumption DEF Init, Sending, Receiving, Runnable, Awaits
<1>1. FieldsMatchFlags
  BY DEF FieldsMatchFlags
<1>2. QueuesHoldSenders
  BY DEF QueuesHoldSenders
<1>3. NoMissedRendezvous /\ NoSendCycle
  BY DEF NoMissedRendezvous, NoSendCycle
<1> QED BY <1>1, <1>2, <1>3, InitType DEF IInv

\* Every step keeps IInv.
LEMMA StepInv == IInv /\ [Next]_ipcvars => IInv'
BY StepType, FieldsStep, QueuesStep, RendezvousStep, CycleStep DEF IInv

\* IInv holds in every reachable state, for any set of processes.
THEOREM Invariance == Spec => []IInv
<1>1. Init => IInv
  BY InitInv
<1>2. IInv /\ [Next]_ipcvars => IInv'
  BY StepInv
<1> QED BY <1>1, <1>2, PTL DEF Spec

\* The fields of a proc_table entry always agree with its p_flags.
THEOREM FieldsCorrect == Spec => []FieldsMatchFlags
<1>1. IInv => FieldsMatchFlags
  BY DEF IInv
<1> QED BY <1>1, Invariance, PTL

\* A sending queue always holds exactly the processes blocked on its owner.
THEOREM QueuesCorrect == Spec => []QueuesHoldSenders
<1>1. IInv => QueuesHoldSenders
  BY DEF IInv
<1> QED BY <1>1, Invariance, PTL

\* A sender and a receiver that match are never blocked at the same time.
THEOREM RendezvousCorrect == Spec => []NoMissedRendezvous
<1>1. IInv => NoMissedRendezvous
  BY DEF IInv
<1> QED BY <1>1, Invariance, PTL

\* deadlock() keeps the graph of blocked senders free of cycles.
THEOREM CycleFreedom == Spec => []NoSendCycle
<1>1. IInv => NoSendCycle
  BY DEF IInv
<1> QED BY <1>1, Invariance, PTL

-----------------------------------------------------------------------------
\* A sender is unblocked only by the receive that copies its message.
LEMMA DeliveryStep ==
  IInv /\ [Next]_ipcvars =>
    \A s, d \in Procs : (Sending(s) /\ p_sendto[s] = d /\ p_flags'[s] = {})
       => mem'[d] = mem[s]
<1> SUFFICES ASSUME IInv, [Next]_ipcvars, NEW p \in Procs, NEW d \in Procs,
                    Sending(p), p_sendto[p] = d, p_flags'[p] = {}
             PROVE  mem'[d] = mem[p]
  OBVIOUS
<1>0. /\ p_flags \in [Procs -> {{}, {"SENDING"}, {"RECEIVING"}}]
      /\ mem \in [Procs -> Messages]
      /\ p_flags[p] = {"SENDING"} /\ TypeOK
  BY DEF TypeOK, IInv, Sending
<1> USE IpcAssumption
<1>1. CASE UNCHANGED p_flags
  BY <1>0, <1>1
<1>3. ASSUME NEW s \in Procs, NEW dest \in Procs, NEW x \in Data,
             SendDirect(s, dest, x)
      PROVE  mem'[d] = mem[p]
  BY <1>0, <1>3, SendDirectEffect, ZenonT(30) DEF IInv
<1>4. ASSUME NEW s \in Procs, NEW dest \in Procs, NEW x \in Data,
             SendQueue(s, dest, x)
      PROVE  mem'[d] = mem[p]
  BY <1>0, <1>4, SendQueueEffect
<1>6. ASSUME NEW r \in Procs, NEW src \in Sources, ReceiveQueued(r, src)
      PROVE  mem'[d] = mem[p]
  <2>0. TypeOK /\ QueuesHoldSenders
    BY DEF IInv
  <2>1. PICK from \in Procs :
           /\ p_sendto[from] = r
           /\ p_flags' = [p_flags EXCEPT ![from] = {}]
           /\ mem' = [mem EXCEPT ![r] = mem[from]]
    BY <2>0, <1>6, ReceiveQueuedEffect
  <2>2. p = from
    BY <1>0, <2>1
  <2> QED BY <1>0, <2>1, <2>2
<1>7. ASSUME NEW r \in Procs, NEW src \in Sources, ReceiveBlocks(r, src)
      PROVE  mem'[d] = mem[p]
  BY <1>0, <1>7, ReceiveBlocksEffect
<1>8. ASSUME NEW t \in IrqTasks, InformInt(t)
      PROVE  mem'[d] = mem[p]
  <2>1. CASE Awaits(t, INTERRUPT)
    BY <1>0, <1>8, <2>1, InformEffect
  <2>2. CASE ~Awaits(t, INTERRUPT)
    BY <1>0, <1>8, <2>2 DEF InformInt
  <2> QED BY <2>1, <2>2
<1> QED
  BY <1>1, <1>3, <1>4, <1>6, <1>7, <1>8
  DEF Next, Send, Receive, Schedule, SendPanics, ReceiveInterrupt, ipcvars

\* The message of every send that ends is in the buffer of its destination.
THEOREM DeliveryCorrect == Spec => SendIsDelivered
<1>1. IInv /\ [Next]_ipcvars =>
        [\A s, d \in Procs : (Sending(s) /\ p_sendto[s] = d /\ p_flags'[s] = {})
           => mem'[d] = mem[s]]_ipcvars
  BY DeliveryStep
<1> QED BY <1>1, Invariance, PTL DEF Spec, SendIsDelivered

-----------------------------------------------------------------------------
\* The order of a queue q is that of q2, which may have one more at its end
\* that was not sending before.
KeepsOrder(q, q2) ==
  \A i, j \in DOMAIN q2 : i < j =>
    \/ \E k, l \in DOMAIN q : k < l /\ q[k] = q2[i] /\ q[l] = q2[j]
    \/ j = Len(q2) /\ ~Sending(q2[j])

\* A sender that waits is overtaken in its queue by nobody: a step leaves the
\* order of all queues, takes one entry out, or puts a new sender at the end.
LEMMA OrderStep ==
  IInv /\ [Next]_ipcvars => \A d \in Procs : KeepsOrder(q_sending[d], q_sending'[d])
<1> SUFFICES ASSUME IInv, [Next]_ipcvars, NEW d \in Procs
             PROVE  KeepsOrder(q_sending[d], q_sending'[d])
  OBVIOUS
<1> DEFINE q == q_sending[d]
<1>0. TypeOK /\ QueuesHoldSenders /\ q_sending \in [Procs -> Seq(Procs)]
  BY DEF IInv, TypeOK
<1>1. q \in Seq(Procs) /\ Len(q) \in Nat /\ DOMAIN q = 1 .. Len(q)
  BY <1>0
<1>2. KeepsOrder(q, q)
  BY <1>1 DEF KeepsOrder
<1>3. ASSUME NEW s \in Procs, NEW dest \in Procs, NEW x \in Data, SendQueue(s, dest, x)
      PROVE  KeepsOrder(q_sending[d], q_sending'[d])
  <2>1. p_flags[s] = {} /\ q_sending' = [q_sending EXCEPT ![dest] = Append(@, s)]
    BY <1>0, <1>3, SendQueueEffect
  <2>2. CASE d # dest
    BY <1>0, <1>2, <2>1, <2>2
  <2>3. CASE d = dest
    <3> DEFINE q2 == Append(q, s)
    <3>1. q_sending'[d] = q2 /\ ~Sending(s)
      BY <1>0, <2>1, <2>3 DEF Sending
    <3>2. /\ DOMAIN q2 = 1 .. Len(q) + 1 /\ Len(q2) = Len(q) + 1 /\ q2[Len(q) + 1] = s
          /\ \A i \in 1 .. Len(q) : q2[i] = q[i]
      BY <1>1
    <3> HIDE DEF q, q2
    <3>3. KeepsOrder(q, q2)
      <4> SUFFICES ASSUME NEW i \in DOMAIN q2, NEW j \in DOMAIN q2, i < j, j # Len(q2)
                   PROVE  \E k, l \in DOMAIN q : k < l /\ q[k] = q2[i] /\ q[l] = q2[j]
        BY <3>1, <3>2 DEF KeepsOrder
      <4>1. i \in 1 .. Len(q) /\ j \in 1 .. Len(q)
        BY <1>1, <3>2
      <4> QED BY <1>1, <3>2, <4>1
    <3> QED BY <3>1, <3>3 DEF q
  <2> QED BY <2>2, <2>3
<1>4. ASSUME NEW r \in Procs, NEW src \in Sources, ReceiveQueued(r, src)
      PROVE  KeepsOrder(q_sending[d], q_sending'[d])
  <2>1. PICK at \in DOMAIN q_sending[r] : q_sending' = [q_sending EXCEPT ![r] = Unlink(@, at)]
    BY <1>0, <1>4, ReceiveQueuedEffect
  <2>2. CASE d # r
    BY <1>0, <1>2, <2>1, <2>2
  <2>3. CASE d = r
    <3> DEFINE q2 == Unlink(q, at)
    <3>1. q_sending'[d] = q2
      BY <1>0, <2>1, <2>3
    <3>2. /\ DOMAIN q2 = 1 .. Len(q) - 1 /\ at \in 1 .. Len(q)
          /\ \A j \in 1 .. Len(q) - 1 : q2[j] = IF j < at THEN q[j] ELSE q[j + 1]
      BY <1>1, <2>1, <2>3, UnlinkType
    <3> HIDE DEF q, q2
    <3>3. ASSUME NEW i \in DOMAIN q2, NEW j \in DOMAIN q2, i < j
          PROVE  \E k, l \in DOMAIN q : k < l /\ q[k] = q2[i] /\ q[l] = q2[j]
      <4> DEFINE k == IF i < at THEN i ELSE i + 1
                 l == IF j < at THEN j ELSE j + 1
      <4>0. i \in 1 .. Len(q) - 1 /\ j \in 1 .. Len(q) - 1 /\ at \in Nat
        BY <1>1, <3>2
      <4>1. k \in DOMAIN q /\ l \in DOMAIN q /\ k < l
        BY <1>1, <3>3, <4>0
      <4>2. q[k] = q2[i] /\ q[l] = q2[j]
        BY <3>2, <3>3
      <4> QED BY <4>1, <4>2
    <3>4. KeepsOrder(q, q2)
      BY <3>3 DEF KeepsOrder
    <3> QED BY <3>1, <3>4 DEF q
  <2> QED BY <2>2, <2>3
<1>5. CASE UNCHANGED q_sending
  BY <1>2, <1>5
<1> QED
  BY <1>3, <1>4, <1>5
  DEF Next, Send, Receive, Schedule, SendPanics, SendDirect, ReceiveInterrupt, ReceiveBlocks,
      StartReceiving, InformInt, ipcvars

\* Property QueueOrderKept of run ipc: each queue is served in the order in
\* which its senders came, but for receives that name one of them.
THEOREM OrderKept == Spec => QueueOrderKept
<1>1. IInv /\ [Next]_ipcvars =>
        \A d \in Procs : \A i, j \in DOMAIN q_sending'[d] : i < j =>
          \/ \E k, l \in DOMAIN q_sending[d] :
                k < l /\ q_sending[d][k] = q_sending'[d][i]
                      /\ q_sending[d][l] = q_sending'[d][j]
          \/ j = Len(q_sending'[d]) /\ ~Sending(q_sending'[d][j])
  BY OrderStep DEF KeepsOrder
<1> QED BY <1>1, Invariance, PTL DEF Spec, QueueOrderKept

-----------------------------------------------------------------------------
\* The refinement mapping: the waits of Rendezvous, before and after a step.
Waits == [p \in Procs |-> WaitOf(p)]

\* What the flags of p say of its wait.
LEMMA WaitCases ==
  ASSUME TypeOK, FieldsMatchFlags
  PROVE  \A p \in Procs :
           /\ p_flags[p] = {} <=> Waits[p] = R!Ready
           /\ \A d \in Procs : Waits[p] = R!SendTo(d)
                                 <=> Sending(p) /\ p_sendto[p] = d
           /\ \A s \in Sources : Waits[p] = R!RecvFrom(s)
                                 <=> Receiving(p) /\ p_recvfrom[p] = s
           /\ \A s \in Procs \union {INTERRUPT} :
                R!AwaitsFrom(p, s) <=> Awaits(p, s)
<1> SUFFICES ASSUME NEW p \in Procs
             PROVE  /\ p_flags[p] = {} <=> Waits[p] = R!Ready
                    /\ \A d \in Procs : Waits[p] = R!SendTo(d)
                                 <=> Sending(p) /\ p_sendto[p] = d
                    /\ \A s \in Sources : Waits[p] = R!RecvFrom(s)
                                 <=> Receiving(p) /\ p_recvfrom[p] = s
                    /\ \A s \in Procs \union {INTERRUPT} :
                          R!AwaitsFrom(p, s) <=> Awaits(p, s)
  OBVIOUS
<1>0. p_flags[p] \in {{}, {"SENDING"}, {"RECEIVING"}}
  BY DEF TypeOK
<1>1. CASE p_flags[p] = {}
  <2>1. ~Sending(p) /\ ~Receiving(p)
    BY <1>1 DEF Sending, Receiving
  <2>2. Waits[p] = R!Ready
    BY <2>1 DEF Waits, WaitOf, R!Ready
  <2> QED BY <1>1, <2>1, <2>2
      DEF R!Ready, R!SendTo, R!RecvFrom, R!AwaitsFrom, Awaits, Waits
<1>2. CASE p_flags[p] = {"SENDING"}
  <2>1. Sending(p) /\ ~Receiving(p)
    BY <1>2 DEF Sending, Receiving
  <2>2. Waits[p] = R!SendTo(p_sendto[p])
    BY <2>1 DEF Waits, WaitOf, R!SendTo
  <2> QED BY <1>2, <2>1, <2>2
      DEF R!Ready, R!SendTo, R!RecvFrom, R!AwaitsFrom, Awaits, Waits
<1>3. CASE p_flags[p] = {"RECEIVING"}
  <2>1. ~Sending(p) /\ Receiving(p)
    BY <1>3 DEF Sending, Receiving
  <2>2. Waits[p] = R!RecvFrom(p_recvfrom[p])
    BY <2>1 DEF Waits, WaitOf, R!RecvFrom
  <2> QED BY <1>3, <2>1, <2>2
      DEF R!Ready, R!SendTo, R!RecvFrom, R!AwaitsFrom, Awaits, Waits
<1> QED BY <1>0, <1>1, <1>2, <1>3

\* How a change of the entry of one process changes its wait.
LEMMA WaitChanges ==
  ASSUME TypeOK, NEW p \in Procs,
         \A q \in Procs \ {p} : /\ p_flags'[q] = p_flags[q]
                                /\ p_sendto'[q] = p_sendto[q]
                                /\ p_recvfrom'[q] = p_recvfrom[q]
  PROVE  /\ p_flags'[p] = {} => Waits' = [Waits EXCEPT ![p] = R!Ready]
         /\ p_flags'[p] = {"SENDING"}
              => Waits' = [Waits EXCEPT ![p] = R!SendTo(p_sendto'[p])]
         /\ p_flags'[p] = {"RECEIVING"}
              => Waits' = [Waits EXCEPT ![p] = R!RecvFrom(p_recvfrom'[p])]
<1>1. \A q \in Procs \ {p} : WaitOf(q)' = WaitOf(q)
  BY DEF WaitOf, Sending, Receiving
<1>2. ASSUME NEW w, WaitOf(p)' = w PROVE Waits' = [Waits EXCEPT ![p] = w]
  BY <1>1, <1>2 DEF Waits
<1>3. p_flags'[p] = {} => WaitOf(p)' = R!Ready
  BY DEF WaitOf, Sending, Receiving, R!Ready
<1>4. p_flags'[p] = {"SENDING"} => WaitOf(p)' = R!SendTo(p_sendto'[p])
  BY DEF WaitOf, Sending, Receiving, R!SendTo
<1>5. p_flags'[p] = {"RECEIVING"} => WaitOf(p)' = R!RecvFrom(p_recvfrom'[p])
  BY DEF WaitOf, Sending, Receiving, R!RecvFrom
<1> QED BY <1>2, <1>3, <1>4, <1>5

\* An initial state of the kernel is one of Rendezvous.
LEMMA RefinementInit == Init => R!RInit
BY DEF Init, R!RInit, WaitOf, Sending, Receiving, R!Ready, Message, R!Message

\* Every step of the kernel is a step of Rendezvous or leaves it unchanged.
LEMMA RefinementStep ==
  IInv /\ [Next]_ipcvars => [R!RNext]_<<Waits, mem, {p \in Procs : has_int_msg[p]}>>
<1> SUFFICES ASSUME IInv, [Next]_ipcvars
             PROVE  [R!RNext]_<<Waits, mem, {p \in Procs : has_int_msg[p]}>>
  OBVIOUS
<1> DEFINE Notified == {p \in Procs : has_int_msg[p]}
           rstep == [R!RNext]_<<Waits, mem, Notified>>
<1>0. /\ p_flags \in [Procs -> {{}, {"SENDING"}, {"RECEIVING"}}]
      /\ p_sendto \in [Procs -> Procs \union {NO_TASK}]
      /\ p_recvfrom \in [Procs -> Sources \union {NO_TASK}]
      /\ has_int_msg \in [Procs -> BOOLEAN]
      /\ TypeOK /\ FieldsMatchFlags /\ QueuesHoldSenders
  BY DEF TypeOK, IInv
<1>c. \A p \in Procs :
           /\ p_flags[p] = {} <=> Waits[p] = R!Ready
           /\ \A d \in Procs : Waits[p] = R!SendTo(d)
                                 <=> Sending(p) /\ p_sendto[p] = d
           /\ \A s \in Procs \union {INTERRUPT} :
                R!AwaitsFrom(p, s) <=> Awaits(p, s)
  BY <1>0, WaitCases
<1>s. ASSUME UNCHANGED <<p_flags, p_sendto, p_recvfrom, mem, has_int_msg>>
      PROVE  rstep
  BY <1>s DEF Waits, WaitOf, Sending, Receiving
<1>1. CASE Schedule \/ UNCHANGED ipcvars
  BY <1>1, <1>s DEF Schedule, ipcvars
<1>2. ASSUME NEW s \in Procs, NEW dest \in Procs, SendPanics(s, dest) PROVE rstep
  BY <1>2, <1>s DEF SendPanics
<1>3. ASSUME NEW s \in Procs, NEW dest \in Procs, s # dest, NEW x \in Data,
             SendDirect(s, dest, x)
      PROVE  rstep
  <2>1. /\ p_flags[s] = {}
        /\ p_flags' = [p_flags EXCEPT ![dest] = {}]
        /\ p_recvfrom' = [p_recvfrom EXCEPT ![dest] = NO_TASK]
        /\ UNCHANGED <<p_sendto, has_int_msg>>
    BY <1>0, <1>3, SendDirectEffect
  <2>2. Waits' = [Waits EXCEPT ![dest] = R!Ready]
    BY <1>0, <2>1, WaitChanges
  <2>3. /\ mem' = [mem EXCEPT ![s] = R!Message(s, x), ![dest] = R!Message(s, x)]
        /\ Awaits(dest, s)
    BY <1>3 DEF SendDirect, Message, R!Message
  <2>4. R!HandOver(s, dest, x)
    BY <1>c, <2>1, <2>2, <2>3 DEF R!HandOver, Waits
  <2> QED BY <1>3, <2>4 DEF R!RNext
<1>4. ASSUME NEW s \in Procs, NEW dest \in Procs, s # dest, NEW x \in Data,
             SendQueue(s, dest, x)
      PROVE  rstep
  <2>1. /\ p_flags[s] = {}
        /\ p_flags' = [p_flags EXCEPT ![s] = {"SENDING"}]
        /\ p_sendto' = [p_sendto EXCEPT ![s] = dest]
        /\ UNCHANGED <<p_recvfrom, has_int_msg>>
    BY <1>0, <1>4, SendQueueEffect
  <2>2. Waits' = [Waits EXCEPT ![s] = R!SendTo(dest)]
    BY <1>0, <2>1, WaitChanges
  <2>3. /\ mem' = [mem EXCEPT ![s] = R!Message(s, x)]
        /\ ~ Awaits(dest, s)
    BY <1>4 DEF SendQueue, Enqueue, Message, R!Message
  <2>4. R!WaitToSend(s, dest, x)
    BY <1>c, <2>1, <2>2, <2>3 DEF R!WaitToSend, Waits
  <2> QED BY <1>4, <2>4 DEF R!RNext
<1>5. ASSUME NEW r \in Procs, NEW src \in Sources, ReceiveInterrupt(r, src)
      PROVE  rstep
  <2>1. /\ p_flags[r] = {} /\ has_int_msg[r]
        /\ has_int_msg' = [has_int_msg EXCEPT ![r] = FALSE]
        /\ mem' = [mem EXCEPT ![r] = R!IntMessage]
        /\ UNCHANGED <<p_flags, p_sendto, p_recvfrom>>
    BY <1>5 DEF ReceiveInterrupt, Running, Runnable, SeesInterrupt,
                IntMessage, R!IntMessage, Message, R!Message
  <2>2. Waits' = Waits
    BY <2>1 DEF Waits, WaitOf, Sending, Receiving
  <2>3. r \in Notified /\ Notified' = Notified \ {r}
    BY <1>0, <2>1
  <2>4. R!SeeInterrupt(r)
    BY <1>c, <2>1, <2>2, <2>3 DEF R!SeeInterrupt, Waits
  <2> QED BY <2>4 DEF R!RNext
<1>6. ASSUME NEW r \in Procs, NEW src \in Sources, r # src, ReceiveQueued(r, src)
      PROVE  rstep
  <2>1. PICK from \in Procs :
           /\ p_flags[from] = {"SENDING"} /\ p_sendto[from] = r
           /\ p_flags' = [p_flags EXCEPT ![from] = {}]
           /\ p_sendto' = [p_sendto EXCEPT ![from] = NO_TASK]
           /\ mem' = [mem EXCEPT ![r] = mem[from]]
           /\ UNCHANGED <<p_recvfrom, has_int_msg>>
    BY <1>0, <1>6, ReceiveQueuedEffect
  <2>2. Waits' = [Waits EXCEPT ![from] = R!Ready]
    BY <1>0, <2>1, WaitChanges
  <2>3. p_flags[r] = {} /\ Sending(from) /\ r # from
    BY <1>6, <2>1 DEF ReceiveQueued, Running, Runnable, Sending
  <2>4. R!PickUp(r, from)
    BY <1>c, <2>1, <2>2, <2>3 DEF R!PickUp, Waits
  <2> QED BY <2>3, <2>4 DEF R!RNext
<1>7. ASSUME NEW r \in Procs, NEW src \in Sources, r # src, ReceiveBlocks(r, src)
      PROVE  rstep
  <2>1. /\ p_flags[r] = {}
        /\ p_flags' = [p_flags EXCEPT ![r] = {"RECEIVING"}]
        /\ p_recvfrom' = [p_recvfrom EXCEPT ![r] = src]
        /\ UNCHANGED <<p_sendto, has_int_msg>>
    BY <1>0, <1>7, ReceiveBlocksEffect
  <2>2. Waits' = [Waits EXCEPT ![r] = R!RecvFrom(src)]
    BY <1>0, <2>1, WaitChanges
  <2>3. mem' = [mem EXCEPT ![r].source = r]
    BY <1>7 DEF ReceiveBlocks, StartReceiving
  <2>4. ASSUME NEW s \in Procs, src \in {s, ANY} PROVE Waits[s] # R!SendTo(r)
    <3>1. ASSUME Sending(s), p_sendto[s] = r PROVE FALSE
      <4>1. PICK i \in DOMAIN q_sending[r] : q_sending[r][i] = s
        BY <1>0, <3>1 DEF QueuesHoldSenders
      <4>2. i \in 1 .. Len(q_sending[r]) /\ 1 \in DOMAIN q_sending[r]
        BY <1>0, <4>1 DEF TypeOK
      <4>3. CASE src = ANY
        BY <1>7, <4>2, <4>3 DEF ReceiveBlocks, TakenFrom
      <4>4. CASE src # ANY
        BY <1>7, <2>4, <3>1, <4>1, <4>4 DEF ReceiveBlocks, TakenFrom
      <4> QED BY <4>3, <4>4
    <3> QED BY <1>c, <3>1
  <2>5. src \in {ANY, INTERRUPT} => r \notin Notified
    BY <1>7 DEF ReceiveBlocks, SeesInterrupt
  <2>6. R!WaitToReceive(r, src)
    BY <1>c, <2>1, <2>2, <2>3, <2>4, <2>5 DEF R!WaitToReceive, Waits
  <2> QED BY <1>7, <2>6 DEF R!RNext, Sources
<1>8. ASSUME NEW t \in IrqTasks, InformInt(t) PROVE rstep
  <2>0. t \in Procs
    BY IpcAssumption
  <2>1. CASE Awaits(t, INTERRUPT)
    <3>1. /\ p_flags' = [p_flags EXCEPT ![t] = {}]
          /\ p_recvfrom' = [p_recvfrom EXCEPT ![t] = NO_TASK]
          /\ has_int_msg' = [has_int_msg EXCEPT ![t] = FALSE]
          /\ UNCHANGED p_sendto
      BY <1>0, <1>8, <2>0, <2>1, InformEffect
    <3>2. Waits' = [Waits EXCEPT ![t] = R!Ready]
      BY <1>0, <2>0, <3>1, WaitChanges
    <3>3. mem' = [mem EXCEPT ![t] = R!IntMessage]
      BY <1>8, <2>1 DEF InformInt, IntMessage, R!IntMessage, Message, R!Message
    <3>4. ~has_int_msg[t]
      BY <2>1 DEF IInv, NoMissedRendezvous
    <3>5. Notified' = Notified
      BY <1>0, <3>1, <3>4
    <3>6. R!Notify(t)
      BY <1>c, <2>0, <2>1, <3>2, <3>3, <3>5 DEF R!Notify, Waits
    <3> QED BY <3>6 DEF R!RNext
  <2>2. CASE ~Awaits(t, INTERRUPT)
    <3>1. /\ UNCHANGED <<p_flags, p_sendto, p_recvfrom, mem>>
          /\ has_int_msg' = [has_int_msg EXCEPT ![t] = TRUE]
      BY <1>8, <2>2 DEF InformInt
    <3>2. Waits' = Waits
      BY <3>1 DEF Waits, WaitOf, Sending, Receiving
    <3>3. Notified' = Notified \union {t}
      BY <1>0, <2>0, <3>1
    <3>4. R!Notify(t)
      BY <1>c, <2>0, <2>2, <3>1, <3>2, <3>3 DEF R!Notify, Waits
    <3> QED BY <3>4 DEF R!RNext
  <2> QED BY <2>1, <2>2
<1> QED
  BY <1>1, <1>2, <1>3, <1>4, <1>5, <1>6, <1>7, <1>8
  DEF Next, Send, Receive

\* The kernel implements synchronous message passing, for any processes.
THEOREM Refinement == Spec => ImplementsRendezvous
<1>1. Init => R!RInit
  BY RefinementInit
<1>2. IInv /\ [Next]_ipcvars => [R!RNext]_(R!rvars)
  BY RefinementStep DEF R!rvars, Waits
<1> QED BY <1>1, <1>2, Invariance, PTL DEF Spec, ImplementsRendezvous, R!RSpec

-----------------------------------------------------------------------------
(* The system calls step by step, with interrupts inside them.             *)


SendStages == {"send_assert", "send_load", "send_copy", "send_clear", "send_flags"}
RecvStages == {"recv_int", "recv_int_assert", "recv_scan"}

\* t has called block() and its assertions are still to come.
Blocking(t) == kpc \in {"schedule", "assert"} /\ call.who = t

\* What the kernel holds of the call it is in.  The caller of a receive is not
\* blocked until the queue is searched; the destination of a message that is
\* being copied is receiving, or an interrupt has woken it.
CallInv ==
  /\ kpc \in Stages
  /\ kpc \in SendStages => /\ call.who \in Procs /\ call.other \in Procs /\ call.data \in Data
                           /\ p_flags[call.other] \in {{}, {"RECEIVING"}}
  /\ kpc \in RecvStages => /\ call.who \in Procs /\ call.other \in Sources
                           /\ call.other # call.who /\ p_flags[call.who] = {}
  /\ (kpc = "recv_scan" /\ call.other = INTERRUPT) =>
       call.who \in DiskTasks /\ Unanswered(call.who)
  /\ kpc \in {"schedule", "assert"} => call.who \in Procs

\* FieldsMatchFlags, but for the p_msg that msg_send has just cleared.
FieldsInv ==
  \A p \in Procs :
    /\ \/ p_msg[p] <=> ~Runnable(p)
       \/ kpc = "send_flags" /\ p = call.other /\ ~p_msg[p]
    /\ p_sendto[p] # NO_TASK <=> Sending(p)
    /\ p_recvfrom[p] # NO_TASK <=> Receiving(p)
    /\ p_sendto[p] # p /\ p_recvfrom[p] # p

\* NoMissedRendezvous, but for the interrupt that came between the test of
\* has_int_msg and the flag: the assertions after block() will find it.
NoMeeting == \A r, s \in Procs : ~ (Awaits(r, s) /\ Sending(s) /\ p_sendto[s] = r)

IntInv == \A t \in IrqTasks : Awaits(t, INTERRUPT) /\ has_int_msg[t] => Blocking(t)

DiskInv ==
  \A t \in DiskTasks :
    Receiving(t) /\ p_recvfrom[t] = INTERRUPT
      => t \in irq_due \/ (Blocking(t) /\ has_int_msg[t])

IrqInv == /\ TypeOK /\ QueuesHoldSenders /\ NoSendCycle
          /\ CallInv /\ FieldsInv /\ NoMeeting /\ IntInv /\ DiskInv

-----------------------------------------------------------------------------
(* Lemmas about the process table.                                         *)

table == <<p_flags, p_msg, p_recvfrom, p_sendto, q_sending>>

\* A step that writes no entry.
LEMMA TableKept ==
  ASSUME IrqInv, UNCHANGED table,
         kpc = "send_flags" => kpc' = kpc /\ call' = call
  PROVE  QueuesHoldSenders' /\ NoSendCycle' /\ FieldsInv' /\ NoMeeting'
<1> USE DEF IrqInv, table, Sending, Receiving, Runnable, Awaits
<1>1. QueuesHoldSenders'
  BY DEF QueuesHoldSenders
<1>2. NoSendCycle'
  BY DEF NoSendCycle
<1>3. FieldsInv'
  BY DEF FieldsInv
<1>4. NoMeeting'
  BY DEF NoMeeting
<1> QED BY <1>1, <1>2, <1>3, <1>4

\* A step that writes no entry, no has_int_msg and no irq_due, outside the
\* end of a blocking call.
LEMMA SignalsKept ==
  ASSUME IrqInv, UNCHANGED <<table, has_int_msg>>, irq_due \subseteq irq_due',
         \A t \in Procs : Blocking(t) => Blocking(t)'
  PROVE  IntInv' /\ DiskInv'
<1> USE IpcAssumption, IpcIrqAssumption DEF table
<1>1. IntInv'
  BY DEF IrqInv, IntInv, Receiving, Awaits
<1>2. DiskInv'
  BY DEF IrqInv, DiskInv, Receiving
<1> QED BY <1>1, <1>2

\* A receiver that is woken.
LEMMA WakeKeeps ==
  ASSUME IrqInv, NEW t \in Procs, p_flags[t] \in {{}, {"RECEIVING"}}, StopsReceiving(t),
         UNCHANGED <<p_sendto, q_sending>>,
         kpc = "send_flags" => (kpc' = kpc /\ call' = call) \/ t = call.other
  PROVE  /\ QueuesHoldSenders' /\ NoSendCycle' /\ FieldsInv' /\ NoMeeting'
         /\ p_flags' = [p_flags EXCEPT ![t] = {}]
         /\ p_recvfrom' = [p_recvfrom EXCEPT ![t] = NO_TASK]
         /\ p_msg' = [p_msg EXCEPT ![t] = FALSE]
<1>1. /\ p_flags' = [p_flags EXCEPT ![t] = {}]
      /\ p_recvfrom' = [p_recvfrom EXCEPT ![t] = NO_TASK]
      /\ p_msg' = [p_msg EXCEPT ![t] = FALSE]
  <2>1. {"RECEIVING"} \ {"RECEIVING"} = {} /\ {} \ {"RECEIVING"} = {}
    OBVIOUS
  <2> QED BY <2>1 DEF StopsReceiving
<1>2. /\ p_flags \in [Procs -> {{}, {"SENDING"}, {"RECEIVING"}}]
      /\ p_recvfrom \in [Procs -> Sources \union {NO_TASK}]
      /\ p_msg \in [Procs -> BOOLEAN]
  BY DEF IrqInv, TypeOK
<1>3. /\ p_flags'[t] = {} /\ p_recvfrom'[t] = NO_TASK /\ p_msg'[t] = FALSE
      /\ \A p \in Procs : p # t => /\ p_flags'[p] = p_flags[p] /\ p_msg'[p] = p_msg[p]
                                   /\ p_recvfrom'[p] = p_recvfrom[p]
  BY <1>1, <1>2
<1>4. \A p \in Procs : Sending(p)' <=> Sending(p)
  BY <1>3 DEF Sending
<1>5. QueuesHoldSenders' /\ NoSendCycle'
  BY <1>4 DEF IrqInv, QueuesHoldSenders, NoSendCycle
<1>6. FieldsInv'
  <2>1. ~Sending(t) /\ p_sendto[t] = NO_TASK
    BY DEF IrqInv, FieldsInv, Sending
  <2>2. t # NO_TASK
    BY IpcAssumption
  <2> QED BY <1>3, <2>1, <2>2 DEF IrqInv, FieldsInv, Sending, Receiving, Runnable
<1>7. NoMeeting'
  BY <1>3, <1>4 DEF IrqInv, NoMeeting, Awaits, Receiving
<1> QED BY <1>1, <1>5, <1>6, <1>7

-----------------------------------------------------------------------------
(* The processes and the clock.                                            *)

\* The clock lets another process run.
LEMMA ClockTickKeeps ==
  ASSUME IrqInv, ClockTick
  PROVE  IrqInv'
<1>1. UNCHANGED <<table, has_int_msg, irqvars>>
  BY DEF ClockTick, Schedule, table
<1>2. TypeOK'
  BY StepType DEF IrqInv, ClockTick, Next
<1>3. QueuesHoldSenders' /\ NoSendCycle' /\ FieldsInv' /\ NoMeeting'
  BY <1>1, TableKept DEF irqvars
<1>4. IntInv' /\ DiskInv'
  BY <1>1, SignalsKept DEF irqvars, Blocking
<1>5. CallInv'
  BY <1>1 DEF IrqInv, CallInv, table, irqvars, Unanswered
<1> QED BY <1>2, <1>3, <1>4, <1>5 DEF IrqInv

\* msg_send up to the test of the destination: its panic, its blocking, or the start of a delivery.
LEMMA SendCallKeeps ==
  ASSUME IrqInv, NEW s \in Procs, NEW dest \in Procs, NEW x \in Data, s # dest,
         SendCall(s, dest, x)
  PROVE  IrqInv'
<1>0. /\ kpc = "user"
      /\ p_flags \in [Procs -> {{}, {"SENDING"}, {"RECEIVING"}}]
      /\ p_sendto \in [Procs -> Procs \union {NO_TASK}]
      /\ p_msg \in [Procs -> BOOLEAN]
  BY DEF SendCall, At, IrqInv, TypeOK
<1>a. \A t : ~Blocking(t)
  BY <1>0 DEF Blocking
<1>1. CASE SendPanics(s, dest) /\ UNCHANGED irqvars
  <2>1. UNCHANGED <<table, has_int_msg, irqvars>>
    BY <1>1 DEF SendPanics, table
  <2>2. TypeOK'
    BY <1>1, StepType DEF IrqInv, Next, Send
  <2>3. QueuesHoldSenders' /\ NoSendCycle' /\ FieldsInv' /\ NoMeeting'
    BY <2>1, TableKept DEF irqvars
  <2>4. IntInv' /\ DiskInv'
    BY <2>1, SignalsKept DEF irqvars, Blocking
  <2>5. CallInv'
    BY <2>1 DEF IrqInv, CallInv, table, irqvars, Unanswered
  <2> QED BY <2>2, <2>3, <2>4, <2>5 DEF IrqInv
<1>2. CASE SendQueue(s, dest, x) /\ kpc' = "schedule" /\ call' = Call(s, dest, x)
           /\ UNCHANGED <<dest_ok, irq_due, failed>>
  <2>1. [Next]_ipcvars
    BY <1>2 DEF Next, Send
  <2>2. TypeOK' /\ QueuesHoldSenders' /\ NoSendCycle'
    BY <2>1, StepType, QueuesStep, CycleStep DEF IrqInv
  <2>3. /\ p_flags[s] = {}
        /\ p_flags' = [p_flags EXCEPT ![s] = {"SENDING"}]
        /\ p_sendto' = [p_sendto EXCEPT ![s] = dest]
        /\ p_msg' = [p_msg EXCEPT ![s] = TRUE]
        /\ UNCHANGED <<p_recvfrom, has_int_msg>>
    BY <1>2, SendQueueEffect DEF IrqInv
  <2>4. /\ p_flags'[s] = {"SENDING"} /\ p_sendto'[s] = dest /\ p_msg'[s] = TRUE
        /\ \A p \in Procs : p # s => /\ p_flags'[p] = p_flags[p] /\ p_msg'[p] = p_msg[p]
                                     /\ p_sendto'[p] = p_sendto[p]
    BY <1>0, <2>3
  <2>5. FieldsInv'
    <3>1. dest # NO_TASK /\ ~(kpc = "send_flags")
      BY <1>0, IpcAssumption
    <3>2. p_recvfrom[s] = NO_TASK /\ ~Receiving(s)
      BY <2>3 DEF IrqInv, FieldsInv, Receiving
    <3>3. /\ p_msg'[s] <=> ~Runnable(s)'
          /\ Sending(s)' /\ ~Receiving(s)' /\ p_sendto'[s] # NO_TASK /\ p_sendto'[s] # s
      BY <2>4, <3>1 DEF Runnable, Sending, Receiving
    <3>4. \A p \in Procs : p # s => /\ p_msg'[p] <=> ~Runnable(p)'
                                    /\ p_sendto'[p] # NO_TASK <=> Sending(p)'
                                    /\ p_recvfrom[p] # NO_TASK <=> Receiving(p)'
                                    /\ p_sendto'[p] # p
      BY <2>4, <3>1 DEF IrqInv, FieldsInv, Runnable, Sending, Receiving
    <3> QED BY <2>3, <3>2, <3>3, <3>4 DEF IrqInv, FieldsInv, Sending, Receiving, Runnable
  <2>6. NoMeeting'
    <3>1. ~Awaits(dest, s)
      BY <1>2 DEF SendQueue
    <3> QED BY <2>3, <2>4, <3>1 DEF IrqInv, NoMeeting, Awaits, Receiving, Sending
  <2>7. \A t \in Procs : Receiving(t)' => Receiving(t)
    BY <2>4 DEF Receiving
  <2>8. IntInv' /\ DiskInv'
    BY <1>2, <1>a, <2>3, <2>7, IpcAssumption, IpcIrqAssumption
    DEF IrqInv, IntInv, DiskInv, Awaits, Receiving
  <2>9. CallInv'
    BY <1>2 DEF CallInv, Stages, SendStages, RecvStages, Call
  <2> QED BY <2>2, <2>5, <2>6, <2>8, <2>9 DEF IrqInv
<1>3. CASE Awaits(dest, s) /\ kpc' = "send_assert" /\ call' = Call(s, dest, x)
           /\ UNCHANGED <<ipcvars, dest_ok, irq_due, failed>>
  <2>1. UNCHANGED <<table, has_int_msg, irq_due>>
    BY <1>3 DEF ipcvars, table
  <2>2. TypeOK'
    BY <1>3, StepType DEF IrqInv
  <2>3. QueuesHoldSenders' /\ NoSendCycle' /\ FieldsInv' /\ NoMeeting'
    BY <1>0, <2>1, TableKept
  <2>4. IntInv' /\ DiskInv'
    BY <1>a, <2>1, SignalsKept
  <2>5. p_flags[dest] = {"RECEIVING"}
    BY <1>0, <1>3 DEF Awaits, Receiving
  <2>6. CallInv'
    BY <1>3, <2>1, <2>5 DEF CallInv, Stages, SendStages, RecvStages, Call, table
  <2> QED BY <2>2, <2>3, <2>4, <2>6 DEF IrqInv
<1> QED BY <1>1, <1>2, <1>3 DEF SendCall

\* msg_receive up to the test of has_int_msg.
LEMMA ReceiveCallKeeps ==
  ASSUME IrqInv, NEW r \in Procs, NEW src \in Sources, r # src, ReceiveCall(r, src)
  PROVE  IrqInv'
<1>1. /\ kpc = "user" /\ p_flags[r] = {}
      /\ kpc' \in {"recv_int", "recv_scan"}
      /\ call' = Call(r, src, NO_TASK)
      /\ UNCHANGED <<ipcvars, irq_due>>
      /\ src = INTERRUPT => r \in DiskTasks /\ Unanswered(r)
  BY DEF ReceiveCall, At, Running, Runnable, Protocol
<1>2. UNCHANGED <<table, has_int_msg, irq_due>> /\ TypeOK'
  BY <1>1, StepType DEF IrqInv, ipcvars, table
<1>3. QueuesHoldSenders' /\ NoSendCycle' /\ FieldsInv' /\ NoMeeting'
  BY <1>1, <1>2, TableKept
<1>4. IntInv' /\ DiskInv'
  BY <1>1, <1>2, SignalsKept DEF Blocking
<1>5. CallInv'
  BY <1>1, <1>2 DEF CallInv, Stages, SendStages, RecvStages, Call, table, Unanswered
<1> QED BY <1>2, <1>3, <1>4, <1>5 DEF IrqInv

-----------------------------------------------------------------------------
(* The stages of msg_send.                                                 *)

\* A stage of a send that writes no entry.
LEMMA SendStageKeeps ==
  ASSUME IrqInv, kpc \in SendStages \ {"send_flags"}, kpc' \in SendStages \ {"send_flags"},
         UNCHANGED <<table, has_int_msg, irq_due, call>>, TypeOK'
  PROVE  IrqInv'
<1>1. QueuesHoldSenders' /\ NoSendCycle' /\ FieldsInv' /\ NoMeeting'
  BY TableKept
<1>2. \A t : ~Blocking(t)
  BY DEF Blocking, SendStages
<1>3. IntInv' /\ DiskInv'
  BY <1>2, SignalsKept
<1>4. CallInv'
  BY DEF IrqInv, CallInv, Stages, SendStages, RecvStages, table
<1> QED BY <1>1, <1>3, <1>4 DEF IrqInv

\* The assertion on the destination, and the loading of its buffer.
LEMMA SendAssertKeeps ==
  ASSUME IrqInv, SendAssert \/ SendLoad
  PROVE  IrqInv'
<1>1. /\ kpc \in SendStages \ {"send_flags"} /\ kpc' \in SendStages \ {"send_flags"}
      /\ UNCHANGED <<ipcvars, irq_due, call>>
  BY DEF SendAssert, SendLoad, At, SendStages
<1>2. TypeOK' /\ UNCHANGED <<table, has_int_msg>>
  BY <1>1, StepType DEF IrqInv, ipcvars, table
<1> QED BY <1>1, <1>2, SendStageKeeps

\* phys_copy writes memory only.
LEMMA SendCopyKeeps ==
  ASSUME IrqInv, SendCopy
  PROVE  IrqInv'
<1> DEFINE m == Message(call.who, call.data)
<1>1. /\ kpc = "send_copy" /\ kpc' = "send_clear"
      /\ mem' = [p \in Procs |-> IF p = call.who \/ (p = call.other /\ dest_ok)
                                 THEN m ELSE mem[p]]
      /\ UNCHANGED <<p_flags, p_msg, p_recvfrom, p_sendto, q_sending, has_int_msg,
                     p_proc_ready, panicked, irq_due, call>>
  BY DEF SendCopy, At
<1>2. m \in Messages
  BY <1>1, MessageType DEF IrqInv, CallInv, SendStages
<1>3. mem' \in [Procs -> Messages]
  <2> HIDE DEF m
  <2> QED BY <1>1, <1>2 DEF IrqInv, TypeOK
<1>4. TypeOK'
  BY <1>1, <1>3 DEF IrqInv, TypeOK
<1> QED BY <1>1, <1>4, SendStageKeeps DEF SendStages, table

\* p_msg is cleared before the flag: the exception in FieldsInv begins.
LEMMA SendClearKeeps ==
  ASSUME IrqInv, SendClear
  PROVE  IrqInv'
<1>0. PICK d : d = call.other
  OBVIOUS
<1>1. /\ kpc = "send_clear" /\ kpc' = "send_flags" /\ d \in Procs
      /\ p_msg' = [p_msg EXCEPT ![d] = FALSE]
      /\ UNCHANGED <<p_flags, p_recvfrom, p_sendto, q_sending, has_int_msg, mem,
                     p_proc_ready, panicked, irq_due, call>>
  BY <1>0 DEF SendClear, At, IrqInv, CallInv, SendStages
<1>2. p_msg \in [Procs -> BOOLEAN]
  BY DEF IrqInv, TypeOK
<1>3. /\ p_msg' \in [Procs -> BOOLEAN] /\ p_msg'[d] = FALSE
      /\ \A p \in Procs : p # d => p_msg'[p] = p_msg[p]
  BY <1>1, <1>2
<1>4. TypeOK'
  BY <1>1, <1>3 DEF IrqInv, TypeOK
<1>5. QueuesHoldSenders' /\ NoSendCycle' /\ NoMeeting'
  BY <1>1 DEF IrqInv, QueuesHoldSenders, NoSendCycle, NoMeeting, Sending, Receiving, Awaits
<1>6. FieldsInv'
  <2>1. \A p \in Procs : p # d => (p_msg[p] <=> ~Runnable(p)')
    BY <1>1 DEF IrqInv, FieldsInv, Runnable
  <2>2. ASSUME NEW p \in Procs
        PROVE  \/ p_msg'[p] <=> ~Runnable(p)'
               \/ kpc' = "send_flags" /\ p = call'.other /\ ~p_msg'[p]
    <3>1. CASE p = d
      BY <1>0, <1>1, <1>3, <3>1
    <3>2. CASE p # d
      <4>1. p_msg[p] <=> ~Runnable(p)'
        BY <2>1, <3>2
      <4>2. p_msg'[p] = p_msg[p]
        BY <1>3, <3>2
      <4> QED BY <4>1, <4>2
    <3> QED BY <3>1, <3>2
  <2> QED BY <1>1, <2>2 DEF IrqInv, FieldsInv, Runnable, Sending, Receiving
<1>7. IntInv' /\ DiskInv'
  BY <1>1 DEF IrqInv, IntInv, DiskInv, Awaits, Receiving, Blocking
<1>8. CallInv'
  BY <1>1 DEF IrqInv, CallInv, Stages, SendStages, RecvStages
<1> QED BY <1>4, <1>5, <1>6, <1>7, <1>8 DEF IrqInv

\* The flag and p_recvfrom follow: the exception in FieldsInv ends.
LEMMA SendFlagsKeeps ==
  ASSUME IrqInv, SendFlags
  PROVE  IrqInv'
<1>0. PICK d : d = call.other
  OBVIOUS
<1>1. /\ kpc = "send_flags" /\ kpc' = "user" /\ d \in Procs
      /\ StopsReceiving(d) /\ p_flags[d] \in {{}, {"RECEIVING"}}
      /\ UNCHANGED <<p_sendto, q_sending, has_int_msg, mem, p_proc_ready, panicked, irq_due>>
  BY <1>0 DEF SendFlags, At, IrqInv, CallInv, SendStages
<1>2. /\ QueuesHoldSenders' /\ NoSendCycle' /\ FieldsInv' /\ NoMeeting'
      /\ p_flags' = [p_flags EXCEPT ![d] = {}]
      /\ p_recvfrom' = [p_recvfrom EXCEPT ![d] = NO_TASK]
      /\ p_msg' = [p_msg EXCEPT ![d] = FALSE]
  BY <1>0, <1>1, WakeKeeps
<1>3. TypeOK'
  BY <1>1, <1>2 DEF IrqInv, TypeOK
<1>4. \A t \in Procs : Receiving(t)' => Receiving(t) /\ p_recvfrom'[t] = p_recvfrom[t]
  BY <1>1, <1>2 DEF Receiving, IrqInv, TypeOK
<1>5. \A t : ~Blocking(t)
  BY <1>1 DEF Blocking
<1>6. IntInv' /\ DiskInv'
  BY <1>1, <1>4, <1>5, IpcAssumption, IpcIrqAssumption
  DEF IrqInv, IntInv, DiskInv, Awaits, Receiving
<1>7. CallInv'
  BY <1>1 DEF CallInv, Stages, SendStages, RecvStages
<1> QED BY <1>2, <1>3, <1>6, <1>7 DEF IrqInv

-----------------------------------------------------------------------------
(* The stages of msg_receive and of block().                               *)

\* msg_receive finds has_int_msg, or finds out that it was set meanwhile.
LEMMA ReceiveIntKeeps ==
  ASSUME IrqInv, ReceiveInt \/ ReceiveIntAssert
  PROVE  IrqInv'
<1>0. PICK r : r = call.who
  OBVIOUS
<1>1. CASE ReceiveInt
  <2>1. /\ kpc = "recv_int" /\ kpc' = "recv_int_assert" /\ r \in Procs /\ p_flags[r] = {}
        /\ mem' = [mem EXCEPT ![r] = IntMessage]
        /\ has_int_msg' = [has_int_msg EXCEPT ![r] = FALSE]
        /\ UNCHANGED <<table, p_proc_ready, panicked, call, irq_due>>
    BY <1>0, <1>1 DEF ReceiveInt, At, IrqInv, CallInv, RecvStages, table
  <2>2. TypeOK'
    BY <2>1, MessageType DEF IrqInv, TypeOK, table
  <2>3. QueuesHoldSenders' /\ NoSendCycle' /\ FieldsInv' /\ NoMeeting'
    BY <2>1, TableKept
  <2>4. \A t \in Procs : has_int_msg'[t] => has_int_msg[t]
    BY <2>1 DEF IrqInv, TypeOK
  <2>5. \A t : ~Blocking(t)
    BY <2>1 DEF Blocking
  <2>6. IntInv' /\ DiskInv'
    BY <2>1, <2>4, <2>5, IpcAssumption, IpcIrqAssumption
    DEF IrqInv, IntInv, DiskInv, Awaits, Receiving, table
  <2>7. CallInv'
    BY <2>1 DEF IrqInv, CallInv, Stages, SendStages, RecvStages, table
  <2> QED BY <2>2, <2>3, <2>6, <2>7 DEF IrqInv
<1>2. CASE ReceiveIntAssert
  <2>1. /\ kpc = "recv_int_assert"
        /\ (kpc' = kpc /\ call' = call) \/ kpc' = "user"
        /\ UNCHANGED <<ipcvars, irq_due>>
    BY <1>2 DEF ReceiveIntAssert, At
  <2>2. UNCHANGED <<table, has_int_msg>> /\ TypeOK'
    BY <2>1, StepType DEF IrqInv, ipcvars, table
  <2>3. QueuesHoldSenders' /\ NoSendCycle' /\ FieldsInv' /\ NoMeeting'
    BY <2>1, <2>2, TableKept
  <2>4. IntInv' /\ DiskInv'
    BY <2>1, <2>2, SignalsKept DEF Blocking
  <2>5. CallInv'
    BY <2>1, <2>2 DEF IrqInv, CallInv, Stages, SendStages, RecvStages, table
  <2> QED BY <2>2, <2>3, <2>4, <2>5 DEF IrqInv
<1> QED BY <1>1, <1>2

\* msg_receive takes a sender from its queue or blocks.
LEMMA ReceiveScanKeeps ==
  ASSUME IrqInv, ReceiveScan
  PROVE  IrqInv'
<1>0. PICK r, src : r = call.who /\ src = call.other
  OBVIOUS
<1>1. /\ kpc = "recv_scan" /\ r \in Procs /\ src \in Sources /\ src # r /\ p_flags[r] = {}
      /\ src = INTERRUPT => r \in DiskTasks /\ Unanswered(r)
      /\ UNCHANGED <<has_int_msg, p_proc_ready, panicked, irq_due>>
  BY <1>0 DEF ReceiveScan, At, IrqInv, CallInv, RecvStages
<1>2. /\ p_flags \in [Procs -> {{}, {"SENDING"}, {"RECEIVING"}}]
      /\ p_sendto \in [Procs -> Procs \union {NO_TASK}]
      /\ p_recvfrom \in [Procs -> Sources \union {NO_TASK}]
      /\ p_msg \in [Procs -> BOOLEAN]
      /\ q_sending \in [Procs -> Seq(Procs)]
      /\ mem \in [Procs -> Messages]
  BY DEF IrqInv, TypeOK
<1>3. \A t : ~Blocking(t)
  BY <1>1 DEF Blocking
<1>4. CASE (\E i \in TakenFrom(r, src) : TakeFrom(r, i)) /\ kpc' = "user"
  <2>1. PICK i \in DOMAIN q_sending[r], from \in Procs :
           /\ from = q_sending[r][i]
           /\ p_flags[from] = {"SENDING"} /\ p_sendto[from] = r
           /\ p_flags' = [p_flags EXCEPT ![from] = {}]
           /\ p_sendto' = [p_sendto EXCEPT ![from] = NO_TASK]
           /\ p_msg' = [p_msg EXCEPT ![from] = FALSE]
           /\ q_sending' = [q_sending EXCEPT ![r] = Unlink(@, i)]
           /\ mem' = [mem EXCEPT ![r] = mem[from]]
           /\ UNCHANGED p_recvfrom
    BY <1>1, <1>4, TakeEffect DEF IrqInv
  <2>2. /\ p_flags'[from] = {} /\ p_sendto'[from] = NO_TASK /\ p_msg'[from] = FALSE
        /\ \A p \in Procs : p # from => /\ p_flags'[p] = p_flags[p] /\ p_msg'[p] = p_msg[p]
                                        /\ p_sendto'[p] = p_sendto[p]
    BY <1>2, <2>1
  <2>3. TypeOK'
    <3>1. Unlink(q_sending[r], i) \in Seq(Procs)
      BY <1>1, <1>2, UnlinkType
    <3>2. q_sending' \in [Procs -> Seq(Procs)] /\ mem' \in [Procs -> Messages]
      BY <1>1, <1>2, <2>1, <3>1
    <3>3. /\ p_flags' \in [Procs -> {{}, {"SENDING"}, {"RECEIVING"}}]
          /\ p_msg' \in [Procs -> BOOLEAN]
          /\ p_sendto' \in [Procs -> Procs \union {NO_TASK}]
      BY <1>2, <2>1
    <3> QED BY <1>1, <2>1, <3>2, <3>3 DEF IrqInv, TypeOK
  <2>4. QueuesHoldSenders'
    BY <1>1, <2>1, UnlinkKeepsQueues DEF IrqInv
  <2>5. NoSendCycle'
    <3>1. \A p \in Procs : Sending(p)' => Sending(p) /\ p_sendto'[p] = p_sendto[p]
      BY <2>2 DEF Sending
    <3> QED BY <3>1 DEF IrqInv, NoSendCycle
  <2>6. FieldsInv'
    <3>1. p_recvfrom[from] = NO_TASK
      BY <2>1 DEF IrqInv, FieldsInv, Receiving
    <3>2. from # NO_TASK
      BY IpcAssumption
    <3> QED BY <1>1, <2>1, <2>2, <3>1, <3>2
            DEF IrqInv, FieldsInv, Sending, Receiving, Runnable
  <2>7. \A t \in Procs : Receiving(t)' => Receiving(t)
    BY <2>2 DEF Receiving
  <2>8. NoMeeting'
    BY <2>1, <2>2, <2>7 DEF IrqInv, NoMeeting, Sending, Awaits
  <2>9. IntInv' /\ DiskInv'
    BY <1>1, <1>3, <2>1, <2>7, IpcAssumption, IpcIrqAssumption
    DEF IrqInv, IntInv, DiskInv, Awaits
  <2>10. CallInv'
    BY <1>4 DEF CallInv, Stages, SendStages, RecvStages
  <2> QED BY <2>3, <2>4, <2>5, <2>6, <2>8, <2>9, <2>10 DEF IrqInv
<1>5. CASE TakenFrom(r, src) = {} /\ StartReceiving(r, src) /\ kpc' = "schedule"
           /\ call' = call
  <2>1. /\ p_flags' = [p_flags EXCEPT ![r] = {"RECEIVING"}]
        /\ p_msg' = [p_msg EXCEPT ![r] = TRUE]
        /\ p_recvfrom' = [p_recvfrom EXCEPT ![r] = src]
        /\ mem' = [mem EXCEPT ![r].source = r]
        /\ UNCHANGED <<p_sendto, q_sending>>
    BY <1>1, <1>2, <1>5 DEF StartReceiving
  <2>2. /\ p_flags'[r] = {"RECEIVING"} /\ p_recvfrom'[r] = src /\ p_msg'[r] = TRUE
        /\ \A p \in Procs : p # r => /\ p_flags'[p] = p_flags[p] /\ p_msg'[p] = p_msg[p]
                                     /\ p_recvfrom'[p] = p_recvfrom[p]
    BY <1>1, <1>2, <2>1
  <2>3. TypeOK'
    <3>1. [mem[r] EXCEPT !.source = r] \in Messages
      BY <1>1, <1>2, MessageType
    <3>2. mem' \in [Procs -> Messages]
      BY <1>1, <1>2, <2>1, <3>1
    <3>3. /\ p_flags' \in [Procs -> {{}, {"SENDING"}, {"RECEIVING"}}]
          /\ p_msg' \in [Procs -> BOOLEAN]
          /\ p_recvfrom' \in [Procs -> Sources \union {NO_TASK}]
      BY <1>1, <1>2, <2>1
    <3> QED BY <1>1, <2>1, <3>2, <3>3 DEF IrqInv, TypeOK
  <2>4. \A p \in Procs : Sending(p)' <=> Sending(p)
    BY <1>1, <2>2 DEF Sending
  <2>5. QueuesHoldSenders' /\ NoSendCycle'
    BY <2>1, <2>4 DEF IrqInv, QueuesHoldSenders, NoSendCycle
  <2>6. FieldsInv'
    <3>1. src # NO_TASK /\ p_sendto[r] = NO_TASK
      BY <1>1, IpcAssumption DEF IrqInv, FieldsInv, Sources, Sending
    <3> QED BY <1>1, <2>1, <2>2, <3>1 DEF IrqInv, FieldsInv, Sending, Receiving, Runnable
  <2>7. NoMeeting'
    <3>1. ASSUME NEW s \in Procs, src \in {s, ANY}, Sending(s), p_sendto[s] = r
          PROVE  FALSE
      BY <1>1, <1>5, <3>1, NobodyQueued DEF IrqInv
    <3> QED BY <2>1, <2>2, <2>4, <3>1 DEF IrqInv, NoMeeting, Awaits, Receiving
  <2>8. IntInv' /\ DiskInv'
    <3>1. Blocking(r)'
      BY <1>0, <1>5 DEF Blocking
    <3>2. \A t \in Procs : t # r => (Receiving(t)' <=> Receiving(t))
      BY <2>2 DEF Receiving
    <3>3. IntInv'
      BY <1>1, <1>3, <2>2, <3>1, <3>2, IpcAssumption DEF IrqInv, IntInv, Awaits
    <3>4. DiskInv'
      <4>1. SUFFICES ASSUME NEW t \in DiskTasks, Receiving(t)', p_recvfrom'[t] = INTERRUPT
                     PROVE  t \in irq_due \/ (Blocking(t)' /\ has_int_msg[t])
        BY <1>1 DEF DiskInv
      <4>2. CASE t = r
        BY <1>1, <2>2, <3>1, <4>1, <4>2 DEF Unanswered
      <4>3. CASE t # r
        BY <1>3, <2>2, <3>2, <4>1, <4>3, IpcAssumption, IpcIrqAssumption DEF IrqInv, DiskInv
      <4> QED BY <4>2, <4>3
    <3> QED BY <3>3, <3>4
  <2>9. CallInv'
    BY <1>0, <1>1, <1>5 DEF CallInv, Stages, SendStages, RecvStages
  <2> QED BY <2>3, <2>5, <2>6, <2>7, <2>8, <2>9 DEF IrqInv
<1> QED BY <1>0, <1>4, <1>5 DEF ReceiveScan

\* schedule() in block().
LEMMA BlockScheduleKeeps ==
  ASSUME IrqInv, BlockSchedule
  PROVE  IrqInv'
<1>1. /\ kpc = "schedule" /\ kpc' = "assert" /\ call' = call /\ UNCHANGED irq_due
      /\ UNCHANGED <<table, has_int_msg>>
  BY DEF BlockSchedule, At, Schedule, table
<1>2. TypeOK'
  BY StepType DEF IrqInv, BlockSchedule, Next
<1>3. QueuesHoldSenders' /\ NoSendCycle' /\ FieldsInv' /\ NoMeeting'
  BY <1>1, TableKept
<1>4. IntInv' /\ DiskInv'
  BY <1>1, SignalsKept DEF Blocking
<1>5. CallInv'
  BY <1>1 DEF IrqInv, CallInv, Stages, SendStages, RecvStages
<1> QED BY <1>2, <1>3, <1>4, <1>5 DEF IrqInv

\* The assertions find the interrupt that came too early for the flag.
LEMMA BlockAssertKeeps ==
  ASSUME IrqInv, BlockAssert
  PROVE  IrqInv'
<1>0. PICK r : r = call.who
  OBVIOUS
<1>1. /\ kpc = "assert" /\ r \in Procs /\ UNCHANGED <<ipcvars, irq_due>>
      /\ \/ kpc' = kpc /\ call' = call
         \/ kpc' = "user" /\ BlockFailure(r) = "none"
  BY <1>0 DEF BlockAssert, At, IrqInv, CallInv
<1>2. UNCHANGED <<table, has_int_msg>> /\ TypeOK'
  BY <1>1, StepType DEF IrqInv, ipcvars, table
<1>3. QueuesHoldSenders' /\ NoSendCycle' /\ FieldsInv' /\ NoMeeting'
  BY <1>1, <1>2, TableKept
<1>4. IntInv' /\ DiskInv'
  <2>1. CASE kpc' = kpc /\ call' = call
    BY <1>1, <1>2, <2>1, SignalsKept DEF Blocking
  <2>2. CASE BlockFailure(r) = "none"
    <3>1. ~Receiving(r) \/ ~has_int_msg[r]
      <4>1. CASE p_sendto[r] # NO_TASK
        <5>1. Sending(r)
          BY <1>1, <4>1 DEF IrqInv, FieldsInv
        <5>2. p_flags[r] = {"SENDING"}
          BY <1>1, <5>1 DEF IrqInv, TypeOK, Sending
        <5> QED BY <5>2 DEF Receiving
      <4>2. CASE p_sendto[r] = NO_TASK
        BY <2>2, <4>2 DEF BlockFailure
      <4> QED BY <4>1, <4>2
    <3>2. \A t : Blocking(t) => t = r
      BY <1>0 DEF Blocking
    <3> QED BY <1>1, <1>2, <3>1, <3>2
            DEF IrqInv, IntInv, DiskInv, Awaits, Receiving, table
  <2> QED BY <1>1, <2>1, <2>2
<1>5. CallInv'
  BY <1>1, <1>2 DEF IrqInv, CallInv, Stages, SendStages, RecvStages, table
<1> QED BY <1>2, <1>3, <1>4, <1>5 DEF IrqInv

-----------------------------------------------------------------------------
(* The devices and their interrupts.                                       *)

\* Devices make their interrupts due.
LEMMA DevicesKeep ==
  ASSUME IrqInv, NEW t \in IrqTasks, DiskCommand(t) \/ KeyPress(t) \/ KeyTaken(t)
  PROVE  IrqInv'
<1>1. /\ UNCHANGED <<ipcvars, kpc, call>>
      /\ \/ irq_due' = irq_due \union {t}
         \/ irq_due' = irq_due \ {t} /\ t \notin DiskTasks /\ kpc = "user"
  BY DEF DiskCommand, KeyPress, KeyTaken, At
<1>2. UNCHANGED <<table, has_int_msg>> /\ TypeOK'
  BY <1>1, StepType DEF IrqInv, ipcvars, table
<1>3. QueuesHoldSenders' /\ NoSendCycle' /\ FieldsInv' /\ NoMeeting'
  BY <1>1, <1>2, TableKept
<1>4. \A d \in DiskTasks : d \in irq_due => d \in irq_due'
  BY <1>1
<1>5. IntInv' /\ DiskInv'
  BY <1>1, <1>2, <1>4, IpcIrqAssumption
  DEF IrqInv, IntInv, DiskInv, Blocking, Awaits, Receiving, table
<1>6. CallInv'
  BY <1>1, <1>2, <1>4 DEF IrqInv, CallInv, Unanswered, table
<1> QED BY <1>2, <1>3, <1>5, <1>6 DEF IrqInv

\* inform_int wakes a task or leaves has_int_msg, between any two steps of a call.
LEMMA InterruptKeeps ==
  ASSUME IrqInv, NEW t \in IrqTasks, Interrupt(t)
  PROVE  IrqInv'
<1>1. /\ t \in Procs
      /\ p_flags \in [Procs -> {{}, {"SENDING"}, {"RECEIVING"}}]
      /\ p_recvfrom \in [Procs -> Sources \union {NO_TASK}]
      /\ p_msg \in [Procs -> BOOLEAN] /\ has_int_msg \in [Procs -> BOOLEAN]
  BY IpcAssumption DEF IrqInv, TypeOK
<1>2. /\ irq_due' = IF t \in DiskTasks THEN irq_due \ {t} ELSE irq_due
      /\ UNCHANGED <<p_sendto, q_sending, p_proc_ready, panicked, kpc, call>>
  BY DEF Interrupt
<1>3. CASE Awaits(t, INTERRUPT)
  <2>1. /\ StopsReceiving(t)
        /\ mem' = IF p_msg[t] THEN [mem EXCEPT ![t] = IntMessage] ELSE mem
        /\ has_int_msg' = [has_int_msg EXCEPT ![t] = FALSE]
    BY <1>3 DEF Interrupt
  <2>2. p_flags[t] = {"RECEIVING"}
    BY <1>1, <1>3 DEF Awaits, Receiving
  <2>3. /\ QueuesHoldSenders' /\ NoSendCycle' /\ FieldsInv' /\ NoMeeting'
        /\ p_flags' = [p_flags EXCEPT ![t] = {}]
        /\ p_recvfrom' = [p_recvfrom EXCEPT ![t] = NO_TASK]
        /\ p_msg' = [p_msg EXCEPT ![t] = FALSE]
    BY <1>1, <1>2, <2>1, <2>2, WakeKeeps
  <2>4. TypeOK'
    <3>1. mem' \in [Procs -> Messages]
      BY <1>1, <2>1, MessageType DEF IrqInv, TypeOK
    <3>2. /\ p_flags' \in [Procs -> {{}, {"SENDING"}, {"RECEIVING"}}]
          /\ p_recvfrom' \in [Procs -> Sources \union {NO_TASK}]
          /\ p_msg' \in [Procs -> BOOLEAN] /\ has_int_msg' \in [Procs -> BOOLEAN]
      BY <1>1, <2>1, <2>3
    <3> QED BY <1>2, <3>1, <3>2 DEF IrqInv, TypeOK
  <2>5. /\ ~Receiving(t)' /\ p_flags'[t] = {}
        /\ \A p \in Procs : p # t => /\ p_flags'[p] = p_flags[p]
                                     /\ p_recvfrom'[p] = p_recvfrom[p]
                                     /\ has_int_msg'[p] = has_int_msg[p]
    BY <1>1, <2>1, <2>3 DEF Receiving
  <2>6. IntInv' /\ DiskInv'
    BY <1>2, <2>5, IpcAssumption, IpcIrqAssumption
    DEF IrqInv, IntInv, DiskInv, Awaits, Receiving, Blocking
  <2>7. CallInv'
    <3>1. kpc \in SendStages => p_flags'[call.other] \in {{}, {"RECEIVING"}}
      BY <2>5 DEF IrqInv, CallInv
    <3>2. kpc \in RecvStages => p_flags'[call.who] = {} /\ call.who # t
      BY <2>2, <2>5 DEF IrqInv, CallInv
    <3>3. (kpc = "recv_scan" /\ call.other = INTERRUPT) => Unanswered(call.who)'
      BY <1>2, <2>5, <3>2 DEF IrqInv, CallInv, RecvStages, Unanswered
    <3> QED BY <1>2, <3>1, <3>2, <3>3 DEF IrqInv, CallInv, Unanswered
  <2> QED BY <2>3, <2>4, <2>6, <2>7 DEF IrqInv
<1>4. CASE ~Awaits(t, INTERRUPT)
  <2>1. /\ has_int_msg' = [has_int_msg EXCEPT ![t] = TRUE]
        /\ UNCHANGED <<table, mem>>
    BY <1>2, <1>4 DEF Interrupt, Remember, table
  <2>2. TypeOK'
    BY <1>1, <1>2, <2>1 DEF IrqInv, TypeOK, table
  <2>3. QueuesHoldSenders' /\ NoSendCycle' /\ FieldsInv' /\ NoMeeting'
    BY <1>2, <2>1, TableKept
  <2>4. has_int_msg'[t] /\ \A p \in Procs : p # t => has_int_msg'[p] = has_int_msg[p]
    BY <1>1, <2>1
  <2>5. IntInv'
    BY <1>2, <1>4, <2>1, <2>4, IpcAssumption
    DEF IrqInv, IntInv, Awaits, Receiving, Blocking, table
  <2>6. DiskInv'
    BY <1>2, <1>4, <2>1, <2>4, IpcAssumption, IpcIrqAssumption
    DEF IrqInv, DiskInv, Awaits, Receiving, Blocking, table
  <2>7. CallInv'
    <3>1. (kpc = "recv_scan" /\ call.other = INTERRUPT) => Unanswered(call.who)'
      BY <1>2, <2>4 DEF IrqInv, CallInv, RecvStages, Unanswered
    <3> QED BY <1>2, <2>1, <3>1 DEF IrqInv, CallInv, table
  <2> QED BY <2>2, <2>3, <2>5, <2>6, <2>7 DEF IrqInv
<1> QED BY <1>3, <1>4

-----------------------------------------------------------------------------
(* The specification.                                                      *)

\* The initial states satisfy IrqInv.
LEMMA IrqInitEstablishes ==
  ASSUME IrqInit
  PROVE  IrqInv
<1>1. TypeOK /\ FieldsMatchFlags /\ QueuesHoldSenders /\ NoMissedRendezvous /\ NoSendCycle
  BY InitInv DEF IrqInit, IInv
<1>2. kpc = "user" /\ \A p \in Procs : p_flags[p] = {}
  BY DEF IrqInit, Init
<1>3. CallInv
  BY <1>2 DEF CallInv, Stages, SendStages, RecvStages
<1>4. FieldsInv
  BY <1>1 DEF FieldsInv, FieldsMatchFlags
<1>5. NoMeeting /\ IntInv
  BY <1>1 DEF NoMissedRendezvous, NoMeeting, IntInv
<1>6. DiskInv
  BY <1>2, IpcAssumption, IpcIrqAssumption DEF DiskInv, Receiving
<1> QED BY <1>1, <1>3, <1>4, <1>5, <1>6 DEF IrqInv

\* Every step keeps IrqInv.
LEMMA IrqNextKeeps ==
  ASSUME IrqInv, [IrqNext]_allvars
  PROVE  IrqInv'
<1>1. CASE ClockTick
  BY <1>1, ClockTickKeeps
<1>2. ASSUME NEW s \in Procs, NEW dest \in Procs, NEW x \in Data, s # dest, SendCall(s, dest, x)
      PROVE  IrqInv'
  BY <1>2, SendCallKeeps
<1>3. ASSUME NEW r \in Procs, NEW src \in Sources, r # src, ReceiveCall(r, src)
      PROVE  IrqInv'
  BY <1>3, ReceiveCallKeeps
<1>4. CASE Kernel
  BY <1>4, SendAssertKeeps, SendCopyKeeps, SendClearKeeps, SendFlagsKeeps, ReceiveIntKeeps,
     ReceiveScanKeeps, BlockScheduleKeeps, BlockAssertKeeps DEF Kernel
<1>5. ASSUME NEW t \in IrqTasks, DiskCommand(t) \/ KeyPress(t) \/ KeyTaken(t)
      PROVE  IrqInv'
  BY <1>5, DevicesKeep
<1>6. ASSUME NEW t \in IrqTasks, Interrupt(t)
      PROVE  IrqInv'
  BY <1>6, InterruptKeeps
<1>7. CASE UNCHANGED allvars
  <2>1. UNCHANGED <<table, has_int_msg, irqvars>> /\ TypeOK'
    BY <1>7, StepType DEF IrqInv, allvars, ipcvars, table
  <2>2. QueuesHoldSenders' /\ NoSendCycle' /\ FieldsInv' /\ NoMeeting'
    BY <2>1, TableKept DEF irqvars
  <2>3. IntInv' /\ DiskInv'
    BY <2>1, SignalsKept DEF irqvars, Blocking
  <2>4. CallInv'
    BY <2>1 DEF IrqInv, CallInv, table, irqvars, Unanswered
  <2> QED BY <2>1, <2>2, <2>3, <2>4 DEF IrqInv
<1> QED BY <1>1, <1>2, <1>3, <1>4, <1>5, <1>6, <1>7 DEF IrqNext

\* IrqInv holds in every reachable state, for any processes, tasks with interrupts and data.
THEOREM IrqInvHolds == IrqSpec => []IrqInv
<1>1. IrqInit => IrqInv
  BY IrqInitEstablishes
<1>2. IrqInv /\ [IrqNext]_allvars => IrqInv'
  BY IrqNextKeeps
<1> QED BY <1>1, <1>2, PTL DEF IrqSpec

\* No interrupt inside a system call damages a sending queue or closes a cycle
\* of blocked senders.
THEOREM QueuesSurvive == IrqSpec => []QueuesSurviveInterrupts
<1>1. IrqInv => QueuesSurviveInterrupts
  BY DEF IrqInv, QueuesSurviveInterrupts
<1> QED BY <1>1, IrqInvHolds, PTL

\* The assertions after block() are complete: back in a process, with none
\* failed, the fields agree with the flags and no wakeup is lost.
THEOREM Consistency == IrqSpec => []ConsistentWhenBack
<1>1. IrqInv => ConsistentWhenBack
  <2>1. SUFFICES ASSUME IrqInv, kpc = "user"
                 PROVE  FieldsMatchFlags /\ NoMissedRendezvous
    BY DEF ConsistentWhenBack, At
  <2>2. FieldsMatchFlags
    BY <2>1 DEF IrqInv, FieldsInv, FieldsMatchFlags
  <2>3. NoMissedRendezvous
    BY <2>1 DEF IrqInv, NoMeeting, IntInv, Blocking, NoMissedRendezvous
  <2> QED BY <2>2, <2>3
<1> QED BY <1>1, IrqInvHolds, PTL

\* A disk task that is blocked until its interrupt has an interrupt to come.
THEOREM DiskInterruptsCome == IrqSpec => []DiskInterruptNotLost
<1>1. IrqInv => DiskInterruptNotLost
  BY DEF IrqInv, DiskInv, Blocking, DiskInterruptNotLost, At
<1> QED BY <1>1, IrqInvHolds, PTL

-----------------------------------------------------------------------------
(* A call that no interrupt disturbs is the atomic one.                    *)

\* What the steps of msg_send have tested still holds up to the copy.
DirectInv ==
  ~struck /\ kpc \in {"send_assert", "send_load", "send_copy"} =>
    /\ Running(call.who) /\ call.who # call.other
    /\ ~Deadlock(call.who, call.other) /\ Awaits(call.other, call.who)
    /\ kpc = "send_copy" => dest_ok

\* What msg_receive has tested still holds when it acts on it.
ReceiveInv ==
  ~struck /\ kpc \in {"recv_int", "recv_scan"} =>
    /\ Running(call.who)
    /\ SeesInterrupt(call.who, call.other) <=> kpc = "recv_int"

HistoryInv == DirectInv /\ ReceiveInv

\* A process that is blocked in a receive has its buffer.
LEMMA AwaitingHasBuffer ==
  ASSUME IrqInv, NEW p \in Procs, Receiving(p), kpc # "send_flags"
  PROVE  p_msg[p]
BY DEF IrqInv, FieldsInv, Receiving, Runnable

\* The initial states satisfy HistoryInv.
LEMMA HistoryInitEstablishes == HistoryInit => HistoryInv
BY DEF HistoryInit, IrqInit, HistoryInv, DirectInv, ReceiveInv

\* Every step keeps HistoryInv.
LEMMA HistoryNextKeeps ==
  ASSUME IrqInv, HistoryInv, [HistoryNext]_<<allvars, struck>>
  PROVE  HistoryInv'
<1> USE DEF HistoryInv
<1>a. ASSUME UNCHANGED <<ipcvars, kpc, call, dest_ok>>, ~struck' => ~struck
      PROVE  HistoryInv'
  BY <1>a DEF DirectInv, ReceiveInv, ipcvars, Running, Runnable, Deadlock, Sending,
              Awaits, Receiving, SeesInterrupt
<1>b. ASSUME kpc' \notin {"send_assert", "send_load", "send_copy", "recv_int", "recv_scan"}
      PROVE  HistoryInv'
  BY <1>b DEF DirectInv, ReceiveInv
<1>c. CASE UNCHANGED <<allvars, struck>>
  BY <1>a, <1>c DEF allvars, irqvars
<1>d. CASE HistoryNext /\ kpc' = kpc /\ kpc' # "user" /\ UNCHANGED <<call, dest_ok>>
  <2>1. CASE struck'
    BY <2>1 DEF DirectInv, ReceiveInv
  <2>2. CASE ~struck'
    BY <1>a, <1>d, <2>2 DEF HistoryNext
  <2> QED BY <2>1, <2>2
<1>e. CASE HistoryNext /\ ~(kpc' = kpc /\ kpc' # "user" /\ UNCHANGED <<call, dest_ok>>)
  <2>0. kpc' # "user" => (~struck' => ~struck)
    BY <1>e DEF HistoryNext
  <2>1. CASE ClockTick \/ \E t \in IrqTasks : DiskCommand(t) \/ KeyTaken(t)
    BY <1>b, <2>1 DEF ClockTick, DiskCommand, KeyTaken, At, irqvars
  <2>2. CASE \E t \in IrqTasks : KeyPress(t) \/ Interrupt(t)
    <3>1. UNCHANGED <<kpc, call, dest_ok>>
      BY <2>2 DEF KeyPress, Interrupt
    <3> QED BY <1>b, <1>e, <3>1
  <2>3. ASSUME NEW s \in Procs, NEW dest \in Procs, NEW x \in Data, s # dest,
               SendCall(s, dest, x)
        PROVE  HistoryInv'
    <3>1. CASE kpc' # "send_assert"
      BY <1>b, <2>3, <3>1 DEF SendCall, irqvars, At
    <3>2. CASE kpc' = "send_assert"
      <4>1. /\ Running(s) /\ ~Deadlock(s, dest) /\ Awaits(dest, s)
            /\ call' = Call(s, dest, x) /\ UNCHANGED ipcvars
        BY <2>3, <3>2 DEF SendCall, irqvars, At
      <4>2. call'.who = s /\ call'.other = dest
        BY <4>1 DEF Call
      <4> QED BY <2>3, <3>2, <4>1, <4>2
              DEF DirectInv, ReceiveInv, ipcvars, Running, Runnable, Deadlock, Sending,
                  Awaits, Receiving
    <3> QED BY <3>1, <3>2
  <2>4. ASSUME NEW r \in Procs, NEW src \in Sources, r # src, ReceiveCall(r, src)
        PROVE  HistoryInv'
    <3>1. /\ Running(r) /\ UNCHANGED ipcvars
          /\ kpc' = IF SeesInterrupt(r, src) THEN "recv_int" ELSE "recv_scan"
          /\ call' = Call(r, src, NO_TASK)
      BY <2>4 DEF ReceiveCall
    <3>2. call'.who = r /\ call'.other = src
      BY <3>1 DEF Call
    <3> QED BY <3>1, <3>2
            DEF DirectInv, ReceiveInv, ipcvars, Running, Runnable, SeesInterrupt
  <2>5. CASE SendAssert
    <3>1. /\ kpc = "send_assert" /\ UNCHANGED <<ipcvars, call, dest_ok>>
          /\ kpc' = "send_load"
      BY <1>e, <2>5 DEF SendAssert, At
    <3> QED BY <2>0, <3>1 DEF DirectInv, ReceiveInv, ipcvars, Running, Runnable, Deadlock,
                              Sending, Awaits, Receiving
  <2>6. CASE SendLoad
    <3>1. /\ kpc = "send_load" /\ kpc' = "send_copy" /\ UNCHANGED <<ipcvars, call>>
          /\ dest_ok' = p_msg[call.other]
      BY <2>6 DEF SendLoad, At
    <3>2. ASSUME ~struck'
          PROVE  /\ Running(call.who) /\ call.who # call.other
                 /\ ~Deadlock(call.who, call.other) /\ Awaits(call.other, call.who)
                 /\ dest_ok'
      <4>1. /\ Running(call.who) /\ call.who # call.other
            /\ ~Deadlock(call.who, call.other) /\ Awaits(call.other, call.who)
        BY <2>0, <3>1, <3>2 DEF DirectInv
      <4>2. call.other \in Procs /\ Receiving(call.other)
        BY <3>1, <4>1 DEF IrqInv, CallInv, SendStages, Awaits
      <4>3. p_msg[call.other]
        BY <3>1, <4>2, AwaitingHasBuffer
      <4> QED BY <3>1, <4>1, <4>3
    <3> QED BY <3>1, <3>2 DEF DirectInv, ReceiveInv, ipcvars, Running, Runnable, Deadlock,
                              Sending, Awaits, Receiving
  <2>7. CASE \/ SendCopy \/ SendClear \/ SendFlags \/ ReceiveInt \/ ReceiveIntAssert
             \/ ReceiveScan \/ BlockSchedule \/ BlockAssert
    <3>1. kpc' \notin {"send_assert", "send_load", "send_copy", "recv_int", "recv_scan"}
      BY <2>7 DEF SendCopy, SendClear, SendFlags, ReceiveInt, ReceiveIntAssert, ReceiveScan,
                  BlockSchedule, BlockAssert, At
    <3> QED BY <1>b, <3>1
  <2> QED BY <1>e, <2>1, <2>2, <2>3, <2>4, <2>5, <2>6, <2>7 DEF HistoryNext, IrqNext, Kernel
<1> QED BY <1>c, <1>d, <1>e

-----------------------------------------------------------------------------
(* The refinement mapping.                                                 *)

Copied == {"send_clear", "send_flags"}

\* Unless the message is copied and the rest of msg_send to come, the mapping
\* is the identity.
LEMMA BarIdentity ==
  /\ TypeOK /\ kpc \notin Copied
       => BarMsg = p_msg /\ BarFlags = p_flags /\ BarRecvfrom = p_recvfrom
  /\ TypeOK' /\ kpc' \notin Copied
       => BarMsg' = p_msg' /\ BarFlags' = p_flags' /\ BarRecvfrom' = p_recvfrom'
<1>1. ASSUME TypeOK, kpc \notin Copied
      PROVE  BarMsg = p_msg /\ BarFlags = p_flags /\ BarRecvfrom = p_recvfrom
  <2>1. \A p : ~Sent(p)
    BY <1>1 DEF Sent, Copied
  <2>2. /\ p_msg \in [Procs -> BOOLEAN]
        /\ p_flags \in [Procs -> {{}, {"SENDING"}, {"RECEIVING"}}]
        /\ p_recvfrom \in [Procs -> Sources \union {NO_TASK}]
    BY <1>1 DEF TypeOK
  <2>3. BarMsg = p_msg
    BY <2>1, <2>2, Zenon DEF BarMsg
  <2>4. BarFlags = p_flags /\ BarRecvfrom = p_recvfrom
    BY <2>1, <2>2 DEF BarFlags, BarRecvfrom
  <2> QED BY <2>3, <2>4
<1>2. ASSUME TypeOK', kpc' \notin Copied
      PROVE  BarMsg' = p_msg' /\ BarFlags' = p_flags' /\ BarRecvfrom' = p_recvfrom'
  <2>1. \A p : ~Sent(p)'
    BY <1>2 DEF Sent, Copied
  <2>2. /\ p_msg' \in [Procs -> BOOLEAN]
        /\ p_flags' \in [Procs -> {{}, {"SENDING"}, {"RECEIVING"}}]
        /\ p_recvfrom' \in [Procs -> Sources \union {NO_TASK}]
    BY <1>2 DEF TypeOK
  <2>3. BarMsg' = p_msg'
    BY <2>1, <2>2, Zenon DEF BarMsg
  <2>4. BarFlags' = p_flags' /\ BarRecvfrom' = p_recvfrom'
    BY <2>1, <2>2 DEF BarFlags, BarRecvfrom
  <2> QED BY <2>3, <2>4
<1> QED BY <1>1, <1>2

\* A step that changes neither the process table nor the mapping.
LEMMA BarUnchanged ==
  ASSUME UNCHANGED <<ipcvars, kpc, call>>
  PROVE  UNCHANGED Atomic!ipcvars
BY DEF ipcvars, Atomic!ipcvars, BarMsg, BarFlags, BarRecvfrom, Sent

\* The copy of the message is the atomic send.
LEMMA CopyIsSend ==
  ASSUME IrqInv, IrqInv', HistoryInv, ~struck, SendCopy
  PROVE  \E s, dest \in Procs : s # dest /\ Atomic!Send(s, dest)
<1>1. PICK s, dest, x : s = call.who /\ dest = call.other /\ x = call.data
  OBVIOUS
<1>2. /\ kpc = "send_copy" /\ kpc' = "send_clear" /\ call' = call
      /\ s \in Procs /\ dest \in Procs /\ x \in Data /\ s # dest
      /\ mem' = [p \in Procs |-> IF p = s \/ p = dest THEN Message(s, x) ELSE mem[p]]
      /\ UNCHANGED <<p_flags, p_msg, p_recvfrom, p_sendto, q_sending, has_int_msg,
                     p_proc_ready, panicked>>
      /\ Running(s) /\ ~Deadlock(s, dest) /\ Awaits(dest, s)
  BY <1>1 DEF SendCopy, At, IrqInv, CallInv, SendStages, HistoryInv, DirectInv
<1>3. /\ p_msg \in [Procs -> BOOLEAN]
      /\ p_flags \in [Procs -> {{}, {"SENDING"}, {"RECEIVING"}}]
      /\ p_recvfrom \in [Procs -> Sources \union {NO_TASK}]
      /\ mem \in [Procs -> Messages] /\ TypeOK
  BY DEF IrqInv, TypeOK
<1>4. BarMsg = p_msg /\ BarFlags = p_flags /\ BarRecvfrom = p_recvfrom
  BY <1>2, <1>3, BarIdentity DEF Copied
<1>5. \A p : Sent(p)' <=> p = dest
  BY <1>1, <1>2 DEF Sent
<1>6. BarMsg' = [p_msg EXCEPT ![dest] = FALSE]
  <2>1. BarMsg' = [p \in Procs |-> p_msg[p] /\ ~Sent(p)']
    BY <1>2 DEF BarMsg
  <2>2. \A p \in Procs : (p_msg[p] /\ ~Sent(p)') = (IF p = dest THEN FALSE ELSE p_msg[p])
    BY <1>3, <1>5
  <2> QED BY <1>2, <1>3, <2>1, <2>2
<1>7. /\ BarFlags' = [p_flags EXCEPT ![dest] = @ \ {"RECEIVING"}]
      /\ BarRecvfrom' = [p_recvfrom EXCEPT ![dest] = NO_TASK]
  BY <1>2, <1>3, <1>5 DEF BarFlags, BarRecvfrom
<1>8. mem' = [mem EXCEPT ![s] = Atomic!Message(s, x), ![dest] = Atomic!Message(s, x)]
  <2>1. Atomic!Message(s, x) = Message(s, x)
    BY DEF Message, Atomic!Message
  <2> HIDE DEF Message
  <2> QED BY <1>2, <1>3, <2>1
<1>9. Atomic!Running(s) /\ ~Atomic!Deadlock(s, dest) /\ Atomic!Awaits(dest, s)
  BY <1>2, <1>4 DEF Running, Runnable, Deadlock, Sending, Awaits, Receiving,
     Atomic!Running, Atomic!Runnable, Atomic!Deadlock, Atomic!Sending, Atomic!Awaits,
     Atomic!Receiving
<1>10. Atomic!SendDirect(s, dest, x)
  BY <1>2, <1>4, <1>6, <1>7, <1>8, <1>9 DEF Atomic!SendDirect, Atomic!StopsReceiving
<1> QED BY <1>2, <1>10 DEF Atomic!Send

\* The rest of msg_send changes nothing that the mapping shows.
LEMMA RestIsInvisible ==
  ASSUME IrqInv, IrqInv', SendClear \/ SendFlags
  PROVE  UNCHANGED Atomic!ipcvars
<1>1. PICK dest : dest = call.other
  OBVIOUS
<1>2. /\ p_msg \in [Procs -> BOOLEAN]
      /\ p_flags \in [Procs -> {{}, {"SENDING"}, {"RECEIVING"}}]
      /\ p_recvfrom \in [Procs -> Sources \union {NO_TASK}]
      /\ TypeOK'
  BY DEF IrqInv, TypeOK
<1>3. CASE SendClear
  <2>1. /\ kpc = "send_clear" /\ kpc' = "send_flags" /\ call' = call /\ dest \in Procs
        /\ p_msg' = [p_msg EXCEPT ![dest] = FALSE]
        /\ UNCHANGED <<p_flags, p_recvfrom, p_sendto, q_sending, has_int_msg, mem,
                       p_proc_ready, panicked>>
    BY <1>1, <1>3 DEF SendClear, At, IrqInv, CallInv, SendStages
  <2>2. \A p : (Sent(p) <=> p = dest) /\ (Sent(p)' <=> p = dest)
    BY <1>1, <2>1 DEF Sent
  <2>3. BarMsg' = BarMsg
    <3>1. \A p \in Procs : (p_msg'[p] /\ ~Sent(p)') = (p_msg[p] /\ ~Sent(p))
      BY <1>2, <2>1, <2>2
    <3> QED BY <3>1, Zenon DEF BarMsg
  <2>4. BarFlags' = BarFlags /\ BarRecvfrom' = BarRecvfrom
    BY <2>1, <2>2 DEF BarFlags, BarRecvfrom
  <2> QED BY <2>1, <2>3, <2>4 DEF Atomic!ipcvars
<1>4. CASE SendFlags
  <2>1. /\ kpc = "send_flags" /\ kpc' = "user" /\ dest \in Procs
        /\ StopsReceiving(dest)
        /\ UNCHANGED <<p_sendto, q_sending, has_int_msg, mem, p_proc_ready, panicked>>
    BY <1>1, <1>4 DEF SendFlags, At, IrqInv, CallInv, SendStages
  <2>2. \A p : Sent(p) <=> p = dest
    BY <1>1, <2>1 DEF Sent
  <2>3. BarMsg' = p_msg' /\ BarFlags' = p_flags' /\ BarRecvfrom' = p_recvfrom'
    BY <1>2, <2>1, BarIdentity DEF Copied
  <2>4. p_msg' = BarMsg
    <3>1. \A p \in Procs : p_msg'[p] = (p_msg[p] /\ ~Sent(p))
      BY <1>2, <2>1, <2>2 DEF StopsReceiving
    <3>2. p_msg' = [p \in Procs |-> p_msg'[p]]
      BY <1>2 DEF TypeOK
    <3> QED BY <3>1, <3>2, Zenon DEF BarMsg
  <2>5. p_flags' = BarFlags /\ p_recvfrom' = BarRecvfrom
    BY <1>2, <2>1, <2>2 DEF BarFlags, BarRecvfrom, StopsReceiving
  <2> QED BY <2>1, <2>3, <2>4, <2>5 DEF Atomic!ipcvars
<1> QED BY <1>3, <1>4

AtomicStep == Atomic!Next \/ struck \/ struck'

\* Outside the rest of msg_send a step of Ipc is a step of Atomic.
LEMMA StepIsAtomic ==
  ASSUME IrqInv, IrqInv', kpc \notin Copied, kpc' \notin Copied, Next
  PROVE  Atomic!Next
<1>1. /\ BarMsg = p_msg /\ BarFlags = p_flags /\ BarRecvfrom = p_recvfrom
      /\ BarMsg' = p_msg' /\ BarFlags' = p_flags' /\ BarRecvfrom' = p_recvfrom'
  BY BarIdentity DEF IrqInv
<1> USE <1>1 DEF Running, Runnable, Sending, Receiving, Awaits, Message, IntMessage,
     Atomic!Running, Atomic!Runnable, Atomic!Sending, Atomic!Receiving, Atomic!Awaits,
     Atomic!Message, Atomic!IntMessage
<1>2. \A s, dest : Atomic!Deadlock(s, dest) <=> Deadlock(s, dest)
  BY DEF Deadlock, Atomic!Deadlock
<1>3. CASE Schedule
  BY <1>3 DEF Schedule, Atomic!Schedule, Atomic!Next
<1>4. ASSUME NEW s \in Procs, NEW dest \in Procs, s # dest, Send(s, dest)
      PROVE  Atomic!Next
  <2>1. CASE SendPanics(s, dest)
    BY <1>2, <1>4, <2>1 DEF SendPanics, Atomic!SendPanics, Atomic!Send, Atomic!Next
  <2>2. CASE \E x \in Data : SendDirect(s, dest, x)
    BY <1>2, <1>4, <2>2 DEF SendDirect, StopsReceiving, Atomic!SendDirect,
                            Atomic!StopsReceiving, Atomic!Send, Atomic!Next
  <2>3. CASE \E x \in Data : SendQueue(s, dest, x)
    BY <1>2, <1>4, <2>3 DEF SendQueue, Enqueue, Atomic!SendQueue, Atomic!Enqueue,
                            Atomic!Send, Atomic!Next
  <2> QED BY <1>4, <2>1, <2>2, <2>3 DEF Send
<1>5. ASSUME NEW r \in Procs, NEW src \in Sources, r # src, Receive(r, src)
      PROVE  Atomic!Next
  <2>1. Atomic!SeesInterrupt(r, src) <=> SeesInterrupt(r, src)
    BY DEF SeesInterrupt, Atomic!SeesInterrupt
  <2>2. Atomic!TakenFrom(r, src) = TakenFrom(r, src) /\ Atomic!Sources = Sources
    BY DEF TakenFrom, Atomic!TakenFrom, Sources, Atomic!Sources
  <2>3. CASE ReceiveInterrupt(r, src)
    BY <1>5, <2>1, <2>2, <2>3
       DEF ReceiveInterrupt, Atomic!ReceiveInterrupt, Atomic!Receive, Atomic!Next
  <2>4. CASE ReceiveQueued(r, src)
    <3>1. \A i : TakeFrom(r, i) => Atomic!TakeFrom(r, i)
      BY DEF TakeFrom, Unlink, PhysCopy, Atomic!TakeFrom, Atomic!Unlink, Atomic!PhysCopy
    <3> QED BY <1>5, <2>1, <2>2, <2>4, <3>1
            DEF ReceiveQueued, Atomic!ReceiveQueued, Atomic!Receive, Atomic!Next
  <2>5. CASE ReceiveBlocks(r, src)
    BY <1>5, <2>1, <2>2, <2>5
       DEF ReceiveBlocks, StartReceiving, Atomic!ReceiveBlocks, Atomic!StartReceiving,
           Atomic!Receive, Atomic!Next
  <2> QED BY <1>5, <2>3, <2>4, <2>5 DEF Receive
<1>6. ASSUME NEW t \in IrqTasks, InformInt(t)
      PROVE  Atomic!Next
  BY <1>6 DEF InformInt, StopsReceiving, Atomic!InformInt, Atomic!StopsReceiving, Atomic!Next
<1> QED BY <1>3, <1>4, <1>5, <1>6 DEF Next

\* Every step maps to a step of Ipc or to a stutter, or an interrupt has
\* changed something in the call.
LEMMA ImplementsIpcStep ==
  ASSUME IrqInv, IrqInv', HistoryInv, [HistoryNext]_<<allvars, struck>>
  PROVE  [AtomicStep]_(Atomic!ipcvars)
<1> DEFINE done == [AtomicStep]_(Atomic!ipcvars)
<1>1. CASE struck \/ struck'
  BY <1>1 DEF AtomicStep
<1>2. ASSUME UNCHANGED <<ipcvars, kpc, call>>
      PROVE  done
  BY <1>2, BarUnchanged
<1>3. ASSUME kpc \notin Copied, kpc' \notin Copied, [Next]_ipcvars
      PROVE  done
  <2>1. CASE Next
    BY <1>3, <2>1, StepIsAtomic DEF AtomicStep
  <2>2. CASE UNCHANGED ipcvars
    BY <1>3, <2>2, BarIdentity DEF ipcvars, Atomic!ipcvars, IrqInv
  <2> QED BY <1>3, <2>1, <2>2
<1>4. CASE UNCHANGED <<allvars, struck>>
  BY <1>2, <1>4 DEF allvars, irqvars
<1>5. CASE HistoryNext /\ ~struck /\ ~struck'
  <2>1. IrqNext
    BY <1>5 DEF HistoryNext
  <2>2. CASE ClockTick
    <3>1. kpc = "user" /\ kpc' = kpc /\ Next
      BY <2>2 DEF ClockTick, At, irqvars, Next
    <3> QED BY <1>3, <3>1 DEF Copied
  <2>3. ASSUME NEW s \in Procs, NEW dest \in Procs, NEW x \in Data, s # dest,
               SendCall(s, dest, x)
        PROVE  done
    <3>1. kpc = "user" /\ kpc' \in {"user", "schedule", "send_assert"} /\ [Next]_ipcvars
      BY <2>3 DEF SendCall, At, irqvars, Next, Send
    <3> QED BY <1>3, <3>1 DEF Copied
  <2>4. ASSUME NEW r \in Procs, NEW src \in Sources, ReceiveCall(r, src)
        PROVE  done
    <3>1. kpc = "user" /\ kpc' \in {"recv_int", "recv_scan"} /\ UNCHANGED ipcvars
      BY <2>4 DEF ReceiveCall, At
    <3> QED BY <1>3, <3>1 DEF Copied
  <2>5. CASE SendAssert \/ SendLoad \/ ReceiveIntAssert \/ BlockAssert
    <3>1. kpc \notin Copied /\ kpc' \notin Copied /\ UNCHANGED ipcvars
      BY <2>5 DEF SendAssert, SendLoad, ReceiveIntAssert, BlockAssert, At, Copied
    <3> QED BY <1>3, <3>1
  <2>6. CASE SendCopy
    BY <1>5, <2>6, CopyIsSend DEF AtomicStep, Atomic!Next
  <2>7. CASE SendClear \/ SendFlags
    BY <2>7, RestIsInvisible
  <2>8. CASE ReceiveInt
    <3>1. PICK r, src : r = call.who /\ src = call.other
      OBVIOUS
    <3>2. /\ kpc = "recv_int" /\ kpc' = "recv_int_assert"
          /\ r \in Procs /\ src \in Sources /\ r # src
          /\ Running(r) /\ SeesInterrupt(r, src)
      BY <1>5, <2>8, <3>1
         DEF ReceiveInt, At, IrqInv, CallInv, RecvStages, HistoryInv, ReceiveInv
    <3>3. ReceiveInterrupt(r, src)
      BY <2>8, <3>1, <3>2 DEF ReceiveInt, ReceiveInterrupt
    <3> QED BY <1>3, <3>2, <3>3 DEF Next, Receive, Copied
  <2>9. CASE ReceiveScan
    <3>1. PICK r, src : r = call.who /\ src = call.other
      OBVIOUS
    <3>2. /\ kpc = "recv_scan" /\ r \in Procs /\ src \in Sources /\ r # src
          /\ Running(r) /\ ~SeesInterrupt(r, src)
      BY <1>5, <2>9, <3>1
         DEF ReceiveScan, At, IrqInv, CallInv, RecvStages, HistoryInv, ReceiveInv
    <3>3. ReceiveQueued(r, src) \/ ReceiveBlocks(r, src)
      BY <2>9, <3>1, <3>2 DEF ReceiveScan, ReceiveQueued, ReceiveBlocks
    <3>4. kpc' \in {"user", "schedule"}
      BY <2>9 DEF ReceiveScan
    <3> QED BY <1>3, <3>2, <3>3, <3>4 DEF Next, Receive, Copied
  <2>10. CASE BlockSchedule
    <3>1. kpc = "schedule" /\ kpc' = "assert" /\ Next
      BY <2>10 DEF BlockSchedule, At, Next
    <3> QED BY <1>3, <3>1 DEF Copied
  <2>11. ASSUME NEW t \in IrqTasks, DiskCommand(t) \/ KeyPress(t) \/ KeyTaken(t)
         PROVE  done
    BY <1>2, <2>11 DEF DiskCommand, KeyPress, KeyTaken
  <2>12. ASSUME NEW t \in IrqTasks, Interrupt(t)
         PROVE  done
    <3>1. UNCHANGED <<kpc, call>>
      BY <2>12 DEF Interrupt
    <3>2. CASE kpc # "user"
      <4>1. UNCHANGED ipcvars
        BY <1>5, <3>1, <3>2 DEF HistoryNext
      <4> QED BY <1>2, <3>1, <4>1
    <3>3. CASE kpc = "user"
      <4>1. Awaits(t, INTERRUPT) => p_msg[t]
        <5>1. t \in Procs
          BY IpcAssumption
        <5> QED BY <3>3, <5>1, AwaitingHasBuffer DEF Awaits
      <4>2. InformInt(t)
        BY <2>12, <4>1 DEF Interrupt, InformInt, Alive, Remember
      <4> QED BY <1>3, <3>1, <3>3, <4>2 DEF Next, Copied
    <3> QED BY <3>2, <3>3
  <2> QED BY <2>1, <2>2, <2>3, <2>4, <2>5, <2>6, <2>7, <2>8, <2>9, <2>10, <2>11, <2>12
          DEF IrqNext, Kernel
<1> QED BY <1>1, <1>4, <1>5

\* An initial state of IpcIrq is one of Ipc.
LEMMA ImplementsIpcInit == HistoryInit => Atomic!Init
<1> SUFFICES ASSUME HistoryInit PROVE Atomic!Init
  OBVIOUS
<1>1. Init /\ kpc = "user"
  BY DEF HistoryInit, IrqInit
<1>2. BarMsg = p_msg /\ BarFlags = p_flags /\ BarRecvfrom = p_recvfrom
  BY <1>1, InitType, BarIdentity DEF Copied
<1> QED BY <1>1, <1>2 DEF Init, Atomic!Init, Message, Atomic!Message

\* The history variable disturbs nothing: the invariants hold with it.
LEMMA HistoryInvHolds == HistorySpec => [](IrqInv /\ HistoryInv)
<1>1. HistoryInit => IrqInv /\ HistoryInv
  BY IrqInitEstablishes, HistoryInitEstablishes DEF HistoryInit
<1>2. [HistoryNext]_<<allvars, struck>> => [IrqNext]_allvars
  BY DEF HistoryNext
<1>3. IrqInv /\ HistoryInv /\ [HistoryNext]_<<allvars, struck>> => (IrqInv /\ HistoryInv)'
  BY <1>2, IrqNextKeeps, HistoryNextKeeps
<1> QED BY <1>1, <1>3, PTL DEF HistorySpec

\* sys_sendrec step by step implements the atomic system calls of Ipc, for any
\* processes, as long as no interrupt changes something inside the call.
THEOREM CallsAreAtomic == HistorySpec => ImplementsIpc
<1>1. HistoryInit => Atomic!Init
  BY ImplementsIpcInit
<1>2. IrqInv /\ IrqInv' /\ HistoryInv /\ [HistoryNext]_<<allvars, struck>>
        => [Atomic!Next \/ struck \/ struck']_(Atomic!ipcvars)
  BY ImplementsIpcStep DEF AtomicStep
<1> QED BY <1>1, <1>2, HistoryInvHolds, PTL DEF HistorySpec, ImplementsIpc
=============================================================================
