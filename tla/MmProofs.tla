------------------------------ MODULE MmProofs ------------------------------
(***************************************************************************)
(* Proofs about the memory manager (module Mm), for any number of entries  *)
(* and any statuses, with p_flags updated in one step or in two: every     *)
(* process has a parent that can wait for it, nobody waits beside a child  *)
(* that hangs, and FS knows who lives.  And, when they are updated in one  *)
(* step: nobody who called is forgotten, wait() returns a child that       *)
(* called exit(), with its status, and fork() returns twice.               *)
(***************************************************************************)
EXTENDS Mm, WellFoundedInduction, TLAPS

\* Every nonempty set of numbers has a least one.
LEMMA LeastNumber ==
  ASSUME NEW T \in SUBSET Nat, T # {}
  PROVE  \E n \in T : \A m \in T : n <= m
<1> DEFINE R == {ss \in Nat \X Nat : ss[1] < ss[2]}
<1>1. IsWellFoundedOn(R, Nat)
  BY NatLessThanWellFounded DEF OpToRel
<1> HIDE DEF R
<1>2. PICK n \in T : \A m \in T : ~ (<<m, n>> \in R)
  BY <1>1, WFMin
<1>3. \A m \in T : ~ (m < n)
  BY <1>2 DEF R
<1> QED BY <1>3

\* The queues of senders, as sequences: who is in one, and that each is there
\* once.
Holds(q, p) == \E i \in 1 .. Len(q) : q[i] = p
EachOnce(q) == \A i, j \in 1 .. Len(q) : q[i] = q[j] => i = j

\* A queue with one more at its end holds that one besides.
LEMMA AppendHolds ==
  ASSUME NEW S, NEW q \in Seq(S), NEW s \in S
  PROVE  /\ Append(q, s) \in Seq(S)
         /\ \A p : Holds(Append(q, s), p) <=> Holds(q, p) \/ p = s
         /\ EachOnce(q) /\ ~Holds(q, s) => EachOnce(Append(q, s))
<1> DEFINE r == Append(q, s)
<1>1. /\ Len(r) = Len(q) + 1 /\ Len(q) \in Nat /\ r[Len(q) + 1] = s
      /\ \A i \in 1 .. Len(q) : r[i] = q[i]
      /\ r \in Seq(S)
  OBVIOUS
<1> HIDE DEF r
<1>2. \A p : Holds(r, p) <=> Holds(q, p) \/ p = s
  BY <1>1 DEF Holds
<1>3. EachOnce(q) /\ ~Holds(q, s) => EachOnce(r)
  BY <1>1 DEF Holds, EachOnce
<1> QED BY <1>1, <1>2, <1>3 DEF r

\* A queue without its head holds the rest.
LEMMA TailHolds ==
  ASSUME NEW S, NEW q \in Seq(S), q # <<>>, EachOnce(q)
  PROVE  /\ Tail(q) \in Seq(S) /\ Head(q) \in S /\ Holds(q, Head(q))
         /\ \A p : Holds(Tail(q), p) <=> Holds(q, p) /\ p # Head(q)
         /\ EachOnce(Tail(q))
<1> DEFINE r == Tail(q)
           h == Head(q)
<1>1. /\ Len(r) = Len(q) - 1 /\ Len(q) \in Nat /\ Len(q) >= 1 /\ h = q[1]
      /\ \A i \in 1 .. Len(q) - 1 : r[i] = q[i + 1]
      /\ r \in Seq(S) /\ h \in S
  OBVIOUS
<1> HIDE DEF r, h
<1>2. Holds(q, h)
  BY <1>1 DEF Holds
<1>3. EachOnce(r)
  BY <1>1 DEF EachOnce
<1>4. ASSUME NEW p, Holds(r, p) PROVE Holds(q, p) /\ p # h
  <2>1. PICK i \in 1 .. Len(r) : r[i] = p
    BY <1>4 DEF Holds
  <2>2. i + 1 \in 1 .. Len(q) /\ q[i + 1] = p /\ i + 1 # 1
    BY <1>1, <2>1
  <2> QED BY <1>1, <2>2 DEF Holds, EachOnce
<1>5. ASSUME NEW p, Holds(q, p), p # h PROVE Holds(r, p)
  <2>1. PICK i \in 1 .. Len(q) : q[i] = p
    BY <1>5 DEF Holds
  <2>2. i - 1 \in 1 .. Len(r) /\ r[i - 1] = p
    BY <1>1, <1>5, <2>1
  <2> QED BY <2>2 DEF Holds
<1> QED BY <1>1, <1>2, <1>3, <1>4, <1>5 DEF r, h

\* What p_flags can be.
Free     == {"FREE_SLOT"}
Blocked  == {"SENDING"}
InReply  == {{}, {"RECEIVING"}}    \* in a call that MM serves
Asleep   == {{"WAITING"}, {"WAITING", "RECEIVING"}}
Hanging  == {{"HANGING"}, {"HANGING", "RECEIVING"}}
Shapes   == InReply \union Asleep \union Hanging \union {Free, Blocked}

Queued(p) == Holds(q_sending, p)

\* The children of the process that exits are being handed to INIT, and which
\* of them are not yet.
Handing == \/ mm.pc = "adopt"
           \/ mm.pc \in {"wake_parent", "cleanup"} /\ mm.call = "EXIT" /\ mm.who # mm.src

Orphan(c) == /\ Handing /\ p_parent[c] = mm.src
             /\ IF mm.pc = "adopt" THEN c >= mm.who ELSE c > mm.who

\* MM serves mm.src, which is inside its call and cannot go on.
Serving == mm.pc # "take" /\ ~Handing

\* Who lives but is not counted by FS, or no more.
Uncounted ==
  IF mm.pc = "fork_fs" THEN {mm.who}
  ELSE IF \/ mm.pc = "set_hanging"
          \/ mm.pc \in {"wake_parent", "cleanup"} /\ mm.call = "EXIT" /\ mm.who = mm.src
       THEN {mm.src}
  ELSE {}

ForkPcs == {"FORK", "fork_copy", "fork_fs", "birth", "reply"}
ExitPcs == {"EXIT", "set_hanging", "wake_parent", "adopt"}
WaitPcs == {"WAIT", "set_waiting"}
MmPcs == ForkPcs \union ExitPcs \union WaitPcs \union {"take", "fail", "cleanup"}

TypeInv ==
  /\ p_flags \in [Pids -> Shapes]
  /\ p_parent \in [Pids -> Pids \union {NO_TASK}]
  /\ DOMAIN exit_status = Pids
  /\ regs \in [Pids -> [at : {"run", "receive", "got", "spin"}, call : Calls \union {"none"}]]
  /\ DOMAIN mem = Pids
  /\ q_sending \in Seq(Pids)
  /\ mm = [pc |-> mm.pc, call |-> mm.call, src |-> mm.src, who |-> mm.who,
           status |-> mm.status, word |-> mm.word]
  /\ mm.pc \in MmPcs
  /\ mm.pc # "take" => mm.src \in Pids
  /\ mm.pc \in ForkPcs => mm.call = "FORK"
  /\ mm.pc \in ExitPcs => mm.call = "EXIT"
  /\ mm.pc \in WaitPcs => mm.call = "WAIT"
  /\ mm.pc = "cleanup" => mm.call \in {"EXIT", "WAIT"}
  /\ mm.pc = "fail" => mm.call \in {"FORK", "WAIT"}

\* The queue holds the processes blocked in their SEND, each once.
Queue ==
  /\ EachOnce(q_sending)
  /\ \A p \in Pids : Queued(p) <=> p_flags[p] = Blocked
  /\ \A p \in Pids : Queued(p) => regs[p].at = "receive" /\ mem[p].type \in Calls

InitLives ==
  /\ Live(INIT) /\ ~Zombie(INIT) /\ p_parent[INIT] = NO_TASK /\ mem[INIT].type # "EXIT"
  /\ (mm.pc # "take" /\ mm.call = "EXIT") => mm.src # INIT

\* What MM knows of the processes it deals with.
Source ==
  /\ Serving => /\ p_flags[mm.src] \in InReply
                /\ p_flags[mm.src] = {} => regs[mm.src].at = "receive"
  /\ Handing => p_flags[mm.src] \in Hanging \union {Free}
  /\ mm.pc = "adopt" => mm.who \in First .. Last + 1
  /\ mm.pc = "fork_copy" => mm.who \in Pids /\ p_flags[mm.who] = Free
  /\ mm.pc \in {"fork_fs", "birth"} => mm.who \in Pids \ {INIT, mm.src}
  /\ mm.pc = "fork_fs" => Live(mm.who) /\ ~Zombie(mm.who)
  /\ mm.pc = "wake_parent" =>
       /\ mm.who \in Pids \ {INIT} /\ p_parent[mm.who] \in Pids
       /\ p_flags[p_parent[mm.who]] \in Asleep
       /\ mm.who # mm.src => Zombie(mm.who)
  /\ mm.pc = "cleanup" =>
       /\ mm.who \in Pids \ {INIT} /\ p_parent[mm.who] \in Pids
       /\ p_flags[p_parent[mm.who]] \in InReply \union {Blocked}
       /\ mm.call = "WAIT" => p_parent[mm.who] = mm.src
       /\ (mm.call = "WAIT" \/ mm.who # mm.src) => Zombie(mm.who)

\* The flags loaded are those of the entry, but for its RECEIVING.
Word ==
  \/ mm.word = NotLoaded
  \/ mm.pc \in {"set_waiting", "set_hanging"} /\ mm.word \in InReply
  \/ mm.pc = "wake_parent" /\ mm.word \in Asleep

Parents ==
  /\ \A c \in Pids : p_parent[c] # c
  /\ \A c \in Pids \ {INIT} : Live(c) =>
       /\ p_parent[c] \in Pids
       /\ Orphan(c) \/ (Live(p_parent[c]) /\ ~Zombie(p_parent[c]))

Waits ==
  /\ \A c \in Pids : (Zombie(c) /\ p_parent[c] \in Pids /\ Waiting(p_parent[c]))
                       => mm.pc = "wake_parent" /\ c = mm.who
  /\ mm.pc = "set_waiting" => \A c \in Pids : Zombie(c) => p_parent[c] # mm.src
  /\ mm.pc = "set_hanging" => p_parent[mm.src] \in Pids /\ ~Waiting(p_parent[mm.src])

Counted == fs_procs = {p \in Pids : Live(p) /\ ~Zombie(p)} \ Uncounted

MInv == TypeInv /\ Queue /\ InitLives /\ Source /\ Word /\ Parents /\ Waits /\ Counted

-----------------------------------------------------------------------------
(* Lemmas about entries and their marks.                                   *)

\* FirstOf chooses an element of the set it is given.
LEMMA FirstExists ==
  ASSUME NEW S \in SUBSET Pids, S # {}
  PROVE  FirstOf(S) \in S
<1>1. S \in SUBSET Nat
  BY MmAssumption DEF Pids
<1>2. \E n \in S : \A m \in S : n <= m
  BY <1>1, LeastNumber
<1> QED BY <1>2 DEF FirstOf

\* Whether an entry is free, hangs or waits is told by the shape of its flags.
LEMMA ShapeMarks ==
  ASSUME NEW f \in Shapes
  PROVE  /\ "FREE_SLOT" \in f <=> f = Free
         /\ "HANGING" \in f <=> f \in Hanging
         /\ "WAITING" \in f <=> f \in Asleep
         /\ "SENDING" \in f <=> f = Blocked
         /\ f \in InReply => f # Free /\ f # Blocked /\ f \notin Hanging /\ f \notin Asleep
         /\ f \in Hanging => f # Free /\ f # Blocked /\ f \notin Asleep
         /\ f \in Asleep => f # Free /\ f # Blocked
  BY DEF Shapes, InReply, Asleep, Hanging, Free, Blocked

\* The flags of an entry keep what the properties ask for.
SameMarks ==
  \A q \in Pids : /\ Live(q)' <=> Live(q)
                  /\ Zombie(q)' <=> Zombie(q)
                  /\ Waiting(q)' <=> Waiting(q)

\* Taking RECEIVING from the flags leaves the marks of MM as they are.
LEMMA Unreplied ==
  ASSUME NEW f \in Shapes
  PROVE  /\ f \ {"RECEIVING"} \in Shapes
         /\ "FREE_SLOT" \in f \ {"RECEIVING"} <=> "FREE_SLOT" \in f
         /\ "HANGING" \in f \ {"RECEIVING"} <=> "HANGING" \in f
         /\ "WAITING" \in f \ {"RECEIVING"} <=> "WAITING" \in f
         /\ f \in InReply \union {Blocked} => f \ {"RECEIVING"} \in InReply \union {Blocked}
         /\ f \ {"RECEIVING"} = Blocked <=> f = Blocked
         /\ f \ {"RECEIVING"} = Free <=> f = Free
         /\ f \in Hanging <=> f \ {"RECEIVING"} \in Hanging
         /\ f \in Asleep <=> f \ {"RECEIVING"} \in Asleep
<1>1. /\ {} \ {"RECEIVING"} = {} /\ {"RECEIVING"} \ {"RECEIVING"} = {}
      /\ {"WAITING"} \ {"RECEIVING"} = {"WAITING"}
      /\ {"WAITING", "RECEIVING"} \ {"RECEIVING"} = {"WAITING"}
      /\ {"HANGING"} \ {"RECEIVING"} = {"HANGING"}
      /\ {"HANGING", "RECEIVING"} \ {"RECEIVING"} = {"HANGING"}
      /\ Free \ {"RECEIVING"} = Free /\ Blocked \ {"RECEIVING"} = Blocked
  BY DEF Free, Blocked
<1> QED BY <1>1 DEF Shapes, InReply, Asleep, Hanging, Free, Blocked

\* A step that changes no marks, no parents and nothing MM holds.
LEMMA MarksKeep ==
  ASSUME MInv, SameMarks, UNCHANGED <<p_parent, mm, fs_procs>>, mem'[INIT].type # "EXIT"
  PROVE  InitLives' /\ Parents' /\ Waits' /\ Counted' /\ Word'
<1>1. InitLives'
  <2>1. INIT \in Pids
    BY MmAssumption DEF Pids, INIT
  <2> QED BY <2>1 DEF MInv, InitLives, SameMarks, Live, Zombie
<1>2. Parents'
  BY DEF MInv, Parents, Orphan, Handing, SameMarks, Live, Zombie
<1>3. Waits'
  BY DEF MInv, Waits, SameMarks, Zombie, Waiting
<1>4. Counted'
  BY DEF MInv, Counted, Uncounted, SameMarks, Live, Zombie
<1>5. Word'
  BY DEF MInv, Word
<1> QED BY <1>1, <1>2, <1>3, <1>4, <1>5

-----------------------------------------------------------------------------
(* The processes.                                                          *)

\* A process that runs starts or ends a part of a call: MM and the others see
\* nothing of it but its place in the queue.
LEMMA ProcessKeeps ==
  ASSUME MInv, NEW p \in Pids, p_flags[p] = {}, NEW f \in {{}, Blocked, {"RECEIVING"}},
         p_flags' = [p_flags EXCEPT ![p] = f],
         regs[p].at = "receive" => f = {"RECEIVING"},
         \A q \in Pids : q # p => regs'[q] = regs[q],
         regs' \in [Pids -> [at : {"run", "receive", "got", "spin"}, call : Calls \union {"none"}]],
         DOMAIN mem' = Pids, mem'[INIT].type # "EXIT",
         q_sending' \in Seq(Pids), Queue',
         UNCHANGED <<p_parent, exit_status, mm, fs_procs>>
  PROVE  MInv'
<1>1. /\ p_flags'[p] = f /\ f \in Shapes /\ DOMAIN p_flags = Pids
      /\ \A q \in Pids : q # p => p_flags'[q] = p_flags[q]
      /\ p_flags' \in [Pids -> Shapes]
  BY DEF MInv, TypeInv, Shapes, InReply, Blocked
<1>2. SameMarks
  <2>1. "FREE_SLOT" \notin f /\ "HANGING" \notin f /\ "WAITING" \notin f
    BY DEF Blocked
  <2> QED BY <1>1, <2>1 DEF SameMarks, Live, Zombie, Waiting
<1>3. InitLives' /\ Parents' /\ Waits' /\ Counted' /\ Word'
  BY <1>2, MarksKeep
<1>4. TypeInv'
  BY <1>1 DEF MInv, TypeInv
<1>5. Source'
  <2>2. Serving => /\ p_flags'[mm.src] \in InReply
                   /\ p_flags'[mm.src] = {} => regs'[mm.src].at = "receive"
    <3>1. Serving => mm.src \in Pids
      BY DEF MInv, TypeInv, Serving
    <3>2. (mm.src \in Pids /\ mm.src # p) =>
            p_flags'[mm.src] = p_flags[mm.src] /\ regs'[mm.src] = regs[mm.src]
      BY <1>1
    <3>3. (Serving /\ mm.src = p) => f = {"RECEIVING"}
      BY DEF MInv, Source
    <3> QED BY <1>1, <3>1, <3>2, <3>3 DEF MInv, Source, InReply
  <2>3. Serving' = Serving /\ Handing' = Handing
    BY DEF Serving, Handing
  <2>4. Handing => p_flags'[mm.src] \in Hanging \union {Free}
    <3>1. SUFFICES ASSUME Handing PROVE p_flags'[mm.src] \in Hanging \union {Free}
      OBVIOUS
    <3>2. mm.src \in Pids /\ p_flags[mm.src] \in Hanging \union {Free}
      BY <3>1 DEF MInv, Source, TypeInv, Handing
    <3>3. p_flags[mm.src] # {}
      BY <3>2 DEF Hanging, Free
    <3> QED BY <1>1, <3>2, <3>3
  <2>5. mm.pc = "fork_copy" => p_flags'[mm.who] = Free
    BY <1>1 DEF MInv, Source, Free
  <2>6. mm.pc = "fork_fs" => Live(mm.who)' /\ ~Zombie(mm.who)'
    BY <1>2 DEF MInv, Source, SameMarks, Live, Zombie
  <2>7. mm.pc = "wake_parent" => p_flags'[p_parent[mm.who]] \in Asleep
    BY <1>1 DEF MInv, Source, Asleep
  <2>8. mm.pc = "cleanup" => p_flags'[p_parent[mm.who]] \in InReply \union {Blocked}
    BY <1>1 DEF MInv, Source, InReply
  <2>9. mm.who \in Pids => (Zombie(mm.who)' <=> Zombie(mm.who))
    BY <1>2 DEF SameMarks, Zombie
  <2> QED BY <2>2, <2>3, <2>4, <2>5, <2>6, <2>7, <2>8, <2>9 DEF MInv, Source, Zombie, Live
<1> QED BY <1>3, <1>4, <1>5 DEF MInv

\* A process calls MM.
LEMMA SendKeeps ==
  ASSUME MInv, NEW p \in Pids, UserCall(p)
  PROVE  MInv'
<1>0. PICK c \in Calls : \E x : SendCall(p, c, x) /\ (p = INIT => c # "EXIT")
  BY DEF UserCall, Calls
<1>1. PICK x : SendCall(p, c, x) /\ (p = INIT => c # "EXIT")
  BY <1>0
<1>2. /\ p_flags[p] = {} /\ regs[p] = Working
      /\ p_flags' = [p_flags EXCEPT ![p] = Blocked]
      /\ regs' = [regs EXCEPT ![p] = InCall(c)]
      /\ mem' = [mem EXCEPT ![p] = Request(c, x)]
      /\ q_sending' = Append(q_sending, p)
      /\ UNCHANGED <<p_parent, exit_status, mm, fs_procs>>
  BY <1>1 DEF SendCall, Runnable, Blocked
<1>3. /\ p_flags \in [Pids -> Shapes] /\ q_sending \in Seq(Pids) /\ DOMAIN mem = Pids
      /\ regs \in [Pids -> [at : {"run", "receive", "got", "spin"}, call : Calls \union {"none"}]]
  BY DEF MInv, TypeInv
<1>4. ~Holds(q_sending, p)
  BY <1>2 DEF MInv, Queue, Queued, Blocked
<1>5. /\ q_sending' \in Seq(Pids) /\ EachOnce(q_sending')
      /\ \A q : Holds(q_sending', q) <=> Holds(q_sending, q) \/ q = p
  BY <1>2, <1>3, <1>4, AppendHolds DEF MInv, Queue
<1>6. Queue'
  <2>1. \A q \in Pids : Holds(q_sending', q) <=> p_flags'[q] = Blocked
    BY <1>2, <1>3, <1>5 DEF MInv, Queue, Queued
  <2>2. \A q \in Pids : Holds(q_sending', q) =>
                          regs'[q].at = "receive" /\ mem'[q].type \in Calls
    BY <1>2, <1>3, <1>5 DEF MInv, Queue, Queued, InCall, Request, Message
  <2> QED BY <1>5, <2>1, <2>2 DEF Queue, Queued
<1>7. mem'[INIT].type # "EXIT" /\ DOMAIN mem' = Pids
  <2>1. INIT \in Pids
    BY MmAssumption DEF Pids, INIT
  <2> QED BY <1>1, <1>2, <1>3, <2>1 DEF MInv, InitLives, Request, Message
<1>8. regs' \in [Pids -> [at : {"run", "receive", "got", "spin"}, call : Calls \union {"none"}]]
      /\ \A q \in Pids : q # p => regs'[q] = regs[q]
  BY <1>2, <1>3 DEF InCall
<1>9. regs[p].at # "receive"
  BY <1>2 DEF Working
<1> QED BY <1>2, <1>5, <1>6, <1>7, <1>8, <1>9, ProcessKeeps

\* A process goes on to its RECEIVE.
LEMMA ReceiveKeeps ==
  ASSUME MInv, NEW p \in Pids, ReceiveReply(p)
  PROVE  MInv'
<1>1. /\ p_flags[p] = {} /\ regs[p].at = "receive"
      /\ p_flags' = [p_flags EXCEPT ![p] = {"RECEIVING"}]
      /\ regs' = [regs EXCEPT ![p].at = "got"]
      /\ UNCHANGED <<p_parent, exit_status, mem, q_sending, mm, fs_procs>>
  BY DEF ReceiveReply, Runnable
<1>2. /\ p_flags \in [Pids -> Shapes] /\ q_sending \in Seq(Pids) /\ DOMAIN mem = Pids
      /\ regs \in [Pids -> [at : {"run", "receive", "got", "spin"}, call : Calls \union {"none"}]]
  BY DEF MInv, TypeInv
<1>3. regs' \in [Pids -> [at : {"run", "receive", "got", "spin"}, call : Calls \union {"none"}]]
      /\ \A q \in Pids : q # p => regs'[q] = regs[q]
  BY <1>1, <1>2
<1>4. Queue'
  <2>1. \A q \in Pids : Queued(q) => regs'[q].at = "receive"
    <3>1. ~Queued(p)
      <4>1. p_flags[p] # Blocked
        BY <1>1 DEF Blocked
      <4> QED BY <4>1 DEF MInv, Queue
    <3> QED BY <1>3, <3>1 DEF MInv, Queue
  <2>2. \A q \in Pids : p_flags'[q] = Blocked <=> p_flags[q] = Blocked
    BY <1>1, <1>2 DEF Blocked
  <2>3. EachOnce(q_sending') /\ \A q \in Pids : Queued(q)' <=> Queued(q)
    BY <1>1 DEF MInv, Queue, Queued
  <2> QED BY <1>1, <2>1, <2>2, <2>3 DEF MInv, Queue
<1>5. mem'[INIT].type # "EXIT" /\ q_sending' \in Seq(Pids) /\ DOMAIN mem' = Pids
  BY <1>1, <1>2 DEF MInv, InitLives
<1> QED BY <1>1, <1>3, <1>4, <1>5, ProcessKeeps

\* A process returns from its call with the reply.
LEMMA ReturnKeeps ==
  ASSUME MInv, NEW p \in Pids, Return(p)
  PROVE  MInv'
<1>1. /\ p_flags[p] = {} /\ regs[p].at = "got"
      /\ regs' = [regs EXCEPT ![p] = IF AssertionFails(p) THEN Stopped ELSE Working]
      /\ mem' = [mem EXCEPT ![p] = NoMessage]
      /\ UNCHANGED <<p_flags, p_parent, exit_status, q_sending, mm, fs_procs>>
  BY DEF Return, Runnable
<1>2. /\ p_flags \in [Pids -> Shapes] /\ q_sending \in Seq(Pids) /\ DOMAIN mem = Pids
      /\ regs \in [Pids -> [at : {"run", "receive", "got", "spin"}, call : Calls \union {"none"}]]
  BY DEF MInv, TypeInv
<1>3. regs' \in [Pids -> [at : {"run", "receive", "got", "spin"}, call : Calls \union {"none"}]]
      /\ \A q \in Pids : q # p => regs'[q] = regs[q]
  BY <1>1, <1>2 DEF Stopped, Working
<1>4. Queue'
  BY <1>1, <1>2, <1>3 DEF MInv, Queue, Queued, Blocked
<1>5. mem'[INIT].type # "EXIT" /\ q_sending' \in Seq(Pids) /\ DOMAIN mem' = Pids
  <2>1. INIT \in Pids
    BY MmAssumption DEF Pids, INIT
  <2> QED BY <1>1, <1>2, <2>1 DEF MInv, InitLives, NoMessage, Request, Message
<1>6. p_flags' = [p_flags EXCEPT ![p] = {}]
  BY <1>1, <1>2
<1> QED BY <1>1, <1>3, <1>4, <1>5, <1>6, ProcessKeeps

-----------------------------------------------------------------------------
(* MM.                                                                     *)

\* Outside the hand-over of children to INIT, a step that changes no marks and
\* no parents leaves nobody without a parent and wakes nobody too late.
LEMMA QuietKeeps ==
  ASSUME MInv, SameMarks, UNCHANGED p_parent, ~Handing, ~Handing', mm.pc # "wake_parent"
  PROVE  /\ Parents'
         /\ \A c \in Pids : ~(Zombie(c)' /\ p_parent'[c] \in Pids /\ Waiting(p_parent[c])')
         /\ {p \in Pids : Live(p)' /\ ~Zombie(p)'} = {p \in Pids : Live(p) /\ ~Zombie(p)}
<1>1. Parents'
  BY DEF MInv, Parents, Orphan, SameMarks, Live, Zombie
<1>2. \A c \in Pids : ~(Zombie(c)' /\ p_parent'[c] \in Pids /\ Waiting(p_parent[c])')
  BY DEF MInv, Waits, SameMarks, Zombie, Waiting
<1>3. {p \in Pids : Live(p)' /\ ~Zombie(p)'} = {p \in Pids : Live(p) /\ ~Zombie(p)}
  BY DEF SameMarks
<1> QED BY <1>1, <1>2, <1>3

\* do_fork finds no free entry.
LEMMA ForkFailsKeeps ==
  ASSUME MInv, ForkFails
  PROVE  MInv'
<1>1. /\ mm.pc = "FORK" /\ mm.call = "FORK" /\ mm.src \in Pids
      /\ mm' = [pc |-> "fail", call |-> "FORK", src |-> mm.src, who |-> mm.who,
                 status |-> mm.status, word |-> mm.word]
      /\ UNCHANGED <<p_flags, p_parent, exit_status, regs, mem, q_sending, fs_procs>>
  BY DEF ForkFails, MmAt, MInv, TypeInv, ForkPcs
<1>2. ~Handing /\ ~Handing' /\ Serving /\ Uncounted = {} /\ Uncounted' = {}
  BY <1>1 DEF Handing, Serving, Uncounted
<1>3. SameMarks
  BY <1>1 DEF SameMarks, Live, Zombie, Waiting
<1>4. Parents' /\ Waits' /\ Counted'
  BY <1>1, <1>2, <1>3, QuietKeeps DEF MInv, Waits, Counted, Live, Zombie, Waiting
<1>5. TypeInv'
  BY <1>1 DEF MInv, TypeInv, MmPcs, ForkPcs, ExitPcs, WaitPcs
<1>6. Queue' /\ InitLives' /\ Word'
  BY <1>1 DEF MInv, Queue, Queued, InitLives, Live, Zombie, Word
<1>7. Source'
  BY <1>1, <1>2 DEF MInv, Source
<1> QED BY <1>4, <1>5, <1>6, <1>7 DEF MInv

\* MM receives the next request.
LEMMA TakeKeeps ==
  ASSUME MInv, Take
  PROVE  MInv'
<1> DEFINE p == Head(q_sending)
<1>1. /\ mm.pc = "take" /\ q_sending # <<>> /\ q_sending \in Seq(Pids)
      /\ q_sending' = Tail(q_sending)
      /\ p_flags' = [p_flags EXCEPT ![p] = @ \ {"SENDING"}]
      /\ mm' = [pc |-> mem[p].type, call |-> mem[p].type, src |-> p, who |-> NO_TASK,
                status |-> mem[p].value, word |-> NotLoaded]
      /\ UNCHANGED <<p_parent, exit_status, regs, mem, fs_procs>>
  BY DEF Take, MmAt, Idle, MInv, TypeInv
<1>2. /\ p \in Pids /\ Holds(q_sending, p)
      /\ q_sending' \in Seq(Pids) /\ EachOnce(q_sending')
      /\ \A r : Holds(q_sending', r) <=> Holds(q_sending, r) /\ r # p
  BY <1>1, TailHolds DEF MInv, Queue
<1>3. /\ p_flags[p] = Blocked /\ regs[p].at = "receive" /\ mem[p].type \in Calls
      /\ p_flags \in [Pids -> Shapes]
  BY <1>2 DEF MInv, TypeInv, Queue, Queued
<1>4. /\ p_flags'[p] = {} /\ \A q \in Pids : q # p => p_flags'[q] = p_flags[q]
      /\ p_flags' \in [Pids -> Shapes]
  <2>1. Blocked \ {"SENDING"} = {} /\ {} \in Shapes
    BY DEF Blocked, Shapes, InReply
  <2> QED BY <1>1, <1>2, <1>3, <2>1
<1>5. SameMarks
  <2>1. "FREE_SLOT" \notin Blocked /\ "HANGING" \notin Blocked /\ "WAITING" \notin Blocked
    BY DEF Blocked
  <2> QED BY <1>3, <1>4, <2>1 DEF SameMarks, Live, Zombie, Waiting
<1>6. /\ mm'.pc \in Calls /\ mm'.pc = mem[p].type /\ mm'.call = mm'.pc /\ mm'.src = p
      /\ mm'.word = NotLoaded
  BY <1>1, <1>3
<1>7. ~Handing /\ ~Handing' /\ Uncounted = {} /\ Uncounted' = {}
  BY <1>1, <1>6 DEF Handing, Uncounted, Calls
<1>8. Parents' /\ Waits' /\ Counted'
  <2>1. mm'.pc # "wake_parent" /\ mm'.pc # "set_waiting" /\ mm'.pc # "set_hanging"
    BY <1>6 DEF Calls
  <2> QED BY <1>1, <1>5, <1>7, <2>1, QuietKeeps
          DEF MInv, Waits, Counted, Live, Zombie, Waiting
<1>9. TypeInv'
  <2>1. mm'.pc \in MmPcs
    BY <1>6 DEF Calls, MmPcs, ForkPcs, ExitPcs, WaitPcs
  <2>2. /\ mm'.pc \in ForkPcs => mm'.call = "FORK"
        /\ mm'.pc \in ExitPcs => mm'.call = "EXIT"
        /\ mm'.pc \in WaitPcs => mm'.call = "WAIT"
        /\ mm'.pc # "cleanup" /\ mm'.pc # "fail"
    BY <1>6 DEF Calls, ForkPcs, ExitPcs, WaitPcs
  <2> QED BY <1>1, <1>2, <1>4, <1>6, <2>1, <2>2 DEF MInv, TypeInv
<1>10. Queue'
  <2>1. p_flags'[p] # Blocked
    BY <1>4 DEF Blocked
  <2>2. \A q \in Pids : Holds(q_sending', q) <=> p_flags'[q] = Blocked
    BY <1>2, <1>4, <2>1 DEF MInv, Queue, Queued
  <2> QED BY <1>1, <1>2, <2>2 DEF MInv, Queue, Queued
<1>11. InitLives'
  <2>1. INIT \in Pids
    BY MmAssumption DEF Pids, INIT
  <2> QED BY <1>1, <1>5, <1>6, <2>1 DEF MInv, InitLives, SameMarks, Live, Zombie
<1>12. Source'
  BY <1>1, <1>3, <1>4, <1>6, <1>7 DEF Source, Serving, Calls, InReply
<1> QED BY <1>6, <1>8, <1>9, <1>10, <1>11, <1>12 DEF MInv, Word

\* do_fork copies the registers of the parent.
LEMMA ForkCopyRegsKeeps ==
  ASSUME MInv, ForkCopyRegs
  PROVE  MInv'
<1> DEFINE c == FirstOf(FreeSlots)
<1>1. /\ mm.pc = "FORK" /\ mm.call = "FORK" /\ mm.src \in Pids
      /\ regs' = [regs EXCEPT ![c] = regs[mm.src]]
      /\ mm' = [pc |-> "fork_copy", call |-> "FORK", src |-> mm.src, who |-> c,
                 status |-> mm.status, word |-> mm.word]
      /\ UNCHANGED <<p_flags, p_parent, exit_status, mem, q_sending, fs_procs>>
  BY DEF ForkCopyRegs, MmAt, MInv, TypeInv, ForkPcs
<1>2. c \in Pids /\ p_flags[c] = Free
  BY FirstExists DEF ForkCopyRegs, FreeSlots, Free
<1>3. ~Handing /\ ~Handing' /\ Serving /\ Uncounted = {} /\ Uncounted' = {}
  BY <1>1 DEF Handing, Serving, Uncounted
<1>4. SameMarks
  BY <1>1 DEF SameMarks, Live, Zombie, Waiting
<1>5. Parents' /\ Waits' /\ Counted'
  BY <1>1, <1>3, <1>4, QuietKeeps DEF MInv, Waits, Counted, Live, Zombie, Waiting
<1>6. c # mm.src
  <2>1. p_flags[mm.src] \in InReply
    BY <1>3 DEF MInv, Source
  <2> QED BY <1>2, <2>1 DEF InReply, Free
<1>7. TypeInv'
  BY <1>1, <1>2 DEF MInv, TypeInv, MmPcs, ForkPcs, ExitPcs, WaitPcs
<1>8. Queue'
  <2>1. p_flags[c] # Blocked
    BY <1>2 DEF Free, Blocked
  <2>2. \A q \in Pids : Queued(q) => regs'[q] = regs[q]
    BY <1>1, <2>1 DEF MInv, Queue, TypeInv
  <2> QED BY <1>1, <2>2 DEF MInv, Queue, Queued
<1>9. InitLives' /\ Word'
  BY <1>1 DEF MInv, InitLives, Live, Zombie, Word
<1>10. Source'
  <2>1. regs'[mm.src] = regs[mm.src]
    BY <1>1, <1>6 DEF MInv, TypeInv
  <2> QED BY <1>1, <1>2, <1>3, <2>1 DEF MInv, Source
<1> QED BY <1>5, <1>7, <1>8, <1>9, <1>10 DEF MInv

\* do_fork copies the rest of the entry: the child lives, and FS does not know it yet.
LEMMA ForkDuplicateKeeps ==
  ASSUME MInv, ForkDuplicate
  PROVE  MInv'
<1>0. PICK c : c = IF mm.pc = "FORK" THEN FirstOf(FreeSlots) ELSE mm.who
  OBVIOUS
<1>1. /\ mm.pc \in {"FORK", "fork_copy"} /\ mm.call = "FORK" /\ mm.src \in Pids
      /\ ForkCopy(c)
      /\ regs' \in {regs, [regs EXCEPT ![c] = regs[mm.src]]}
      /\ mm' = [pc |-> "fork_fs", call |-> "FORK", src |-> mm.src, who |-> c,
                 status |-> mm.status, word |-> mm.word]
      /\ UNCHANGED <<q_sending, fs_procs>>
  BY <1>0 DEF ForkDuplicate, MmAt, MInv, TypeInv, ForkPcs
<1>2. c \in Pids /\ p_flags[c] = Free
  <2>1. CASE mm.pc = "FORK"
    BY <1>0, <2>1, FirstExists DEF ForkDuplicate, MmAt, FreeSlots, Free
  <2>2. CASE mm.pc = "fork_copy"
    BY <1>0, <2>2 DEF MInv, Source
  <2> QED BY <1>1, <2>1, <2>2
<1>3. ~Handing /\ ~Handing' /\ Serving /\ Uncounted = {} /\ Uncounted' = {c}
  BY <1>1 DEF Handing, Serving, Uncounted
<1>4. p_flags[mm.src] \in InReply /\ (p_flags[mm.src] = {} => regs[mm.src].at = "receive")
  BY <1>3 DEF MInv, Source
<1>5. c # mm.src /\ c # INIT
  <2>1. c # mm.src
    BY <1>2, <1>4 DEF InReply, Free
  <2>2. c # INIT
    BY <1>2 DEF MInv, InitLives, Live, Free
  <2> QED BY <2>1, <2>2
<1>6. /\ p_flags' = [p_flags EXCEPT ![c] = p_flags[mm.src]]
      /\ p_parent' = [p_parent EXCEPT ![c] = mm.src]
      /\ mem' = [mem EXCEPT ![c] = mem[mm.src]]
      /\ exit_status' = [exit_status EXCEPT ![c] = exit_status[mm.src]]
  BY <1>1 DEF ForkCopy
<1>7. /\ p_flags \in [Pids -> Shapes] /\ p_parent \in [Pids -> Pids \union {NO_TASK}]
      /\ DOMAIN mem = Pids /\ DOMAIN exit_status = Pids
      /\ regs \in [Pids -> [at : {"run", "receive", "got", "spin"}, call : Calls \union {"none"}]]
  BY DEF MInv, TypeInv
<1>8. /\ p_flags'[c] \in InReply /\ p_flags' \in [Pids -> Shapes]
      /\ \A q \in Pids : q # c => /\ p_flags'[q] = p_flags[q] /\ p_parent'[q] = p_parent[q]
                                  /\ mem'[q] = mem[q] /\ regs'[q] = regs[q]
  BY <1>1, <1>2, <1>4, <1>6, <1>7
<1>9. /\ ~Live(c) /\ ~Zombie(c)
      /\ Live(c)' /\ ~Zombie(c)' /\ ~Waiting(c)'
      /\ \A q \in Pids : q # c => /\ Live(q)' <=> Live(q)
                                  /\ Zombie(q)' <=> Zombie(q)
                                  /\ Waiting(q)' <=> Waiting(q)
  <2>1. ~Live(c) /\ ~Zombie(c)
    BY <1>2 DEF Live, Zombie, Free
  <2>2. Live(c)' /\ ~Zombie(c)' /\ ~Waiting(c)'
    BY <1>8 DEF Live, Zombie, Waiting, InReply
  <2> QED BY <1>8, <2>1, <2>2 DEF Live, Zombie, Waiting
<1>10. TypeInv'
  <2>1. p_parent' \in [Pids -> Pids \union {NO_TASK}] /\ DOMAIN mem' = Pids
        /\ DOMAIN exit_status' = Pids
    BY <1>1, <1>6, <1>7
  <2>2. regs' \in [Pids -> [at : {"run", "receive", "got", "spin"}, call : Calls \union {"none"}]]
    BY <1>1, <1>7
  <2> QED BY <1>1, <1>8, <2>1, <2>2 DEF MInv, TypeInv, MmPcs, ForkPcs, ExitPcs, WaitPcs
<1>11. Queue'
  <2>1. p_flags[c] # Blocked /\ p_flags'[c] # Blocked
    BY <1>2, <1>8 DEF Free, Blocked, InReply
  <2>2. ~Holds(q_sending, c)
    BY <1>2, <2>1 DEF MInv, Queue, Queued
  <2>3. \A q \in Pids : Holds(q_sending, q) <=> p_flags'[q] = Blocked
    BY <1>8, <2>1, <2>2 DEF MInv, Queue, Queued
  <2>4. \A q \in Pids : Holds(q_sending, q) => regs'[q].at = "receive" /\ mem'[q].type \in Calls
    BY <1>8, <2>2 DEF MInv, Queue, Queued
  <2>5. EachOnce(q_sending') /\ q_sending' = q_sending
    BY <1>1 DEF MInv, Queue
  <2> QED BY <2>3, <2>4, <2>5 DEF Queue, Queued
<1>12. InitLives'
  <2>1. INIT \in Pids
    BY MmAssumption DEF Pids, INIT
  <2>2. Live(INIT)' /\ ~Zombie(INIT)'
    BY <1>5, <1>9, <2>1 DEF MInv, InitLives
  <2> QED BY <1>1, <1>5, <1>8, <2>1, <2>2 DEF MInv, InitLives, Live, Zombie, INIT
<1>13. Source'
  <2>1. p_flags'[mm.src] = p_flags[mm.src] /\ regs'[mm.src] = regs[mm.src]
    BY <1>1, <1>5, <1>8
  <2> QED BY <1>1, <1>2, <1>3, <1>4, <1>5, <1>9, <2>1 DEF Source, Live, Zombie
<1>14. Word'
  BY <1>1 DEF MInv, Word
<1>15. Parents'
  <2>1. \A d \in Pids : p_parent'[d] # d
    BY <1>1, <1>5, <1>6, <1>7 DEF MInv, Parents
  <2>2. ASSUME NEW d \in Pids \ {INIT}, Live(d)'
        PROVE  p_parent'[d] \in Pids /\ Live(p_parent[d])' /\ ~Zombie(p_parent[d])'
    <3>1. CASE d = c
      <4>1. p_parent'[d] = mm.src
        BY <1>2, <1>6, <1>7, <3>1
      <4>2. p_flags'[mm.src] \in InReply
        BY <1>1, <1>4, <1>5, <1>8
      <4> QED BY <1>1, <4>1, <4>2 DEF Live, Zombie, InReply
    <3>2. CASE d # c
      <4>1. Live(d) /\ p_parent'[d] = p_parent[d]
        BY <1>8, <1>9, <2>2, <3>2
      <4>2. p_parent[d] \in Pids /\ Live(p_parent[d]) /\ ~Zombie(p_parent[d])
        BY <1>3, <4>1 DEF MInv, Parents, Orphan
      <4>3. p_parent[d] # c
        BY <1>9, <4>2
      <4> QED BY <1>8, <4>1, <4>2, <4>3 DEF Live, Zombie
    <3> QED BY <3>1, <3>2
  <2> QED BY <2>1, <2>2 DEF Parents, Live, Zombie
<1>16. Waits'
  <2>1. ASSUME NEW d \in Pids, Zombie(d)', p_parent'[d] \in Pids, Waiting(p_parent[d])'
        PROVE  FALSE
    <3>1. d # c /\ p_parent'[d] = p_parent[d]
      BY <1>8, <1>9, <2>1
    <3>2. p_parent[d] # c
      <4>1. ~"WAITING" \in p_flags'[c]
        BY <1>9 DEF Waiting
      <4>2. "WAITING" \in p_flags'[p_parent'[d]]
        BY <2>1 DEF Waiting
      <4> QED BY <3>1, <4>1, <4>2
    <3>3. Waiting(p_parent[d]) /\ Zombie(d)
      BY <1>8, <1>9, <2>1, <3>1, <3>2 DEF Waiting
    <3> QED BY <1>1, <2>1, <3>1, <3>3 DEF MInv, Waits
  <2> QED BY <1>1, <2>1 DEF Waits, Zombie, Waiting
<1>17. Counted'
  <2>1. fs_procs = {p \in Pids : Live(p) /\ ~Zombie(p)}
    BY <1>3 DEF MInv, Counted
  <2>2. {p \in Pids : Live(p) /\ ~Zombie(p)} = {p \in Pids : Live(p)' /\ ~Zombie(p)'} \ {c}
    BY <1>9
  <2> QED BY <1>1, <1>3, <2>1, <2>2 DEF Counted, Live, Zombie
<1> QED BY <1>10, <1>11, <1>12, <1>13, <1>14, <1>15, <1>16, <1>17 DEF MInv

\* FS counts the descriptors of the child.
LEMMA ForkTellsFsKeeps ==
  ASSUME MInv, ForkTellsFs
  PROVE  MInv'
<1>1. /\ mm.pc = "fork_fs" /\ mm.call = "FORK" /\ mm.src \in Pids
      /\ mm' = [pc |-> "birth", call |-> "FORK", src |-> mm.src, who |-> mm.who,
                 status |-> mm.status, word |-> mm.word]
      /\ fs_procs' = fs_procs \union {mm.who}
      /\ UNCHANGED <<p_flags, p_parent, exit_status, regs, mem, q_sending>>
  BY DEF ForkTellsFs, MmAt, MInv, TypeInv, ForkPcs
<1>2. mm.who \in Pids \ {INIT, mm.src} /\ Live(mm.who) /\ ~Zombie(mm.who)
  BY <1>1 DEF MInv, Source
<1>3. ~Handing /\ ~Handing' /\ Serving /\ Uncounted = {mm.who} /\ Uncounted' = {}
  BY <1>1 DEF Handing, Serving, Uncounted
<1>4. SameMarks
  BY <1>1 DEF SameMarks, Live, Zombie, Waiting
<1>5. Parents' /\ Waits'
  BY <1>1, <1>3, <1>4, QuietKeeps DEF MInv, Waits, Zombie, Waiting
<1>6. Counted'
  <2>1. fs_procs = {p \in Pids : Live(p) /\ ~Zombie(p)} \ {mm.who}
    BY <1>3 DEF MInv, Counted
  <2>2. fs_procs' = {p \in Pids : Live(p) /\ ~Zombie(p)}
    BY <1>1, <1>2, <2>1
  <2> QED BY <1>1, <1>3, <2>2 DEF Counted, Live, Zombie
<1>7. TypeInv'
  BY <1>1 DEF MInv, TypeInv, MmPcs, ForkPcs, ExitPcs, WaitPcs
<1>8. Queue' /\ InitLives' /\ Word'
  BY <1>1 DEF MInv, Queue, Queued, InitLives, Live, Zombie, Word
<1>9. Source'
  BY <1>1, <1>2, <1>3 DEF MInv, Source
<1> QED BY <1>5, <1>6, <1>7, <1>8, <1>9 DEF MInv

\* A process that receives MM's message goes on, with the marks it had.
LEMMA DeliveryKeeps ==
  ASSUME MInv, NEW p \in Pids, NEW m, Deliver(p, m), m.type = "SYSCALL_RET",
         p_flags' = [p_flags EXCEPT ![p] = @ \ {"RECEIVING"}],
         UNCHANGED <<p_parent, regs, q_sending>>
  PROVE  /\ SameMarks /\ Queue' /\ p_flags' \in [Pids -> Shapes] /\ DOMAIN mem' = Pids
         /\ mem'[INIT].type # "EXIT"
         /\ p_flags'[p] = p_flags[p] \ {"RECEIVING"} /\ p_flags[p] # Blocked
         /\ \A q \in Pids : q # p => p_flags'[q] = p_flags[q] /\ mem'[q] = mem[q]
<1>1. p_flags \in [Pids -> Shapes] /\ DOMAIN mem = Pids /\ p_flags[p] \in Shapes
  BY DEF MInv, TypeInv
<1>2. /\ "RECEIVING" \in p_flags[p]
      /\ mem' = [mem EXCEPT ![p] = m]
  BY DEF Deliver, Receiving
<1>3. /\ p_flags'[p] = p_flags[p] \ {"RECEIVING"}
      /\ \A q \in Pids : q # p => p_flags'[q] = p_flags[q] /\ mem'[q] = mem[q]
      /\ mem'[p] = m /\ DOMAIN mem' = Pids
  BY <1>1, <1>2
<1>4. p_flags' \in [Pids -> Shapes]
  <2>1. p_flags[p] \ {"RECEIVING"} \in Shapes
    BY <1>1, Unreplied
  <2> QED BY <1>1, <2>1
<1>5. SameMarks
  <2> DEFINE f == p_flags[p]
  <2>1. /\ "FREE_SLOT" \in f \ {"RECEIVING"} <=> "FREE_SLOT" \in f
        /\ "HANGING" \in f \ {"RECEIVING"} <=> "HANGING" \in f
        /\ "WAITING" \in f \ {"RECEIVING"} <=> "WAITING" \in f
    BY <1>1, Unreplied
  <2> QED BY <1>3, <2>1 DEF SameMarks, Live, Zombie, Waiting
<1>6. p_flags[p] # Blocked /\ p_flags'[p] # Blocked
  <2>1. p_flags[p] # Blocked
    BY <1>2 DEF Blocked
  <2>2. p_flags[p] \ {"RECEIVING"} = Blocked <=> p_flags[p] = Blocked
    BY <1>1, Unreplied
  <2> QED BY <1>3, <2>1, <2>2
<1>7. Queue'
  <2>1. ~Holds(q_sending, p)
    BY <1>6 DEF MInv, Queue, Queued
  <2>2. \A q \in Pids : Holds(q_sending, q) <=> p_flags'[q] = Blocked
    BY <1>3, <1>6, <2>1 DEF MInv, Queue, Queued
  <2>3. \A q \in Pids : Holds(q_sending, q) => regs'[q].at = "receive" /\ mem'[q].type \in Calls
    BY <1>3, <2>1 DEF MInv, Queue, Queued
  <2> QED BY <2>2, <2>3 DEF MInv, Queue, Queued
<1>8. mem'[INIT].type # "EXIT"
  <2>1. INIT \in Pids
    BY MmAssumption DEF Pids, INIT
  <2> QED BY <1>3, <2>1 DEF MInv, InitLives
<1> QED BY <1>3, <1>4, <1>5, <1>6, <1>7, <1>8

\* The child gets its reply.
LEMMA BirthKeeps ==
  ASSUME MInv, Birth
  PROVE  MInv'
<1>1. /\ mm.pc = "birth" /\ mm.call = "FORK" /\ mm.src \in Pids
      /\ mm' = [pc |-> "reply", call |-> "FORK", src |-> mm.src, who |-> mm.who,
                 status |-> mm.status, word |-> mm.word]
      /\ Deliver(mm.who, Reply(0, 0))
      /\ p_flags' = [p_flags EXCEPT ![mm.who] = @ \ {"RECEIVING"}]
      /\ UNCHANGED <<p_parent, exit_status, regs, q_sending, fs_procs>>
  BY DEF Birth, MmAt, MInv, TypeInv, ForkPcs
<1>2. mm.who \in Pids \ {INIT, mm.src}
  BY <1>1 DEF MInv, Source
<1>3. ~Handing /\ ~Handing' /\ Serving /\ Uncounted = {} /\ Uncounted' = {}
  BY <1>1 DEF Handing, Serving, Uncounted
<1>4. /\ SameMarks /\ Queue' /\ p_flags' \in [Pids -> Shapes] /\ DOMAIN mem' = Pids
      /\ mem'[INIT].type # "EXIT"
      /\ \A q \in Pids : q # mm.who => p_flags'[q] = p_flags[q]
  <2>1. Reply(0, 0).type = "SYSCALL_RET"
    BY DEF Reply, Message
  <2> QED BY <1>1, <1>2, <2>1, DeliveryKeeps
<1>5. Parents' /\ Waits' /\ Counted'
  BY <1>1, <1>3, <1>4, QuietKeeps DEF MInv, Waits, Counted, Live, Zombie, Waiting
<1>6. TypeInv'
  BY <1>1, <1>4 DEF MInv, TypeInv, MmPcs, ForkPcs, ExitPcs, WaitPcs
<1>7. InitLives' /\ Word'
  <2>1. INIT \in Pids
    BY MmAssumption DEF Pids, INIT
  <2> QED BY <1>1, <1>4, <2>1 DEF MInv, InitLives, SameMarks, Live, Zombie, Word
<1>8. Source'
  BY <1>1, <1>2, <1>3, <1>4 DEF MInv, Source
<1> QED BY <1>4, <1>5, <1>6, <1>7, <1>8 DEF MInv

\* The caller gets its reply.
LEMMA ReplyToCallerKeeps ==
  ASSUME MInv, ReplyToCaller
  PROVE  MInv'
<1>1. PICK pid, x : Deliver(mm.src, Reply(pid, x))
  BY DEF ReplyToCaller
<1>2. /\ mm.pc \in {"reply", "fail"} /\ mm.call \in {"FORK", "WAIT"} /\ mm.src \in Pids
      /\ mm' = [pc |-> "take", call |-> "none", src |-> NO_TASK, who |-> NO_TASK,
                 status |-> NoStatus, word |-> NotLoaded]
      /\ p_flags' = [p_flags EXCEPT ![mm.src] = @ \ {"RECEIVING"}]
      /\ UNCHANGED <<p_parent, exit_status, regs, q_sending, fs_procs>>
  BY DEF ReplyToCaller, MmAt, Idle, MInv, TypeInv
<1>3. ~Handing /\ ~Handing' /\ Uncounted = {} /\ Uncounted' = {}
  BY <1>2 DEF Handing, Serving, Uncounted
<1>4. /\ SameMarks /\ Queue' /\ p_flags' \in [Pids -> Shapes] /\ DOMAIN mem' = Pids
      /\ mem'[INIT].type # "EXIT"
  <2>1. Reply(pid, x).type = "SYSCALL_RET"
    BY DEF Reply, Message
  <2> QED BY <1>1, <1>2, <2>1, DeliveryKeeps
<1>5. Parents' /\ Waits' /\ Counted'
  BY <1>2, <1>3, <1>4, QuietKeeps DEF MInv, Waits, Counted, Live, Zombie, Waiting
<1>6. TypeInv'
  BY <1>2, <1>4 DEF MInv, TypeInv, MmPcs, ForkPcs, ExitPcs, WaitPcs
<1>7. InitLives' /\ Word'
  <2>1. INIT \in Pids
    BY MmAssumption DEF Pids, INIT
  <2> QED BY <1>2, <1>4, <2>1 DEF MInv, InitLives, SameMarks, Live, Zombie, Word
<1>8. Source'
  BY <1>2 DEF Source, Serving, Handing
<1> QED BY <1>4, <1>5, <1>6, <1>7, <1>8 DEF MInv

\* MM loads the flags it is going to update.
LEMMA LoadFlagsKeeps ==
  ASSUME MInv, LoadFlags
  PROVE  MInv'
<1>1. /\ mm.pc \in {"set_waiting", "set_hanging", "wake_parent"} /\ mm.src \in Pids
      /\ mm' = [pc |-> mm.pc, call |-> mm.call, src |-> mm.src, who |-> mm.who,
                 status |-> mm.status, word |-> p_flags[UpdateTarget]]
      /\ UNCHANGED <<p_flags, p_parent, exit_status, regs, mem, q_sending, fs_procs>>
  BY DEF LoadFlags, Updating, MInv, TypeInv
<1>2. /\ mm'.pc = mm.pc /\ mm'.call = mm.call /\ mm'.src = mm.src /\ mm'.who = mm.who
      /\ mm'.word = p_flags[UpdateTarget]
  BY <1>1
<1>3. (Handing' <=> Handing) /\ Serving' = Serving /\ Uncounted' = Uncounted
  BY <1>2 DEF Handing, Serving, Uncounted
<1>4. Word'
  <2>1. CASE mm.pc \in {"set_waiting", "set_hanging"}
    <3>1. UpdateTarget = mm.src /\ Serving
      BY <2>1 DEF UpdateTarget, Serving, Handing
    <3> QED BY <1>2, <2>1, <3>1 DEF MInv, Source, Word
  <2>2. CASE mm.pc = "wake_parent"
    <3>1. UpdateTarget = p_parent[mm.who]
      BY <2>2 DEF UpdateTarget
    <3> QED BY <1>2, <2>2, <3>1 DEF MInv, Source, Word
  <2> QED BY <1>1, <2>1, <2>2
<1>5. TypeInv'
  BY <1>1, <1>2 DEF MInv, TypeInv
<1>6. Queue' /\ InitLives'
  BY <1>1, <1>2 DEF MInv, Queue, Queued, InitLives, Live, Zombie
<1>7. Source'
  BY <1>1, <1>2, <1>3 DEF MInv, Source, Live, Zombie
<1>8. Parents'
  BY <1>1, <1>2, <1>3 DEF MInv, Parents, Orphan, Live, Zombie
<1>9. Waits' /\ Counted'
  BY <1>1, <1>2, <1>3 DEF MInv, Waits, Counted, Live, Zombie, Waiting
<1> QED BY <1>4, <1>5, <1>6, <1>7, <1>8, <1>9 DEF MInv

\* do_exit up to its look at the flags of the parent.
LEMMA ExitKeeps ==
  ASSUME MInv, Exit
  PROVE  MInv'
<1> DEFINE par == p_parent[mm.src]
<1>1. /\ mm.pc = "EXIT" /\ mm.call = "EXIT" /\ mm.src \in Pids
      /\ mm' = [pc |-> IF Waiting(par) THEN "wake_parent" ELSE "set_hanging",
                 call |-> "EXIT", src |-> mm.src, who |-> mm.src,
                 status |-> mm.status, word |-> mm.word]
      /\ fs_procs' = fs_procs \ {mm.src}
      /\ exit_status' = [exit_status EXCEPT ![mm.src] = mm.status]
      /\ UNCHANGED <<p_flags, p_parent, regs, mem, q_sending>>
  BY DEF Exit, FsExit, ExitRecord, ParentWaits, MmAt, MInv, TypeInv, ExitPcs
<1>2. ~Handing /\ ~Handing' /\ Serving /\ Uncounted = {} /\ Uncounted' = {mm.src}
  BY <1>1 DEF Handing, Serving, Uncounted
<1>3. SameMarks
  BY <1>1 DEF SameMarks, Live, Zombie, Waiting
<1>4. mm.src # INIT /\ p_flags[mm.src] \in InReply /\ p_flags \in [Pids -> Shapes]
  BY <1>1, <1>2 DEF MInv, InitLives, Source, TypeInv
<1>5. par \in Pids
  <2>1. Live(mm.src)
    BY <1>4 DEF Live, InReply
  <2> QED BY <1>1, <1>4, <2>1 DEF MInv, Parents
<1>6. Waiting(par) => p_flags[par] \in Asleep
  BY <1>4, <1>5, ShapeMarks DEF Waiting
<1>7. Parents'
  BY <1>1, <1>2, <1>3, QuietKeeps
<1>8. Waits'
  <2>1. mm'.pc = "set_hanging" => ~Waiting(par)
    BY <1>1
  <2>2. mm'.pc # "set_waiting"
    BY <1>1
  <2>3. \A c \in Pids : ~(Zombie(c)' /\ p_parent'[c] \in Pids /\ Waiting(p_parent[c])')
    BY <1>1, <1>2, <1>3, QuietKeeps
  <2> QED BY <1>1, <1>5, <2>1, <2>2, <2>3 DEF Waits, Zombie, Waiting
<1>9. Counted'
  <2>1. fs_procs = {p \in Pids : Live(p) /\ ~Zombie(p)}
    BY <1>2 DEF MInv, Counted
  <2> QED BY <1>1, <1>2, <2>1 DEF Counted, Live, Zombie
<1>10. TypeInv'
  <2>1. mm'.pc \in MmPcs /\ mm'.pc \in ExitPcs /\ mm'.pc \notin ForkPcs /\ mm'.pc \notin WaitPcs
        /\ mm'.pc # "cleanup" /\ mm'.pc # "fail"
    BY <1>1 DEF MmPcs, ForkPcs, ExitPcs, WaitPcs
  <2> QED BY <1>1, <2>1 DEF MInv, TypeInv
<1>11. Queue' /\ InitLives' /\ Word'
  BY <1>1 DEF MInv, Queue, Queued, InitLives, Live, Zombie, Word
<1>12. Source'
  BY <1>1, <1>2, <1>4, <1>5, <1>6 DEF MInv, Source
<1> QED BY <1>7, <1>8, <1>9, <1>10, <1>11, <1>12 DEF MInv

\* do_wait up to the child it has found, or none.
LEMMA WaitKeeps ==
  ASSUME MInv, Wait
  PROVE  MInv'
<1>1. /\ mm.pc = "WAIT" /\ mm.call = "WAIT" /\ mm.src \in Pids
      /\ mm' = [pc |-> mm'.pc, call |-> "WAIT", src |-> mm.src, who |-> mm'.who,
                 status |-> mm.status, word |-> mm.word]
      /\ UNCHANGED <<p_flags, p_parent, exit_status, regs, mem, q_sending, fs_procs>>
  BY DEF Wait, MmAt, MInv, TypeInv, WaitPcs
<1>2. \/ mm'.pc = "cleanup" /\ mm'.who \in Zombies(mm.src)
      \/ mm'.pc = "set_waiting" /\ Zombies(mm.src) = {}
      \/ mm'.pc = "fail"
  <2>1. Zombies(mm.src) # {} => FirstOf(Zombies(mm.src)) \in Zombies(mm.src)
    BY FirstExists DEF Zombies, Children
  <2> QED BY <2>1 DEF Wait, MInv, TypeInv
<1>3. ~Handing /\ ~Handing' /\ Serving /\ Serving' /\ Uncounted = {} /\ Uncounted' = {}
  BY <1>1, <1>2 DEF Handing, Serving, Uncounted
<1>4. SameMarks
  BY <1>1 DEF SameMarks, Live, Zombie, Waiting
<1>5. Parents' /\ Counted'
  BY <1>1, <1>3, <1>4, QuietKeeps DEF MInv, Counted, Live, Zombie, Waiting
<1>6. Waits'
  <2>1. mm'.pc = "set_waiting" => \A c \in Pids : Zombie(c) => p_parent[c] # mm.src
    BY <1>2 DEF Zombies, Children
  <2>2. mm'.pc # "set_hanging"
    BY <1>2
  <2>3. \A c \in Pids : ~(Zombie(c)' /\ p_parent'[c] \in Pids /\ Waiting(p_parent[c])')
    BY <1>1, <1>3, <1>4, QuietKeeps
  <2> QED BY <1>1, <2>1, <2>2, <2>3 DEF Waits, Zombie, Waiting
<1>7. TypeInv'
  <2>1. mm'.pc \in MmPcs /\ mm'.pc \notin ForkPcs /\ mm'.pc \notin ExitPcs
    BY <1>2 DEF MmPcs, ForkPcs, ExitPcs, WaitPcs
  <2> QED BY <1>1, <2>1 DEF MInv, TypeInv
<1>8. Queue' /\ InitLives' /\ Word'
  BY <1>1 DEF MInv, Queue, Queued, InitLives, Live, Zombie, Word
<1>9. Source'
  <2>1. p_flags[mm.src] \in InReply /\ (p_flags[mm.src] = {} => regs[mm.src].at = "receive")
    BY <1>3 DEF MInv, Source
  <2>2. mm'.pc = "cleanup" => /\ mm'.who \in Pids \ {INIT} /\ p_parent[mm'.who] = mm.src
                              /\ Zombie(mm'.who)
    BY <1>2 DEF MInv, InitLives, Zombies, Children
  <2> QED BY <1>1, <1>2, <1>3, <2>1, <2>2 DEF Source, Zombie
<1> QED BY <1>5, <1>6, <1>7, <1>8, <1>9 DEF MInv

\* What is stored in the entry, whichever word the update started from.
LEMMA StoredShapes ==
  ASSUME NEW f
  PROVE  /\ f \in InReply => f \union {"WAITING"} \in Asleep
         /\ f \in InReply => f \union {"HANGING"} \in Hanging
         /\ f \in Asleep => f \ {"WAITING"} \in InReply
<1>1. /\ {} \union {"WAITING"} = {"WAITING"}
      /\ {"RECEIVING"} \union {"WAITING"} = {"WAITING", "RECEIVING"}
      /\ {} \union {"HANGING"} = {"HANGING"}
      /\ {"RECEIVING"} \union {"HANGING"} = {"HANGING", "RECEIVING"}
      /\ {"WAITING"} \ {"WAITING"} = {}
      /\ {"WAITING", "RECEIVING"} \ {"WAITING"} = {"RECEIVING"}
  OBVIOUS
<1> QED BY <1>1 DEF InReply, Asleep, Hanging

\* One entry, that of a process that does not send, changes its shape.
LEMMA ShapeChanges ==
  ASSUME MInv, NEW r \in Pids, NEW g \in Shapes,
         p_flags' = [p_flags EXCEPT ![r] = g], p_flags[r] # Blocked, g # Blocked,
         UNCHANGED <<regs, mem, q_sending>>
  PROVE  /\ Queue' /\ p_flags' \in [Pids -> Shapes] /\ p_flags'[r] = g
         /\ \A q \in Pids : q # r => /\ p_flags'[q] = p_flags[q]
                                     /\ Live(q)' <=> Live(q)
                                     /\ Zombie(q)' <=> Zombie(q)
                                     /\ Waiting(q)' <=> Waiting(q)
<1>1. /\ p_flags \in [Pids -> Shapes] /\ p_flags' \in [Pids -> Shapes] /\ p_flags'[r] = g
      /\ \A q \in Pids : q # r => p_flags'[q] = p_flags[q]
  BY DEF MInv, TypeInv
<1>2. Queue'
  <2>1. \A q \in Pids : p_flags'[q] = Blocked <=> p_flags[q] = Blocked
    BY <1>1
  <2> QED BY <2>1 DEF MInv, Queue, Queued
<1> QED BY <1>1, <1>2 DEF Live, Zombie, Waiting

\* The caller of wait() is WAITING: it has children, and none of them hangs.
LEMMA SetWaitingKeeps ==
  ASSUME MInv, StoreFlags, mm.pc = "set_waiting"
  PROVE  MInv'
<1>0. PICK r : r = mm.src
  OBVIOUS
<1>1. r \in Pids /\ mm.call = "WAIT" /\ Serving /\ ~Handing /\ Uncounted = {}
      /\ p_flags[r] \in InReply
  <2>1. Serving /\ ~Handing /\ Uncounted = {}
    BY DEF Serving, Handing, Uncounted
  <2> QED BY <1>0, <2>1 DEF MInv, TypeInv, WaitPcs, Source
<1>2. PICK f : f \in InReply /\ p_flags' = [p_flags EXCEPT ![r] = f \union {"WAITING"}]
  <2> DEFINE f == IF SplitUpdates THEN mm.word ELSE p_flags[r]
  <2>1. f \in InReply
    BY <1>0, <1>1 DEF StoreFlags, MInv, Word
  <2>2. p_flags' = [p_flags EXCEPT ![r] = f \union {"WAITING"}]
    BY <1>0 DEF StoreFlags, UpdateTarget, Updated
  <2> QED BY <2>1, <2>2
<1>3. PICK g : g = f \union {"WAITING"}
  OBVIOUS
<1>4. g \in Asleep /\ g \in Shapes
  BY <1>2, <1>3, StoredShapes DEF Shapes
<1>5. /\ mm' = [pc |-> "take", call |-> "none", src |-> NO_TASK, who |-> NO_TASK,
                 status |-> NoStatus, word |-> NotLoaded]
      /\ UNCHANGED <<p_parent, exit_status, regs, mem, q_sending, fs_procs>>
  BY DEF StoreFlags, AfterUpdate, Idle
<1>6. p_flags[r] # Blocked /\ g # Blocked
  BY <1>1, <1>4, ShapeMarks DEF Shapes
<1>7. /\ Queue' /\ p_flags' \in [Pids -> Shapes] /\ p_flags'[r] = g
      /\ \A q \in Pids : q # r => /\ p_flags'[q] = p_flags[q]
                                  /\ Live(q)' <=> Live(q)
                                  /\ Zombie(q)' <=> Zombie(q)
                                  /\ Waiting(q)' <=> Waiting(q)
  BY <1>1, <1>2, <1>3, <1>4, <1>5, <1>6, ShapeChanges
<1>8. Live(r) /\ ~Zombie(r) /\ Live(r)' /\ ~Zombie(r)'
  BY <1>1, <1>4, <1>7 DEF Live, Zombie, InReply, Asleep
<1>9. ~Handing' /\ ~Serving' /\ Uncounted' = {}
  BY <1>5 DEF Handing, Serving, Uncounted
<1>10. \A q \in Pids : (Live(q)' <=> Live(q)) /\ (Zombie(q)' <=> Zombie(q))
  BY <1>7, <1>8
<1>11. TypeInv'
  BY <1>5, <1>7 DEF MInv, TypeInv, MmPcs, ForkPcs, ExitPcs, WaitPcs
<1>12. InitLives' /\ Word' /\ Source'
  <2>1. INIT \in Pids
    BY MmAssumption DEF Pids, INIT
  <2> QED BY <1>5, <1>9, <1>10, <2>1 DEF MInv, InitLives, Live, Zombie, Word, Source
<1>13. Parents'
  BY <1>1, <1>5, <1>10 DEF MInv, Parents, Orphan, Live, Zombie
<1>14. Waits'
  <2>1. ASSUME NEW c \in Pids, Zombie(c)', p_parent[c] \in Pids, Waiting(p_parent[c])'
        PROVE  FALSE
    <3>1. Zombie(c)
      BY <1>10, <2>1
    <3>2. p_parent[c] # r
      BY <1>0, <3>1 DEF MInv, Waits
    <3>3. Waiting(p_parent[c])
      BY <1>5, <1>7, <2>1, <3>2 DEF Waiting
    <3> QED BY <2>1, <3>1, <3>3 DEF MInv, Waits
  <2> QED BY <1>5, <2>1 DEF Waits, Zombie, Waiting
<1>15. Counted'
  <2>1. {p \in Pids : Live(p)' /\ ~Zombie(p)'} = {p \in Pids : Live(p) /\ ~Zombie(p)}
    BY <1>10
  <2> QED BY <1>1, <1>5, <1>9, <2>1 DEF MInv, Counted, Live, Zombie
<1> QED BY <1>7, <1>11, <1>12, <1>13, <1>14, <1>15 DEF MInv

\* The process that exits hangs, and its children are next.
LEMMA SetHangingKeeps ==
  ASSUME MInv, StoreFlags, mm.pc = "set_hanging"
  PROVE  MInv'
<1>0. PICK r : r = mm.src
  OBVIOUS
<1>1. r \in Pids /\ mm.call = "EXIT" /\ Serving /\ ~Handing /\ Uncounted = {r}
      /\ p_flags[r] \in InReply /\ r # INIT
  <2>1. Serving /\ ~Handing /\ Uncounted = {r}
    BY <1>0 DEF Serving, Handing, Uncounted
  <2> QED BY <1>0, <2>1 DEF MInv, TypeInv, ExitPcs, Source, InitLives
<1>2. PICK f : f \in InReply /\ p_flags' = [p_flags EXCEPT ![r] = f \union {"HANGING"}]
  <2> DEFINE f == IF SplitUpdates THEN mm.word ELSE p_flags[r]
  <2>1. f \in InReply
    BY <1>0, <1>1 DEF StoreFlags, MInv, Word
  <2>2. p_flags' = [p_flags EXCEPT ![r] = f \union {"HANGING"}]
    BY <1>0 DEF StoreFlags, UpdateTarget, Updated
  <2> QED BY <2>1, <2>2
<1>3. PICK g : g = f \union {"HANGING"}
  OBVIOUS
<1>4. g \in Hanging /\ g \in Shapes
  BY <1>2, <1>3, StoredShapes DEF Shapes
<1>5. /\ mm' = [pc |-> "adopt", call |-> "EXIT", src |-> r, who |-> First,
                 status |-> mm.status, word |-> NotLoaded]
      /\ UNCHANGED <<p_parent, exit_status, regs, mem, q_sending, fs_procs>>
  BY <1>0, <1>1 DEF StoreFlags, AfterUpdate, MInv, TypeInv
<1>6. p_flags[r] # Blocked /\ g # Blocked
  BY <1>1, <1>4, ShapeMarks DEF Shapes
<1>7. /\ Queue' /\ p_flags' \in [Pids -> Shapes] /\ p_flags'[r] = g
      /\ \A q \in Pids : q # r => /\ p_flags'[q] = p_flags[q]
                                  /\ Live(q)' <=> Live(q)
                                  /\ Zombie(q)' <=> Zombie(q)
                                  /\ Waiting(q)' <=> Waiting(q)
  BY <1>1, <1>2, <1>3, <1>4, <1>5, <1>6, ShapeChanges
<1>8. Live(r) /\ ~Zombie(r) /\ Live(r)' /\ Zombie(r)' /\ ~Waiting(r)'
  BY <1>1, <1>4, <1>7 DEF Live, Zombie, Waiting, InReply, Hanging
<1>9. Handing' /\ ~Serving' /\ Uncounted' = {}
  BY <1>5 DEF Handing, Serving, Uncounted
<1>10. TypeInv'
  BY <1>1, <1>5, <1>7 DEF MInv, TypeInv, MmPcs, ForkPcs, ExitPcs, WaitPcs
<1>11. InitLives' /\ Word'
  <2>1. INIT \in Pids
    BY MmAssumption DEF Pids, INIT
  <2>2. Live(INIT)' /\ ~Zombie(INIT)'
    BY <1>1, <1>7, <2>1 DEF MInv, InitLives
  <2> QED BY <1>1, <1>5, <2>2 DEF MInv, InitLives, Live, Zombie, Word
<1>12. Source'
  <2>1. First \in First .. Last + 1
    BY MmAssumption
  <2> QED BY <1>4, <1>5, <1>7, <1>9, <2>1 DEF Source
<1>13. Parents'
  <2>1. ASSUME NEW c \in Pids \ {INIT}, Live(c)'
        PROVE  p_parent[c] \in Pids /\ (Orphan(c)' \/ (Live(p_parent[c])' /\ ~Zombie(p_parent[c])'))
    <3>1. Live(c)
      BY <1>7, <1>8, <2>1
    <3>2. p_parent[c] \in Pids /\ Live(p_parent[c]) /\ ~Zombie(p_parent[c])
      BY <1>1, <3>1 DEF MInv, Parents, Orphan
    <3>3. CASE p_parent[c] = r
      <4>1. c >= First
        BY MmAssumption DEF Pids
      <4> QED BY <1>5, <1>9, <3>2, <3>3, <4>1 DEF Orphan
    <3>4. CASE p_parent[c] # r
      BY <1>5, <1>7, <3>2, <3>4 DEF Live, Zombie
    <3> QED BY <3>3, <3>4
  <2> QED BY <1>5, <2>1 DEF MInv, Parents, Live, Zombie
<1>14. Waits'
  <2>1. ASSUME NEW c \in Pids, Zombie(c)', p_parent[c] \in Pids, Waiting(p_parent[c])'
        PROVE  FALSE
    <3>1. p_parent[c] # r
      BY <1>5, <1>8, <2>1 DEF Waiting
    <3>2. Waiting(p_parent[c])
      BY <1>5, <1>7, <2>1, <3>1 DEF Waiting
    <3>3. c # r
      BY <1>0, <2>1, <3>2 DEF MInv, Waits
    <3>4. Zombie(c)
      BY <1>7, <2>1, <3>3
    <3> QED BY <2>1, <3>2, <3>4 DEF MInv, Waits
  <2> QED BY <1>5, <2>1 DEF Waits, Zombie, Waiting
<1>15. Counted'
  <2>1. {p \in Pids : Live(p)' /\ ~Zombie(p)'} = {p \in Pids : Live(p) /\ ~Zombie(p)} \ {r}
    BY <1>7, <1>8
  <2> QED BY <1>1, <1>5, <1>9, <2>1 DEF MInv, Counted, Live, Zombie
<1> QED BY <1>7, <1>10, <1>11, <1>12, <1>13, <1>14, <1>15 DEF MInv

\* The parent waits no more; the child that ended its wait is cleaned up next.
LEMMA WakeParentKeeps ==
  ASSUME MInv, StoreFlags, mm.pc = "wake_parent"
  PROVE  MInv'
<1>0. PICK r : r = p_parent[mm.who]
  OBVIOUS
<1>1. /\ r \in Pids /\ mm.call = "EXIT" /\ mm.src \in Pids /\ mm.who \in Pids \ {INIT}
      /\ p_flags[r] \in Asleep /\ mm.who # r
      /\ mm.who # mm.src => Zombie(mm.who)
      /\ p_flags \in [Pids -> Shapes]
  BY <1>0 DEF MInv, TypeInv, ExitPcs, Source, Parents
<1>2. PICK f : f \in Asleep /\ p_flags' = [p_flags EXCEPT ![r] = f \ {"WAITING"}]
  <2> DEFINE f == IF SplitUpdates THEN mm.word ELSE p_flags[r]
  <2>1. f \in Asleep
    BY <1>0, <1>1 DEF StoreFlags, MInv, Word
  <2>2. p_flags' = [p_flags EXCEPT ![r] = f \ {"WAITING"}]
    BY <1>0 DEF StoreFlags, UpdateTarget, Updated
  <2> QED BY <2>1, <2>2
<1>3. PICK g : g = f \ {"WAITING"}
  OBVIOUS
<1>4. g \in InReply /\ g \in Shapes
  BY <1>2, <1>3, StoredShapes DEF Shapes
<1>5. /\ mm' = [pc |-> "cleanup", call |-> "EXIT", src |-> mm.src, who |-> mm.who,
                 status |-> mm.status, word |-> NotLoaded]
      /\ UNCHANGED <<p_parent, exit_status, regs, mem, q_sending, fs_procs>>
  BY <1>1 DEF StoreFlags, AfterUpdate, MInv, TypeInv
<1>6. p_flags[r] # Blocked /\ g # Blocked
  BY <1>1, <1>4, ShapeMarks DEF Shapes
<1>7. /\ Queue' /\ p_flags' \in [Pids -> Shapes] /\ p_flags'[r] = g
      /\ \A q \in Pids : q # r => /\ p_flags'[q] = p_flags[q]
                                  /\ Live(q)' <=> Live(q)
                                  /\ Zombie(q)' <=> Zombie(q)
                                  /\ Waiting(q)' <=> Waiting(q)
  BY <1>1, <1>2, <1>3, <1>4, <1>5, <1>6, ShapeChanges
<1>8. Live(r) /\ ~Zombie(r) /\ Live(r)' /\ ~Zombie(r)' /\ ~Waiting(r)'
  BY <1>1, <1>4, <1>7 DEF Live, Zombie, Waiting, InReply, Asleep
<1>9. /\ mm'.pc = "cleanup" /\ mm'.call = mm.call /\ mm'.src = mm.src /\ mm'.who = mm.who
      /\ mm'.word = NotLoaded
  BY <1>1, <1>5
<1>10. (Handing' <=> Handing) /\ (Serving' <=> Serving) /\ Uncounted' = Uncounted
  BY <1>9 DEF Handing, Serving, Uncounted
<1>11. \A q \in Pids : (Live(q)' <=> Live(q)) /\ (Zombie(q)' <=> Zombie(q))
  BY <1>7, <1>8
<1>12. TypeInv'
  BY <1>1, <1>5, <1>7 DEF MInv, TypeInv, MmPcs, ForkPcs, ExitPcs, WaitPcs
<1>13. InitLives' /\ Word'
  <2>1. INIT \in Pids
    BY MmAssumption DEF Pids, INIT
  <2> QED BY <1>1, <1>5, <1>11, <2>1 DEF MInv, InitLives, Live, Zombie, Word
<1>14. Source'
  <2>1. mm.src # r
    <3>1. p_flags[mm.src] \in InReply \union Hanging \union {Free}
      BY DEF MInv, Source, Serving
    <3> QED BY <1>1, <3>1 DEF InReply, Hanging, Free, Asleep
  <2>2. p_flags'[mm.src] = p_flags[mm.src]
    BY <1>1, <1>7, <2>1
  <2>3. mm.who # mm.src => Zombie(mm.who)'
    BY <1>1, <1>9, <1>11 DEF Zombie
  <2> QED BY <1>0, <1>1, <1>4, <1>5, <1>7, <1>9, <1>10, <2>2, <2>3
          DEF MInv, Source, Zombie
<1>15. Parents'
  <2>1. \A c : Orphan(c)' <=> Orphan(c)
    BY <1>5, <1>9, <1>10 DEF Orphan
  <2> QED BY <1>5, <1>11, <2>1 DEF MInv, Parents, Live, Zombie
<1>16. Waits'
  <2>1. ASSUME NEW c \in Pids, Zombie(c)', p_parent[c] \in Pids, Waiting(p_parent[c])'
        PROVE  FALSE
    <3>1. p_parent[c] # r
      BY <1>5, <1>8, <2>1 DEF Waiting
    <3>2. Waiting(p_parent[c]) /\ Zombie(c)
      BY <1>5, <1>7, <1>11, <2>1, <3>1 DEF Waiting
    <3> QED BY <1>0, <2>1, <3>1, <3>2 DEF MInv, Waits
  <2> QED BY <1>5, <2>1 DEF Waits, Zombie, Waiting
<1>17. Counted'
  <2>1. {p \in Pids : Live(p)' /\ ~Zombie(p)'} = {p \in Pids : Live(p) /\ ~Zombie(p)}
    BY <1>11
  <2> QED BY <1>5, <1>10, <2>1 DEF MInv, Counted, Live, Zombie
<1> QED BY <1>7, <1>12, <1>13, <1>14, <1>15, <1>16, <1>17 DEF MInv

\* A child of the process that exits is handed to INIT.
LEMMA AdoptKeeps ==
  ASSUME MInv, AdoptRound, mm.who \in Pids, p_parent[mm.who] = mm.src
  PROVE  MInv'
<1>0. PICK k : k = mm.who
  OBVIOUS
<1>1. /\ mm.pc = "adopt" /\ mm.call = "EXIT" /\ mm.src \in Pids /\ Handing /\ ~Serving
      /\ Uncounted = {} /\ mm.word = NotLoaded
      /\ p_flags[mm.src] \in Hanging \union {Free}
  <2>1. mm.pc = "adopt"
    BY DEF AdoptRound, MmAt
  <2> QED BY <2>1 DEF MInv, TypeInv, ExitPcs, Handing, Serving, Uncounted, Word, Source
<1>2. INIT \in Pids /\ k \in Pids /\ k # INIT /\ k # mm.src
  <2>1. INIT \in Pids /\ NO_TASK \notin Pids
    BY MmAssumption DEF Pids, INIT
  <2> QED BY <1>0, <1>1, <2>1 DEF MInv, InitLives, Parents
<1>3. /\ p_parent' = [p_parent EXCEPT ![k] = INIT]
      /\ UNCHANGED <<p_flags, exit_status, regs, mem, q_sending, fs_procs>>
      /\ p_parent \in [Pids -> Pids \union {NO_TASK}]
  BY <1>0 DEF AdoptRound, Adopt, MInv, TypeInv
<1>4. /\ p_parent'[k] = INIT /\ \A c \in Pids : c # k => p_parent'[c] = p_parent[c]
      /\ p_parent' \in [Pids -> Pids \union {NO_TASK}]
  BY <1>2, <1>3
<1>5. /\ mm' = [pc |-> mm'.pc, call |-> "EXIT", src |-> mm.src, who |-> mm'.who,
                 status |-> mm.status, word |-> NotLoaded]
      /\ \/ mm'.pc = "wake_parent" /\ mm'.who = k /\ Waiting(INIT) /\ Zombie(k)
         \/ mm'.pc = "adopt" /\ mm'.who = k + 1 /\ ~(Waiting(INIT) /\ Zombie(k))
  BY <1>0, <1>1 DEF AdoptRound, WakesInit, MInv, TypeInv
<1>6. Handing' /\ ~Serving' /\ Uncounted' = {} /\ mm'.src = mm.src
  BY <1>1, <1>2, <1>5 DEF Handing, Serving, Uncounted
<1>7. \A c \in Pids : c # k => (Orphan(c)' <=> Orphan(c))
  <2>1. \A c \in Pids : c # k => (c >= k <=> c >= k + 1)
    BY <1>2, MmAssumption DEF Pids
  <2>2. \A c \in Pids : c # k => (c >= k <=> c > k)
    BY <1>2, MmAssumption DEF Pids
  <2>3. \A c \in Pids : c # k => (Orphan(c) <=> p_parent[c] = mm.src /\ c >= k)
    BY <1>0, <1>1 DEF Orphan
  <2>4. \A c \in Pids : c # k => (Orphan(c)' <=> p_parent[c] = mm.src /\ c >= k)
    BY <1>4, <1>5, <1>6, <2>1, <2>2 DEF Orphan
  <2> QED BY <2>3, <2>4
<1>8. TypeInv'
  <2>1. mm'.pc \in MmPcs /\ mm'.pc \notin ForkPcs /\ mm'.pc \notin WaitPcs
        /\ mm'.pc # "cleanup" /\ mm'.pc # "fail"
    BY <1>5 DEF MmPcs, ForkPcs, ExitPcs, WaitPcs
  <2> QED BY <1>1, <1>3, <1>4, <1>5, <2>1 DEF MInv, TypeInv
<1>9. Queue' /\ InitLives' /\ Word'
  <2>1. Queue'
    BY <1>3 DEF MInv, Queue, Queued
  <2>2. InitLives'
    BY <1>1, <1>2, <1>3, <1>4, <1>5 DEF MInv, InitLives, Live, Zombie, INIT
  <2> QED BY <1>5, <2>1, <2>2 DEF Word
<1>10. Source'
  <2>1. mm'.pc = "adopt" => mm'.who \in First .. Last + 1
    BY <1>2, <1>5, MmAssumption DEF Pids
  <2>2. mm'.pc = "wake_parent" => p_flags[INIT] \in Asleep /\ Zombie(k)
    BY <1>2, <1>5, ShapeMarks DEF Waiting, MInv, TypeInv
  <2> QED BY <1>1, <1>2, <1>3, <1>4, <1>5, <1>6, <2>1, <2>2 DEF Source, Zombie
<1>11. Parents'
  <2>1. ASSUME NEW c \in Pids \ {INIT}, Live(c)
        PROVE  p_parent'[c] \in Pids
               /\ (Orphan(c)' \/ (Live(p_parent'[c]) /\ ~Zombie(p_parent'[c])))
    <3>1. CASE c = k
      BY <1>2, <1>4, <3>1 DEF MInv, InitLives
    <3>2. CASE c # k
      BY <1>4, <1>7, <2>1, <3>2 DEF MInv, Parents
    <3> QED BY <3>1, <3>2
  <2>2. \A c \in Pids : p_parent'[c] # c
    BY <1>2, <1>4 DEF MInv, Parents
  <2> QED BY <1>3, <2>1, <2>2 DEF Parents, Live, Zombie
<1>12. Waits'
  <2>1. ASSUME NEW c \in Pids, Zombie(c), p_parent'[c] \in Pids, Waiting(p_parent'[c])
        PROVE  mm'.pc = "wake_parent" /\ c = mm'.who
    <3>1. CASE c = k
      BY <1>4, <1>5, <2>1, <3>1
    <3>2. CASE c # k
      BY <1>1, <1>4, <2>1, <3>2 DEF MInv, Waits
    <3> QED BY <3>1, <3>2
  <2> QED BY <1>3, <1>5, <2>1 DEF Waits, Zombie, Waiting
<1>13. Counted'
  BY <1>1, <1>3, <1>6 DEF MInv, Counted, Live, Zombie
<1> QED BY <1>8, <1>9, <1>10, <1>11, <1>12, <1>13 DEF MInv

\* The loop passes an entry that is no child, or ends.
LEMMA AdoptPassKeeps ==
  ASSUME MInv, AdoptRound, ~(mm.who \in Pids /\ p_parent[mm.who] = mm.src)
  PROVE  MInv'
<1>0. PICK k : k = mm.who
  OBVIOUS
<1>1. /\ mm.pc = "adopt" /\ mm.call = "EXIT" /\ mm.src \in Pids /\ Handing /\ ~Serving
      /\ Uncounted = {} /\ mm.word = NotLoaded /\ k \in First .. Last + 1
      /\ p_flags[mm.src] \in Hanging \union {Free}
  <2>1. mm.pc = "adopt"
    BY DEF AdoptRound, MmAt
  <2> QED BY <1>0, <2>1 DEF MInv, TypeInv, ExitPcs, Handing, Serving, Uncounted, Word, Source
<1>2. /\ UNCHANGED <<p_flags, p_parent, exit_status, regs, mem, q_sending, fs_procs>>
      /\ \/ /\ k \in Pids
            /\ mm' = [pc |-> "adopt", call |-> "EXIT", src |-> mm.src, who |-> k + 1,
                      status |-> mm.status, word |-> NotLoaded]
         \/ /\ k \notin Pids
            /\ mm' = [pc |-> "take", call |-> "none", src |-> NO_TASK, who |-> NO_TASK,
                      status |-> NoStatus, word |-> NotLoaded]
  BY <1>0, <1>1 DEF AdoptRound, Idle, MInv, TypeInv
<1>3. /\ ~Serving' /\ Uncounted' = {} /\ mm'.word = NotLoaded
      /\ mm'.pc \in {"adopt", "take"}
      /\ mm'.pc = "adopt" => /\ k \in Pids /\ mm'.src = mm.src /\ mm'.call = "EXIT"
                             /\ mm'.who = k + 1
      /\ Handing' <=> mm'.pc = "adopt"
  BY <1>2 DEF Handing, Serving, Uncounted
<1>4. \A c \in Pids : Orphan(c) => Orphan(c)'
  <2>1. SUFFICES ASSUME NEW c \in Pids, p_parent[c] = mm.src, c >= k
                 PROVE  Orphan(c)'
    BY <1>0, <1>1 DEF Orphan
  <2>2. c # k
    BY <1>0, <2>1
  <2>3. k \in Pids /\ c >= k + 1
    BY <1>1, <2>1, <2>2, MmAssumption DEF Pids
  <2> QED BY <1>2, <1>3, <2>1, <2>3 DEF Orphan
<1>5. TypeInv'
  BY <1>1, <1>2 DEF MInv, TypeInv, MmPcs, ForkPcs, ExitPcs, WaitPcs
<1>6. Queue' /\ InitLives' /\ Word'
  BY <1>1, <1>2, <1>3 DEF MInv, Queue, Queued, InitLives, Live, Zombie, Word
<1>7. Source'
  <2>1. mm'.pc = "adopt" => mm'.who \in First .. Last + 1
    BY <1>3, MmAssumption DEF Pids
  <2> QED BY <1>1, <1>2, <1>3, <2>1 DEF Source
<1>8. Parents'
  BY <1>2, <1>4 DEF MInv, Parents, Live, Zombie
<1>9. Waits' /\ Counted'
  BY <1>1, <1>2, <1>3 DEF MInv, Waits, Counted, Live, Zombie, Waiting
<1> QED BY <1>5, <1>6, <1>7, <1>8, <1>9 DEF MInv

\* A child that hangs, or exits, is released, and its parent has its status.
LEMMA CleanupKeeps ==
  ASSUME MInv, Cleanup
  PROVE  MInv'
<1>0. PICK p, r : p = mm.who /\ r = p_parent[mm.who]
  OBVIOUS
<1>1. /\ mm.pc = "cleanup" /\ mm.src \in Pids /\ mm.call \in {"EXIT", "WAIT"}
      /\ p \in Pids \ {INIT} /\ r \in Pids /\ r # p
      /\ p_flags[r] \in InReply \union {Blocked}
      /\ mm.call = "WAIT" \/ p # mm.src => Zombie(p)
      /\ p_flags \in [Pids -> Shapes] /\ DOMAIN mem = Pids
      /\ mm.word = NotLoaded
  <2>1. mm.pc = "cleanup"
    BY DEF Cleanup, MmAt
  <2> QED BY <1>0, <2>1 DEF MInv, TypeInv, Source, Parents, Word
<1>2. PICK m : /\ m.type = "SYSCALL_RET" /\ Deliver(r, m)
               /\ p_flags' = [p_flags EXCEPT ![r] = @ \ {"RECEIVING"}, ![p] = Free]
               /\ UNCHANGED <<p_parent, exit_status, regs, q_sending, fs_procs>>
  <2>1. Reply(p, exit_status[p]).type = "SYSCALL_RET"
    BY DEF Reply, Message
  <2> QED BY <1>0, <2>1 DEF Cleanup, Free
<1>3. \/ /\ mm.call = "WAIT"
         /\ mm' = [pc |-> "take", call |-> "none", src |-> NO_TASK, who |-> NO_TASK,
                   status |-> NoStatus, word |-> NotLoaded]
      \/ /\ mm.call = "EXIT"
         /\ mm' = [pc |-> "adopt", call |-> "EXIT", src |-> mm.src,
                   who |-> IF p = mm.src THEN First ELSE p + 1,
                   status |-> mm.status, word |-> NotLoaded]
  BY <1>0, <1>1 DEF Cleanup, Idle, MInv, TypeInv
<1>4. p_flags[r] = {"RECEIVING"} /\ mem' = [mem EXCEPT ![r] = m]
  BY <1>1, <1>2 DEF Deliver, Receiving, InReply, Blocked
<1>5. /\ p_flags'[r] = {} /\ p_flags'[p] = Free
      /\ \A q \in Pids \ {p, r} : p_flags'[q] = p_flags[q]
      /\ mem'[r] = m /\ DOMAIN mem' = Pids
      /\ \A q \in Pids : q # r => mem'[q] = mem[q]
  <2>1. {"RECEIVING"} \ {"RECEIVING"} = {}
    OBVIOUS
  <2> QED BY <1>1, <1>2, <1>4, <2>1
<1>6. p_flags' \in [Pids -> Shapes]
  <2>1. {} \in Shapes /\ Free \in Shapes
    BY DEF Shapes, InReply
  <2>2. \A q \in Pids : p_flags'[q] \in Shapes
    BY <1>1, <1>5, <2>1
  <2> QED BY <1>1, <1>2, <2>2
<1>7. /\ ~Live(p)' /\ ~Zombie(p)' /\ ~Waiting(p)'
      /\ Live(r) /\ ~Zombie(r) /\ Live(r)' /\ ~Zombie(r)' /\ ~Waiting(r)'
      /\ \A q \in Pids \ {p, r} : /\ Live(q)' <=> Live(q)
                                  /\ Zombie(q)' <=> Zombie(q)
                                  /\ Waiting(q)' <=> Waiting(q)
  BY <1>4, <1>5 DEF Live, Zombie, Waiting, Free
<1>8. \/ mm.call = "WAIT" /\ ~Handing /\ Uncounted = {}
      \/ mm.call = "EXIT" /\ p = mm.src /\ ~Handing /\ Serving /\ Uncounted = {p}
      \/ mm.call = "EXIT" /\ p # mm.src /\ Handing /\ Uncounted = {}
  BY <1>0, <1>1 DEF Handing, Serving, Uncounted
<1>9. p_flags[p] # Blocked
  <2>1. CASE Zombie(p)
    BY <2>1 DEF Zombie, Blocked
  <2>2. CASE p = mm.src /\ Serving
    BY <2>2 DEF MInv, Source, InReply, Blocked
  <2> QED BY <1>1, <1>8, <2>1, <2>2
<1>10. /\ ~Serving' /\ Uncounted' = {} /\ mm'.word = NotLoaded
       /\ Handing' <=> mm.call = "EXIT"
  BY <1>3 DEF Handing, Serving, Uncounted
<1>11. TypeInv'
  <2>1. /\ p_parent' \in [Pids -> Pids \union {NO_TASK}]
        /\ DOMAIN exit_status' = Pids
        /\ regs' \in [Pids -> [at : {"run", "receive", "got", "spin"},
                              call : Calls \union {"none"}]]
        /\ q_sending' \in Seq(Pids)
    BY <1>2 DEF MInv, TypeInv
  <2>2. mm'.pc = "take" \/ (mm'.pc = "adopt" /\ mm'.call = "EXIT" /\ mm'.src \in Pids)
    BY <1>1, <1>3
  <2>3. mm' = [pc |-> mm'.pc, call |-> mm'.call, src |-> mm'.src, who |-> mm'.who,
               status |-> mm'.status, word |-> mm'.word]
    BY <1>3
  <2> QED BY <1>5, <1>6, <2>1, <2>2, <2>3 DEF TypeInv, MmPcs, ForkPcs, ExitPcs, WaitPcs
<1>12. Queue'
  <2>1. \A q \in {p, r} : p_flags[q] # Blocked /\ p_flags'[q] # Blocked
    BY <1>4, <1>5, <1>9 DEF Blocked, Free
  <2>2. \A q \in Pids : p_flags'[q] = Blocked <=> p_flags[q] = Blocked
    BY <1>5, <2>1
  <2>3. ~Holds(q_sending, r)
    BY <1>1, <2>1 DEF MInv, Queue, Queued
  <2>4. \A q \in Pids : Holds(q_sending, q) => regs'[q].at = "receive" /\ mem'[q].type \in Calls
    BY <1>2, <1>5, <2>3 DEF MInv, Queue, Queued
  <2> QED BY <1>2, <2>2, <2>4 DEF MInv, Queue, Queued
<1>13. InitLives' /\ Word'
  <2>1. INIT \in Pids /\ INIT # p
    BY <1>1, MmAssumption DEF Pids, INIT
  <2>2. Live(INIT)' /\ ~Zombie(INIT)'
    BY <1>7, <2>1 DEF MInv, InitLives
  <2>3. mem'[INIT].type # "EXIT"
    BY <1>2, <1>5, <2>1 DEF MInv, InitLives
  <2>4. (mm'.pc # "take" /\ mm'.call = "EXIT") => mm'.src # INIT
    BY <1>1, <1>3 DEF MInv, InitLives
  <2> QED BY <1>2, <1>10, <2>2, <2>3, <2>4 DEF MInv, InitLives, Live, Zombie, Word
<1>14. Source'
  <2>1. mm.call = "EXIT" => p_flags'[mm.src] \in Hanging \union {Free}
    <3>1. CASE p = mm.src
      BY <1>5, <3>1
    <3>2. CASE mm.call = "EXIT" /\ p # mm.src
      <4>1. p_flags[mm.src] \in Hanging \union {Free}
        BY <1>8, <3>2 DEF MInv, Source
      <4>2. mm.src # r
        BY <1>4, <4>1 DEF Hanging, Free
      <4> QED BY <1>1, <1>5, <3>2, <4>1, <4>2
    <3> QED BY <3>1, <3>2
  <2>2. mm.call = "EXIT" => mm'.pc = "adopt" /\ mm'.src = mm.src /\ mm'.who \in First .. Last + 1
    BY <1>1, <1>3, MmAssumption DEF Pids
  <2>3. mm'.pc \in {"take", "adopt"} /\ (mm'.pc = "adopt" => mm.call = "EXIT")
    BY <1>3
  <2> QED BY <1>10, <2>1, <2>2, <2>3 DEF Source
<1>15. Parents'
  <2>1. ASSUME NEW c \in Pids \ {INIT}, Live(c)'
        PROVE  p_parent[c] \in Pids /\ (Orphan(c)' \/ (Live(p_parent[c])' /\ ~Zombie(p_parent[c])'))
    <3>1. c # p /\ Live(c)
      BY <1>7, <2>1
    <3>2. p_parent[c] \in Pids /\ (Orphan(c) \/ (Live(p_parent[c]) /\ ~Zombie(p_parent[c])))
      BY <3>1 DEF MInv, Parents
    <3>3. CASE p_parent[c] \notin {p, r}
      <4>1. CASE Orphan(c)
        <5>1. mm.call = "EXIT" /\ p # mm.src /\ p_parent[c] = mm.src /\ c > p
          BY <1>0, <1>1, <1>8, <4>1 DEF Orphan
        <5>2. c >= p + 1
          BY <1>1, <5>1, MmAssumption DEF Pids
        <5> QED BY <1>2, <1>3, <1>10, <3>2, <5>1, <5>2 DEF Orphan
      <4>2. CASE Live(p_parent[c]) /\ ~Zombie(p_parent[c])
        BY <1>2, <1>5, <3>2, <3>3, <4>2 DEF Live, Zombie
      <4> QED BY <3>2, <4>1, <4>2
    <3>4. CASE p_parent[c] = r
      BY <1>1, <1>2, <1>7, <3>4 DEF Live, Zombie
    <3>5. CASE p_parent[c] = p
      <4>1. mm.call = "EXIT" /\ p = mm.src
        BY <1>0, <1>1, <1>8, <3>2, <3>5 DEF Orphan
      <4>2. c >= First
        BY MmAssumption DEF Pids
      <4> QED BY <1>2, <1>3, <1>10, <3>2, <3>5, <4>1, <4>2 DEF Orphan
    <3> QED BY <3>3, <3>4, <3>5
  <2> QED BY <1>2, <2>1 DEF MInv, Parents, Live, Zombie
<1>16. Waits'
  <2>1. ASSUME NEW c \in Pids, Zombie(c)', p_parent[c] \in Pids, Waiting(p_parent[c])'
        PROVE  FALSE
    <3>1. p_parent[c] \notin {p, r}
      BY <1>2, <1>7, <2>1 DEF Waiting
    <3>2. Waiting(p_parent[c])
      BY <1>2, <1>5, <2>1, <3>1 DEF Waiting
    <3>3. Zombie(c)
      BY <1>7, <2>1
    <3> QED BY <1>1, <2>1, <3>2, <3>3 DEF MInv, Waits
  <2>2. mm'.pc # "set_waiting" /\ mm'.pc # "set_hanging"
    BY <1>3
  <2>3. \A c \in Pids : ~(Zombie(c)' /\ p_parent'[c] \in Pids /\ Waiting(p_parent[c])')
    BY <1>2, <2>1
  <2> QED BY <2>2, <2>3 DEF Waits, Zombie, Waiting
<1>17. Counted'
  <2>1. {q \in Pids : Live(q)' /\ ~Zombie(q)'} = {q \in Pids : Live(q) /\ ~Zombie(q)} \ {p}
    BY <1>7
  <2>2. Uncounted = {p} \/ (Zombie(p) /\ Uncounted = {})
    BY <1>1, <1>8
  <2> QED BY <1>2, <1>10, <2>1, <2>2 DEF MInv, Counted, Live, Zombie
<1> QED BY <1>11, <1>12, <1>13, <1>14, <1>15, <1>16, <1>17 DEF MInv

-----------------------------------------------------------------------------
(* The specification.                                                      *)

\* The initial state satisfies MInv.
LEMMA InitEstablishes ==
  ASSUME Init
  PROVE  MInv
<1>1. INIT \in Pids /\ NO_TASK \notin Pids
  BY MmAssumption DEF Pids, INIT
<1>2. /\ p_flags = [p \in Pids |-> IF p = INIT THEN {} ELSE Free]
      /\ p_parent = [p \in Pids |-> NO_TASK]
      /\ mm = [pc |-> "take", call |-> "none", src |-> NO_TASK, who |-> NO_TASK,
               status |-> NoStatus, word |-> NotLoaded]
      /\ q_sending = <<>> /\ fs_procs = {INIT}
  BY DEF Init, Idle, Free
<1>3. \A p \in Pids : /\ Live(p) <=> p = INIT
                      /\ ~Zombie(p) /\ ~Waiting(p) /\ p_flags[p] # Blocked
  BY <1>2 DEF Live, Zombie, Waiting, Free, Blocked
<1>4. ~Handing /\ ~Serving /\ Uncounted = {}
  BY <1>2 DEF Handing, Serving, Uncounted
<1>5. TypeInv
  <2>1. p_flags \in [Pids -> Shapes]
    <3>1. {} \in Shapes /\ Free \in Shapes
      BY DEF Shapes, InReply
    <3> QED BY <1>2, <3>1
  <2>2. regs \in [Pids -> [at : {"run", "receive", "got", "spin"}, call : Calls \union {"none"}]]
    BY DEF Init, Working
  <2> QED BY <1>2, <2>1, <2>2 DEF Init, TypeInv, MmPcs, ForkPcs, ExitPcs, WaitPcs
<1>6. Queue
  <2>1. \A p : ~Holds(q_sending, p)
    BY <1>2 DEF Holds
  <2>2. EachOnce(q_sending)
    BY <1>2 DEF EachOnce
  <2> QED BY <1>3, <2>1, <2>2 DEF Queue, Queued
<1>7. InitLives
  BY <1>1, <1>2, <1>3 DEF Init, InitLives, NoMessage, Request, Message
<1>8. Source /\ Word
  BY <1>2, <1>4 DEF Source, Word
<1>9. Parents /\ Waits
  BY <1>1, <1>2, <1>3 DEF Parents, Waits
<1>10. Counted
  BY <1>1, <1>2, <1>3, <1>4 DEF Counted
<1> QED BY <1>5, <1>6, <1>7, <1>8, <1>9, <1>10 DEF MInv

\* Every step keeps MInv.
LEMMA NextKeeps ==
  ASSUME MInv, [Next]_mmvars
  PROVE  MInv'
<1>1. CASE Take
  BY <1>1, TakeKeeps
<1>2. CASE ForkFails
  BY <1>2, ForkFailsKeeps
<1>3. CASE ForkCopyRegs
  BY <1>3, ForkCopyRegsKeeps
<1>4. CASE ForkDuplicate
  BY <1>4, ForkDuplicateKeeps
<1>5. CASE ForkTellsFs
  BY <1>5, ForkTellsFsKeeps
<1>6. CASE Birth
  BY <1>6, BirthKeeps
<1>7. CASE ReplyToCaller
  BY <1>7, ReplyToCallerKeeps
<1>8. CASE LoadFlags
  BY <1>8, LoadFlagsKeeps
<1>9. CASE StoreFlags
  BY <1>9, SetWaitingKeeps, SetHangingKeeps, WakeParentKeeps DEF StoreFlags, Updating
<1>10. CASE Exit
  BY <1>10, ExitKeeps
<1>11. CASE AdoptRound
  BY <1>11, AdoptKeeps, AdoptPassKeeps
<1>12. CASE Wait
  BY <1>12, WaitKeeps
<1>13. CASE Cleanup
  BY <1>13, CleanupKeeps
<1>14. CASE MmDeadlock \/ UNCHANGED mmvars
  <2>1. UNCHANGED <<p_flags, p_parent, exit_status, regs, mem, q_sending, mm, fs_procs>>
    BY <1>14 DEF MmDeadlock, mmvars
  <2>2. SameMarks /\ mem'[INIT].type # "EXIT"
    BY <2>1 DEF SameMarks, Live, Zombie, Waiting, MInv, InitLives
  <2>3. InitLives' /\ Parents' /\ Waits' /\ Counted' /\ Word'
    BY <2>1, <2>2, MarksKeep
  <2>4. TypeInv' /\ Queue' /\ Source'
    BY <2>1 DEF MInv, TypeInv, Queue, Queued, Source, Serving, Handing, Live, Zombie
  <2> QED BY <2>3, <2>4 DEF MInv
<1>15. ASSUME NEW p \in Pids, UserCall(p) \/ ReceiveReply(p) \/ Return(p)
       PROVE  MInv'
  BY <1>15, SendKeeps, ReceiveKeeps, ReturnKeeps
<1> QED BY <1>1, <1>2, <1>3, <1>4, <1>5, <1>6, <1>7, <1>8, <1>9, <1>10, <1>11, <1>12,
           <1>13, <1>14, <1>15 DEF Next, MmStep

\* MInv holds in every reachable state, whatever the number of entries, and whether
\* the updates of p_flags are split or not.
THEOREM MInvHolds == Spec => []MInv
<1>1. Init => MInv
  BY InitEstablishes
<1>2. MInv /\ [Next]_mmvars => MInv'
  BY NextKeeps
<1> QED BY <1>1, <1>2, PTL DEF Spec

\* Between two requests no process waits beside a child that hangs, whatever
\* the order in which it waited, the child exited and its parent exited.
THEOREM ZombiesCorrect == Spec => []NoZombieMissed
<1>1. MInv => NoZombieMissed
  <2>1. SUFFICES ASSUME MInv, MmIdle, NEW p \in Pids, Waiting(p), NEW c \in Zombies(p)
                 PROVE  FALSE
    BY DEF NoZombieMissed
  <2>2. c \in Pids /\ p_parent[c] = p /\ Zombie(c)
    BY <2>1 DEF Zombies, Children
  <2> QED BY <2>1, <2>2 DEF MInv, Waits, MmIdle
<1> QED BY <1>1, MInvHolds, PTL

\* do_exit leaves no orphan: between two requests every process but INIT has a
\* parent that lives and has not exited.
THEOREM ParentsCorrect == Spec => []ParentsAlive
<1>1. MInv => ParentsAlive
  BY DEF MInv, Parents, Orphan, Handing, ParentsAlive, MmIdle
<1> QED BY <1>1, MInvHolds, PTL

\* Between two requests FS counts the descriptors of the processes that live
\* and have not exited, and of no others.
THEOREM FsCountCorrect == Spec => []FsKnowsLiving
<1>1. MInv => FsKnowsLiving
  BY DEF MInv, Counted, Uncounted, FsKnowsLiving, MmIdle
<1> QED BY <1>1, MInvHolds, PTL

-----------------------------------------------------------------------------
(* The calls.  When p_flags is updated in one step, MM and the processes   *)
(* agree on who waits for whom: nobody is forgotten, or answered with the  *)
(* result of another.                                                      *)

\* p is inside a call that MM serves, and cannot go on without its reply.
InService(p) == p_flags[p] \in InReply /\ (p_flags[p] = {} => regs[p].at = "receive")

\* Who waits for MM: to be woken, to be released, or for the SEND that MM is about.
Expected(p) ==
  \/ Waiting(p) \/ Zombie(p)
  \/ Serving /\ p = mm.src
  \/ mm.pc \in {"fork_fs", "birth"} /\ p = mm.who
  \/ mm.pc = "cleanup" /\ p = p_parent[mm.who]

\* Where each process is in its call, by the flags that MM and the kernel set.
Calling(p) ==
  /\ Receiving(p) => regs[p].at = "got"
  /\ p_flags[p] = {"WAITING"} => regs[p].at = "receive"
  /\ Waiting(p) => regs[p].call = "WAIT"
  /\ Zombie(p) => regs[p].call = "EXIT" /\ mem[p].value = exit_status[p]
  /\ Queued(p) => regs[p].call = mem[p].type
  /\ Live(p) /\ (Receiving(p) \/ regs[p].at = "receive") => Queued(p) \/ Expected(p)

\* What MM holds of the request is the request of its caller, and the processes
\* it is about to send to are in their RECEIVE or on the way to it.
Held ==
  /\ mm.word = NotLoaded /\ mm.pc # "fork_copy"
  /\ Serving => /\ regs[mm.src].call = mm.call
                /\ mm.call = "EXIT" =>
                     mem[mm.src].value = IF mm.pc = "EXIT" THEN mm.status
                                                           ELSE exit_status[mm.src]
  /\ mm.pc \in {"fork_fs", "birth"} =>
       p_parent[mm.who] = mm.src /\ InService(mm.who) /\ regs[mm.who].call = "FORK"
  /\ mm.pc = "reply" =>
       /\ mm.who \in Pids \ {mm.src} /\ p_parent[mm.who] = mm.src
       /\ Live(mm.who) /\ ~Receiving(mm.who)
       /\ regs[mm.who].at = "receive" => p_flags[mm.who] = Blocked
  /\ mm.pc = "cleanup" =>
       InService(p_parent[mm.who]) /\ regs[p_parent[mm.who]].call = "WAIT"

CallInv == Held /\ \A p \in Pids : Calling(p)

\* A process that a step does not touch stays where it is, if MM still knows of it.
LEMMA CallingKept ==
  ASSUME NEW q \in Pids, Calling(q), Queued(q)' <=> Queued(q), Expected(q) => Expected(q)',
         p_flags'[q] = p_flags[q], regs'[q] = regs[q], mem'[q] = mem[q],
         exit_status'[q] = exit_status[q]
  PROVE  Calling(q)'
BY DEF Calling, Live, Zombie, Waiting, Receiving

\* The state before a step, as the proofs below use it.
LEMMA CallFacts ==
  ASSUME MInv, CallInv
  PROVE  /\ p_flags \in [Pids -> Shapes] /\ DOMAIN regs = Pids /\ DOMAIN mem = Pids
         /\ DOMAIN exit_status = Pids
         /\ regs \in [Pids -> [at : {"run", "receive", "got", "spin"}, call : Calls \union {"none"}]]
         /\ \A p \in Pids : Calling(p) /\ (Queued(p) <=> p_flags[p] = Blocked)
         /\ mm.pc # "take" => mm.src \in Pids
         /\ Serving => InService(mm.src)
         /\ mm.pc \in {"fork_fs", "birth"} => mm.who \in Pids \ {INIT, mm.src}
         /\ mm.pc = "cleanup" => p_parent[mm.who] \in Pids
BY DEF MInv, TypeInv, Queue, Source, CallInv, InService

\* A process calls MM.
LEMMA SendCalls ==
  ASSUME MInv, CallInv, NEW p \in Pids, UserCall(p)
  PROVE  CallInv'
<1>0. PICK c \in Calls : \E x : SendCall(p, c, x)
  BY DEF UserCall, Calls
<1>1. PICK x : SendCall(p, c, x)
  BY <1>0
<1>2. /\ p_flags[p] = {} /\ regs[p] = Working
      /\ p_flags' = [p_flags EXCEPT ![p] = Blocked]
      /\ regs' = [regs EXCEPT ![p] = InCall(c)]
      /\ mem' = [mem EXCEPT ![p] = Request(c, x)]
      /\ q_sending' = Append(q_sending, p)
      /\ UNCHANGED <<p_parent, exit_status, mm>>
  BY <1>1 DEF SendCall, Runnable, Blocked
<1>3. /\ p_flags'[p] = Blocked /\ regs'[p].at = "receive" /\ regs'[p].call = mem'[p].type
      /\ \A q \in Pids : q # p => /\ p_flags'[q] = p_flags[q] /\ regs'[q] = regs[q]
                                  /\ mem'[q] = mem[q]
  BY <1>2, CallFacts DEF InCall, Request, Message
<1>4. \A q \in Pids : Queued(q)' <=> Queued(q) \/ q = p
  BY <1>2, AppendHolds DEF MInv, TypeInv, Queued
<1>5. regs[p].at = "run" /\ ~InService(p)
  BY <1>2 DEF Working, InService
<1>6. \A q \in Pids : q # p => Calling(q)'
  <2> SUFFICES ASSUME NEW q \in Pids, q # p PROVE Calling(q)'
    OBVIOUS
  <2>1. Expected(q) => Expected(q)'
    BY <1>2, <1>3 DEF Expected, Waiting, Zombie, Serving, Handing
  <2> QED BY <1>2, <1>3, <1>4, <2>1, CallFacts, CallingKept
<1>7. Calling(p)'
  BY <1>3, <1>4 DEF Calling, Receiving, Waiting, Zombie, Blocked
<1>8. Held'
  <2>1. /\ Serving => mm.src # p /\ mm.src \in Pids
        /\ mm.pc \in {"fork_fs", "birth"} => mm.who # p /\ mm.who \in Pids
        /\ mm.pc = "cleanup" => p_parent[mm.who] # p /\ p_parent[mm.who] \in Pids
    BY <1>5, CallFacts DEF CallInv, Held, Serving
  <2>2. mm.pc = "reply" => /\ Live(mm.who)' /\ ~Receiving(mm.who)'
                           /\ regs'[mm.who].at = "receive" => p_flags'[mm.who] = Blocked
    BY <1>2, <1>3 DEF CallInv, Held, Live, Receiving, Blocked
  <2> QED BY <1>2, <1>3, <2>1, <2>2 DEF CallInv, Held, Serving, Handing, InService
<1> QED BY <1>6, <1>7, <1>8 DEF CallInv

\* A process goes on to its RECEIVE, or returns.
LEMMA RunCalls ==
  ASSUME MInv, CallInv, NEW p \in Pids, ReceiveReply(p) \/ Return(p)
  PROVE  CallInv'
<1>1. /\ p_flags[p] = {} /\ p_flags'[p] \in InReply
      /\ \A q \in Pids : q # p => /\ p_flags'[q] = p_flags[q] /\ regs'[q] = regs[q]
                                  /\ mem'[q] = mem[q]
      /\ UNCHANGED <<p_parent, exit_status, q_sending, mm>>
  BY CallFacts DEF ReceiveReply, Return, Runnable, InReply
<1>2. \/ /\ regs[p].at = "receive" /\ p_flags'[p] = {"RECEIVING"}
         /\ regs'[p].at = "got" /\ regs'[p].call = regs[p].call /\ mem'[p] = mem[p]
      \/ /\ regs[p].at = "got" /\ p_flags'[p] = {} /\ regs'[p].at \in {"run", "spin"}
  BY <1>1, CallFacts DEF ReceiveReply, Return, Stopped, Working
<1>3. \A q \in Pids : q # p => Calling(q)'
  <2> SUFFICES ASSUME NEW q \in Pids, q # p PROVE Calling(q)'
    OBVIOUS
  <2>1. Expected(q) => Expected(q)'
    BY <1>1 DEF Expected, Waiting, Zombie, Serving, Handing
  <2>2. Queued(q)' <=> Queued(q)
    BY <1>1 DEF Queued
  <2> QED BY <1>1, <2>1, <2>2, CallFacts, CallingKept
<1>4. ~Queued(p) /\ ~Queued(p)'
  BY <1>1, CallFacts DEF Queued, Blocked
<1>5. Calling(p)'
  <2>1. ~Waiting(p)' /\ ~Zombie(p)' /\ p_flags'[p] # {"WAITING"}
    BY <1>1 DEF InReply, Waiting, Zombie
  <2>2. regs[p].at = "receive" => Expected(p)'
    <3>1. regs[p].at = "receive" => Expected(p)
      BY <1>1, <1>4, CallFacts DEF Calling, Live
    <3> QED BY <1>1, <3>1 DEF Expected, Waiting, Zombie, Serving, Handing
  <2> QED BY <1>2, <1>4, <2>1, <2>2 DEF Calling, Receiving
<1>6. Held'
  <2>1. ASSUME InService(p)
        PROVE  InService(p)' /\ regs'[p].call = regs[p].call /\ mem'[p] = mem[p]
    BY <1>1, <1>2, <2>1 DEF InService
  <2>2. \A q \in Pids : InService(q) =>
          InService(q)' /\ regs'[q].call = regs[q].call /\ mem'[q] = mem[q]
    BY <1>1, <2>1 DEF InService
  <2>3. mm.pc = "reply" => /\ Live(mm.who)' /\ ~Receiving(mm.who)'
                           /\ regs'[mm.who].at = "receive" => p_flags'[mm.who] = Blocked
    <3> SUFFICES ASSUME mm.pc = "reply"
                 PROVE  /\ Live(mm.who)' /\ ~Receiving(mm.who)'
                        /\ regs'[mm.who].at = "receive" => p_flags'[mm.who] = Blocked
      OBVIOUS
    <3>1. CASE mm.who = p
      BY <1>1, <1>2, <3>1 DEF CallInv, Held, Live, Receiving, Blocked
    <3>2. CASE mm.who # p
      BY <1>1, <3>2 DEF CallInv, Held, Live, Receiving
    <3> QED BY <3>1, <3>2
  <2>4. /\ Serving => mm.src \in Pids
        /\ mm.pc \in {"fork_fs", "birth"} => mm.who \in Pids
        /\ mm.pc = "cleanup" => p_parent[mm.who] \in Pids
    BY CallFacts DEF Serving
  <2>5. Serving' <=> Serving
    BY <1>1 DEF Serving, Handing
  <2>6. Serving => /\ regs'[mm.src].call = mm.call
                   /\ mm.call = "EXIT" =>
                        mem'[mm.src].value = IF mm.pc = "EXIT" THEN mm.status
                                                               ELSE exit_status[mm.src]
    BY <2>2, <2>4, CallFacts DEF CallInv, Held
  <2> QED BY <1>1, <2>2, <2>3, <2>4, <2>5, <2>6 DEF CallInv, Held, InService
<1> QED BY <1>3, <1>5, <1>6 DEF CallInv

\* MM receives the next request.
LEMMA TakeCalls ==
  ASSUME MInv, CallInv, Take
  PROVE  CallInv'
<1>0. PICK p : p = Head(q_sending)
  OBVIOUS
<1>1. /\ mm.pc = "take" /\ q_sending # <<>> /\ q_sending \in Seq(Pids)
      /\ q_sending' = Tail(q_sending)
      /\ p_flags' = [p_flags EXCEPT ![p] = @ \ {"SENDING"}]
      /\ mm' = [pc |-> mem[p].type, call |-> mem[p].type, src |-> p, who |-> NO_TASK,
                status |-> mem[p].value, word |-> NotLoaded]
      /\ UNCHANGED <<p_parent, exit_status, regs, mem>>
  BY <1>0 DEF Take, MmAt, Idle, MInv, TypeInv
<1>2. /\ p \in Pids /\ Queued(p)
      /\ \A r : Queued(r)' <=> Queued(r) /\ r # p
  BY <1>0, <1>1, TailHolds DEF MInv, Queue, Queued
<1>3. p_flags[p] = Blocked /\ regs[p].at = "receive" /\ mem[p].type \in Calls
  BY <1>2 DEF MInv, Queue
<1>4. /\ p_flags'[p] = {} /\ \A q \in Pids : q # p => p_flags'[q] = p_flags[q]
  <2>1. Blocked \ {"SENDING"} = {}
    BY DEF Blocked
  <2> QED BY <1>1, <1>2, <1>3, <2>1, CallFacts
<1>5. mm'.pc \in Calls /\ mm'.src = p /\ mm'.call = mem[p].type /\ mm'.pc = mm'.call
      /\ mm'.status = mem[p].value /\ mm'.word = NotLoaded
  BY <1>1, <1>3
<1>6. Serving'
  BY <1>5 DEF Serving, Handing, Calls
<1>7. \A q \in Pids : q # p => Calling(q)'
  <2> SUFFICES ASSUME NEW q \in Pids, q # p PROVE Calling(q)'
    OBVIOUS
  <2>1. Expected(q) => Expected(q)'
    BY <1>1, <1>4 DEF Expected, Waiting, Zombie, Serving
  <2> QED BY <1>1, <1>2, <1>4, <2>1, CallFacts, CallingKept
<1>8. Calling(p)'
  <2>1. Expected(p)'
    BY <1>5, <1>6 DEF Expected
  <2> QED BY <1>2, <1>4, <2>1 DEF Calling, Receiving, Waiting, Zombie
<1>9. Held'
  <2>1. regs[p].call = mem[p].type
    BY <1>2, CallFacts DEF Calling
  <2> QED BY <1>1, <1>5, <2>1 DEF Held, Calls
<1> QED BY <1>7, <1>8, <1>9 DEF CallInv

\* A step of MM that changes nothing but what MM holds.
LEMMA HeldChanges ==
  ASSUME MInv, CallInv, UNCHANGED <<p_flags, exit_status, regs, mem, q_sending>>,
         \A q \in Pids : Expected(q) => Expected(q)', Held'
  PROVE  CallInv'
<1>1. \A q \in Pids : Queued(q)' <=> Queued(q)
  BY DEF Queued
<1>2. \A q \in Pids : Calling(q)'
  BY <1>1, CallFacts, CallingKept
<1> QED BY <1>2 DEF CallInv

\* do_fork finds no free entry, tells FS of the child, do_wait looks for a
\* child that hangs.
LEMMA StayCalls ==
  ASSUME MInv, CallInv, ForkFails \/ ForkTellsFs \/ Wait
  PROVE  CallInv'
<1>1. /\ \/ mm.pc = "FORK" /\ mm'.pc = "fail" /\ mm'.who = mm.who
         \/ mm.pc = "fork_fs" /\ mm'.pc = "birth" /\ mm'.who = mm.who
         \/ mm.pc = "WAIT" /\ mm'.pc \in {"set_waiting", "fail"}
         \/ mm.pc = "WAIT" /\ mm'.pc = "cleanup" /\ mm'.who \in Zombies(mm.src)
      /\ mm'.src = mm.src /\ mm'.call = mm.call /\ mm'.word = mm.word
      /\ UNCHANGED <<p_flags, p_parent, exit_status, regs, mem, q_sending>>
  <2>1. mm = [pc |-> mm.pc, call |-> mm.call, src |-> mm.src, who |-> mm.who,
              status |-> mm.status, word |-> mm.word]
    BY DEF MInv, TypeInv
  <2>2. CASE ForkFails \/ ForkTellsFs
    BY <2>1, <2>2 DEF ForkFails, ForkTellsFs, MmAt
  <2>3. CASE Wait
    <3>1. Zombies(mm.src) # {} => FirstOf(Zombies(mm.src)) \in Zombies(mm.src)
      BY FirstExists DEF Zombies, Children
    <3> QED BY <2>1, <2>3, <3>1 DEF Wait, MmAt
  <2> QED BY <2>2, <2>3
<1>2. Serving /\ Serving' /\ mm.call # "EXIT"
  BY <1>1 DEF Serving, Handing, MInv, TypeInv, ForkPcs, WaitPcs
<1>3. \A q \in Pids : Expected(q) => Expected(q)'
  BY <1>1, <1>2 DEF Expected, Waiting, Zombie
<1>4. ASSUME mm.pc = "WAIT", mm'.pc = "cleanup"
      PROVE  p_parent[mm'.who] = mm.src /\ InService(mm.src) /\ mm.call = "WAIT"
  BY <1>1, <1>2, <1>4, CallFacts DEF Zombies, Children, MInv, TypeInv, WaitPcs
<1>5. Held'
  BY <1>1, <1>2, <1>4 DEF CallInv, Held, InService
<1> QED BY <1>1, <1>3, <1>5, HeldChanges

\* A step that touches one process leaves the others where they are.
LEMMA OthersKept ==
  ASSUME MInv, CallInv, NEW r,
         \A q \in Pids : q # r =>
           /\ p_flags'[q] = p_flags[q] /\ regs'[q] = regs[q] /\ mem'[q] = mem[q]
           /\ exit_status'[q] = exit_status[q]
           /\ Expected(q) => Expected(q)',
         UNCHANGED q_sending
  PROVE  \A q \in Pids : q # r => Calling(q)'
<1> SUFFICES ASSUME NEW q \in Pids, q # r PROVE Calling(q)'
  OBVIOUS
<1>1. Queued(q)' <=> Queued(q)
  BY DEF Queued
<1> QED BY <1>1, CallFacts, CallingKept

\* do_fork duplicates the entry of the caller: the child is in the same call.
LEMMA DuplicateCalls ==
  ASSUME MInv, CallInv, ForkDuplicate
  PROVE  CallInv'
<1>0. PICK c : c = FirstOf(FreeSlots)
  OBVIOUS
<1>1. /\ mm.pc = "FORK" /\ mm.call = "FORK" /\ mm.src \in Pids
      /\ ForkCopy(c) /\ regs' = [regs EXCEPT ![c] = regs[mm.src]]
      /\ mm' = [pc |-> "fork_fs", call |-> "FORK", src |-> mm.src, who |-> c,
                 status |-> mm.status, word |-> mm.word]
      /\ UNCHANGED q_sending
  <2>1. mm.pc = "FORK"
    BY DEF ForkDuplicate, MmAt, CallInv, Held
  <2>2. /\ ForkCopy(c) /\ regs' = [regs EXCEPT ![c] = regs[mm.src]]
        /\ mm' = [mm EXCEPT !.pc = "fork_fs", !.who = c]
        /\ UNCHANGED q_sending
    BY <1>0, <2>1 DEF ForkDuplicate, MmAt
  <2>3. mm.call = "FORK" /\ mm.src \in Pids
    BY <2>1 DEF MInv, TypeInv, ForkPcs
  <2>4. mm = [pc |-> mm.pc, call |-> mm.call, src |-> mm.src, who |-> mm.who,
              status |-> mm.status, word |-> mm.word]
    BY DEF MInv, TypeInv
  <2> QED BY <2>1, <2>2, <2>3, <2>4
<1>2. c \in Pids /\ p_flags[c] = Free
  BY <1>0, <1>1, FirstExists DEF ForkDuplicate, MmAt, FreeSlots, Free
<1>3. Serving /\ InService(mm.src) /\ c # mm.src
  <2>1. Serving
    BY <1>1 DEF Serving, Handing
  <2> QED BY <1>2, <2>1, CallFacts DEF InService, InReply, Free
<1>4. /\ p_flags'[c] = p_flags[mm.src] /\ regs'[c] = regs[mm.src] /\ p_parent'[c] = mm.src
      /\ \A q \in Pids : q # c => /\ p_flags'[q] = p_flags[q] /\ regs'[q] = regs[q]
                                  /\ mem'[q] = mem[q] /\ exit_status'[q] = exit_status[q]
  BY <1>1, <1>2, CallFacts DEF ForkCopy, MInv, TypeInv
<1>5. ~Queued(c)'
  BY <1>1, <1>2, CallFacts DEF Queued, Free, Blocked
<1>6. mm'.pc = "fork_fs" /\ mm'.who = c /\ mm'.src = mm.src /\ Serving'
  BY <1>1 DEF Serving, Handing
<1>7. \A q \in Pids : q # c => Calling(q)'
  <2>1. \A q \in Pids : q # c => (Expected(q) => Expected(q)')
    BY <1>1, <1>3, <1>4, <1>6 DEF Expected, Waiting, Zombie
  <2> QED BY <1>1, <1>4, <2>1, OthersKept
<1>8. Calling(c)'
  <2>1. /\ ~Waiting(c)' /\ ~Zombie(c)' /\ p_flags'[c] # {"WAITING"}
        /\ Receiving(c)' => regs'[c].at = "got"
    BY <1>1, <1>3, <1>4, CallFacts DEF InService, InReply, Waiting, Zombie, Receiving, Calling
  <2>2. Expected(c)'
    BY <1>6 DEF Expected
  <2> QED BY <1>5, <2>1, <2>2 DEF Calling
<1>9. Held'
  <2>1. regs[mm.src].call = "FORK"
    BY <1>1, <1>3 DEF CallInv, Held
  <2>2. InService(c)'
    BY <1>3, <1>4 DEF InService
  <2> QED BY <1>1, <1>3, <1>4, <1>6, <2>1, <2>2 DEF CallInv, Held
<1> QED BY <1>7, <1>8, <1>9 DEF CallInv

\* A SEND of MM ends the call of the process it is for.
LEMMA DeliveryCalls ==
  ASSUME MInv, CallInv, NEW p \in Pids, NEW m, Deliver(p, m), InService(p),
         p_flags' = [p_flags EXCEPT ![p] = @ \ {"RECEIVING"}],
         UNCHANGED <<exit_status, regs, q_sending>>,
         \A q \in Pids : q # p => (Expected(q) => Expected(q)')
  PROVE  /\ \A q \in Pids : Calling(q)'
         /\ p_flags'[p] = {} /\ regs[p].at = "got"
         /\ \A q \in Pids : q # p => p_flags'[q] = p_flags[q] /\ mem'[q] = mem[q]
<1>1. p_flags[p] = {"RECEIVING"} /\ regs[p].at = "got"
  BY CallFacts DEF Deliver, Receiving, InService, InReply, Calling
<1>2. p_flags'[p] = {}
  <2>1. {"RECEIVING"} \ {"RECEIVING"} = {}
    OBVIOUS
  <2> QED BY <1>1, <2>1, CallFacts
<1>3. \A q \in Pids : q # p => p_flags'[q] = p_flags[q] /\ mem'[q] = mem[q]
  BY CallFacts DEF Deliver
<1>4. \A q \in Pids : q # p => Calling(q)'
  BY <1>3, OthersKept
<1>5. ~Queued(p)'
  BY <1>1, CallFacts DEF Queued, Blocked
<1>6. Calling(p)'
  BY <1>1, <1>2, <1>5 DEF Calling, Receiving, Waiting, Zombie
<1> QED BY <1>1, <1>2, <1>3, <1>4, <1>6

\* The child gets its reply.
LEMMA BirthCalls ==
  ASSUME MInv, CallInv, Birth
  PROVE  CallInv'
<1>0. PICK c : c = mm.who
  OBVIOUS
<1>1. /\ mm.pc = "birth" /\ mm.call = "FORK" /\ mm.src \in Pids
      /\ mm' = [pc |-> "reply", call |-> "FORK", src |-> mm.src, who |-> c,
                 status |-> mm.status, word |-> mm.word]
      /\ Deliver(c, Reply(0, 0))
      /\ p_flags' = [p_flags EXCEPT ![c] = @ \ {"RECEIVING"}]
      /\ UNCHANGED <<p_parent, exit_status, regs, q_sending>>
  BY <1>0 DEF Birth, MmAt, MInv, TypeInv, ForkPcs
<1>2. /\ c \in Pids /\ c # mm.src /\ InService(c) /\ p_parent[c] = mm.src
      /\ mm.word = NotLoaded
  BY <1>0, <1>1, CallFacts DEF CallInv, Held
<1>3. Serving /\ Serving'
  BY <1>1 DEF Serving, Handing
<1>4. \A q \in Pids : q # c => (Expected(q) => Expected(q)')
  <2>1. \A q \in Pids : q # c => p_flags'[q] = p_flags[q]
    BY <1>1, CallFacts
  <2> QED BY <1>0, <1>1, <1>3, <2>1 DEF Expected, Waiting, Zombie
<1>5. /\ \A q \in Pids : Calling(q)'
      /\ p_flags'[c] = {} /\ regs[c].at = "got"
      /\ \A q \in Pids : q # c => p_flags'[q] = p_flags[q] /\ mem'[q] = mem[q]
  BY <1>1, <1>2, <1>4, DeliveryCalls
<1>6. Held'
  <2>1. regs[mm.src].call = "FORK"
    BY <1>1, <1>3 DEF CallInv, Held
  <2>2. Live(c)' /\ ~Receiving(c)'
    BY <1>5 DEF Live, Receiving
  <2>3. regs'[c].at # "receive"
    BY <1>1, <1>5
  <2> QED BY <1>1, <1>2, <2>1, <2>2, <2>3 DEF Held, Live, Receiving
<1> QED BY <1>5, <1>6 DEF CallInv

\* The caller gets its reply.
LEMMA ReplyCalls ==
  ASSUME MInv, CallInv, ReplyToCaller
  PROVE  CallInv'
<1>0. PICK p : p = mm.src
  OBVIOUS
<1>1. PICK m : Deliver(p, m)
  BY <1>0 DEF ReplyToCaller
<1>2. /\ mm.pc \in {"reply", "fail"} /\ p \in Pids
      /\ mm' = [pc |-> "take", call |-> "none", src |-> NO_TASK, who |-> NO_TASK,
                 status |-> NoStatus, word |-> NotLoaded]
      /\ p_flags' = [p_flags EXCEPT ![p] = @ \ {"RECEIVING"}]
      /\ UNCHANGED <<p_parent, exit_status, regs, q_sending>>
  BY <1>0 DEF ReplyToCaller, MmAt, Idle, MInv, TypeInv
<1>3. InService(p)
  BY <1>0, <1>2, CallFacts DEF Serving, Handing
<1>4. \A q \in Pids : q # p => (Expected(q) => Expected(q)')
  <2>1. \A q \in Pids : q # p => p_flags'[q] = p_flags[q]
    BY <1>2, CallFacts
  <2> QED BY <1>0, <1>2, <2>1 DEF Expected, Waiting, Zombie
<1>5. \A q \in Pids : Calling(q)'
  BY <1>1, <1>2, <1>3, <1>4, DeliveryCalls
<1>6. Held'
  BY <1>2 DEF Held, Serving
<1> QED BY <1>5, <1>6 DEF CallInv

\* do_exit up to its look at the flags of the parent.
LEMMA ExitCalls ==
  ASSUME MInv, CallInv, Exit
  PROVE  CallInv'
<1>0. PICK p : p = mm.src
  OBVIOUS
<1>1. /\ mm.pc = "EXIT" /\ mm.call = "EXIT" /\ p \in Pids
      /\ mm'.pc \in {"wake_parent", "set_hanging"} /\ mm'.call = "EXIT"
      /\ mm'.src = p /\ mm'.who = p /\ mm'.word = mm.word
      /\ exit_status' = [exit_status EXCEPT ![p] = mm.status]
      /\ UNCHANGED <<p_flags, p_parent, regs, mem, q_sending>>
  BY <1>0 DEF Exit, ExitRecord, MmAt, MInv, TypeInv, ExitPcs
<1>2. Serving /\ Serving' /\ InService(p)
  <2>1. Serving /\ Serving'
    BY <1>1 DEF Serving, Handing
  <2> QED BY <1>0, <2>1, CallFacts
<1>3. exit_status'[p] = mm.status /\ \A q \in Pids : q # p => exit_status'[q] = exit_status[q]
  BY <1>1, CallFacts
<1>4. \A q \in Pids : Expected(q) => Expected(q)'
  BY <1>0, <1>1, <1>2 DEF Expected, Waiting, Zombie
<1>5. \A q \in Pids : q # p => Calling(q)'
  BY <1>1, <1>3, <1>4, OthersKept
<1>6. Calling(p)'
  <2>1. ~Zombie(p)
    BY <1>2 DEF InService, InReply, Zombie
  <2>2. Calling(p) /\ (Queued(p)' <=> Queued(p))
    BY <1>1, CallFacts DEF Queued
  <2> QED BY <1>1, <1>4, <2>1, <2>2 DEF Calling, Live, Zombie, Waiting, Receiving
<1>7. Held'
  BY <1>0, <1>1, <1>2, <1>3 DEF CallInv, Held
<1> QED BY <1>5, <1>6, <1>7 DEF CallInv

\* A round of the loop that hands the children to INIT.
LEMMA AdoptCalls ==
  ASSUME MInv, CallInv, AdoptRound
  PROVE  CallInv'
<1>1. /\ mm.pc = "adopt" /\ mm.call = "EXIT" /\ mm.src \in Pids /\ mm.word = NotLoaded
      /\ UNCHANGED <<p_flags, exit_status, regs, mem, q_sending>>
  BY DEF AdoptRound, MmAt, MInv, TypeInv, ExitPcs, CallInv, Held
<1>2. /\ mm'.word = NotLoaded
      /\ \/ mm'.pc \in {"adopt", "take"}
         \/ mm'.pc = "wake_parent" /\ mm'.call = "EXIT" /\ mm'.src = mm.src /\ mm'.who # mm.src
  <2>1. mm = [pc |-> mm.pc, call |-> mm.call, src |-> mm.src, who |-> mm.who,
              status |-> mm.status, word |-> mm.word]
    BY DEF MInv, TypeInv
  <2>2. p_parent[mm.src] # mm.src
    BY <1>1 DEF MInv, Parents
  <2> QED BY <1>1, <2>1, <2>2 DEF AdoptRound, Idle
<1>3. ~Serving /\ ~Serving'
  BY <1>1, <1>2 DEF Serving, Handing
<1>4. \A q \in Pids : Expected(q) => Expected(q)'
  BY <1>1, <1>3 DEF Expected, Waiting, Zombie
<1>5. Held'
  BY <1>2, <1>3 DEF Held
<1> QED BY <1>1, <1>4, <1>5, HeldChanges

\* The caller of wait() waits, or the caller of exit() hangs.
LEMMA MarkCalls ==
  ASSUME MInv, CallInv, ~SplitUpdates, StoreFlags, mm.pc \in {"set_waiting", "set_hanging"}
  PROVE  CallInv'
<1>0. PICK r, g : /\ r = mm.src
                  /\ g = p_flags[r] \union (IF mm.pc = "set_waiting" THEN {"WAITING"}
                                                                     ELSE {"HANGING"})
  OBVIOUS
<1>1. /\ r \in Pids /\ Serving /\ InService(r) /\ p_flags[r] \in InReply
      /\ mm.pc = "set_waiting" => mm.call = "WAIT"
      /\ mm.pc = "set_hanging" => mm.call = "EXIT"
      /\ regs[r].call = mm.call
  <2>1. Serving
    BY DEF Serving, Handing
  <2> QED BY <1>0, <2>1, CallFacts
          DEF InService, MInv, TypeInv, WaitPcs, ExitPcs, CallInv, Held
<1>2. /\ p_flags' = [p_flags EXCEPT ![r] = g]
      /\ mm'.pc \in {"take", "adopt"} /\ mm'.word = NotLoaded
      /\ UNCHANGED <<p_parent, exit_status, regs, mem, q_sending>>
  <2>1. CASE mm.pc = "set_waiting"
    BY <1>0, <2>1 DEF StoreFlags, UpdateTarget, Updated, AfterUpdate, Idle
  <2>2. CASE mm.pc = "set_hanging"
    <3>1. mm = [pc |-> mm.pc, call |-> mm.call, src |-> mm.src, who |-> mm.who,
                status |-> mm.status, word |-> mm.word]
      BY DEF MInv, TypeInv
    <3> QED BY <1>0, <2>2, <3>1 DEF StoreFlags, UpdateTarget, Updated, AfterUpdate
  <2> QED BY <2>1, <2>2
<1>3. p_flags'[r] = g /\ \A q \in Pids : q # r => p_flags'[q] = p_flags[q]
  BY <1>1, <1>2, CallFacts
<1>4. \A q \in Pids : q # r => Calling(q)'
  <2>1. \A q \in Pids : q # r => (Expected(q) => Expected(q)')
    BY <1>0, <1>3 DEF Expected, Waiting, Zombie
  <2> QED BY <1>2, <1>3, <2>1, OthersKept
<1>5. Calling(r)'
  <2>1. /\ Receiving(r)' => Receiving(r)
        /\ g = {"WAITING"} => p_flags[r] = {}
        /\ Waiting(r)' => mm.pc = "set_waiting"
        /\ Zombie(r)' => mm.pc = "set_hanging"
        /\ Waiting(r)' \/ Zombie(r)'
    BY <1>0, <1>1, <1>3 DEF InReply, Receiving, Waiting, Zombie
  <2>2. ~Queued(r)'
    BY <1>1, <1>2, CallFacts DEF Queued, InReply, Blocked
  <2>3. mm.pc = "set_hanging" => mem[r].value = exit_status[r]
    BY <1>0, <1>1 DEF CallInv, Held
  <2> QED BY <1>1, <1>2, <1>3, <2>1, <2>2, <2>3, CallFacts
          DEF Calling, Expected, InService
<1>6. Held'
  <2>1. ~Serving'
    BY <1>2 DEF Serving, Handing
  <2> QED BY <1>2, <2>1 DEF Held
<1> QED BY <1>4, <1>5, <1>6 DEF CallInv

\* The parent waits no more, and is about to be told of its child.
LEMMA WakeCalls ==
  ASSUME MInv, CallInv, ~SplitUpdates, StoreFlags, mm.pc = "wake_parent"
  PROVE  CallInv'
<1>0. PICK r, g : r = p_parent[mm.who] /\ g = p_flags[r] \ {"WAITING"}
  OBVIOUS
<1>1. r \in Pids /\ p_flags[r] \in Asleep
  BY <1>0 DEF MInv, Source
<1>2. /\ p_flags' = [p_flags EXCEPT ![r] = g]
      /\ mm'.pc = "cleanup" /\ mm'.call = mm.call /\ mm'.src = mm.src /\ mm'.who = mm.who
      /\ mm'.word = NotLoaded
      /\ UNCHANGED <<p_parent, exit_status, regs, mem, q_sending>>
  <2>1. mm = [pc |-> mm.pc, call |-> mm.call, src |-> mm.src, who |-> mm.who,
              status |-> mm.status, word |-> mm.word]
    BY DEF MInv, TypeInv
  <2> QED BY <1>0, <2>1 DEF StoreFlags, UpdateTarget, Updated, AfterUpdate
<1>3. p_flags'[r] = g /\ \A q \in Pids : q # r => p_flags'[q] = p_flags[q]
  BY <1>1, <1>2, CallFacts
<1>4. Serving' <=> Serving
  BY <1>2 DEF Serving, Handing
<1>5. \A q \in Pids : q # r => Calling(q)'
  <2>1. \A q \in Pids : q # r => (Expected(q) => Expected(q)')
    BY <1>2, <1>3, <1>4 DEF Expected, Waiting, Zombie
  <2> QED BY <1>2, <1>3, <2>1, OthersKept
<1>6. \/ g = {} /\ p_flags[r] = {"WAITING"}
      \/ g = {"RECEIVING"} /\ Receiving(r)
  <2>1. /\ {"WAITING"} \ {"WAITING"} = {}
        /\ {"WAITING", "RECEIVING"} \ {"WAITING"} = {"RECEIVING"}
    OBVIOUS
  <2> QED BY <1>0, <1>1, <2>1 DEF Asleep, Receiving
<1>7. /\ g = {} => regs[r].at = "receive"
      /\ g = {"RECEIVING"} => regs[r].at = "got"
      /\ regs[r].call = "WAIT"
  BY <1>1, <1>6, CallFacts DEF Calling, Waiting, Asleep
<1>8. Calling(r)'
  <2>1. ~Waiting(r)' /\ ~Zombie(r)' /\ p_flags'[r] # {"WAITING"}
    BY <1>3, <1>6 DEF Waiting, Zombie
  <2>2. ~Queued(r)'
    BY <1>1, <1>2, CallFacts DEF Queued, Asleep, Blocked
  <2>3. Expected(r)'
    BY <1>0, <1>2 DEF Expected
  <2>4. Receiving(r)' => regs'[r].at = "got"
    BY <1>2, <1>3, <1>6, <1>7 DEF Receiving
  <2> QED BY <2>1, <2>2, <2>3, <2>4 DEF Calling
<1>9. Held'
  <2>1. InService(r)'
    BY <1>2, <1>3, <1>6, <1>7 DEF InService, InReply
  <2>2. p_parent'[mm'.who] = r
    BY <1>0, <1>2
  <2> QED BY <1>2, <1>4, <1>7, <2>1, <2>2 DEF CallInv, Held
<1> QED BY <1>5, <1>8, <1>9 DEF CallInv

\* The parent is told of the child, and the entry of the child is free.
LEMMA CleanupCalls ==
  ASSUME MInv, CallInv, Cleanup
  PROVE  CallInv'
<1>0. PICK p, r : p = mm.who /\ r = p_parent[mm.who]
  OBVIOUS
<1>1. /\ mm.pc = "cleanup" /\ mm.src \in Pids /\ mm.call \in {"EXIT", "WAIT"}
      /\ p \in Pids /\ r \in Pids /\ r # p /\ InService(r)
      /\ mm.call = "WAIT" => r = mm.src
      /\ mm.call = "EXIT" /\ Serving => p = mm.src
      /\ mm.word = NotLoaded
  <2>1. mm.pc = "cleanup"
    BY DEF Cleanup, MmAt
  <2> QED BY <1>0, <2>1 DEF MInv, TypeInv, Source, Parents, CallInv, Held, Serving, Handing
<1>2. PICK m : /\ Deliver(r, m)
               /\ p_flags' = [p_flags EXCEPT ![r] = @ \ {"RECEIVING"}, ![p] = Free]
               /\ UNCHANGED <<p_parent, exit_status, regs, q_sending>>
  BY <1>0 DEF Cleanup, Free
<1>3. mm'.pc \in {"take", "adopt"} /\ mm'.word = NotLoaded
  BY <1>1 DEF Cleanup, Idle, MInv, TypeInv
<1>4. p_flags[r] = {"RECEIVING"} /\ regs[r].at = "got"
  BY <1>1, <1>2, CallFacts DEF Deliver, Receiving, InService, InReply, Calling
<1>5. /\ p_flags'[r] = {} /\ p_flags'[p] = Free
      /\ \A q \in Pids \ {p, r} : p_flags'[q] = p_flags[q]
      /\ \A q \in Pids : q # r => mem'[q] = mem[q]
  <2>1. {"RECEIVING"} \ {"RECEIVING"} = {}
    OBVIOUS
  <2> QED BY <1>1, <1>2, <1>4, <2>1, CallFacts DEF Deliver
<1>6. \A q \in Pids \ {p, r} : Calling(q)'
  <2> SUFFICES ASSUME NEW q \in Pids \ {p, r} PROVE Calling(q)'
    OBVIOUS
  <2>1. Expected(q) => Expected(q)'
    BY <1>0, <1>1, <1>5 DEF Expected, Waiting, Zombie
  <2>2. Queued(q)' <=> Queued(q)
    BY <1>2 DEF Queued
  <2> QED BY <1>2, <1>5, <2>1, <2>2, CallFacts, CallingKept
<1>7. p_flags[p] # Blocked
  <2>1. CASE Zombie(p)
    BY <2>1 DEF Zombie, Blocked
  <2>2. CASE p = mm.src /\ Serving
    BY <2>2, CallFacts DEF InService, InReply, Blocked
  <2>3. Zombie(p) \/ (p = mm.src /\ Serving)
    BY <1>0, <1>1 DEF MInv, Source, Serving, Handing
  <2> QED BY <2>1, <2>2, <2>3
<1>8. Calling(p)' /\ Calling(r)'
  <2>1. ~Queued(p)' /\ ~Queued(r)'
    BY <1>1, <1>2, <1>4, <1>7, CallFacts DEF Queued, Blocked
  <2> QED BY <1>2, <1>4, <1>5, <2>1 DEF Calling, Live, Receiving, Waiting, Zombie, Free
<1>9. Held'
  <2>1. ~Serving'
    BY <1>3 DEF Serving, Handing
  <2> QED BY <1>3, <2>1 DEF Held
<1> QED BY <1>6, <1>8, <1>9 DEF CallInv

-----------------------------------------------------------------------------
\* Without split updates, every step keeps the calls in order.
LEMMA CallsKept ==
  ASSUME MInv, CallInv, ~SplitUpdates, [Next]_mmvars
  PROVE  CallInv'
<1>1. CASE UNCHANGED mmvars \/ MmDeadlock
  <2>1. UNCHANGED <<p_flags, p_parent, exit_status, regs, mem, q_sending, mm>>
    BY <1>1 DEF mmvars, MmDeadlock
  <2>2. \A q \in Pids : Expected(q) => Expected(q)'
    BY <2>1 DEF Expected, Waiting, Zombie, Serving, Handing
  <2>3. Held'
    BY <2>1 DEF CallInv, Held, Serving, Handing, InService, Live, Receiving
  <2> QED BY <2>1, <2>2, <2>3, HeldChanges
<1>2. CASE StoreFlags
  BY <1>2, MarkCalls, WakeCalls DEF StoreFlags, Updating
<1>3. ~ForkCopyRegs /\ ~LoadFlags
  BY DEF ForkCopyRegs, LoadFlags
<1>4. CASE Take \/ ForkFails \/ ForkTellsFs \/ Wait
  BY <1>4, TakeCalls, StayCalls
<1>5. CASE ForkDuplicate \/ Birth \/ ReplyToCaller
  BY <1>5, DuplicateCalls, BirthCalls, ReplyCalls
<1>6. CASE Exit \/ AdoptRound \/ Cleanup
  BY <1>6, ExitCalls, AdoptCalls, CleanupCalls
<1>7. ASSUME NEW p \in Pids, UserCall(p) \/ ReceiveReply(p) \/ Return(p)
      PROVE  CallInv'
  BY <1>7, SendCalls, RunCalls
<1> QED BY <1>1, <1>2, <1>3, <1>4, <1>5, <1>6, <1>7 DEF Next, MmStep

\* Nobody calls in the initial state.
LEMMA InitCalls == Init => CallInv
<1> SUFFICES ASSUME Init PROVE CallInv
  OBVIOUS
<1>1. mm.pc = "take" /\ mm.word = NotLoaded /\ ~Serving
  BY DEF Init, Idle, Serving
<1>2. \A p \in Pids : /\ ~Receiving(p) /\ ~Waiting(p) /\ ~Zombie(p) /\ p_flags[p] # {"WAITING"}
                      /\ regs[p].at = "run" /\ ~Queued(p)
  <2>1. \A p : ~Queued(p)
    BY DEF Init, Queued, Holds
  <2> QED BY <2>1 DEF Init, Receiving, Waiting, Zombie, Working
<1> QED BY <1>1, <1>2 DEF CallInv, Held, Calling

\* With p_flags updated in one step, MM and the processes agree where each call is.
THEOREM CallInvHolds == ~SplitUpdates /\ Spec => []CallInv
<1>1. ASSUME ~SplitUpdates PROVE MInv /\ CallInv /\ [Next]_mmvars => CallInv'
  BY <1>1, CallsKept
<1>2. ASSUME ~SplitUpdates PROVE Spec => []CallInv
  BY <1>1, <1>2, InitCalls, MInvHolds, PTL DEF Spec
<1> QED BY <1>2

\* Property NoCallerForgotten of run mm_calls: between two requests a process blocked in its
\* RECEIVE waits for a child, or hangs.
THEOREM CallersCorrect == ~SplitUpdates /\ Spec => []NoCallerForgotten
<1>1. CallInv /\ MInv => NoCallerForgotten
  <2> SUFFICES ASSUME CallInv, MInv, MmIdle, NEW p \in Pids, Receiving(p)
               PROVE  Waiting(p) \/ Zombie(p)
    BY DEF NoCallerForgotten
  <2>1. p_flags[p] \in Shapes /\ p_flags[p] # Free /\ p_flags[p] # Blocked
    BY CallFacts DEF Receiving, Free, Blocked
  <2>2. Live(p) /\ ~Queued(p)
    BY <2>1, CallFacts, ShapeMarks DEF Live
  <2> QED BY <2>2, CallFacts DEF Calling, Expected, Serving, MmIdle
<1> QED BY <1>1, CallInvHolds, MInvHolds, PTL

\* What each step does to a process that it takes out of its RECEIVE.
LEMMA Released ==
  ASSUME MInv, CallInv, ~SplitUpdates, [Next]_mmvars,
         NEW p \in Pids, Receiving(p), "RECEIVING" \notin p_flags'[p]
  PROVE  \/ Birth /\ p = mm.who
         \/ ReplyToCaller /\ p = mm.src
         \/ Cleanup /\ p \in {mm.who, p_parent[mm.who]}
<1>0. p_flags'[p] # p_flags[p] /\ p_flags[p] # {} /\ p_flags[p] # Free
  BY DEF Receiving, Free
<1>1. ASSUME NEW q \in Pids, UserCall(q) \/ ReceiveReply(q) PROVE FALSE
  <2>1. p_flags[q] = {} /\ \E f : p_flags' = [p_flags EXCEPT ![q] = f]
    BY <1>1 DEF UserCall, SendCall, ReceiveReply, Runnable
  <2> QED BY <1>0, <2>1, CallFacts
<1>2. ~StoreFlags
  <2> SUFFICES ASSUME StoreFlags PROVE FALSE
    OBVIOUS
  <2>1. p_flags' = [p_flags EXCEPT ![UpdateTarget] = Updated(p_flags[UpdateTarget])]
    BY DEF StoreFlags, Updated
  <2>2. \A f : "RECEIVING" \in f => "RECEIVING" \in Updated(f)
    BY DEF StoreFlags, Updating, Updated
  <2> QED BY <2>1, <2>2, CallFacts DEF Receiving
<1>3. ~Take
  <2> SUFFICES ASSUME Take PROVE FALSE
    OBVIOUS
  <2>1. p_flags' = [p_flags EXCEPT ![Head(q_sending)] = @ \ {"SENDING"}]
    BY DEF Take
  <2> QED BY <2>1, CallFacts DEF Receiving
<1>4. ~ForkDuplicate
  <2> SUFFICES ASSUME ForkDuplicate PROVE FALSE
    OBVIOUS
  <2>1. PICK c \in FreeSlots : p_flags' = [p_flags EXCEPT ![c] = p_flags[mm.src]]
    BY FirstExists DEF ForkDuplicate, MmAt, ForkCopy, FreeSlots, CallInv, Held
  <2> QED BY <1>0, <2>1, CallFacts DEF FreeSlots, Free
<1>5. Birth => p = mm.who
  BY <1>0, CallFacts DEF Birth
<1>6. ReplyToCaller => p = mm.src
  BY <1>0, CallFacts DEF ReplyToCaller
<1>7. Cleanup => p \in {mm.who, p_parent[mm.who]}
  BY <1>0, CallFacts DEF Cleanup
<1> QED BY <1>0, <1>1, <1>2, <1>3, <1>4, <1>5, <1>6, <1>7
        DEF Next, MmStep, mmvars, Return, ForkFails, ForkCopyRegs, ForkTellsFs, LoadFlags,
            Exit, AdoptRound, Wait, MmDeadlock

\* At a cleanup, the child has called exit(), with the status it left, and its parent wait().
LEMMA CleanupPairs ==
  ASSUME MInv, CallInv, Cleanup
  PROVE  /\ mm.who \in Pids /\ Live(mm.who)
         /\ regs[mm.who].call = "EXIT" /\ mem[mm.who].value = exit_status[mm.who]
         /\ p_parent[mm.who] \in Pids \ {mm.who} /\ regs[p_parent[mm.who]].call = "WAIT"
<1>1. /\ mm.pc = "cleanup" /\ mm.who \in Pids /\ p_parent[mm.who] \in Pids \ {mm.who}
      /\ mm.call \in {"EXIT", "WAIT"}
  BY DEF Cleanup, MmAt, MInv, TypeInv, Source, Parents
<1>2. Zombie(mm.who) \/ (mm.call = "EXIT" /\ Serving /\ mm.who = mm.src)
  BY <1>1 DEF MInv, Source, Serving, Handing
<1>3. CASE Zombie(mm.who)
  <2>1. Live(mm.who)
    BY <1>1, <1>3, CallFacts, ShapeMarks DEF Zombie, Live
  <2> QED BY <1>1, <1>3, <2>1, CallFacts DEF Calling, CallInv, Held
<1>4. CASE mm.call = "EXIT" /\ Serving /\ mm.who = mm.src
  BY <1>1, <1>4, CallFacts DEF InService, InReply, Live, CallInv, Held
<1> QED BY <1>1, <1>2, <1>3, <1>4

\* Property ReapsOwnChild of run mm_calls: wait() returns a child of the caller that called
\* exit(), with its status, and the entry of that child is free.
THEOREM WaitCorrect == ~SplitUpdates /\ Spec => ReapsOwnChild
<1> DEFINE Reaped(p) ==
      Receiving(p) /\ "RECEIVING" \notin p_flags'[p]
        /\ regs[p].call = "WAIT" /\ mem'[p].pid # NO_TASK
      => LET c == mem'[p].pid
         IN  /\ p_parent[c] = p /\ Live(c) /\ p_flags'[c] = {"FREE_SLOT"}
             /\ regs[c].call = "EXIT" /\ mem[c].value = mem'[p].value
<1>1. ASSUME MInv, CallInv, ~SplitUpdates, [Next]_mmvars, NEW p \in Pids PROVE Reaped(p)
  <2> SUFFICES ASSUME Receiving(p), "RECEIVING" \notin p_flags'[p],
                      regs[p].call = "WAIT", mem'[p].pid # NO_TASK
               PROVE  LET c == mem'[p].pid
                      IN  /\ p_parent[c] = p /\ Live(c) /\ p_flags'[c] = {"FREE_SLOT"}
                          /\ regs[c].call = "EXIT" /\ mem[c].value = mem'[p].value
    OBVIOUS
  <2>1. ~Birth \/ p # mm.who
    BY <1>1 DEF Birth, MmAt, CallInv, Held
  <2>2. ~ReplyToCaller \/ p # mm.src
    <3> SUFFICES ASSUME ReplyToCaller, p = mm.src PROVE FALSE
      OBVIOUS
    <3>1. mm.pc \in {"reply", "fail"} /\ regs[p].call = mm.call
      BY <1>1 DEF ReplyToCaller, MmAt, CallInv, Held, Serving, Handing
    <3>2. mem'[p] = Reply(NO_TASK, NoStatus)
      BY <1>1, <3>1, CallFacts DEF ReplyToCaller, Deliver
    <3> QED BY <3>2 DEF Reply, Message
  <2>3. Cleanup /\ p = p_parent[mm.who]
    BY <1>1, <2>1, <2>2, Released, CleanupPairs
  <2>4. mem'[p] = Reply(mm.who, exit_status[mm.who]) /\ p_flags'[mm.who] = {"FREE_SLOT"}
    BY <1>1, <2>3, CallFacts, CleanupPairs DEF Cleanup, Deliver
  <2>5. mem'[p].pid = mm.who /\ mem'[p].value = exit_status[mm.who]
    BY <2>4 DEF Reply, Message
  <2> QED BY <1>1, <2>3, <2>4, <2>5, CleanupPairs
<1>2. ASSUME ~SplitUpdates
      PROVE  MInv /\ CallInv /\ [Next]_mmvars => [\A p \in Pids : Reaped(p)]_mmvars
  BY <1>1, <1>2
<1> HIDE DEF Reaped
<1>3. ASSUME ~SplitUpdates PROVE Spec => [][\A p \in Pids : Reaped(p)]_mmvars
  BY <1>2, <1>3, CallInvHolds, MInvHolds, PTL DEF Spec
<1> QED BY <1>3 DEF ReapsOwnChild, Reaped

\* Property ForkReturnsTwice of run mm_calls: fork() returns in the parent with the PID of a
\* process that is its child, and in that child, first, with 0.
THEOREM ForkCorrect == ~SplitUpdates /\ Spec => ForkReturnsTwice
<1> DEFINE Forked(p) ==
      Receiving(p) /\ "RECEIVING" \notin p_flags'[p]
        /\ regs[p].call = "FORK" /\ mem'[p].value = 0
      => \/ mem'[p].pid = 0 /\ p = mm.who
         \/ /\ mem'[p].pid = mm.who /\ p_parent[mm.who] = p
            /\ Live(mm.who) /\ ~Receiving(mm.who)
<1>1. ASSUME MInv, CallInv, ~SplitUpdates, [Next]_mmvars, NEW p \in Pids PROVE Forked(p)
  <2> SUFFICES ASSUME Receiving(p), "RECEIVING" \notin p_flags'[p],
                      regs[p].call = "FORK", mem'[p].value = 0
               PROVE  \/ mem'[p].pid = 0 /\ p = mm.who
                      \/ /\ mem'[p].pid = mm.who /\ p_parent[mm.who] = p
                         /\ Live(mm.who) /\ ~Receiving(mm.who)
    OBVIOUS
  <2>1. ~Cleanup \/ p \notin {mm.who, p_parent[mm.who]}
    BY <1>1, CleanupPairs
  <2>2. CASE Birth /\ p = mm.who
    <3>1. mem'[p] = Reply(0, 0)
      BY <1>1, <2>2, CallFacts DEF Birth, Deliver
    <3> QED BY <2>2, <3>1 DEF Reply, Message
  <2>3. CASE ReplyToCaller /\ p = mm.src
    <3>1. mm.pc \in {"reply", "fail"} /\ mm.call = "FORK"
      BY <1>1, <2>3 DEF ReplyToCaller, MmAt, CallInv, Held, Serving, Handing
    <3>2. CASE mm.pc = "fail"
      <4>1. mem'[p] = Reply(NO_TASK, -1)
        BY <1>1, <2>3, <3>1, <3>2, CallFacts DEF ReplyToCaller, MmAt, Deliver
      <4> QED BY <4>1 DEF Reply, Message
    <3>3. CASE mm.pc = "reply"
      <4>1. mem'[p] = Reply(mm.who, 0)
        BY <1>1, <2>3, <3>1, <3>3, CallFacts DEF ReplyToCaller, MmAt, Deliver
      <4>2. mem'[p].pid = mm.who
        BY <4>1 DEF Reply, Message
      <4> QED BY <1>1, <2>3, <3>3, <4>2 DEF CallInv, Held
    <3> QED BY <3>1, <3>2, <3>3
  <2> QED BY <1>1, <2>1, <2>2, <2>3, Released
<1>2. ASSUME ~SplitUpdates
      PROVE  MInv /\ CallInv /\ [Next]_mmvars => [\A p \in Pids : Forked(p)]_mmvars
  BY <1>1, <1>2
<1> HIDE DEF Forked
<1>3. ASSUME ~SplitUpdates PROVE Spec => [][\A p \in Pids : Forked(p)]_mmvars
  BY <1>2, <1>3, CallInvHolds, MInvHolds, PTL DEF Spec
<1> QED BY <1>3 DEF ForkReturnsTwice, Forked
=============================================================================
