----------------------------- MODULE TtyProofs ------------------------------
(***************************************************************************)
(* Proofs about the terminal (module Tty), for any processes, any lengths  *)
(* of reads and any size of the keyboard buffer: FS answers only who waits *)
(* for an answer, and the lines TTY collects have the length the reader    *)
(* asked for.                                                              *)
(***************************************************************************)
EXTENDS Tty, Integers, TLAPS

\* The queues of senders, as sequences: who is in one, and that each is there
\* once.
Holds(q, p) == \E i \in 1 .. Len(q) : q[i] = p
EachOnce(q) == \A i, j \in 1 .. Len(q) : q[i] = q[j] => i = j

\* A queue with one more at its end holds that one besides.
LEMMA AppendHolds ==
  ASSUME NEW S, NEW q \in Seq(S), NEW s \in S
  PROVE  /\ Append(q, s) \in Seq(S)
         /\ \A p : Holds(Append(q, s), p) <=> Holds(q, p) \/ p = s
         /\ EachOnce(q) /\ ~Holds(q, s) => EachOnce(Append(q, s))
<1> DEFINE r == Append(q, s)
<1>1. /\ Len(r) = Len(q) + 1 /\ Len(q) \in Nat /\ r[Len(q) + 1] = s
      /\ \A i \in 1 .. Len(q) : r[i] = q[i]
      /\ r \in Seq(S)
  OBVIOUS
<1> HIDE DEF r
<1>2. \A p : Holds(r, p) <=> Holds(q, p) \/ p = s
  BY <1>1 DEF Holds
<1>3. EachOnce(q) /\ ~Holds(q, s) => EachOnce(r)
  BY <1>1 DEF Holds, EachOnce
<1> QED BY <1>1, <1>2, <1>3 DEF r

\* A queue without its head holds the rest.
LEMMA TailHolds ==
  ASSUME NEW S, NEW q \in Seq(S), q # <<>>, EachOnce(q)
  PROVE  /\ Tail(q) \in Seq(S) /\ Head(q) \in S /\ Holds(q, Head(q))
         /\ \A p : Holds(Tail(q), p) <=> Holds(q, p) /\ p # Head(q)
         /\ EachOnce(Tail(q))
<1> DEFINE r == Tail(q)
           h == Head(q)
<1>1. /\ Len(r) = Len(q) - 1 /\ Len(q) \in Nat /\ Len(q) >= 1 /\ h = q[1]
      /\ \A i \in 1 .. Len(q) - 1 : r[i] = q[i + 1]
      /\ r \in Seq(S) /\ h \in S
  OBVIOUS
<1> HIDE DEF r, h
<1>2. Holds(q, h)
  BY <1>1 DEF Holds
<1>3. EachOnce(r)
  BY <1>1 DEF EachOnce
<1>4. ASSUME NEW p, Holds(r, p) PROVE Holds(q, p) /\ p # h
  <2>1. PICK i \in 1 .. Len(r) : r[i] = p
    BY <1>4 DEF Holds
  <2>2. i + 1 \in 1 .. Len(q) /\ q[i + 1] = p /\ i + 1 # 1
    BY <1>1, <2>1
  <2> QED BY <1>1, <2>2 DEF Holds, EachOnce
<1>5. ASSUME NEW p, Holds(q, p), p # h PROVE Holds(r, p)
  <2>1. PICK i \in 1 .. Len(q) : q[i] = p
    BY <1>5 DEF Holds
  <2>2. i - 1 \in 1 .. Len(r) /\ r[i - 1] = p
    BY <1>1, <1>5, <2>1
  <2> QED BY <2>2 DEF Holds
<1> QED BY <1>1, <1>2, <1>3, <1>4, <1>5 DEF r, h

Senders == Users \union {TASK_TTY}

\* p is in the queue of FS.
Queued(p) == Holds(q_sending, p)

\* TTY collects a line for a reader, or is about to send it.
Reading == tty.left > 0 \/ tty_pc \in {"resume", "resuming"}

FsPcs == {"take", "send", "sending", "await", "answer"}
TtyPcs == {"read", "write", "resume", "resuming", "receive", "blocked", "hard_int",
           "request", "reply"}

TypeInv ==
  /\ kb_in \in Seq(Codes) /\ ibuf \in Seq(Codes)
  /\ tty_pc \in TtyPcs /\ fs_pc \in FsPcs
  /\ tty \in [procnr : Senders \union {NO_TASK}, left : Nat, trans : Nat]
  /\ fs \in [src : Users \union {NO_TASK},
             type : {"none", "READ", "WRITE", "DISK", "RESUME"}, cnt : Nat]
  /\ q_sending \in Seq(Senders)
  /\ request \in [Users -> Requests \union {NoRequest}]

\* FS serves the call of a process, which is not in the queue.
Served ==
  /\ fs_pc = "take" <=> fs.src \notin Users
  /\ fs.src \in Users =>
       /\ request[fs.src] # NoRequest /\ ~Queued(fs.src)
       /\ fs.type # "RESUME" =>
            fs.type = request[fs.src].type /\ fs.cnt = request[fs.src].cnt
       /\ fs.type = "RESUME" =>
            fs_pc = "answer" /\ request[fs.src].type = "READ" /\ fs.cnt <= request[fs.src].cnt

\* Who is in the queue of FS is there once, with a call; TTY while it sends.
Queue ==
  /\ EachOnce(q_sending)
  /\ \A u \in Users : Queued(u) => request[u] # NoRequest
  /\ Queued(TASK_TTY) <=> tty_pc = "resuming"

\* FS waits for the answer of TTY, and TTY for nobody.
Asked == fs_pc = "await" <=> tty_pc \in {"request", "reply"}

\* The reader waits, unknown to FS but while its own read is being answered.
Reader ==
  Reading =>
    /\ tty.procnr \in Users /\ request[tty.procnr].type = "READ"
    /\ tty.left + tty.trans = request[tty.procnr].cnt
    /\ ~Queued(tty.procnr)
    /\ fs.src = tty.procnr => tty_pc = "reply" /\ fs.type = "READ"

TInv == TypeInv /\ Served /\ Queue /\ Asked /\ Reader

-----------------------------------------------------------------------------
(* A lemma about lines.                                                    *)

\* A key moves the line, and keeps the sum of what it has and what it wants.
LEMMA TypedAddsUp ==
  ASSUME NEW code \in Codes,
         tty \in [procnr : Senders \union {NO_TASK}, left : Nat, trans : Nat]
  PROVE  /\ Typed(code) \in [procnr : Senders \union {NO_TASK}, left : Nat, trans : Nat]
         /\ Typed(code).procnr = tty.procnr
         /\ Typed(code).left + Typed(code).trans = tty.left + tty.trans
         /\ tty.left = 0 => Typed(code) = tty
<1>0. /\ tty.procnr \in Senders \union {NO_TASK} /\ tty.left \in Nat /\ tty.trans \in Nat
      /\ tty = [procnr |-> tty.procnr, left |-> tty.left, trans |-> tty.trans]
  OBVIOUS
<1>1. CASE code = "char" /\ tty.left > 0
  <2>1. Typed(code) = [tty EXCEPT !.trans = @ + 1, !.left = @ - 1]
    BY <1>1 DEF Typed
  <2>2. Typed(code) = [procnr |-> tty.procnr, left |-> tty.left - 1, trans |-> tty.trans + 1]
    BY <1>0, <2>1
  <2>3. tty.left - 1 \in Nat /\ tty.trans + 1 \in Nat
    BY <1>0, <1>1
  <2> QED BY <1>0, <1>1, <2>2, <2>3
<1>2. CASE code = "backspace" /\ tty.left > 0 /\ tty.trans > 0
  <2>1. Typed(code) = [tty EXCEPT !.trans = @ - 1, !.left = @ + 1]
    BY <1>2 DEF Typed, Erased
  <2>2. Typed(code) = [procnr |-> tty.procnr, left |-> tty.left + 1, trans |-> tty.trans - 1]
    BY <1>0, <2>1
  <2>3. tty.left + 1 \in Nat /\ tty.trans - 1 \in Nat
    BY <1>0, <1>2
  <2> QED BY <1>0, <1>2, <2>2, <2>3
<1>3. CASE ~(code = "char" /\ tty.left > 0)
           /\ ~(code = "backspace" /\ tty.left > 0 /\ tty.trans > 0)
  BY <1>3 DEF Typed
<1> QED BY <1>1, <1>2, <1>3

-----------------------------------------------------------------------------
(* The steps.                                                              *)

\* Before the first call nobody waits.
LEMMA InitTInv == Init => TInv
<1> SUFFICES ASSUME Init PROVE TInv
  OBVIOUS
<1>1. TypeInv
  BY DEF Init, TypeInv, NoReader, NoMessage, NoRequest, Senders, TtyPcs, FsPcs
<1>2. ~Reading /\ \A p : ~Queued(p)
  BY DEF Init, Reading, Queued, Holds, NoReader
<1>3. Served /\ Asked
  BY <1>2, TtyAssumption DEF Init, Served, Asked, NoMessage
<1>4. Queue /\ Reader
  BY <1>2 DEF Init, Queue, Reader, EachOnce
<1> QED BY <1>1, <1>3, <1>4 DEF TInv

\* TTY goes on between its rounds: FS and the processes see nothing of it.
LEMMA RoundsKeep ==
  ASSUME TInv, UNCHANGED <<tty, fs_pc, fs, q_sending, request>>, 
         kb_in' \in Seq(Codes), ibuf' \in Seq(Codes),
         \/ tty_pc' = tty_pc
         \/ {tty_pc, tty_pc'} \subseteq {"read", "write", "receive", "blocked", "hard_int"}
  PROVE  TInv'
<1>1. tty_pc' \in TtyPcs
  BY DEF TInv, TypeInv, TtyPcs
<1>2. TypeInv'
  BY <1>1 DEF TInv, TypeInv
<1>3. \A p : Queued(p)' <=> Queued(p)
  BY DEF Queued
<1>4. Reading' <=> Reading
  BY DEF Reading
<1> QED BY <1>2, <1>3, <1>4 DEF TInv, Served, Queue, Asked, Reader

\* A process calls FS and waits in its queue.
LEMMA CallKeeps ==
  ASSUME TInv, NEW u \in Users, NEW r \in Requests, Call(u, r)
  PROVE  TInv'
<1>1. /\ request[u] = NoRequest /\ request' = [request EXCEPT ![u] = r]
      /\ q_sending' = Append(q_sending, u)
      /\ UNCHANGED <<kb_in, ibuf, tty_pc, tty, fs_pc, fs>>
  BY DEF Call, keys
<1>2. /\ u \in Senders /\ q_sending \in Seq(Senders)
      /\ request \in [Users -> Requests \union {NoRequest}]
  BY DEF Senders, TInv, TypeInv
<1>3. ~Queued(u) /\ fs.src # u
  BY <1>1 DEF TInv, Queue, Served
<1>4. Reading => tty.procnr # u
  BY <1>1 DEF TInv, Reader, NoRequest
<1>5. /\ q_sending' \in Seq(Senders)
      /\ \A p : Queued(p)' <=> Queued(p) \/ p = u
      /\ EachOnce(q_sending')
  BY <1>1, <1>2, <1>3, AppendHolds DEF TInv, Queue, Queued
<1>6. /\ request' \in [Users -> Requests \union {NoRequest}]
      /\ r # NoRequest /\ request'[u] = r
      /\ \A v \in Users : v # u => request'[v] = request[v]
  BY <1>1, <1>2 DEF Requests, NoRequest
<1>7. TypeInv'
  BY <1>1, <1>5, <1>6 DEF TInv, TypeInv
<1>8. Served'
  BY <1>1, <1>3, <1>5, <1>6 DEF TInv, Served
<1>9. Queue' /\ Asked'
  BY <1>1, <1>5, <1>6, TtyAssumption DEF TInv, Queue, Asked
<1>10. Reader'
  BY <1>1, <1>4, <1>5, <1>6 DEF TInv, Reader, Reading
<1> QED BY <1>7, <1>8, <1>9, <1>10 DEF TInv

\* keyboard_read moves the codes of the keyboard buffer to the terminal.
LEMMA ReadKeeps ==
  ASSUME TInv, ReadKey \/ ReadEnds
  PROVE  TInv'
<1>1. CASE ReadKey
  <2>1. kb_in # <<>> /\ kb_in' = Tail(kb_in) /\ ibuf' = Put(Head(kb_in))
    BY <1>1 DEF ReadKey
  <2>2. kb_in \in Seq(Codes) /\ ibuf \in Seq(Codes)
    BY DEF TInv, TypeInv
  <2>3. Head(kb_in) \in Codes /\ Tail(kb_in) \in Seq(Codes)
    BY <2>1, <2>2
  <2>4. ibuf' \in Seq(Codes)
    BY <2>1, <2>2, <2>3 DEF Put
  <2> QED BY <1>1, <2>1, <2>3, <2>4, RoundsKeep DEF ReadKey
<1>2. CASE ReadEnds
  BY <1>2, RoundsKeep DEF ReadEnds, TtyAt, keys, TInv, TypeInv
<1> QED BY <1>1, <1>2

\* tty_dev_write gives the keys to the reader.
LEMMA WriteKeeps ==
  ASSUME TInv, WriteKey \/ WriteEnds
  PROVE  TInv'
<1>1. CASE WriteEnds
  BY <1>1, RoundsKeep DEF WriteEnds, TtyAt, keys, TInv, TypeInv
<1>2. CASE WriteKey
  <2> DEFINE code == Head(ibuf)
  <2>1. /\ tty_pc = "write" /\ ibuf # <<>>
        /\ ibuf' = Tail(ibuf) /\ tty' = Typed(code)
        /\ tty_pc' = IF Completes(code) THEN "resume" ELSE "write"
        /\ UNCHANGED <<kb_in, fs_pc, fs, q_sending, request>>
    BY <1>2 DEF WriteKey, TtyAt
  <2>2. code \in Codes /\ Tail(ibuf) \in Seq(Codes)
    BY <2>1 DEF TInv, TypeInv
  <2> HIDE DEF code
  <2>3. tty \in [procnr : Senders \union {NO_TASK}, left : Nat, trans : Nat]
    BY DEF TInv, TypeInv
  <2>4. /\ tty' \in [procnr : Senders \union {NO_TASK}, left : Nat, trans : Nat]
        /\ tty'.procnr = tty.procnr /\ tty'.left + tty'.trans = tty.left + tty.trans
        /\ tty.left = 0 => tty' = tty
    BY <2>1, <2>2, <2>3, TypedAddsUp
  <2>5. TypeInv'
    BY <2>1, <2>2, <2>4 DEF TInv, TypeInv, TtyPcs
  <2>6. Reading' => Reading
    BY <2>1, <2>3, <2>4 DEF Reading, Completes
  <2>7. \A p : Queued(p)' <=> Queued(p)
    BY <2>1 DEF Queued
  <2>8. Served' /\ Queue' /\ Asked'
    BY <2>1, <2>7 DEF TInv, Served, Queue, Asked
  <2>9. Reader'
    BY <2>1, <2>4, <2>6, <2>7 DEF TInv, Reader
  <2> QED BY <2>5, <2>8, <2>9 DEF TInv
<1> QED BY <1>1, <1>2

\* A line is complete, and TTY sends it to FS.
LEMMA ResumeKeeps ==
  ASSUME TInv, Resume
  PROVE  TInv'
<1>1. tty_pc = "resume" /\ UNCHANGED <<kb_in, ibuf, tty, fs_pc, fs, request>>
  BY DEF Resume, TtyAt, keys
<1>2. CASE fs_pc = "sending"
  BY <1>1, <1>2, RoundsKeep DEF Resume, TInv, TypeInv
<1>3. CASE fs_pc # "sending"
  <2>1. tty_pc' = "resuming" /\ q_sending' = Append(q_sending, TASK_TTY)
    BY <1>3 DEF Resume
  <2>2. ~Queued(TASK_TTY) /\ TASK_TTY \in Senders /\ TASK_TTY \notin Users
    BY <1>1, TtyAssumption DEF TInv, Queue, Senders
  <2>3. /\ q_sending' \in Seq(Senders)
        /\ \A p : Queued(p)' <=> Queued(p) \/ p = TASK_TTY
        /\ EachOnce(q_sending')
    BY <2>1, <2>2, AppendHolds DEF TInv, TypeInv, Queue, Queued
  <2>4. TypeInv'
    BY <1>1, <2>1, <2>3 DEF TInv, TypeInv, TtyPcs
  <2>5. Served' /\ Queue' /\ Asked'
    BY <1>1, <2>1, <2>2, <2>3 DEF TInv, Served, Queue, Asked
  <2>6. Reader'
    BY <1>1, <2>1, <2>2, <2>3 DEF TInv, Reader, Reading
  <2> QED BY <2>4, <2>5, <2>6 DEF TInv
<1> QED BY <1>2, <1>3

\* TTY takes a request of FS.
LEMMA ReceiveKeeps ==
  ASSUME TInv, Receive
  PROVE  TInv'
<1>1. tty_pc = "receive" /\ UNCHANGED <<kb_in, ibuf, tty, fs, q_sending, request>>
  BY DEF Receive, TtyAt, keys
<1>2. CASE fs_pc' = fs_pc /\ tty_pc' \in {"hard_int", "blocked"}
  BY <1>1, <1>2, RoundsKeep DEF TInv, TypeInv
<1>3. CASE fs_pc = "sending" /\ fs_pc' = "await" /\ tty_pc' = "request"
  <2>1. \A p : Queued(p)' <=> Queued(p)
    BY <1>1 DEF Queued
  <2>2. TypeInv' /\ Served' /\ Queue' /\ Asked'
    BY <1>1, <1>3, <2>1 DEF TInv, TypeInv, Served, Queue, Asked, TtyPcs, FsPcs
  <2>3. Reader'
    BY <1>1, <1>3, <2>1 DEF TInv, Reader, Reading
  <2> QED BY <2>2, <2>3 DEF TInv
<1> QED BY <1>2, <1>3 DEF Receive

\* TTY handles a request: a read makes its process the reader.
LEMMA HandleKeeps ==
  ASSUME TInv, Handle
  PROVE  TInv'
<1>1. /\ tty_pc = "request" /\ tty_pc' = "reply"
      /\ UNCHANGED <<kb_in, ibuf, fs_pc, fs, q_sending, request>>
  BY DEF Handle, TtyAt, keys
<1>2. /\ fs_pc = "await" /\ fs.src \in Users /\ fs.type # "RESUME" /\ fs.cnt \in Nat
      /\ fs.type = request[fs.src].type /\ fs.cnt = request[fs.src].cnt
      /\ ~Queued(fs.src)
  BY <1>1 DEF TInv, TypeInv, Asked, Served
<1>3. \A p : Queued(p)' <=> Queued(p)
  BY <1>1 DEF Queued
<1>4. Served' /\ Queue' /\ Asked'
  BY <1>1, <1>3 DEF TInv, Served, Queue, Asked
<1>5. CASE fs.type = "READ"
  <2>1. tty' = [procnr |-> fs.src, left |-> fs.cnt, trans |-> 0]
    BY <1>5 DEF Handle
  <2>2. TypeInv'
    BY <1>1, <1>2, <2>1 DEF TInv, TypeInv, TtyPcs, Senders
  <2>3. Reader'
    <3>1. tty'.procnr = fs.src /\ tty'.left + tty'.trans = fs.cnt
      BY <1>2, <2>1
    <3>2. /\ tty'.procnr \in Users /\ request'[tty'.procnr].type = "READ"
          /\ tty'.left + tty'.trans = request'[tty'.procnr].cnt
      BY <1>1, <1>2, <1>5, <3>1
    <3>3. ~Queued(tty.procnr)'
      BY <1>1, <1>2, <3>1 DEF Queued
    <3> QED BY <1>1, <1>5, <3>2, <3>3 DEF Reader
  <2> QED BY <1>4, <2>2, <2>3 DEF TInv
<1>6. CASE fs.type # "READ"
  <2>1. tty' = tty
    BY <1>6 DEF Handle
  <2>2. TypeInv'
    BY <1>1, <2>1 DEF TInv, TypeInv, TtyPcs
  <2>3. Reader'
    BY <1>1, <1>3, <2>1 DEF TInv, Reader, Reading
  <2> QED BY <1>4, <2>2, <2>3 DEF TInv
<1> QED BY <1>5, <1>6

\* TTY answers FS: a reader is to be suspended, a writer is done.
LEMMA ReplyKeeps ==
  ASSUME TInv, ReplyToFs
  PROVE  TInv'
<1>1. /\ tty_pc = "reply" /\ fs_pc = "await" /\ tty_pc' = "read"
      /\ UNCHANGED <<kb_in, ibuf, tty, q_sending, request>>
  BY DEF ReplyToFs, TtyAt, keys
<1>2. fs.src \in Users /\ fs.type # "RESUME" /\ request[fs.src] # NoRequest
  BY <1>1 DEF TInv, Served
<1>3. \A p : Queued(p)' <=> Queued(p)
  BY <1>1 DEF Queued
<1>4. Reading' => Reading
  BY <1>1 DEF Reading
<1>5. Queue'
  BY <1>1, <1>3 DEF TInv, Queue
<1>6. CASE fs.type = "READ"
  <2>1. fs_pc' = "take" /\ fs' = NoMessage
    BY <1>6 DEF ReplyToFs, Answered
  <2>2. TypeInv' /\ Served' /\ Asked'
    BY <1>1, <2>1, TtyAssumption
    DEF TInv, TypeInv, Served, Asked, NoMessage, TtyPcs, FsPcs
  <2>3. Reader'
    BY <1>1, <1>3, <1>4, <2>1, TtyAssumption DEF TInv, Reader, NoMessage
  <2> QED BY <1>5, <2>2, <2>3 DEF TInv
<1>7. CASE fs.type # "READ"
  <2>1. fs_pc' = "answer" /\ fs' = fs
    BY <1>7 DEF ReplyToFs, Answered
  <2>2. TypeInv' /\ Served' /\ Asked'
    BY <1>1, <1>2, <1>3, <2>1 DEF TInv, TypeInv, Served, Asked, TtyPcs, FsPcs
  <2>3. Reader'
    BY <1>1, <1>3, <1>4, <1>7, <2>1 DEF TInv, Reader
  <2> QED BY <1>5, <2>2, <2>3 DEF TInv
<1> QED BY <1>6, <1>7

\* FS takes the next message of its queue.
LEMMA TakeKeeps ==
  ASSUME TInv, Take
  PROVE  TInv'
<1> DEFINE s == Head(q_sending)
<1>1. /\ fs_pc = "take" /\ q_sending # <<>> /\ q_sending' = Tail(q_sending)
      /\ UNCHANGED <<kb_in, ibuf, request>>
  BY DEF Take, FsAt, keys
<1>2. /\ q_sending' \in Seq(Senders) /\ s \in Senders /\ Queued(s)
      /\ \A p : Queued(p)' <=> Queued(p) /\ p # s
      /\ EachOnce(q_sending')
  BY <1>1, TailHolds DEF TInv, TypeInv, Queue, Queued
<1>3. CASE s = TASK_TTY
  <2>1. /\ fs' = [src |-> tty.procnr, type |-> "RESUME", cnt |-> tty.trans]
        /\ fs_pc' = "answer" /\ tty' = [tty EXCEPT !.left = 0] /\ tty_pc' = "write"
    BY <1>3 DEF Take, Resumed
  <2>2. tty_pc = "resuming"
    BY <1>2, <1>3 DEF TInv, Queue
  <2>3. /\ tty.procnr \in Users /\ request[tty.procnr].type = "READ"
        /\ tty.left + tty.trans = request[tty.procnr].cnt /\ ~Queued(tty.procnr)
    BY <2>2 DEF TInv, Reader, Reading
  <2>4. tty.left \in Nat /\ tty.trans \in Nat
    BY DEF TInv, TypeInv
  <2>5. tty'.left = 0 /\ ~Reading'
    BY <2>1, <2>4 DEF TInv, TypeInv, Reading
  <2>6. TypeInv'
    <3>1. tty' \in [procnr : Senders \union {NO_TASK}, left : Nat, trans : Nat]
      BY <2>1 DEF TInv, TypeInv
    <3> QED BY <1>1, <1>2, <2>1, <2>3, <2>4, <3>1 DEF TInv, TypeInv, TtyPcs, FsPcs
  <2>7. Served'
    <3>1. request[tty.procnr] # NoRequest
      BY <2>3 DEF NoRequest
    <3>2. tty.trans <= request[tty.procnr].cnt
      BY <2>3, <2>4
    <3> QED BY <1>1, <1>2, <2>1, <2>3, <3>1, <3>2 DEF Served
  <2>8. Queue' /\ Asked' /\ Reader'
    BY <1>1, <1>2, <1>3, <2>1, <2>5, TtyAssumption DEF TInv, Queue, Asked, Reader
  <2> QED BY <2>6, <2>7, <2>8 DEF TInv
<1>4. CASE s # TASK_TTY
  <2>1. /\ fs' = [src |-> s, type |-> request[s].type, cnt |-> request[s].cnt]
        /\ fs_pc' = IF request[s].type = "DISK" THEN "answer" ELSE "send"
        /\ UNCHANGED <<tty, tty_pc>>
    BY <1>4 DEF Take
  <2>2. s \in Users /\ request[s] # NoRequest
    BY <1>2, <1>4 DEF TInv, Queue, Senders
  <2>3. request[s].type \in {"READ", "WRITE", "DISK"} /\ request[s].cnt \in Nat
    <3>1. request[s] \in Requests
      <4>1. request \in [Users -> Requests \union {NoRequest}]
        BY DEF TInv, TypeInv
      <4> QED BY <2>2, <4>1
    <3>2. CASE request[s] \in [type : {"READ"}, cnt : Counts]
      BY <3>2, TtyAssumption
    <3>3. CASE request[s] \in [type : {"WRITE", "DISK"}, cnt : {0}]
      BY <3>3
    <3> QED BY <3>1, <3>2, <3>3 DEF Requests
  <2>4. Reading => s # tty.procnr
    BY <1>2 DEF TInv, Reader
  <2> HIDE DEF s
  <2>5. TypeInv'
    BY <1>1, <1>2, <2>1, <2>2, <2>3 DEF TInv, TypeInv, FsPcs
  <2>6. Served'
    BY <1>1, <1>2, <2>1, <2>2, <2>3 DEF Served
  <2>7. Queue' /\ Asked'
    BY <1>1, <1>2, <1>4, <2>1, <2>3 DEF TInv, Queue, Asked
  <2>8. Reader'
    BY <1>1, <1>2, <2>1, <2>4 DEF TInv, Reader, Reading
  <2> QED BY <2>5, <2>6, <2>7, <2>8 DEF TInv
<1> QED BY <1>3, <1>4

\* FS passes a request on to TTY.
LEMMA SendKeeps ==
  ASSUME TInv, SendToTty
  PROVE  TInv'
<1>1. fs_pc = "send" /\ UNCHANGED <<kb_in, ibuf, tty, fs, q_sending, request>>
  BY DEF SendToTty, FsAt, keys
<1>2. \/ tty_pc' = tty_pc /\ fs_pc' \in {"send", "sending"}
      \/ tty_pc = "blocked" /\ tty_pc' = "request" /\ fs_pc' = "await"
  BY <1>1 DEF SendToTty
<1>3. \A p : Queued(p)' <=> Queued(p)
  BY <1>1 DEF Queued
<1>4. Reading' <=> Reading
  BY <1>1, <1>2 DEF Reading
<1>5. TypeInv' /\ Served' /\ Queue'
  BY <1>1, <1>2, <1>3 DEF TInv, TypeInv, Served, Queue, TtyPcs, FsPcs
<1>6. Asked'
  BY <1>1, <1>2 DEF TInv, Asked
<1>7. Reader'
  BY <1>1, <1>2, <1>3, <1>4 DEF TInv, Reader
<1> QED BY <1>5, <1>6, <1>7 DEF TInv

\* FS answers a process, which can call again.
LEMMA AnswerKeeps ==
  ASSUME TInv, AnswerUser
  PROVE  TInv'
<1> DEFINE u == fs.src
<1>1. /\ fs_pc = "answer" /\ fs_pc' = "take" /\ fs' = NoMessage
      /\ request' = [request EXCEPT ![u] = NoRequest]
      /\ UNCHANGED <<kb_in, ibuf, tty_pc, tty, q_sending>>
  BY DEF AnswerUser, FsAt, keys
<1>2. u \in Users /\ ~Queued(u)
  BY <1>1 DEF TInv, Served
<1>3. Reading => tty.procnr # u
  BY <1>1 DEF TInv, Reader, Asked
<1>4. \A p : Queued(p)' <=> Queued(p)
  BY <1>1 DEF Queued
<1>5. /\ request' \in [Users -> Requests \union {NoRequest}]
      /\ \A v \in Users : v # u => request'[v] = request[v]
  BY <1>1, <1>2 DEF TInv, TypeInv
<1> HIDE DEF u
<1>6. TypeInv' /\ Served' /\ Asked'
  BY <1>1, <1>5, TtyAssumption DEF TInv, TypeInv, Served, Asked, NoMessage, FsPcs
<1>7. Queue'
  BY <1>1, <1>2, <1>4, <1>5 DEF TInv, Queue
<1>8. Reader'
  BY <1>1, <1>3, <1>4, <1>5, TtyAssumption DEF TInv, Reader, Reading, NoMessage
<1> QED BY <1>6, <1>7, <1>8 DEF TInv

\* Every step keeps TInv.
LEMMA NextTInv == TInv /\ [Next]_ttyvars => TInv'
<1> SUFFICES ASSUME TInv, [Next]_ttyvars PROVE TInv'
  OBVIOUS
<1>1. ASSUME NEW code \in Pressed, KeyboardInterrupt(code) PROVE TInv'
  <2>1. kb_in' \in Seq(Codes) /\ ibuf' \in Seq(Codes)
    BY <1>1, TtyAssumption DEF KeyboardInterrupt, Buffered, TInv, TypeInv
  <2> QED BY <1>1, <2>1, RoundsKeep DEF KeyboardInterrupt
<1>2. ASSUME ClockInterrupt \/ HardInt PROVE TInv'
  BY <1>2, RoundsKeep DEF ClockInterrupt, HardInt, TtyAt, keys, TInv, TypeInv
<1>3. ASSUME UNCHANGED ttyvars PROVE TInv'
  BY <1>3, RoundsKeep DEF ttyvars, TInv, TypeInv
<1> QED
  BY <1>1, <1>2, <1>3, CallKeeps, ReadKeeps, WriteKeeps, ResumeKeeps, ReceiveKeeps, HandleKeeps,
     ReplyKeeps, TakeKeeps, SendKeeps, AnswerKeeps DEF Next, TtyStep, FsStep

\* TInv holds in every reachable state.
LEMMA Invariance == Spec => []TInv
  BY InitTInv, NextTInv, PTL DEF Spec

\* FS answers nobody who does not wait, and no read with more characters than
\* it asked for, however many processes read, write and type.
THEOREM AnswersCorrect == Spec => []AnswersExpected
<1>1. TInv => AnswersExpected
  BY DEF TInv, Served, AnswersExpected
<1> QED BY <1>1, Invariance, PTL

\* The line that TTY collects has the length its reader asked for, whatever is
\* typed, before the read and during it.
THEOREM LinesCorrect == Spec => []LineAddsUp
<1>1. TInv => LineAddsUp
  BY DEF TInv, Reader, Reading, LineAddsUp
<1> QED BY <1>1, Invariance, PTL
=============================================================================
