-------------------------------- MODULE Tty ---------------------------------
(***************************************************************************)
(* The terminal: task TTY (kernel/tty.c), the keyboard and clock handlers, *)
(* FS between TTY and the processes that read and write a terminal         *)
(* (task_fs, do_rdwt), and the processes themselves.  One terminal is      *)
(* modelled, the one of the current console.                               *)
(*                                                                         *)
(* TTY never answers a read at once: it tells FS to suspend the process    *)
(* and sends a RESUME_PROC when the input is complete.  So TTY sends to FS *)
(* at times of its own, while FS sends to TTY for another process: each    *)
(* direction is a blocking SEND, and the kernel panics when they meet.     *)
(***************************************************************************)
EXTENDS Naturals, Sequences

CONSTANTS Users,      \* the processes
          Counts,     \* how many characters a read asks for
          Pressed,    \* the codes that the keyboard sends
          KbBytes,    \* KB_IN_BYTES
          TtyBytes,   \* TTY_IN_BYTES
          NO_TASK, TASK_TTY

\* What a code of the keyboard does to a line.  "other" stands for the codes
\* that put no key into the buffer of the terminal, breaks above all.
Codes == {"char", "newline", "backspace", "other"}

ASSUME TtyAssumption ==
  /\ {NO_TASK, TASK_TTY} \intersect Users = {}
  /\ Pressed \subseteq Codes
  /\ Counts \subseteq Nat /\ KbBytes \in Nat \ {0} /\ TtyBytes \in Nat \ {0}

VARIABLES kb_in,        \* the keyboard buffer, oldest code first
          key_pressed,  \* set by keyboard_handler, reset by TTY
          has_int_msg,  \* the interrupt inform_int keeps for TTY
          tty_pc, tty,  \* task TTY: where it is, and its TTY structure
          ibuf,         \* the keys in the TTY structure, oldest first
          fs_pc, fs,    \* task FS: where it is, and the request it serves
          q_sending,    \* who is blocked in a SEND to FS
          request,      \* the call each process waits for
          panicked      \* deadlock() found a cycle

ttyvars == <<kb_in, key_pressed, has_int_msg, tty_pc, tty, ibuf, fs_pc, fs, q_sending,
             request, panicked>>
keys == <<kb_in, key_pressed, ibuf>>

NoRequest  == [type |-> "none", cnt |-> 0]
Requests   == [type : {"READ"}, cnt : Counts] \union [type : {"WRITE", "DISK"}, cnt : {0}]
NoReader   == [procnr |-> NO_TASK, left |-> 0, trans |-> 0]
NoMessage  == [src |-> NO_TASK, type |-> "none", cnt |-> 0]

Init ==
  /\ kb_in = <<>> /\ key_pressed = FALSE /\ has_int_msg = FALSE
  /\ tty_pc = "read" /\ tty = NoReader /\ ibuf = <<>>
  /\ fs_pc = "take" /\ fs = NoMessage
  /\ q_sending = <<>>
  /\ request = [u \in Users |-> NoRequest]
  /\ panicked = FALSE

-----------------------------------------------------------------------------
\* The hardware.

\* A code that finds the buffer full is dropped.
Buffered(code) == IF Len(kb_in) < KbBytes THEN Append(kb_in, code) ELSE kb_in

\* keyboard_handler
KeyboardInterrupt(code) ==
  /\ ~panicked
  /\ kb_in' = Buffered(code)
  /\ key_pressed' = TRUE
  /\ UNCHANGED <<has_int_msg, tty_pc, tty, ibuf, fs_pc, fs, q_sending, request, panicked>>

\* clock_handler: inform_int(TASK_TTY) when a key was pressed.
ClockInterrupt ==
  /\ ~panicked /\ key_pressed
  /\ IF tty_pc = "blocked"
     THEN tty_pc' = "hard_int" /\ has_int_msg' = FALSE
     ELSE has_int_msg' = TRUE /\ UNCHANGED tty_pc
  /\ UNCHANGED <<keys, tty, fs_pc, fs, q_sending, request, panicked>>

\* A process calls read() or write() on the terminal, or FS for a file.
Call(u, r) ==
  /\ ~panicked /\ request[u] = NoRequest
  /\ request' = [request EXCEPT ![u] = r]
  /\ q_sending' = Append(q_sending, u)
  /\ UNCHANGED <<keys, has_int_msg, tty_pc, tty, fs_pc, fs, panicked>>

-----------------------------------------------------------------------------
TtyAt(pc) == tty_pc = pc /\ ~panicked
FsAt(pc)  == fs_pc = pc /\ ~panicked

\* Mutant: a backspace does not give the place back.
ErasedMut == [tty EXCEPT !.trans = @ - 1]

Erased == [tty EXCEPT !.trans = @ - 1, !.left = @ + 1]

\* tty_dev_write: the structure after one key, with a reader or without.
Typed(code) ==
  CASE code = "char" /\ tty.left > 0 -> [tty EXCEPT !.trans = @ + 1, !.left = @ - 1]
    [] code = "backspace" /\ tty.left > 0 /\ tty.trans > 0 -> Erased
    [] OTHER -> tty
\* The read is complete.
Completes(code) == tty.left > 0 /\ (code = "newline" \/ Typed(code).left = 0)

\* keyboard_read and put_key: a round takes a code, and its key, if it has one
\* and there is room.
Put(code) == IF code # "other" /\ Len(ibuf) < TtyBytes THEN Append(ibuf, code) ELSE ibuf

ReadKey ==
  /\ TtyAt("read") /\ kb_in # <<>>
  /\ kb_in' = Tail(kb_in)
  /\ ibuf' = Put(Head(kb_in))
  /\ UNCHANGED <<key_pressed, has_int_msg, tty_pc, tty, fs_pc, fs, q_sending, request, panicked>>

\* Its loop ends when no code is left, however many came in the meantime.
ReadEnds ==
  /\ TtyAt("read") /\ kb_in = <<>>
  /\ tty_pc' = "write"
  /\ UNCHANGED <<keys, has_int_msg, tty, fs_pc, fs, q_sending, request, panicked>>

\* A round of tty_dev_write: the oldest key, for the reader if there is one.
WriteKey ==
  /\ TtyAt("write") /\ ibuf # <<>>
  /\ ibuf' = Tail(ibuf)
  /\ tty' = Typed(Head(ibuf))
  /\ tty_pc' = IF Completes(Head(ibuf)) THEN "resume" ELSE "write"
  /\ UNCHANGED <<kb_in, key_pressed, has_int_msg, fs_pc, fs, q_sending, request, panicked>>

\* Its loop ends, and that of task_tty with it, when no key is left.
WriteEnds ==
  /\ TtyAt("write") /\ ibuf = <<>>
  /\ tty_pc' = "receive"
  /\ UNCHANGED <<keys, has_int_msg, tty, fs_pc, fs, q_sending, request, panicked>>

\* SEND of RESUME_PROC: deadlock() finds FS sending to TTY, or TTY queues.
Resume ==
  /\ TtyAt("resume")
  /\ IF fs_pc = "sending"
     THEN panicked' = TRUE /\ UNCHANGED <<tty_pc, q_sending>>
     ELSE /\ tty_pc' = "resuming"
          /\ q_sending' = Append(q_sending, TASK_TTY)
          /\ UNCHANGED panicked
  /\ UNCHANGED <<keys, has_int_msg, tty, fs_pc, fs, request>>

\* RECEIVE from ANY: an interrupt first, then FS if it sends.
Receive ==
  /\ TtyAt("receive")
  /\ \/ has_int_msg /\ has_int_msg' = FALSE /\ tty_pc' = "hard_int" /\ UNCHANGED fs_pc
     \/ /\ ~has_int_msg /\ fs_pc = "sending"
        /\ tty_pc' = "request" /\ fs_pc' = "await"
        /\ UNCHANGED has_int_msg
     \/ /\ ~has_int_msg /\ fs_pc # "sending"
        /\ tty_pc' = "blocked"
        /\ UNCHANGED <<has_int_msg, fs_pc>>
  /\ UNCHANGED <<keys, tty, fs, q_sending, request, panicked>>

\* Mutant: TTY receives again before it has looked at the keyboard.
HardIntMut ==
  /\ TtyAt("hard_int")
  /\ key_pressed' = FALSE
  /\ tty_pc' = "receive"
  /\ UNCHANGED <<kb_in, ibuf, has_int_msg, tty, fs_pc, fs, q_sending, request, panicked>>

\* HARD_INT: key_pressed is reset, then the keyboard is read.
HardInt ==
  /\ TtyAt("hard_int")
  /\ key_pressed' = FALSE
  /\ tty_pc' = "read"
  /\ UNCHANGED <<kb_in, ibuf, has_int_msg, tty, fs_pc, fs, q_sending, request, panicked>>

\* tty_do_read and tty_do_write, up to the SEND of their answer.
Handle ==
  /\ TtyAt("request")
  /\ tty' = IF fs.type = "READ"
            THEN [procnr |-> fs.src, left |-> fs.cnt, trans |-> 0]
            ELSE tty
  /\ tty_pc' = "reply"
  /\ UNCHANGED <<keys, has_int_msg, fs_pc, fs, q_sending, request, panicked>>

\* Mutant: every answer of TTY is SUSPEND_PROC.
SuspendedMut(type) == "take"

\* The answer is SUSPEND_PROC for a read: FS does not answer the process yet.
Answered(type) == IF type = "READ" THEN "take" ELSE "answer"

ReplyToFs ==
  /\ TtyAt("reply") /\ fs_pc = "await"
  /\ fs_pc' = Answered(fs.type)
  /\ fs' = IF fs_pc' = "take" THEN NoMessage ELSE fs
  /\ tty_pc' = "read"
  /\ UNCHANGED <<keys, has_int_msg, tty, q_sending, request, panicked>>

-----------------------------------------------------------------------------
\* Mutant: tty_left_cnt is not reset after RESUME_PROC.
ResumedMut == tty

Resumed == [tty EXCEPT !.left = 0]

\* FS receives from ANY: a call of a process, or RESUME_PROC of TTY, whose
\* SEND ends then: it goes on with the next key, for which there is no reader.
Take ==
  LET s == Head(q_sending)
  IN  /\ FsAt("take") /\ q_sending # <<>>
      /\ q_sending' = Tail(q_sending)
      /\ IF s = TASK_TTY
         THEN /\ fs' = [src |-> tty.procnr, type |-> "RESUME", cnt |-> tty.trans]
              /\ fs_pc' = "answer"
              /\ tty' = Resumed
              /\ tty_pc' = "write"
         ELSE /\ fs' = [src |-> s, type |-> request[s].type, cnt |-> request[s].cnt]
              /\ fs_pc' = IF request[s].type = "DISK" THEN "answer" ELSE "send"
              /\ UNCHANGED <<tty, tty_pc>>
      /\ UNCHANGED <<keys, has_int_msg, request, panicked>>

\* do_rdwt: SEND of DEV_READ or DEV_WRITE to TTY.
SendToTty ==
  /\ FsAt("send")
  /\ \/ /\ tty_pc = "resuming"
        /\ panicked' = TRUE
        /\ UNCHANGED <<fs_pc, tty_pc>>
     \/ /\ tty_pc = "blocked"
        /\ fs_pc' = "await" /\ tty_pc' = "request"
        /\ UNCHANGED panicked
     \/ /\ tty_pc \notin {"resuming", "blocked"}
        /\ fs_pc' = "sending"
        /\ UNCHANGED <<tty_pc, panicked>>
  /\ UNCHANGED <<keys, has_int_msg, tty, fs, q_sending, request>>

\* FS answers the process, which is in the RECEIVE of its call.
AnswerUser ==
  /\ FsAt("answer")
  /\ request[fs.src] # NoRequest
  /\ request' = [request EXCEPT ![fs.src] = NoRequest]
  /\ fs_pc' = "take" /\ fs' = NoMessage
  /\ UNCHANGED <<keys, has_int_msg, tty_pc, tty, q_sending, panicked>>

TtyStep == ReadKey \/ ReadEnds \/ WriteKey \/ WriteEnds \/ Resume \/ Receive \/ HardInt \/ Handle \/ ReplyToFs
FsStep  == Take \/ SendToTty \/ AnswerUser

Next == \/ TtyStep \/ FsStep \/ ClockInterrupt
        \/ \E code \in Pressed : KeyboardInterrupt(code)
        \/ \E u \in Users, r \in Requests : Call(u, r)

Spec == Init /\ [][Next]_ttyvars

\* The clock ticks for ever, and schedule() lets each runnable task run.
FairSpec == Spec /\ WF_ttyvars(TtyStep) /\ WF_ttyvars(FsStep) /\ WF_ttyvars(ClockInterrupt)

-----------------------------------------------------------------------------
\* FS answers only a process that waits for an answer, and of a read no more
\* characters than it asked for: no read is answered twice, neither by the
\* SUSPEND_PROC nor by a second RESUME_PROC.
AnswersExpected ==
  fs_pc = "answer" => /\ request[fs.src] # NoRequest
                      /\ fs.type = "RESUME" => /\ request[fs.src].type = "READ"
                                               /\ fs.cnt <= request[fs.src].cnt

\* What TTY still expects and has stored add up to what the reader asked for:
\* backspaces, and characters typed before the read, never move the end of
\* the line.
LineAddsUp ==
  tty.left > 0 => /\ request[tty.procnr].type = "READ"
                  /\ tty.left + tty.trans = request[tty.procnr].cnt

\* A write, or a call that does not use the terminal, is answered, unless the
\* kernel panics.  It may wait as long as keys are pressed without end: RECEIVE
\* takes the interrupt before it looks at FS.
WriteAnswered ==
  <>[](~key_pressed) =>
    \A u \in Users : request[u].type \in {"WRITE", "DISK"} ~> (request[u] = NoRequest \/ panicked)

\* No key is forgotten: while a code is in the keyboard buffer, TTY, blocked or
\* busy, comes back to its reading loop, unless the kernel panics.  The handler
\* sets key_pressed for a code, TTY resets it and then reads, and a code may
\* come at any place of that.
KeysFetched == kb_in # <<>> ~> (tty_pc = "read" \/ panicked)
=============================================================================
