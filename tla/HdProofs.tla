------------------------------ MODULE HdProofs ------------------------------
(***************************************************************************)
(* Proofs about the disk driver below do_rdwt (module FsRdwt), for any     *)
(* disk with any partition tables, any file and any transfers: every       *)
(* interrupt is taken by the command that caused it, also with requests    *)
(* that are too large for a command, HD gives up only after its timeout,   *)
(* it knows the partitions of the disk, and READ and WRITE transfer their  *)
(* bytes and no others.                                                    *)
(***************************************************************************)
EXTENDS FsRdwt, SequenceTheorems, WellFoundedInduction, TLAPS

\* Every nonempty set of numbers has a least one.
LEMMA LeastNumber ==
  ASSUME NEW T \in SUBSET Nat, T # {}
  PROVE  \E n \in T : \A m \in T : n <= m
<1> DEFINE R == {ss \in Nat \X Nat : ss[1] < ss[2]}
<1>1. IsWellFoundedOn(R, Nat)
  BY NatLessThanWellFounded DEF OpToRel
<1> HIDE DEF R
<1>2. PICK n \in T : \A m \in T : ~ (<<m, n>> \in R)
  BY <1>1, WFMin
<1>3. \A m \in T : ~ (m < n)
  BY <1>2 DEF R
<1> QED BY <1>3

\* Induction up to a number: a set that holds 0, and the next of each that it
\* holds below n, holds all numbers up to n.
LEMMA UpTo ==
  ASSUME NEW S, 0 \in S, NEW n \in Nat, \A i \in Nat : i < n /\ i \in S => i + 1 \in S
  PROVE  \A i \in 0 .. n : i \in S
<1> DEFINE T == {i \in 0 .. n : i \notin S}
<1>1. SUFFICES ASSUME T # {} PROVE FALSE
  OBVIOUS
<1>2. PICK i \in T : \A j \in T : i <= j
  <2>1. T \in SUBSET Nat
    OBVIOUS
  <2> HIDE DEF T
  <2> QED BY <1>1, <2>1, LeastNumber
<1>3. i - 1 \in Nat /\ i - 1 < n /\ i - 1 \in S
  BY <1>2
<1> QED BY <1>2, <1>3

Kinds == {"DEV_OPEN", "DEV_IOCTL", "DEV_READ", "DEV_WRITE"}
Commands == {"IDENTIFY", "READ", "WRITE"}

\* The sectors a command transfers, count being what its register holds.
Length(count) == IF count = 0 THEN MaxCount ELSE count

\* l sectors to transfer for HD and d for the controller: as many, or more
\* than one command can do, or a request of none, which never ends.
Fit(l, d) == l = d \/ l > d \/ l <= 0

-----------------------------------------------------------------------------
(* Type correctness, as far as the arguments below need it.                *)

FsTypeInv ==
  /\ fs.i \in Int /\ fs.max \in Int /\ fs.chunk \in Int
  /\ fs.off \in Int /\ fs.done \in Int /\ fs.left \in Int
  /\ fs.type \in {"none", "READ", "WRITE"}
  /\ fs = [pc |-> fs.pc, type |-> fs.type, fd |-> fs.fd, i |-> fs.i, max |-> fs.max,
           chunk |-> fs.chunk, off |-> fs.off, done |-> fs.done, left |-> fs.left]
  /\ fd_pos \in [Fds -> Int]
  /\ (fs.pc \in {"fetch", "move", "written"} => fs.fd \in Fds)
  /\ i_size \in Int

HdTypeInv ==
  /\ mbox.n \in Int /\ (mbox = NoRequest \/ mbox.type \in Kinds)
  /\ msg.n \in Int /\ left \in Int
  /\ has_int_msg \in BOOLEAN
  /\ cmd.count \in 0 .. MaxCount - 1
  /\ drive.left \in Nat /\ drive.fresh \in BOOLEAN
  /\ drive = [st |-> drive.st, command |-> drive.command, lba |-> drive.lba,
              left |-> drive.left, fresh |-> drive.fresh]
  /\ walk = [ext |-> walk.ext, k |-> walk.k, s |-> walk.s, i |-> walk.i, tbl |-> walk.tbl]
  /\ clock \in [t : Ticks, now : Ticks, waited : Nat, wrapped : BOOLEAN]

\* The numbers FS counts with in do_rdwt are numbers.
LEMMA FsTypes == Init /\ [][Next]_rdwtvars => []FsTypeInv
<1> USE HdAssumption, FsRdwtAssumption
<1>1. Init => FsTypeInv
  BY DEF Init, AtRest, FsTypeInv
<1>2. FsTypeInv /\ [Next]_rdwtvars => FsTypeInv'
  <2> SUFFICES ASSUME FsTypeInv, [Next]_rdwtvars PROVE FsTypeInv'
    OBVIOUS
  <2>1. ASSUME NEW fd \in Fds, NEW type \in {"READ", "WRITE"}, NEW len \in Lengths,
               Start(fd, type, len)
        PROVE  FsTypeInv'
    <3>1. fd_pos[fd] \in Int /\ len \in Int
      BY DEF FsTypeInv
    <3>2. PosEnd(type, fd_pos[fd], len) \in Int
      BY <3>1 DEF PosEnd, Least, FsTypeInv
    <3>3. /\ StartSect + (fd_pos[fd] \div SECTOR_SIZE) \in Int
          /\ StartSect + (PosEnd(type, fd_pos[fd], len) \div SECTOR_SIZE) \in Int
          /\ fd_pos[fd] % SECTOR_SIZE \in Int
      BY <3>1, <3>2
    <3>4. CASE fd \in RdwrFds
      <4> DEFINE min == StartSect + (fd_pos[fd] \div SECTOR_SIZE)
                 max == StartSect + (PosEnd(type, fd_pos[fd], len) \div SECTOR_SIZE)
                 off == fd_pos[fd] % SECTOR_SIZE
      <4>1. Least(max - min + 1, FsBufSects) \in Int
        BY <3>3 DEF Least
      <4>2. /\ fs' = [pc |-> "fetch", type |-> type, fd |-> fd, i |-> min, max |-> max,
                      chunk |-> Least(max - min + 1, FsBufSects),
                      off |-> off, done |-> 0, left |-> len]
            /\ fd_pos' = fd_pos /\ i_size' = i_size
        BY <2>1, <3>4 DEF Start
      <4>3. min \in Int /\ max \in Int /\ off \in Int
        BY <3>3
      <4> HIDE DEF min, max, off
      <4> QED BY <3>1, <4>1, <4>2, <4>3 DEF FsTypeInv
    <3>5. CASE fd \notin RdwrFds
      BY <2>1, <3>5 DEF Start, FsTypeInv
    <3> QED BY <3>4, <3>5
  <2>2. ASSUME FsInit PROVE FsTypeInv'
    BY <2>2 DEF FsInit, FsTypeInv, AtRest
  <2>3. ASSUME Fetch PROVE FsTypeInv'
    BY <2>3 DEF Fetch, FsTypeInv
  <2>4. Bytes \in Int /\ fs.chunk * SECTOR_SIZE \in Int
    BY DEF Bytes, Least, FsTypeInv
  <2>5. ASSUME Advance, i_size' = i_size, fs.pc \in {"move", "written"} PROVE FsTypeInv'
    <3>1. fs' = NextRound /\ fd_pos' = [fd_pos EXCEPT ![fs.fd] = @ + Bytes]
      BY <2>5 DEF Advance
    <3>2. fs.fd \in Fds /\ fd_pos[fs.fd] + Bytes \in Int
      BY <2>4, <2>5 DEF FsTypeInv
    <3>3. /\ fs.i + fs.chunk \in Int /\ fs.done + Bytes \in Int /\ fs.left - Bytes \in Int
      BY <2>4 DEF FsTypeInv
    <3>4. fs' = [pc |-> "fetch", type |-> fs.type, fd |-> fs.fd, i |-> fs.i + fs.chunk,
                 max |-> fs.max, chunk |-> fs.chunk, off |-> 0,
                 done |-> fs.done + Bytes, left |-> fs.left - Bytes]
      BY <3>1 DEF NextRound, FsTypeInv
    <3>5. fd_pos' \in [Fds -> Int]
      BY <3>1, <3>2 DEF FsTypeInv
    <3> QED BY <3>2, <3>3, <3>4, <3>5, <2>5 DEF FsTypeInv
  <2>6. ASSUME MoveOut \/ Written PROVE FsTypeInv'
    BY <2>5, <2>6 DEF MoveOut, Written
  <2>7. ASSUME MoveIn PROVE FsTypeInv'
    BY <2>7 DEF MoveIn, FsTypeInv
  <2>8. ASSUME Finish PROVE FsTypeInv'
    BY <2>8 DEF Finish, Return, AtRest, FsTypeInv
  <2>9. ASSUME Sync \/ Ready PROVE FsTypeInv'
    BY <2>9 DEF Sync, Ready, Return, AtRest, FsTypeInv
  <2>10. ASSUME UNCHANGED fsvars PROVE FsTypeInv'
    BY <2>10 DEF fsvars, FsTypeInv
  <2> QED
    BY <2>1, <2>2, <2>3, <2>6, <2>7, <2>8, <2>9, <2>10
    DEF Next, FsStep, FsCall, rdwtvars
<1> QED BY <1>1, <1>2, PTL

-----------------------------------------------------------------------------
(* Lemmas about counting.                                                  *)

\* The register fits what is to be transferred, also where the request is

\* larger than the register can say.
LEMMA BeginFits ==
  ASSUME NEW n \in Int
  PROVE  n % MaxCount \in 0 .. MaxCount - 1 /\ Fit(n, Length(n % MaxCount))
<1>1. n % MaxCount \in 0 .. MaxCount - 1
  BY HdAssumption
<1>2. n \in Nat => n % MaxCount <= n /\ (n < MaxCount => n % MaxCount = n)
  BY HdAssumption
<1> QED BY <1>1, <1>2, HdAssumption DEF Fit, Length

\* The count register of a command for one sector stands for one.
LEMMA OneSector == 1 % MaxCount \in 0 .. MaxCount - 1 /\ Length(1 % MaxCount) = 1
<1>1. MaxCount # 1 => 1 % MaxCount = 1
  BY HdAssumption
<1>2. MaxCount = 1 => 1 % MaxCount = 0
  BY HdAssumption
<1> QED BY <1>1, <1>2, HdAssumption DEF Length

\* FirstOf finds the first of a set of entries.
LEMMA FirstExists ==
  ASSUME NEW S \in SUBSET Nat, S # {}
  PROVE  FirstOf(S) \in S /\ \A n \in S : FirstOf(S) <= n
<1>1. \E n \in S : \A m \in S : n <= m
  BY LeastNumber
<1> QED BY <1>1 DEF FirstOf

-----------------------------------------------------------------------------
(* The inductive invariant: how HD, the command it put out, the interrupt  *)
(* and the controller are related at each place.                           *)

\* One sector is asked for: hd_identify() and get_part_table().
Single == cmd.command = "IDENTIFY" \/ walk.ext # 0

Fits(d) == IF Single THEN d = 1 ELSE Fit(left, d)

Quiet ==
  hd_pc \in {"receive", "reply", "bsy"} \cup Kinds => drive = Idle /\ ~has_int_msg

Walking == walk.ext # 0 => hd_pc \in {"bsy", "int", "panic"} /\ cmd.command = "READ"

Outgoing == hd_pc = "bsy" => cmd.command \in Commands /\ Fits(Length(cmd.count))

Incoming ==
  (hd_pc = "int" /\ cmd.command # "WRITE") =>
    /\ cmd.command \in Commands
    /\ \/ /\ drive.st \in {"bsy", "drq"} /\ (has_int_msg <=> drive.st = "drq")
          /\ drive.command = cmd.command /\ drive.left >= 1 /\ Fits(drive.left)
       \/ drive = Idle /\ ~has_int_msg

Requesting ==
  hd_pc = "drq" =>
    /\ cmd.command = "WRITE" /\ ~has_int_msg
    /\ \/ /\ drive.st \in {"bsy", "drq"} /\ (drive.fresh <=> drive.st = "bsy")
          /\ drive.command = "WRITE" /\ drive.left >= 1 /\ Fit(left, drive.left)
       \/ drive = Idle

Writing ==
  (hd_pc = "int" /\ cmd.command = "WRITE") =>
    \/ /\ drive.st \in {"bsy", "drq"} /\ (has_int_msg <=> drive.st = "drq")
       /\ drive.command = "WRITE" /\ ~drive.fresh /\ Fit(left, drive.left + 1)
       /\ (drive.st = "drq" => drive.left >= 1)
    \/ drive = Idle /\ has_int_msg

HInv ==
  /\ HdTypeInv /\ hd_pc # "spin"
  /\ Quiet /\ Walking /\ Outgoing /\ Incoming /\ Requesting /\ Writing

\* StartWait sets the clock to a value of its type.
LEMMA WaitStarts ==
  StartWait => clock' \in [t : Ticks, now : Ticks, waited : Nat, wrapped : BOOLEAN]
<1> HAVE StartWait
<1>1. PICK x \in Ticks : clock' = [NoClock EXCEPT !.t = x, !.now = x]
  BY DEF StartWait
<1>2. clock' = [t |-> x, now |-> x, waited |-> 0, wrapped |-> FALSE]
  BY <1>1 DEF NoClock
<1> QED BY <1>2

\* What Begin does, and that it makes the invariant true when the controller

\* is idle and walk and left fit the command.
LEMMA BeginEffect ==
  ASSUME NEW command \in Commands, NEW lba, NEW n \in Int, Begin(command, lba, n)
  PROVE  /\ hd_pc' = "bsy" /\ cmd'.command = command
         /\ cmd'.count = n % MaxCount /\ cmd'.count \in 0 .. MaxCount - 1
         /\ clock' \in [t : Ticks, now : Ticks, waited : Nat, wrapped : BOOLEAN]
  BY WaitStarts, BeginFits DEF Begin

\* HD starts a command for one sector: IDENTIFY, or the READ of a partition table.
LEMMA BeginsSingle ==
  ASSUME NEW command \in Commands, NEW lba, Begin(command, lba, 1), HInv,
         drive' = Idle, has_int_msg' = FALSE,
         UNCHANGED <<mbox, msg, left>>,
         walk' = [ext |-> walk'.ext, k |-> walk'.k, s |-> walk'.s, i |-> walk'.i,
                  tbl |-> walk'.tbl],
         command = "READ" <=> walk'.ext # 0, command # "WRITE"
  PROVE  HInv'
<1>1. /\ hd_pc' = "bsy" /\ cmd'.command = command
      /\ cmd'.count = 1 % MaxCount /\ cmd'.count \in 0 .. MaxCount - 1
      /\ clock' \in [t : Ticks, now : Ticks, waited : Nat, wrapped : BOOLEAN]
  BY BeginEffect
<1>2. HdTypeInv'
  BY <1>1 DEF HInv, HdTypeInv, Idle
<1>3. Outgoing' /\ Walking'
  BY <1>1, OneSector DEF Outgoing, Walking, Fits, Single, Length, Commands
<1>4. Quiet' /\ Incoming' /\ Requesting' /\ Writing' /\ hd_pc' # "spin"
  BY <1>1 DEF Quiet, Incoming, Requesting, Writing
<1> QED BY <1>2, <1>3, <1>4 DEF HInv

\* HD has ended a request: nothing is left over.
LEMMA EndsQuiet ==
  ASSUME HdTypeInv', hd_pc' \in {"receive", "reply"} \cup Kinds, walk'.ext = 0,
         drive' = Idle, has_int_msg' = FALSE
  PROVE  HInv'
  BY DEF HInv, Quiet, Walking, Outgoing, Incoming, Requesting, Writing, Kinds

\* Where partition() goes on after the table of a drive or of an extended

\* partition.
LEMMA RoundEffect ==
  ASSUME NEW info, NEW tbl, NEW i, PrimaryRound(info, tbl, i)
  PROVE  \/ walk' = NoWalk /\ hd_pc' = "reply" /\ UNCHANGED <<cmd, clock>>
         \/ \E s : /\ Begin("READ", s, 1) /\ walk'.ext # 0
                   /\ walk' = [ext |-> walk'.ext, k |-> walk'.k, s |-> walk'.s,
                               i |-> walk'.i, tbl |-> walk'.tbl]
<1> DEFINE E == Extended(tbl, i)
<1>1. CASE E = {}
  BY <1>1 DEF PrimaryRound
<1>2. CASE E # {}
  <2>1. FirstOf(E) \in Nat
    <3>1. E \in SUBSET Nat
      BY HdAssumption DEF Extended, Entries
    <3> QED BY <1>2, <3>1, FirstExists
  <2> DEFINE e == FirstOf(E)
  <2>2. /\ walk' = [ext |-> e + 1, k |-> 0, s |-> tbl[e + 1].start, i |-> e + 1, tbl |-> tbl]
        /\ Begin("READ", tbl[e + 1].start, 1)
    BY <1>2 DEF PrimaryRound
  <2> HIDE DEF E, e
  <2>3. e + 1 # 0
    BY <2>1 DEF e
  <2> QED BY <2>2, <2>3
<1> QED BY <1>1, <1>2

\* Before the first request nothing is in progress.
LEMMA HInvInit == Init => HInv
<1> SUFFICES ASSUME Init PROVE HInv
  OBVIOUS
<1>1. /\ mbox = NoRequest /\ msg = NoRequest /\ left = 0 /\ has_int_msg = FALSE
      /\ drive = Idle /\ walk = NoWalk /\ clock = NoClock
      /\ cmd = [command |-> "none", lba |-> 0, count |-> 0] /\ hd_pc = "receive"
  BY DEF Init, HdInit
<1>2. NoClock \in [t : Ticks, now : Ticks, waited : Nat, wrapped : BOOLEAN]
  <2>1. 0 \in Ticks
    BY HdAssumption DEF Ticks
  <2> QED BY <2>1 DEF NoClock
<1>3. HdTypeInv
  <2>1. 0 \in 0 .. MaxCount - 1
    BY HdAssumption
  <2>2. Idle = [st |-> Idle.st, command |-> Idle.command, lba |-> Idle.lba,
                left |-> Idle.left, fresh |-> Idle.fresh]
        /\ Idle.left \in Nat /\ Idle.fresh \in BOOLEAN
    BY DEF Idle
  <2>3. NoWalk = [ext |-> NoWalk.ext, k |-> NoWalk.k, s |-> NoWalk.s, i |-> NoWalk.i,
                  tbl |-> NoWalk.tbl]
    BY DEF NoWalk
  <2>4. /\ mbox.n \in Int /\ msg.n \in Int /\ left \in Int
        /\ cmd.count \in 0 .. MaxCount - 1
    BY <1>1, <2>1 DEF NoRequest
  <2>5. has_int_msg \in BOOLEAN
    BY <1>1, Zenon
  <2> QED BY <1>1, <1>2, <2>2, <2>3, <2>4, <2>5 DEF HdTypeInv
<1> QED
  BY <1>1, <1>3
  DEF HInv, Quiet, Walking, Outgoing, Incoming, Requesting, Writing, Kinds, NoWalk

\* FS puts a request of a known kind into the mailbox, and HD sees nothing

\* else of it.
LEMMA FsStepKeeps ==
  ASSUME HInv, FsTypeInv, FsStep
  PROVE  HInv'
<1>1. UNCHANGED <<hd_pc, msg, left, cmd, walk, hd_info, has_int_msg, drive, disk, geo, clock>>
  BY DEF FsStep
<1> DEFINE Known == mbox'.n \in Int /\ (mbox' = NoRequest \/ mbox'.type \in Kinds)
<1>2. Known
  <2>1. ASSUME NEW r, Send(r), r.n \in Int, r.type \in Kinds PROVE Known
    BY <2>1 DEF Send
  <2>2. ASSUME UNCHANGED mbox PROVE Known
    BY <2>2 DEF HInv, HdTypeInv
  <2>3. fs.chunk \in Int
    BY DEF FsTypeInv
  <2>4. ASSUME FsCall \/ MoveOut \/ Written \/ Ready PROVE Known
    BY <2>2, <2>4 DEF FsCall, Start, MoveOut, Written, Ready
  <2>5. ASSUME FsInit PROVE Known
    BY <2>1, <2>5 DEF FsInit, Request, Kinds
  <2>6. ASSUME Fetch \/ MoveIn PROVE Known
    BY <2>1, <2>3, <2>6 DEF Fetch, MoveIn, Request, Kinds
  <2>7. ASSUME Finish \/ Sync PROVE Known
    BY <2>1, <2>2, <2>7 DEF Finish, Sync, Request, Kinds
  <2> QED BY <2>4, <2>5, <2>6, <2>7 DEF FsStep
<1> QED
  BY <1>1, <1>2
  DEF HInv, HdTypeInv, Quiet, Walking, Outgoing, Incoming, Requesting, Writing, Fits, Single

\* The clock only counts.
LEMMA TickKeeps ==
  ASSUME HInv, Tick
  PROVE  HInv'
<1>1. clock' \in [t : Ticks, now : Ticks, waited : Nat, wrapped : BOOLEAN]
  <2>1. clock \in [t : Ticks, now : Ticks, waited : Nat, wrapped : BOOLEAN]
    BY DEF HInv, HdTypeInv
  <2>2. (clock.now + 1) % MAX_TICKS \in Ticks /\ clock.waited + 1 \in Nat
    BY <2>1, HdAssumption DEF Ticks
  <2>3. (clock.wrapped \/ clock.now + 1 = MAX_TICKS) \in BOOLEAN
    OBVIOUS
  <2> QED BY <2>1, <2>2, <2>3 DEF Tick
<1>2. UNCHANGED <<mbox, hd_pc, msg, left, cmd, walk, has_int_msg, drive>>
  BY DEF Tick
<1> QED
  BY <1>1, <1>2
  DEF HInv, HdTypeInv, Quiet, Walking, Outgoing, Incoming, Requesting, Writing, Fits, Single

\* The controller: it is busy only while HD waits.
LEMMA DriveKeeps ==
  ASSUME HInv, DriveReady
  PROVE  HInv'
<1>1. /\ drive.st = "bsy"
      /\ drive' = IF drive.left = 0 THEN Idle ELSE [drive EXCEPT !.st = "drq", !.fresh = FALSE]
      /\ has_int_msg' = (has_int_msg \/ drive.command # "WRITE" \/ ~drive.fresh)
      /\ UNCHANGED <<mbox, hd_pc, msg, left, cmd, walk, clock>>
  BY DEF DriveReady
<1>2. hd_pc \notin {"receive", "reply", "bsy"} \cup Kinds
  BY <1>1 DEF HInv, Quiet, Idle
<1>3. \/ drive' = Idle /\ drive.left = 0
      \/ /\ drive' = [st |-> "drq", command |-> drive.command, lba |-> drive.lba,
                      left |-> drive.left, fresh |-> FALSE]
         /\ drive.left >= 1
  <2>1. drive.left \in Nat
    BY DEF HInv, HdTypeInv
  <2>2. CASE drive.left = 0
    BY <1>1, <2>2
  <2>3. CASE drive.left # 0
    <3>1. drive' = [drive EXCEPT !.st = "drq", !.fresh = FALSE]
      BY <1>1, <2>3
    <3>2. drive = [st |-> drive.st, command |-> drive.command, lba |-> drive.lba,
                   left |-> drive.left, fresh |-> drive.fresh]
      BY DEF HInv, HdTypeInv
    <3>3. drive' = [st |-> "drq", command |-> drive.command, lba |-> drive.lba,
                    left |-> drive.left, fresh |-> FALSE]
      BY <3>1, <3>2
    <3> QED BY <2>1, <2>3, <3>3
  <2> QED BY <2>2, <2>3
<1>0. /\ has_int_msg' \in BOOLEAN
      /\ has_int_msg' <=> (has_int_msg \/ drive.command # "WRITE" \/ ~drive.fresh)
  <2>1. has_int_msg \in BOOLEAN /\ drive.fresh \in BOOLEAN
    BY DEF HInv, HdTypeInv
  <2> DEFINE w == drive.command # "WRITE"
  <2>2. has_int_msg' = (has_int_msg \/ w \/ ~drive.fresh) /\ w \in BOOLEAN
    BY <1>1
  <2> HIDE DEF w
  <2>3. has_int_msg' \in BOOLEAN /\ (has_int_msg' <=> (has_int_msg \/ w \/ ~drive.fresh))
    BY <2>1, <2>2, Zenon
  <2> QED BY <2>3, Zenon DEF w
<1>4. HdTypeInv'
  BY <1>0, <1>1, <1>3 DEF HInv, HdTypeInv, Idle
<1>5. Incoming'
  BY <1>0, <1>1, <1>3 DEF HInv, HdTypeInv, Incoming, Idle, Fits, Single
<1>6. Requesting'
  BY <1>0, <1>1, <1>3 DEF HInv, HdTypeInv, Requesting, Idle
<1>7. Writing'
  BY <1>0, <1>1, <1>3 DEF HInv, HdTypeInv, Writing, Idle
<1>8. Quiet' /\ Walking' /\ Outgoing' /\ hd_pc' # "spin"
  BY <1>1, <1>2 DEF HInv, Quiet, Walking, Outgoing
<1> QED BY <1>4, <1>5, <1>6, <1>7, <1>8 DEF HInv

\* The requests up to the command.
LEMMA RequestKeeps ==
  ASSUME HInv, Receive \/ HdOpen \/ HdIoctl \/ HdRdwt \/ HdReply
  PROVE  HInv'
<1>1. CASE Receive
  <2>1. drive = Idle /\ ~has_int_msg /\ walk.ext = 0
    BY <1>1 DEF Receive, HInv, Quiet, Walking
  <2>2. hd_pc' \in Kinds /\ msg' = mbox
    BY <1>1, <2>1 DEF Receive, HInv, HdTypeInv, NoRequest
  <2>3. HdTypeInv'
    BY <1>1, <2>2 DEF Receive, HInv, HdTypeInv
  <2> QED BY <1>1, <2>1, <2>2, <2>3, EndsQuiet DEF Receive
<1>2. CASE HdOpen
  <2>1. drive = Idle /\ ~has_int_msg /\ walk.ext = 0
    BY <1>2 DEF HdOpen, HInv, Quiet, Walking, Kinds
  <2>2. Begin("IDENTIFY", 0, 1) /\ UNCHANGED <<mbox, msg, left, walk, has_int_msg, drive>>
    BY <1>2 DEF HdOpen
  <2>3. walk = [ext |-> walk.ext, k |-> walk.k, s |-> walk.s, i |-> walk.i, tbl |-> walk.tbl]
        /\ has_int_msg \in BOOLEAN
    BY DEF HInv, HdTypeInv
  <2> QED BY <2>1, <2>2, <2>3, BeginsSingle DEF Commands
<1>3. CASE HdIoctl
  <2>1. drive = Idle /\ ~has_int_msg /\ walk.ext = 0
    BY <1>3 DEF HdIoctl, HInv, Quiet, Walking, Kinds
  <2>2. HdTypeInv' /\ has_int_msg' = FALSE
    BY <1>3, <2>1 DEF HdIoctl, HInv, HdTypeInv
  <2> QED BY <1>3, <2>1, <2>2, EndsQuiet DEF HdIoctl
<1>4. CASE HdRdwt
  <2>1. drive = Idle /\ ~has_int_msg /\ walk.ext = 0 /\ msg.n \in Int
    BY <1>4 DEF HdRdwt, HInv, HdTypeInv, Quiet, Walking, Kinds
  <2>2. PICK command \in {"READ", "WRITE"} : Begin(command, Sector, msg.n)
    BY <1>4 DEF HdRdwt
  <2>3. /\ hd_pc' = "bsy" /\ cmd'.command = command
        /\ cmd'.count = msg.n % MaxCount /\ cmd'.count \in 0 .. MaxCount - 1
        /\ clock' \in [t : Ticks, now : Ticks, waited : Nat, wrapped : BOOLEAN]
    BY <2>1, <2>2, BeginEffect DEF Commands
  <2>4. left' = msg.n /\ UNCHANGED <<mbox, msg, walk, has_int_msg, drive>>
    BY <1>4 DEF HdRdwt
  <2>5. HdTypeInv'
    BY <2>1, <2>3, <2>4 DEF HInv, HdTypeInv
  <2>6. Outgoing'
    BY <2>1, <2>2, <2>3, <2>4, BeginFits DEF Outgoing, Commands, Fits, Single, Length
  <2>7. Quiet' /\ Walking' /\ Incoming' /\ Requesting' /\ Writing' /\ hd_pc' # "spin"
    BY <2>1, <2>3, <2>4 DEF Quiet, Walking, Incoming, Requesting, Writing
  <2> QED BY <2>5, <2>6, <2>7 DEF HInv
<1>5. CASE HdReply
  <2>1. drive = Idle /\ ~has_int_msg /\ walk.ext = 0
    BY <1>5 DEF HdReply, HInv, Quiet, Walking, Kinds
  <2>2. HdTypeInv' /\ has_int_msg' = FALSE
    BY <1>5, <2>1 DEF HdReply, HInv, HdTypeInv, NoRequest
  <2> QED BY <1>5, <2>1, <2>2, EndsQuiet DEF HdReply
<1> QED BY <1>1, <1>2, <1>3, <1>4, <1>5

\* hd_cmd_out gives the controller as many sectors to transfer as the command names.
LEMMA CommandKeeps ==
  ASSUME HInv, CommandOut \/ WaitFails
  PROVE  HInv'
<1>1. CASE CommandOut
  <2>1. /\ hd_pc = "bsy" /\ UNCHANGED <<mbox, msg, left, cmd, walk, has_int_msg>>
        /\ drive' = [st |-> "bsy", command |-> cmd.command, lba |-> cmd.lba, fresh |-> TRUE,
                     left |-> Length(cmd.count)]
    BY <1>1 DEF CommandOut, Length
  <2>2. /\ ~has_int_msg /\ cmd.command \in Commands /\ Fits(Length(cmd.count))
        /\ cmd.count \in 0 .. MaxCount - 1
    BY <2>1 DEF HInv, Quiet, Outgoing, HdTypeInv
  <2>3. Length(cmd.count) \in Nat /\ Length(cmd.count) >= 1
    BY <2>2, HdAssumption DEF Length
  <2>4. clock' \in [t : Ticks, now : Ticks, waited : Nat, wrapped : BOOLEAN]
    <3>1. NoClock \in [t : Ticks, now : Ticks, waited : Nat, wrapped : BOOLEAN]
      BY HdAssumption DEF NoClock, Ticks
    <3> QED BY <1>1, <3>1, WaitStarts DEF CommandOut
  <2>5. HdTypeInv'
    BY <2>1, <2>3, <2>4 DEF HInv, HdTypeInv
  <2>6. hd_pc' = IF cmd.command = "WRITE" THEN "drq" ELSE "int"
    BY <1>1 DEF CommandOut
  <2>7. cmd.command = "WRITE" => walk.ext = 0
    BY DEF HInv, Walking
  <2>8. Incoming' /\ Requesting' /\ Writing'
    BY <2>1, <2>2, <2>3, <2>6, <2>7
    DEF Incoming, Requesting, Writing, Fits, Single
  <2>9. Quiet' /\ Walking' /\ Outgoing' /\ hd_pc' # "spin"
    BY <2>1, <2>6 DEF Quiet, Walking, Outgoing, Kinds, HInv
  <2> QED BY <2>5, <2>8, <2>9 DEF HInv
<1>2. CASE WaitFails
  <2>1. hd_pc' = "panic" /\ UNCHANGED <<mbox, msg, left, cmd, walk, has_int_msg, drive, clock>>
    BY <1>2 DEF WaitFails
  <2> QED
    BY <2>1
    DEF HInv, HdTypeInv, Quiet, Walking, Outgoing, Incoming, Requesting, Writing, Kinds
<1> QED BY <1>1, <1>2

\* HD takes the interrupt of a sector of IDENTIFY or READ: the controller has

\* the sector ready, and it is its last one if it is the last for HD.
LEMMA AnswerEffect ==
  ASSUME HInv, NEW c \in {"IDENTIFY", "READ"}, Answers(c), DataRead
  PROVE  /\ hd_pc = "int" /\ cmd.command = c /\ has_int_msg' = FALSE
         /\ drive.st = "drq" /\ drive.left >= 1 /\ drive.command = c /\ Fits(drive.left)
         /\ \/ drive.left = 1 /\ drive' = Idle
            \/ /\ drive.left > 1
               /\ drive' = [st |-> "bsy", command |-> c, lba |-> drive.lba + 1,
                            left |-> drive.left - 1, fresh |-> drive.fresh]
<1>1. hd_pc = "int" /\ cmd.command = c /\ has_int_msg' = FALSE /\ has_int_msg
  BY DEF Answers, Interrupted
<1>2. drive.st = "drq" /\ drive.left >= 1 /\ drive.command = c /\ Fits(drive.left)
  BY <1>1 DEF HInv, Incoming
<1>3. /\ drive.left \in Nat
      /\ drive = [st |-> drive.st, command |-> drive.command, lba |-> drive.lba,
                  left |-> drive.left, fresh |-> drive.fresh]
  BY DEF HInv, HdTypeInv
<1>4. CASE drive.left = 1
  BY <1>1, <1>2, <1>4 DEF DataRead
<1>5. CASE drive.left # 1
  <2>1. drive' = [drive EXCEPT !.st = "bsy", !.left = @ - 1, !.lba = @ + 1]
    BY <1>5 DEF DataRead
  <2>2. drive' = [st |-> "bsy", command |-> c, lba |-> drive.lba + 1,
                  left |-> drive.left - 1, fresh |-> drive.fresh]
    BY <2>1, <1>2, <1>3
  <2>3. drive.left > 1
    BY <1>2, <1>3, <1>5
  <2> QED BY <1>1, <1>2, <2>2, <2>3
<1> QED BY <1>4, <1>5

\* hd_identify takes the one sector of its command, and begins with the tables.
LEMMA IdentifiedKeeps ==
  ASSUME HInv, Identified
  PROVE  HInv'
<1>1. Answers("IDENTIFY") /\ DataRead /\ UNCHANGED <<mbox, msg, left>>
  BY DEF Identified
<1>2. cmd.command = "IDENTIFY" /\ hd_pc = "int" /\ has_int_msg' = FALSE /\ drive' = Idle
  BY <1>1, AnswerEffect DEF Fits, Single
<1>3. walk.ext = 0
  BY <1>2 DEF HInv, Walking
<1>4. CASE hd_info.open_cnt = 0
  <2>1. walk' = [NoWalk EXCEPT !.ext = -1] /\ Begin("READ", 0, 1)
    BY <1>4 DEF Identified
  <2>2. walk'.ext # 0
        /\ walk' = [ext |-> walk'.ext, k |-> walk'.k, s |-> walk'.s, i |-> walk'.i,
                    tbl |-> walk'.tbl]
    BY <2>1 DEF NoWalk
  <2> QED BY <1>1, <1>2, <2>1, <2>2, BeginsSingle DEF Commands
<1>5. CASE hd_info.open_cnt # 0
  <2>1. hd_pc' = "reply" /\ UNCHANGED <<walk, cmd, clock>>
    BY <1>5 DEF Identified
  <2>2. HdTypeInv'
    BY <1>1, <1>2, <2>1 DEF HInv, HdTypeInv, Idle
  <2> QED BY <1>2, <1>3, <2>1, <2>2, EndsQuiet
<1> QED BY <1>4, <1>5

\* partition(): a table was read, which is a sector.
LEMMA TableKeeps ==
  ASSUME HInv, PrimaryTable \/ ExtendedTable
  PROVE  HInv'
<1>1. Answers("READ") /\ DataRead /\ walk.ext # 0 /\ UNCHANGED <<mbox, msg, left>>
  BY DEF PrimaryTable, ExtendedTable
<1>2. cmd.command = "READ" /\ hd_pc = "int" /\ has_int_msg' = FALSE /\ drive' = Idle
  BY <1>1, AnswerEffect DEF Fits, Single
<1>3. ASSUME NEW info, NEW tbl, NEW i, PrimaryRound(info, tbl, i) PROVE HInv'
  <2>1. CASE walk' = NoWalk /\ hd_pc' = "reply" /\ UNCHANGED <<cmd, clock>>
    <3>1. HdTypeInv'
      BY <1>1, <1>2, <2>1 DEF HInv, HdTypeInv, Idle, NoWalk
    <3>2. walk'.ext = 0
      BY <2>1 DEF NoWalk
    <3> QED BY <1>2, <2>1, <3>1, <3>2, EndsQuiet
  <2>2. CASE \E s : /\ Begin("READ", s, 1) /\ walk'.ext # 0
                    /\ walk' = [ext |-> walk'.ext, k |-> walk'.k, s |-> walk'.s,
                                i |-> walk'.i, tbl |-> walk'.tbl]
    BY <1>1, <1>2, <2>2, BeginsSingle DEF Commands
  <2> QED BY <1>3, <2>1, <2>2, RoundEffect
<1>4. CASE PrimaryTable
  BY <1>3, <1>4 DEF PrimaryTable
<1>5. CASE ExtendedTable
  <2> DEFINE t == disk[drive.lba + 1]
             s == NextTable(t)
  <2>1. CASE \E info : PrimaryRound(info, walk.tbl, walk.i)
    BY <1>3, <2>1
  <2>2. CASE walk' = [walk EXCEPT !.k = @ + 1, !.s = s] /\ Begin("READ", s, 1)
    <3> HIDE DEF s
    <3>1. walk = [ext |-> walk.ext, k |-> walk.k, s |-> walk.s, i |-> walk.i, tbl |-> walk.tbl]
      BY DEF HInv, HdTypeInv
    <3>2. walk'.ext # 0
          /\ walk' = [ext |-> walk'.ext, k |-> walk'.k, s |-> walk'.s, i |-> walk'.i,
                      tbl |-> walk'.tbl]
      BY <1>1, <2>2, <3>1
    <3> QED BY <1>1, <1>2, <2>2, <3>2, BeginsSingle DEF Commands
  <2> QED BY <1>5, <2>1, <2>2 DEF ExtendedTable
<1> QED BY <1>4, <1>5

\* The loop of hd_rdwt takes a sector, the last one or one of several.
LEMMA SectorReadKeeps ==
  ASSUME HInv, SectorRead
  PROVE  HInv'
<1>1. /\ walk.ext = 0 /\ Answers("READ") /\ DataRead /\ left' = left - 1 /\ hd_pc' = NextPc
      /\ UNCHANGED <<mbox, msg, cmd, walk, clock>>
  BY DEF SectorRead
<1>2. /\ hd_pc = "int" /\ cmd.command = "READ" /\ has_int_msg' = FALSE
      /\ drive.left >= 1 /\ Fits(drive.left)
      /\ \/ drive.left = 1 /\ drive' = Idle
         \/ /\ drive.left > 1
            /\ drive' = [st |-> "bsy", command |-> "READ", lba |-> drive.lba + 1,
                         left |-> drive.left - 1, fresh |-> drive.fresh]
  BY <1>1, AnswerEffect
<1>3. left \in Int /\ drive.left \in Nat /\ Fit(left, drive.left)
  BY <1>1, <1>2 DEF HInv, HdTypeInv, Fits, Single
<1>4. HdTypeInv'
  <2>0. left' \in Int /\ UNCHANGED <<mbox, msg, cmd, walk, clock>> /\ has_int_msg' = FALSE
    BY <1>1, <1>2, <1>3
  <2>1. CASE drive' = Idle
    BY <2>0, <2>1 DEF HInv, HdTypeInv, Idle
  <2>2. CASE drive' = [st |-> "bsy", command |-> "READ", lba |-> drive.lba + 1,
                       left |-> drive.left - 1, fresh |-> drive.fresh]
    <3>1. drive.left - 1 \in Nat /\ drive.fresh \in BOOLEAN
      BY <1>2, <1>3 DEF HInv, HdTypeInv
    <3> QED BY <2>0, <2>2, <3>1 DEF HInv, HdTypeInv
  <2> QED BY <1>2, <2>1, <2>2
<1>5. CASE left = 1
  <2>1. drive' = Idle
    BY <1>2, <1>3, <1>5 DEF Fit
  <2> QED BY <1>1, <1>2, <1>4, <1>5, <2>1, EndsQuiet DEF NextPc
<1>6. CASE left # 1
  <2>1. hd_pc' = "int"
    BY <1>1, <1>6 DEF NextPc
  <2>2. drive' = Idle \/ Fit(left', drive'.left)
    BY <1>1, <1>2, <1>3, <1>6 DEF Fit
  <2>3. Incoming'
    BY <1>1, <1>2, <1>3, <2>1, <2>2 DEF Incoming, Fits, Single, Commands
  <2> QED
    BY <1>1, <1>2, <1>4, <2>1, <2>3
    DEF HInv, Quiet, Walking, Outgoing, Requesting, Writing, Kinds
<1> QED BY <1>5, <1>6

\* The data of a sector goes out, and its interrupt comes.
LEMMA SectorWriteKeeps ==
  ASSUME HInv, PortWrite \/ SectorWritten
  PROVE  HInv'
<1>0. walk.ext = 0 \/ cmd.command # "WRITE"
  BY DEF HInv, Walking
<1>1. CASE PortWrite
  <2>1. /\ hd_pc = "drq" /\ drive.st = "drq" /\ hd_pc' = "int" /\ clock' = NoClock
        /\ drive' = [drive EXCEPT !.st = "bsy", !.left = @ - 1, !.lba = @ + 1]
        /\ UNCHANGED <<mbox, msg, left, cmd, walk, has_int_msg>>
    BY <1>1 DEF PortWrite
  <2>2. /\ cmd.command = "WRITE" /\ ~has_int_msg /\ ~drive.fresh
        /\ drive.command = "WRITE" /\ drive.left >= 1 /\ Fit(left, drive.left)
    BY <2>1 DEF HInv, Requesting, Idle
  <2>3. drive' = [st |-> "bsy", command |-> "WRITE", lba |-> drive.lba + 1,
                  left |-> drive.left - 1, fresh |-> drive.fresh]
    BY <2>1, <2>2 DEF HInv, HdTypeInv
  <2>4. NoClock \in [t : Ticks, now : Ticks, waited : Nat, wrapped : BOOLEAN]
    BY HdAssumption DEF NoClock, Ticks
  <2>5. left \in Int /\ drive.left \in Nat /\ drive.left - 1 \in Nat /\ drive.fresh \in BOOLEAN
    BY <2>2 DEF HInv, HdTypeInv
  <2>6. HdTypeInv'
    BY <2>1, <2>3, <2>4, <2>5 DEF HInv, HdTypeInv
  <2>7. Writing'
    BY <2>1, <2>2, <2>3, <2>5 DEF Writing, Fit
  <2> QED
    BY <1>0, <2>1, <2>2, <2>6, <2>7
    DEF HInv, Quiet, Walking, Outgoing, Incoming, Requesting, Kinds
<1>2. CASE SectorWritten
  <2>1. /\ hd_pc = "int" /\ cmd.command = "WRITE" /\ has_int_msg /\ has_int_msg' = FALSE
        /\ left' = left - 1 /\ UNCHANGED <<mbox, msg, cmd, walk, drive>>
    BY <1>2 DEF SectorWritten, Answers, Interrupted
  <2>2. \/ /\ drive.st = "drq" /\ drive.command = "WRITE" /\ ~drive.fresh
           /\ Fit(left, drive.left + 1) /\ drive.left >= 1
        \/ drive = Idle
    BY <2>1 DEF HInv, Writing
  <2>3. left \in Int /\ drive.left \in Nat
    BY DEF HInv, HdTypeInv
  <2>4. /\ hd_pc' = IF left = 1 THEN "reply" ELSE "drq"
        /\ clock' \in [t : Ticks, now : Ticks, waited : Nat, wrapped : BOOLEAN]
    BY <1>2, WaitStarts DEF SectorWritten, HInv, HdTypeInv
  <2>5. HdTypeInv'
    <3>1. left' \in Int
      BY <2>1, <2>3
    <3>2. UNCHANGED <<mbox, msg, cmd, walk, drive>> /\ has_int_msg' = FALSE
      BY <2>1
    <3> QED BY <2>4, <3>1, <3>2 DEF HInv, HdTypeInv
  <2>6. CASE left = 1
    <3>1. drive = Idle
      BY <2>2, <2>3, <2>6 DEF Fit
    <3> QED BY <1>0, <2>1, <2>4, <2>5, <2>6, <3>1, EndsQuiet
  <2>7. CASE left # 1
    <3>1. hd_pc' = "drq"
      BY <2>4, <2>7
    <3>2. drive = Idle \/ Fit(left', drive.left)
      BY <2>1, <2>2, <2>3, <2>7 DEF Fit
    <3>3. Requesting'
      BY <2>1, <2>2, <3>1, <3>2 DEF Requesting
    <3> QED
      BY <1>0, <2>1, <2>5, <3>1, <3>3
      DEF HInv, Quiet, Walking, Outgoing, Incoming, Writing, Kinds
  <2> QED BY <2>6, <2>7
<1> QED BY <1>1, <1>2

\* Every step keeps HInv.
LEMMA HInvNext == HInv /\ FsTypeInv /\ [Next]_rdwtvars => HInv'
<1> SUFFICES ASSUME HInv, FsTypeInv, [Next]_rdwtvars PROVE HInv'
  OBVIOUS
<1>1. CASE HdStep
  BY <1>1, RequestKeeps, CommandKeeps, IdentifiedKeeps, TableKeeps, SectorReadKeeps,
     SectorWriteKeeps DEF HdStep
<1>2. CASE UNCHANGED rdwtvars
  BY <1>2
  DEF rdwtvars, hdvars, HInv, HdTypeInv, Quiet, Walking, Outgoing, Incoming, Requesting,
      Writing, Fits, Single
<1> QED BY <1>1, <1>2, FsStepKeeps, TickKeeps, DriveKeeps DEF Next

\* The interrupts of the disk and the commands of the driver match, whatever

\* the partition tables are and however large a request is: task_hd never gets
\* the interrupt of an earlier command as a message.
THEOREM InterruptsCorrect == Spec => []InterruptsMatched
<1>1. Spec => []HInv
  BY FsTypes, HInvInit, HInvNext, PTL DEF Spec
<1>2. HInv => InterruptsMatched
  BY DEF HInv, Quiet, InterruptsMatched
<1> QED BY <1>1, <1>2, PTL

-----------------------------------------------------------------------------
(* The timeout.                                                            *)

\* Until it wraps the counter tells how long HD waited, and HD gives up only
\* when waitfor() has found the time expired.
ClockInv ==
  /\ ~clock.wrapped => clock.now = clock.t + clock.waited
  /\ hd_pc = "panic" => Expired

\* What the steps of HD do to the clock.
LEMMA ClockEffect ==
  ASSUME HInv, HdStep
  PROVE  /\ clock' = clock \/ clock' = NoClock \/ StartWait
         /\ hd_pc # "panic" /\ (hd_pc' = "panic" => WaitFails)
<1> DEFINE Right == /\ clock' = clock \/ clock' = NoClock \/ StartWait
                    /\ hd_pc # "panic" /\ hd_pc' # "panic"
<1>1. ASSUME Receive PROVE Right
  BY <1>1 DEF Receive, HInv, HdTypeInv, Kinds, NoRequest
<1>2. ASSUME HdOpen \/ HdIoctl \/ HdRdwt \/ HdReply PROVE Right
  BY <1>2 DEF HdOpen, HdIoctl, HdRdwt, HdReply, Begin
<1>3. ASSUME CommandOut \/ PortWrite PROVE Right
  BY <1>3 DEF CommandOut, PortWrite
<1>4. ASSUME NEW info, NEW tbl, NEW i, PrimaryRound(info, tbl, i), hd_pc = "int" PROVE Right
  BY <1>4 DEF PrimaryRound, Begin
<1>5. ASSUME Identified \/ SectorRead \/ SectorWritten PROVE Right
  BY <1>5
  DEF Identified, SectorRead, SectorWritten, Answers, Interrupted, Begin, NextPc
<1>6. ASSUME PrimaryTable PROVE Right
  BY <1>4, <1>6 DEF PrimaryTable, Answers, Interrupted
<1>7. ASSUME ExtendedTable PROVE Right
  <2>1. hd_pc = "int"
    BY <1>7 DEF ExtendedTable, Answers, Interrupted
  <2>2. \/ \E info, tbl, i : PrimaryRound(info, tbl, i)
        \/ \E s : Begin("READ", s, 1)
    BY <1>7 DEF ExtendedTable
  <2>3. ASSUME NEW s, Begin("READ", s, 1) PROVE Right
    BY <2>1, <2>3 DEF Begin
  <2> QED BY <1>4, <2>1, <2>2, <2>3
<1>8. ASSUME WaitFails PROVE clock' = clock /\ hd_pc # "panic"
  BY <1>8 DEF WaitFails, InWaitfor
<1> QED BY <1>1, <1>2, <1>3, <1>5, <1>6, <1>7, <1>8 DEF HdStep

\* Every step keeps ClockInv: the time a wait has lasted follows the counter until it wraps.
LEMMA ClockInvNext == HInv /\ ClockInv /\ [Next]_rdwtvars => ClockInv'
<1> SUFFICES ASSUME HInv, ClockInv, [Next]_rdwtvars PROVE ClockInv'
  OBVIOUS
<1>1. CASE HdStep
  <2>1. hd_pc # "panic" /\ (hd_pc' = "panic" => WaitFails)
    BY <1>1, ClockEffect
  <2>2. ~clock'.wrapped => clock'.now = clock'.t + clock'.waited
    <3>1. CASE clock' = clock
      BY <3>1 DEF ClockInv
    <3>2. CASE clock' = NoClock
      BY <3>2 DEF NoClock
    <3>3. CASE StartWait
      <4>1. PICK x \in Ticks : clock' = [NoClock EXCEPT !.t = x, !.now = x]
        BY <3>3 DEF StartWait
      <4> QED BY <4>1 DEF NoClock, Ticks
    <3> QED BY <1>1, <3>1, <3>2, <3>3, ClockEffect
  <2>3. WaitFails => Expired'
    BY DEF WaitFails, Expired
  <2> QED BY <2>1, <2>2, <2>3 DEF ClockInv
<1>2. CASE Tick
  <2>1. clock \in [t : Ticks, now : Ticks, waited : Nat, wrapped : BOOLEAN]
    BY DEF HInv, HdTypeInv
  <2>2. hd_pc' # "panic"
    BY <1>2 DEF Tick, InWaitfor
  <2>3. clock' = [clock EXCEPT !.now = (@ + 1) % MAX_TICKS, !.waited = @ + 1,
                               !.wrapped = @ \/ clock.now + 1 = MAX_TICKS]
    BY <1>2 DEF Tick
  <2>4. CASE ~clock.wrapped /\ clock.now + 1 # MAX_TICKS
    <3>1. clock.now \in Nat /\ clock.now + 1 < MAX_TICKS
      BY <2>1, <2>4, HdAssumption DEF Ticks
    <3>2. (clock.now + 1) % MAX_TICKS = clock.now + 1
      BY <3>1, HdAssumption
    <3>3. /\ clock'.now = clock.now + 1 /\ clock'.waited = clock.waited + 1
          /\ clock'.t = clock.t
      BY <2>1, <2>3, <3>2
    <3>4. clock.now = clock.t + clock.waited
      BY <2>4 DEF ClockInv
    <3>5. clock.t \in Nat /\ clock.waited \in Nat
      BY <2>1 DEF Ticks
    <3> QED BY <2>2, <3>3, <3>4, <3>5 DEF ClockInv
  <2>5. CASE clock.wrapped \/ clock.now + 1 = MAX_TICKS
    <3>1. clock'.wrapped = (clock.wrapped \/ clock.now + 1 = MAX_TICKS)
      BY <2>1, <2>3
    <3>2. clock'.wrapped
      BY <2>5, <3>1, Zenon
    <3> QED BY <2>2, <3>2 DEF ClockInv
  <2> QED BY <2>4, <2>5
<1>3. CASE UNCHANGED <<hd_pc, clock>>
  BY <1>3 DEF ClockInv, Expired
<1> QED
  BY <1>1, <1>2, <1>3 DEF Next, FsStep, DriveReady, rdwtvars, hdvars

\* The product that waitfor() computes in an int is no greater than the true one.
LEMMA SignedIsLess ==
  ASSUME NEW x \in Nat
  PROVE  Signed(x) \in Int /\ Signed(x) <= x
<1> DEFINE h == Word \div 2
<1>1. h \in Nat
  BY HdAssumption
<1>2. (x + h) % Word \in Nat /\ (x + h) % Word <= x + h
  <2>1. x + h \in Nat
    BY <1>1
  <2> HIDE DEF h
  <2> QED BY <2>1, HdAssumption
<1>3. Signed(x) = ((x + h) % Word) - h
  BY DEF Signed
<1> HIDE DEF h
<1> QED BY <1>1, <1>2, <1>3

\* HD gives up only when the disk was not ready for the whole timeout, unless

\* the counter wrapped, whatever the clock rate, the timeout and the width of
\* an int.
THEOREM GivesUpLate == Spec => []PanicsOnlyLate
<1>1. Init => ClockInv
  BY DEF Init, HdInit, NoClock, ClockInv
<1>2. Spec => [](HInv /\ ClockInv)
  BY <1>1, FsTypes, HInvInit, HInvNext, ClockInvNext, PTL DEF Spec
<1>3. HInv /\ ClockInv => PanicsOnlyLate
  <2> SUFFICES ASSUME HInv, ClockInv, hd_pc = "panic", ~clock.wrapped
               PROVE  clock.waited * Ms >= HD_TIMEOUT * HZ
    BY DEF PanicsOnlyLate
  <2>1. clock.waited \in Nat /\ clock.t \in Nat /\ clock.now = clock.t + clock.waited
    BY DEF HInv, HdTypeInv, ClockInv, Ticks
  <2>2. clock.now - clock.t = clock.waited
    BY <2>1
  <2>3. Signed(clock.waited * Ms) \div HZ >= HD_TIMEOUT
    BY <2>2 DEF ClockInv, Expired
  <2> DEFINE x == clock.waited * Ms
  <2>4. x \in Nat
    BY <2>1, HdAssumption
  <2>5. Signed(x) \in Int /\ Signed(x) <= x /\ Signed(x) \div HZ >= HD_TIMEOUT
    BY <2>3, <2>4, SignedIsLess
  <2> HIDE DEF x
  <2>6. Signed(x) >= HD_TIMEOUT * HZ
    BY <2>5, HdAssumption
  <2> HIDE DEF Signed
  <2>7. HD_TIMEOUT * HZ \in Int
    BY HdAssumption
  <2>8. x >= HD_TIMEOUT * HZ
    BY <2>4, <2>5, <2>6, <2>7
  <2> QED BY <2>8 DEF x
<1> QED BY <1>2, <1>3, PTL
-----------------------------------------------------------------------------
(* The chain of tables of an extended partition: a recursive function, and *)
(* so everything about it is by induction, from the least place where it   *)
(* fails.                                                                  *)

\* The table after the one at x, in a chain that begins at first.
Following(D, first, x) ==
  IF x = 0 \/ D[x + 1][2].sys = "NO_PART" THEN 0 ELSE first + D[x + 1][2].start

\* p is the chain, as far as n.
ChainTo(D, first, n, p) ==
  p = [i \in 0 .. n |-> IF i = 0 THEN first ELSE Following(D, first, p[i - 1])]

\* The chain can be followed as far as wanted.
LEMMA ChainGrows ==
  ASSUME NEW D, NEW first, NEW n \in Nat
  PROVE  \E p : ChainTo(D, first, n, p)
<1> DEFINE T == {i \in Nat : ~\E p : ChainTo(D, first, i, p)}
<1>1. SUFFICES ASSUME T # {} PROVE FALSE
  OBVIOUS
<1>2. PICK m \in T : \A i \in T : m <= i
  BY <1>1, LeastNumber
<1>3. CASE m = 0
  <2> DEFINE p == [i \in 0 .. 0 |-> first]
  <2>1. ChainTo(D, first, 0, p)
    BY DEF ChainTo
  <2> QED BY <1>3, <2>1
<1>4. CASE m # 0
  <2>1. m \in Nat /\ m - 1 \in Nat /\ m - 1 \notin T
    BY <1>2, <1>4
  <2>2. PICK q : ChainTo(D, first, m - 1, q)
    BY <2>1
  <2> DEFINE p == [i \in 0 .. m |-> IF i < m THEN q[i] ELSE Following(D, first, q[m - 1])]
  <2>3. \A i \in 0 .. m - 1 : q[i] = IF i = 0 THEN first ELSE Following(D, first, q[i - 1])
    BY <2>2 DEF ChainTo
  <2>4. \A i \in 0 .. m : p[i] = IF i = 0 THEN first ELSE Following(D, first, p[i - 1])
    <3> TAKE i \in 0 .. m
    <3>0. m \in Nat
      BY <2>1
    <3> HIDE DEF T
    <3>1. CASE i < m
      <4>1. i # 0 => i - 1 \in 0 .. m /\ i - 1 < m
        BY <3>0, <3>1
      <4>2. i \in 0 .. m - 1
        BY <3>0, <3>1
      <4> QED BY <2>3, <3>1, <4>1, <4>2
    <3>2. CASE i = m
      <4>1. i - 1 \in 0 .. m /\ i - 1 < m
        BY <1>4, <3>0, <3>2
      <4> QED BY <1>4, <3>2, <4>1
    <3> QED BY <3>0, <3>1, <3>2
  <2>5. ChainTo(D, first, m, p)
    <3> DEFINE r == [i \in 0 .. m |-> IF i = 0 THEN first ELSE Following(D, first, p[i - 1])]
    <3>1. p = r
      BY <2>4
    <3> QED BY <3>1 DEF ChainTo
  <2> QED BY <2>5
<1> QED BY <1>3, <1>4

\* Two chains agree as far as both go.
LEMMA ChainsAgree ==
  ASSUME NEW D, NEW first, NEW n \in Nat, NEW m \in Nat, NEW p, NEW q,
         ChainTo(D, first, n, p), ChainTo(D, first, m, q),
         NEW i \in Nat, i <= n, i <= m
  PROVE  p[i] = q[i]
<1> DEFINE T == {j \in Nat : j <= n /\ j <= m /\ p[j] # q[j]}
<1>1. SUFFICES ASSUME T # {} PROVE FALSE
  OBVIOUS
<1>2. PICK j \in T : \A k \in T : j <= k
  BY <1>1, LeastNumber
<1>3. /\ \A k \in 0 .. n : p[k] = IF k = 0 THEN first ELSE Following(D, first, p[k - 1])
      /\ \A k \in 0 .. m : q[k] = IF k = 0 THEN first ELSE Following(D, first, q[k - 1])
  BY DEF ChainTo
<1>4. j # 0
  BY <1>2, <1>3
<1>5. j - 1 \in Nat /\ j - 1 \notin T
  BY <1>2, <1>4
<1>6. p[j - 1] = q[j - 1]
  BY <1>2, <1>5
<1> QED BY <1>2, <1>3, <1>4, <1>6

\* Tables is that chain.
LEMMA TablesAre ==
  ASSUME NEW D, NEW d
  PROVE  /\ Tables(D, d)[0] = D[1][d].start
         /\ \A n \in Nat : Tables(D, d)[n + 1] = Following(D, D[1][d].start, Tables(D, d)[n])
<1> DEFINE first == D[1][d].start
           Chain(p) == p = [n \in Nat |-> IF n = 0 THEN first
                              ELSE LET t == D[p[n - 1] + 1]
                                   IN  IF p[n - 1] = 0 \/ t[2].sys = "NO_PART" THEN 0
                                       ELSE first + t[2].start]
           upto(n) == CHOOSE p : ChainTo(D, first, n, p)
           all == [n \in Nat |-> upto(n)[n]]
<1>1. \A n \in Nat : ChainTo(D, first, n, upto(n))
  BY ChainGrows
<1>2. \A n \in Nat : all[n] = IF n = 0 THEN first ELSE Following(D, first, all[n - 1])
  <2> TAKE n \in Nat
  <2>1. upto(n)[n] = IF n = 0 THEN first ELSE Following(D, first, upto(n)[n - 1])
    <3> HIDE DEF upto, first
    <3>1. upto(n) = [i \in 0 .. n |-> IF i = 0 THEN first ELSE Following(D, first, upto(n)[i - 1])]
      BY <1>1 DEF ChainTo
    <3>2. n \in 0 .. n
      OBVIOUS
    <3> QED BY <3>1, <3>2
  <2>2. n # 0 => n - 1 \in Nat /\ upto(n)[n - 1] = upto(n - 1)[n - 1]
    <3> HAVE n # 0
    <3>1. n - 1 \in Nat
      OBVIOUS
    <3> HIDE DEF upto
    <3> QED BY <1>1, <3>1, ChainsAgree
  <2> QED BY <2>1, <2>2
<1>3. Chain(all)
  <2> DEFINE r == [n \in Nat |-> IF n = 0 THEN first ELSE Following(D, first, all[n - 1])]
  <2> HIDE DEF first, upto
  <2>1. all = r
    <3>1. DOMAIN all = Nat /\ DOMAIN r = Nat /\ \A n \in Nat : all[n] = r[n]
      BY <1>2
    <3> QED BY <3>1
  <2> QED BY <2>1 DEF Following
<1>4. Chain(Tables(D, d))
  <2>1. Tables(D, d) = CHOOSE p : Chain(p)
    BY DEF Tables
  <2> HIDE DEF Chain, all
  <2>2. \E p : Chain(p)
    BY <1>3
  <2> QED BY <2>1, <2>2, Zenon
<1> DEFINE P == Tables(D, d)
<1> HIDE DEF P, all
<1>5. P = [n \in Nat |-> IF n = 0 THEN first ELSE Following(D, first, P[n - 1])]
  BY <1>4 DEF Following, P
<1> HIDE DEF first
<1>6. P[0] = first
  BY <1>5
<1>7. \A n \in Nat : P[n + 1] = Following(D, first, P[n])
  BY <1>5
<1> QED BY <1>6, <1>7 DEF P, first

\* A chain that has ended has no more tables.
LEMMA ChainEnds ==
  ASSUME NEW D, NEW d, NEW n \in Nat, Tables(D, d)[n] = 0, NEW k \in Nat, n <= k
  PROVE  Tables(D, d)[k] = 0
<1> DEFINE S == {i \in Nat : Tables(D, d)[n + i] = 0}
<1>1. 0 \in S
  OBVIOUS
<1>2. \A i \in Nat : i < k - n /\ i \in S => i + 1 \in S
  <2> TAKE i \in Nat
  <2> HAVE i < k - n /\ i \in S
  <2>1. n + i \in Nat /\ Tables(D, d)[n + i] = 0 /\ (n + i) + 1 = n + (i + 1)
    OBVIOUS
  <2>2. Tables(D, d)[(n + i) + 1] = 0
    BY <2>1, TablesAre DEF Following
  <2> QED BY <2>1, <2>2
<1>3. k - n \in Nat
  OBVIOUS
<1> HIDE DEF S
<1>4. k - n \in S
  BY <1>1, <1>2, <1>3, UpTo
<1>5. n + (k - n) = k
  OBVIOUS
<1> QED BY <1>4, <1>5 DEF S

Subs == 0 .. NR_SUB_PER_PART - 1
Prims == 1 .. NR_PART_PER_DRIVE

\* A disk with the same tables has the same chain.
LEMMA ChainKept ==
  ASSUME NEW D, NEW E, NEW d \in Prims, D[1] = E[1], D[1][d].sys = "EXT_PART",
         \A s \in TableSects(D) : E[s + 1] = D[s + 1]
  PROVE  \A k \in Subs : Tables(D, d)[k] = Tables(E, d)[k]
<1> DEFINE S == {i \in Nat : Tables(D, d)[i] = Tables(E, d)[i]}
           m == NR_SUB_PER_PART - 1
<1>1. 0 \in S
  BY TablesAre
<1>2. m \in Nat
  BY HdAssumption
<1>3. \A i \in Nat : i < m /\ i \in S => i + 1 \in S
  <2> TAKE i \in Nat
  <2> HAVE i < m /\ i \in S
  <2> DEFINE x == Tables(D, d)[i]
  <2>1. i \in Subs /\ x = Tables(E, d)[i]
    BY <1>2 DEF Subs
  <2>2. x \in TableSects(D)
    BY <2>1 DEF TableSects, Chained, Prims, Subs
  <2>3. E[x + 1] = D[x + 1]
    BY <2>2
  <2> HIDE DEF x
  <2>4. Following(D, D[1][d].start, x) = Following(E, E[1][d].start, x)
    BY <2>3 DEF Following
  <2> QED BY <2>1, <2>4, TablesAre DEF x
<1> HIDE DEF S
<1>4. \A k \in 0 .. m : k \in S
  BY <1>1, <1>2, <1>3, UpTo
<1> QED BY <1>4 DEF S, Subs

\* The tables of a chain are at sectors, and the chain is as long as its

\* entries say.
LEMMA ChainGoesOn ==
  ASSUME NEW D, DiskFits(D), NEW d \in Prims, D[1][d].sys = "EXT_PART"
  PROVE  /\ Tables(D, d)[0] = D[1][d].start /\ D[1][d].start \in Nat \ {0}
         /\ \A k \in Subs : Tables(D, d)[k] \in Nat /\ Tables(D, d)[k] \in TableSects(D)
         /\ \A k \in Subs : (k + 1 \in Subs /\ Tables(D, d)[k] # 0) =>
              LET t == D[Tables(D, d)[k] + 1]
              IN  IF t[2].sys = "NO_PART" THEN Tables(D, d)[k + 1] = 0
                  ELSE /\ Tables(D, d)[k + 1] = D[1][d].start + t[2].start
                       /\ Tables(D, d)[k + 1] # 0
<1> DEFINE first == D[1][d].start
           P(k) == Tables(D, d)[k]
<1>1. P(0) = first /\ \A n \in Nat : P(n + 1) = Following(D, first, P(n))
  BY TablesAre
<1>2. first \in Nat \ {0}
  BY DEF DiskFits, Prims
<1>3. \A k \in Subs : P(k) \in TableSects(D)
  BY DEF TableSects, Chained, Prims, Subs
<1>4. \A k \in Subs : P(k) # 0 => D[P(k) + 1][2].start \in Nat
  BY <1>3 DEF DiskFits
<1>5. \A k \in Subs : k \in Nat
  BY HdAssumption DEF Subs
<1>6. \A k \in Subs : P(k) \in Nat
  <2> TAKE k \in Subs
  <2>1. CASE k = 0
    BY <1>1, <1>2, <2>1
  <2>2. CASE k # 0
    <3>1. k - 1 \in Subs /\ (k - 1) + 1 = k
      BY <1>5, <2>2, HdAssumption DEF Subs
    <3>2. P(k) = Following(D, first, P(k - 1))
      BY <1>1, <1>5, <3>1
    <3> HIDE DEF P, first
    <3> QED BY <1>2, <1>4, <3>1, <3>2 DEF Following
  <2> QED BY <2>1, <2>2
<1>7. ASSUME NEW k \in Subs, k + 1 \in Subs, P(k) # 0
      PROVE  IF D[P(k) + 1][2].sys = "NO_PART" THEN P(k + 1) = 0
             ELSE P(k + 1) = first + D[P(k) + 1][2].start /\ P(k + 1) # 0
  <2>1. P(k + 1) = Following(D, first, P(k))
    BY <1>1, <1>5
  <2> HIDE DEF P, first
  <2> QED BY <1>2, <1>4, <1>7, <2>1 DEF Following
<1> QED BY <1>1, <1>2, <1>3, <1>6, <1>7

-----------------------------------------------------------------------------
(* Where FS is, what it has asked HD for, and what HD does for it.         *)

FsPlaces == {"open", "geo", "opened", "idle", "fetch", "move", "written", "sync", "synced"}

\* HD serves the request in the mailbox, each kind with commands of its own.
ServeInv ==
  /\ mbox = NoRequest => hd_pc = "receive"
  /\ hd_pc # "receive" => msg = mbox
  /\ hd_pc \in Kinds => msg.type = hd_pc
  /\ hd_pc \in {"bsy", "int", "drq"} =>
       \/ msg.type = "DEV_OPEN" /\ Single
       \/ msg.type = "DEV_READ" /\ cmd.command = "READ" /\ walk.ext = 0
       \/ msg.type = "DEV_WRITE" /\ cmd.command = "WRITE" /\ walk.ext = 0

\* The request of FS at each of its places is its last one, until it is answered.
Asked(r) == mbox = NoRequest \/ mbox = r

FsMailbox ==
  /\ fs.pc \in FsPlaces
  /\ fs.pc \in {"open", "idle", "fetch"} => mbox = NoRequest
  /\ fs.pc = "geo" => Asked(Request("DEV_OPEN", ROOT_DEV, 0, 0))
  /\ fs.pc = "opened" => Asked(Request("DEV_IOCTL", ROOT_DEV, 0, 0))
  /\ fs.pc = "move" => Asked(Request("DEV_READ", ROOT_DEV, fs.i, fs.chunk))
  /\ fs.pc = "written" => Asked(Request("DEV_WRITE", ROOT_DEV, fs.i, fs.chunk))
  /\ fs.pc = "sync" => Asked(Request("DEV_READ", ROOT_DEV, InodeSect, 1))
  /\ fs.pc = "synced" => Asked(Request("DEV_WRITE", ROOT_DEV, InodeSect, 1))

\* The numbers of do_rdwt in its loop: a chunk fits into fsbuf, and a WRITE
\* ends at most one chunk behind the file.
FsNumbers ==
  /\ fd_pos \in [Fds -> Nat] /\ i_size \in Nat
  /\ fs.pc \in {"fetch", "move", "written"} =>
       /\ fs.fd \in Fds /\ fs.type \in {"READ", "WRITE"}
       /\ fs.i \in Nat /\ fs.i >= StartSect /\ fs.max \in Nat
       /\ fs.off \in 0 .. SECTOR_SIZE - 1 /\ fs.left \in Nat /\ fs.done \in Nat
       /\ fs.i <= fs.max => fs.chunk \in 1 .. FsBufSects
       /\ fs.type = "WRITE" => fs.max <= StartSect + NrSects
  /\ fs.pc \in {"move", "written"} => fs.i <= fs.max
  /\ fs.pc = "written" => fs.type = "WRITE"
  /\ fs = [pc |-> fs.pc, type |-> fs.type, fd |-> fs.fd, i |-> fs.i, max |-> fs.max,
           chunk |-> fs.chunk, off |-> fs.off, done |-> fs.done, left |-> fs.left]

FsInv == ServeInv /\ FsMailbox /\ FsNumbers

\* At first nothing is asked.
LEMMA FsInvInit == Init => FsInv
BY FsRdwtAssumption
DEF Init, HdInit, FsInv, ServeInv, FsMailbox, FsNumbers, FsPlaces, AtRest, NoRequest, Kinds

\* FS asks when HD waits for a request.
LEMMA AskKeeps ==
  ASSUME ServeInv, FsStep
  PROVE  ServeInv'
<1>1. UNCHANGED <<hd_pc, msg, cmd, walk>>
  BY DEF FsStep
<1>2. mbox' = mbox \/ mbox = NoRequest
  BY DEF FsStep, FsCall, Start, FsInit, Fetch, MoveOut, MoveIn, Written, Finish, Sync, Ready, Send
<1> QED BY <1>1, <1>2 DEF ServeInv, Single, Kinds

\* A round of do_rdwt moves some of the bytes left, all of them or those up to

\* the end of the chunk.
LEMMA BytesMoved ==
  ASSUME FsNumbers, fs.pc \in {"move", "written"}
  PROVE  /\ Bytes \in Nat /\ Bytes <= fs.left /\ fs.chunk \in 1 .. FsBufSects
         /\ fs.off + Bytes <= fs.chunk * SECTOR_SIZE /\ fs.chunk * SECTOR_SIZE \in Nat
         /\ Bytes = fs.left \/ fs.off + Bytes = fs.chunk * SECTOR_SIZE
<1> DEFINE c == fs.chunk * SECTOR_SIZE
<1>1. /\ fs.chunk \in 1 .. FsBufSects /\ fs.off \in 0 .. SECTOR_SIZE - 1 /\ fs.left \in Nat
      /\ SECTOR_SIZE \in Nat \ {0} /\ fs.off \in Nat /\ fs.off < SECTOR_SIZE
  BY HdAssumption DEF FsNumbers
<1>2. c \in Nat /\ c >= SECTOR_SIZE
  <2>1. fs.chunk \in Nat /\ fs.chunk >= 1
    BY <1>1, HdAssumption
  <2> QED BY <1>1, <2>1
<1> HIDE DEF c
<1>3. Bytes = IF fs.left < c - fs.off THEN fs.left ELSE c - fs.off
  BY DEF Bytes, Least, c
<1> QED BY <1>1, <1>2, <1>3 DEF c

\* The next round of the loop begins at the next chunk, within the sectors.
LEMMA AdvanceKeeps ==
  ASSUME FsNumbers, fs.pc \in {"move", "written"}, Advance, UNCHANGED i_size
  PROVE  FsNumbers' /\ fs'.pc = "fetch"
<1>1. /\ Bytes \in Nat /\ Bytes <= fs.left /\ fs.chunk \in 1 .. FsBufSects
  BY BytesMoved
<1>2. /\ fs.fd \in Fds /\ fs.type \in {"READ", "WRITE"}
      /\ fs.i \in Nat /\ fs.i >= StartSect /\ fs.max \in Nat
      /\ fs.left \in Nat /\ fs.done \in Nat /\ i_size \in Nat
      /\ fs.type = "WRITE" => fs.max <= StartSect + NrSects
      /\ fd_pos \in [Fds -> Nat]
  BY DEF FsNumbers
<1>3. fs' = [pc |-> "fetch", type |-> fs.type, fd |-> fs.fd, i |-> fs.i + fs.chunk,
             max |-> fs.max, chunk |-> fs.chunk, off |-> 0,
             done |-> fs.done + Bytes, left |-> fs.left - Bytes]
  BY DEF Advance, NextRound, FsNumbers
<1>4. fd_pos' \in [Fds -> Nat]
  <2>1. fd_pos' = [fd_pos EXCEPT ![fs.fd] = @ + Bytes]
    BY DEF Advance
  <2>2. fd_pos[fs.fd] + Bytes \in Nat
    BY <1>1, <1>2
  <2> QED BY <1>2, <2>1, <2>2
<1>5. fs.chunk \in Nat /\ 0 \in 0 .. SECTOR_SIZE - 1
  BY <1>1, HdAssumption
<1>6. fs.i + fs.chunk \in Nat /\ fs.i + fs.chunk >= StartSect
      /\ fs.done + Bytes \in Nat /\ fs.left - Bytes \in Nat
  BY <1>1, <1>2, <1>5, FsRdwtAssumption
<1> QED BY <1>1, <1>2, <1>3, <1>4, <1>5, <1>6 DEF FsNumbers

\* The first chunk of a call is within the sectors.
LEMMA StartKeeps ==
  ASSUME FsNumbers, FsMailbox,
         NEW fd \in Fds, NEW type \in {"READ", "WRITE"}, NEW len \in Lengths,
         Start(fd, type, len)
  PROVE  FsNumbers' /\ FsMailbox'
<1>1. CASE fd \notin RdwrFds
  BY <1>1 DEF Start, FsNumbers, FsMailbox, Asked
<1>2. CASE fd \in RdwrFds
  <2> DEFINE pos == fd_pos[fd]
             end == PosEnd(type, pos, len)
             min == StartSect + (pos \div SECTOR_SIZE)
             max == StartSect + (end \div SECTOR_SIZE)
             off == pos % SECTOR_SIZE
             chunk == Least(max - min + 1, FsBufSects)
  <2>1. fs' = [pc |-> "fetch", type |-> type, fd |-> fd, i |-> min, max |-> max,
               chunk |-> chunk, off |-> off, done |-> 0, left |-> len]
        /\ fd_pos' = fd_pos /\ i_size' = i_size /\ mbox' = mbox /\ fs.pc = "idle"
    BY <1>2 DEF Start
  <2>2. pos \in Nat /\ len \in Nat /\ i_size \in Nat /\ NrSects * SECTOR_SIZE \in Nat
    BY FsRdwtAssumption, HdAssumption DEF FsNumbers
  <2>3. end \in Nat /\ (type = "WRITE" => end <= NrSects * SECTOR_SIZE)
    BY <2>2 DEF PosEnd, Least
  <2> HIDE DEF pos, end
  <2>4. /\ pos \div SECTOR_SIZE \in Nat /\ end \div SECTOR_SIZE \in Nat
        /\ off \in 0 .. SECTOR_SIZE - 1
    BY <2>2, <2>3, HdAssumption
  <2>5. type = "WRITE" => end \div SECTOR_SIZE <= NrSects
    BY <2>3, HdAssumption, FsRdwtAssumption
  <2>6. min \in Nat /\ min >= StartSect /\ max \in Nat /\ (type = "WRITE" => max <= StartSect + NrSects)
    BY <2>4, <2>5, FsRdwtAssumption
  <2> HIDE DEF min, max, off
  <2>7. min <= max => chunk \in 1 .. FsBufSects
    BY <2>6, HdAssumption DEF Least
  <2> HIDE DEF chunk
  <2>8. FsNumbers'
    BY <2>1, <2>2, <2>4, <2>6, <2>7 DEF FsNumbers, off
  <2>9. FsMailbox'
    BY <2>1 DEF FsMailbox, FsPlaces, Asked
  <2> QED BY <2>8, <2>9
<1> QED BY <1>1, <1>2

\* FS sends the request of its place, with numbers that are in range.
LEMMA FsStepNumbers ==
  ASSUME FsNumbers, FsMailbox, FsStep
  PROVE  FsNumbers' /\ FsMailbox'
<1> DEFINE Right == FsNumbers' /\ FsMailbox'
<1>1. ASSUME FsCall PROVE Right
  BY <1>1, StartKeeps DEF FsCall
<1>2. ASSUME FsInit PROVE Right
  BY <1>2 DEF FsInit, AtRest, FsNumbers, FsMailbox, Asked, Send, Request, FsPlaces
<1>3. ASSUME Fetch PROVE Right
  BY <1>3 DEF Fetch, FsNumbers, FsMailbox, Asked, Send, FsPlaces
<1>4. ASSUME MoveOut \/ Written PROVE Right
  <2>1. Advance /\ UNCHANGED i_size /\ mbox' = NoRequest /\ fs.pc \in {"move", "written"}
    BY <1>4 DEF MoveOut, Written
  <2>2. FsNumbers' /\ fs'.pc = "fetch"
    BY <2>1, AdvanceKeeps
  <2> QED BY <2>1, <2>2 DEF FsMailbox, FsPlaces, Asked
<1>5. ASSUME MoveIn PROVE Right
  <2>1. fs' = [fs EXCEPT !.pc = "written"] /\ Send(Request("DEV_WRITE", ROOT_DEV, fs.i, fs.chunk))
        /\ fs.pc = "move" /\ fs.type = "WRITE" /\ UNCHANGED <<fd_pos, i_size>>
    BY <1>5 DEF MoveIn
  <2> QED BY <2>1 DEF FsNumbers, FsMailbox, Asked, Send, FsPlaces
<1>6. ASSUME Finish PROVE Right
  <2>1. fd_pos[fs.fd] \in Nat
    BY <1>6 DEF Finish, FsNumbers
  <2> QED BY <1>6, <2>1 DEF Finish, Return, AtRest, FsNumbers, FsMailbox, Asked, Send, FsPlaces
<1>7. ASSUME Sync \/ Ready PROVE Right
  BY <1>7 DEF Sync, Ready, Return, AtRest, FsNumbers, FsMailbox, Asked, Send, FsPlaces
<1> QED BY <1>1, <1>2, <1>3, <1>4, <1>5, <1>6, <1>7 DEF FsStep

\* HD only empties the mailbox.
LEMMA MailboxKept ==
  ASSUME FsMailbox, FsNumbers, HdStep \/ Tick \/ DriveReady, UNCHANGED fsvars
  PROVE  FsMailbox' /\ FsNumbers'
<1>1. mbox' = mbox \/ mbox' = NoRequest
  BY DEF HdStep, Tick, DriveReady, Receive, HdOpen, HdIoctl, HdRdwt, CommandOut, WaitFails,
         Identified, PrimaryTable, ExtendedTable, SectorRead, PortWrite, SectorWritten, HdReply
<1> QED BY <1>1 DEF FsMailbox, FsNumbers, Asked, fsvars

\* Begin, for a command of the kind that the request is for.
LEMMA RoundServes ==
  ASSUME NEW info, NEW tbl, NEW i, PrimaryRound(info, tbl, i)
  PROVE  \/ hd_pc' = "reply" /\ walk' = NoWalk
         \/ hd_pc' = "bsy" /\ cmd'.command = "READ" /\ walk'.ext # 0
<1>1. CASE walk' = NoWalk /\ hd_pc' = "reply" /\ UNCHANGED <<cmd, clock>>
  BY <1>1
<1>2. CASE \E s : /\ Begin("READ", s, 1) /\ walk'.ext # 0
                  /\ walk' = [ext |-> walk'.ext, k |-> walk'.k, s |-> walk'.s,
                              i |-> walk'.i, tbl |-> walk'.tbl]
  BY <1>2 DEF Begin
<1> QED BY <1>1, <1>2, RoundEffect

\* HD goes from command to command of the request it has.
LEMMA HdServes ==
  ASSUME HInv, ServeInv, HdStep \/ Tick \/ DriveReady
  PROVE  ServeInv'
<1>1. CASE Tick \/ DriveReady
  BY <1>1 DEF Tick, DriveReady, ServeInv, Single
<1>2. ASSUME Receive PROVE ServeInv'
  <2>1. hd_pc = "receive" /\ ~has_int_msg /\ mbox # NoRequest /\ mbox.type \in Kinds
    BY <1>2 DEF Receive, HInv, Quiet, HdTypeInv
  <2>2. hd_pc' = mbox.type /\ msg' = mbox /\ mbox' = mbox
    BY <1>2, <2>1 DEF Receive
  <2> QED BY <2>1, <2>2 DEF ServeInv, Kinds
<1>3. ASSUME HdOpen PROVE ServeInv'
  BY <1>3 DEF HdOpen, Begin, ServeInv, Single, Kinds
<1>4. ASSUME HdIoctl \/ WaitFails PROVE ServeInv'
  BY <1>4 DEF HdIoctl, WaitFails, ServeInv, Kinds, InWaitfor
<1>5. ASSUME HdRdwt PROVE ServeInv'
  <2>1. walk.ext = 0
    BY <1>5 DEF HInv, Walking, HdRdwt
  <2> QED BY <1>5, <2>1 DEF HdRdwt, Begin, ServeInv, Single, Kinds
<1>6. ASSUME CommandOut PROVE ServeInv'
  BY <1>6 DEF CommandOut, ServeInv, Single, Kinds
<1>7. ASSUME Identified PROVE ServeInv'
  <2>1. /\ hd_pc = "int" /\ cmd.command = "IDENTIFY" /\ UNCHANGED <<mbox, msg>>
        /\ \/ hd_pc' = "bsy" /\ cmd'.command = "READ" /\ walk'.ext = -1
           \/ hd_pc' = "reply"
    BY <1>7 DEF Identified, Answers, Interrupted, Begin, NoWalk
  <2> QED BY <2>1 DEF ServeInv, Single, Kinds
<1>8. ASSUME NEW info, NEW tbl, NEW i, PrimaryRound(info, tbl, i), walk.ext # 0, hd_pc = "int",
             UNCHANGED <<mbox, msg>>
      PROVE  ServeInv'
  BY <1>8, RoundServes DEF ServeInv, Single, Kinds
<1>9. ASSUME PrimaryTable PROVE ServeInv'
  BY <1>8, <1>9 DEF PrimaryTable, Answers, Interrupted
<1>10. ASSUME ExtendedTable PROVE ServeInv'
  <2>1. walk.ext > 0 /\ hd_pc = "int" /\ UNCHANGED <<mbox, msg>>
    BY <1>10 DEF ExtendedTable, Answers, Interrupted
  <2>2. \/ \E info : PrimaryRound(info, walk.tbl, walk.i)
        \/ \E s : walk' = [walk EXCEPT !.k = @ + 1, !.s = s] /\ Begin("READ", s, 1)
    BY <1>10 DEF ExtendedTable
  <2>3. ASSUME NEW s, walk' = [walk EXCEPT !.k = @ + 1, !.s = s], Begin("READ", s, 1)
        PROVE  ServeInv'
    <3>1. walk'.ext = walk.ext /\ hd_pc' = "bsy" /\ cmd'.command = "READ"
      BY <2>3 DEF Begin, HInv, HdTypeInv
    <3>2. walk.ext # 0
      BY <2>1
    <3>3. msg.type = "DEV_OPEN" /\ mbox # NoRequest /\ msg = mbox
      BY <2>1, <3>2 DEF ServeInv, Single
    <3> QED BY <2>1, <3>1, <3>2, <3>3 DEF ServeInv, Single, Kinds
  <2>4. ASSUME NEW info, PrimaryRound(info, walk.tbl, walk.i) PROVE ServeInv'
    <3>1. walk.ext # 0
      BY <2>1
    <3> QED BY <1>8, <2>1, <2>4, <3>1
  <2> QED BY <2>2, <2>3, <2>4
<1>11. ASSUME SectorRead PROVE ServeInv'
  BY <1>11 DEF SectorRead, Answers, Interrupted, NextPc, ServeInv, Single, Kinds
<1>12. ASSUME PortWrite \/ SectorWritten PROVE ServeInv'
  BY <1>12 DEF PortWrite, SectorWritten, Answers, Interrupted, ServeInv, Single, Kinds
<1>13. ASSUME HdReply PROVE ServeInv'
  BY <1>13 DEF HdReply, ServeInv, Kinds
<1> QED
  BY <1>1, <1>2, <1>3, <1>4, <1>5, <1>6, <1>7, <1>9, <1>10, <1>11, <1>12, <1>13 DEF HdStep

\* Every step keeps FS and HD at the same request.
LEMMA FsInvNext == HInv /\ FsInv /\ [Next]_rdwtvars => FsInv'
<1> SUFFICES ASSUME HInv, FsInv, [Next]_rdwtvars PROVE FsInv'
  OBVIOUS
<1>1. CASE FsStep
  BY <1>1, AskKeeps, FsStepNumbers DEF FsInv
<1>2. CASE (HdStep \/ Tick \/ DriveReady) /\ UNCHANGED fsvars
  BY <1>2, HdServes, MailboxKept DEF FsInv
<1>3. CASE UNCHANGED rdwtvars
  BY <1>3 DEF rdwtvars, hdvars, fsvars, FsInv, ServeInv, Single, FsMailbox, FsNumbers, Asked
<1> QED BY <1>1, <1>2, <1>3 DEF Next

-----------------------------------------------------------------------------
(* What HD knows of the partitions while it reads the tables of disk D.    *)

Base(D) == RootPart(D).base

\* Only the sectors that FS may write differ from those of D.
Shape(D) ==
  /\ disk = [s \in DOMAIN D |-> disk[s]]
  /\ \A s \in DOMAIN D : disk[s] = [b \in DOMAIN D[s] |-> disk[s][b]]
  /\ \A s \in DOMAIN D : s - 1 \notin RootSects(D) => disk[s] = D[s]

\* info has the primary partitions up to e, and the logical ones before number
\* k of primary d.
InfoIs(info, D, e, d, k) ==
  /\ info = [open_cnt |-> info.open_cnt, primary |-> info.primary, logical |-> info.logical]
  /\ info.open_cnt \in Nat
  /\ info.primary = [p \in 0 .. NR_PART_PER_DRIVE |-> info.primary[p]]
  /\ info.logical = [j \in 0 .. NR_SUB_PER_DRIVE - 1 |-> info.logical[j]]
  /\ \A p \in Prims : info.primary[p] = IF p <= e THEN PrimaryOf(D, p) ELSE NoPart
  /\ \A p \in Prims, j \in Subs :
       info.logical[(p - 1) * NR_SUB_PER_PART + j]
         = IF p < d \/ (p = d /\ j < k) THEN LogicalOf(D, p, j) ELSE NoPart

NothingIn(info, D) == InfoIs(info, D, 0, 0, 0)
AllIn(info, D) == InfoIs(info, D, NR_PART_PER_DRIVE, NR_PART_PER_DRIVE, NR_SUB_PER_PART)

InfoInv(D) ==
  /\ hd_info.open_cnt = 0 => walk.ext = 0 /\ NothingIn(hd_info, D)
  /\ walk.ext = -1 => cmd.lba = 0 /\ NothingIn(hd_info, D)
  /\ walk.ext \notin {-1, 0} =>
       /\ walk.ext \in Prims /\ D[1][walk.ext].sys = "EXT_PART"
       /\ walk.k \in Subs /\ walk.i = walk.ext /\ walk.tbl = D[1]
       /\ walk.s = Tables(D, walk.ext)[walk.k] /\ walk.s # 0 /\ cmd.lba = walk.s
       /\ InfoIs(hd_info, D, walk.ext, walk.ext, walk.k)
  /\ (walk.ext = 0 /\ hd_info.open_cnt # 0) => AllIn(hd_info, D)

\* FS sends no request but the first before the partitions are known.
OpenedInv ==
  /\ fs.pc \notin {"open", "geo"} => hd_info.open_cnt # 0 /\ walk.ext = 0
  /\ fs.pc = "geo" /\ (mbox = NoRequest \/ hd_pc = "reply") => hd_info.open_cnt # 0

\* The controller is at the sector that HD has come to.
Sent == IF hd_pc = "int" /\ cmd.command = "WRITE" THEN 1 ELSE 0

AtSector(D) ==
  /\ (hd_pc = "int" /\ Single /\ drive # Idle) => drive.lba = cmd.lba
  /\ (hd_pc \in {"bsy", "int", "drq"} /\ ~Single) =>
       /\ msg.sect \in Nat /\ msg.n \in Nat /\ left \in 1 .. msg.n
       /\ cmd.lba = Base(D) + msg.sect
       /\ hd_pc = "bsy" => left = msg.n
       /\ hd_pc # "bsy" /\ drive # Idle => drive.lba = cmd.lba + (msg.n - left) + Sent

DInv(D) == Shape(D) /\ InfoInv(D) /\ OpenedInv /\ AtSector(D)

\* Every logical partition has a number of its own.
LEMMA SubNumbers ==
  ASSUME NEW p \in Prims, NEW q \in Prims, NEW j \in Subs, NEW k \in Subs
  PROVE  /\ (p - 1) * NR_SUB_PER_PART + j \in 0 .. NR_SUB_PER_DRIVE - 1
         /\ ((p - 1) * NR_SUB_PER_PART + j = (q - 1) * NR_SUB_PER_PART + k) => (p = q /\ j = k)
<1> DEFINE N == NR_SUB_PER_PART
<1>1. /\ N \in Nat /\ N >= 1 /\ NR_PART_PER_DRIVE \in Nat
      /\ p \in Nat /\ p >= 1 /\ q \in Nat /\ q >= 1 /\ p <= NR_PART_PER_DRIVE
      /\ j \in Nat /\ k \in Nat /\ j < N /\ k < N
  BY HdAssumption DEF Prims, Subs
<1>2. ASSUME NEW x \in Nat, NEW y \in Nat, x < y PROVE x * N + N <= y * N
  <2>1. PICK z \in Nat : y = x + 1 + z
    <3>1. y - x - 1 \in Nat /\ y = x + 1 + (y - x - 1)
      BY <1>2
    <3> QED BY <3>1
  <2>2. y * N = x * N + N + z * N /\ z * N >= 0 /\ x * N \in Nat
    BY <1>1, <2>1
  <2> QED BY <1>1, <2>2
<1>3. (p - 1) * N \in Nat /\ (p - 1) * N + N <= NR_PART_PER_DRIVE * N
  BY <1>1, <1>2
<1>4. NR_SUB_PER_DRIVE = NR_PART_PER_DRIVE * N
  BY <1>1 DEF NR_SUB_PER_DRIVE
<1>5. ((p - 1) * N + j = (q - 1) * N + k) => p = q
  <2>1. p - 1 \in Nat /\ q - 1 \in Nat /\ (p - 1) * N \in Nat /\ (q - 1) * N \in Nat
    BY <1>1
  <2>2. CASE p < q
    <3>1. (p - 1) * N + N <= (q - 1) * N
      <4>1. p - 1 < q - 1
        BY <1>1, <2>2
      <4> QED BY <1>2, <2>1, <4>1
    <3> QED BY <1>1, <2>1, <3>1
  <2>3. CASE q < p
    <3>1. (q - 1) * N + N <= (p - 1) * N
      <4>1. q - 1 < p - 1
        BY <1>1, <2>3
      <4> QED BY <1>2, <2>1, <4>1
    <3> QED BY <1>1, <2>1, <3>1
  <2> QED BY <1>1, <2>2, <2>3
<1>6. NR_PART_PER_DRIVE * N \in Nat /\ NR_SUB_PER_DRIVE \in Nat
  BY <1>1, <1>4
<1> QED BY <1>1, <1>3, <1>4, <1>5, <1>6

\* A primary partition that is not extended has no logical ones.
LEMMA NoLogical ==
  ASSUME NEW D, NEW p, NEW k, D[1][p].sys # "EXT_PART"
  PROVE  LogicalOf(D, p, k) = NoPart
BY DEF LogicalOf, Chained

\* partition(P_PRIMARY) goes on at entry i, with all that is before it read:

\* to the next extended partition, or to the end.
LEMMA RoundInfo ==
  ASSUME NEW D, DiskFits(D), NEW i \in 0 .. NR_PART_PER_DRIVE,
         NEW info, InfoIs(info, D, i, i, NR_SUB_PER_PART), info.open_cnt # 0,
         NEW tbl, tbl = D[1],
         PrimaryRound(info, tbl, i)
  PROVE  InfoInv(D)' /\ hd_info'.open_cnt # 0
<1> DEFINE E == Extended(tbl, i)
           N == NR_SUB_PER_PART
           M == NR_PART_PER_DRIVE
<1>0. M \in Nat \ {0} /\ N \in Nat \ {0}
  BY HdAssumption
<1>1. \A x \in Entries : x \in E <=> x >= i /\ D[1][x + 1].sys = "EXT_PART"
  BY DEF Extended
<1>2. \A p \in Prims : p - 1 \in Entries /\ p \in Nat
  BY <1>0 DEF Prims, Entries
<1>3. ASSUME NEW e \in i - 1 .. M - 1, NEW j \in {0, N},
             \A p \in Prims : i < p /\ p <= e => D[1][p].sys # "EXT_PART",
             \/ j = 0 /\ i <= e
             \/ j = N /\ \A p \in Prims : i < p => D[1][p].sys # "EXT_PART"
      PROVE  InfoIs([info EXCEPT !.primary = Filled(@, tbl, i, e)], D, e + 1, e + 1, j)
  <2> DEFINE prim == Filled(info.primary, tbl, i, e)
             new == [info EXCEPT !.primary = Filled(@, tbl, i, e)]
  <2>1. new = [open_cnt |-> info.open_cnt, primary |-> prim, logical |-> info.logical]
    <3>1. info = [open_cnt |-> info.open_cnt, primary |-> info.primary, logical |-> info.logical]
      BY DEF InfoIs
    <3> HIDE DEF prim
    <3>2. new = [info EXCEPT !.primary = prim]
      BY DEF prim
    <3> QED BY <3>1, <3>2
  <2>2. DOMAIN info.primary = 0 .. M
    BY DEF InfoIs
  <2>3. \A p \in 0 .. M : prim[p] = IF p - 1 \in i .. e /\ D[1][p].sys # "NO_PART"
                                    THEN [base |-> D[1][p].start, size |-> D[1][p].size]
                                    ELSE info.primary[p]
    BY <2>2 DEF Filled
  <2>4. prim = [p \in 0 .. M |-> prim[p]]
    BY <2>2 DEF Filled
  <2> HIDE DEF prim
  <2>5. i \in Nat /\ e \in Int /\ e <= M - 1 /\ i - 1 <= e /\ Prims \subseteq 0 .. M /\ Prims \subseteq Nat
    BY <1>0 DEF Prims
  <2>6. ASSUME NEW p \in Prims PROVE prim[p] = IF p <= e + 1 THEN PrimaryOf(D, p) ELSE NoPart
    <3>1. info.primary[p] = IF p <= i THEN PrimaryOf(D, p) ELSE NoPart
      BY DEF InfoIs
    <3>2. p - 1 \in i .. e <=> i < p /\ p <= e + 1
      BY <2>5
    <3> QED BY <2>3, <2>5, <3>1, <3>2 DEF PrimaryOf
  <2>7. ASSUME NEW p \in Prims, NEW k \in Subs
        PROVE  info.logical[(p - 1) * N + k]
                 = IF p < e + 1 \/ (p = e + 1 /\ k < j) THEN LogicalOf(D, p, k) ELSE NoPart
    <3>1. info.logical[(p - 1) * N + k]
            = IF p < i \/ (p = i /\ k < N) THEN LogicalOf(D, p, k) ELSE NoPart
      BY DEF InfoIs
    <3>2. k < N /\ k \in Nat
      BY <1>0 DEF Subs
    <3>3. CASE p <= i /\ (p < e + 1 \/ j = N)
      BY <2>5, <3>1, <3>2, <3>3
    <3>4. CASE p <= i /\ ~(p < e + 1 \/ j = N)
      BY <1>3, <2>5, <3>4
    <3>5. CASE i < p /\ (p <= e \/ (p = e + 1 /\ j = N))
      <4>1. D[1][p].sys # "EXT_PART"
        BY <1>0, <1>3, <2>5, <3>5
      <4>2. LogicalOf(D, p, k) = NoPart
        BY <4>1, NoLogical
      <4> QED BY <2>5, <3>1, <3>5, <4>2
    <3>6. CASE i < p /\ p = e + 1 /\ j = 0
      BY <2>5, <3>1, <3>2, <3>6
    <3>7. CASE i < p /\ e + 1 < p
      BY <2>5, <3>1, <3>7
    <3> QED BY <2>5, <3>3, <3>4, <3>5, <3>6, <3>7
  <2> QED BY <2>1, <2>4, <2>6, <2>7 DEF InfoIs
<1>4. CASE E = {}
  <2>1. /\ hd_info' = [info EXCEPT !.primary = Filled(@, tbl, i, M - 1)]
        /\ walk' = NoWalk
    BY <1>4 DEF PrimaryRound
  <2>2. \A p \in Prims : i < p => D[1][p].sys # "EXT_PART"
    BY <1>1, <1>2, <1>4
  <2>3. M - 1 \in i - 1 .. M - 1 /\ (M - 1) + 1 = M
    BY <1>0
  <2>4. AllIn(hd_info, D)'
    BY <1>3, <2>1, <2>2, <2>3 DEF AllIn
  <2>5. hd_info'.open_cnt # 0
    BY <2>1 DEF InfoIs
  <2> QED BY <2>1, <2>4, <2>5 DEF InfoInv, NoWalk
<1>5. CASE E # {}
  <2> DEFINE e == FirstOf(E)
             s == tbl[e + 1].start
  <2>1. E \in SUBSET Nat
    BY <1>0 DEF Extended, Entries
  <2>2. e \in E /\ \A f \in E : e <= f
    BY <1>5, <2>1, FirstExists
  <2>3. /\ hd_info' = [info EXCEPT !.primary = Filled(@, tbl, i, e)]
        /\ walk' = [ext |-> e + 1, k |-> 0, s |-> s, i |-> e + 1, tbl |-> tbl]
        /\ cmd'.lba = s
    BY <1>5 DEF PrimaryRound, Begin
  <2> HIDE DEF E, e, s
  <2>4. e \in Entries /\ e \in Nat /\ e >= i /\ D[1][e + 1].sys = "EXT_PART"
    BY <1>1, <2>1, <2>2 DEF E, Extended
  <2>5. e \in i - 1 .. M - 1 /\ i <= e /\ e + 1 \in Prims /\ e + 1 \in Nat /\ e + 1 >= 1
    BY <1>0, <2>4 DEF Entries, Prims
  <2>6. \A p \in Prims : i < p /\ p <= e => D[1][p].sys # "EXT_PART"
    <3> SUFFICES ASSUME NEW p \in Prims, i < p, p <= e, D[1][p].sys = "EXT_PART" PROVE FALSE
      OBVIOUS
    <3>1. p - 1 \in E
      BY <1>1, <1>2, <1>0
    <3> QED BY <1>2, <2>2, <2>4, <3>1
  <2>7. InfoIs(hd_info, D, e + 1, e + 1, 0)'
    BY <1>3, <2>3, <2>5, <2>6
  <2>8. s = Tables(D, e + 1)[0] /\ s # 0
    BY <2>4, <2>5, ChainGoesOn DEF s
  <2>9. hd_info'.open_cnt # 0
    BY <2>3 DEF InfoIs
  <2>10. 0 \in Subs
    BY <1>0 DEF Subs
  <2> QED BY <2>3, <2>4, <2>5, <2>7, <2>8, <2>9, <2>10 DEF InfoInv
<1> QED BY <1>4, <1>5

\* What the steps do to the tables, that do not read any.
LEMMA InfoStays ==
  ASSUME NEW D, InfoInv(D), UNCHANGED <<walk, hd_info>>, walk.ext # 0 => cmd'.lba = cmd.lba
  PROVE  InfoInv(D)'
BY DEF InfoInv, NothingIn, AllIn, InfoIs

\* The tables are where they were on D.
LEMMA TableThere ==
  ASSUME NEW D, DiskFits(D), Shape(D), NEW s \in TableSects(D)
  PROVE  disk[s + 1] = D[s + 1]
<1>1. s + 1 \in DOMAIN D /\ s \notin RootSects(D)
  BY DEF DiskFits
<1>2. s \in Nat
  <2>1. CASE s = 0
    BY <2>1
  <2>2. CASE s # 0
    <3>1. PICK d \in Prims, k \in Subs : s = Chained(D, d, k)
      BY <2>2 DEF TableSects, Prims, Subs
    <3> QED BY <2>2, <3>1, ChainGoesOn DEF Chained
  <2> QED BY <2>1, <2>2
<1>3. (s + 1) - 1 = s
  BY <1>2
<1> QED BY <1>1, <1>3 DEF Shape

\* hd_identify says that the drive is open, and nothing of its partitions.
LEMMA IdentifiedInfo ==
  ASSUME NEW D, HInv, InfoInv(D), Identified
  PROVE  InfoInv(D)' /\ hd_info'.open_cnt # 0
<1>1. walk.ext = 0 /\ hd_info' = [hd_info EXCEPT !.primary[0] = [base |-> 0, size |-> Len(disk)],
                                                 !.open_cnt = @ + 1]
  <2>1. hd_pc = "int" /\ cmd.command = "IDENTIFY"
    BY DEF Identified, Answers, Interrupted
  <2> QED BY <2>1 DEF HInv, Walking, Identified
<1>2. ASSUME NEW e, NEW d, NEW k, InfoIs(hd_info, D, e, d, k)
      PROVE  InfoIs(hd_info, D, e, d, k)' /\ hd_info'.open_cnt # 0
  <2> DEFINE prim == [hd_info.primary EXCEPT ![0] = [base |-> 0, size |-> Len(disk)]]
             x == [base |-> 0, size |-> Len(disk)]
  <2> HIDE DEF x
  <2>1. hd_info = [open_cnt |-> hd_info.open_cnt, primary |-> hd_info.primary,
                   logical |-> hd_info.logical] /\ hd_info.open_cnt \in Nat
    BY <1>2 DEF InfoIs
  <2>2. hd_info' = [open_cnt |-> hd_info.open_cnt + 1, primary |-> prim,
                    logical |-> hd_info.logical]
    BY <1>1, <2>1
  <2>3. prim = [p \in 0 .. NR_PART_PER_DRIVE |-> prim[p]] /\ \A p \in Prims : prim[p] = hd_info.primary[p]
    <3>1. hd_info.primary = [p \in 0 .. NR_PART_PER_DRIVE |-> hd_info.primary[p]]
      BY <1>2 DEF InfoIs
    <3>2. DOMAIN prim = 0 .. NR_PART_PER_DRIVE /\ \A p \in Prims : p # 0
      BY <3>1 DEF Prims
    <3>3. \A p \in Prims : p \in 0 .. NR_PART_PER_DRIVE
      BY HdAssumption DEF Prims
    <3> QED BY <3>1, <3>2, <3>3
  <2> HIDE DEF prim
  <2>4. hd_info'.open_cnt \in Nat /\ hd_info'.open_cnt # 0
    BY <2>1, <2>2
  <2> QED BY <1>2, <2>2, <2>3, <2>4 DEF InfoIs
<1>3. CASE hd_info.open_cnt = 0
  <2>1. walk'.ext = -1 /\ cmd'.lba = 0
    BY <1>3 DEF Identified, NoWalk, Begin
  <2>2. NothingIn(hd_info, D)
    BY <1>3 DEF InfoInv
  <2>3. NothingIn(hd_info, D)' /\ hd_info'.open_cnt # 0
    BY <1>2, <2>2 DEF NothingIn
  <2> QED BY <2>1, <2>3 DEF InfoInv
<1>4. CASE hd_info.open_cnt # 0
  <2>1. walk' = walk
    BY <1>4 DEF Identified
  <2>2. AllIn(hd_info, D)
    BY <1>1, <1>4 DEF InfoInv
  <2>3. AllIn(hd_info, D)' /\ hd_info'.open_cnt # 0
    BY <1>2, <2>2 DEF AllIn
  <2> QED BY <1>1, <2>1, <2>3 DEF InfoInv
<1> QED BY <1>3, <1>4

\* HD reads the table it wants.
LEMMA TableIsRead ==
  ASSUME NEW D, DiskFits(D), HInv, Shape(D), AtSector(D), walk.ext # 0, Answers("READ"), DataRead,
         cmd.lba \in TableSects(D)
  PROVE  disk[drive.lba + 1] = D[cmd.lba + 1]
<1>1. hd_pc = "int" /\ drive.st = "drq"
  BY AnswerEffect
<1>2. drive # Idle
  BY <1>1 DEF Idle
<1>3. drive.lba = cmd.lba
  BY <1>1, <1>2 DEF AtSector, Single
<1> QED BY <1>3, TableThere

\* partition() begins with the table of the drive.
LEMMA PrimaryTableInfo ==
  ASSUME NEW D, DiskFits(D), HInv, Shape(D), AtSector(D), InfoInv(D), PrimaryTable
  PROVE  InfoInv(D)' /\ hd_info'.open_cnt # 0
<1>1. walk.ext = -1 /\ Answers("READ") /\ DataRead /\ PrimaryRound(hd_info, disk[drive.lba + 1], 0)
  BY DEF PrimaryTable
<1>2. cmd.lba = 0 /\ NothingIn(hd_info, D) /\ hd_info.open_cnt # 0
  BY <1>1 DEF InfoInv
<1>3. disk[drive.lba + 1] = D[1]
  BY <1>1, <1>2, TableIsRead DEF TableSects
<1>4. InfoIs(hd_info, D, 0, 0, NR_SUB_PER_PART)
  <2>1. \A p \in Prims : ~(p < 0) /\ p # 0 /\ ~(p <= 0)
    BY DEF Prims
  <2> QED BY <1>2, <2>1 DEF NothingIn, InfoIs
<1>5. 0 \in 0 .. NR_PART_PER_DRIVE
  BY HdAssumption
<1> QED BY <1>1, <1>2, <1>3, <1>4, <1>5, RoundInfo

\* One logical partition more is known.
LEMMA LogicalAdded ==
  ASSUME NEW D, NEW info, NEW d \in Prims, NEW k \in Subs, InfoIs(info, D, d, d, k)
  PROVE  InfoIs([info EXCEPT !.logical[(d - 1) * NR_SUB_PER_PART + k] = LogicalOf(D, d, k)],
                D, d, d, k + 1)
<1> DEFINE N == NR_SUB_PER_PART
           j == (d - 1) * N + k
           x == LogicalOf(D, d, k)
           log == [info.logical EXCEPT ![j] = x]
           new == [info EXCEPT !.logical[j] = x]
<1>1. /\ info = [open_cnt |-> info.open_cnt, primary |-> info.primary, logical |-> info.logical]
      /\ info.logical = [i \in 0 .. NR_SUB_PER_DRIVE - 1 |-> info.logical[i]]
  BY DEF InfoIs
<1>2. j \in 0 .. NR_SUB_PER_DRIVE - 1
  BY SubNumbers
<1>3. new = [open_cnt |-> info.open_cnt, primary |-> info.primary, logical |-> log]
  <2> HIDE DEF j, x
  <2>1. new = [info EXCEPT !.logical = log]
    OBVIOUS
  <2> HIDE DEF log, new
  <2> QED BY <1>1, <2>1
<1>4. /\ log = [i \in 0 .. NR_SUB_PER_DRIVE - 1 |-> log[i]]
      /\ log[j] = x /\ \A i \in 0 .. NR_SUB_PER_DRIVE - 1 : i # j => log[i] = info.logical[i]
  <2> HIDE DEF j, x
  <2> QED BY <1>1, <1>2
<1> HIDE DEF log, new
<1>5. ASSUME NEW p \in Prims, NEW i \in Subs
      PROVE  log[(p - 1) * N + i]
               = IF p < d \/ (p = d /\ i < k + 1) THEN LogicalOf(D, p, i) ELSE NoPart
  <2>1. info.logical[(p - 1) * N + i]
          = IF p < d \/ (p = d /\ i < k) THEN LogicalOf(D, p, i) ELSE NoPart
    BY DEF InfoIs
  <2>2. CASE p = d /\ i = k
    <3>1. ~(p < d) /\ i < k + 1
      BY <2>2, HdAssumption DEF Prims, Subs
    <3> QED BY <1>4, <2>2, <3>1
  <2>3. CASE ~(p = d /\ i = k)
    <3>1. (p - 1) * N + i # j /\ (p - 1) * N + i \in 0 .. NR_SUB_PER_DRIVE - 1
      BY <2>3, SubNumbers
    <3>2. p = d => (i < k <=> i < k + 1)
      BY <2>3, HdAssumption DEF Subs
    <3> HIDE DEF j
    <3> QED BY <1>4, <2>1, <3>1, <3>2
  <2> QED BY <2>2, <2>3
<1>6. /\ info.open_cnt \in Nat
      /\ info.primary = [p \in 0 .. NR_PART_PER_DRIVE |-> info.primary[p]]
      /\ \A p \in Prims : info.primary[p] = IF p <= d THEN PrimaryOf(D, p) ELSE NoPart
  BY DEF InfoIs
<1>7. InfoIs(new, D, d, d, k + 1)
  BY <1>3, <1>4, <1>5, <1>6 DEF InfoIs
<1> QED BY <1>7 DEF new

\* After the last table of a chain nothing is missing.
LEMMA ChainDone ==
  ASSUME NEW D, DiskFits(D), NEW info, NEW d \in Prims, NEW k \in Subs,
         D[1][d].sys = "EXT_PART", InfoIs(info, D, d, d, k + 1),
         k + 1 \notin Subs \/ Tables(D, d)[k + 1] = 0
  PROVE  InfoIs(info, D, d, d, NR_SUB_PER_PART)
<1> DEFINE N == NR_SUB_PER_PART
<1>1. N \in Nat /\ k \in Nat /\ \A i \in Subs : i \in Nat /\ i < N
  BY HdAssumption DEF Subs
<1>2. ASSUME NEW p \in Prims, NEW i \in Subs
      PROVE  info.logical[(p - 1) * N + i]
               = IF p < d \/ (p = d /\ i < N) THEN LogicalOf(D, p, i) ELSE NoPart
  <2>1. info.logical[(p - 1) * N + i]
          = IF p < d \/ (p = d /\ i < k + 1) THEN LogicalOf(D, p, i) ELSE NoPart
    BY DEF InfoIs
  <2>2. CASE ~(p = d /\ i >= k + 1)
    <3>1. i \in Nat /\ i < N /\ k \in Nat
      BY <1>1
    <3>2. p = d => i < k + 1
      BY <2>2, <3>1
    <3> HIDE DEF N
    <3> QED BY <2>1, <3>1, <3>2
  <2>3. CASE p = d /\ i >= k + 1
    <3>1. k + 1 \in Subs
      BY <1>1, <2>3 DEF Subs
    <3>2. k + 1 \in Nat /\ k + 1 <= i /\ i \in Nat
      BY <1>1, <2>3
    <3>3. Tables(D, d)[i] = 0
      BY <3>1, <3>2, ChainEnds
    <3>4. LogicalOf(D, p, i) = NoPart
      BY <2>3, <3>3 DEF LogicalOf, Chained
    <3> QED BY <1>1, <2>1, <2>3, <3>4
  <2> QED BY <2>2, <2>3
<1> QED BY <1>2 DEF InfoIs

\* partition() follows the chain of an extended partition.
LEMMA ExtendedTableInfo ==
  ASSUME NEW D, DiskFits(D), HInv, Shape(D), AtSector(D), InfoInv(D), ExtendedTable
  PROVE  InfoInv(D)' /\ hd_info'.open_cnt # 0
<1> DEFINE d == walk.ext
           k == walk.k
           N == NR_SUB_PER_PART
           t == D[walk.s + 1]
           info == [hd_info EXCEPT !.logical[(d - 1) * N + k] =
                      [base |-> walk.s + t[1].start, size |-> t[1].size]]
<1>1. d > 0 /\ Answers("READ") /\ DataRead
  BY DEF ExtendedTable
<1>2. d \notin {-1, 0}
  BY <1>1
<1>3. /\ d \in Prims /\ D[1][d].sys = "EXT_PART" /\ k \in Subs /\ walk.i = d /\ walk.tbl = D[1]
      /\ walk.s = Tables(D, d)[k] /\ walk.s # 0 /\ cmd.lba = walk.s
      /\ InfoIs(hd_info, D, d, d, k) /\ hd_info.open_cnt # 0
  BY <1>2 DEF InfoInv
<1>4. walk.s \in TableSects(D)
  BY <1>3, ChainGoesOn
<1>5. disk[drive.lba + 1] = t
  BY <1>1, <1>2, <1>3, <1>4, TableIsRead
<1>6. IF t[2].sys = "NO_PART" \/ k = N - 1
      THEN PrimaryRound(info, walk.tbl, walk.i)
      ELSE /\ hd_info' = info
           /\ walk' = [walk EXCEPT !.k = @ + 1, !.s = NextTable(t)]
           /\ Begin("READ", NextTable(t), 1)
  BY <1>5 DEF ExtendedTable
<1>7. LogicalOf(D, d, k) = [base |-> walk.s + t[1].start, size |-> t[1].size]
  BY <1>3 DEF LogicalOf, Chained
<1>8. InfoIs(info, D, d, d, k + 1)
  BY <1>3, <1>7, LogicalAdded
<1>9. info.open_cnt # 0
  BY <1>3 DEF InfoIs
<1>10. k \in Nat /\ N \in Nat /\ (k + 1 \notin Subs <=> k = N - 1)
  BY <1>3, HdAssumption DEF Subs
<1>11. k + 1 \in Subs => IF t[2].sys = "NO_PART" THEN Tables(D, d)[k + 1] = 0
                         ELSE /\ Tables(D, d)[k + 1] = D[1][d].start + t[2].start
                              /\ Tables(D, d)[k + 1] # 0
  BY <1>3, ChainGoesOn
<1> HIDE DEF info, t
<1>12. CASE t[2].sys = "NO_PART" \/ k = N - 1
  <2>1. InfoIs(info, D, d, d, N)
    BY <1>3, <1>8, <1>10, <1>11, <1>12, ChainDone
  <2>2. d \in 0 .. NR_PART_PER_DRIVE
    BY <1>3, HdAssumption DEF Prims
  <2>3. PrimaryRound(info, D[1], d)
    BY <1>3, <1>6, <1>12
  <2> QED BY <1>9, <2>1, <2>2, <2>3, RoundInfo
<1>13. CASE ~(t[2].sys = "NO_PART" \/ k = N - 1)
  <2>1. /\ hd_info' = info
        /\ walk' = [walk EXCEPT !.k = @ + 1, !.s = NextTable(t)]
        /\ cmd'.lba = NextTable(t)
    BY <1>6, <1>13 DEF Begin
  <2>2. walk' = [ext |-> d, k |-> k + 1, s |-> NextTable(t), i |-> walk.i, tbl |-> walk.tbl]
    BY <2>1 DEF HInv, HdTypeInv
  <2>3. hd_info.primary[d] = PrimaryOf(D, d)
    <3>1. d <= d
      BY <1>3, HdAssumption DEF Prims
    <3> QED BY <1>3, <3>1 DEF InfoIs
  <2>4. NextTable(t) = D[1][d].start + t[2].start
    BY <1>3, <2>3 DEF NextTable, PrimaryOf
  <2>5. NextTable(t) = Tables(D, d)[k + 1] /\ NextTable(t) # 0 /\ k + 1 \in Subs
    BY <1>10, <1>11, <1>13, <2>4
  <2>6. InfoIs(hd_info', D, d, d, k + 1)
    BY <1>8, <2>1
  <2> QED BY <1>2, <1>3, <1>9, <2>1, <2>2, <2>5, <2>6 DEF InfoInv
<1> QED BY <1>12, <1>13

-----------------------------------------------------------------------------
(* Where HD reads and writes.                                              *)

\* The device is one of the partitions that HD knows.
RootKnown == ROOT_DEV \in Prims \/ ROOT_DEV >= MINOR_hd1a

\* What HD knows under ROOT_DEV is the partition of the file system.
LEMMA RootFound ==
  ASSUME NEW D, DiskFits(D), RootKnown, NEW info, AllIn(info, D)
  PROVE  PartOf(info, ROOT_DEV) = RootPart(D) /\ Base(D) \in Nat
<1> DEFINE N == NR_SUB_PER_PART
           M == NR_PART_PER_DRIVE
           i == (ROOT_DEV - MINOR_hd1a) % NR_SUB_PER_DRIVE
<1>1. /\ N \in Nat \ {0} /\ M \in Nat \ {0} /\ NR_SUB_PER_DRIVE = N * M /\ ROOT_DEV \in Nat
      /\ MAX_PRIM = 2 * (M + 1) - 1 /\ MINOR_hd1a \in Nat /\ MINOR_hd1a > 2 * (M + 1)
  BY HdAssumption, FsRdwtAssumption DEF NR_SUB_PER_DRIVE, MAX_PRIM, NR_PRIM_PER_DRIVE
<1>2. CASE ROOT_DEV \in Prims
  <2>1. ROOT_DEV < MAX_PRIM /\ ROOT_DEV <= M
    BY <1>1, <1>2 DEF Prims
  <2> QED BY <1>2, <2>1 DEF PartOf, RootPart, AllIn, InfoIs, Base, DiskFits
<1>3. CASE ROOT_DEV >= MINOR_hd1a
  <2>1. ~(ROOT_DEV < MAX_PRIM)
    BY <1>1, <1>3
  <2>2. N * M \in Nat \ {0}
    BY <1>1
  <2>3. i \in Nat /\ i < N * M
    <3>1. ROOT_DEV - MINOR_hd1a \in Int
      BY <1>1
    <3> QED BY <1>1, <2>2, <3>1
  <2> HIDE DEF i
  <2>4. (i \div N) \in Nat /\ (i % N) \in 0 .. N - 1 /\ i = N * (i \div N) + (i % N)
    BY <1>1, <2>3
  <2> DEFINE q == i \div N
             k == i % N
  <2>5. q < M
    <3> HIDE DEF q, k
    <3>1. SUFFICES ASSUME q >= M PROVE FALSE
      BY <1>1, <2>4 DEF q
    <3>2. q \in Nat /\ N * q >= N * M
      <4>1. q \in Nat
        BY <2>4 DEF q
      <4>2. PICK z \in Nat : q = M + z
        <5>1. q - M \in Nat /\ q = M + (q - M)
          BY <1>1, <3>1, <4>1
        <5> QED BY <5>1
      <4>3. N * q = N * M + N * z /\ N * z \in Nat
        BY <1>1, <4>2
      <4> QED BY <2>2, <4>1, <4>3
    <3>3. i = N * q + k /\ k \in Nat
      BY <1>1, <2>4 DEF q, k
    <3>4. N * q \in Nat
      BY <1>1, <3>2
    <3> QED BY <2>2, <2>3, <3>2, <3>3, <3>4
  <2>6. q + 1 \in Prims /\ k \in Subs /\ ((q + 1) - 1) * N + k = i /\ q + 1 <= M
    <3>1. q \in Nat /\ q + 1 \in Prims /\ k \in Subs /\ (q + 1) - 1 = q
      BY <1>1, <2>4, <2>5 DEF Prims, Subs
    <3>2. q * N = N * q
      BY <1>1, <3>1
    <3> QED BY <1>1, <2>4, <2>5, <3>1, <3>2
  <2> HIDE DEF q, k
  <2>7. info.logical[i] = LogicalOf(D, q + 1, k)
    <3>1. q + 1 < M \/ (q + 1 = M /\ k < N)
      BY <1>1, <2>6 DEF Prims, Subs
    <3>2. info.logical[((q + 1) - 1) * N + k]
            = IF q + 1 < M \/ (q + 1 = M /\ k < N) THEN LogicalOf(D, q + 1, k) ELSE NoPart
      BY <2>6 DEF AllIn, InfoIs
    <3> QED BY <2>6, <3>1, <3>2
  <2>8. PartOf(info, ROOT_DEV) = info.logical[i] /\ RootPart(D) = LogicalOf(D, q + 1, k)
    BY <2>1 DEF PartOf, RootPart, i, q, k
  <2> QED BY <2>7, <2>8 DEF Base, DiskFits
<1> QED BY <1>2, <1>3 DEF RootKnown

\* The requests for sectors that FS sends.
LEMMA RequestIs ==
  ASSUME FsInv, mbox # NoRequest, mbox.type \in {"DEV_READ", "DEV_WRITE"}
  PROVE  /\ fs.pc \notin {"open", "geo"}
         /\ mbox.dev = ROOT_DEV /\ mbox.sect \in Nat /\ mbox.n \in Nat \ {0}
         /\ mbox.type = "DEV_WRITE" =>
              \A j \in 0 .. mbox.n - 1 :
                mbox.sect + j \in {InodeSect} \cup (StartSect .. StartSect + NrSects + FsBufSects - 1)
<1>1. fs.pc \in {"move", "written", "sync", "synced"}
  BY DEF FsInv, FsMailbox, FsPlaces, Asked, Request
<1>2. CASE fs.pc \in {"move", "written"}
  <2>1. /\ fs.i \in Nat /\ fs.i >= StartSect /\ fs.i <= fs.max /\ fs.max \in Nat
        /\ fs.chunk \in 1 .. FsBufSects /\ FsBufSects \in Nat /\ StartSect \in Nat /\ NrSects \in Nat
        /\ fs.pc = "written" => fs.max <= StartSect + NrSects
    BY <1>2, HdAssumption, FsRdwtAssumption DEF FsInv, FsNumbers
  <2>2. mbox.dev = ROOT_DEV /\ mbox.sect = fs.i /\ mbox.n = fs.chunk
        /\ (mbox.type = "DEV_WRITE" => fs.pc = "written")
    BY <1>2 DEF FsInv, FsMailbox, Asked, Request
  <2>3. ASSUME fs.pc = "written", NEW j \in 0 .. fs.chunk - 1
        PROVE  fs.i + j \in StartSect .. StartSect + NrSects + FsBufSects - 1
    BY <2>1, <2>3
  <2> QED BY <1>2, <2>1, <2>2, <2>3
<1>3. CASE fs.pc \in {"sync", "synced"}
  <2>1. mbox.dev = ROOT_DEV /\ mbox.sect = InodeSect /\ mbox.n = 1 /\ InodeSect \in Nat
    BY <1>3, FsRdwtAssumption DEF FsInv, FsMailbox, Asked, Request
  <2>2. \A j \in 0 .. 1 - 1 : InodeSect + j = InodeSect
    BY <2>1
  <2> QED BY <1>3, <2>1, <2>2
<1> QED BY <1>1, <1>2, <1>3

\* Begin of a command for one sector of a table, or none: HD is not at sectors

\* of FS.
LEMMA NotAtSector ==
  ASSUME NEW D, hd_pc' \notin {"bsy", "int", "drq"} \/ (hd_pc' = "bsy" /\ Single')
  PROVE  AtSector(D)'
BY DEF AtSector

\* HD computes the sector of the disk.
LEMMA RdwtBegins ==
  ASSUME NEW D, DiskFits(D), RootKnown, HInv, FsInv, InfoInv(D), OpenedInv, HdRdwt
  PROVE  AtSector(D)'
<1>1. /\ hd_pc \in {"DEV_READ", "DEV_WRITE"} /\ hd_pc' = "bsy" /\ left' = msg.n
      /\ cmd'.lba = Sector /\ UNCHANGED <<msg, drive, walk>>
  BY DEF HdRdwt, Begin
<1>2. msg = mbox /\ mbox # NoRequest /\ mbox.type = hd_pc
  BY <1>1 DEF FsInv, ServeInv, Kinds
<1>3. fs.pc \notin {"open", "geo"} /\ msg.dev = ROOT_DEV /\ msg.sect \in Nat /\ msg.n \in Nat \ {0}
  BY <1>1, <1>2, RequestIs
<1>4. AllIn(hd_info, D)
  BY <1>3 DEF OpenedInv, InfoInv
<1>5. PartOf(hd_info, ROOT_DEV).base = Base(D) /\ Base(D) \in Nat
  BY <1>4, RootFound DEF Base
<1>6. cmd'.lba = Base(D) + msg.sect
  BY <1>1, <1>3, <1>5 DEF Sector
<1>7. CASE Single'
  BY <1>1, <1>7, NotAtSector
<1>8. CASE ~Single'
  BY <1>1, <1>3, <1>6, <1>8 DEF AtSector
<1> QED BY <1>7, <1>8

\* The steps of HD at the sectors of FS.
LEMMA SectorsKept ==
  ASSUME NEW D, Base(D) \in Nat, HInv, AtSector(D),
         CommandOut \/ SectorRead \/ PortWrite \/ SectorWritten
  PROVE  AtSector(D)'
<1>1. CASE CommandOut
  <2>1. /\ hd_pc = "bsy" /\ drive'.lba = cmd.lba /\ UNCHANGED <<msg, left, cmd, walk>>
        /\ hd_pc' = IF cmd.command = "WRITE" THEN "drq" ELSE "int"
    BY <1>1 DEF CommandOut
  <2>2. CASE Single
    BY <2>1, <2>2 DEF AtSector, Single
  <2>3. CASE ~Single
    <3>1. msg.sect \in Nat /\ msg.n \in Nat /\ left = msg.n /\ left \in 1 .. msg.n
          /\ cmd.lba = Base(D) + msg.sect
      BY <2>1, <2>3 DEF AtSector
    <3>2. cmd.lba = cmd.lba + (msg.n - left) + 0
      BY <3>1
    <3>3. Sent' = 0
      BY <2>1 DEF Sent
    <3> QED BY <2>1, <2>3, <3>1, <3>2, <3>3 DEF AtSector, Single
  <2> QED BY <2>2, <2>3
<1>2. CASE SectorRead
  <2>1. /\ hd_pc = "int" /\ cmd.command = "READ" /\ drive.st = "drq" /\ walk.ext = 0
        /\ drive' = Idle \/ drive'.lba = drive.lba + 1
        /\ left' = left - 1 /\ hd_pc' = NextPc /\ UNCHANGED <<msg, cmd, walk>>
    BY <1>2, AnswerEffect DEF SectorRead
  <2>2. ~Single /\ ~Single' /\ Sent = 0 /\ Sent' = 0
    BY <2>1 DEF Single, Sent
  <2>3. /\ msg.sect \in Nat /\ msg.n \in Nat /\ left \in 1 .. msg.n
        /\ cmd.lba = Base(D) + msg.sect /\ drive.lba = cmd.lba + (msg.n - left) + 0
    BY <2>1, <2>2 DEF AtSector, Idle
  <2>4. CASE left = 1
    BY <2>1, <2>4, NotAtSector DEF NextPc
  <2>5. CASE left # 1
    <3>1. left - 1 \in 1 .. msg.n
      BY <2>3, <2>5
    <3>2. drive' # Idle => drive'.lba = cmd.lba + (msg.n - (left - 1)) + 0
      BY <2>1, <2>3
    <3>3. hd_pc' = "int"
      BY <2>1, <2>5 DEF NextPc
    <3> QED BY <2>1, <2>2, <2>3, <3>1, <3>2, <3>3 DEF AtSector
  <2> QED BY <2>4, <2>5
<1>3. CASE PortWrite
  <2>1. /\ hd_pc = "drq" /\ drive.st = "drq" /\ hd_pc' = "int"
        /\ drive' = [drive EXCEPT !.st = "bsy", !.left = @ - 1, !.lba = @ + 1]
        /\ UNCHANGED <<msg, left, cmd, walk>>
    BY <1>3 DEF PortWrite
  <2>2. cmd.command = "WRITE" /\ walk.ext = 0 /\ drive'.lba = drive.lba + 1
    BY <2>1 DEF HInv, Requesting, Walking, HdTypeInv
  <2>3. ~Single /\ ~Single' /\ Sent = 0 /\ Sent' = 1
    BY <2>1, <2>2 DEF Single, Sent
  <2>4. /\ msg.sect \in Nat /\ msg.n \in Nat /\ left \in 1 .. msg.n
        /\ cmd.lba = Base(D) + msg.sect /\ drive.lba = cmd.lba + (msg.n - left) + 0
    BY <2>1, <2>3 DEF AtSector, Idle
  <2>5. drive'.lba = cmd.lba + (msg.n - left) + 1
    BY <2>2, <2>4
  <2> QED BY <2>1, <2>3, <2>4, <2>5 DEF AtSector
<1>4. CASE SectorWritten
  <2>1. /\ hd_pc = "int" /\ cmd.command = "WRITE" /\ left' = left - 1
        /\ hd_pc' = IF left = 1 THEN "reply" ELSE "drq"
        /\ UNCHANGED <<msg, cmd, walk, drive>>
    BY <1>4 DEF SectorWritten, Answers, Interrupted
  <2>2. walk.ext = 0
    BY <2>1 DEF HInv, Walking
  <2>3. ~Single /\ ~Single' /\ Sent = 1 /\ Sent' = 0
    BY <2>1, <2>2 DEF Single, Sent
  <2>4. /\ msg.sect \in Nat /\ msg.n \in Nat /\ left \in 1 .. msg.n
        /\ cmd.lba = Base(D) + msg.sect
        /\ drive # Idle => drive.lba = cmd.lba + (msg.n - left) + 1
    BY <2>1, <2>3 DEF AtSector
  <2>5. CASE left = 1
    BY <2>1, <2>5, NotAtSector
  <2>6. CASE left # 1
    <3>1. left - 1 \in 1 .. msg.n
      BY <2>4, <2>6
    <3>2. drive # Idle => drive.lba = cmd.lba + (msg.n - (left - 1)) + 0
      BY <2>4
    <3> QED BY <2>1, <2>3, <2>4, <2>6, <3>1, <3>2 DEF AtSector
  <2> QED BY <2>5, <2>6
<1> QED BY <1>1, <1>2, <1>3, <1>4

\* What is written is a sector that FS may write.
LEMMA WrittenAt ==
  ASSUME NEW D, DiskFits(D), HInv, FsInv, AtSector(D), PortWrite
  PROVE  /\ drive.lba = Base(D) + (msg.sect + (msg.n - left)) /\ left \in 1 .. msg.n
         /\ msg.n \in Nat /\ msg.sect \in Nat /\ msg = mbox /\ msg.type = "DEV_WRITE"
         /\ mbox # NoRequest /\ cmd.command = "WRITE" /\ hd_pc = "drq"
         /\ drive.lba \in RootSects(D) /\ drive.lba \in Nat /\ drive.lba + 1 \in DOMAIN D
         /\ DOMAIN D[drive.lba + 1] = 1 .. SECTOR_SIZE
<1>1. /\ hd_pc = "drq" /\ drive.st = "drq" /\ cmd.command = "WRITE" /\ walk.ext = 0
  BY DEF PortWrite, HInv, Requesting, Walking
<1>2. ~Single /\ Sent = 0
  BY <1>1 DEF Single, Sent
<1>3. msg = mbox /\ mbox # NoRequest /\ mbox.type = "DEV_WRITE"
  BY <1>1, <1>2 DEF FsInv, ServeInv
<1>4. /\ msg.sect \in Nat /\ msg.n \in Nat /\ left \in 1 .. msg.n
      /\ cmd.lba = Base(D) + msg.sect /\ drive.lba = cmd.lba + (msg.n - left) + 0
  BY <1>1, <1>2 DEF AtSector, Idle
<1>5. Base(D) \in Nat
  BY DEF DiskFits, Base
<1> DEFINE j == msg.n - left
<1>6. j \in 0 .. msg.n - 1 /\ drive.lba = Base(D) + (msg.sect + j)
  BY <1>4, <1>5
<1>7. msg.sect + j \in {InodeSect} \cup (StartSect .. StartSect + NrSects + FsBufSects - 1)
  BY <1>3, <1>6, RequestIs
<1>8. drive.lba \in RootSects(D)
  BY <1>6, <1>7 DEF RootSects, Base
<1>9. drive.lba \in Nat
  BY <1>4, <1>5, <1>6
<1> QED BY <1>1, <1>3, <1>4, <1>6, <1>8, <1>9 DEF DiskFits

\* No sector but those that FS may write changes.
LEMMA ShapeKept ==
  ASSUME NEW D, DiskFits(D), HInv, FsInv, AtSector(D), Shape(D), PortWrite
  PROVE  Shape(D)'
<1> DEFINE x == drive.lba + 1
           new == [b \in 1 .. SECTOR_SIZE |-> fsbuf[Window + b - 1]]
<1>1. /\ x \in DOMAIN D /\ DOMAIN D[x] = 1 .. SECTOR_SIZE /\ x - 1 \in RootSects(D)
  BY WrittenAt
<1>2. disk' = [disk EXCEPT ![x] = new]
  BY DEF PortWrite
<1> HIDE DEF new, x
<1>3. DOMAIN disk = DOMAIN D /\ disk = [s \in DOMAIN D |-> disk[s]]
  BY DEF Shape
<1>4. disk' = [s \in DOMAIN D |-> disk'[s]] /\ disk'[x] = new /\ \A s \in DOMAIN D : s # x => disk'[s] = disk[s]
  BY <1>1, <1>2, <1>3
<1>5. new = [b \in DOMAIN D[x] |-> new[b]]
  BY <1>1 DEF new
<1> QED BY <1>1, <1>4, <1>5 DEF Shape
-----------------------------------------------------------------------------
(* The steps, and the theorem.                                             *)

\* Tables are read for DEV_OPEN only.
LEMMA OpensInGeo ==
  ASSUME FsInv, Identified \/ PrimaryTable \/ ExtendedTable
  PROVE  fs.pc = "geo"
<1>1. hd_pc = "int" /\ Single
  BY DEF Identified, PrimaryTable, ExtendedTable, Answers, Interrupted, Single
<1>2. msg.type = "DEV_OPEN" /\ msg = mbox
  BY <1>1 DEF FsInv, ServeInv, Single
<1>3. mbox # NoRequest
  BY <1>2 DEF NoRequest
<1> QED BY <1>2, <1>3 DEF FsInv, FsMailbox, FsPlaces, Asked, Request

\* A request that is not DEV_OPEN leaves the drive as open as it was.
LEMMA OpenedStays ==
  ASSUME HInv, FsInv, OpenedInv, UNCHANGED <<fs, walk, hd_info>>,
         \/ Receive \/ HdOpen \/ HdIoctl \/ HdRdwt \/ CommandOut \/ WaitFails
         \/ SectorRead \/ PortWrite \/ SectorWritten \/ HdReply \/ Tick \/ DriveReady
  PROVE  OpenedInv'
<1>1. SUFFICES ASSUME fs.pc = "geo", mbox' = NoRequest \/ hd_pc' = "reply"
               PROVE  hd_info.open_cnt # 0
  BY DEF OpenedInv
<1>2. mbox = NoRequest \/ mbox.type = "DEV_OPEN"
  BY <1>1 DEF FsInv, FsMailbox, Asked, Request
<1>3. SUFFICES ASSUME mbox # NoRequest, hd_pc # "reply" PROVE FALSE
  BY <1>1 DEF OpenedInv
<1>4. CASE Receive
  <2>1. hd_pc' \in Kinds /\ mbox' = mbox
    BY <1>3, <1>4 DEF Receive, HInv, Quiet, HdTypeInv
  <2> QED BY <1>1, <1>3, <2>1 DEF Kinds
<1>5. CASE HdOpen \/ HdRdwt \/ CommandOut \/ WaitFails \/ PortWrite \/ HdReply \/ Tick \/ DriveReady
  BY <1>1, <1>3, <1>5
  DEF HdOpen, HdRdwt, Begin, CommandOut, WaitFails, PortWrite, HdReply, Tick, InWaitfor, DriveReady
<1>6. CASE HdIoctl
  <2>1. msg.type = "DEV_IOCTL" /\ msg = mbox
    BY <1>6 DEF HdIoctl, FsInv, ServeInv, Kinds
  <2> QED BY <1>2, <1>3, <2>1
<1>7. CASE SectorRead \/ SectorWritten
  <2>1. hd_pc = "int" /\ \/ cmd.command = "READ" /\ walk.ext = 0
                         \/ cmd.command = "WRITE"
    BY <1>7 DEF SectorRead, SectorWritten, Answers, Interrupted
  <2>2. ~Single
    BY <2>1 DEF Single, HInv, Walking
  <2>3. msg.type \in {"DEV_READ", "DEV_WRITE"} /\ msg = mbox
    BY <2>1, <2>2 DEF FsInv, ServeInv
  <2> QED BY <1>2, <1>3, <2>3
<1> QED BY <1>4, <1>5, <1>6, <1>7

\* FS opens the drive first.
LEMMA FsStepOpens ==
  ASSUME NEW D, HInv, FsInv, DInv(D), FsStep
  PROVE  DInv(D)'
<1>1. UNCHANGED <<hd_pc, msg, left, cmd, walk, hd_info, drive, disk>>
  BY DEF FsStep
<1>2. Shape(D)' /\ InfoInv(D)' /\ AtSector(D)'
  BY <1>1 DEF DInv, Shape, InfoInv, InfoIs, NothingIn, AllIn, AtSector, Single, Sent
<1>3. hd_pc = "receive" => walk.ext = 0
  BY DEF HInv, Walking
<1>4. CASE fs.pc \in {"open", "geo"}
  <2>1. FsInit
    BY <1>4 DEF FsStep, FsCall, Start, Fetch, MoveOut, MoveIn, Written, Finish, Sync, Ready
  <2>2. /\ mbox = NoRequest /\ mbox' # NoRequest
        /\ IF fs.pc = "open" THEN fs'.pc = "geo" ELSE fs'.pc = "opened"
    BY <2>1 DEF FsInit, Send, Request, NoRequest, AtRest
  <2>3. hd_pc = "receive"
    BY <2>2 DEF FsInv, ServeInv
  <2> QED BY <1>1, <1>2, <1>3, <1>4, <2>2, <2>3 DEF DInv, OpenedInv
<1>5. CASE fs.pc \notin {"open", "geo"}
  <2>1. hd_info.open_cnt # 0 /\ walk.ext = 0
    BY <1>5 DEF DInv, OpenedInv
  <2> QED BY <1>1, <1>2, <2>1 DEF DInv, OpenedInv
<1> QED BY <1>4, <1>5

\* HD and the controller.
LEMMA HdKnows ==
  ASSUME NEW D, DiskFits(D), RootKnown, HInv, FsInv, DInv(D),
         HdStep \/ Tick \/ DriveReady, UNCHANGED fsvars
  PROVE  DInv(D)'
<1> USE DEF DInv
<1>1. fs' = fs
  BY DEF fsvars
<1>2. CASE Identified \/ PrimaryTable \/ ExtendedTable
  <2>1. InfoInv(D)' /\ hd_info'.open_cnt # 0
    BY <1>2, IdentifiedInfo, PrimaryTableInfo, ExtendedTableInfo
  <2>2. OpenedInv'
    BY <1>1, <1>2, <2>1, OpensInGeo DEF OpenedInv
  <2>3. Shape(D)'
    BY <1>2 DEF Identified, PrimaryTable, ExtendedTable, Shape
  <2>4. ASSUME NEW info, NEW tbl, NEW i, PrimaryRound(info, tbl, i) PROVE AtSector(D)'
    BY <2>4, RoundServes, NotAtSector DEF Single
  <2>5. ASSUME Identified PROVE AtSector(D)'
    <3>1. hd_pc' = "reply" \/ (hd_pc' = "bsy" /\ walk'.ext = -1)
      BY <2>5 DEF Identified, Begin, NoWalk
    <3> QED BY <3>1, NotAtSector DEF Single
  <2>6. ASSUME ExtendedTable PROVE AtSector(D)'
    <3>1. walk.ext > 0
      BY <2>6 DEF ExtendedTable
    <3>2. ASSUME NEW s, walk' = [walk EXCEPT !.k = @ + 1, !.s = s], Begin("READ", s, 1)
          PROVE  AtSector(D)'
      <4>1. hd_pc' = "bsy" /\ walk'.ext = walk.ext
        BY <3>2 DEF Begin, HInv, HdTypeInv
      <4>2. walk.ext # 0
        BY <3>1
      <4> QED BY <4>1, <4>2, NotAtSector DEF Single
    <3>3. \/ \E info : PrimaryRound(info, walk.tbl, walk.i)
          \/ \E s : walk' = [walk EXCEPT !.k = @ + 1, !.s = s] /\ Begin("READ", s, 1)
      BY <2>6 DEF ExtendedTable
    <3> QED BY <2>4, <3>2, <3>3
  <2>7. AtSector(D)'
    BY <1>2, <2>4, <2>5, <2>6 DEF PrimaryTable
  <2> QED BY <2>1, <2>2, <2>3, <2>7
<1>3. CASE \/ Receive \/ HdOpen \/ HdIoctl \/ HdRdwt \/ CommandOut \/ WaitFails
           \/ SectorRead \/ PortWrite \/ SectorWritten \/ HdReply \/ Tick \/ DriveReady
  <2>1. UNCHANGED <<walk, hd_info>>
    BY <1>3 DEF Receive, HdOpen, HdIoctl, HdRdwt, CommandOut, WaitFails, SectorRead, PortWrite,
                SectorWritten, HdReply, Tick, DriveReady
  <2>2. OpenedInv'
    BY <1>1, <1>3, <2>1, OpenedStays
  <2>3. walk.ext # 0 => cmd'.lba = cmd.lba
    <3>1. CASE HdOpen \/ HdRdwt
      BY <3>1 DEF HdOpen, HdRdwt, HInv, Walking
    <3>2. CASE ~(HdOpen \/ HdRdwt)
      BY <1>3, <3>2 DEF Receive, HdIoctl, CommandOut, WaitFails, SectorRead, PortWrite,
                        SectorWritten, HdReply, Tick, DriveReady
    <3> QED BY <3>1, <3>2
  <2>4. InfoInv(D)'
    BY <2>1, <2>3, InfoStays
  <2>5. Shape(D)'
    <3>1. CASE PortWrite
      BY <3>1, ShapeKept
    <3>2. CASE ~PortWrite
      <4>1. disk' = disk
        BY <1>3, <3>2 DEF Receive, HdOpen, HdIoctl, HdRdwt, CommandOut, WaitFails, SectorRead,
                          SectorWritten, HdReply, Tick, DriveReady
      <4> QED BY <4>1 DEF Shape
    <3> QED BY <3>1, <3>2
  <2>6. AtSector(D)'
    <3>1. CASE Receive
      <4>1. hd_pc' \in Kinds
        BY <3>1 DEF Receive, HInv, Quiet, HdTypeInv
      <4> QED BY <4>1, NotAtSector DEF Kinds
    <3>2. CASE HdOpen
      BY <3>2, NotAtSector DEF HdOpen, Begin, Single
    <3>3. CASE HdIoctl \/ WaitFails \/ HdReply
      BY <3>3, NotAtSector DEF HdIoctl, WaitFails, HdReply
    <3>4. CASE HdRdwt
      BY <3>4, RdwtBegins
    <3>5. CASE CommandOut \/ SectorRead \/ PortWrite \/ SectorWritten
      <4>1. Base(D) \in Nat
        BY DEF DiskFits, Base
      <4> QED BY <3>5, <4>1, SectorsKept
    <3>6. CASE Tick
      BY <3>6 DEF Tick, AtSector, Single, Sent
    <3>7. CASE DriveReady
      <4>1. drive.st = "bsy" /\ (drive' = Idle \/ drive'.lba = drive.lba)
            /\ UNCHANGED <<hd_pc, msg, left, cmd, walk>>
        BY <3>7 DEF DriveReady, HInv, HdTypeInv
      <4>2. drive # Idle
        BY <4>1 DEF Idle
      <4> QED BY <4>1, <4>2 DEF AtSector, Single, Sent
    <3> QED BY <1>3, <3>1, <3>2, <3>3, <3>4, <3>5, <3>6, <3>7
  <2> QED BY <2>2, <2>4, <2>5, <2>6
<1> QED BY <1>2, <1>3 DEF HdStep

\* Nothing is read at first.
LEMMA DInvInit ==
  ASSUME NEW D, DiskFits(D), Init, disk = D
  PROVE  DInv(D)
<1>1. /\ walk = NoWalk /\ hd_pc = "receive" /\ fs = AtRest("open") /\ mbox = NoRequest
      /\ hd_info = [open_cnt |-> 0,
                    primary |-> [d \in 0 .. NR_PART_PER_DRIVE |-> NoPart],
                    logical |-> [d \in 0 .. NR_SUB_PER_DRIVE - 1 |-> NoPart]]
  BY DEF Init, HdInit
<1>2. Shape(D)
  BY DEF Shape, DiskFits
<1>3. NothingIn(hd_info, D)
  <2>1. \A p \in Prims : p \in 0 .. NR_PART_PER_DRIVE /\ ~(p <= 0) /\ ~(p < 0) /\ p # 0
    BY HdAssumption DEF Prims
  <2>2. \A p \in Prims, j \in Subs : (p - 1) * NR_SUB_PER_PART + j \in 0 .. NR_SUB_PER_DRIVE - 1
    BY SubNumbers
  <2> QED BY <1>1, <2>1, <2>2 DEF NothingIn, InfoIs
<1> QED BY <1>1, <1>2, <1>3 DEF DInv, InfoInv, OpenedInv, AtSector, NoWalk, AtRest

\* The disk is one of Disks, but for what FS has written.
DisksInv == \E D \in Disks : DInv(D)

\* What holds of every disk that fits holds of those the system starts with.
LEMMA PartsFound ==
  ASSUME DisksFit, HInv, DisksInv
  PROVE  PartitionsRead
<1>1. PICK D \in Disks : DInv(D)
  BY DEF DisksInv
<1>2. DiskFits(D)
  BY DEF DisksFit
<1>3. SUFFICES ASSUME hd_info.open_cnt > 0, hd_pc = "receive",
                      NEW d \in Prims
               PROVE  /\ hd_info.primary[d] = PrimaryOf(disk, d)
                      /\ \A k \in Subs :
                           hd_info.logical[(d - 1) * NR_SUB_PER_PART + k] = LogicalOf(disk, d, k)
  BY DEF PartitionsRead, Prims, Subs
<1>4. walk.ext = 0
  BY <1>3 DEF HInv, Walking
<1>5. AllIn(hd_info, D)
  BY <1>1, <1>3, <1>4 DEF DInv, InfoInv
<1>6. \A s \in TableSects(D) : disk[s + 1] = D[s + 1]
  BY <1>1, <1>2, TableThere DEF DInv
<1>7. disk[1] = D[1]
  BY <1>6 DEF TableSects
<1>8. d <= NR_PART_PER_DRIVE /\ \A k \in Subs : d < NR_PART_PER_DRIVE \/ (d = NR_PART_PER_DRIVE /\ k < NR_SUB_PER_PART)
  BY HdAssumption DEF Prims, Subs
<1>9. hd_info.primary[d] = PrimaryOf(disk, d)
  BY <1>5, <1>7, <1>8 DEF AllIn, InfoIs, PrimaryOf
<1>10. ASSUME NEW k \in Subs
       PROVE  LogicalOf(disk, d, k) = LogicalOf(D, d, k)
  <2>1. CASE D[1][d].sys # "EXT_PART"
    BY <1>7, <2>1, NoLogical
  <2>2. CASE D[1][d].sys = "EXT_PART"
    <3>1. Tables(disk, d)[k] = Tables(D, d)[k] /\ Tables(D, d)[k] \in TableSects(D)
      BY <1>2, <1>6, <1>7, <2>2, ChainKept, ChainGoesOn
    <3>2. disk[Tables(D, d)[k] + 1] = D[Tables(D, d)[k] + 1]
      BY <1>6, <3>1
    <3> QED BY <1>7, <2>2, <3>1, <3>2 DEF LogicalOf, Chained
  <2> QED BY <2>1, <2>2
<1> QED BY <1>5, <1>8, <1>9, <1>10 DEF AllIn, InfoIs

\* Every step keeps what is known about the disk the system started with.
LEMMA DisksInvNext ==
  ASSUME DisksFit, HInv, FsInv, DisksInv, [Next]_rdwtvars
  PROVE  DisksInv'
<1>1. PICK D \in Disks : DInv(D)
  BY DEF DisksInv
<1>2. DiskFits(D) /\ RootKnown
  BY DEF DisksFit, RootKnown, Prims
<1>3. CASE FsStep
  BY <1>1, <1>3, FsStepOpens DEF DisksInv
<1>4. CASE (HdStep \/ Tick \/ DriveReady) /\ UNCHANGED fsvars
  BY <1>1, <1>2, <1>4, HdKnows DEF DisksInv
<1>5. CASE UNCHANGED rdwtvars
  <2>1. DInv(D)'
    BY <1>1, <1>5 DEF rdwtvars, hdvars, fsvars, DInv, Shape, InfoInv, InfoIs, NothingIn, AllIn,
                      OpenedInv, AtSector, Single, Sent
  <2> QED BY <2>1 DEF DisksInv
<1> QED BY <1>3, <1>4, <1>5 DEF Next

\* Once the drive is open, hd_info has every partition of the disk under its

\* number and no other, at whatever sectors the tables are chained, however
\* many of them there are and whatever FS has written since.
THEOREM PartitionsCorrect == DisksFit /\ Spec => []PartitionsRead
<1>1. Spec => [](HInv /\ FsInv)
  BY FsTypes, HInvInit, HInvNext, FsInvInit, FsInvNext, PTL DEF Spec
<1>2. ASSUME DisksFit PROVE Init => DisksInv
  <2> SUFFICES ASSUME Init PROVE DisksInv
    OBVIOUS
  <2>1. disk \in Disks /\ DiskFits(disk)
    BY <1>2 DEF Init, HdInit, DisksFit
  <2>2. \A D : DiskFits(D) /\ disk = D => DInv(D)
    BY DInvInit
  <2>3. \E D : D \in Disks /\ DiskFits(D) /\ disk = D
    BY <2>1
  <2> QED BY <2>2, <2>3 DEF DisksInv
<1>3. ASSUME DisksFit PROVE HInv /\ FsInv /\ DisksInv /\ [Next]_rdwtvars => DisksInv'
  BY <1>3, DisksInvNext
<1>4. ASSUME DisksFit PROVE HInv /\ DisksInv => PartitionsRead
  BY <1>4, PartsFound
<1>5. ASSUME DisksFit PROVE Spec => []PartitionsRead
  BY <1>1, <1>2, <1>3, <1>4, <1>5, PTL DEF Spec
<1> QED BY <1>5

-----------------------------------------------------------------------------
(* The bytes of a transfer: from the disk to fsbuf and back, and what FS   *)
(* makes of them.                                                          *)

InodeAt(D) == Base(D) + InodeSect + 1

\* The first n sectors of fsbuf are those of the partition from sect on.
Same(D, sect, n) ==
  \A j \in 0 .. n - 1, b \in 1 .. SECTOR_SIZE :
    fsbuf[j * SECTOR_SIZE + (b - 1)] = disk[Base(D) + sect + j + 1][b]

\* HD copies sector after sector, whichever the direction, and FS goes on when
\* all of them are copied.
CopyInv(D) ==
  /\ fsbuf = [k \in 0 .. FsBufSects * SECTOR_SIZE - 1 |-> fsbuf[k]]
  /\ hd_pc \in {"int", "drq"} /\ ~Single => Same(D, msg.sect, (msg.n - left) + Sent)
  /\ hd_pc = "reply" /\ msg.type \in {"DEV_READ", "DEV_WRITE"} => Same(D, msg.sect, msg.n)
  /\ mbox = NoRequest /\ fs.pc \in {"move", "written"} => Same(D, fs.i, fs.chunk)
  /\ mbox = NoRequest /\ fs.pc \in {"sync", "synced"} => Same(D, InodeSect, 1)

\* The size of the file on the disk is that of the i-node in memory, until it
\* is about to be written; then nothing else of its sector changes.
SizeInv(D) ==
  /\ fs.pc \notin {"sync", "synced"} => disk[InodeAt(D)][1] = i_size
  /\ fs.pc = "synced" =>
       /\ fsbuf[0] = i_size
       /\ \A b \in 2 .. SECTOR_SIZE : fsbuf[b - 1] = disk[InodeAt(D)][b]

\* The byte of the transfer that byte b of sector s holds, and that at p of the file.
At(D, s, b) ==
  (((s - 1) * SECTOR_SIZE + (b - 1)) - (Base(D) + StartSect) * SECTOR_SIZE) - (goal.pos - goal.cnt)

ByteAt(D, p) ==
  LET a == (Base(D) + StartSect) * SECTOR_SIZE + p
  IN  disk[(a \div SECTOR_SIZE) + 1][(a % SECTOR_SIZE) + 1]

\* A READ has the bytes of the file as far as it is done.
ReadInv(D) ==
  /\ goal.pos <= i_size /\ goal.disk = disk
  /\ goal.data = [k \in 1 .. goal.cnt |-> ByteAt(D, (goal.pos - goal.cnt) + (k - 1))]
  /\ ubuf = [k \in 1 .. fs.done |-> goal.data[k]]

\* A WRITE has changed the disk as far as it is done, but for the size.
Waits(D, s, b) == s # InodeAt(D) /\ At(D, s, b) \in fs.done .. goal.cnt - 1

WriteInv(D) ==
  /\ ubuf = <<>> /\ goal.data = <<>>
  /\ goal.disk = [s \in DOMAIN D |-> [b \in DOMAIN D[s] |-> goal.disk[s][b]]]
  /\ goal.disk[InodeAt(D)][1] = goal.size
  /\ \A s \in DOMAIN D : \A b \in DOMAIN D[s] :
       /\ ~Waits(D, s, b) /\ ~(s = InodeAt(D) /\ b = 1) => disk[s][b] = goal.disk[s][b]
       /\ s # InodeAt(D) /\ At(D, s, b) \in 0 .. goal.cnt - 1
            => goal.disk[s][b] = Payload(ops - 1, At(D, s, b))

InLoop == fs.pc \in {"fetch", "move", "written"}

\* The numbers of a call that ends within the file.
CallNumbers ==
  /\ goal.fd = fs.fd /\ fs.fd \in Fds
  /\ goal.cnt \in Nat /\ goal.pos \in Nat /\ goal.cnt <= goal.pos
  /\ fs.done \in Nat /\ fs.left \in Nat /\ fs.done + fs.left = goal.cnt
  /\ fd_pos[fs.fd] + fs.left = goal.pos
  /\ InLoop =>
       /\ fs.max = StartSect + (goal.pos \div SECTOR_SIZE)
       /\ fs.left = 0 \/ fd_pos[fs.fd] = (fs.i - StartSect) * SECTOR_SIZE + fs.off
       /\ goal.size = IF fs.type = "WRITE" /\ goal.pos > i_size THEN goal.pos ELSE i_size
  /\ fs.pc \in {"sync", "synced"} =>
       fs.left = 0 /\ i_size = goal.size /\ fs.type = "WRITE"

CallInv(D) ==
  /\ CallNumbers
  /\ IF fs.type = "READ" THEN ReadInv(D) ELSE WriteInv(D)
  /\ fs.pc = "written" =>
       \A j \in 0 .. fs.chunk - 1, b \in 1 .. SECTOR_SIZE :
         fsbuf[j * SECTOR_SIZE + (b - 1)] = goal.disk[Base(D) + fs.i + j + 1][b]

Calling == InLoop \/ fs.pc \in {"sync", "synced"}

GoalInv(D) ==
  /\ ops \in Nat
  /\ fs.pc \in {"open", "geo", "opened"} => ~goal.within
  /\ goal.within /\ Calling => CallInv(D)
  /\ TransfersExact

TransferInv(D) == DInv(D) /\ CopyInv(D) /\ SizeInv(D) /\ GoalInv(D)

\* The place of byte x in sectors of n bytes.
LEMMA PlaceIs ==
  ASSUME NEW n \in Nat \ {0}, NEW q \in Int, NEW r \in 0 .. n - 1, NEW x, x = q * n + r
  PROVE  x \div n = q /\ x % n = r
<1> DEFINE d == x \div n
           m == x % n
<1>1. q * n \in Int /\ x \in Int
  OBVIOUS
<1>2. d \in Int /\ m \in 0 .. n - 1 /\ x = n * d + m
  BY <1>1
<1> HIDE DEF d, m
<1>3. ~(d >= q + 1)
  <2>1. SUFFICES ASSUME d >= q + 1 PROVE FALSE
    OBVIOUS
  <2>2. PICK z \in Nat : d = (q + 1) + z
    <3>1. d - (q + 1) \in Nat /\ d = (q + 1) + (d - (q + 1))
      BY <1>2, <2>1
    <3> QED BY <3>1
  <2>3. n * d = (q * n + n) + n * z /\ n * z \in Nat
    BY <2>2
  <2> QED BY <1>1, <1>2, <2>3
<1>4. ~(q >= d + 1)
  <2>1. SUFFICES ASSUME q >= d + 1 PROVE FALSE
    OBVIOUS
  <2>2. PICK z \in Nat : q = (d + 1) + z
    <3>1. q - (d + 1) \in Nat /\ q = (d + 1) + (q - (d + 1))
      BY <1>2, <2>1
    <3> QED BY <3>1
  <2>3. q * n = (n * d + n) + n * z /\ n * z \in Nat /\ n * d \in Int
    BY <1>2, <2>2
  <2> QED BY <1>1, <1>2, <2>3
<1>5. d = q
  BY <1>2, <1>3, <1>4
<1>6. n * d = q * n
  BY <1>5
<1>7. m = r
  BY <1>1, <1>2, <1>6
<1> QED BY <1>5, <1>7 DEF d, m

\* Every byte has such a place.
LEMMA HasPlace ==
  ASSUME NEW n \in Nat \ {0}, NEW x \in Nat
  PROVE  \E q \in Nat, r \in 0 .. n - 1 : x = q * n + r
<1>1. (x \div n) \in Nat /\ (x % n) \in 0 .. n - 1 /\ x = n * (x \div n) + (x % n)
  OBVIOUS
<1> DEFINE q == x \div n
           r == x % n
<1>2. q \in Nat /\ r \in 0 .. n - 1 /\ x = n * q + r
  BY <1>1
<1> HIDE DEF q, r
<1>3. n * q = q * n
  BY <1>2
<1> QED BY <1>2, <1>3

\* The bytes of the first m sectors.
LEMMA InSectors ==
  ASSUME NEW n \in Nat \ {0}, NEW j \in Int, NEW r \in 0 .. n - 1, NEW m \in Nat
  PROVE  /\ j * n + r \in Int /\ m * n \in Nat
         /\ j * n + r \in 0 .. m * n - 1 <=> j \in 0 .. m - 1
<1>1. j * n \in Int /\ m * n \in Nat
  OBVIOUS
<1>2. ASSUME j < 0 PROVE j * n + r < 0
  <2>1. PICK z \in Nat : j = -1 - z
    <3>1. -1 - j \in Nat /\ j = -1 - (-1 - j)
      BY <1>2
    <3> QED BY <3>1
  <2>2. j * n = (-n) - z * n /\ z * n \in Nat
    BY <2>1
  <2> QED BY <1>1, <2>2
<1>3. ASSUME j >= 0 PROVE j * n + r >= 0
  <2>1. j * n \in Nat
    BY <1>3
  <2> QED BY <2>1
<1>4. ASSUME j >= m PROVE j * n + r >= m * n
  <2>1. PICK z \in Nat : j = m + z
    <3>1. j - m \in Nat /\ j = m + (j - m)
      BY <1>4
    <3> QED BY <3>1
  <2>2. j * n = m * n + z * n /\ z * n \in Nat
    BY <2>1
  <2> QED BY <1>1, <2>2
<1>5. ASSUME j < m PROVE j * n + r < m * n
  <2>1. PICK z \in Nat : m = (j + 1) + z
    <3>1. m - (j + 1) \in Nat /\ m = (j + 1) + (m - (j + 1))
      BY <1>5
    <3> QED BY <3>1
  <2>2. m * n = (j * n + n) + z * n /\ z * n \in Nat
    BY <2>1
  <2> QED BY <1>1, <2>2
<1> QED BY <1>1, <1>2, <1>3, <1>4, <1>5

-----------------------------------------------------------------------------
(* One step at a time.                                                     *)

\* FS moves when HD waits for it, and HD when FS waits.
LEMMA Alternate ==
  ASSUME HInv, FsInv
  PROVE  /\ FsStep => mbox = NoRequest /\ hd_pc = "receive"
         /\ HdStep \/ Tick \/ DriveReady => mbox # NoRequest
<1>1. mbox = NoRequest => hd_pc = "receive"
  BY DEF FsInv, ServeInv
<1>2. ASSUME FsStep PROVE mbox = NoRequest
  BY <1>2 DEF FsStep, FsCall, Start, FsInit, Fetch, MoveOut, MoveIn, Written, Finish, Sync, Ready,
              Send, FsInv, FsMailbox
<1>3. hd_pc = "receive" => drive.st # "bsy" /\ ~has_int_msg
  BY DEF HInv, Quiet, Idle
<1>4. ASSUME HdStep \/ Tick \/ DriveReady, mbox = NoRequest PROVE FALSE
  BY <1>1, <1>3, <1>4
  DEF HdStep, Tick, DriveReady, InWaitfor, Receive, HdOpen, HdIoctl, HdRdwt, CommandOut, WaitFails,
      Identified, PrimaryTable, ExtendedTable, SectorRead, PortWrite, SectorWritten, HdReply,
      Answers, Interrupted
<1> QED BY <1>1, <1>2, <1>4

\* No request for sectors is larger than fsbuf.
LEMMA RequestFits ==
  ASSUME FsInv, mbox # NoRequest, mbox.type \in {"DEV_READ", "DEV_WRITE"}
  PROVE  mbox.n <= FsBufSects
<1>1. fs.pc \in {"move", "written", "sync", "synced"}
  BY DEF FsInv, FsMailbox, FsPlaces, Asked, Request
<1>2. CASE fs.pc \in {"move", "written"}
  BY <1>2, HdAssumption DEF FsInv, FsMailbox, Asked, Request, FsNumbers
<1>3. CASE fs.pc \in {"sync", "synced"}
  BY <1>3, HdAssumption DEF FsInv, FsMailbox, Asked, Request
<1> QED BY <1>1, <1>2, <1>3

\* A sector is read into its place in fsbuf.
LEMMA ReadEffect ==
  ASSUME NEW D, DiskFits(D), HInv, FsInv, AtSector(D), CopyInv(D), SectorRead
  PROVE  /\ hd_pc = "int" /\ cmd.command = "READ" /\ ~Single /\ Sent = 0
         /\ msg = mbox /\ msg.type = "DEV_READ" /\ mbox # NoRequest
         /\ left \in 1 .. msg.n /\ msg.n \in Nat /\ left' = left - 1 /\ hd_pc' = NextPc
         /\ UNCHANGED <<mbox, msg, cmd, walk, disk>>
         /\ fsbuf' = [k \in 0 .. FsBufSects * SECTOR_SIZE - 1 |-> fsbuf'[k]]
         /\ Same(D, msg.sect, msg.n - left)'
<1> DEFINE N == SECTOR_SIZE
           L == FsBufSects * N
<1>1. /\ hd_pc = "int" /\ cmd.command = "READ" /\ drive.st = "drq" /\ walk.ext = 0
      /\ left' = left - 1 /\ hd_pc' = NextPc /\ UNCHANGED <<mbox, msg, cmd, walk, disk>>
  BY AnswerEffect DEF SectorRead
<1>2. ~Single /\ Sent = 0 /\ drive # Idle
  BY <1>1 DEF Single, Sent, Idle
<1>3. msg = mbox /\ mbox # NoRequest /\ mbox.type = "DEV_READ"
  BY <1>1, <1>2 DEF FsInv, ServeInv, Single
<1>4. /\ msg.sect \in Nat /\ msg.n \in Nat /\ left \in 1 .. msg.n
      /\ cmd.lba = Base(D) + msg.sect /\ drive.lba = cmd.lba + (msg.n - left) + Sent
  BY <1>1, <1>2 DEF AtSector
<1>5. Base(D) \in Nat
  BY DEF DiskFits, Base
<1>6. PICK m : m = msg.n - left
  OBVIOUS
<1>7. m \in Nat /\ m < msg.n /\ N \in Nat \ {0} /\ FsBufSects \in Nat /\ msg.n - left' = m + 1
  BY <1>1, <1>4, <1>6, HdAssumption
<1>8. drive.lba + 1 = Base(D) + msg.sect + m + 1
  BY <1>2, <1>4, <1>5, <1>6, <1>7
<1>9. msg.n <= FsBufSects
  BY <1>3, RequestFits
<1>10. PICK w : w = m * N
  OBVIOUS
<1>11. fsbuf' = [k \in 0 .. L - 1 |->
                  IF k \in w .. w + N - 1 THEN disk[drive.lba + 1][k - w + 1] ELSE fsbuf[k]]
  <2>1. DOMAIN fsbuf = 0 .. L - 1
    BY DEF CopyInv
  <2>2. Window = w
    BY <1>6, <1>10 DEF Window
  <2> HIDE DEF L
  <2> QED BY <2>1, <2>2 DEF SectorRead
<1>12. Same(D, msg.sect, m)
  <2>1. m + 0 = m
    BY <1>7
  <2> QED BY <1>1, <1>2, <1>6, <2>1 DEF CopyInv
<1>13. ASSUME NEW j \in 0 .. m, NEW b \in 1 .. N
       PROVE  fsbuf'[j * N + (b - 1)] = disk[Base(D) + msg.sect + j + 1][b]
  <2>1. b - 1 \in 0 .. N - 1 /\ j \in Int /\ j \in 0 .. FsBufSects - 1
    BY <1>4, <1>7, <1>9
  <2>2. PICK k : k = j * N + (b - 1)
    OBVIOUS
  <2>3. k \in 0 .. L - 1
    BY <1>7, <2>1, <2>2, InSectors
  <2>4. CASE j = m
    <3>1. w \in Int /\ k = w + (b - 1)
      BY <1>7, <1>10, <2>2, <2>4
    <3>2. k \in w .. w + N - 1 /\ k - w + 1 = b
      BY <1>7, <2>1, <3>1
    <3>3. fsbuf'[k] = disk[drive.lba + 1][b]
      BY <1>11, <2>3, <3>2
    <3> QED BY <1>8, <2>2, <2>4, <3>3
  <2>5. CASE j # m
    <3>1. j \in 0 .. m - 1 /\ m \in Nat
      BY <1>7, <2>5
    <3>2. k \in 0 .. m * N - 1
      BY <1>7, <2>1, <2>2, <3>1, InSectors
    <3>3. w \in Int
      BY <1>7, <1>10
    <3>4. k \notin w .. w + N - 1
      BY <1>10, <3>2, <3>3
    <3>5. fsbuf[k] = disk[Base(D) + msg.sect + j + 1][b]
      BY <1>12, <2>2, <3>1 DEF Same
    <3>6. fsbuf'[k] = fsbuf[k]
      BY <1>11, <2>3, <3>4
    <3> QED BY <2>2, <3>5, <3>6
  <2> QED BY <2>4, <2>5
<1>14. Same(D, msg.sect, msg.n - left)'
  <2>1. (m + 1) - 1 = m
    BY <1>7
  <2>2. \A j \in 0 .. (msg.n - left') - 1, b \in 1 .. N :
          fsbuf'[j * N + (b - 1)] = disk[Base(D) + msg.sect + j + 1][b]
    BY <1>7, <1>13, <2>1
  <2> QED BY <1>1, <2>2 DEF Same
<1>15. fsbuf' = [k \in 0 .. L - 1 |-> fsbuf'[k]]
  BY <1>11
<1> QED BY <1>1, <1>2, <1>3, <1>4, <1>14, <1>15

\* A sector is written from its place in fsbuf.
LEMMA WriteEffect ==
  ASSUME NEW D, DiskFits(D), HInv, FsInv, AtSector(D), Shape(D), PortWrite
  PROVE  /\ hd_pc = "drq" /\ hd_pc' = "int" /\ cmd.command = "WRITE" /\ ~Single /\ ~Single'
         /\ Sent = 0 /\ Sent' = 1
         /\ msg = mbox /\ msg.type = "DEV_WRITE" /\ mbox # NoRequest
         /\ left \in 1 .. msg.n /\ msg.n \in Nat /\ msg.sect \in Nat /\ Base(D) \in Nat
         /\ UNCHANGED <<mbox, msg, left, cmd, walk, fsbuf>>
         /\ Base(D) + msg.sect + (msg.n - left) + 1 \in DOMAIN D
         /\ \A s \in DOMAIN D : disk'[s] =
              IF s = Base(D) + msg.sect + (msg.n - left) + 1
              THEN [b \in 1 .. SECTOR_SIZE |-> fsbuf[(msg.n - left) * SECTOR_SIZE + (b - 1)]]
              ELSE disk[s]
<1>1. /\ drive.lba = Base(D) + (msg.sect + (msg.n - left)) /\ left \in 1 .. msg.n
      /\ msg.n \in Nat /\ msg.sect \in Nat /\ msg = mbox /\ msg.type = "DEV_WRITE"
      /\ mbox # NoRequest /\ cmd.command = "WRITE" /\ hd_pc = "drq" /\ drive.lba + 1 \in DOMAIN D
  BY WrittenAt
<1>2. /\ hd_pc' = "int" /\ UNCHANGED <<mbox, msg, left, cmd, walk, fsbuf>>
      /\ disk' = [disk EXCEPT ![drive.lba + 1] =
                    [b \in 1 .. SECTOR_SIZE |-> fsbuf[Window + b - 1]]]
  BY DEF PortWrite
<1>3. walk.ext = 0 /\ Base(D) \in Nat
  BY <1>1 DEF HInv, Walking, DiskFits, Base
<1>4. ~Single /\ ~Single' /\ Sent = 0 /\ Sent' = 1
  BY <1>1, <1>2, <1>3 DEF Single, Sent
<1>5. PICK m : m = msg.n - left
  OBVIOUS
<1>6. m \in Nat /\ drive.lba + 1 = Base(D) + msg.sect + m + 1
  BY <1>1, <1>3, <1>5
<1>7. PICK x : x = drive.lba + 1
  OBVIOUS
<1>8. DOMAIN disk = DOMAIN D
  BY DEF Shape
<1>9. PICK w : w = m * SECTOR_SIZE
  OBVIOUS
<1>10. w \in Int /\ Window = w
  BY <1>5, <1>6, <1>9, HdAssumption DEF Window
<1>11. \A b \in 1 .. SECTOR_SIZE : w + b - 1 = w + (b - 1)
  BY <1>10, HdAssumption
<1> DEFINE new == [b \in 1 .. SECTOR_SIZE |-> fsbuf[w + (b - 1)]]
<1>12. [b \in 1 .. SECTOR_SIZE |-> fsbuf[Window + b - 1]] = new
  BY <1>10, <1>11
<1> HIDE DEF new
<1>13. disk' = [disk EXCEPT ![x] = new]
  BY <1>2, <1>7, <1>12
<1>14. \A s \in DOMAIN D : disk'[s] = IF s = x THEN new ELSE disk[s]
  BY <1>8, <1>13
<1>15. Base(D) + msg.sect + (msg.n - left) + 1 = x
  BY <1>5, <1>6, <1>7
<1>16. \A s \in DOMAIN D : disk'[s] =
         IF s = Base(D) + msg.sect + (msg.n - left) + 1
         THEN [b \in 1 .. SECTOR_SIZE |-> fsbuf[(msg.n - left) * SECTOR_SIZE + (b - 1)]]
         ELSE disk[s]
  BY <1>5, <1>9, <1>14, <1>15 DEF new
<1>17. Base(D) + msg.sect + (msg.n - left) + 1 \in DOMAIN D
  BY <1>1, <1>7, <1>15
<1> QED BY <1>1, <1>2, <1>3, <1>4, <1>16, <1>17

\* What HD is asked to write from fsbuf is on the disk, as far as it is done.
LEMMA SectorCopied ==
  ASSUME NEW D, DiskFits(D), HInv, FsInv, AtSector(D), Shape(D), CopyInv(D), PortWrite
  PROVE  Same(D, msg.sect, (msg.n - left) + 1)'
<1> DEFINE N == SECTOR_SIZE
<1>1. PICK m : m = msg.n - left
  OBVIOUS
<1>2. /\ hd_pc = "drq" /\ ~Single /\ Sent = 0 /\ left \in 1 .. msg.n /\ msg.n \in Nat
      /\ msg.sect \in Nat /\ Base(D) \in Nat /\ msg = mbox /\ mbox # NoRequest
      /\ msg.type = "DEV_WRITE" /\ UNCHANGED <<msg, left, fsbuf>>
      /\ \A s \in DOMAIN D : disk'[s] =
           IF s = Base(D) + msg.sect + m + 1
           THEN [b \in 1 .. N |-> fsbuf[m * N + (b - 1)]] ELSE disk[s]
  BY <1>1, WriteEffect
<1>3. m \in Nat /\ m < msg.n
  BY <1>1, <1>2
<1>4. Same(D, msg.sect, m)
  <2>1. m + 0 = m
    BY <1>3
  <2> QED BY <1>1, <1>2, <2>1 DEF CopyInv
<1>5. ASSUME NEW j \in 0 .. m, NEW b \in 1 .. N
      PROVE  fsbuf[j * N + (b - 1)] = disk'[Base(D) + msg.sect + j + 1][b]
  <2>1. Base(D) + msg.sect + j + 1 \in DOMAIN D
    <3>1. j \in 0 .. msg.n - 1
      BY <1>2, <1>3
    <3>2. Base(D) + (msg.sect + j) \in RootSects(D)
      BY <1>2, <3>1, RequestIs DEF RootSects, Base
    <3>3. (Base(D) + (msg.sect + j)) + 1 \in DOMAIN D
      BY <3>2 DEF DiskFits
    <3>4. (Base(D) + (msg.sect + j)) + 1 = Base(D) + msg.sect + j + 1
      BY <1>2, <3>1
    <3> QED BY <3>3, <3>4
  <2>2. CASE j = m
    BY <1>2, <2>1, <2>2
  <2>3. CASE j # m
    <3>1. j \in 0 .. m - 1 /\ Base(D) + msg.sect + j + 1 # Base(D) + msg.sect + m + 1
      BY <1>2, <1>3, <2>3
    <3>2. disk'[Base(D) + msg.sect + j + 1] = disk[Base(D) + msg.sect + j + 1]
      BY <1>2, <2>1, <3>1
    <3> QED BY <1>4, <3>1, <3>2 DEF Same
  <2> QED BY <2>2, <2>3
<1>6. (m + 1) - 1 = m
  BY <1>3
<1>7. \A j \in 0 .. (m + 1) - 1, b \in 1 .. N :
        fsbuf'[j * N + (b - 1)] = disk'[Base(D) + msg.sect + j + 1][b]
  BY <1>2, <1>5, <1>6
<1>8. msg'.sect = msg.sect /\ (msg'.n - left') + 1 = m + 1
  BY <1>1, <1>2
<1> QED BY <1>7, <1>8 DEF Same

\* HD and the controller copy what they are asked to.
LEMMA CopyKept ==
  ASSUME NEW D, DiskFits(D), HInv, FsInv, AtSector(D), Shape(D), CopyInv(D),
         HdStep \/ Tick \/ DriveReady, UNCHANGED fsvars
  PROVE  CopyInv(D)'
<1>1. fs' = fs /\ mbox # NoRequest
  BY Alternate DEF fsvars
<1>2. CASE SectorRead
  <2>1. /\ hd_pc = "int" /\ cmd.command = "READ" /\ ~Single /\ msg = mbox
        /\ left \in 1 .. msg.n /\ msg.n \in Nat /\ left' = left - 1 /\ hd_pc' = NextPc
        /\ UNCHANGED <<mbox, msg, cmd, walk, disk>>
        /\ fsbuf' = [k \in 0 .. FsBufSects * SECTOR_SIZE - 1 |-> fsbuf'[k]]
        /\ Same(D, msg.sect, msg.n - left)'
    BY <1>2, ReadEffect
  <2>2. Sent' = 0 /\ mbox' # NoRequest
    BY <1>1, <2>1 DEF Sent
  <2>3. CASE left = 1
    <3>1. hd_pc' = "reply" /\ msg.n - left' = msg.n /\ (msg.n - left') + Sent' = msg.n
      BY <2>1, <2>2, <2>3 DEF NextPc
    <3> QED BY <2>1, <2>2, <3>1 DEF CopyInv
  <2>4. CASE left # 1
    <3>1. hd_pc' = "int" /\ (msg.n - left') + Sent' = msg.n - left'
      BY <2>1, <2>2, <2>4 DEF NextPc
    <3> QED BY <2>1, <2>2, <3>1 DEF CopyInv
  <2> QED BY <2>3, <2>4
<1>3. CASE PortWrite
  <2>1. /\ hd_pc' = "int" /\ Sent' = 1 /\ mbox' = mbox /\ fsbuf' = fsbuf
    BY <1>3, WriteEffect
  <2>2. Same(D, msg.sect, (msg.n - left) + Sent)'
    BY <1>3, <2>1, SectorCopied
  <2> QED BY <1>1, <2>1, <2>2 DEF CopyInv
<1>4. CASE SectorWritten
  <2>1. /\ hd_pc = "int" /\ cmd.command = "WRITE" /\ left' = left - 1
        /\ hd_pc' = IF left = 1 THEN "reply" ELSE "drq"
        /\ UNCHANGED <<mbox, msg, cmd, walk, disk, fsbuf>>
    BY <1>4 DEF SectorWritten, Answers, Interrupted
  <2>2. walk.ext = 0
    BY <2>1 DEF HInv, Walking
  <2>3. ~Single /\ Sent = 1 /\ Sent' = 0
    BY <2>1, <2>2 DEF Single, Sent
  <2>4. msg.n \in Nat /\ left \in 1 .. msg.n
    BY <2>1, <2>3 DEF AtSector
  <2>5. Same(D, msg.sect, (msg.n - left) + 1)
    BY <2>1, <2>3 DEF CopyInv
  <2>6. (msg.n - left') + Sent' = (msg.n - left) + 1 /\ (left = 1 => (msg.n - left) + 1 = msg.n)
    BY <2>1, <2>3, <2>4
  <2>7. Same(D, msg.sect, (msg.n - left') + Sent')
    BY <2>5, <2>6
  <2>8. \A n : Same(D, msg.sect, n) => Same(D, msg.sect, n)'
    BY <2>1 DEF Same
  <2> QED BY <1>1, <2>1, <2>5, <2>6, <2>7, <2>8 DEF CopyInv
<1>5. CASE HdReply
  <2>1. hd_pc = "reply" /\ mbox' = NoRequest /\ hd_pc' = "receive" /\ UNCHANGED <<disk, fsbuf>>
    BY <1>5 DEF HdReply
  <2>2. msg = mbox
    BY <2>1 DEF FsInv, ServeInv
  <2>3. fs.pc \in {"move", "written"} => Same(D, fs.i, fs.chunk)
    BY <1>1, <2>1, <2>2 DEF CopyInv, FsInv, FsMailbox, Asked, Request
  <2>4. fs.pc \in {"sync", "synced"} => Same(D, InodeSect, 1)
    BY <1>1, <2>1, <2>2 DEF CopyInv, FsInv, FsMailbox, Asked, Request
  <2> QED BY <1>1, <2>1, <2>3, <2>4 DEF CopyInv, Same
<1>6. CASE CommandOut
  <2>1. /\ hd_pc = "bsy" /\ UNCHANGED <<mbox, msg, left, cmd, walk, disk, fsbuf>>
        /\ hd_pc' = IF cmd.command = "WRITE" THEN "drq" ELSE "int"
    BY <1>6 DEF CommandOut
  <2>2. ~Single => left = msg.n /\ msg.n \in Nat
    BY <2>1 DEF AtSector
  <2>3. ~Single => (msg.n - left) + 0 = 0
    BY <2>2
  <2>4. Sent' = 0 /\ (Single' <=> Single)
    BY <2>1 DEF Sent, Single
  <2>5. ~Single' => Same(D, msg.sect, (msg.n - left) + Sent)'
    BY <2>1, <2>3, <2>4 DEF Same
  <2> QED BY <1>1, <2>1, <2>5 DEF CopyInv
<1>7. CASE Tick \/ DriveReady
  <2>1. UNCHANGED <<mbox, hd_pc, msg, left, cmd, walk, disk, fsbuf>>
    BY <1>7 DEF Tick, DriveReady
  <2>2. Sent' = Sent /\ (Single' <=> Single)
    BY <2>1 DEF Sent, Single
  <2>3. hd_pc' \in {"int", "drq"} /\ ~Single' => Same(D, msg.sect, (msg.n - left) + Sent)'
    BY <2>1, <2>2 DEF CopyInv, Same
  <2>4. hd_pc' = "reply" /\ msg'.type \in {"DEV_READ", "DEV_WRITE"} => Same(D, msg.sect, msg.n)'
    BY <2>1 DEF CopyInv, Same
  <2> QED BY <1>1, <2>1, <2>3, <2>4 DEF CopyInv
<1>8. CASE Receive \/ HdOpen \/ HdIoctl \/ HdRdwt \/ WaitFails \/ Identified \/ PrimaryTable \/ ExtendedTable
  <2>1. UNCHANGED <<mbox, msg, disk, fsbuf>> \/ Receive
    BY <1>8 DEF HdOpen, HdIoctl, HdRdwt, WaitFails, Identified, PrimaryTable, ExtendedTable
  <2>2. CASE Receive
    <3>1. hd_pc' \in Kinds /\ UNCHANGED <<mbox, disk, fsbuf>>
      BY <2>2 DEF Receive, HInv, Quiet, HdTypeInv
    <3> QED BY <1>1, <3>1 DEF CopyInv, Kinds
  <2>3. CASE HdOpen \/ HdRdwt \/ WaitFails
    <3>1. hd_pc' \in {"bsy", "panic"} /\ UNCHANGED <<mbox, disk, fsbuf>>
      BY <2>3 DEF HdOpen, HdRdwt, Begin, WaitFails
    <3> QED BY <1>1, <3>1 DEF CopyInv
  <2>4. CASE HdIoctl
    <3>1. hd_pc' = "reply" /\ msg.type = "DEV_IOCTL" /\ UNCHANGED <<mbox, msg, disk, fsbuf>>
      BY <2>4 DEF HdIoctl, FsInv, ServeInv, Kinds
    <3> QED BY <1>1, <3>1 DEF CopyInv
  <2>5. CASE Identified \/ PrimaryTable \/ ExtendedTable
    <3>1. UNCHANGED <<mbox, msg, disk, fsbuf>>
      BY <2>5 DEF Identified, PrimaryTable, ExtendedTable
    <3>2. hd_pc = "int" /\ Single
      BY <2>5 DEF Identified, PrimaryTable, ExtendedTable, Answers, Interrupted, Single
    <3>3. msg.type = "DEV_OPEN"
      BY <3>2 DEF FsInv, ServeInv, Single
    <3>4. hd_pc' \in {"bsy", "reply"}
      <4>1. ASSUME NEW info, NEW tbl, NEW i, PrimaryRound(info, tbl, i) PROVE hd_pc' \in {"bsy", "reply"}
        BY <4>1, RoundServes
      <4> QED BY <2>5, <4>1 DEF Identified, PrimaryTable, ExtendedTable, Begin
    <3> QED BY <1>1, <3>1, <3>3, <3>4 DEF CopyInv
  <2> QED BY <1>8, <2>2, <2>3, <2>4, <2>5
<1> QED BY <1>2, <1>3, <1>4, <1>5, <1>6, <1>7, <1>8 DEF HdStep

\* FS fills fsbuf only between two requests.
LEMMA CopyAsked ==
  ASSUME NEW D, HInv, FsInv, CopyInv(D), FsStep
  PROVE  CopyInv(D)'
<1>1. mbox = NoRequest /\ hd_pc' = "receive"
  BY Alternate DEF FsStep
<1>2. fs'.pc \in {"move", "written", "sync", "synced"} => mbox' # NoRequest
  <2>1. FsCall => fs'.pc \in {"idle", "fetch"}
    BY DEF FsCall, Start
  <2>2. FsInit => fs'.pc \in {"geo", "opened"}
    BY DEF FsInit, AtRest
  <2>3. Ready => fs'.pc = "idle"
    BY DEF Ready, Return, AtRest
  <2>4. MoveOut \/ Written => fs'.pc = "fetch"
    BY DEF MoveOut, Written, Advance, NextRound, FsInv, FsNumbers
  <2>5. Fetch \/ MoveIn \/ Sync => mbox' # NoRequest
    BY DEF Fetch, MoveIn, Sync, Send, Request, NoRequest
  <2>6. Finish => fs'.pc = "idle" \/ mbox' # NoRequest
    BY DEF Finish, Return, AtRest, Send, Request, NoRequest
  <2> QED BY <2>1, <2>2, <2>3, <2>4, <2>5, <2>6 DEF FsStep
<1>3. fsbuf' = [k \in 0 .. FsBufSects * SECTOR_SIZE - 1 |-> fsbuf'[k]]
  <2> DEFINE S == 0 .. FsBufSects * SECTOR_SIZE - 1
  <2>1. fsbuf = [k \in S |-> fsbuf[k]]
    BY DEF CopyInv
  <2> HIDE DEF S
  <2>2. CASE UNCHANGED fsbuf
    BY <2>1, <2>2 DEF S
  <2>3. CASE MoveIn
    <3>1. \E g : fsbuf' = [k \in DOMAIN fsbuf |-> g[k]]
      <4> DEFINE g == [k \in DOMAIN fsbuf |->
                 IF k \in fs.off .. fs.off + Bytes - 1
                 THEN Payload(ops - 1, fs.done + k - fs.off) ELSE fsbuf[k]]
      <4>1. fsbuf' = g
        BY <2>3 DEF MoveIn
      <4>2. g = [k \in DOMAIN fsbuf |-> g[k]]
        OBVIOUS
      <4> HIDE DEF g
      <4> QED BY <4>1, <4>2
    <3>2. DOMAIN fsbuf = S
      BY <2>1
    <3> QED BY <3>1, <3>2 DEF S
  <2>4. CASE Sync
    <3>1. fsbuf' = [fsbuf EXCEPT ![0] = i_size]
      BY <2>4 DEF Sync
    <3> QED BY <2>1, <3>1 DEF S
  <2>5. UNCHANGED fsbuf \/ MoveIn \/ Sync
    BY DEF FsStep, MoveOut, Written, Finish, Ready
  <2> QED BY <2>2, <2>3, <2>4, <2>5 DEF S
<1> QED BY <1>1, <1>2, <1>3 DEF CopyInv

\* The request for sectors that HD serves.
LEMMA SectorsAsked ==
  ASSUME FsInv, mbox # NoRequest
  PROVE  /\ mbox.type = "DEV_READ" => fs.pc \in {"move", "sync"}
         /\ mbox.type = "DEV_WRITE" =>
              \/ fs.pc = "written" /\ mbox.sect = fs.i /\ mbox.n = fs.chunk
              \/ fs.pc = "synced" /\ mbox.sect = InodeSect /\ mbox.n = 1
BY DEF FsInv, FsMailbox, FsPlaces, Asked, Request

\* A chunk that is written back is on the disk, and has not the i-node.
LEMMA ChunkSectors ==
  ASSUME NEW D, DiskFits(D), DisksFit, FsInv, fs.pc \in {"move", "written"}, fs.type = "WRITE",
         NEW j \in 0 .. fs.chunk - 1
  PROVE  LET s == Base(D) + fs.i + j + 1
         IN  s \in DOMAIN D /\ DOMAIN D[s] = 1 .. SECTOR_SIZE /\ s # InodeAt(D)
<1>1. /\ fs.i \in Nat /\ fs.i >= StartSect /\ fs.i <= fs.max /\ fs.max \in Nat
      /\ fs.chunk \in 1 .. FsBufSects /\ FsBufSects \in Nat /\ StartSect \in Nat /\ NrSects \in Nat
      /\ fs.max <= StartSect + NrSects /\ InodeSect \in Nat
  BY HdAssumption, FsRdwtAssumption DEF FsInv, FsNumbers
<1>2. fs.i + j \in StartSect .. StartSect + NrSects + FsBufSects - 1
  BY <1>1
<1>3. fs.i + j # InodeSect
  BY <1>2 DEF DisksFit
<1>4. Base(D) \in Nat
  BY DEF DiskFits, Base
<1>5. Base(D) + (fs.i + j) \in RootSects(D)
  BY <1>2 DEF RootSects, Base
<1>6. (Base(D) + (fs.i + j)) + 1 \in DOMAIN D /\ DOMAIN D[(Base(D) + (fs.i + j)) + 1] = 1 .. SECTOR_SIZE
  BY <1>5 DEF DiskFits
<1>7. (Base(D) + (fs.i + j)) + 1 = Base(D) + fs.i + j + 1
  BY <1>1, <1>4
<1>8. Base(D) + fs.i + j + 1 # InodeAt(D)
  BY <1>1, <1>3, <1>4 DEF InodeAt
<1> QED BY <1>6, <1>7, <1>8

\* So is the sector of the i-node.
LEMMA InodeSector ==
  ASSUME NEW D, DiskFits(D)
  PROVE  /\ InodeAt(D) \in DOMAIN D /\ DOMAIN D[InodeAt(D)] = 1 .. SECTOR_SIZE
         /\ 1 \in 1 .. SECTOR_SIZE /\ InodeAt(D) = Base(D) + InodeSect + 0 + 1
<1>1. Base(D) + InodeSect \in RootSects(D) /\ Base(D) \in Nat /\ InodeSect \in Nat
  BY FsRdwtAssumption DEF RootSects, Base, DiskFits
<1>2. (Base(D) + InodeSect) + 1 = InodeAt(D) /\ InodeAt(D) = Base(D) + InodeSect + 0 + 1
  BY <1>1 DEF InodeAt
<1> QED BY SMTT(30), <1>1, <1>2, HdAssumption DEF DiskFits

\* The first sector of fsbuf, when it is that of the i-node.
LEMMA SameInode ==
  ASSUME NEW D, DiskFits(D), Same(D, InodeSect, 1), NEW b \in 1 .. SECTOR_SIZE
  PROVE  fsbuf[b - 1] = disk[InodeAt(D)][b]
<1>1. 0 \in 0 .. 1 - 1 /\ 0 * SECTOR_SIZE + (b - 1) = b - 1
  BY HdAssumption
<1>2. fsbuf[0 * SECTOR_SIZE + (b - 1)] = disk[Base(D) + InodeSect + 0 + 1][b]
  BY <1>1 DEF Same
<1> QED BY <1>1, <1>2, InodeSector

\* FS changes the size in memory before that on the disk.
LEMMA SizeAsked ==
  ASSUME NEW D, DiskFits(D), HInv, FsInv, CopyInv(D), SizeInv(D), FsStep
  PROVE  SizeInv(D)'
<1>1. disk' = disk /\ mbox = NoRequest
  BY Alternate DEF FsStep
<1>2. CASE FsCall \/ FsInit \/ Fetch \/ MoveOut \/ MoveIn \/ Written
  <2>1. i_size' = i_size /\ fs.pc \notin {"sync", "synced"}
    BY <1>2 DEF FsCall, Start, FsInit, Fetch, MoveOut, MoveIn, Written
  <2>2. fs'.pc \notin {"sync", "synced"}
    <3>1. FsCall \/ FsInit => fs'.pc \in {"idle", "fetch", "geo", "opened"}
      BY DEF FsCall, Start, FsInit, AtRest
    <3>2. Fetch \/ MoveOut \/ MoveIn \/ Written => fs'.pc \in {"fetch", "move", "written"}
      BY DEF Fetch, MoveOut, MoveIn, Written, Advance, NextRound, FsInv, FsNumbers
    <3> QED BY <1>2, <3>1, <3>2
  <2> QED BY <1>1, <2>1, <2>2 DEF SizeInv, InodeAt
<1>3. CASE Finish
  BY <1>1, <1>3 DEF Finish, Return, AtRest, SizeInv, InodeAt, FsInv, FsNumbers
<1>4. CASE Sync
  <2>1. fs.pc = "sync" /\ fs'.pc = "synced" /\ i_size' = i_size /\ fsbuf' = [fsbuf EXCEPT ![0] = i_size]
    BY <1>4 DEF Sync, FsInv, FsNumbers
  <2>2. DOMAIN fsbuf = 0 .. FsBufSects * SECTOR_SIZE - 1
    BY DEF CopyInv
  <2>3. 0 \in 0 .. FsBufSects * SECTOR_SIZE - 1
    BY HdAssumption
  <2>4. fsbuf'[0] = i_size /\ \A k : k # 0 => fsbuf'[k] = fsbuf[k]
    BY <2>1, <2>2, <2>3
  <2>5. Same(D, InodeSect, 1)
    BY <1>1, <2>1 DEF CopyInv
  <2>6. ASSUME NEW b \in 2 .. SECTOR_SIZE PROVE fsbuf'[b - 1] = disk[InodeAt(D)][b]
    <3>1. b \in 1 .. SECTOR_SIZE /\ b - 1 # 0
      BY HdAssumption
    <3> QED BY <2>4, <2>5, <3>1, SameInode
  <2> QED BY <1>1, <2>1, <2>4, <2>6 DEF SizeInv, InodeAt
<1>5. CASE Ready
  <2>1. fs.pc \in {"opened", "synced"} /\ i_size' = i_size
    BY <1>5 DEF Ready
  <2>2. fs.pc = "synced" => disk[InodeAt(D)][1] = i_size
    <3>1. SUFFICES ASSUME fs.pc = "synced" PROVE disk[InodeAt(D)][1] = i_size
      OBVIOUS
    <3>2. Same(D, InodeSect, 1) /\ fsbuf[0] = i_size
      BY <1>1, <3>1 DEF CopyInv, SizeInv
    <3>3. 1 \in 1 .. SECTOR_SIZE /\ 1 - 1 = 0
      BY HdAssumption
    <3> QED BY <3>2, <3>3, SameInode
  <2>3. disk[InodeAt(D)][1] = i_size
    BY <2>1, <2>2 DEF SizeInv
  <2>4. fs'.pc = "idle"
    BY <1>5 DEF Ready, Return, AtRest
  <2> QED BY <1>1, <2>1, <2>3, <2>4 DEF SizeInv, InodeAt
<1> QED BY <1>2, <1>3, <1>4, <1>5 DEF FsStep

\* Where a sector is written: in the chunk, or that of the i-node.
LEMMA WrittenPlace ==
  ASSUME NEW D, DiskFits(D), DisksFit, HInv, FsInv, AtSector(D), Shape(D), PortWrite
  PROVE  \E j \in Nat :
           LET x == Base(D) + msg.sect + j + 1
           IN  /\ \/ /\ fs.pc = "written" /\ msg.sect = fs.i /\ j \in 0 .. fs.chunk - 1
                     /\ x # InodeAt(D)
                  \/ fs.pc = "synced" /\ j = 0 /\ x = InodeAt(D)
               /\ x \in DOMAIN D
               /\ \A s \in DOMAIN D : disk'[s] =
                    IF s = x THEN [b \in 1 .. SECTOR_SIZE |-> fsbuf[j * SECTOR_SIZE + (b - 1)]]
                    ELSE disk[s]
<1>1. PICK j : j = msg.n - left
  OBVIOUS
<1>2. /\ msg = mbox /\ msg.type = "DEV_WRITE" /\ mbox # NoRequest
      /\ left \in 1 .. msg.n /\ msg.n \in Nat
      /\ Base(D) + msg.sect + j + 1 \in DOMAIN D
      /\ \A s \in DOMAIN D : disk'[s] =
           IF s = Base(D) + msg.sect + j + 1
           THEN [b \in 1 .. SECTOR_SIZE |-> fsbuf[j * SECTOR_SIZE + (b - 1)]] ELSE disk[s]
  BY <1>1, WriteEffect
<1>3. j \in Nat /\ j \in 0 .. msg.n - 1
  BY <1>1, <1>2
<1>4. \/ fs.pc = "written" /\ msg.sect = fs.i /\ msg.n = fs.chunk
      \/ fs.pc = "synced" /\ msg.sect = InodeSect /\ msg.n = 1
  BY <1>2, SectorsAsked
<1>5. CASE fs.pc = "written" /\ msg.sect = fs.i /\ msg.n = fs.chunk
  <2>1. fs.type = "WRITE" /\ j \in 0 .. fs.chunk - 1
    BY <1>3, <1>5 DEF FsInv, FsNumbers
  <2>2. Base(D) + fs.i + j + 1 # InodeAt(D)
    BY <1>5, <2>1, ChunkSectors
  <2> QED BY <1>2, <1>3, <1>5, <2>1, <2>2
<1>6. CASE fs.pc = "synced" /\ msg.sect = InodeSect /\ msg.n = 1
  <2>1. j = 0
    BY <1>3, <1>6
  <2>2. Base(D) + msg.sect + j + 1 = InodeAt(D)
    BY <1>6, <2>1, InodeSector
  <2> QED BY <1>2, <1>3, <1>6, <2>1, <2>2
<1> QED BY <1>4, <1>5, <1>6

\* Steps of HD that do not transfer sectors of the file.
LEMMA NoTransfer ==
  ASSUME HdStep \/ Tick \/ DriveReady, ~SectorRead, ~PortWrite
  PROVE  UNCHANGED <<disk, fsbuf>>
BY DEF HdStep, Tick, DriveReady, Receive, HdOpen, HdIoctl, HdRdwt, CommandOut, WaitFails,
       Identified, PrimaryTable, ExtendedTable, SectorWritten, HdReply

\* The size changes on the disk when FS has asked for it.
LEMMA SizeKept ==
  ASSUME NEW D, DiskFits(D), DisksFit, HInv, FsInv, AtSector(D), Shape(D), CopyInv(D), SizeInv(D),
         HdStep \/ Tick \/ DriveReady, UNCHANGED fsvars
  PROVE  SizeInv(D)'
<1>1. fs' = fs /\ i_size' = i_size
  BY DEF fsvars
<1>2. CASE SectorRead
  <2>1. msg = mbox /\ msg.type = "DEV_READ" /\ mbox # NoRequest /\ disk' = disk
    BY <1>2, ReadEffect
  <2>2. fs.pc \in {"move", "sync"}
    BY <2>1, SectorsAsked
  <2> QED BY <1>1, <2>1, <2>2 DEF SizeInv, InodeAt
<1>3. CASE PortWrite
  <2>1. fsbuf' = fsbuf
    BY <1>3 DEF PortWrite
  <2>2. PICK j \in Nat :
           LET x == Base(D) + msg.sect + j + 1
           IN  /\ \/ /\ fs.pc = "written" /\ msg.sect = fs.i /\ j \in 0 .. fs.chunk - 1
                     /\ x # InodeAt(D)
                  \/ fs.pc = "synced" /\ j = 0 /\ x = InodeAt(D)
               /\ x \in DOMAIN D
               /\ \A s \in DOMAIN D : disk'[s] =
                    IF s = x THEN [b \in 1 .. SECTOR_SIZE |-> fsbuf[j * SECTOR_SIZE + (b - 1)]]
                    ELSE disk[s]
    BY <1>3, WrittenPlace
  <2>3. InodeAt(D) \in DOMAIN D
    BY InodeSector
  <2>4. CASE fs.pc = "written"
    <3>1. disk'[InodeAt(D)] = disk[InodeAt(D)]
      BY <2>2, <2>3, <2>4
    <3> QED BY <1>1, <2>4, <3>1 DEF SizeInv, InodeAt
  <2>5. CASE fs.pc = "synced"
    <3>1. disk'[InodeAt(D)] = [b \in 1 .. SECTOR_SIZE |-> fsbuf[0 * SECTOR_SIZE + (b - 1)]]
      BY <2>2, <2>3, <2>5
    <3>2. \A b \in 2 .. SECTOR_SIZE : disk'[InodeAt(D)][b] = fsbuf[b - 1]
      <4>1. \A b \in 2 .. SECTOR_SIZE : b \in 1 .. SECTOR_SIZE /\ 0 * SECTOR_SIZE + (b - 1) = b - 1
        BY HdAssumption
      <4> QED BY <3>1, <4>1
    <3> QED BY <1>1, <2>1, <2>5, <3>2 DEF SizeInv, InodeAt
  <2> QED BY <2>2, <2>4, <2>5
<1>4. CASE ~SectorRead /\ ~PortWrite
  <2>1. UNCHANGED <<disk, fsbuf>>
    BY <1>4, NoTransfer
  <2> QED BY <1>1, <2>1 DEF SizeInv, InodeAt
<1> QED BY <1>2, <1>3, <1>4

\* What HD writes is what the call is to write.
LEMMA GoalKept ==
  ASSUME NEW D, DiskFits(D), DisksFit, HInv, FsInv, AtSector(D), Shape(D), CopyInv(D), SizeInv(D),
         GoalInv(D), HdStep \/ Tick \/ DriveReady, UNCHANGED fsvars
  PROVE  GoalInv(D)'
<1>1. UNCHANGED <<fs, fd_pos, i_size, ubuf, cnt, ops, goal>> /\ mbox # NoRequest
  BY Alternate DEF fsvars
<1>2. fs.pc # "idle"
  BY <1>1 DEF FsInv, FsMailbox
<1>3. TransfersExact'
  BY <1>1, <1>2 DEF TransfersExact
<1>4. SUFFICES ASSUME goal.within, Calling PROVE CallInv(D)'
  BY <1>1, <1>3 DEF GoalInv, Calling, InLoop
<1>5. CallInv(D)
  BY <1>4 DEF GoalInv
<1>6. CallNumbers'
  BY <1>1, <1>5 DEF CallInv, CallNumbers, InLoop
<1>7. CASE ~PortWrite
  <2>1. disk' = disk /\ (fs.pc = "written" => fsbuf' = fsbuf)
    <3>1. CASE SectorRead
      <4>1. msg = mbox /\ msg.type = "DEV_READ" /\ mbox # NoRequest /\ disk' = disk
        BY <3>1, ReadEffect
      <4> QED BY <4>1, SectorsAsked
    <3>2. CASE ~SectorRead
      BY <1>7, <3>2, NoTransfer
    <3> QED BY <3>1, <3>2
  <2>2. IF fs'.type = "READ" THEN ReadInv(D)' ELSE WriteInv(D)'
    <3>1. CASE fs.type = "READ"
      BY <1>1, <1>5, <2>1, <3>1 DEF CallInv, ReadInv, ByteAt
    <3>2. CASE fs.type # "READ"
      BY <1>1, <1>5, <2>1, <3>2 DEF CallInv, WriteInv, Waits, At, InodeAt
    <3> QED BY <1>1, <3>1, <3>2
  <2> QED BY <1>1, <1>5, <1>6, <2>1, <2>2 DEF CallInv
<1>8. CASE PortWrite
  <2>1. fsbuf' = fsbuf
    BY <1>8 DEF PortWrite
  <2>2. PICK j \in Nat :
           LET x == Base(D) + msg.sect + j + 1
           IN  /\ \/ /\ fs.pc = "written" /\ msg.sect = fs.i /\ j \in 0 .. fs.chunk - 1
                     /\ x # InodeAt(D)
                  \/ fs.pc = "synced" /\ j = 0 /\ x = InodeAt(D)
               /\ x \in DOMAIN D
               /\ \A s \in DOMAIN D : disk'[s] =
                    IF s = x THEN [b \in 1 .. SECTOR_SIZE |-> fsbuf[j * SECTOR_SIZE + (b - 1)]]
                    ELSE disk[s]
    BY <1>8, WrittenPlace
  <2>3. PICK x : x = Base(D) + msg.sect + j + 1
    OBVIOUS
  <2>4. fs.type = "WRITE"
    BY <1>5, <2>2 DEF CallInv, CallNumbers, FsInv, FsNumbers
  <2>5. WriteInv(D)
    BY <1>5, <2>4 DEF CallInv
  <2>6. ASSUME NEW b \in DOMAIN D[x], ~(x = InodeAt(D) /\ b = 1)
        PROVE  disk'[x][b] = goal.disk[x][b]
    <3>1. b \in 1 .. SECTOR_SIZE
      BY <2>2, <2>3 DEF DiskFits
    <3>2. disk'[x][b] = fsbuf[j * SECTOR_SIZE + (b - 1)]
      BY <2>2, <2>3, <3>1
    <3>3. CASE fs.pc = "written"
      BY <1>5, <2>2, <2>3, <3>1, <3>2, <3>3 DEF CallInv
    <3>4. CASE fs.pc = "synced"
      <4>1. j * SECTOR_SIZE + (b - 1) = b - 1 /\ b \in 2 .. SECTOR_SIZE /\ x = InodeAt(D)
        BY <2>2, <2>3, <2>6, <3>1, <3>4, HdAssumption
      <4>2. fsbuf[b - 1] = disk[x][b]
        BY <3>4, <4>1 DEF SizeInv
      <4>3. disk[x][b] = goal.disk[x][b]
        BY <2>2, <2>3, <2>5, <2>6, <4>1 DEF WriteInv, Waits
      <4> QED BY <3>2, <4>1, <4>2, <4>3
    <3> QED BY <2>2, <3>3, <3>4
  <2>7. ASSUME NEW s \in DOMAIN D, NEW b \in DOMAIN D[s],
               ~Waits(D, s, b), ~(s = InodeAt(D) /\ b = 1)
        PROVE  disk'[s][b] = goal.disk[s][b]
    <3>1. CASE s = x
      BY <2>6, <2>7, <3>1
    <3>2. CASE s # x
      <4>1. disk'[s] = disk[s]
        BY <2>2, <2>3, <3>2
      <4>2. disk[s][b] = goal.disk[s][b]
        BY <2>5, <2>7 DEF WriteInv
      <4> QED BY <4>1, <4>2
    <3> QED BY <3>1, <3>2
  <2>8. \A s, b : At(D, s, b)' = At(D, s, b) /\ (Waits(D, s, b)' <=> Waits(D, s, b))
    BY <1>1 DEF At, Waits, InodeAt
  <2>9. WriteInv(D)'
    BY <1>1, <2>5, <2>7, <2>8 DEF WriteInv, InodeAt
  <2> QED BY <1>1, <1>5, <1>6, <2>1, <2>4, <2>9 DEF CallInv
<1> QED BY <1>7, <1>8

-----------------------------------------------------------------------------
(* The steps of FS.                                                        *)

\* Where the file is on the disk.
LEMMA RootIs ==
  ASSUME NEW D, DiskFits(D), DisksFit, DInv(D), fs.pc \notin {"open", "geo"}
  PROVE  /\ PartBase = Base(D) /\ FirstByte = (Base(D) + StartSect) * SECTOR_SIZE
         /\ Base(D) \in Nat /\ (Base(D) + StartSect) * SECTOR_SIZE \in Nat
<1>1. RootKnown
  BY DEF DisksFit, RootKnown, Prims
<1>2. AllIn(hd_info, D)
  BY DEF DInv, InfoInv, OpenedInv
<1>3. PartBase = Base(D) /\ Base(D) \in Nat
  BY <1>1, <1>2, RootFound DEF PartBase, Base
<1>4. Base(D) + StartSect \in Nat
  BY <1>3, FsRdwtAssumption
<1> QED BY <1>3, <1>4, HdAssumption DEF FirstByte

\* A call that ends within the file comes.
LEMMA StartNumbers ==
  ASSUME FsInv, NEW fd \in Fds, fd \in RdwrFds, NEW type \in {"READ", "WRITE"}, NEW len \in Lengths,
         Start(fd, type, len), goal'.within
  PROVE  /\ CallNumbers' /\ fs'.pc = "fetch" /\ fs'.type = type /\ fs'.done = 0
         /\ goal' = Goal(fd, type, len) /\ goal'.within /\ fd_pos[fd] \in Nat /\ len \in Nat
         /\ ubuf' = <<>> /\ i_size' = i_size /\ ops' = ops + 1 /\ i_size \in Nat
<1> DEFINE pos == fd_pos[fd]
           N == SECTOR_SIZE
<1>1. /\ fs' = [pc |-> "fetch", type |-> type, fd |-> fd, i |-> StartSect + (pos \div N),
                max |-> StartSect + (PosEnd(type, pos, len) \div N),
                chunk |-> Least((StartSect + (PosEnd(type, pos, len) \div N)) - (StartSect + (pos \div N)) + 1,
                                FsBufSects),
                off |-> pos % N, done |-> 0, left |-> len]
      /\ goal' = Goal(fd, type, len) /\ UNCHANGED <<fd_pos, i_size>>
      /\ ubuf' = <<>> /\ ops' = ops + 1
  BY DEF Start
<1>2. pos \in Nat /\ len \in Nat /\ i_size \in Nat /\ N \in Nat \ {0} /\ StartSect \in Nat
      /\ NrSects * N \in Nat
  BY FsRdwtAssumption, HdAssumption DEF FsInv, FsNumbers
<1>3. /\ goal'.within <=> pos + len <= (IF type = "READ" THEN i_size ELSE Capacity)
      /\ goal'.fd = fd /\ goal'.pos = pos + len /\ goal'.cnt = len
      /\ goal'.size = IF type = "WRITE" /\ pos + len > i_size THEN pos + len ELSE i_size
  BY <1>1 DEF Goal
<1>4. PosEnd(type, pos, len) = pos + len
  BY <1>2, <1>3 DEF PosEnd, Least, Capacity
<1> HIDE DEF pos
<1>5. pos = (pos \div N) * N + (pos % N)
  <2>1. (pos \div N) \in Nat /\ (pos % N) \in 0 .. N - 1 /\ pos = N * (pos \div N) + (pos % N)
    BY <1>2
  <2> DEFINE q == pos \div N
  <2>2. q \in Nat /\ pos = N * q + (pos % N)
    BY <2>1
  <2> HIDE DEF q
  <2>3. N * q = q * N
    BY <1>2, <2>2
  <2> QED BY <2>2, <2>3 DEF q
<1>6. (StartSect + (pos \div N)) - StartSect = pos \div N
  <2>1. (pos \div N) \in Nat
    BY <1>2
  <2> QED BY <1>2, <2>1
<1>7. fs'.pc = "fetch" /\ fs'.type = type /\ fs'.fd = fd /\ fs'.done = 0 /\ fs'.left = len
      /\ fs'.i = StartSect + (pos \div N) /\ fs'.off = pos % N /\ fs'.max = StartSect + ((pos + len) \div N)
  BY <1>1, <1>4
<1>8. fd_pos'[fs'.fd] = pos
  BY <1>1, <1>7 DEF pos
<1>9. pos + len - len = pos /\ len <= pos + len /\ pos + len \in Nat /\ 0 + len = len /\ 0 \in Nat
  BY <1>2
<1>10. pos = (fs'.i - StartSect) * N + fs'.off
  BY <1>5, <1>6, <1>7
<1>11. CallNumbers'
  BY <1>1, <1>2, <1>3, <1>7, <1>8, <1>9, <1>10 DEF CallNumbers, InLoop
<1> QED BY <1>1, <1>2, <1>7, <1>11 DEF pos

\* Where byte b of sector j of the chunk is in the transfer.
LEMMA AtInChunk ==
  ASSUME NEW D, DiskFits(D), FsInv, CallNumbers, InLoop, fs.left # 0, NEW j \in Int, NEW b \in Int
  PROVE  /\ At(D, Base(D) + fs.i + j + 1, b) = fs.done + ((j * SECTOR_SIZE + (b - 1)) - fs.off)
         /\ j * SECTOR_SIZE \in Int
<1> DEFINE N == SECTOR_SIZE
<1>1. /\ N \in Nat \ {0} /\ Base(D) \in Nat /\ StartSect \in Nat /\ fs.i \in Nat
      /\ fs.off \in Nat /\ fs.done \in Nat /\ fs.left \in Nat /\ goal.cnt \in Nat /\ goal.pos \in Nat
      /\ fs.done + fs.left = goal.cnt /\ fd_pos[fs.fd] + fs.left = goal.pos /\ fd_pos[fs.fd] \in Nat
      /\ fd_pos[fs.fd] = (fs.i - StartSect) * N + fs.off
  BY HdAssumption, FsRdwtAssumption DEF FsInv, FsNumbers, CallNumbers, InLoop, DiskFits, Base
<1>2. PICK u : u = fs.i - StartSect
  OBVIOUS
<1>3. PICK f : f = Base(D) + StartSect
  OBVIOUS
<1>4. u \in Int /\ f \in Nat /\ (Base(D) + fs.i + j + 1) - 1 = (f + u) + j
  BY <1>1, <1>2, <1>3
<1>5. PICK jn : jn = j * N
  OBVIOUS
<1>6. PICK un : un = u * N
  OBVIOUS
<1>7. PICK fn : fn = f * N
  OBVIOUS
<1>8. jn \in Int /\ un \in Int /\ fn \in Int
  BY <1>1, <1>4, <1>5, <1>6, <1>7
<1>9. ((f + u) + j) * N = (fn + un) + jn
  BY <1>1, <1>4, <1>5, <1>6, <1>7
<1>10. goal.pos - goal.cnt = (un + fs.off) - fs.done
  BY <1>1, <1>2, <1>6, <1>8
<1>11. (((fn + un) + jn) + (b - 1) - fn) - (goal.pos - goal.cnt) = fs.done + ((jn + (b - 1)) - fs.off)
  BY <1>1, <1>8, <1>10
<1>12. At(D, Base(D) + fs.i + j + 1, b)
         = (((fn + un) + jn) + (b - 1) - fn) - (goal.pos - goal.cnt)
  <2>1. At(D, Base(D) + fs.i + j + 1, b) = ((((f + u) + j) * N + (b - 1)) - fn) - (goal.pos - goal.cnt)
    BY <1>3, <1>4, <1>7 DEF At
  <2> QED BY <1>1, <1>8, <1>9, <2>1
<1> QED BY <1>5, <1>8, <1>11, <1>12

\* A round of the loop moves the place by Bytes.
LEMMA AdvanceNumbers ==
  ASSUME FsInv, CallNumbers, fs.pc \in {"move", "written"}, Advance, UNCHANGED <<goal, i_size>>
  PROVE  /\ CallNumbers' /\ fs'.pc = "fetch" /\ fs'.done = fs.done + Bytes
         /\ fs'.type = fs.type /\ Bytes \in Nat /\ Bytes <= fs.left
<1> DEFINE N == SECTOR_SIZE
<1>1. /\ Bytes \in Nat /\ Bytes <= fs.left /\ fs.chunk \in 1 .. FsBufSects
      /\ Bytes = fs.left \/ fs.off + Bytes = fs.chunk * N
      /\ fs.chunk * N \in Nat
  BY BytesMoved DEF FsInv
<1>2. /\ fs.fd \in Fds /\ fs.i \in Nat /\ fs.left \in Nat /\ fs.done \in Nat /\ fs.off \in Nat
      /\ fd_pos \in [Fds -> Nat] /\ N \in Nat /\ FsBufSects \in Nat /\ StartSect \in Nat
  BY HdAssumption, FsRdwtAssumption DEF FsInv, FsNumbers
<1>3. fs' = [pc |-> "fetch", type |-> fs.type, fd |-> fs.fd, i |-> fs.i + fs.chunk,
             max |-> fs.max, chunk |-> fs.chunk, off |-> 0,
             done |-> fs.done + Bytes, left |-> fs.left - Bytes]
  BY DEF Advance, NextRound, FsInv, FsNumbers
<1>4. fd_pos'[fs.fd] = fd_pos[fs.fd] + Bytes /\ fd_pos[fs.fd] \in Nat
  BY <1>2 DEF Advance
<1>5. /\ goal.fd = fs.fd /\ goal.cnt \in Nat /\ goal.pos \in Nat /\ goal.cnt <= goal.pos
      /\ fs.done + fs.left = goal.cnt /\ fd_pos[fs.fd] + fs.left = goal.pos
      /\ fs.max = StartSect + (goal.pos \div N)
      /\ fs.left = 0 \/ fd_pos[fs.fd] = (fs.i - StartSect) * N + fs.off
      /\ goal.size = IF fs.type = "WRITE" /\ goal.pos > i_size THEN goal.pos ELSE i_size
  BY DEF CallNumbers, InLoop
<1>6. /\ fs.done + Bytes \in Nat /\ fs.left - Bytes \in Nat
      /\ (fs.done + Bytes) + (fs.left - Bytes) = goal.cnt
      /\ (fd_pos[fs.fd] + Bytes) + (fs.left - Bytes) = goal.pos
  BY <1>1, <1>2, <1>4, <1>5
<1>7. fs.left - Bytes = 0 \/ fd_pos[fs.fd] + Bytes = ((fs.i + fs.chunk) - StartSect) * N + 0
  <2>1. SUFFICES ASSUME Bytes # fs.left
                 PROVE  fd_pos[fs.fd] + Bytes = ((fs.i + fs.chunk) - StartSect) * N + 0
    BY <1>1, <1>2
  <2>2. PICK u : u = fs.i - StartSect
    OBVIOUS
  <2>3. u \in Int /\ fs.chunk \in Nat /\ (fs.i + fs.chunk) - StartSect = u + fs.chunk
    BY <1>1, <1>2, <2>2
  <2>4. (u + fs.chunk) * N = u * N + fs.chunk * N /\ u * N \in Int
    BY <1>2, <2>3
  <2>5. fd_pos[fs.fd] = u * N + fs.off /\ fs.off + Bytes = fs.chunk * N
    BY <1>1, <1>2, <1>5, <2>1, <2>2
  <2>6. fd_pos[fs.fd] + Bytes = u * N + fs.chunk * N
    BY <1>1, <1>2, <2>4, <2>5
  <2>7. u * N + fs.chunk * N \in Int
    BY <1>1, <2>4
  <2> QED BY <2>3, <2>4, <2>6, <2>7
<1>8. CallNumbers'
  BY <1>2, <1>3, <1>4, <1>5, <1>6, <1>7 DEF CallNumbers, InLoop
<1> QED BY <1>1, <1>3, <1>8

\* Two pieces of data, one behind the other.
LEMMA Joined ==
  ASSUME NEW n \in Nat, NEW m \in Nat, NEW d, NEW t,
         \A k \in 1 .. m : t[k] = d[n + k]
  PROVE  [k \in 1 .. n |-> d[k]] \o [k \in 1 .. m |-> t[k]] = [k \in 1 .. n + m |-> d[k]]
<1> DEFINE S == {d[k] : k \in 1 .. n + m}
           r == [k \in 1 .. n + m |-> d[k]]
           s == [k \in 1 .. n |-> d[k]]
           v == [k \in 1 .. m |-> t[k]]
<1>1. \A k \in 1 .. n : k \in 1 .. n + m
  OBVIOUS
<1>2. \A k \in 1 .. m : n + k \in 1 .. n + m
  OBVIOUS
<1>3. s \in Seq(S) /\ Len(s) = n
  <2>1. s \in [1 .. n -> S]
    BY <1>1
  <2> HIDE DEF S, s
  <2> QED BY <2>1
<1>4. v \in Seq(S) /\ Len(v) = m
  <2>1. v \in [1 .. m -> S]
    BY <1>2
  <2> HIDE DEF S, v
  <2> QED BY <2>1
<1>5. r \in Seq(S) /\ Len(r) = n + m
  <2>1. r \in [1 .. n + m -> S] /\ n + m \in Nat
    OBVIOUS
  <2> HIDE DEF S, r
  <2> QED BY <2>1
<1>6. /\ \A k \in 1 .. n + m : r[k] = d[k]
      /\ \A k \in 1 .. n : s[k] = d[k]
      /\ \A k \in 1 .. m : v[k] = d[n + k]
  OBVIOUS
<1> HIDE DEF S, r, s, v
<1>7. s \o v \in Seq(S) /\ Len(s \o v) = n + m
      /\ \A k \in 1 .. n + m : (s \o v)[k] = IF k <= n THEN s[k] ELSE v[k - n]
  BY <1>3, <1>4, ConcatProperties
<1>8. ASSUME NEW k \in 1 .. n + m PROVE (s \o v)[k] = r[k]
  <2>1. CASE k <= n
    BY <1>6, <1>7, <2>1
  <2>2. CASE ~(k <= n)
    <3>1. k - n \in 1 .. m /\ n + (k - n) = k
      BY <2>2
    <3> QED BY <1>6, <1>7, <2>2, <3>1
  <2> QED BY <2>1, <2>2
<1>9. s \o v = r
  BY <1>5, <1>7, <1>8, SeqEqual
<1> QED BY <1>9 DEF r, s, v

\* A READ copies the bytes of the file that come next.
LEMMA MoveOutGoal ==
  ASSUME NEW D, DiskFits(D), FsInv, CopyInv(D), CallInv(D), MoveOut, UNCHANGED disk
  PROVE  CallInv(D)'
<1> DEFINE N == SECTOR_SIZE
           piece == [k \in 1 .. Bytes |-> fsbuf[fs.off + k - 1]]
           start == goal.pos - goal.cnt
<1>1. /\ fs.pc = "move" /\ fs.type = "READ" /\ mbox = NoRequest /\ Advance
      /\ UNCHANGED <<i_size, cnt, ops, goal, mbox, fsbuf, disk>>
      /\ ubuf' = ubuf \o piece
  BY DEF MoveOut
<1>2. CallNumbers /\ ReadInv(D)
  BY <1>1 DEF CallInv
<1>3. /\ CallNumbers' /\ fs'.pc = "fetch" /\ fs'.done = fs.done + Bytes
      /\ fs'.type = fs.type /\ Bytes \in Nat /\ Bytes <= fs.left
  BY <1>1, <1>2, AdvanceNumbers
<1>4. /\ fs.left \in Nat /\ fs.done \in Nat /\ fs.done + fs.left = goal.cnt
      /\ goal.cnt \in Nat /\ goal.pos \in Nat /\ goal.cnt <= goal.pos
      /\ fd_pos[fs.fd] + fs.left = goal.pos /\ fd_pos[fs.fd] \in Nat
  BY <1>2 DEF CallNumbers, FsInv, FsNumbers
<1>5. /\ N \in Nat \ {0} /\ fs.i \in Nat /\ fs.off \in Nat /\ StartSect \in Nat /\ Base(D) \in Nat
      /\ fs.chunk \in Nat /\ fs.off + Bytes <= fs.chunk * N /\ fs.chunk * N \in Nat
  <2>1. /\ fs.chunk \in 1 .. FsBufSects /\ fs.off + Bytes <= fs.chunk * N /\ fs.chunk * N \in Nat
    BY <1>1, BytesMoved DEF FsInv
  <2>2. fs.chunk \in Nat
    BY <2>1, HdAssumption
  <2>3. fs.i \in Nat /\ fs.off \in 0 .. N - 1
    BY <1>1 DEF FsInv, FsNumbers
  <2>4. Base(D) \in Nat
    BY DEF DiskFits, Base
  <2> QED BY <2>1, <2>2, <2>3, <2>4, HdAssumption, FsRdwtAssumption
<1>6. Same(D, fs.i, fs.chunk)
  BY <1>1 DEF CopyInv
<1>7. ASSUME NEW k \in 1 .. Bytes
      PROVE  piece[k] = goal.data[fs.done + k]
  <2>1. fs.left # 0 /\ fd_pos[fs.fd] = (fs.i - StartSect) * N + fs.off
    BY <1>1, <1>2, <1>3, <1>4 DEF CallNumbers, InLoop
  <2>2. PICK x : x = fs.off + (k - 1)
    OBVIOUS
  <2>3. x \in Nat /\ x \in 0 .. fs.chunk * N - 1 /\ fs.off + k - 1 = x
    BY <1>3, <1>5, <2>2
  <2>4. PICK q \in Nat, r \in 0 .. N - 1 : x = q * N + r
    BY <1>5, <2>3, HasPlace
  <2>5. q \in 0 .. fs.chunk - 1 /\ r + 1 \in 1 .. N /\ (r + 1) - 1 = r
    <3>1. q * N + r \in 0 .. fs.chunk * N - 1
      BY <2>3, <2>4
    <3>2. q \in 0 .. fs.chunk - 1
      BY <1>5, <3>1, InSectors
    <3>3. r + 1 \in 1 .. N /\ (r + 1) - 1 = r
      BY <1>5
    <3> QED BY <3>2, <3>3
  <2>6. fsbuf[q * N + ((r + 1) - 1)] = disk[Base(D) + fs.i + q + 1][r + 1]
    BY <1>6, <2>5 DEF Same
  <2>7. piece[k] = disk[Base(D) + fs.i + q + 1][r + 1]
    BY <2>3, <2>4, <2>5, <2>6
  <2>8. start + ((fs.done + k) - 1) = fd_pos[fs.fd] + (k - 1) /\ fs.done + k \in 1 .. goal.cnt
    BY <1>3, <1>4
  <2>9. PICK u : u = fs.i - StartSect
    OBVIOUS
  <2>10. PICK f : f = Base(D) + StartSect
    OBVIOUS
  <2>11. u \in Int /\ f \in Nat /\ (f + u) + q = Base(D) + fs.i + q
    BY <1>5, <2>9, <2>10
  <2>12. ((f + u) + q) * N = (f * N + u * N) + q * N
         /\ f * N \in Int /\ u * N \in Int /\ q * N \in Int
    BY <1>5, <2>11
  <2>13. PICK a : a = f * N + (start + ((fs.done + k) - 1))
    OBVIOUS
  <2>14. a = ((f + u) + q) * N + r
    <3>1. fd_pos[fs.fd] = u * N + fs.off
      BY <2>1, <2>9
    <3>2. a = f * N + ((u * N + fs.off) + (k - 1))
      BY <2>8, <2>13, <3>1
    <3>3. fs.off + (k - 1) = q * N + r
      BY <2>2, <2>4
    <3> QED BY <1>5, <2>12, <3>2, <3>3
  <2>15. (f + u) + q \in Int
    BY <2>11
  <2>16. a \div N = (f + u) + q /\ a % N = r
    BY <1>5, <2>14, <2>15, PlaceIs
  <2>17. ByteAt(D, start + ((fs.done + k) - 1)) = disk[((f + u) + q) + 1][r + 1]
    BY <2>10, <2>13, <2>16 DEF ByteAt
  <2>18. goal.data[fs.done + k] = ByteAt(D, start + ((fs.done + k) - 1))
    BY <1>2, <2>8 DEF ReadInv
  <2> QED BY <2>7, <2>11, <2>17, <2>18
<1> HIDE DEF start
<1>8. ubuf = [k \in 1 .. fs.done |-> goal.data[k]]
  BY <1>2 DEF ReadInv
<1>9. piece = [k \in 1 .. Bytes |-> piece[k]]
  OBVIOUS
<1> HIDE DEF piece
<1>10. ubuf' = [k \in 1 .. fs.done + Bytes |-> goal.data[k]]
  <2>1. PICK m : m = Bytes
    OBVIOUS
  <2>2. PICK d : d = goal.data
    OBVIOUS
  <2>3. PICK n : n = fs.done
    OBVIOUS
  <2>4. m \in Nat /\ n \in Nat
    BY <1>3, <1>4, <2>1, <2>3
  <2>5. ubuf = [k \in 1 .. n |-> d[k]] /\ piece = [k \in 1 .. m |-> piece[k]]
    BY <1>8, <1>9, <2>1, <2>2, <2>3
  <2>6. \A k \in 1 .. m : piece[k] = d[n + k]
    BY <1>7, <2>1, <2>2, <2>3
  <2>7. [k \in 1 .. n |-> d[k]] \o [k \in 1 .. m |-> piece[k]] = [k \in 1 .. n + m |-> d[k]]
    BY <2>4, <2>6, Joined
  <2> QED BY <1>1, <2>1, <2>2, <2>3, <2>5, <2>7
<1>11. ReadInv(D)'
  BY <1>1, <1>2, <1>3, <1>10 DEF ReadInv, ByteAt
<1> QED BY <1>1, <1>3, <1>11 DEF CallInv

\* The bytes of a chunk that a round changes are those the transfer comes to.
LEMMA ChunkBytes ==
  ASSUME NEW D, DiskFits(D), FsInv, CallNumbers, fs.pc \in {"move", "written"},
         NEW j \in Int, NEW b \in 1 .. SECTOR_SIZE
  PROVE  LET k == j * SECTOR_SIZE + (b - 1)
             a == At(D, Base(D) + fs.i + j + 1, b)
         IN  /\ k \in Int /\ (j \in 0 .. fs.chunk - 1 <=> k \in 0 .. fs.chunk * SECTOR_SIZE - 1)
             /\ k \in fs.off .. fs.off + Bytes - 1 =>
                  a = fs.done + (k - fs.off) /\ a \in 0 .. goal.cnt - 1
             /\ a \in fs.done .. goal.cnt - 1 /\ j \in 0 .. fs.chunk - 1 =>
                  k \in fs.off .. fs.off + Bytes - 1
             /\ a \in fs.done .. goal.cnt - 1 /\ a \notin fs.done + Bytes .. goal.cnt - 1 =>
                  k \in fs.off .. fs.off + Bytes - 1 /\ j \in 0 .. fs.chunk - 1
<1> DEFINE N == SECTOR_SIZE
<1>1. PICK k : k = j * N + (b - 1)
  OBVIOUS
<1>2. PICK a : a = At(D, Base(D) + fs.i + j + 1, b)
  OBVIOUS
<1>3. PICK c : c = fs.chunk * N
  OBVIOUS
<1>4. /\ Bytes \in Nat /\ Bytes <= fs.left /\ fs.off + Bytes <= c /\ c \in Nat
      /\ Bytes = fs.left \/ fs.off + Bytes = c
      /\ fs.chunk \in 1 .. FsBufSects
  BY <1>3, BytesMoved DEF FsInv
<1>5. fs.chunk \in Nat /\ N \in Nat \ {0} /\ b - 1 \in 0 .. N - 1
  BY <1>4, HdAssumption
<1>6. k \in Int /\ (j \in 0 .. fs.chunk - 1 <=> k \in 0 .. c - 1)
  BY <1>1, <1>3, <1>5, InSectors
<1>7. /\ fs.left \in Nat /\ fs.done \in Nat /\ fs.done + fs.left = goal.cnt /\ goal.cnt \in Nat
      /\ fs.off \in Nat
  BY HdAssumption DEF CallNumbers, FsInv, FsNumbers
<1>8. fs.left # 0 => a = fs.done + (k - fs.off)
  <2>1. SUFFICES ASSUME fs.left # 0 PROVE a = fs.done + (k - fs.off)
    OBVIOUS
  <2>2. InLoop /\ b \in Int
    BY DEF InLoop
  <2> QED BY <1>1, <1>2, <2>1, <2>2, AtInChunk
<1>9. k \in fs.off .. fs.off + Bytes - 1 => a = fs.done + (k - fs.off) /\ a \in 0 .. goal.cnt - 1
  BY <1>4, <1>6, <1>7, <1>8
<1>10. a \in fs.done .. goal.cnt - 1 => fs.left # 0 /\ k = (a - fs.done) + fs.off
  BY <1>6, <1>7, <1>8
<1>11. a \in fs.done .. goal.cnt - 1 /\ k \in 0 .. c - 1 => k \in fs.off .. fs.off + Bytes - 1
  BY <1>4, <1>6, <1>7, <1>10
<1>12. a \in fs.done .. goal.cnt - 1 /\ a \notin fs.done + Bytes .. goal.cnt - 1
         => k \in fs.off .. fs.off + Bytes - 1 /\ k \in 0 .. c - 1
  BY <1>4, <1>6, <1>7, <1>10
<1> QED BY <1>1, <1>2, <1>3, <1>6, <1>9, <1>11, <1>12

\* A WRITE makes the chunk what it is to be.
LEMMA MoveInGoal ==
  ASSUME NEW D, DiskFits(D), DisksFit, HInv, FsInv, CopyInv(D), CallInv(D), MoveIn, FsStep
  PROVE  CallInv(D)'
<1> DEFINE N == SECTOR_SIZE
<1>1. /\ fs.pc = "move" /\ fs.type = "WRITE" /\ mbox = NoRequest
      /\ UNCHANGED <<fd_pos, i_size, ubuf, cnt, ops, goal, disk>>
      /\ fs' = [fs EXCEPT !.pc = "written"]
      /\ fsbuf' = [k \in DOMAIN fsbuf |->
                     IF k \in fs.off .. fs.off + Bytes - 1
                     THEN Payload(ops - 1, fs.done + k - fs.off) ELSE fsbuf[k]]
  BY Alternate DEF MoveIn, FsStep
<1>2. CallNumbers /\ WriteInv(D)
  BY <1>1 DEF CallInv
<1>3. fs' = [pc |-> "written", type |-> fs.type, fd |-> fs.fd, i |-> fs.i, max |-> fs.max,
             chunk |-> fs.chunk, off |-> fs.off, done |-> fs.done, left |-> fs.left]
  BY <1>1 DEF FsInv, FsNumbers
<1>4. CallNumbers'
  BY <1>1, <1>2, <1>3 DEF CallNumbers, InLoop
<1>5. WriteInv(D)'
  BY <1>1, <1>2, <1>3 DEF WriteInv, Waits, At, InodeAt
<1>6. ASSUME NEW j \in 0 .. fs.chunk - 1, NEW b \in 1 .. N
      PROVE  fsbuf'[j * N + (b - 1)] = goal.disk[Base(D) + fs.i + j + 1][b]
  <2>1. PICK k : k = j * N + (b - 1)
    OBVIOUS
  <2>2. PICK x : x = Base(D) + fs.i + j + 1
    OBVIOUS
  <2>3. x \in DOMAIN D /\ DOMAIN D[x] = 1 .. N /\ x # InodeAt(D)
    BY <1>1, <2>2, ChunkSectors
  <2>4. /\ k \in fs.off .. fs.off + Bytes - 1 =>
             At(D, x, b) = fs.done + (k - fs.off) /\ At(D, x, b) \in 0 .. goal.cnt - 1
        /\ At(D, x, b) \in fs.done .. goal.cnt - 1 => k \in fs.off .. fs.off + Bytes - 1
    <3>1. j \in Int /\ fs.pc \in {"move", "written"}
      BY <1>1
    <3> QED BY <1>2, <2>1, <2>2, <3>1, ChunkBytes
  <2>5. k \in DOMAIN fsbuf
    <3>1. fs.chunk \in 1 .. FsBufSects
      BY <1>1, BytesMoved DEF FsInv
    <3>2. j \in 0 .. FsBufSects - 1 /\ j \in Int /\ b - 1 \in 0 .. N - 1
      BY <3>1, HdAssumption
    <3>3. k \in 0 .. FsBufSects * N - 1
      BY <2>1, <3>2, InSectors, HdAssumption
    <3> QED BY <3>3 DEF CopyInv
  <2>6. CASE k \in fs.off .. fs.off + Bytes - 1
    <3>1. fsbuf'[k] = Payload(ops - 1, At(D, x, b))
      BY <1>1, <2>4, <2>5, <2>6
    <3>2. goal.disk[x][b] = Payload(ops - 1, At(D, x, b))
      BY <1>2, <2>3, <2>4, <2>6 DEF WriteInv
    <3> QED BY <2>1, <2>2, <3>1, <3>2
  <2>7. CASE k \notin fs.off .. fs.off + Bytes - 1
    <3>1. fsbuf'[k] = fsbuf[k]
      BY <1>1, <2>5, <2>7
    <3>2. fsbuf[k] = disk[x][b]
      BY <1>1, <2>1, <2>2 DEF CopyInv, Same
    <3>3. ~Waits(D, x, b)
      BY <2>4, <2>7 DEF Waits
    <3>4. disk[x][b] = goal.disk[x][b]
      BY <1>2, <2>3, <3>3 DEF WriteInv
    <3> QED BY <2>1, <2>2, <3>1, <3>2, <3>4
  <2> QED BY <2>6, <2>7
<1>7. fs'.type # "READ"
  BY <1>1, <1>3
<1> QED BY <1>1, <1>3, <1>4, <1>5, <1>6, <1>7 DEF CallInv

\* Then it is on the disk.
LEMMA WrittenGoal ==
  ASSUME NEW D, DiskFits(D), FsInv, CopyInv(D), CallInv(D), Written, UNCHANGED disk
  PROVE  CallInv(D)'
<1> DEFINE N == SECTOR_SIZE
<1>1. /\ fs.pc = "written" /\ mbox = NoRequest /\ Advance
      /\ UNCHANGED <<i_size, ubuf, cnt, ops, goal, mbox, fsbuf, disk>>
  BY DEF Written
<1>2. fs.type = "WRITE"
  BY <1>1 DEF FsInv, FsNumbers
<1>3. CallNumbers /\ WriteInv(D)
  BY <1>2 DEF CallInv
<1>4. /\ CallNumbers' /\ fs'.pc = "fetch" /\ fs'.done = fs.done + Bytes
      /\ fs'.type = fs.type /\ Bytes \in Nat /\ Bytes <= fs.left
  BY <1>1, <1>3, AdvanceNumbers
<1>5. ASSUME NEW s \in DOMAIN D, NEW b \in DOMAIN D[s],
             ~Waits(D, s, b)', ~(s = InodeAt(D) /\ b = 1)
      PROVE  disk[s][b] = goal.disk[s][b]
  <2>1. CASE ~Waits(D, s, b)
    BY <1>3, <1>5, <2>1 DEF WriteInv
  <2>2. CASE Waits(D, s, b)
    <3>1. s # InodeAt(D) /\ At(D, s, b) \in fs.done .. goal.cnt - 1
      BY <2>2 DEF Waits
    <3>2. At(D, s, b) \notin fs.done + Bytes .. goal.cnt - 1
      BY <1>1, <1>4, <1>5, <3>1 DEF Waits, At, InodeAt
    <3>3. s \in Int /\ b \in 1 .. N /\ Base(D) \in Nat /\ fs.i \in Nat
      BY <1>1 DEF DiskFits, Base, FsInv, FsNumbers
    <3>4. PICK j : j = ((s - 1) - Base(D)) - fs.i
      OBVIOUS
    <3>5. j \in Int /\ s = Base(D) + fs.i + j + 1
      BY <3>3, <3>4
    <3>6. j \in 0 .. fs.chunk - 1
      <4>1. fs.pc \in {"move", "written"}
        BY <1>1
      <4> QED BY <1>3, <3>1, <3>2, <3>3, <3>5, <4>1, ChunkBytes
    <3>7. fsbuf[j * N + (b - 1)] = disk[s][b]
      BY <1>1, <3>3, <3>5, <3>6 DEF CopyInv, Same
    <3>8. fsbuf[j * N + (b - 1)] = goal.disk[s][b]
      BY <1>1, <3>3, <3>5, <3>6 DEF CallInv
    <3> QED BY <3>7, <3>8
  <2> QED BY <2>1, <2>2
<1>6. WriteInv(D)'
  <2>1. \A s, b : At(D, s, b)' = At(D, s, b)
    BY <1>1 DEF At
  <2> QED BY <1>1, <1>3, <1>5, <2>1 DEF WriteInv, InodeAt
<1> QED BY <1>2, <1>4, <1>6 DEF CallInv

\* What a WRITE is to make of the disk.
LEMMA GoalDisk ==
  ASSUME NEW D, DiskFits(D), Shape(D), PartBase = Base(D), NEW fd, NEW len
  PROVE  LET g == Goal(fd, "WRITE", len).disk
             at(s, b) == (s - 1) * SECTOR_SIZE + b - 1 - FirstByte - fd_pos[fd]
         IN  /\ g = [s \in DOMAIN D |-> [b \in DOMAIN D[s] |-> g[s][b]]]
             /\ g[InodeAt(D)][1] = Goal(fd, "WRITE", len).size
             /\ \A s \in DOMAIN D : \A b \in DOMAIN D[s] :
                  /\ s = InodeAt(D) /\ b # 1 => g[s][b] = disk[s][b]
                  /\ s # InodeAt(D) /\ at(s, b) \in 0 .. len - 1 => g[s][b] = Payload(ops, at(s, b))
                  /\ s # InodeAt(D) /\ at(s, b) \notin 0 .. len - 1 => g[s][b] = disk[s][b]
<1> DEFINE at(s, b) == (s - 1) * SECTOR_SIZE + b - 1 - FirstByte - fd_pos[fd]
           value(s, b) == IF at(s, b) \in 0 .. len - 1 THEN Payload(ops, at(s, b)) ELSE disk[s][b]
<1>1. PICK x : x = InodeAt(D)
  OBVIOUS
<1>2. PICK size : size = Goal(fd, "WRITE", len).size
  OBVIOUS
<1>3. PICK g : g = Goal(fd, "WRITE", len).disk
  OBVIOUS
<1>4. g = [s \in DOMAIN disk |-> IF s = x THEN [disk[s] EXCEPT ![1] = size]
                                 ELSE [b \in DOMAIN disk[s] |-> value(s, b)]]
  BY <1>1, <1>2, <1>3 DEF Goal, InodeAt
<1>5. \A s \in DOMAIN D : \A b \in DOMAIN D[s] :
        value(s, b) = IF at(s, b) \in 0 .. len - 1 THEN Payload(ops, at(s, b)) ELSE disk[s][b]
  OBVIOUS
<1> HIDE DEF value
<1>6. DOMAIN disk = DOMAIN D /\ \A s \in DOMAIN D : DOMAIN disk[s] = DOMAIN D[s]
  BY DEF Shape
<1>7. x \in DOMAIN D /\ 1 \in DOMAIN D[x]
  BY <1>1, InodeSector
<1>8. ASSUME NEW s \in DOMAIN D, s # x
      PROVE  g[s] = [b \in DOMAIN D[s] |-> value(s, b)]
  BY <1>4, <1>6, <1>8
<1>9. g[x] = [disk[x] EXCEPT ![1] = size]
  BY <1>4, <1>6, <1>7
<1>10. ASSUME NEW s \in DOMAIN D PROVE g[s] = [b \in DOMAIN D[s] |-> g[s][b]]
  <2>1. CASE s = x
    BY <1>6, <1>7, <1>9, <2>1
  <2>2. CASE s # x
    BY <1>8, <2>2
  <2> QED BY <2>1, <2>2
<1>11. g = [s \in DOMAIN D |-> g[s]]
  BY <1>4, <1>6
<1>12. g = [s \in DOMAIN D |-> [b \in DOMAIN D[s] |-> g[s][b]]]
  BY <1>10, <1>11
<1>13. g[x][1] = size /\ \A b \in DOMAIN D[x] : b # 1 => g[x][b] = disk[x][b]
  BY <1>6, <1>7, <1>9
<1>14. \A s \in DOMAIN D : s # x => \A b \in DOMAIN D[s] : g[s][b] = value(s, b)
  BY <1>8
<1> HIDE DEF at
<1>15. \A s \in DOMAIN D : \A b \in DOMAIN D[s] :
         /\ s = x /\ b # 1 => g[s][b] = disk[s][b]
         /\ s # x /\ at(s, b) \in 0 .. len - 1 => g[s][b] = Payload(ops, at(s, b))
         /\ s # x /\ at(s, b) \notin 0 .. len - 1 => g[s][b] = disk[s][b]
  BY <1>5, <1>13, <1>14
<1> QED BY <1>1, <1>2, <1>3, <1>12, <1>13, <1>15 DEF at

\* What a READ or WRITE that comes is to do.
LEMMA StartGoal ==
  ASSUME NEW D, DiskFits(D), DisksFit, FsInv, DInv(D), GoalInv(D), UNCHANGED disk,
         NEW fd \in Fds, NEW type \in {"READ", "WRITE"}, NEW len \in Lengths, Start(fd, type, len)
  PROVE  GoalInv(D)'
<1> DEFINE N == SECTOR_SIZE
<1>1. ops \in Nat /\ ops' = ops + 1 /\ fs.pc = "idle"
  BY DEF GoalInv, Start
<1>2. CASE fd \notin RdwrFds
  BY <1>1, <1>2 DEF Start, GoalInv, NoGoal, TransfersExact
<1>3. CASE fd \in RdwrFds
  <2>1. fs'.pc = "fetch"
    BY <1>3 DEF Start
  <2>2. SUFFICES ASSUME goal'.within PROVE CallInv(D)'
    BY <1>1, <2>1 DEF GoalInv, TransfersExact
  <2>3. /\ CallNumbers' /\ fs'.pc = "fetch" /\ fs'.type = type /\ fs'.done = 0
        /\ goal' = Goal(fd, type, len) /\ goal'.within /\ fd_pos[fd] \in Nat /\ len \in Nat
        /\ ubuf' = <<>> /\ i_size' = i_size /\ ops' = ops + 1 /\ i_size \in Nat
    BY <1>3, <2>2, StartNumbers
  <2>4. PICK pos : pos = fd_pos[fd]
    OBVIOUS
  <2>5. PICK f : f = (Base(D) + StartSect) * N
    OBVIOUS
  <2>6. PartBase = Base(D) /\ FirstByte = f /\ f \in Nat
    BY <1>1, <2>5, RootIs
  <2>7. goal'.pos = pos + len /\ goal'.cnt = len /\ pos \in Nat /\ (pos + len) - len = pos
    BY <2>3, <2>4 DEF Goal
  <2>8. CASE type = "READ"
    <3>1. /\ goal'.pos <= i_size /\ goal'.disk = disk
          /\ goal'.data = [k \in 1 .. len |-> FileByte(pos + k - 1)]
      BY <2>2, <2>3, <2>4, <2>8 DEF Goal
    <3>2. \A p : FileByte(p) = ByteAt(D, p)
      BY <2>5, <2>6 DEF FileByte, ByteAt
    <3>3. goal'.data = [k \in 1 .. goal'.cnt |-> ByteAt(D, (goal'.pos - goal'.cnt) + (k - 1))]
      <4>1. \A k \in 1 .. len : pos + k - 1 = ((pos + len) - len) + (k - 1)
        BY <2>3, <2>7
      <4>2. goal'.data = [k \in 1 .. len |-> ByteAt(D, ((pos + len) - len) + (k - 1))]
        BY <3>1, <3>2, <4>1
      <4> QED BY <2>7, <4>2
    <3>4. <<>> = [k \in 1 .. 0 |-> goal'.data[k]]
      OBVIOUS
    <3>5. \A p : ByteAt(D, p)' = ByteAt(D, p)
      BY DEF ByteAt
    <3>6. goal'.data = [k \in 1 .. goal'.cnt |-> ByteAt(D, (goal.pos - goal.cnt) + (k - 1))']
      BY <3>3, <3>5
    <3>7. ReadInv(D)'
      BY <2>3, <3>1, <3>4, <3>6 DEF ReadInv
    <3> QED BY <2>1, <2>3, <2>8, <3>7 DEF CallInv
  <2>9. CASE type = "WRITE"
    <3> DEFINE at(s, b) == (s - 1) * N + b - 1 - FirstByte - fd_pos[fd]
    <3>1. Shape(D) /\ goal'.data = <<>>
      BY <2>3, <2>9 DEF DInv, Goal
    <3>2. PICK g : g = goal'.disk
      OBVIOUS
    <3>3. /\ g = [s \in DOMAIN D |-> [b \in DOMAIN D[s] |-> g[s][b]]]
          /\ g[InodeAt(D)][1] = goal'.size
          /\ \A s \in DOMAIN D : \A b \in DOMAIN D[s] :
               /\ s = InodeAt(D) /\ b # 1 => g[s][b] = disk[s][b]
               /\ s # InodeAt(D) /\ at(s, b) \in 0 .. len - 1 => g[s][b] = Payload(ops, at(s, b))
               /\ s # InodeAt(D) /\ at(s, b) \notin 0 .. len - 1 => g[s][b] = disk[s][b]
      BY <2>3, <2>6, <2>9, <3>1, <3>2, GoalDisk
    <3>4. ASSUME NEW s \in DOMAIN D, NEW b \in DOMAIN D[s]
          PROVE  At(D, s, b)' = at(s, b)
      <4>1. s \in Int /\ b \in Int /\ N \in Nat
        BY HdAssumption DEF DiskFits
      <4>2. PICK y : y = (s - 1) * N
        OBVIOUS
      <4>3. y \in Int
        BY <4>1, <4>2
      <4>4. At(D, s, b)' = ((y + (b - 1)) - f) - pos
        BY <2>5, <2>7, <4>2 DEF At
      <4>5. at(s, b) = y + b - 1 - f - pos
        BY <2>4, <2>6, <4>2
      <4> QED BY <2>6, <2>7, <4>1, <4>3, <4>4, <4>5
    <3> HIDE DEF at
    <3>5. ops' - 1 = ops
      BY <1>1
    <3>6. ASSUME NEW s \in DOMAIN D, NEW b \in DOMAIN D[s]
          PROVE  /\ ~Waits(D, s, b)' /\ ~(s = InodeAt(D) /\ b = 1) => disk'[s][b] = goal'.disk[s][b]
                 /\ s # InodeAt(D) /\ At(D, s, b)' \in 0 .. goal'.cnt - 1
                      => goal'.disk[s][b] = Payload(ops' - 1, At(D, s, b)')
      <4>1. At(D, s, b)' = at(s, b)
        BY <3>4
      <4>2. Waits(D, s, b)' <=> s # InodeAt(D) /\ at(s, b) \in 0 .. len - 1
        BY <2>3, <2>7, <4>1 DEF Waits, InodeAt
      <4> QED BY <2>7, <3>2, <3>3, <3>5, <4>1, <4>2
    <3>7. WriteInv(D)'
      BY <2>3, <3>1, <3>2, <3>3, <3>6 DEF WriteInv, InodeAt
    <3> QED BY <2>1, <2>3, <2>9, <3>7 DEF CallInv
  <2> QED BY <2>8, <2>9
<1> QED BY <1>2, <1>3

\* The loop ends when nothing is left.
LEMMA LoopEnds ==
  ASSUME FsInv, CallNumbers, fs.pc = "fetch", fs.i > fs.max
  PROVE  fs.left = 0 /\ fs.done = goal.cnt /\ fd_pos[fs.fd] = goal.pos
<1> DEFINE N == SECTOR_SIZE
<1>1. /\ fs.i \in Nat /\ fs.off \in Nat /\ fs.left \in Nat /\ fs.done \in Nat /\ StartSect \in Nat
      /\ N \in Nat \ {0} /\ fd_pos[fs.fd] \in Nat
  BY HdAssumption, FsRdwtAssumption DEF FsInv, FsNumbers, CallNumbers
<1>2. /\ goal.cnt \in Nat /\ goal.pos \in Nat /\ fs.done + fs.left = goal.cnt
      /\ fd_pos[fs.fd] + fs.left = goal.pos /\ fs.max = StartSect + (goal.pos \div N)
      /\ fs.left = 0 \/ fd_pos[fs.fd] = (fs.i - StartSect) * N + fs.off
  BY DEF CallNumbers, InLoop
<1>3. ASSUME fs.left # 0 PROVE FALSE
  <2>1. PICK q \in Nat, r \in 0 .. N - 1 : goal.pos = q * N + r
    BY <1>1, <1>2, HasPlace
  <2>2. goal.pos \div N = q
    <3>1. q \in Int
      BY <2>1
    <3> QED BY <1>1, <2>1, <3>1, PlaceIs
  <2>3. PICK z \in Nat : fs.i - StartSect = (q + 1) + z
    <3>1. (fs.i - StartSect) - (q + 1) \in Nat
          /\ fs.i - StartSect = (q + 1) + ((fs.i - StartSect) - (q + 1))
      BY <1>1, <1>2, <2>1, <2>2
    <3> QED BY <3>1
  <2>4. (fs.i - StartSect) * N = (q * N + N) + z * N /\ z * N \in Nat /\ q * N \in Nat
    BY <1>1, <2>1, <2>3
  <2>5. PICK p : p = (fs.i - StartSect) * N
    OBVIOUS
  <2>6. PICK y : y = q * N
    OBVIOUS
  <2>7. fd_pos[fs.fd] = p + fs.off /\ fd_pos[fs.fd] <= y + r
    BY <1>1, <1>2, <1>3, <2>1, <2>5, <2>6
  <2>8. y \in Nat /\ p \in Nat /\ p >= y + N
    BY <1>1, <2>4, <2>5, <2>6
  <2> QED BY <1>1, <2>7, <2>8
<1> QED BY <1>1, <1>2, <1>3

\* When all of it is written, and the size is, the disk is what it was to be.
LEMMA DiskDone ==
  ASSUME NEW D, DiskFits(D), Shape(D), WriteInv(D), CallNumbers, fs.left = 0,
         disk[InodeAt(D)][1] = goal.size
  PROVE  disk = goal.disk
<1>1. fs.done = goal.cnt /\ goal.cnt \in Nat
  BY DEF CallNumbers
<1>2. \A s, b : ~Waits(D, s, b)
  BY <1>1 DEF Waits
<1>3. \A s \in DOMAIN D : \A b \in DOMAIN D[s] : disk[s][b] = goal.disk[s][b]
  BY <1>2 DEF WriteInv
<1>4. PICK g : g = goal.disk
  OBVIOUS
<1>5. g = [s \in DOMAIN D |-> [b \in DOMAIN D[s] |-> g[s][b]]]
  BY <1>4 DEF WriteInv
<1>6. DOMAIN g = DOMAIN D /\ \A s \in DOMAIN D : g[s] = [b \in DOMAIN D[s] |-> g[s][b]]
  BY <1>5
<1>7. disk = [s \in DOMAIN D |-> disk[s]]
      /\ \A s \in DOMAIN D : disk[s] = [b \in DOMAIN D[s] |-> disk[s][b]]
  BY DEF Shape
<1>8. \A s \in DOMAIN D : disk[s] = g[s]
  BY <1>3, <1>4, <1>6, <1>7
<1>9. g = [s \in DOMAIN D |-> g[s]]
  BY <1>5
<1> QED BY <1>4, <1>7, <1>8, <1>9

\* What a call returns with is what it was to do.
LEMMA ReturnGoal ==
  ASSUME NEW D, DiskFits(D), Shape(D), FsInv, CallInv(D), fs.left = 0,
         disk[InodeAt(D)][1] = i_size, i_size = goal.size,
         Return, UNCHANGED <<fd_pos, i_size, ubuf, ops, goal, disk>>
  PROVE  TransfersExact'
<1>1. /\ CallNumbers /\ fs.done = goal.cnt /\ fd_pos[goal.fd] = goal.pos
      /\ cnt' = goal.cnt
  BY DEF CallInv, CallNumbers, Return, FsInv, FsNumbers
<1>2. CASE fs.type = "READ"
  <2>1. ReadInv(D)
    BY <1>2 DEF CallInv
  <2>2. ubuf = goal.data
    BY <1>1, <2>1 DEF ReadInv
  <2>3. disk = goal.disk
    BY <2>1 DEF ReadInv
  <2> QED BY <1>1, <2>2, <2>3 DEF TransfersExact
<1>3. CASE fs.type # "READ"
  <2>1. WriteInv(D)
    BY <1>3 DEF CallInv
  <2>2. ubuf = goal.data
    BY <2>1 DEF WriteInv
  <2>3. disk = goal.disk
    BY <1>1, <2>1, DiskDone
  <2> QED BY <1>1, <2>2, <2>3 DEF TransfersExact
<1> QED BY <1>2, <1>3

\* After the loop the call is done, but for the size of a file that grew.
LEMMA FinishGoal ==
  ASSUME NEW D, DiskFits(D), Shape(D), FsInv, SizeInv(D), GoalInv(D), Finish, UNCHANGED disk
  PROVE  GoalInv(D)'
<1>1. /\ fs.pc = "fetch" /\ fs.i > fs.max /\ UNCHANGED <<fd_pos, ubuf, ops, goal, disk>>
  BY DEF Finish
<1>2. /\ ops' \in Nat /\ fs'.pc \in {"sync", "idle"}
      /\ fs'.pc = "sync" <=> Grows
  BY <1>1 DEF Finish, Return, AtRest, GoalInv, FsInv, FsNumbers
<1>3. SUFFICES ASSUME goal.within
               PROVE  /\ Grows => CallInv(D)'
                      /\ ~Grows => TransfersExact'
  BY <1>1, <1>2 DEF GoalInv, Calling, InLoop, TransfersExact
<1>4. CallInv(D)
  BY <1>1, <1>3 DEF GoalInv, Calling, InLoop
<1>5. CallNumbers
  BY <1>4 DEF CallInv
<1>6. fs.left = 0 /\ fs.done = goal.cnt /\ fd_pos[fs.fd] = goal.pos
  BY <1>1, <1>5, LoopEnds
<1>7. goal.size = IF fs.type = "WRITE" /\ goal.pos > i_size THEN goal.pos ELSE i_size
  BY <1>1, <1>5 DEF CallNumbers, InLoop
<1>8. i_size \in Nat /\ goal.pos \in Nat /\ fs.type \in {"READ", "WRITE"}
  BY <1>1, <1>5 DEF CallNumbers, FsInv, FsNumbers
<1>9. ASSUME Grows PROVE CallInv(D)'
  <2>1. goal.pos > i_size
    BY <1>6, <1>9 DEF Grows
  <2>2. fs.type = "WRITE"
    <3>1. fs.type = "READ" => goal.pos <= i_size
      BY <1>4 DEF CallInv, ReadInv
    <3> QED BY <1>8, <2>1, <3>1
  <2>3. i_size' = goal.size
    BY <1>6, <1>7, <1>9, <2>1, <2>2 DEF Finish
  <2>4. fs' = [pc |-> "sync", type |-> fs.type, fd |-> fs.fd, i |-> fs.i, max |-> fs.max,
               chunk |-> fs.chunk, off |-> fs.off, done |-> fs.done, left |-> fs.left]
    BY <1>9 DEF Finish, FsInv, FsNumbers
  <2>5. CallNumbers'
    BY <1>1, <1>5, <1>6, <2>2, <2>3, <2>4 DEF CallNumbers, InLoop
  <2>6. WriteInv(D)'
    BY <1>1, <1>4, <2>2, <2>4 DEF CallInv, WriteInv, Waits, At, InodeAt
  <2> QED BY <2>2, <2>4, <2>5, <2>6 DEF CallInv
<1>10. ASSUME ~Grows PROVE TransfersExact'
  <2>1. i_size = goal.size
    BY <1>6, <1>7, <1>8, <1>10 DEF Grows
  <2>2. Return /\ i_size' = i_size
    BY <1>10 DEF Finish
  <2>3. disk[InodeAt(D)][1] = i_size
    BY <1>1 DEF SizeInv
  <2> QED BY <1>1, <1>4, <1>6, <2>1, <2>2, <2>3, ReturnGoal
<1> QED BY <1>9, <1>10

\* So FS goes on with its call step by step.
LEMMA GoalAsked ==
  ASSUME NEW D, DiskFits(D), DisksFit, HInv, FsInv, DInv(D), CopyInv(D), SizeInv(D), GoalInv(D),
         FsStep
  PROVE  GoalInv(D)'
<1>1. disk' = disk /\ mbox = NoRequest /\ Shape(D) /\ ops \in Nat
  BY Alternate DEF FsStep, DInv, GoalInv
<1>2. CASE FsCall
  BY <1>1, <1>2, StartGoal DEF FsCall
<1>3. CASE FsInit
  <2>1. fs'.pc \in {"geo", "opened"} /\ UNCHANGED <<ops, goal>> /\ ~goal.within
    BY <1>3 DEF FsInit, AtRest, GoalInv
  <2> QED BY <1>1, <2>1 DEF GoalInv, TransfersExact
<1>4. CASE Fetch \/ MoveOut \/ MoveIn \/ Written
  <2>1. InLoop /\ fs'.pc \in {"fetch", "move", "written"} /\ UNCHANGED <<ops, goal>>
    BY <1>4 DEF Fetch, MoveOut, MoveIn, Written, Advance, NextRound, FsInv, FsNumbers, InLoop
  <2>2. SUFFICES ASSUME CallInv(D) PROVE CallInv(D)'
    BY <1>1, <2>1 DEF GoalInv, Calling, TransfersExact
  <2>3. CASE Fetch
    <3>1. /\ fs.pc = "fetch" /\ UNCHANGED <<fd_pos, i_size, ubuf, ops, goal>>
          /\ fs' = [pc |-> "move", type |-> fs.type, fd |-> fs.fd, i |-> fs.i, max |-> fs.max,
                    chunk |-> fs.chunk, off |-> fs.off, done |-> fs.done, left |-> fs.left]
      BY <2>3 DEF Fetch, FsInv, FsNumbers
    <3>2. CallNumbers'
      BY <2>2, <3>1 DEF CallInv, CallNumbers, InLoop
    <3>3. fs.type = "READ" => ReadInv(D)'
      BY <1>1, <2>2, <3>1 DEF CallInv, ReadInv, ByteAt
    <3>4. fs.type # "READ" => WriteInv(D)'
      BY <1>1, <2>2, <3>1 DEF CallInv, WriteInv, Waits, At, InodeAt
    <3> QED BY <3>1, <3>2, <3>3, <3>4 DEF CallInv
  <2>4. CASE MoveOut
    BY <1>1, <2>2, <2>4, MoveOutGoal
  <2>5. CASE MoveIn
    BY <2>2, <2>5, MoveInGoal
  <2>6. CASE Written
    BY <1>1, <2>2, <2>6, WrittenGoal
  <2> QED BY <1>4, <2>3, <2>4, <2>5, <2>6
<1>5. CASE Finish
  BY <1>1, <1>5, FinishGoal
<1>6. CASE Sync
  <2>1. /\ fs.pc = "sync" /\ UNCHANGED <<fd_pos, i_size, ubuf, ops, goal>>
        /\ fs' = [pc |-> "synced", type |-> fs.type, fd |-> fs.fd, i |-> fs.i, max |-> fs.max,
                  chunk |-> fs.chunk, off |-> fs.off, done |-> fs.done, left |-> fs.left]
    BY <1>6 DEF Sync, FsInv, FsNumbers
  <2>2. SUFFICES ASSUME CallInv(D) PROVE CallInv(D)'
    BY <1>1, <2>1 DEF GoalInv, Calling, TransfersExact
  <2>3. fs.type = "WRITE" /\ CallNumbers'
    BY <2>1, <2>2 DEF CallInv, CallNumbers, InLoop
  <2>4. WriteInv(D)'
    BY <1>1, <2>1, <2>2, <2>3 DEF CallInv, WriteInv, Waits, At, InodeAt
  <2> QED BY <2>1, <2>3, <2>4 DEF CallInv
<1>7. CASE Ready
  <2>1. /\ fs.pc \in {"opened", "synced"} /\ Return /\ fs'.pc = "idle"
        /\ UNCHANGED <<fd_pos, i_size, ubuf, ops, goal>>
    BY <1>7 DEF Ready, Return, AtRest
  <2>2. SUFFICES ASSUME goal.within PROVE TransfersExact'
    BY <1>1, <2>1 DEF GoalInv, Calling, InLoop, TransfersExact
  <2>3. fs.pc = "synced" /\ CallInv(D)
    BY <2>1, <2>2 DEF GoalInv, Calling
  <2>4. fs.left = 0 /\ i_size = goal.size
    BY <2>3 DEF CallInv, CallNumbers
  <2>5. disk[InodeAt(D)][1] = i_size
    <3>1. SizeInv(D)'
      BY SizeAsked
    <3>2. disk'[InodeAt(D)][1] = i_size'
      BY <2>1, <3>1 DEF SizeInv, InodeAt
    <3> QED BY <1>1, <2>1, <3>2
  <2> QED BY <1>1, <2>1, <2>3, <2>4, <2>5, ReturnGoal
<1> QED BY <1>2, <1>3, <1>4, <1>5, <1>6, <1>7 DEF FsStep

-----------------------------------------------------------------------------
\* The disk is what the system started with, but for what the calls wrote.
TransfersInv == \E D \in Disks : TransferInv(D)

\* At first nothing is copied.
LEMMA TransferInit ==
  ASSUME NEW D, DiskFits(D), Init, disk = D
  PROVE  TransferInv(D)
<1>1. /\ hd_pc = "receive" /\ fs = AtRest("open") /\ goal = NoGoal /\ i_size = Size0 /\ ops = 0
      /\ fsbuf = [k \in 0 .. FsBufSects * SECTOR_SIZE - 1 |-> 0]
  BY DEF Init, HdInit
<1>2. CopyInv(D)
  BY <1>1 DEF CopyInv, AtRest
<1>3. SizeInv(D)
  BY <1>1 DEF SizeInv, AtRest, InodeAt, Base, DiskFits
<1>4. GoalInv(D)
  BY <1>1 DEF GoalInv, NoGoal, AtRest, TransfersExact
<1> QED BY <1>2, <1>3, <1>4, DInvInit DEF TransferInv

\* Every step keeps what is known about the transfers.
LEMMA TransferNext ==
  ASSUME DisksFit, HInv, FsInv, TransfersInv, [Next]_rdwtvars
  PROVE  TransfersInv'
<1>1. PICK D \in Disks : TransferInv(D)
  BY DEF TransfersInv
<1>2. DiskFits(D) /\ RootKnown /\ DInv(D) /\ CopyInv(D) /\ SizeInv(D) /\ GoalInv(D)
  BY <1>1 DEF DisksFit, RootKnown, Prims, TransferInv
<1>3. CASE FsStep
  <2>1. DInv(D)' /\ CopyInv(D)' /\ SizeInv(D)' /\ GoalInv(D)'
    BY <1>2, <1>3, FsStepOpens, CopyAsked, SizeAsked, GoalAsked
  <2> QED BY <2>1 DEF TransfersInv, TransferInv
<1>4. CASE (HdStep \/ Tick \/ DriveReady) /\ UNCHANGED fsvars
  <2>1. Shape(D) /\ AtSector(D)
    BY <1>2 DEF DInv
  <2>2. DInv(D)' /\ CopyInv(D)' /\ SizeInv(D)' /\ GoalInv(D)'
    BY <1>2, <1>4, <2>1, HdKnows, CopyKept, SizeKept, GoalKept
  <2> QED BY <2>2 DEF TransfersInv, TransferInv
<1>5. CASE UNCHANGED rdwtvars
  <2>1. DInv(D)'
    BY <1>2, <1>5 DEF rdwtvars, hdvars, fsvars, DInv, Shape, InfoInv, InfoIs, NothingIn, AllIn,
                      OpenedInv, AtSector, Single, Sent
  <2>2. CopyInv(D)' /\ SizeInv(D)'
    <3>1. UNCHANGED <<mbox, hd_pc, msg, left, cmd, walk, disk, fsbuf, fs, i_size>>
      BY <1>5 DEF rdwtvars, hdvars, fsvars
    <3>2. \A sect, n : Same(D, sect, n) => Same(D, sect, n)'
      BY <3>1 DEF Same
    <3>3. Sent' = Sent /\ (Single' <=> Single)
      BY <3>1 DEF Sent, Single
    <3>4. CopyInv(D)'
      BY <1>2, <3>1, <3>2, <3>3 DEF CopyInv
    <3>5. SizeInv(D)'
      BY <1>2, <3>1 DEF SizeInv, InodeAt
    <3> QED BY <3>4, <3>5
  <2>3. GoalInv(D)'
    <3>1. UNCHANGED <<disk, fsbuf, fs, fd_pos, i_size, ubuf, cnt, ops, goal>>
      BY <1>5 DEF rdwtvars, hdvars, fsvars
    <3>2. CallNumbers => CallNumbers'
      BY <3>1 DEF CallNumbers, InLoop
    <3>3. ReadInv(D) => ReadInv(D)'
      BY <3>1 DEF ReadInv, ByteAt
    <3>4. WriteInv(D) => WriteInv(D)'
      BY <3>1 DEF WriteInv, Waits, At, InodeAt
    <3>5. CallInv(D) => CallInv(D)'
      BY <3>1, <3>2, <3>3, <3>4 DEF CallInv
    <3> QED BY <1>2, <3>1, <3>5 DEF GoalInv, Calling, InLoop, TransfersExact
  <2> QED BY <2>1, <2>2, <2>3 DEF TransfersInv, TransferInv
<1> QED BY <1>3, <1>4, <1>5 DEF Next

\* A READ or WRITE that ends within the file transfers exactly its bytes, for

\* sectors and a buffer of any size, a file and an i-node at any place, and
\* calls of any lengths: do_rdwt cuts it into chunks, HD into commands, and the
\* controller into sectors, and no byte is lost, doubled or put elsewhere; and
\* the size on the disk follows that in memory.
THEOREM TransfersCorrect == DisksFit /\ Spec => []TransfersExact
<1>1. Spec => [](HInv /\ FsInv)
  BY FsTypes, HInvInit, HInvNext, FsInvInit, FsInvNext, PTL DEF Spec
<1>2. ASSUME DisksFit PROVE Init => TransfersInv
  <2> SUFFICES ASSUME Init PROVE TransfersInv
    OBVIOUS
  <2>1. disk \in Disks /\ DiskFits(disk)
    BY <1>2 DEF Init, HdInit, DisksFit
  <2>2. \A D : DiskFits(D) /\ disk = D => TransferInv(D)
    BY TransferInit
  <2>3. \E D : D \in Disks /\ DiskFits(D) /\ disk = D
    BY <2>1
  <2> QED BY <2>2, <2>3 DEF TransfersInv
<1>3. ASSUME DisksFit PROVE HInv /\ FsInv /\ TransfersInv /\ [Next]_rdwtvars => TransfersInv'
  BY <1>3, TransferNext
<1>4. TransfersInv => TransfersExact
  BY DEF TransfersInv, TransferInv, GoalInv
<1>5. ASSUME DisksFit PROVE Spec => []TransfersExact
  BY <1>1, <1>2, <1>3, <1>4, <1>5, PTL DEF Spec
<1> QED BY <1>5
=============================================================================
