--------------------------------- MODULE Hd ---------------------------------
(***************************************************************************)
(* The task HD (kernel/hd.c) and the disk controller it drives: one        *)
(* request at a time, each a sequence of ATA commands, each command        *)
(* answered by one interrupt per sector.                                   *)
(*                                                                         *)
(* The client's SEND and RECEIVE are the mailbox mbox: it is full from the *)
(* request to the reply.  Positions and counts are in sectors, as all the  *)
(* callers' are multiples of SECTOR_SIZE.  The tick counter matters in     *)
(* waitfor() only, and starts there with any value.                        *)
(***************************************************************************)
EXTENDS Integers, Sequences

CONSTANTS
  NR_PART_PER_DRIVE, NR_SUB_PER_PART, MINOR_hd1a,
  Disks,         \* the disks the system may be started with
  MaxCount,      \* 256: cmd.count is a u8, and 0 stands for 256
  SECTOR_SIZE,   \* bytes
  FsBufSects,    \* FSBUF_SIZE in sectors
  MAX_TICKS,     \* get_ticks() is below it
  Word,          \* 2^32: an int is below Word / 2
  Ms, HZ,        \* ticks are converted with * Ms / HZ, the 1000 of waitfor()
  HD_TIMEOUT,    \* in milliseconds
  MaxWait        \* bound: the ticks that pass in one waitfor()

ASSUME HdAssumption ==
  /\ NR_PART_PER_DRIVE \in Nat \ {0} /\ NR_SUB_PER_PART \in Nat \ {0}
  /\ MINOR_hd1a \in Nat /\ MINOR_hd1a > 2 * (NR_PART_PER_DRIVE + 1)
  /\ MaxCount \in Nat \ {0} /\ SECTOR_SIZE \in Nat \ {0}
  /\ FsBufSects \in Nat \ {0} /\ MAX_TICKS \in Nat \ {0}
  /\ Word \in Nat \ {0} /\ Ms \in Nat /\ HZ \in Nat \ {0}
  /\ HD_TIMEOUT \in Nat \ {0} /\ MaxWait \in Nat

NR_SUB_PER_DRIVE == NR_SUB_PER_PART * NR_PART_PER_DRIVE
NR_PRIM_PER_DRIVE == NR_PART_PER_DRIVE + 1
MAX_PRIM == 2 * NR_PRIM_PER_DRIVE - 1
Entries == 0 .. NR_PART_PER_DRIVE - 1
Ticks == 0 .. MAX_TICKS - 1

VARIABLES
  mbox,      \* the request of the client that waits, or NoRequest
  hd_pc,     \* where HD is
  msg,       \* the request HD serves
  left,      \* the sectors of it that are not transferred yet
  cmd,       \* the command HD puts out
  walk,      \* partition(): the table of the drive and the place in it
  hd_info,
  has_int_msg,
  drive,     \* the controller: command, next sector, sectors to go
  disk,      \* sector -> bytes, or -> a table of partitions
  fsbuf,     \* the buffer of the client
  geo,       \* the part_info of the last DEV_IOCTL
  clock      \* of the waitfor() under way: its t, the ticks now, and, to
             \* state properties, the ticks that passed and whether they wrapped

hdvars == <<mbox, hd_pc, msg, left, cmd, walk, hd_info, has_int_msg, drive,
            disk, fsbuf, geo, clock>>

NoRequest == [type |-> "none", dev |-> 0, sect |-> 0, n |-> 0]
Request(t, dev, sect, n) == [type |-> t, dev |-> dev, sect |-> sect, n |-> n]
NoPart == [base |-> 0, size |-> 0]
NoWalk == [ext |-> 0, k |-> 0, s |-> 0, i |-> 0, tbl |-> <<>>]
NoClock == [t |-> 0, now |-> 0, waited |-> 0, wrapped |-> FALSE]
Idle == [st |-> "idle", command |-> "none", lba |-> 0, left |-> 0, fresh |-> FALSE]

\* The minor numbers 1 .. MAX_PRIM are primary partitions, those from
\* MINOR_hd1a on logical ones; MAX_PRIM itself is taken for a logical one.
PartOf(info, dev) ==
  IF dev < MAX_PRIM THEN info.primary[dev]
  ELSE info.logical[(dev - MINOR_hd1a) % NR_SUB_PER_DRIVE]

\* init_hd() clears hd_info.
HdInit ==
  /\ disk \in Disks
  /\ mbox = NoRequest /\ hd_pc = "receive" /\ msg = NoRequest /\ left = 0
  /\ cmd = [command |-> "none", lba |-> 0, count |-> 0]
  /\ walk = NoWalk
  /\ hd_info = [open_cnt |-> 0,
                primary |-> [d \in 0 .. NR_PART_PER_DRIVE |-> NoPart],
                logical |-> [d \in 0 .. NR_SUB_PER_DRIVE - 1 |-> NoPart]]
  /\ has_int_msg = FALSE
  /\ drive = Idle
  /\ fsbuf = [k \in 0 .. FsBufSects * SECTOR_SIZE - 1 |-> 0]
  /\ geo = NoPart
  /\ clock = NoClock

\* rw_sector() and the other send_recv(BOTH, driver, ...) of FS.
Send(r) == mbox = NoRequest /\ mbox' = r

-----------------------------------------------------------------------------
\* waitfor(): t is read once; (get_ticks() - t) * 1000 / HZ in an int.
Signed(x) == ((x + (Word \div 2)) % Word) - (Word \div 2)

\* Mutant: the ticks at the start are not subtracted.
ExpiredMut == Signed(clock.now * Ms) \div HZ >= HD_TIMEOUT

Expired == Signed((clock.now - clock.t) * Ms) \div HZ >= HD_TIMEOUT

InWaitfor == hd_pc \in {"bsy", "drq"}

StartWait == \E x \in Ticks : clock' = [NoClock EXCEPT !.t = x, !.now = x]

\* The clock strikes while HD polls the status.
Tick ==
  /\ InWaitfor /\ clock.waited < MaxWait
  /\ clock' = [clock EXCEPT !.now = (@ + 1) % MAX_TICKS, !.waited = @ + 1,
                            !.wrapped = @ \/ clock.now + 1 = MAX_TICKS]
  /\ UNCHANGED <<mbox, hd_pc, msg, left, cmd, walk, hd_info, has_int_msg, drive,
                 disk, fsbuf, geo>>

\* "hd error." or "hd writing error."
WaitFails ==
  /\ InWaitfor /\ Expired
  /\ hd_pc' = "panic"
  /\ UNCHANGED <<mbox, msg, left, cmd, walk, hd_info, has_int_msg, drive, disk,
                 fsbuf, geo, clock>>

-----------------------------------------------------------------------------
\* Mutant: the sectors are counted from 0.
BeginMut(command, lba, n) ==
  /\ cmd' = [command |-> command, lba |-> lba, count |-> (n - 1) % MaxCount]
  /\ hd_pc' = "bsy"
  /\ StartWait

\* HD begins a command: hd_cmd_out() waits for BSY = 0.
Begin(command, lba, n) ==
  /\ cmd' = [command |-> command, lba |-> lba, count |-> n % MaxCount]
  /\ hd_pc' = "bsy"
  /\ StartWait

\* The next message for task_hd: an interrupt nobody waited for comes first
\* and is an unknown message.
Receive ==
  /\ hd_pc = "receive" /\ (has_int_msg \/ mbox # NoRequest)
  /\ hd_pc' = IF has_int_msg THEN "spin" ELSE mbox.type
  /\ has_int_msg' = FALSE
  /\ msg' = mbox
  /\ UNCHANGED <<mbox, left, cmd, walk, hd_info, drive, disk, fsbuf, geo, clock>>

\* hd_open: hd_identify() comes first, whether the drive is open or not.
HdOpen ==
  /\ hd_pc = "DEV_OPEN"
  /\ Begin("IDENTIFY", 0, 1)
  /\ UNCHANGED <<mbox, msg, left, walk, hd_info, has_int_msg, drive, disk, fsbuf, geo>>

HdIoctl ==
  /\ hd_pc = "DEV_IOCTL"
  /\ geo' = PartOf(hd_info, msg.dev)
  /\ hd_pc' = "reply"
  /\ UNCHANGED <<mbox, msg, left, cmd, walk, hd_info, has_int_msg, drive, disk, fsbuf, clock>>

Sector == msg.sect + PartOf(hd_info, msg.dev).base

HdRdwt ==
  /\ hd_pc \in {"DEV_READ", "DEV_WRITE"}
  /\ Begin(IF hd_pc = "DEV_READ" THEN "READ" ELSE "WRITE", Sector, msg.n)
  /\ left' = msg.n
  /\ UNCHANGED <<mbox, msg, walk, hd_info, has_int_msg, drive, disk, fsbuf, geo>>

\* The registers are written: the controller works.
CommandOut ==
  /\ hd_pc = "bsy" /\ ~Expired /\ drive.st # "bsy"
  /\ drive' = [st |-> "bsy", command |-> cmd.command, lba |-> cmd.lba, fresh |-> TRUE,
               left |-> IF cmd.count = 0 THEN MaxCount ELSE cmd.count]
  /\ IF cmd.command = "WRITE" THEN hd_pc' = "drq" /\ StartWait
                              ELSE hd_pc' = "int" /\ clock' = NoClock
  /\ UNCHANGED <<mbox, msg, left, cmd, walk, hd_info, has_int_msg, disk, fsbuf, geo>>

-----------------------------------------------------------------------------
\* The controller: data of a sector is ready, or room for one.  Every sector
\* has its interrupt, and hd_handler() turns it into a message for HD; there is
\* none for the first sector that is written.
DriveReady ==
  /\ drive.st = "bsy"
  /\ drive' = IF drive.left = 0 THEN Idle ELSE [drive EXCEPT !.st = "drq", !.fresh = FALSE]
  /\ has_int_msg' = (has_int_msg \/ drive.command # "WRITE" \/ ~drive.fresh)
  /\ UNCHANGED <<mbox, hd_pc, msg, left, cmd, walk, hd_info, disk, fsbuf, geo, clock>>

\* The sector in the controller is read, and it goes on to the next one.
DataRead == drive' = IF drive.left = 1 THEN Idle
                     ELSE [drive EXCEPT !.st = "bsy", !.left = @ - 1, !.lba = @ + 1]

\* Mutant: interrupt_wait() returns without an interrupt.
InterruptedMut == hd_pc = "int" /\ drive.st # "bsy" /\ has_int_msg' = has_int_msg

\* interrupt_wait(): RECEIVE from INTERRUPT.
Interrupted == hd_pc = "int" /\ has_int_msg /\ has_int_msg' = FALSE

Answers(c) == Interrupted /\ cmd.command = c

\* hd_identify goes on, and hd_open: the partitions are read when the drive
\* was not open, beginning with the table in sector 0.
Identified ==
  /\ Answers("IDENTIFY") /\ DataRead
  /\ hd_info' = [hd_info EXCEPT !.primary[0] = [base |-> 0, size |-> Len(disk)],
                                !.open_cnt = @ + 1]
  /\ IF hd_info.open_cnt = 0
     THEN /\ walk' = [NoWalk EXCEPT !.ext = -1]
          /\ Begin("READ", 0, 1)
     ELSE hd_pc' = "reply" /\ UNCHANGED <<walk, cmd, clock>>
  /\ UNCHANGED <<mbox, msg, left, disk, fsbuf, geo>>

Extended(tbl, i) == {e \in Entries : e >= i /\ tbl[e + 1].sys = "EXT_PART"}
FirstOf(S) == CHOOSE e \in S : \A f \in S : e <= f

\* The entries of tbl from i to e in the primary partitions.
Filled(prim, tbl, i, e) ==
  [d \in DOMAIN prim |->
     IF d - 1 \in i .. e /\ tbl[d].sys # "NO_PART"
     THEN [base |-> tbl[d].start, size |-> tbl[d].size]
     ELSE prim[d]]

\* partition(P_PRIMARY) from entry i on, up to the next extended partition,
\* whose chain of tables it reads.
PrimaryRound(info, tbl, i) ==
  IF Extended(tbl, i) = {}
  THEN /\ hd_info' = [info EXCEPT !.primary = Filled(@, tbl, i, NR_PART_PER_DRIVE - 1)]
       /\ walk' = NoWalk
       /\ hd_pc' = "reply" /\ UNCHANGED <<cmd, clock>>
  ELSE LET e == FirstOf(Extended(tbl, i))
           s == tbl[e + 1].start
       IN  /\ hd_info' = [info EXCEPT !.primary = Filled(@, tbl, i, e)]
           /\ walk' = [ext |-> e + 1, k |-> 0, s |-> s, i |-> e + 1, tbl |-> tbl]
           /\ Begin("READ", s, 1)

\* get_part_table() returns with the table of the drive.
PrimaryTable ==
  /\ walk.ext = -1 /\ Answers("READ") /\ DataRead
  /\ PrimaryRound(hd_info, disk[drive.lba + 1], 0)
  /\ UNCHANGED <<mbox, msg, left, disk, fsbuf, geo>>

\* Mutant: the next table is looked for from the present one on.
NextTableMut(t) == walk.s + t[2].start

\* Where the next table of the extended partition is.
NextTable(t) == hd_info.primary[walk.ext].base + t[2].start

\* get_part_table() returns with a table of an extended partition.
ExtendedTable ==
  LET t == disk[drive.lba + 1]
      info == [hd_info EXCEPT !.logical[(walk.ext - 1) * NR_SUB_PER_PART + walk.k] =
                 [base |-> walk.s + t[1].start, size |-> t[1].size]]
  IN  /\ walk.ext > 0 /\ Answers("READ") /\ DataRead
      /\ IF t[2].sys = "NO_PART" \/ walk.k = NR_SUB_PER_PART - 1
         THEN PrimaryRound(info, walk.tbl, walk.i)
         ELSE /\ hd_info' = info
              /\ walk' = [walk EXCEPT !.k = @ + 1, !.s = NextTable(t)]
              /\ Begin("READ", NextTable(t), 1)
      /\ UNCHANGED <<mbox, msg, left, disk, fsbuf, geo>>

-----------------------------------------------------------------------------
\* The bytes of fsbuf that the next sector goes to or comes from.
Window == (msg.n - left) * SECTOR_SIZE
NextPc == IF left = 1 THEN "reply" ELSE "int"

\* One round of the loop of hd_rdwt that reads.
SectorRead ==
  /\ walk.ext = 0 /\ Answers("READ") /\ DataRead
  /\ fsbuf' = [k \in DOMAIN fsbuf |->
                 IF k \in Window .. Window + SECTOR_SIZE - 1
                 THEN disk[drive.lba + 1][k - Window + 1] ELSE fsbuf[k]]
  /\ left' = left - 1
  /\ hd_pc' = NextPc
  /\ UNCHANGED <<mbox, msg, cmd, walk, hd_info, disk, geo, clock>>

\* A round of it that writes: the data goes out when DRQ is set.
PortWrite ==
  /\ hd_pc = "drq" /\ ~Expired /\ drive.st = "drq"
  /\ disk' = [disk EXCEPT ![drive.lba + 1] =
                [b \in 1 .. SECTOR_SIZE |-> fsbuf[Window + b - 1]]]
  /\ drive' = [drive EXCEPT !.st = "bsy", !.left = @ - 1, !.lba = @ + 1]
  /\ hd_pc' = "int" /\ clock' = NoClock
  /\ UNCHANGED <<mbox, msg, left, cmd, walk, hd_info, has_int_msg, fsbuf, geo>>

SectorWritten ==
  /\ Answers("WRITE")
  /\ left' = left - 1
  /\ IF left = 1 THEN hd_pc' = "reply" /\ UNCHANGED clock
                 ELSE hd_pc' = "drq" /\ StartWait
  /\ UNCHANGED <<mbox, msg, cmd, walk, hd_info, drive, disk, fsbuf, geo>>

\* The SEND to the client that waits in its RECEIVE.
HdReply ==
  /\ hd_pc = "reply"
  /\ mbox' = NoRequest /\ msg' = NoRequest /\ hd_pc' = "receive"
  /\ UNCHANGED <<left, cmd, walk, hd_info, has_int_msg, drive, disk, fsbuf, geo, clock>>

HdStep == \/ Receive \/ HdOpen \/ HdIoctl \/ HdRdwt \/ CommandOut
          \/ WaitFails \/ Identified \/ PrimaryTable \/ ExtendedTable
          \/ SectorRead \/ PortWrite \/ SectorWritten \/ HdReply

-----------------------------------------------------------------------------
\* Every interrupt is consumed by the command that caused it: between two
\* requests the controller has nothing to do and no interrupt is left over,
\* which would be an unknown message for task_hd.
InterruptsMatched ==
  hd_pc \in {"receive", "reply", "spin"} => drive = Idle /\ ~has_int_msg /\ hd_pc # "spin"

\* The tables of extended partition d of disk D, as they are chained: the place
\* of table k, the entry for it in the table before being relative to the first.
Tables(D, d) ==
  LET first == D[1][d].start
      place[n \in Nat] ==
        IF n = 0 THEN first
        ELSE LET t == D[place[n - 1] + 1]
             IN  IF place[n - 1] = 0 \/ t[2].sys = "NO_PART" THEN 0
                 ELSE first + t[2].start
  IN  place

Chained(D, d, k) == IF D[1][d].sys = "EXT_PART" THEN Tables(D, d)[k] ELSE 0

\* The partitions of disk D: a logical one is relative to its own table.
PrimaryOf(D, d) ==
  IF D[1][d].sys = "NO_PART" THEN NoPart
  ELSE [base |-> D[1][d].start, size |-> D[1][d].size]

LogicalOf(D, d, k) ==
  LET s == Chained(D, d, k)
  IN  IF s = 0 THEN NoPart
      ELSE [base |-> s + D[s + 1][1].start, size |-> D[s + 1][1].size]

\* An open drive has every partition of the disk under its device number, and
\* none that the disk has not: primary d under d, the logical ones of primary d
\* in the order of the chain.
PartitionsRead ==
  (hd_info.open_cnt > 0 /\ hd_pc = "receive") =>
    \A d \in 1 .. NR_PART_PER_DRIVE :
      /\ hd_info.primary[d] = PrimaryOf(disk, d)
      /\ \A k \in 0 .. NR_SUB_PER_PART - 1 :
           hd_info.logical[(d - 1) * NR_SUB_PER_PART + k] = LogicalOf(disk, d, k)

\* HD gives up on a disk only if it was not ready during the whole timeout, or
\* if the counter of the ticks began again at 0 while it waited.
PanicsOnlyLate ==
  hd_pc = "panic" => clock.waited * Ms >= HD_TIMEOUT * HZ \/ clock.wrapped

\* A request that is not larger than one command can be is answered.
RequestsEnd ==
  (mbox # NoRequest /\ mbox.n <= MaxCount) ~> (mbox = NoRequest \/ hd_pc = "panic")
=============================================================================
