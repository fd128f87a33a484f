------------------------------- MODULE FsRdwt -------------------------------
(***************************************************************************)
(* do_rdwt() of fs/read_write.c on top of the driver of module Hd: FS opens*)
(* the disk, then serves READ and WRITE of descriptors of one file.  The   *)
(* bytes of a transfer go through fsbuf in chunks of at most FSBUF_SIZE,   *)
(* each chunk a request to HD, each sector an interrupt.                   *)
(***************************************************************************)
EXTENDS Hd

CONSTANTS
  ROOT_DEV,      \* the minor number of the partition with the file system
  Fds,           \* the descriptors of the file
  RdwrFds,       \* those of them opened with O_RDWR
  StartSect, NrSects,   \* i_start_sect and i_nr_sects
  InodeSect,     \* the sector with the i-node
  Size0,         \* i_size at the start
  Lengths,       \* the values of CNT
  MaxOps         \* bound: the calls of one run

ASSUME FsRdwtAssumption ==
  /\ RdwrFds \subseteq Fds
  /\ Lengths \subseteq Nat /\ MaxOps \in Nat
  /\ ROOT_DEV \in Nat /\ StartSect \in Nat /\ InodeSect \in Nat
  /\ NrSects \in Nat \ {0} /\ Size0 \in 0 .. NrSects * SECTOR_SIZE

VARIABLES
  fs,        \* where do_rdwt is, with its locals
  fd_pos, i_size,
  ubuf,      \* the buffer of the caller of READ
  cnt,       \* the CNT returned
  ops,
  goal       \* what the call has to do, computed when it comes

fsvars == <<fs, fd_pos, i_size, ubuf, cnt, ops, goal>>
rdwtvars == <<hdvars, fsvars>>

AtRest(pc) == [pc |-> pc, type |-> "none", fd |-> 0, i |-> 0, max |-> 0, chunk |-> 1,
               off |-> 0, done |-> 0, left |-> 0]
Least(x, y) == IF x < y THEN x ELSE y
\* Byte k of the data that the n-th call writes.
Payload(n, k) == 10 * n + k

\* The file as the user sees it.
PartBase == PartOf(hd_info, ROOT_DEV).base
FirstByte == (PartBase + StartSect) * SECTOR_SIZE
FileByte(k) == disk[((FirstByte + k) \div SECTOR_SIZE) + 1][((FirstByte + k) % SECTOR_SIZE) + 1]
Capacity == NrSects * SECTOR_SIZE

NoGoal == [within |-> FALSE, fd |-> 0, pos |-> 0, size |-> 0, cnt |-> 0,
           data |-> <<>>, disk |-> <<>>]

Init ==
  /\ HdInit
  /\ fs = AtRest("open")
  /\ fd_pos = [f \in Fds |-> 0]
  /\ i_size = Size0
  /\ ubuf = <<>> /\ cnt = 0 /\ ops = 0
  /\ goal = NoGoal

-----------------------------------------------------------------------------
\* What a READ or WRITE of len bytes is to do: its bytes and no others.  The
\* i-node is written back when the file grew.
Goal(fd, type, len) ==
  LET pos == fd_pos[fd]
      size == IF type = "WRITE" /\ pos + len > i_size THEN pos + len ELSE i_size
      at(s, b) == (s - 1) * SECTOR_SIZE + b - 1 - FirstByte - pos
  IN  [within |-> pos + len <= (IF type = "READ" THEN i_size ELSE Capacity),
       fd |-> fd, pos |-> pos + len, size |-> size, cnt |-> len,
       data |-> IF type = "WRITE" THEN <<>> ELSE [k \in 1 .. len |-> FileByte(pos + k - 1)],
       disk |-> IF type = "READ" THEN disk
                ELSE [s \in DOMAIN disk |->
                        IF s = PartBase + InodeSect + 1
                        THEN [disk[s] EXCEPT ![1] = size]
                        ELSE [b \in DOMAIN disk[s] |->
                               IF at(s, b) \in 0 .. len - 1 THEN Payload(ops, at(s, b))
                               ELSE disk[s][b]]]]

\* init_fs: DEV_OPEN; mkfs: the geometry of the partition.
FsInit ==
  /\ fs.pc \in {"open", "geo"}
  /\ Send(Request(IF fs.pc = "open" THEN "DEV_OPEN" ELSE "DEV_IOCTL", ROOT_DEV, 0, 0))
  /\ fs' = AtRest(IF fs.pc = "open" THEN "geo" ELSE "opened")
  /\ UNCHANGED <<fd_pos, i_size, ubuf, cnt, ops, goal>>

\* A READ ends with the file, a WRITE with the sectors it has.
PosEnd(type, pos, len) ==
  Least(pos + len, IF type = "READ" THEN i_size ELSE NrSects * SECTOR_SIZE)

\* READ or WRITE comes: do_rdwt up to its loop.
Start(fd, type, len) ==
  LET pos == fd_pos[fd]
      min == StartSect + (pos \div SECTOR_SIZE)
      max == StartSect + (PosEnd(type, pos, len) \div SECTOR_SIZE)
  IN  /\ fs.pc = "idle" /\ ops < MaxOps
      /\ ops' = ops + 1 /\ ubuf' = <<>> /\ cnt' = 0
      /\ IF fd \in RdwrFds
         THEN /\ goal' = Goal(fd, type, len)
              /\ fs' = [pc |-> "fetch", type |-> type, fd |-> fd, i |-> min, max |-> max,
                        chunk |-> Least(max - min + 1, FsBufSects),
                        off |-> pos % SECTOR_SIZE, done |-> 0, left |-> len]
         ELSE goal' = NoGoal /\ UNCHANGED fs
      /\ UNCHANGED <<fd_pos, i_size, mbox>>

\* The next chunk is read.
Fetch ==
  /\ fs.pc = "fetch" /\ fs.i <= fs.max
  /\ Send(Request("DEV_READ", ROOT_DEV, fs.i, fs.chunk))
  /\ fs' = [fs EXCEPT !.pc = "move"]
  /\ UNCHANGED <<fd_pos, i_size, ubuf, cnt, ops, goal>>

\* How many bytes this round moves.
Bytes == Least(fs.left, fs.chunk * SECTOR_SIZE - fs.off)

\* Mutant: the offset is kept for the next chunk.
NextRoundMut == [fs EXCEPT !.pc = "fetch", !.i = @ + fs.chunk,
                           !.done = @ + Bytes, !.left = @ - Bytes]

NextRound == [fs EXCEPT !.pc = "fetch", !.i = @ + fs.chunk, !.off = 0,
                        !.done = @ + Bytes, !.left = @ - Bytes]

Advance == /\ fs' = NextRound
           /\ fd_pos' = [fd_pos EXCEPT ![fs.fd] = @ + Bytes]

\* READ: phys_copy to the caller ends the round.
MoveOut ==
  /\ fs.pc = "move" /\ fs.type = "READ" /\ mbox = NoRequest
  /\ ubuf' = ubuf \o [k \in 1 .. Bytes |-> fsbuf[fs.off + k - 1]]
  /\ Advance
  /\ UNCHANGED <<i_size, cnt, ops, goal, mbox, fsbuf>>

\* WRITE: the bytes are copied into the chunk, and it is written back.
MoveIn ==
  /\ fs.pc = "move" /\ fs.type = "WRITE"
  /\ Send(Request("DEV_WRITE", ROOT_DEV, fs.i, fs.chunk))
  /\ fsbuf' = [k \in DOMAIN fsbuf |->
                 IF k \in fs.off .. fs.off + Bytes - 1
                 THEN Payload(ops - 1, fs.done + k - fs.off) ELSE fsbuf[k]]
  /\ fs' = [fs EXCEPT !.pc = "written"]
  /\ UNCHANGED <<fd_pos, i_size, ubuf, cnt, ops, goal>>

Written ==
  /\ fs.pc = "written" /\ mbox = NoRequest
  /\ Advance
  /\ UNCHANGED <<i_size, ubuf, cnt, ops, goal, mbox, fsbuf>>

Return == fs' = AtRest("idle") /\ cnt' = fs.done

\* The file grew.
Grows == fd_pos[fs.fd] > i_size

\* After the loop: sync_inode() reads the sector of the i-node when the file
\* grew.
Finish ==
  /\ fs.pc = "fetch" /\ fs.i > fs.max
  /\ IF Grows
     THEN /\ i_size' = fd_pos[fs.fd]
          /\ Send(Request("DEV_READ", ROOT_DEV, InodeSect, 1))
          /\ fs' = [fs EXCEPT !.pc = "sync"] /\ UNCHANGED cnt
     ELSE Return /\ UNCHANGED <<i_size, mbox>>
  /\ UNCHANGED <<fd_pos, ubuf, ops, goal, fsbuf>>

Sync ==
  /\ fs.pc = "sync"
  /\ Send(Request("DEV_WRITE", ROOT_DEV, InodeSect, 1))
  /\ fsbuf' = [fsbuf EXCEPT ![0] = i_size]
  /\ fs' = [fs EXCEPT !.pc = "synced"]
  /\ UNCHANGED <<fd_pos, i_size, ubuf, cnt, ops, goal>>

\* FS goes on when its last request is answered.
Ready ==
  /\ fs.pc \in {"opened", "synced"} /\ mbox = NoRequest
  /\ Return
  /\ UNCHANGED <<fd_pos, i_size, ubuf, ops, goal, mbox, fsbuf>>

FsCall == \E fd \in Fds, type \in {"READ", "WRITE"}, len \in Lengths : Start(fd, type, len)

FsStep ==
  /\ \/ (FsCall \/ FsInit \/ Fetch) /\ UNCHANGED fsbuf
     \/ MoveOut \/ MoveIn \/ Written \/ Finish \/ Sync \/ Ready
  /\ UNCHANGED <<hd_pc, msg, left, cmd, walk, hd_info, has_int_msg, drive, disk, geo, clock>>

Next == \/ FsStep
        \/ (HdStep \/ Tick \/ DriveReady) /\ UNCHANGED fsvars

Spec == Init /\ [][Next]_rdwtvars

\* The controller answers, and both tasks run when they can; nobody is obliged
\* to call FS, and the clock to strike.
FairSpec == Spec /\ WF_rdwtvars(HdStep /\ UNCHANGED fsvars)
                 /\ WF_rdwtvars(DriveReady /\ UNCHANGED fsvars)

-----------------------------------------------------------------------------
\* The disks the system is made for.  The file system is in a partition of the
\* disk.  The tables of an extended partition lie behind the first sector.  The
\* sectors FS may write are whole sectors of the disk and hold no table: that of
\* the i-node, and those of the file with as many behind them as the last chunk
\* may have.
RootPart(D) ==
  LET i == (ROOT_DEV - MINOR_hd1a) % NR_SUB_PER_DRIVE
  IN  IF ROOT_DEV < MAX_PRIM THEN PrimaryOf(D, ROOT_DEV)
      ELSE LogicalOf(D, (i \div NR_SUB_PER_PART) + 1, i % NR_SUB_PER_PART)

RootSects(D) ==
  {RootPart(D).base + s : s \in {InodeSect} \cup (StartSect .. StartSect + NrSects + FsBufSects - 1)}

TableSects(D) ==
  {0} \cup {Chained(D, d, k) : d \in 1 .. NR_PART_PER_DRIVE, k \in 0 .. NR_SUB_PER_PART - 1}

DiskFits(D) ==
  /\ D = [s \in DOMAIN D |-> [b \in DOMAIN D[s] |-> D[s][b]]]
  /\ \A s \in DOMAIN D : s \in Nat \ {0} /\ DOMAIN D[s] \subseteq 1 .. SECTOR_SIZE
  /\ \A d \in 1 .. NR_PART_PER_DRIVE : D[1][d].sys = "EXT_PART" => D[1][d].start \in Nat \ {0}
  /\ \A s \in TableSects(D) : s + 1 \in DOMAIN D /\ (s # 0 => D[s + 1][2].start \in Nat)
  /\ RootPart(D).base \in Nat
  /\ \A s \in RootSects(D) :
       s \notin TableSects(D) /\ s + 1 \in DOMAIN D /\ DOMAIN D[s + 1] = 1 .. SECTOR_SIZE
  /\ D[RootPart(D).base + InodeSect + 1][1] = Size0

DisksFit ==
  /\ ROOT_DEV \in 1 .. NR_PART_PER_DRIVE \/ ROOT_DEV >= MINOR_hd1a
  /\ InodeSect \notin StartSect .. StartSect + NrSects + FsBufSects - 1
  /\ \A D \in Disks : DiskFits(D)

\* A READ or WRITE that ends within the file does exactly that: the bytes of
\* the caller at the position of the descriptor, no other byte of the disk,
\* whatever chunks and sectors it is cut into; and the size on the disk is
\* that of the table.
TransfersExact ==
  (fs.pc = "idle" /\ goal.within) =>
    /\ disk = goal.disk /\ fd_pos[goal.fd] = goal.pos /\ i_size = goal.size
    /\ cnt = goal.cnt /\ ubuf = goal.data
=============================================================================
