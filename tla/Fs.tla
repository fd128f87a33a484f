--------------------------------- MODULE Fs ---------------------------------
(***************************************************************************)
(* The tables of the task FS: the descriptors of the processes, the shared *)
(* f_desc_table[] and inode_table[], and on the disk the root directory,   *)
(* the inode array, the inode map and the sector map (fs/main.c, open.c,   *)
(* link.c, misc.c).                                                        *)
(*                                                                         *)
(* FS serves one request at a time and is alone on its disk: it waits for  *)
(* its drivers inside a request, but takes no other before it replies, so  *)
(* a request is one step.  The exception is fork: MM copies proc_table,    *)
(* filp[] included, before FS learns of it from the FORK message.          *)
(* Requests that only return -1 change nothing and are no steps, except    *)
(* that UNLINK is logged.                                                  *)
(***************************************************************************)
EXTENDS Integers, Sequences, FiniteSets

CONSTANTS Procs, INIT_PROC,   \* the processes that use FS; INIT_PROC never exits
          Paths,              \* what users pass to FS: sequences of characters
          DOT, Ttys, TAR,     \* `.', `dev_tty0' and so on, `cmd.tar'
          MAX_FILENAME_LEN,
          NrFiles,            \* NR_FILES, the descriptors of a process
          NrFileDesc,         \* NR_FILE_DESC
          NrInode,            \* NR_INODE, the slots of inode_table[]
          ROOT_DEV, NO_DEV, NR_SUPER_BLOCK,
          DevSects,           \* geo.size, the sectors of the partition
          BitsPerByte, BitsPerSect,
          InodesPerSect,      \* SECTOR_SIZE / INODE_SIZE
          TtyDev,             \* MAKE_DEV(DEV_CHAR_TTY, 0)
          NR_DEFAULT_FILE_SECTS,
          INSTALL_START_SECT, INSTALL_NR_SECTS,  \* where cmd.tar lies
          NR_SECTS_FOR_LOG,
          BlockEntries,       \* directory entries in a sector
          MaxDir, MaxCnt, MaxNum,  \* bounds: directory entries, i_cnt, inode numbers
          NIL

SLASH == "/"
NUL == "NUL"

SuperBlock(dev, nr_inodes, nr_sects, nr_smap_sects, first) ==
  [sb_dev |-> dev, nr_inodes |-> nr_inodes, nr_sects |-> nr_sects,
   nr_smap_sects |-> nr_smap_sects, n_1st_sect |-> first]
NoSuperBlock == SuperBlock(NO_DEV, 0, 0, 0, 0)

\* The super block mkfs() makes for the partition: sector 0 boots, sector 1
\* holds it, and the maps and the inode array lie before the first data sector.
sb ==
  LET nr_smap_sects == (DevSects \div BitsPerSect) + 1
      nr_inode_sects == BitsPerSect \div InodesPerSect
  IN  SuperBlock(NO_DEV, BitsPerSect, DevSects, nr_smap_sects,
                 1 + 1 + 1 + nr_smap_sects + nr_inode_sects)

ASSUME FsAssumption ==
  /\ INIT_PROC \in Procs /\ NIL \notin Procs
  /\ NrFiles \in Nat /\ NrFileDesc \in Nat /\ NrInode \in Nat \ {0}
  /\ BitsPerByte \in Nat \ {0} /\ BitsPerSect \in Nat \ {0} /\ BitsPerSect % BitsPerByte = 0
  /\ InodesPerSect \in Nat \ {0} /\ Ttys \in Seq(Seq(STRING)) /\ Len(Ttys) + 2 <= InodesPerSect
  /\ ROOT_DEV # NO_DEV /\ NR_SUPER_BLOCK \in Nat \ {0}
  /\ DevSects \in Nat /\ NR_DEFAULT_FILE_SECTS \in Nat \ {0}
  /\ INSTALL_START_SECT \in Nat /\ INSTALL_NR_SECTS \in Nat \ {0} /\ NR_SECTS_FOR_LOG \in Nat \ {0}
  /\ TtyDev \in Nat /\ TtyDev >= sb.n_1st_sect
  /\ INSTALL_START_SECT > NR_DEFAULT_FILE_SECTS + sb.n_1st_sect - 1
  /\ INSTALL_START_SECT + INSTALL_NR_SECTS < DevSects - NR_SECTS_FOR_LOG
  /\ MaxCnt \in Nat /\ MaxDir \in Nat /\ MaxDir >= Len(Ttys) + 2
  /\ BlockEntries \in Nat /\ BlockEntries >= Len(Ttys) + 2
  /\ MaxNum \in Len(Ttys) + 2 .. sb.nr_inodes - 1

VARIABLES alive,         \* the processes
          forking,       \* the fork MM tells FS of: parent and child
          filp,          \* proc::filp[], the descriptors of each process
          f_desc_table,
          inode_table,
          super_block,   \* super_block[], what is read from the disks
          inodes,        \* the inode array on the disk
          imap, smap,    \* the bits set in the maps, except bit 0
          dir, dir_n,    \* the entries on the disk, and how many i_size counts
          log,           \* the disk log is set up: pos of disklog() is not 0
          halted         \* "init", "no", or the panic or assertion that stopped FS

fsvars == <<alive, forking, filp, f_desc_table, inode_table, super_block, inodes,
            imap, smap, dir, dir_n, log, halted>>
disk == <<inodes, imap, smap, dir, dir_n, log>>
fixed == <<alive, forking, super_block>>

Fds   == 0 .. NrFiles - 1
Descs == 0 .. NrFileDesc - 1
Slots == 0 .. NrInode - 1
Nums  == 1 .. MaxNum
ROOT_INODE == 1
NoFork == [parent |-> NIL, child |-> NIL]
NONE == -1               \* a null pointer to a descriptor or an inode

FirstOf(S) == CHOOSE x \in S : \A y \in S : x <= y
Run(start, n) == start .. start + n - 1

\* get_super_block(ROOT_DEV).
get_super_block ==
  super_block[FirstOf({i \in DOMAIN super_block : super_block[i].sb_dev = ROOT_DEV})]

\* The bits of the sector map, but bit 0.
Sects == 1 .. get_super_block.nr_smap_sects * BitsPerSect - 1

\* Sector M of the partition has bit M - n_1st_sect + 1 of the sector map.
BitOf(s, sect) == sect - s.n_1st_sect + 1

\* Mutant: n_1st_sect has bit 0.
FileBitsMut(s, inode) == Run(inode.start - s.n_1st_sect, inode.nr)

\* The bits of the sectors of a file.
FileBits(s, inode) == Run(BitOf(s, inode.start), inode.nr)

DiskInode(m, start, n) == [mode |-> m, start |-> start, nr |-> n]
NoInode   == DiskInode("none", 0, 0)
NoDesc    == [inode |-> NONE, cnt |-> 0]
FreeSlot  == [num |-> 0, cnt |-> 0, inode |-> NoInode]

\* strcpy() over the name of an entry: what is behind the end stays.
Named(old, name) ==
  [k \in 1 .. MAX_FILENAME_LEN |-> IF k <= Len(name) THEN name[k]
                                   ELSE IF k = Len(name) + 1 THEN NUL ELSE old[k]]
NoName == [k \in 1 .. MAX_FILENAME_LEN |-> NUL]
Entry(i, name) == [inode_nr |-> i, name |-> name]
NoEntry   == Entry(0, NoName)
NewEntry(i, name) == Entry(i, Named(NoName, name))

Init ==
  /\ alive = {INIT_PROC} /\ forking = NoFork
  /\ filp = [p \in Procs |-> [f \in Fds |-> NONE]]
  /\ f_desc_table = [d \in Descs |-> NoDesc]
  /\ inode_table = [s \in Slots |-> FreeSlot]
  /\ super_block = [i \in 1 .. NR_SUPER_BLOCK |-> NoSuperBlock]
  /\ inodes = [n \in Nums |-> NoInode]
  /\ imap = {} /\ smap = {}
  /\ dir = [i \in 1 .. MaxDir |-> NoEntry] /\ dir_n = 0
  /\ log = FALSE
  /\ halted = "init"

\* The inodes mkfs() makes: `/', the terminals and cmd.tar.  The first sector
\* of the inode array is written, the others stay as they were.
RootInode == DiskInode("DIR", sb.n_1st_sect, NR_DEFAULT_FILE_SECTS)
TarInode  == DiskInode("REG", INSTALL_START_SECT, INSTALL_NR_SECTS)
FirstInodes == <<RootInode>> \o [i \in 1 .. Len(Ttys) |-> DiskInode("CHR", TtyDev + i - 1, 0)]
                             \o <<TarInode>>
FirstNames == <<DOT>> \o Ttys \o <<TAR>>

mkfs ==
  /\ imap' = 1 .. Len(FirstInodes)
  /\ smap' = FileBits(sb, RootInode) \union FileBits(sb, TarInode)
  /\ inodes' = [n \in Nums |-> IF n <= Len(FirstInodes) THEN FirstInodes[n]
                               ELSE IF n <= InodesPerSect THEN NoInode ELSE inodes[n]]
  /\ dir' = [i \in 1 .. MaxDir |-> IF i <= Len(FirstNames) THEN NewEntry(i, FirstNames[i])
                                   ELSE NoEntry]
  /\ dir_n' = Len(FirstNames)

\* Sector 1 goes into the first slot of super_block[] that is free.
read_super_block ==
  super_block' =
    [super_block EXCEPT ![FirstOf({i \in DOMAIN super_block : super_block[i].sb_dev = NO_DEV})] =
       [sb EXCEPT !.sb_dev = ROOT_DEV]]

\* init_fs(); root_inode keeps slot 0 of inode_table[].
init_fs ==
  /\ halted = "init"
  /\ mkfs
  /\ read_super_block
  /\ inode_table' = [inode_table EXCEPT ![0] =
                       [num |-> ROOT_INODE, cnt |-> 1, inode |-> RootInode]]
  /\ halted' = "no"
  /\ UNCHANGED <<alive, forking, filp, f_desc_table, log>>

-----------------------------------------------------------------------------
\* p may call FS: it is not inside a fork.
MayCall(p) ==
  /\ halted = "no" /\ p \in alive
  /\ forking.parent # p

Halt(why) ==
  /\ halted' = why
  /\ UNCHANGED <<fixed, disk, filp, f_desc_table, inode_table>>

\* strip_path: one slash in front may be left out, another one is refused, and
\* what is too long is cut off before it is looked at.
Refused == <<SLASH>>
strip_path(path) ==
  LET s == IF path # <<>> /\ path[1] = SLASH THEN Tail(path) ELSE path
      name == SubSeq(s, 1, IF Len(s) < MAX_FILENAME_LEN THEN Len(s) ELSE MAX_FILENAME_LEN)
  IN  IF \E k \in DOMAIN name : name[k] = SLASH THEN Refused ELSE name

\* memcmp() returns 0.
SameMemory(s1, s2, n) == \A k \in 1 .. n : s1[k] = s2[k]

\* search_file: it compares the name before it counts the entry, and so looks
\* at one entry more than the directory has, if that is in the same sector.
SearchEnd == IF dir_n % BlockEntries = 0 THEN dir_n ELSE dir_n + 1
Lookup(path) ==
  LET name == strip_path(path)
      padded == Named(NoName, name)
      found == {i \in 1 .. SearchEnd : i <= MaxDir /\ SameMemory(padded, dir[i].name, MAX_FILENAME_LEN)}
  IN  IF name = Refused THEN 0
      ELSE IF name = <<>> THEN ROOT_INODE
      ELSE IF found = {} THEN 0 ELSE dir[FirstOf(found)].inode_nr

\* Mutant: a slot with i_cnt = 1 is passed over.
CachedMut(n) == {s \in Slots : inode_table[s].cnt > 1 /\ inode_table[s].num = n}

\* get_inode: the slot that holds the inode, or else the first free one.
Cached(n)    == {s \in Slots : inode_table[s].cnt > 0 /\ inode_table[s].num = n}
FreeSlots    == {s \in Slots : inode_table[s].cnt = 0}
TableFull(n) == Cached(n) = {} /\ FreeSlots = {}
SlotOf(n)    == FirstOf(IF Cached(n) # {} THEN Cached(n) ELSE FreeSlots)

Got(n) ==
  LET s == SlotOf(n)
  IN  [inode_table EXCEPT ![s] =
         IF Cached(n) # {} THEN [inode_table[s] EXCEPT !.cnt = @ + 1]
                           ELSE [num |-> n, cnt |-> 1, inode |-> inodes[n]]]

FreeFds(p) == {f \in Fds : filp[p][f] = NONE}
FreeDescs  == {d \in Descs : f_desc_table[d].inode = NONE}

\* The end of do_open: proc, descriptor and inode are connected.
Connect(p, s) ==
  LET d == FirstOf(FreeDescs)
  IN  /\ filp' = [filp EXCEPT ![p][FirstOf(FreeFds(p))] = d]
      /\ f_desc_table' = [f_desc_table EXCEPT ![d] = [inode |-> s, cnt |-> 1]]

\* do_open panics when one of the tables is full.
OpenPanics(p) ==
  /\ MayCall(p)
  /\ FreeFds(p) = {} \/ FreeDescs = {}
  /\ Halt("table full")

OpenExisting(p, path) ==
  LET n == Lookup(path)
  IN  /\ MayCall(p)
      /\ FreeFds(p) # {} /\ FreeDescs # {}
      /\ n # 0
      /\ \/ TableFull(n) /\ Halt("table full")
         \/ /\ ~TableFull(n)
            /\ inode_table[SlotOf(n)].cnt < MaxCnt
            /\ Connect(p, SlotOf(n))
            /\ inode_table' = Got(n)
            /\ UNCHANGED <<fixed, disk, halted>>

\* alloc_imap_bit and alloc_smap_bit: the first free bit, and from the first
\* free sector as many as a file has, which must all be free.
FreeNums  == Nums \ imap
FreeSects == Sects \ smap
NewRun    == IF FreeSects = {} THEN {} ELSE Run(FirstOf(FreeSects), NR_DEFAULT_FILE_SECTS)

\* Mutant: only the first bit is looked at.
RunIsFreeMut == NewRun # {}

RunIsFree == NewRun # {} /\ NewRun \subseteq FreeSects

\* Bits are set one by one, and a sector of the map is written when all of its
\* bits are set: if one is in use an assertion fails before that.
SetBitsOf(map, run) ==
  LET met == run \intersect map
  IN  map \union {b \in run \intersect Sects :
                    \A c \in met : b \div BitsPerSect < c \div BitsPerSect}

\* new_dir_entry: the first free slot, or the end of the directory.
FreeEntries == {i \in 1 .. dir_n : dir[i].inode_nr = 0}
NewPlace    == IF FreeEntries # {} THEN FirstOf(FreeEntries) ELSE dir_n + 1

NewSize == IF FreeEntries # {} THEN dir_n ELSE dir_n + 1

\* The name of a file that is as long as can be has no room for its end, which
\* falls on the inode number of the next entry of the sector.
WithEntry(n, name) ==
  LET i == NewPlace
  IN  [j \in 1 .. MaxDir |->
         IF j = i THEN Entry(n, Named(dir[i].name, name))
         ELSE IF j = i + 1 /\ i % BlockEntries # 0 /\ Len(name) = MAX_FILENAME_LEN
              THEN [dir[j] EXCEPT !.inode_nr = 0] ELSE dir[j]]

\* do_open with O_CREAT, and create_file: the bits of the maps are on the disk
\* before a later step of it can fail.
Create(p, path) ==
  /\ MayCall(p)
  /\ FreeFds(p) # {} /\ FreeDescs # {}
  /\ strip_path(path) # Refused /\ Lookup(path) = 0
  /\ FreeNums # {} /\ NewPlace <= MaxDir
  /\ LET n == FirstOf(FreeNums)
         new == DiskInode("REG", FirstOf(NewRun) - 1 + get_super_block.n_1st_sect, NR_DEFAULT_FILE_SECTS)
     IN  /\ imap' = imap \union {n}
         /\ smap' = SetBitsOf(smap, NewRun)
         /\ \/ /\ ~RunIsFree
               /\ halted' = "smap"
               /\ UNCHANGED <<inode_table, inodes, dir, dir_n, filp, f_desc_table>>
            \/ /\ RunIsFree /\ TableFull(n)
               /\ halted' = "table full"
               /\ UNCHANGED <<inode_table, inodes, dir, dir_n, filp, f_desc_table>>
            \/ /\ RunIsFree /\ ~TableFull(n)
               /\ inode_table' = [inode_table EXCEPT ![SlotOf(n)] =
                                    [num |-> n, cnt |-> 1, inode |-> new]]
               /\ inodes' = [inodes EXCEPT ![n] = new]
               /\ dir' = WithEntry(n, strip_path(path))
               /\ dir_n' = NewSize
               /\ Connect(p, SlotOf(n))
               /\ UNCHANGED halted
  /\ UNCHANGED <<fixed, log>>

\* open() of the library.
open(p, path) == OpenPanics(p) \/ OpenExisting(p, path) \/ Create(p, path)

-----------------------------------------------------------------------------
\* The descriptors of p that lead to d, and to the inode in slot s.
Uses(p, d) == Cardinality({f \in Fds : filp[p][f] = d})
UsesOf(p, s) == Cardinality({f \in Fds : filp[p][f] # NONE /\
                                             f_desc_table[filp[p][f]].inode = s})

\* --fd_cnt, and fd_inode = 0 when none is left.
Dropped(desc, n) ==
  IF n > 0 /\ desc.cnt = n THEN NoDesc ELSE [desc EXCEPT !.cnt = @ - n]

\* put_inode: the slot stays what it is, and is free when i_cnt is 0.
put_inode(s) == [inode_table EXCEPT ![s].cnt = @ - 1]

\* do_close.
Close(p, f) ==
  LET d == filp[p][f]
  IN  /\ MayCall(p)
      /\ d # NONE
      /\ inode_table' = put_inode(f_desc_table[d].inode)
      /\ f_desc_table' = [f_desc_table EXCEPT ![d] = Dropped(@, 1)]
      /\ filp' = [filp EXCEPT ![p][f] = NONE]
      /\ UNCHANGED <<fixed, disk, halted>>

\* close() of the library.
close(p, f) == Close(p, f)

\* MM copies the entry of the parent; the parent waits for its child.
ForkCopy(p, c) ==
  /\ MayCall(p) /\ forking = NoFork
  /\ c \notin alive
  /\ filp' = [filp EXCEPT ![c] = filp[p]]
  /\ forking' = [parent |-> p, child |-> c]
  /\ UNCHANGED <<alive, super_block, f_desc_table, inode_table, disk, halted>>

\* Mutant: fs_fork counts the descriptors only.
ForkCountMut(c) == [s \in Slots |-> inode_table[s]]

ForkCount(c) == [s \in Slots |-> [inode_table[s] EXCEPT !.cnt = @ + UsesOf(c, s)]]

\* fs_fork, for the FORK message of MM.
FsFork ==
  /\ halted = "no" /\ forking # NoFork
  /\ f_desc_table' = [d \in Descs |->
       [f_desc_table[d] EXCEPT !.cnt = @ + Uses(forking.child, d)]]
  /\ inode_table' = ForkCount(forking.child)
  /\ \A s \in Slots : inode_table'[s].cnt <= MaxCnt
  /\ alive' = alive \union {forking.child}
  /\ forking' = NoFork
  /\ UNCHANGED <<super_block, filp, disk, halted>>

\* fs_exit, for the EXIT message of MM; MM serves one call at a time.
FsExit(p) ==
  /\ MayCall(p) /\ p # INIT_PROC /\ forking = NoFork
  /\ inode_table' = [s \in Slots |-> [inode_table[s] EXCEPT !.cnt = @ - UsesOf(p, s)]]
  /\ f_desc_table' = [d \in Descs |-> Dropped(f_desc_table[d], Uses(p, d))]
  /\ filp' = [filp EXCEPT ![p] = [f \in Fds |-> NONE]]
  /\ alive' = alive \ {p}
  /\ UNCHANGED <<super_block, forking, disk, halted>>

-----------------------------------------------------------------------------
\* The sectors disklog() writes: it begins with blanks in all of them; then go
\* the text, which is to end before they do, the header in front and a line
\* behind.
LogSects == Run(get_super_block.nr_sects - NR_SECTS_FOR_LOG, NR_SECTS_FOR_LOG)

\* Their numbers are taken for those of bits.
LogBits == LogSects

\* Mutant: the bits are not looked at before they are set.
MeetsFileMut(map) == FALSE

\* The bits disklog() sets are in use already.
MeetsFile(map) == LogBits \intersect map # {}

\* task_fs calls dump_fd_graph() after each UNLINK.  It changes no table, but
\* the first disklog() reserves the sectors of the log in the sector map, which
\* is map at that moment, and asserts that no file has them.
LogUnlink(map) ==
  IF log THEN smap' = map /\ UNCHANGED <<log, halted>>
  ELSE /\ smap' = SetBitsOf(map, LogBits)
       /\ IF MeetsFile(map) THEN halted' = "log" /\ UNCHANGED log
                            ELSE log' = TRUE /\ UNCHANGED halted

\* The inode n in the slot get_inode() gives it.
Pin(n) == Got(n)[SlotOf(n)]

\* Somebody else holds the inode: i_cnt > 1.
Busy(n) == Pin(n).cnt > 1

\* do_unlink of a file that is open or not regular returns -1; the inode it
\* got is not put back.
UnlinkRefused(p, path) ==
  LET n == Lookup(path)
  IN  /\ MayCall(p) /\ path # <<SLASH>> /\ n # 0
      /\ ~TableFull(n)
      /\ Pin(n).inode.mode # "REG" \/ Busy(n)
      /\ inode_table[SlotOf(n)].cnt < MaxCnt
      /\ inode_table' = Got(n)
      /\ LogUnlink(smap)
      /\ UNCHANGED <<fixed, filp, f_desc_table, inodes, imap, dir, dir_n>>

\* `/' is not removed, nor what is not there; but the unlink is logged.
UnlinkAbsent(p, path) ==
  /\ MayCall(p) /\ (path = <<SLASH>> \/ Lookup(path) = 0) /\ ~log
  /\ LogUnlink(smap)
  /\ UNCHANGED <<fixed, filp, f_desc_table, inode_table, inodes, imap, dir, dir_n>>

\* The entry of inode n, looked for among the entries i_size counts.
Place(n) == {i \in 1 .. dir_n : dir[i].inode_nr = n}

\* The bits from b on that are cleared for a file of n sectors: those in the
\* byte of the first one, whole bytes, and those left over in the next byte.
Cleared(b, n) ==
  LET room == BitsPerByte - (b % BitsPerByte)
      byte_cnt == IF n < room THEN 0 ELSE (n - room) \div BitsPerByte
      next == ((b \div BitsPerByte) + 1) * BitsPerByte
      first == IF n < room THEN n ELSE room
  IN  Run(b, first) \union Run(next, byte_cnt * BitsPerByte)
        \union Run(next + byte_cnt * BitsPerByte, n - first - byte_cnt * BitsPerByte)

Freed(n) == smap \ Cleared(BitOf(get_super_block, Pin(n).inode.start), Pin(n).inode.nr)

\* The size of the directory when its last entry is removed: the entries in
\* use before it.
Shrunk(last) == Cardinality({i \in 1 .. last - 1 : dir[i].inode_nr # 0})

WithoutEntry(at) == [dir EXCEPT ![at] = NoEntry]

\* do_unlink: maps and inode first, then the directory.
Unlink(p, path) ==
  LET n == Lookup(path)
      at == FirstOf(Place(n))
  IN  /\ MayCall(p) /\ path # <<SLASH>> /\ n # 0
      /\ ~TableFull(n)
      /\ Pin(n).inode.mode = "REG" /\ ~Busy(n)
      /\ imap' = imap \ {n}
      /\ inodes' = [inodes EXCEPT ![n] = NoInode]
      /\ inode_table' = [inode_table EXCEPT ![SlotOf(n)] =
                           [num |-> n, cnt |-> 0, inode |-> NoInode]]
      /\ \/ /\ Place(n) # {}
            /\ dir' = WithoutEntry(at)
            /\ dir_n' = IF at = dir_n THEN Shrunk(at) ELSE dir_n
            /\ LogUnlink(Freed(n))
         \/ /\ Place(n) = {}
            /\ halted' = "flg" /\ smap' = Freed(n)
            /\ UNCHANGED <<dir, dir_n, log>>
      /\ UNCHANGED <<fixed, filp, f_desc_table>>

UnlinkPanics(p, path) ==
  /\ MayCall(p) /\ path # <<SLASH>> /\ Lookup(path) # 0
  /\ TableFull(Lookup(path))
  /\ Halt("table full")

\* unlink() of the library.
unlink(p, path) == \/ UnlinkRefused(p, path) \/ Unlink(p, path)
                   \/ UnlinkPanics(p, path) \/ UnlinkAbsent(p, path)

Next ==
  \/ init_fs
  \/ \E p \in Procs :
       \/ \E path \in Paths : open(p, path) \/ unlink(p, path)
       \/ \E f \in Fds : close(p, f)
       \/ \E c \in Procs : ForkCopy(p, c)
       \/ FsExit(p)
  \/ FsFork

Spec == Init /\ [][Next]_fsvars

-----------------------------------------------------------------------------
\* The descriptors FS has counted: those a fork still copies are not.
Holders == {h \in Procs \X Fds :
              /\ filp[h[1]][h[2]] # NONE
              /\ h[1] # forking.child}
HoldersOf(d) == {h \in Holders : filp[h[1]][h[2]] = d}
UsersOf(s) == {h \in Holders : f_desc_table[filp[h[1]][h[2]]].inode = s}

\* fs.h of fd_cnt, "how many procs share this desc": it is the number of
\* descriptors that lead there, also across forks and exits in any order, and
\* a slot is free when and only when none does.  No slot of inode_table[] is
\* given away while a descriptor leads to it, its i_cnt being at least their
\* number, one more for root_inode; and no file that is open is removed.
UsersCounted ==
  /\ \A d \in Descs :
       /\ f_desc_table[d].cnt = Cardinality(HoldersOf(d))
       /\ f_desc_table[d].inode = NONE <=> HoldersOf(d) = {}
  /\ \A s \in Slots :
       /\ inode_table[s].cnt >= Cardinality(UsersOf(s)) + IF s = 0 /\ halted # "init" THEN 1 ELSE 0
       /\ UsersOf(s) # {} => inode_table[s].inode.mode # "none"

\* The cached inodes are those of the disk, each in one slot only.
CacheCoherent ==
  \A s, t \in Slots : inode_table[s].cnt > 0 =>
    /\ inode_table[s].inode = inodes[inode_table[s].num]
    /\ s # t /\ inode_table[t].cnt > 0 => inode_table[s].num # inode_table[t].num

\* The maps say what the inodes say, unless FS stopped inside a request: an
\* inode bit is set for each inode in use, and each sector in use belongs to
\* one file, which lies behind the inode array, or to the log once it is set
\* up; the log and a file share no bit.
Owner(n) == FileBits(get_super_block, inodes[n])
Reserved == IF log THEN LogBits ELSE {}
MapsMatchInodes == halted = "no" =>
  /\ imap = {n \in Nums : inodes[n].mode # "none"}
  /\ smap = (UNION {Owner(n) : n \in imap}) \union Reserved
  /\ \A m, n \in imap : /\ m # n => Owner(m) \intersect Owner(n) = {}
                       /\ Owner(n) \intersect Reserved = {}
  /\ \A n \in imap : inodes[n].nr > 0 => inodes[n].start >= get_super_block.n_1st_sect

\* No file goes beyond the end of the disk, and none has a sector that the log
\* writes: neither is looked at when the bits of a file are found, and the log
\* reserves other bits than those of its sectors.
FilesOnDisk == halted = "no" => \A n \in imap : inodes[n].nr > 0 =>
  /\ inodes[n].start + inodes[n].nr <= DevSects
  /\ log => Run(inodes[n].start, inodes[n].nr) \intersect LogSects = {}

\* Where the bits of a new file can begin: at bit 1 or some files behind it,
\* and likewise behind cmd.tar if that begins at such a place.
InRow(b, from) == b >= from /\ (b - from) % NR_DEFAULT_FILE_SECTS = 0
TarBit == BitOf(sb, INSTALL_START_SECT)
MayBegin(b) == InRow(b, 1) \/ (InRow(TarBit, 1) /\ InRow(b, TarBit + INSTALL_NR_SECTS))

\* What FilesOnDisk owes to the size of the partition: a file whose bits fit
\* into the map fits on the disk, and in front of the sectors of the log if its
\* bits are in front of those of the log; there is no room for one behind.
MapBits == sb.nr_smap_sects * BitsPerSect
FirstOfLog == DevSects - NR_SECTS_FOR_LOG
FilesFit ==
  /\ MapBits < DevSects + NR_DEFAULT_FILE_SECTS
  /\ \A b \in 1 .. MapBits :
       MayBegin(b) /\ b + NR_DEFAULT_FILE_SECTS <= MapBits =>
         LET end == b - 1 + sb.n_1st_sect + NR_DEFAULT_FILE_SECTS
         IN  /\ end <= DevSects
             /\ b + NR_DEFAULT_FILE_SECTS <= FirstOfLog => end <= FirstOfLog

\* do_unlink, "remove a file": the other files keep their directory entry.
UnlinkKeepsOthers ==
  [][\A path \in Paths : halted' = "no" /\ Lookup(path) # 0 /\ Lookup(path)' = 0
       => inodes'[Lookup(path)] = NoInode]_fsvars
=============================================================================
