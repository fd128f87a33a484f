------------------------------- MODULE Untar --------------------------------
(***************************************************************************)
(* INIT, the first process (kernel/main.c): it opens its terminal and      *)
(* extracts cmd.tar into files, before any other process is forked.  The   *)
(* start of the machine up to there is module Boot.                        *)
(*                                                                         *)
(* A byte is known by where it comes from: <<k, i>> is byte i of member k  *)
(* of the archive, and of its header if i < 0.  Files are sequences of     *)
(* bytes; read() and write() transfer what they are asked to (FsRdwt).     *)
(***************************************************************************)
EXTENDS Boot

CONSTANTS
  Archives,                  \* what cmd.tar may hold: sequences of [name, size]
  SECTOR_SIZE, ChunkSects,   \* buf has room for so many sectors
  SizeDigits,                \* octal digits of a size
  NR_FILES,                  \* descriptors of a process
  Special                    \* the names of the files mkfs makes

VARIABLES
  init_pc,    \* where INIT is
  archive,
  filp,       \* the files INIT has open, and the position in each
  files,      \* the regular files extracted, by name
  buf,
  header,     \* phdr->name and bytes_left
  aborted     \* untar() gave up

unvars == <<init_pc, archive, filp, files, buf, header, aborted>>

Closed == [name |-> "none", pos |-> 0]
Fds == 0 .. NR_FILES - 1
Chunk == SECTOR_SIZE * ChunkSects

ASSUME UntarAssumption ==
  /\ SECTOR_SIZE \in Nat \ {0} /\ ChunkSects \in Nat \ {0} /\ NR_FILES \in Nat
  /\ \A t \in Archives : \A k \in DOMAIN t : t[k].size \in 0 .. 8 ^ SizeDigits - 1

-----------------------------------------------------------------------------
\* The archive: the header of each member fills a sector, and its contents
\* begin in the next.  Zeros follow the last one.
Sectors(n) == (n + SECTOR_SIZE - 1) \div SECTOR_SIZE

MemberAt[k \in Nat] ==
  IF k <= 1 THEN 0 ELSE MemberAt[k - 1] + (1 + Sectors(archive[k - 1].size)) * SECTOR_SIZE

Zero == <<0, 0>>

TarByte(p) ==
  LET held == {k \in DOMAIN archive : MemberAt[k] <= p /\ p < MemberAt[k + 1]}
      k == CHOOSE k \in held : TRUE
      i == p - MemberAt[k] - SECTOR_SIZE
  IN  IF held = {} \/ i >= archive[k].size THEN Zero ELSE <<k, i>>

\* phdr->name and phdr->size of the header that buf begins with.
Member == archive[buf'[0][1]]
SizeField == [d \in 1 .. SizeDigits |-> (Member.size \div 8 ^ (SizeDigits - d)) % 8]

-----------------------------------------------------------------------------
\* open() gives the lowest descriptor that is free.
FreeFds == {fd \in Fds : filp[fd] = Closed}
NextFd == CHOOSE fd \in FreeFds : \A g \in FreeFds : fd <= g
Open(name) == FreeFds # {} /\ filp' = [filp EXCEPT ![NextFd] = [name |-> name, pos |-> 0]]

FdOf(name) == CHOOSE fd \in Fds : filp[fd].name = name

\* read() of n bytes of the archive to the beginning of buf.
Read(n) ==
  LET fd == FdOf("cmd.tar")
  IN  /\ buf' = [i \in 0 .. Chunk - 1 |-> IF i < n THEN TarByte(filp[fd].pos + i) ELSE buf[i]]
      /\ filp' = [filp EXCEPT ![fd].pos = @ + n]

Init ==
  /\ BootInit
  /\ init_pc = "starts" /\ archive = <<>> /\ aborted = FALSE
  /\ filp = [fd \in Fds |-> Closed] /\ files = [f \in {} |-> <<>>]
  /\ buf = [i \in 0 .. Chunk - 1 |-> Zero]
  /\ header = [name |-> "none", left |-> 0]

\* Init(): standard input and output have to be descriptors 0 and 1.
OpenTerminal ==
  /\ init_pc = "starts"
  /\ Open("dev_tty0")
  /\ init_pc' = IF NextFd = 0 THEN "starts" ELSE IF NextFd = 1 THEN "untar" ELSE "lost"
  /\ UNCHANGED <<archive, files, buf, header, aborted>>

\* untar() begins.  What the disk holds in the place of cmd.tar shows now.
OpenArchive ==
  /\ init_pc = "untar"
  /\ archive' \in Archives
  /\ Open("cmd.tar")
  /\ init_pc' = "header"
  /\ UNCHANGED <<files, buf, header, aborted>>

\* The size is the number its octal digits make.
f_len ==
  LET value[d \in 0 .. SizeDigits] == IF d = 0 THEN 0 ELSE value[d - 1] * 8 + SizeField[d]
  IN  value[SizeDigits]

\* One round of while (1) begins: the header of a member, or zeros at the end.
ReadHeader ==
  /\ init_pc = "header"
  /\ Read(SECTOR_SIZE)
  /\ IF buf'[0] = Zero
     THEN init_pc' = "close" /\ UNCHANGED header
     ELSE init_pc' = "create" /\ header' = [name |-> Member.name, left |-> f_len]
  /\ UNCHANGED <<archive, files, aborted>>

\* open(phdr->name, O_CREAT | O_RDWR): FS refuses a name that exists, and
\* untar() returns, without closing cmd.tar.  Without a free descriptor FS would
\* panic, and INIT go no farther.
CreateFile ==
  /\ init_pc = "create"
  /\ IF header.name \in DOMAIN files \cup Special
     THEN init_pc' = "spin" /\ aborted' = TRUE /\ UNCHANGED <<filp, files>>
     ELSE /\ Open(header.name) /\ init_pc' = "copy"
          /\ files' = [f \in DOMAIN files \cup {header.name} |->
                         IF f = header.name THEN <<>> ELSE files[f]]
          /\ UNCHANGED aborted
  /\ UNCHANGED <<archive, buf, header>>

\* Mutant: as many bytes are read as are written.
RoundedMut(iobytes) == iobytes

\* The archive is read in whole sectors.
Rounded(iobytes) == ((iobytes - 1) \div SECTOR_SIZE + 1) * SECTOR_SIZE

\* One round of the inner loop: read() and write().
CopyChunk ==
  /\ init_pc = "copy" /\ header.left # 0
  /\ LET iobytes == IF Chunk < header.left THEN Chunk ELSE header.left
     IN  /\ Read(Rounded(iobytes))
         /\ files' = [files EXCEPT ![header.name] = @ \o [i \in 1 .. iobytes |-> buf'[i - 1]]]
         /\ header' = [header EXCEPT !.left = @ - iobytes]
  /\ UNCHANGED <<init_pc, archive, aborted>>

\* close(fdout).
CloseFile ==
  /\ init_pc = "copy" /\ header.left = 0
  /\ filp' = [filp EXCEPT ![FdOf(header.name)] = Closed]
  /\ init_pc' = "header"
  /\ UNCHANGED <<archive, files, buf, header, aborted>>

\* close(fd); INIT spins.
CloseArchive ==
  /\ init_pc = "close"
  /\ filp' = [filp EXCEPT ![FdOf("cmd.tar")] = Closed]
  /\ init_pc' = "spin"
  /\ UNCHANGED <<archive, files, buf, header, aborted>>

InitRuns ==
  /\ pc = "runs"
  /\ \/ OpenTerminal \/ OpenArchive \/ ReadHeader \/ CreateFile \/ CopyChunk
     \/ CloseFile \/ CloseArchive
  /\ UNCHANGED vars

\* The machine starts, INIT extracts its files, and only then forks.
StartNext ==
  \/ Start /\ UNCHANGED unvars
  \/ InitRuns
  \/ /\ init_pc = "spin" /\ UNCHANGED unvars
     /\ \E pid \in DOMAIN ldts, child \in Children : Fork(pid, child)

\* One processor runs one program, and then INIT; no read fails for ever.
StartSpec == /\ Init /\ [][StartNext]_<<vars, unvars>>
             /\ WF_<<vars, unvars>>((Start /\ UNCHANGED unvars) \/ InitRuns)

-----------------------------------------------------------------------------
\* The members before the first one whose name is taken.
Taken(k) == archive[k].name \in Special \cup {archive[j].name : j \in 1 .. k - 1}
Good == {k \in DOMAIN archive : \A j \in 1 .. k : ~Taken(j)}

\* INIT has ended untar(): its files are these members, byte by byte and
\* nothing else, and if these are all, only its terminal is open.
Extracted ==
  /\ init_pc = "spin"
  /\ files = [f \in {archive[k].name : k \in Good} |->
                LET k == CHOOSE k \in Good : archive[k].name = f
                IN  [i \in 1 .. archive[k].size |-> <<k, i - 1>>]]
  /\ aborted <=> Good # DOMAIN archive
  /\ ~aborted => FreeFds = Fds \ {0, 1}

\* Each start comes to an end: INIT has its files, each whole, or a message
\* says what is missing; unless the BIOS reported no RAM.
StartEnds ==
  <>(Extracted \/ pc \in {"no file", "too large"}
     \/ (stage = "loader" /\ pc = "lost" /\ dwMemSize = 0))
=============================================================================
