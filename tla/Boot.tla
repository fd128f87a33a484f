-------------------------------- MODULE Boot --------------------------------
(***************************************************************************)
(* From the boot sector to the kernel: boot/boot.asm looks for LOADER.BIN  *)
(* in the root directory of a FAT12 floppy and loads it; boot/loader.asm   *)
(* does the same with KERNEL.BIN, counts the memory, sets up paging, puts  *)
(* the segments of the kernel in their places and jumps to it; the kernel  *)
(* reads its own sections to give INIT its segments, and MM hands out the  *)
(* memory behind it (kernel/klib.c, kernel/main.c, mm/main.c).             *)
(*                                                                         *)
(* Physical memory is byte by byte below 1 MB: mem says which byte of the  *)
(* floppy each address holds.  What the BIOS reports is in larger units.   *)
(* A read that fails is tried again until it succeeds, without a trace.    *)
(***************************************************************************)
EXTENDS Integers, Sequences, FiniteSets

CONSTANTS
  BytsPerSec, SecPerTrk, RsvdSecCnt, FATSz, RootDirSectors,
  SectEntries,               \* directory entries in a sector
  SegSize,                   \* 64 KB: what bx can reach
  FatGap,                    \* bytes before the file's place where the FAT is read
  KERNEL_FILE_PHY_ADDR, LOADER_PHY_ADDR, LOADER_OFF,
  MemTop,                    \* bound: the memory below it is modelled
  Page,                      \* bytes: segment limits count pages
  Low, Mid, Nib,             \* what 16, 8 and 4 bits of a descriptor hold
  Unit,                      \* bytes: the BIOS's map counts units
  Word,                      \* 4 GB, in units
  TableSpan,                 \* what a page table maps, 4 MB, in units
  PROCS_BASE, PROC_IMAGE_SIZE_DEFAULT, \* where processes live
  INIT_PROC, Children,       \* INIT, and the pids that fork gives
  Machines                   \* the floppies and memories to start with

SectorNoOfFAT1 == RsvdSecCnt
SectorNoOfRootDirectory == RsvdSecCnt + 2 * FATSz
DeltaSectorNo == RsvdSecCnt + 2 * FATSz - 2
KERNEL_VALID_SPACE == LOADER_PHY_ADDR - KERNEL_FILE_PHY_ADDR
Addresses == 0 .. MemTop - 1
NoByte == -1
EndOfFile == 4095            \* what the last cluster's entry is set to

\* Sizes and places as in load.inc, fat12hdr.inc and config.h: file and FAT
\* are read without running into each other, the kernel's file lies below the
\* loader in the first MB, and processes lie behind them in the first 4 GB,
\* all of which descriptors reach.
ASSUME BootAssumption ==
  /\ BytsPerSec \in Nat \ {0} /\ SecPerTrk \in Nat \ {0} /\ RootDirSectors \in Nat
  /\ RsvdSecCnt \in Nat \ {0} /\ FATSz \in Nat \ {0}
  /\ SegSize \in Nat \ {0} /\ SegSize % BytsPerSec = 0 /\ 2 * BytsPerSec <= SegSize
  /\ FatGap \in 2 * BytsPerSec .. KERNEL_FILE_PHY_ADDR /\ LOADER_OFF \in Nat
  /\ KERNEL_FILE_PHY_ADDR \in Nat /\ LOADER_PHY_ADDR \in Nat /\ MemTop \in Nat
  /\ KERNEL_FILE_PHY_ADDR < LOADER_PHY_ADDR /\ KERNEL_VALID_SPACE % BytsPerSec = 0
  /\ LOADER_PHY_ADDR <= MemTop /\ LOADER_PHY_ADDR <= 16 * SegSize
  /\ TableSpan \in Nat \ {0} /\ Page \in Nat \ {0} /\ Unit \in Nat \ {0} /\ Word \in Nat \ {0}
  /\ Low \in Nat \ {0} /\ Mid \in Nat \ {0} /\ Nib \in Nat \ {0}
  /\ Word * Unit <= Low * Mid * Mid /\ Word * Unit <= Low * Nib * Page
  /\ PROC_IMAGE_SIZE_DEFAULT \in Nat \ {0} /\ PROC_IMAGE_SIZE_DEFAULT % Page = 0
  /\ PROCS_BASE \in Nat /\ MemTop <= PROCS_BASE
  /\ PROCS_BASE + PROC_IMAGE_SIZE_DEFAULT <= Word * Unit
  /\ Children \subseteq Nat /\ INIT_PROC \notin Children

\* The two files are whole and share no cluster, and the loader ends in the
\* memory modelled.
ASSUME FilesAssumption ==
  \A m \in Machines :
    /\ m.chain \in [{"LOADER.BIN", "KERNEL.BIN"} -> Seq(2 .. EndOfFile - 1) \ {<<>>}]
    /\ \A f, g \in {"LOADER.BIN", "KERNEL.BIN"} :
         \A i \in DOMAIN m.chain[f], j \in DOMAIN m.chain[g] :
           m.chain[f][i] = m.chain[g][j] => f = g /\ i = j
    /\ LOADER_PHY_ADDR + LOADER_OFF + Len(m.chain["LOADER.BIN"]) * BytsPerSec <= MemTop
    /\ m.size \in Nat \ {0} /\ m.size <= Len(m.chain["KERNEL.BIN"]) * BytsPerSec
    /\ (Len(m.chain["KERNEL.BIN"]) - 1) * BytsPerSec < m.size

\* The low words of the BIOS's records; RAM behind 4 GB does not look as if it
\* were the highest.
ASSUME MapAssumption ==
  \A m \in Machines :
    /\ m.bios \in Seq([base : 0 .. Word - 1, len : 0 .. Word - 1, type : Nat, high : BOOLEAN])
    /\ \A j \in DOMAIN m.bios : m.bios[j].type = 1 =>
         \E i \in DOMAIN m.bios :
           /\ m.bios[i].type = 1 /\ ~m.bios[i].high /\ m.bios[i].base + m.bios[i].len < Word
           /\ (m.bios[j].base + m.bios[j].len) % Word <= m.bios[i].base + m.bios[i].len

\* The kernel as it is linked: its segments lie below the place of its file,
\* apart from each other, and its sections below the processes.
ASSUME ImageAssumption ==
  \A m \in Machines :
    /\ m.headers \in Seq([null : BOOLEAN, offset : Nat, vaddr : Nat, filesz : Nat])
    /\ \A i \in DOMAIN m.headers : ~m.headers[i].null =>
         /\ m.headers[i].offset + m.headers[i].filesz <= m.size
         /\ m.headers[i].vaddr + m.headers[i].filesz <= KERNEL_FILE_PHY_ADDR
         /\ \A j \in DOMAIN m.headers : ~m.headers[j].null /\ i # j =>
              \/ m.headers[i].vaddr + m.headers[i].filesz <= m.headers[j].vaddr
              \/ m.headers[j].vaddr + m.headers[j].filesz <= m.headers[i].vaddr
    /\ m.sections \in Seq([alloc : BOOLEAN, addr : Nat, size : Nat])
    /\ \E i \in DOMAIN m.sections : m.sections[i].alloc /\ m.sections[i].addr + m.sections[i].size > 0
    /\ \A i \in DOMAIN m.sections :
         m.sections[i].alloc => m.sections[i].addr + m.sections[i].size <= PROCS_BASE

VARIABLES
  machine,    \* the floppy and the memory map of the BIOS: they do not change
  stage,      \* "boot", "loader" or "kernel"
  pc,
  wSectorNo, wRootDirSizeForLoop,
  cluster,    \* the number pushed before each sector is read
  es, bx,     \* where the next sector goes; es as a physical address
  mem,
  dwMCRNumber, dwMemSize, tables,
  ldts,       \* the segments of INIT and of the processes forked, or NoLdt
  copied      \* how much of its parent's memory each of them has a copy of

search == <<wSectorNo, wRootDirSizeForLoop>>
load == <<cluster, es, bx>>
memory == <<dwMCRNumber, dwMemSize, tables>>
kernel == <<ldts, copied>>
vars == <<machine, stage, pc, search, load, mem, memory, kernel>>

-----------------------------------------------------------------------------
\* The floppy: chain says in which clusters each file lies, and FAT12 packs
\* two entries of 12 bits, the next cluster each, in three bytes.
Entry(e) ==
  LET holders == {f \in DOMAIN machine.chain : \E i \in DOMAIN machine.chain[f] : machine.chain[f][i] = e}
      chain == machine.chain[CHOOSE f \in holders : TRUE]
      i == CHOOSE i \in DOMAIN chain : chain[i] = e
  IN  IF holders = {} THEN 0 ELSE IF i = Len(chain) THEN EndOfFile ELSE chain[i + 1]

Nibble(j) == (Entry(j \div 3) \div <<1, 16, 256>>[(j % 3) + 1]) % 16

\* What byte b of the floppy is worth, when it is one of FAT1.
FatByte(b) == LET k == b - SectorNoOfFAT1 * BytsPerSec IN Nibble(2 * k) + 16 * Nibble(2 * k + 1)

SectorOf(c) == c + RootDirSectors + DeltaSectorNo

\* Byte i of a file: where it is on the floppy.
FileByte(f, i) == SectorOf(machine.chain[f][i \div BytsPerSec + 1]) * BytsPerSec
                  + (i % BytsPerSec)

\* Sector number -> cylinder, head and sector of the track, and what the BIOS
\* makes of them.
Geometry(ax) == LET y == ax \div SecPerTrk
                IN  [cylinder |-> y \div 2, head |-> y % 2, start |-> (ax % SecPerTrk) + 1]

Int13(g) == (2 * g.cylinder + g.head) * SecPerTrk + g.start - 1

\* The memory m after cl sectors from sector ax on were read to base:off.
ReadSector(m, ax, cl, base, off) ==
  [a \in Addresses |->
     LET i == (a - base - off) % SegSize
     IN  IF a - base \in 0 .. SegSize - 1 /\ i < cl * BytsPerSec
         THEN Int13(Geometry(ax)) * BytsPerSec + i ELSE m[a]]

-----------------------------------------------------------------------------
\* What the two programs differ in.
Place == IF stage = "boot" THEN LOADER_PHY_ADDR ELSE KERNEL_FILE_PHY_ADDR
Offset == IF stage = "boot" THEN LOADER_OFF ELSE 0
FileName == IF stage = "boot" THEN "LOADER.BIN" ELSE "KERNEL.BIN"

\* GetFATEntry: two sectors of the FAT are read in front of the file's place,
\* as the entry may lie in both of them.
FatOffset(c) == (c * 3) \div 2

FatRead(m, c) ==
  ReadSector(m, SectorNoOfFAT1 + FatOffset(c) \div BytsPerSec, 2, Place - FatGap, 0)

GetFATEntry(m, c) ==
  LET at == Place - FatGap + (FatOffset(c) % BytsPerSec)
      word == FatByte(m[at]) + 256 * FatByte(m[at + 1])
  IN  (IF c % 2 = 1 THEN word \div 16 ELSE word) % 4096

NoLdt == <<>>

BootInit ==
  /\ machine \in Machines
  /\ stage = "boot" /\ pc = "search"
  /\ wSectorNo = SectorNoOfRootDirectory /\ wRootDirSizeForLoop = RootDirSectors
  /\ cluster = 0 /\ es = LOADER_PHY_ADDR /\ bx = LOADER_OFF
  /\ mem = [a \in Addresses |-> NoByte]
  /\ dwMCRNumber = 0 /\ dwMemSize = 0 /\ tables = 0
  /\ ldts = [p \in Children \union {INIT_PROC} |-> NoLdt]
  /\ copied = [p \in Children |-> 0]

\* "No LOADER", "No KERNEL": the program stays there for ever.
NoFile ==
  /\ pc = "search" /\ wRootDirSizeForLoop = 0
  /\ pc' = "no file"
  /\ UNCHANGED <<machine, stage, search, load, mem, memory, kernel>>

\* The entries of the sector read that have the name looked for.
Matches == {i \in DOMAIN machine.dir :
              /\ machine.dir[i] = FileName
              /\ (i - 1) \div SectEntries = wSectorNo - SectorNoOfRootDirectory}

\* KERNEL.BIN has to end before the loader begins.
TooLarge == stage = "loader" /\ machine.size > KERNEL_VALID_SPACE

\* One sector of the root directory.
SearchSector ==
  /\ pc = "search" /\ wRootDirSizeForLoop > 0
  /\ wRootDirSizeForLoop' = wRootDirSizeForLoop - 1
  /\ mem' = ReadSector(mem, wSectorNo, 1, Place, Offset)
  /\ \/ /\ Matches = {}
        /\ wSectorNo' = wSectorNo + 1
        /\ UNCHANGED <<pc, load>>
     \/ /\ Matches # {}
        /\ pc' = IF TooLarge THEN "too large" ELSE "load"
        /\ cluster' = machine.chain[FileName][1]
        /\ es' = Place /\ bx' = Offset
        /\ UNCHANGED wSectorNo
  /\ UNCHANGED <<machine, stage, memory, kernel>>

\* Mutant: the segment stays what it is, as in boot.asm.
NextPlaceMut == bx' = (bx + BytsPerSec) % SegSize /\ UNCHANGED es

\* bx and es have 16 bits; loader.asm goes on in the next segment, boot.asm does not.
NextPlace ==
  /\ bx' = (bx + BytsPerSec) % SegSize
  /\ es' = IF stage = "loader" /\ bx + BytsPerSec >= SegSize
         THEN (es + SegSize) % (16 * SegSize) ELSE es

\* The only mark of the end that is known is 0FFFh.
IsLast(c) == c = 4095

\* Whether a whole file lies at base.
InMemory(f, base, size, m) == \A i \in 0 .. size - 1 : m[base + i] = FileByte(f, i)

LoaderInMemory(m) == InMemory("LOADER.BIN", LOADER_PHY_ADDR + LOADER_OFF,
                              Len(machine.chain["LOADER.BIN"]) * BytsPerSec, m)

\* The last sector is there: boot.asm jumps to what it loaded, and the loader
\* begins with its own counters; loader.asm enters protected mode.
FileLoaded ==
  IF stage = "boot"
  THEN /\ stage' = "loader"
       /\ pc' = IF LoaderInMemory(mem') THEN "memory map" ELSE "lost"
       /\ wSectorNo' = SectorNoOfRootDirectory /\ wRootDirSizeForLoop' = RootDirSectors
       /\ UNCHANGED load
  ELSE /\ pc' = "count memory"
       /\ UNCHANGED <<stage, search, load>>

\* One round of LABEL_GOON_LOADING_FILE.
LoadSector ==
  /\ pc = "load"
  /\ mem' = FatRead(ReadSector(mem, SectorOf(cluster), 1, es, bx), cluster)
  /\ LET next == GetFATEntry(mem', cluster)
     IN  IF IsLast(next) THEN FileLoaded
         ELSE cluster' = next /\ NextPlace /\ UNCHANGED <<stage, pc, search>>
  /\ UNCHANGED <<machine, memory, kernel>>

-----------------------------------------------------------------------------
\* int 15h, E820h: one record more, until the last; or the BIOS fails, and the
\* records are as good as none.
MemoryMap ==
  /\ pc = "memory map"
  /\ \/ /\ dwMCRNumber < Len(machine.bios)
        /\ dwMCRNumber' = dwMCRNumber + 1
        /\ pc' = IF dwMCRNumber' = Len(machine.bios) THEN "search" ELSE pc
     \/ dwMCRNumber' = 0 /\ pc' = "search"
  /\ UNCHANGED <<machine, stage, search, load, mem, dwMemSize, tables, kernel>>

\* DispMemInfo: the highest end of a range of RAM; BaseAddrHigh and
\* LengthHigh are not looked at.
MemSize[n \in 0 .. Len(machine.bios)] ==
  IF n = 0 THEN 0
  ELSE LET r == machine.bios[n]
           end == (r.base + r.len) % Word
       IN  IF r.type = 1 /\ end >= MemSize[n - 1] THEN end ELSE MemSize[n - 1]

\* The loop over the records counts down before it tests: without a record it
\* does not end.
DispMemInfo ==
  /\ pc = "count memory"
  /\ dwMemSize' = MemSize[dwMCRNumber]
  /\ pc' = IF dwMCRNumber = 0 THEN "lost" ELSE "paging"
  /\ UNCHANGED <<machine, stage, search, load, mem, dwMCRNumber, tables, kernel>>

\* Mutant: no table for what is left of the memory.
TablesMut == dwMemSize \div TableSpan

Tables == dwMemSize \div TableSpan + IF dwMemSize % TableSpan = 0 THEN 0 ELSE 1

\* SetupPaging; its loops, too, test at the end.
SetupPaging ==
  /\ pc = "paging"
  /\ tables' = Tables
  /\ pc' = IF tables' = 0 THEN "lost" ELSE "init kernel"
  /\ UNCHANGED <<machine, stage, search, load, mem, dwMCRNumber, dwMemSize, kernel>>

\* MemCpy goes upwards, and its destinations lie below its sources: what it
\* copies is what was there before.
MemCpy(m, dst, src, n) ==
  [a \in Addresses |-> IF a - dst \in 0 .. n - 1 THEN m[src + (a - dst)] ELSE m[a]]

\* InitKernel: each program header but PT_NULL.
Placed[n \in 0 .. Len(machine.headers)] ==
  IF n = 0 THEN mem
  ELSE LET h == machine.headers[n]
       IN  IF h.null THEN Placed[n - 1]
           ELSE MemCpy(Placed[n - 1], h.vaddr, KERNEL_FILE_PHY_ADDR + h.offset, h.filesz)

InitKernel ==
  /\ pc = "init kernel"
  /\ mem' = Placed[Len(machine.headers)]
  /\ stage' = "kernel" /\ pc' = "kernel_main"
  /\ UNCHANGED <<machine, search, load, memory, kernel>>

-----------------------------------------------------------------------------
Allocated == {i \in DOMAIN machine.sections : machine.sections[i].alloc}
Bottom(s) == s.addr
Top(s) == s.addr + s.size

\* get_kernel_map: base, and limit as base + limit is the last valid byte.
KernelMap ==
  LET b == CHOOSE x \in {Bottom(machine.sections[i]) : i \in Allocated} :
             \A i \in Allocated : x <= Bottom(machine.sections[i])
      t == CHOOSE x \in {Top(machine.sections[i]) : i \in Allocated} :
             \A i \in Allocated : x >= Top(machine.sections[i])
  IN  [base |-> b, limit |-> t - b - 1]

\* The parameters the loader left, and the file it loaded: the magic number of
\* ELF is asserted.
get_boot_params == mem[KERNEL_FILE_PHY_ADDR] = FileByte("KERNEL.BIN", 0)

\* A segment descriptor: base and limit are split over its fields.
init_desc(base, limit) ==
  [limit_low |-> limit % Low, base_low |-> base % Low, base_mid |-> (base \div Low) % Mid,
   limit_high |-> (limit \div Low) % Nib, base_high |-> (base \div (Low * Mid)) % Mid]

\* A process has one descriptor for its code and one for data and stack.
Ldt(base, limit) == [C |-> init_desc(base, limit), RW |-> init_desc(base, limit)]

ldt_seg_linear(pid, idx) ==
  LET d == ldts[pid][idx] IN d.base_high * Low * Mid + d.base_mid * Low + d.base_low

va2la(pid, va) == ldt_seg_linear(pid, "RW") + va

\* kernel_main gives INIT all memory up to the end of the kernel.  The sections
\* are those of the file the loader left in memory.
kernel_main ==
  /\ pc = "kernel_main"
  /\ pc' = IF get_boot_params THEN "runs" ELSE "lost"
  /\ ldts' = [ldts EXCEPT ![INIT_PROC] = Ldt(0, (KernelMap.base + KernelMap.limit) \div Page)]
  /\ UNCHANGED <<machine, stage, search, load, mem, memory, copied>>

\* memory_size is an int.
memory_size == (IF dwMemSize >= Word \div 2 THEN dwMemSize - Word ELSE dwMemSize) * Unit

\* alloc_mem: each pid has its place; it panics for what does not fit there.
Base(pid) == PROCS_BASE + pid * PROC_IMAGE_SIZE_DEFAULT
Fits(pid, size) == size <= PROC_IMAGE_SIZE_DEFAULT /\ Base(pid) + size < memory_size

\* The size of a process, put together again from its descriptor.
Limit(pid) == ldts[pid].C.limit_high * Low + ldts[pid].C.limit_low
Size(pid) == (Limit(pid) + 1) * Page

\* do_fork, as far as memory goes: the child gets a copy of all its parent has,
\* and segments as large as any process may be.
Fork(pid, child) ==
  /\ pc = "runs" /\ ldts[pid] # NoLdt /\ ldts[child] = NoLdt
  /\ IF Fits(child, Size(pid))
     THEN /\ copied' = [copied EXCEPT ![child] = Size(pid)]
          /\ ldts' = [ldts EXCEPT ![child] =
                        Ldt(Base(child), (PROC_IMAGE_SIZE_DEFAULT - 1) \div Page)]
          /\ UNCHANGED pc
     ELSE pc' = "panic" /\ UNCHANGED kernel
  /\ UNCHANGED <<machine, stage, search, load, mem, memory>>

Start == \/ NoFile \/ SearchSector \/ LoadSector \/ MemoryMap \/ DispMemInfo
         \/ SetupPaging \/ InitKernel \/ kernel_main

-----------------------------------------------------------------------------
LastByte == CHOOSE x \in {Top(machine.sections[i]) - 1 : i \in Allocated} :
              \A i \in Allocated : x >= Top(machine.sections[i]) - 1

\* The loader is not overwritten while it works, and when the kernel begins
\* every byte of its segments is where it is linked to be, the file it reads
\* its sections from is whole, and INIT's segments reach to its last byte but
\* not a page farther.
KernelInPlace ==
  /\ stage = "loader" /\ pc # "lost" => LoaderInMemory(mem)
  /\ stage = "kernel" =>
       /\ InMemory("KERNEL.BIN", KERNEL_FILE_PHY_ADDR, machine.size, mem)
       /\ \A i \in DOMAIN machine.headers :
            LET h == machine.headers[i]
            IN  ~h.null => \A k \in 0 .. h.filesz - 1 :
                             mem[h.vaddr + k] = FileByte("KERNEL.BIN", h.offset + k)
  /\ pc = "runs" =>
       Limit(INIT_PROC) * Page <= LastByte /\ LastByte < (Limit(INIT_PROC) + 1) * Page

\* The kernel runs with all of the RAM below 4 GB mapped, with no table too
\* many.  Addresses of INIT are physical ones; a process that was forked has a
\* copy of all INIT was loaded with, which lies in RAM, behind the kernel and
\* apart from the memory of the others, wherever its descriptors say it does.
RamEnds == {(r.base + r.len) : r \in {machine.bios[i] : i \in {j \in DOMAIN machine.bios :
                                        machine.bios[j].type = 1 /\ ~machine.bios[j].high}}}

MemoryMapped ==
  stage = "kernel" =>
    /\ \A end \in RamEnds : end < Word => end <= tables * TableSpan
    /\ \E end \in RamEnds : end = dwMemSize /\ (tables - 1) * TableSpan < end
    /\ pc = "runs" => va2la(INIT_PROC, 0) = 0
    /\ \A p \in Children : ldts[p] # NoLdt =>
         /\ LastByte < va2la(p, 0) /\ LastByte < copied[p]
         /\ va2la(p, copied[p]) <= dwMemSize * Unit
         /\ \A q \in Children \ {p} : ldts[q] # NoLdt =>
              va2la(p, copied[p]) <= va2la(q, 0) \/ va2la(q, copied[q]) <= va2la(p, 0)
=============================================================================
