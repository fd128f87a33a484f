----------------------------- MODULE FsRdwtMC -------------------------------
(* Instances of FsRdwt for TLC: a disk of two entries, the second of them an *)
(* extended partition of one table, of three, or of more than the driver     *)
(* reads; the file system is in the first logical partition.                 *)
EXTENDS FsRdwt

Entry(sys, start, size) == [sys |-> sys, start |-> start, size |-> size]
Data(s) == <<-(10 * s + 1), -(10 * s + 2)>>
\* The first byte of sector 3 + InodeSect is the size of the file.
NoEntry == Entry("NO_PART", 0, 0)
MCDisk(first, second, third) ==
  << <<first, Entry("EXT_PART", 1, 12)>>,
     <<Entry("FS", 2, 7), second>>,
     <<Entry("FS", 10, 2), third>>,
     Data(3), <<3, -42>>, Data(5), Data(6), Data(7), Data(8), Data(9),
     <<Entry("FS", 2, 1), Entry("EXT_PART", 1, 2)>>,
     <<Entry("FS", 1, 1), NoEntry>>, Data(12), Data(13) >>
MCDisks == {MCDisk(Entry("FS", 13, 1), Entry("EXT_PART", 9, 2), Entry("EXT_PART", 10, 1)),
            MCDisk(Entry("EXT_PART", 11, 2), Entry("EXT_PART", 9, 2), NoEntry),
            MCDisk(NoEntry, NoEntry, NoEntry)}

MCFds == {1, 2, 3}
MCRdwrFds == {1, 2}
MCLengths == {1, 2, 3, 5}

ASSUME DisksFit
=============================================================================
