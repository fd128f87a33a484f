------------------------------- MODULE BootMC -------------------------------
(* Instances of Untar for TLC: where the clusters of the two files lie,    *)
(* the order of the directory, the kernel's size, and the memory's map;    *)
(* and what cmd.tar holds.                                                 *)
EXTENDS Untar

\* Sizes of nothing, less than a sector, whole sectors, a whole buf and more
\* than one of them; names that are there already.
Tar(name, size) == [name |-> name, size |-> size]

MCArchives ==
  {<<>>, <<Tar("cmd.tar", 3)>>, <<Tar("a", 3), Tar("b", 4), Tar("a", 1), Tar("c", 2)>>}
  \cup {<<Tar("a", m), Tar("b", n), Tar("c", 5)>> : m \in {0, 1, 4, 8, 17}, n \in {0, 7, 12}}

\* The clusters in the order in which files are given them.
Orders == {[i \in 1 .. 11 |-> i + 1], [i \in 1 .. 11 |-> 13 - i],
           [i \in 1 .. 11 |-> IF i <= 6 THEN 2 * i ELSE 2 * i - 11]}

Directories == {<<"x", "LOADER.BIN", "KERNEL.BIN", "x">>, <<"KERNEL.BIN", "x", "x", "LOADER.BIN">>,
                <<"x", "LOADER.BIN", "x", "x">>, <<"KERNEL.BIN", "x", "x", "x">>}

Ram(b, l) == [base |-> b, len |-> l, type |-> 1, high |-> FALSE]
Reserved(b, l) == [Ram(b, l) EXCEPT !.type = 2]
High(b, l) == [Ram(b, l) EXCEPT !.high = TRUE]

Maps == {<<Ram(0, 1), Reserved(1, 1), Ram(2, 11)>>, <<Ram(2, 6), Ram(0, 1), Reserved(60, 4)>>,
         <<Ram(0, 1), Ram(1, 6), High(0, 5)>>, <<Ram(0, 1), Ram(1, 39)>>, <<Reserved(0, 63)>>}

\* Two segments and the unused header between them; .bss and .comment.
Floppy(order, dir, size, map) ==
  LET text == size \div 2
      sectors == (size + BytsPerSec - 1) \div BytsPerSec
  IN  [chain |-> [f \in {"LOADER.BIN", "KERNEL.BIN"} |->
                    IF f = "LOADER.BIN" THEN SubSeq(order, 1, 2) ELSE SubSeq(order, 3, 2 + sectors)],
       dir |-> dir, size |-> size, bios |-> map,
       headers |-> <<[null |-> FALSE, offset |-> 0, vaddr |-> 2, filesz |-> text],
                     [null |-> TRUE, offset |-> 0, vaddr |-> 0, filesz |-> 0],
                     [null |-> FALSE, offset |-> text, vaddr |-> text + 3, filesz |-> size - text]>>,
       sections |-> <<[alloc |-> TRUE, addr |-> text + 3, size |-> size - text],
                      [alloc |-> TRUE, addr |-> 2, size |-> text],
                      [alloc |-> TRUE, addr |-> size + 3, size |-> 2],
                      [alloc |-> FALSE, addr |-> 0, size |-> 60]>>]

MCMachines == {Floppy(o, d, s, m) : o \in Orders, d \in Directories,
                                    s \in {1, 4, 5, 16, 17, 31, 32, 33}, m \in Maps}
=============================================================================
