------------------------------ MODULE FsGraph ------------------------------
(***************************************************************************)
(* What dump_fd_graph() of fs/disklog.c writes to the disk log after an    *)
(* unlink: the tables of module Fs as a graph in the language of dot.      *)
(* Processes, descriptors and cached inodes are drawn from memory; sector  *)
(* map, inode array and root directory are read from the disk again.  Its  *)
(* reader relies on it to show how the tables hang together, so what is    *)
(* proper to it is which entries each loop takes for used, and that an     *)
(* arrow never leads to an entry that another loop has passed over.        *)
(* Labels and layout are left out, and with them the messages processes    *)
(* wait for and their parents, which are no state of Fs.                   *)
(***************************************************************************)
EXTENDS Fs

\* Nodes are a kind and an index, as in "filedesc3".
Node(kind, S) == {<<kind, i>> : i \in S}

\* proc_table[]: an entry that is not FREE_SLOT; MM has filled the child's in.
UsedProcs == alive \union ({forking.child} \ {NIL})
ProcNodes == Node("proc", UsedProcs)
ProcArrows == {<< <<"proc", h[1]>>, <<"filedesc", filp[h[1]][h[2]]>> >> :
                 h \in {g \in UsedProcs \X Fds : filp[g[1]][g[2]] # NONE}}

\* f_desc_table[]: fd_inode is not 0.
UsedDescs  == {d \in Descs : f_desc_table[d].inode # NONE}
DescNodes  == Node("filedesc", UsedDescs)
DescArrows == {<< <<"filedesc", d>>, <<"inode", f_desc_table[d].inode>> >> : d \in UsedDescs}

\* inode_table[]: i_cnt is not 0.
UsedSlots == {s \in Slots : inode_table[s].cnt # 0}
InodeNodes  == Node("inode", UsedSlots)
InodeArrows == {<< <<"inode", s>>, <<"inodearray", inode_table[s].num>> >> : s \in UsedSlots}

\* The inode array: the first sector only, and i_start_sect is not 0.
ArrayNodes == Node("inodearray", {n \in Nums : n <= InodesPerSect /\ inodes[n].start # 0})

\* The root directory: all entries of its sectors, those past i_size as well,
\* since the loop never counts m up.
ScannedEntries == {i \in 1 .. MaxDir : (i - 1) \div BlockEntries <= (dir_n - 1) \div BlockEntries}
DirNodes  == Node("rootdirent", {dir[i].inode_nr : i \in ScannedEntries} \ {0})
DirArrows == {<< <<"inodearray", v[2]>>, v >> : v \in DirNodes}

\* The sector map: the runs of bits that are set, bit 0 included; a run is
\* drawn when the loop meets the clear bit behind it.
SetBits == smap \union {0}
RunStarts == {b \in SetBits : b - 1 \notin SetBits}
RunEnds   == {e \in SetBits : e + 1 \in Sects \ smap}
SmapRuns  == {r \in RunStarts \X RunEnds :
                r[1] <= r[2] /\ \A c \in RunStarts : c <= r[1] \/ r[2] < c}

\* The inode map: one node that lists the bits that are set.
ImapBits == imap \union {0}

Nodes  == ProcNodes \union DescNodes \union InodeNodes \union ArrayNodes \union DirNodes
Arrows == ProcArrows \union DescArrows \union InodeArrows \union DirArrows

-----------------------------------------------------------------------------
\* An end that is no node of the graph, though it should be one.
LooseEnds == {v \in (UNION {{a[1], a[2]} : a \in Arrows}) \ Nodes :
                ~(v[1] = "inodearray" /\ v[2] > InodesPerSect)}

\* The sectors the inode array shows for a file are in one drawn run.
InDrawnRun(n) ==
  LET first == BitOf(get_super_block, inodes[n].start)
      last == first + inodes[n].nr - 1
  IN  \/ \E r \in SmapRuns : r[1] <= first /\ last <= r[2]
      \/ {b \in Sects : b >= last} \subseteq smap

\* The graph hangs together although its parts come from memory and from the
\* disk, are drawn by loops that each have their own idea of a used entry, and
\* may be drawn in the middle of a fork: every arrow leads from a node to a
\* node, every node of the inode array is in the list of the inode map and the
\* other way round, as far as the array is drawn, and every file's sectors are
\* in a run of the sector map (but one that reaches the end of the map, which
\* is never drawn).  No two entries of the directory lead to one inode.  No
\* inode has a sector in front of the first: "should not happen", and a panic.
GraphHangsTogether == halted = "no" =>
  /\ LooseEnds = {}
  /\ ArrayNodes = Node("inodearray", {n \in ImapBits : 0 < n /\ n <= InodesPerSect})
  /\ \A v \in ArrayNodes : inodes[v[2]].start >= get_super_block.n_1st_sect
  /\ \A v \in ArrayNodes : inodes[v[2]].mode = "REG" => InDrawnRun(v[2])
  /\ \A i, j \in ScannedEntries : i # j /\ dir[i].inode_nr # 0 =>
       dir[i].inode_nr # dir[j].inode_nr
=============================================================================
