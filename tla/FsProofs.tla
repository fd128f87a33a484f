------------------------------ MODULE FsProofs ------------------------------
(***************************************************************************)
(* Proofs about the tables of FS, for any processes, sizes of the tables   *)
(* and partition.                                                          *)
(***************************************************************************)
EXTENDS FsGraph, FiniteSetTheorems, WellFoundedInduction, TLAPS

\* Every nonempty set of numbers has a least one.
LEMMA LeastNumber ==
  ASSUME NEW T \in SUBSET Nat, T # {}
  PROVE  \E n \in T : \A m \in T : n <= m
<1> DEFINE R == {ss \in Nat \X Nat : ss[1] < ss[2]}
<1>1. IsWellFoundedOn(R, Nat)
  BY NatLessThanWellFounded DEF OpToRel
<1> HIDE DEF R
<1>2. PICK n \in T : \A m \in T : ~ (<<m, n>> \in R)
  BY <1>1, WFMin
<1>3. \A m \in T : ~ (m < n)
  BY <1>2 DEF R
<1> QED BY <1>3

\* What the variables of FS hold.
Inodes == [mode : {"none", "DIR", "CHR", "REG"}, start : Nat, nr : Nat]
TypeOK ==
  /\ filp \in [Procs -> [Fds -> Descs \union {NONE}]]
  /\ f_desc_table \in [Descs -> [inode : Slots \union {NONE}, cnt : Int]]
  /\ inode_table \in [Slots -> [num : Nat, cnt : Int, inode : Inodes]]
  /\ inodes \in [Nums -> Inodes]
  /\ imap \subseteq Nums
  /\ dir = [i \in 1 .. MaxDir |-> Entry(dir[i].inode_nr, dir[i].name)]
  /\ dir_n \in 0 .. MaxDir
  /\ log \in BOOLEAN

\* Whom the descriptors belong to: the processes, and the child MM has copied
\* and FS does not know of, whose parent cannot change its own meanwhile.
ForkInv ==
  /\ alive \subseteq Procs /\ IsFiniteSet(alive)
  /\ \/ forking = NoFork
     \/ /\ forking.parent \in alive /\ forking.child \in Procs \ alive
        /\ filp[forking.child] = filp[forking.parent]
  /\ \A p \in Procs \ alive : p # forking.child => \A f \in Fds : filp[p][f] = NONE

\* A slot in use holds an inode in use, and slot 0 the root.
SlotsInUse == \A s \in Slots : inode_table[s].cnt > 0 =>
  inode_table[s].num \in Nums /\ inodes[inode_table[s].num].mode # "none"
RootKept == halted # "init" =>
  /\ inode_table[0].num = ROOT_INODE
  /\ ROOT_INODE \in imap /\ inodes[ROOT_INODE] = RootInode

\* The entries of the directory, also those behind its end, have different
\* inodes in use, until do_unlink has met one it cannot find.
EntriesInv ==
  /\ \A i \in 1 .. MaxDir :
       i <= dir_n \/ halted # "flg" => dir[i].inode_nr \in imap \union {0}
  /\ \A i, j \in 1 .. MaxDir : i # j /\ dir[i].inode_nr # 0 =>
       dir[i].inode_nr # dir[j].inode_nr

MapInv == halted = "no" => imap = {n \in Nums : inodes[n].mode # "none"}

\* The super block FS reads is the one mkfs() wrote.
SuperInv == halted # "init" => get_super_block = [sb EXCEPT !.sb_dev = ROOT_DEV]

TableInv ==
  /\ TypeOK /\ ForkInv /\ UsersCounted /\ CacheCoherent /\ SlotsInUse
  /\ RootKept /\ EntriesInv /\ MapInv /\ SuperInv
  /\ halted = "init" => Init

-----------------------------------------------------------------------------
(* Numbers, sets and the sizes of the disk.                                *)

\* FirstOf takes the least number.
LEMMA FirstOfSet ==
  ASSUME NEW S \in SUBSET Nat, S # {}
  PROVE  FirstOf(S) \in S /\ \A x \in S : FirstOf(S) <= x
BY LeastNumber DEF FirstOf

\* The quotient of two numbers is one.
LEMMA Quotient ==
  ASSUME NEW a \in Nat, NEW b \in Nat \ {0}
  PROVE  a \div b \in Nat
OBVIOUS

\* The sizes mkfs() computes are numbers, and root_inode has a slot.
LEMMA Sizes ==
  /\ DevSects \div BitsPerSect \in Nat
  /\ sb.nr_inodes = BitsPerSect /\ sb.nr_sects = DevSects
  /\ sb.nr_smap_sects = (DevSects \div BitsPerSect) + 1
  /\ sb.n_1st_sect \in Nat /\ sb.n_1st_sect >= 1 + 1 + 1 + sb.nr_smap_sects
  /\ MaxNum \in Nat /\ MaxNum >= Len(Ttys) + 2 /\ Len(Ttys) \in Nat
  /\ 1 \in Nums /\ Nums \subseteq Nat \ {0}
  /\ Slots \subseteq Nat /\ 0 \in Slots /\ Descs \subseteq Nat /\ Fds \subseteq Nat
  /\ NONE \notin Slots /\ NONE \notin Descs
  /\ IsFiniteSet(Fds)
<1> DEFINE d == DevSects \div BitsPerSect
           i == BitsPerSect \div InodesPerSect
<1>1. DevSects \in Nat /\ BitsPerSect \in Nat \ {0} /\ InodesPerSect \in Nat \ {0}
      /\ NrFiles \in Nat /\ NrFileDesc \in Nat /\ NrInode \in Nat \ {0}
      /\ MaxNum \in Len(Ttys) + 2 .. sb.nr_inodes - 1 /\ Len(Ttys) \in Nat
  BY FsAssumption
<1>2. d \in Nat /\ i \in Nat
  BY <1>1, Quotient
<1>3. /\ sb.nr_inodes = BitsPerSect /\ sb.nr_sects = DevSects
      /\ sb.nr_smap_sects = d + 1
      /\ sb.n_1st_sect = 1 + 1 + 1 + (d + 1) + i
  BY DEF sb, SuperBlock
<1> HIDE DEF d, i
<1>4. sb.n_1st_sect \in Nat /\ sb.n_1st_sect >= 1 + 1 + 1 + sb.nr_smap_sects
  BY <1>2, <1>3
<1>5. /\ MaxNum \in Nat /\ MaxNum >= Len(Ttys) + 2 /\ Len(Ttys) \in Nat
      /\ 1 \in Nums /\ Nums \subseteq Nat \ {0}
  BY <1>1, <1>3 DEF Nums
<1>6. /\ Slots \subseteq Nat /\ 0 \in Slots /\ Descs \subseteq Nat /\ Fds \subseteq Nat
      /\ NONE \notin Slots /\ NONE \notin Descs
  BY <1>1 DEF Slots, Descs, Fds, NONE
<1>7. IsFiniteSet(Fds)
  BY <1>1, FS_Interval DEF Fds
<1> QED BY <1>2, <1>3, <1>4, <1>5, <1>6, <1>7 DEF d

\* The directory has room for the first files.
LEMMA DirSize == MaxDir \in Nat /\ MaxDir >= Len(Ttys) + 2 /\ Len(Ttys) \in Nat
BY FsAssumption

\* Nobody is called NIL.
LEMMA NilNobody == NIL \notin Procs
BY FsAssumption

\* Pairs with one first part are as many as their second parts.
LEMMA OnePerson ==
  ASSUME NEW p, NEW S, IsFiniteSet(S)
  PROVE  IsFiniteSet({p} \X S) /\ Cardinality({p} \X S) = Cardinality(S)
<1>1. IsFiniteSet({p}) /\ Cardinality({p}) = 1
  BY FS_Singleton
<1>2. IsFiniteSet({p} \X S) /\ Cardinality({p} \X S) = Cardinality({p}) * Cardinality(S)
  BY <1>1, FS_Product
<1>3. Cardinality(S) \in Nat
  BY FS_CardinalityType
<1> QED BY <1>1, <1>2, <1>3

\* The descriptors a process has are finitely many.
LEMMA UsesFinite ==
  ASSUME NEW p
  PROVE  /\ \A d : IsFiniteSet({f \in Fds : filp[p][f] = d}) /\ Uses(p, d) \in Nat
         /\ \A s : /\ IsFiniteSet({f \in Fds : filp[p][f] # NONE /\ f_desc_table[filp[p][f]].inode = s})
                  /\ UsesOf(p, s) \in Nat
<1>1. ASSUME NEW S \in SUBSET Fds PROVE IsFiniteSet(S) /\ Cardinality(S) \in Nat
  BY Sizes, FS_Subset, FS_CardinalityType
<1> QED BY <1>1 DEF Uses, UsesOf

\* FS has counted the descriptors of the processes, which are finitely many.
LEMMA HoldersAlive ==
  ASSUME ForkInv
  PROVE  /\ Holders = {h \in alive \X Fds : filp[h[1]][h[2]] # NONE}
         /\ \A d : IsFiniteSet(HoldersOf(d)) /\ Cardinality(HoldersOf(d)) \in Nat
         /\ \A s : IsFiniteSet(UsersOf(s)) /\ Cardinality(UsersOf(s)) \in Nat
<1>1. Holders = {h \in alive \X Fds : filp[h[1]][h[2]] # NONE}
  <2>1. forking.child \notin alive
    BY NilNobody DEF ForkInv, NoFork
  <2> QED BY <2>1 DEF Holders, ForkInv
<1>2. IsFiniteSet(alive \X Fds)
  BY Sizes, FS_Product DEF ForkInv
<1>3. ASSUME NEW S \in SUBSET (alive \X Fds) PROVE IsFiniteSet(S) /\ Cardinality(S) \in Nat
  BY <1>2, FS_Subset, FS_CardinalityType
<1>4. \A d : HoldersOf(d) \in SUBSET (alive \X Fds)
  BY <1>1 DEF HoldersOf
<1>5. \A s : UsersOf(s) \in SUBSET (alive \X Fds)
  BY <1>1 DEF UsersOf
<1> QED BY <1>1, <1>3, <1>4, <1>5

\* The first part of UsersCounted.
DescsCounted == \A d \in Descs :
  /\ f_desc_table[d].cnt = Cardinality(HoldersOf(d))
  /\ f_desc_table[d].inode = NONE <=> HoldersOf(d) = {}

\* What leads to a slot leads there through a descriptor in use.
LEMMA HoldersThere ==
  ASSUME TypeOK, ForkInv, DescsCounted, NEW h \in Holders
  PROVE  /\ h[1] \in alive /\ h[1] \in Procs /\ h[2] \in Fds /\ h = <<h[1], h[2]>>
         /\ filp[h[1]][h[2]] \in Descs /\ h \in HoldersOf(filp[h[1]][h[2]])
         /\ f_desc_table[filp[h[1]][h[2]]].inode \in Slots
<1>1. /\ h \in alive \X Fds /\ filp[h[1]][h[2]] # NONE /\ alive \subseteq Procs
  BY HoldersAlive DEF ForkInv
<1>2. h[1] \in alive /\ h[1] \in Procs /\ h[2] \in Fds /\ h = <<h[1], h[2]>>
  BY <1>1
<1>3. filp[h[1]][h[2]] \in Descs
  BY <1>1, <1>2 DEF TypeOK
<1>4. h \in HoldersOf(filp[h[1]][h[2]])
  BY DEF HoldersOf
<1>5. f_desc_table[filp[h[1]][h[2]]].inode # NONE
  BY <1>3, <1>4 DEF DescsCounted
<1> QED BY <1>2, <1>3, <1>4, <1>5 DEF TypeOK

\* The end of do_open: one descriptor more leads to the slot, the new one, and
\* nothing else changes.
LEMMA Connected ==
  ASSUME TypeOK, ForkInv, DescsCounted, NEW p \in alive, forking.parent # p,
         FreeFds(p) # {}, FreeDescs # {}, NEW s \in Slots, Connect(p, s),
         UNCHANGED <<alive, forking>>
  PROVE  /\ ForkInv' /\ DescsCounted'
         /\ \A t \in Slots : Cardinality(UsersOf(t)') =
              Cardinality(UsersOf(t)) + IF t = s THEN 1 ELSE 0
         /\ filp' \in [Procs -> [Fds -> Descs \union {NONE}]]
         /\ f_desc_table' \in [Descs -> [inode : Slots \union {NONE}, cnt : Int]]
<1>1. PICK f : f = FirstOf(FreeFds(p))
  OBVIOUS
<1>2. PICK d : d = FirstOf(FreeDescs)
  OBVIOUS
<1>3. f \in Fds /\ filp[p][f] = NONE
  BY <1>1, FirstOfSet, Sizes DEF FreeFds
<1>4. d \in Descs /\ f_desc_table[d].inode = NONE
  BY <1>2, FirstOfSet, Sizes DEF FreeDescs
<1>5. p \in Procs /\ forking.child # p
  BY NilNobody DEF ForkInv, NoFork
<1>6. filp' = [filp EXCEPT ![p][f] = d]
      /\ f_desc_table' = [f_desc_table EXCEPT ![d] = [inode |-> s, cnt |-> 1]]
  BY <1>1, <1>2 DEF Connect
<1>7. /\ filp' \in [Procs -> [Fds -> Descs \union {NONE}]]
      /\ \A q \in Procs, g \in Fds : filp'[q][g] = IF q = p /\ g = f THEN d ELSE filp[q][g]
      /\ \A q \in Procs : q # p => filp'[q] = filp[q]
  BY <1>3, <1>4, <1>5, <1>6 DEF TypeOK
<1>8. /\ f_desc_table' \in [Descs -> [inode : Slots \union {NONE}, cnt : Int]]
      /\ f_desc_table'[d].inode = s /\ f_desc_table'[d].cnt = 1
      /\ \A e \in Descs : e # d => f_desc_table'[e] = f_desc_table[e]
  BY <1>4, <1>6 DEF TypeOK
<1>9. ForkInv'
  BY <1>5, <1>7 DEF ForkInv
<1>10. /\ Holders = {h \in alive \X Fds : filp[h[1]][h[2]] # NONE}
       /\ \A e : IsFiniteSet(UsersOf(e)) /\ Cardinality(UsersOf(e)) \in Nat
  BY HoldersAlive
<1>11. d # NONE /\ s # NONE
  BY <1>4, Sizes
<1>12. Holders' = {h \in alive \X Fds : filp'[h[1]][h[2]] # NONE}
  <2>1. forking'.child \notin alive' /\ alive' \subseteq Procs /\ alive' = alive
    BY <1>9, NilNobody DEF ForkInv, NoFork
  <2> QED BY <2>1, <1>9 DEF Holders, ForkInv
<1>13. Holders' = Holders \union {<<p, f>>} /\ <<p, f>> \notin Holders
  <2>1. alive \subseteq Procs
    BY DEF ForkInv
  <2> QED BY <2>1, <1>3, <1>7, <1>10, <1>11, <1>12
<1>14. \A h \in Holders : /\ filp'[h[1]][h[2]] = filp[h[1]][h[2]]
                          /\ filp[h[1]][h[2]] \in Descs /\ filp[h[1]][h[2]] # d
  <2> TAKE h \in Holders
  <2>1. HoldersOf(d) = {}
    BY <1>4 DEF DescsCounted
  <2>2. h[1] \in Procs /\ h[2] \in Fds /\ h = <<h[1], h[2]>> /\ filp[h[1]][h[2]] \in Descs
        /\ h \in HoldersOf(filp[h[1]][h[2]])
    BY HoldersThere
  <2> QED BY <2>1, <2>2, <1>7, <1>13
<1>15. filp'[p][f] = d
  BY <1>3, <1>5, <1>7
<1>16. HoldersOf(d)' = {<<p, f>>} /\ \A e \in Descs : e # d => HoldersOf(e)' = HoldersOf(e)
  BY <1>13, <1>14, <1>15 DEF HoldersOf
<1>17. DescsCounted'
  <2>1. Cardinality({<<p, f>>}) = 1
    BY FS_Singleton
  <2> QED BY <2>1, <1>4, <1>8, <1>11, <1>16 DEF DescsCounted
<1>18. ASSUME NEW t \in Slots
       PROVE  /\ UsersOf(t)' = IF t = s THEN UsersOf(t) \union {<<p, f>>} ELSE UsersOf(t)
              /\ <<p, f>> \notin UsersOf(t)
  <2>1. UsersOf(t)' = {h \in Holders' : f_desc_table'[filp'[h[1]][h[2]]].inode = t}
    BY DEF UsersOf
  <2>2. \A h \in Holders : f_desc_table'[filp'[h[1]][h[2]]].inode = f_desc_table[filp[h[1]][h[2]]].inode
    BY <1>8, <1>14
  <2> QED BY <2>1, <2>2, <1>8, <1>13, <1>15 DEF UsersOf
<1>19. ASSUME NEW t \in Slots
       PROVE  Cardinality(UsersOf(t)') = Cardinality(UsersOf(t)) + IF t = s THEN 1 ELSE 0
  <2>1. CASE t = s
    <3>1. Cardinality(UsersOf(t) \union {<<p, f>>}) = Cardinality(UsersOf(t)) + 1
      BY <1>10, <1>18, FS_AddElement
    <3> QED BY <2>1, <3>1, <1>18
  <2>2. CASE t # s
    BY <2>2, <1>10, <1>18
  <2> QED BY <2>1, <2>2
<1> QED BY <1>7, <1>8, <1>9, <1>17, <1>19

\* do_close: one descriptor less leads to the slot, and nothing else changes.
LEMMA Closed ==
  ASSUME TypeOK, ForkInv, DescsCounted, NEW p \in alive, forking.parent # p,
         NEW f \in Fds, filp[p][f] # NONE,
         filp' = [filp EXCEPT ![p][f] = NONE],
         f_desc_table' = [f_desc_table EXCEPT ![filp[p][f]] = Dropped(@, 1)],
         UNCHANGED <<alive, forking>>
  PROVE  /\ ForkInv' /\ DescsCounted'
         /\ f_desc_table[filp[p][f]].inode \in Slots
         /\ UsersOf(f_desc_table[filp[p][f]].inode) # {}
         /\ \A t \in Slots : Cardinality(UsersOf(t)') =
              Cardinality(UsersOf(t)) - IF t = f_desc_table[filp[p][f]].inode THEN 1 ELSE 0
         /\ filp' \in [Procs -> [Fds -> Descs \union {NONE}]]
         /\ f_desc_table' \in [Descs -> [inode : Slots \union {NONE}, cnt : Int]]
<1>1. PICK d : d = filp[p][f]
  OBVIOUS
<1>2. PICK s : s = f_desc_table[d].inode
  OBVIOUS
<1>3. p \in Procs /\ forking.child # p
  BY NilNobody DEF ForkInv, NoFork
<1>4. /\ Holders = {h \in alive \X Fds : filp[h[1]][h[2]] # NONE}
      /\ \A e : IsFiniteSet(UsersOf(e)) /\ Cardinality(UsersOf(e)) \in Nat
      /\ \A e : IsFiniteSet(HoldersOf(e)) /\ Cardinality(HoldersOf(e)) \in Nat
  BY HoldersAlive
<1>5. <<p, f>> \in Holders
  BY <1>3, <1>4
<1>6. d \in Descs /\ <<p, f>> \in HoldersOf(d) /\ s \in Slots /\ <<p, f>> \in UsersOf(s)
  BY <1>1, <1>2, <1>5, HoldersThere DEF UsersOf
<1>7. /\ filp' \in [Procs -> [Fds -> Descs \union {NONE}]]
      /\ \A q \in Procs, g \in Fds : filp'[q][g] = IF q = p /\ g = f THEN NONE ELSE filp[q][g]
      /\ \A q \in Procs : q # p => filp'[q] = filp[q]
  BY <1>3 DEF TypeOK
<1>8. ForkInv'
  BY <1>3, <1>7 DEF ForkInv
<1>9. Holders' = {h \in alive \X Fds : filp'[h[1]][h[2]] # NONE}
  <2>1. forking'.child \notin alive' /\ alive' \subseteq Procs /\ alive' = alive
    BY <1>8, NilNobody DEF ForkInv, NoFork
  <2> QED BY <2>1, <1>8 DEF Holders, ForkInv
<1>10. Holders' = Holders \ {<<p, f>>}
       /\ \A h \in Holders' : filp'[h[1]][h[2]] = filp[h[1]][h[2]]
  <2>1. alive \subseteq Procs
    BY DEF ForkInv
  <2> QED BY <2>1, <1>7, <1>4, <1>9
<1>11. \A e : HoldersOf(e)' = HoldersOf(e) \ {<<p, f>>}
  BY <1>10 DEF HoldersOf
<1>12. \A e \in Descs : e # d => HoldersOf(e)' = HoldersOf(e)
  BY <1>11, <1>1, SMTT(30) DEF HoldersOf
<1>13. Cardinality(HoldersOf(d)') = Cardinality(HoldersOf(d)) - 1
  BY <1>4, <1>6, <1>11, FS_RemoveElement
<1>14. Cardinality(HoldersOf(d)') = 0 <=> HoldersOf(d)' = {}
  BY <1>4, <1>11, FS_RemoveElement, FS_EmptySet
<1>15. /\ f_desc_table' = [f_desc_table EXCEPT ![d] = Dropped(f_desc_table[d], 1)]
       /\ f_desc_table[d] \in [inode : Slots \union {NONE}, cnt : Int]
       /\ f_desc_table[d].cnt = Cardinality(HoldersOf(d))
       /\ f_desc_table[d] # NoDesc
  BY <1>1, <1>2, <1>6, Sizes, SMTT(30) DEF TypeOK, DescsCounted, NoDesc
<1>16. /\ Dropped(f_desc_table[d], 1) \in [inode : Slots \union {NONE}, cnt : Int]
       /\ Dropped(f_desc_table[d], 1).cnt = f_desc_table[d].cnt - 1
       /\ Dropped(f_desc_table[d], 1).inode = IF f_desc_table[d].cnt = 1 THEN NONE ELSE s
  BY <1>2, <1>15 DEF Dropped, NoDesc
<1>17. /\ f_desc_table' \in [Descs -> [inode : Slots \union {NONE}, cnt : Int]]
       /\ f_desc_table'[d] = Dropped(f_desc_table[d], 1)
       /\ \A e \in Descs : e # d => f_desc_table'[e] = f_desc_table[e]
  BY <1>6, <1>15, <1>16 DEF TypeOK
<1>18. DescsCounted'
  <2>1. s # NONE
    BY <1>6, Sizes
  <2>2. \A e \in Descs : e # d => /\ f_desc_table'[e].cnt = Cardinality(HoldersOf(e)')
                                  /\ f_desc_table'[e].inode = NONE <=> HoldersOf(e)' = {}
    BY <1>12, <1>17 DEF DescsCounted
  <2>3. f_desc_table'[d].cnt = Cardinality(HoldersOf(d)')
    BY <1>13, <1>15, <1>16, <1>17
  <2>4. f_desc_table'[d].inode = NONE <=> Cardinality(HoldersOf(d)') = 0
    BY <2>1, <1>4, <1>13, <1>15, <1>16, <1>17
  <2> QED BY <2>2, <2>3, <2>4, <1>14 DEF DescsCounted
<1>19. \A h \in Holders' : f_desc_table'[filp'[h[1]][h[2]]].inode = f_desc_table[filp[h[1]][h[2]]].inode
  <2> TAKE h \in Holders'
  <2>1. h \in Holders /\ h # <<p, f>> /\ filp'[h[1]][h[2]] = filp[h[1]][h[2]]
    BY <1>10
  <2>2. filp[h[1]][h[2]] \in Descs /\ h \in HoldersOf(filp[h[1]][h[2]])
    BY <2>1, HoldersThere
  <2>3. CASE filp[h[1]][h[2]] = d
    <3>1. HoldersOf(d)' # {}
      BY <2>1, <2>2, <2>3, <1>11
    <3>2. f_desc_table[d].cnt # 1
      BY <3>1, <1>13, <1>14, <1>15
    <3> QED BY <3>2, <2>1, <2>3, <1>2, <1>16, <1>17
  <2>4. CASE filp[h[1]][h[2]] # d
    BY <2>1, <2>2, <2>4, <1>17
  <2> QED BY <2>3, <2>4
<1>20. \A t : UsersOf(t)' = UsersOf(t) \ {<<p, f>>}
  BY <1>10, <1>19 DEF UsersOf
<1>21. ASSUME NEW t \in Slots
       PROVE  Cardinality(UsersOf(t)') = Cardinality(UsersOf(t)) - IF t = s THEN 1 ELSE 0
  <2>1. CASE t = s
    BY <2>1, <1>4, <1>6, <1>20, FS_RemoveElement
  <2>2. CASE t # s
    <3>1. UsersOf(t)' = UsersOf(t)
      BY <2>2, <1>1, <1>2, <1>20 DEF UsersOf
    <3> QED BY <2>2, <3>1, <1>4
  <2> QED BY <2>1, <2>2
<1> QED BY <1>1, <1>2, <1>6, <1>7, <1>8, <1>17, <1>18, <1>21

\* fs_fork: the descriptors of the child are counted, which lead where those of
\* its parent lead.
LEMMA Forked ==
  ASSUME TypeOK, ForkInv, DescsCounted, forking # NoFork,
         f_desc_table' = [d \in Descs |->
           [f_desc_table[d] EXCEPT !.cnt = @ + Uses(forking.child, d)]],
         alive' = alive \union {forking.child}, forking' = NoFork,
         UNCHANGED filp
  PROVE  /\ ForkInv' /\ DescsCounted'
         /\ \A t \in Slots : Cardinality(UsersOf(t)') =
              Cardinality(UsersOf(t)) + UsesOf(forking.child, t)
         /\ f_desc_table' \in [Descs -> [inode : Slots \union {NONE}, cnt : Int]]
<1>1. PICK c : c = forking.child
  OBVIOUS
<1>2. /\ c \in Procs /\ c \notin alive /\ alive \subseteq Procs
      /\ forking.parent \in alive /\ filp[c] = filp[forking.parent]
      /\ c # NIL
  BY <1>1, NilNobody DEF ForkInv
<1>3. ForkInv'
  <2>1. IsFiniteSet(alive')
    BY FS_AddElement DEF ForkInv
  <2> QED BY <2>1, <1>1, <1>2 DEF ForkInv, NoFork
<1>4. /\ Holders = {h \in alive \X Fds : filp[h[1]][h[2]] # NONE}
      /\ \A e : IsFiniteSet(UsersOf(e)) /\ Cardinality(UsersOf(e)) \in Nat
      /\ \A e : IsFiniteSet(HoldersOf(e)) /\ Cardinality(HoldersOf(e)) \in Nat
  BY HoldersAlive
<1>5. Holders' = {h \in alive' \X Fds : filp[h[1]][h[2]] # NONE}
  <2>1. forking'.child \notin alive' /\ alive' \subseteq Procs
    BY <1>1, <1>2, <1>3, NilNobody DEF ForkInv, NoFork
  <2> QED BY <2>1, <1>3 DEF Holders, ForkInv
<1>6. Holders' = Holders \union {h \in {c} \X Fds : filp[h[1]][h[2]] # NONE}
  BY <1>1, <1>4, <1>5
<1>7. ASSUME NEW d \in Descs
      PROVE  /\ HoldersOf(d)' = HoldersOf(d) \union ({c} \X {f \in Fds : filp[c][f] = d})
             /\ Cardinality(HoldersOf(d)') = Cardinality(HoldersOf(d)) + Uses(c, d)
             /\ HoldersOf(d) = {} => HoldersOf(d)' = {}
  <2> DEFINE F == {f \in Fds : filp[c][f] = d}
             C == {c} \X F
  <2>1. d # NONE
    BY Sizes
  <2>2. HoldersOf(d)' = HoldersOf(d) \union C
    BY <2>1, <1>6 DEF HoldersOf
  <2>3. HoldersOf(d) \intersect C = {}
    BY <1>2, <1>4 DEF HoldersOf
  <2>4. IsFiniteSet(F) /\ Cardinality(F) = Uses(c, d) /\ Uses(c, d) \in Nat
    BY UsesFinite DEF Uses
  <2>5. IsFiniteSet(C) /\ Cardinality(C) = Uses(c, d)
    BY <2>4, OnePerson
  <2> HIDE DEF C
  <2>6. Cardinality(HoldersOf(d) \union C) = Cardinality(HoldersOf(d)) + Cardinality(C) - Cardinality(HoldersOf(d) \intersect C)
    BY <2>5, <1>4, FS_Union
  <2>7. Cardinality(HoldersOf(d) \intersect C) = 0
    BY <2>3, FS_EmptySet
  <2>8. ASSUME HoldersOf(d) = {} PROVE C = {}
    <3>1. ASSUME NEW f \in Fds PROVE filp[forking.parent][f] # d
      <4>1. <<forking.parent, f>> \notin Holders \/ filp[forking.parent][f] # d
        BY <2>8 DEF HoldersOf
      <4> QED BY <4>1, <2>1, <1>2, <1>4
    <3> QED BY <3>1, <1>2 DEF C
  <2>9. Cardinality(HoldersOf(d)) \in Nat
    BY <1>4
  <2>10. Cardinality(HoldersOf(d)') = Cardinality(HoldersOf(d)) + Uses(c, d)
    BY <2>2, <2>4, <2>5, <2>6, <2>7, <2>9
  <2> QED BY <2>2, <2>8, <2>10 DEF C
<1>8. ASSUME NEW d \in Descs
      PROVE  /\ f_desc_table'[d].cnt = f_desc_table[d].cnt + Uses(c, d)
             /\ f_desc_table'[d].inode = f_desc_table[d].inode
             /\ f_desc_table'[d] \in [inode : Slots \union {NONE}, cnt : Int]
  <2>1. f_desc_table'[d] = [f_desc_table[d] EXCEPT !.cnt = @ + Uses(c, d)]
    BY <1>1
  <2>2. Uses(c, d) \in Nat /\ f_desc_table[d] \in [inode : Slots \union {NONE}, cnt : Int]
    BY UsesFinite DEF TypeOK
  <2> QED BY <2>1, <2>2
<1>9. f_desc_table' \in [Descs -> [inode : Slots \union {NONE}, cnt : Int]]
  BY <1>8
<1>10. DescsCounted'
  <2> SUFFICES ASSUME NEW d \in Descs
               PROVE  /\ f_desc_table'[d].cnt = Cardinality(HoldersOf(d)')
                      /\ f_desc_table'[d].inode = NONE <=> HoldersOf(d)' = {}
    BY DEF DescsCounted
  <2>1. /\ f_desc_table[d].cnt = Cardinality(HoldersOf(d))
        /\ f_desc_table[d].inode = NONE <=> HoldersOf(d) = {}
    BY DEF DescsCounted
  <2>2. HoldersOf(d)' = {} => HoldersOf(d) = {}
    BY <1>7
  <2> QED BY <2>1, <2>2, <1>7, <1>8
<1>11. \A h \in Holders' : f_desc_table'[filp[h[1]][h[2]]].inode = f_desc_table[filp[h[1]][h[2]]].inode
  <2> TAKE h \in Holders'
  <2>1. h[1] \in Procs /\ h[2] \in Fds /\ filp[h[1]][h[2]] # NONE
    BY <1>1, <1>2, <1>5
  <2>2. filp[h[1]][h[2]] \in Descs
    BY <2>1 DEF TypeOK
  <2> QED BY <2>2, <1>8
<1>12. ASSUME NEW t \in Slots
       PROVE  Cardinality(UsersOf(t)') = Cardinality(UsersOf(t)) + UsesOf(c, t)
  <2> DEFINE F == {f \in Fds : filp[c][f] # NONE /\ f_desc_table[filp[c][f]].inode = t}
             C == {c} \X F
  <2>1. UsersOf(t)' = {h \in Holders' : f_desc_table[filp[h[1]][h[2]]].inode = t}
    BY <1>11 DEF UsersOf
  <2>2. UsersOf(t)' = UsersOf(t) \union C
    BY <2>1, <1>6 DEF UsersOf
  <2>3. UsersOf(t) \intersect C = {}
    BY <1>2, <1>4 DEF UsersOf
  <2>4. IsFiniteSet(F) /\ Cardinality(F) = UsesOf(c, t) /\ UsesOf(c, t) \in Nat
    BY UsesFinite, ZenonT(30) DEF UsesOf
  <2>5. IsFiniteSet(C) /\ Cardinality(C) = UsesOf(c, t)
    BY <2>4, OnePerson
  <2> HIDE DEF C
  <2>6. Cardinality(UsersOf(t) \union C) = Cardinality(UsersOf(t)) + Cardinality(C) - Cardinality(UsersOf(t) \intersect C)
    BY <2>5, <1>4, FS_Union
  <2>7. Cardinality(UsersOf(t) \intersect C) = 0
    BY <2>3, FS_EmptySet
  <2>8. Cardinality(UsersOf(t)) \in Nat
    BY <1>4
  <2> QED BY <2>2, <2>4, <2>5, <2>6, <2>7, <2>8
<1> QED BY <1>1, <1>3, <1>9, <1>10, <1>12

\* fs_exit: what leads to a descriptor or a slot from the process goes away.
LEMMA Exited ==
  ASSUME TypeOK, ForkInv, DescsCounted, NEW p \in alive, forking = NoFork,
         f_desc_table' = [d \in Descs |-> Dropped(f_desc_table[d], Uses(p, d))],
         filp' = [filp EXCEPT ![p] = [f \in Fds |-> NONE]],
         alive' = alive \ {p}, UNCHANGED forking
  PROVE  /\ ForkInv' /\ DescsCounted'
         /\ \A t \in Slots : Cardinality(UsersOf(t)') =
              Cardinality(UsersOf(t)) - UsesOf(p, t)
         /\ filp' \in [Procs -> [Fds -> Descs \union {NONE}]]
         /\ f_desc_table' \in [Descs -> [inode : Slots \union {NONE}, cnt : Int]]
<1>1. p \in Procs /\ alive \subseteq Procs
  BY DEF ForkInv
<1>2. /\ filp' \in [Procs -> [Fds -> Descs \union {NONE}]]
      /\ \A q \in Procs, g \in Fds : filp'[q][g] = IF q = p THEN NONE ELSE filp[q][g]
      /\ \A q \in Procs : q # p => filp'[q] = filp[q]
  BY <1>1 DEF TypeOK
<1>3. ForkInv'
  <2>1. IsFiniteSet(alive')
    BY FS_Subset DEF ForkInv
  <2>2. \A q \in Procs \ alive' : q # forking'.child => \A f \in Fds : filp'[q][f] = NONE
    BY <1>2 DEF ForkInv
  <2> QED BY <2>1, <2>2, <1>1 DEF ForkInv
<1>4. /\ Holders = {h \in alive \X Fds : filp[h[1]][h[2]] # NONE}
      /\ \A e : IsFiniteSet(UsersOf(e)) /\ Cardinality(UsersOf(e)) \in Nat
      /\ \A e : IsFiniteSet(HoldersOf(e)) /\ Cardinality(HoldersOf(e)) \in Nat
  BY HoldersAlive
<1>5. Holders' = {h \in alive' \X Fds : filp'[h[1]][h[2]] # NONE}
  <2>1. forking'.child \notin alive' /\ alive' \subseteq Procs
    BY <1>1, NilNobody DEF NoFork
  <2> QED BY <2>1, <1>3 DEF Holders, ForkInv
<1>6. /\ Holders' = {h \in Holders : h[1] # p}
      /\ \A h \in Holders' : filp'[h[1]][h[2]] = filp[h[1]][h[2]]
  BY <1>1, <1>2, <1>4, <1>5
<1>7. ASSUME NEW d \in Descs
      PROVE  /\ HoldersOf(d)' = {h \in HoldersOf(d) : h[1] # p}
             /\ Cardinality(HoldersOf(d)') = Cardinality(HoldersOf(d)) - Uses(p, d)
             /\ Uses(p, d) = 0 => HoldersOf(d)' = HoldersOf(d)
             /\ Cardinality(HoldersOf(d)') = 0 <=> HoldersOf(d)' = {}
  <2> DEFINE F == {f \in Fds : filp[p][f] = d}
             C == {p} \X F
  <2>1. d # NONE
    BY Sizes
  <2>2. HoldersOf(d)' = {h \in HoldersOf(d) : h[1] # p}
    BY <1>6 DEF HoldersOf
  <2>3. C \subseteq HoldersOf(d)
    BY <2>1, <1>4 DEF HoldersOf
  <2>4. HoldersOf(d)' = HoldersOf(d) \ C
    BY <2>2, <1>4 DEF HoldersOf
  <2>5. IsFiniteSet(F) /\ Cardinality(F) = Uses(p, d) /\ Uses(p, d) \in Nat
    BY UsesFinite DEF Uses
  <2>6. IsFiniteSet(C) /\ Cardinality(C) = Uses(p, d)
    BY <2>5, OnePerson
  <2> HIDE DEF C
  <2>7. /\ Cardinality(HoldersOf(d) \ C) = Cardinality(HoldersOf(d)) - Cardinality(HoldersOf(d) \intersect C)
        /\ IsFiniteSet(HoldersOf(d) \ C)
    BY <2>6, <1>4, FS_Difference
  <2>8. HoldersOf(d) \intersect C = C
    BY <2>3
  <2>9. ASSUME Uses(p, d) = 0 PROVE HoldersOf(d)' = HoldersOf(d)
    <3>1. C = {}
      BY <2>6, <2>9, FS_EmptySet
    <3> QED BY <3>1, <2>4
  <2>10. Cardinality(HoldersOf(d)') = 0 <=> HoldersOf(d)' = {}
    BY <2>4, <2>7, FS_EmptySet
  <2> QED BY <2>2, <2>4, <2>6, <2>7, <2>8, <2>9, <2>10
<1>8. ASSUME NEW d \in Descs
      PROVE  /\ f_desc_table'[d] \in [inode : Slots \union {NONE}, cnt : Int]
             /\ f_desc_table'[d].cnt = Cardinality(HoldersOf(d)')
             /\ f_desc_table'[d].inode = NONE <=> HoldersOf(d)' = {}
             /\ HoldersOf(d)' # {} => f_desc_table'[d].inode = f_desc_table[d].inode
  <2>1. PICK n : n = Uses(p, d)
    OBVIOUS
  <2>2. /\ f_desc_table'[d] = Dropped(f_desc_table[d], n)
        /\ n \in Nat /\ f_desc_table[d] \in [inode : Slots \union {NONE}, cnt : Int]
    BY <2>1, UsesFinite DEF TypeOK
  <2>3. /\ f_desc_table[d].cnt = Cardinality(HoldersOf(d))
        /\ f_desc_table[d].inode = NONE <=> HoldersOf(d) = {}
    BY DEF DescsCounted
  <2>4. CASE n > 0 /\ f_desc_table[d].cnt = n
    <3>1. f_desc_table'[d] = NoDesc
      BY <2>2, <2>4 DEF Dropped
    <3>2. /\ Cardinality(HoldersOf(d)') = Cardinality(HoldersOf(d)) - Uses(p, d)
          /\ Cardinality(HoldersOf(d)') = 0 <=> HoldersOf(d)' = {}
      BY <1>7
    <3>3. Cardinality(HoldersOf(d)') = 0
      BY <3>2, <2>1, <2>2, <2>3, <2>4
    <3> QED BY <3>1, <3>2, <3>3 DEF NoDesc
  <2>5. CASE ~(n > 0 /\ f_desc_table[d].cnt = n)
    <3>1. f_desc_table'[d] = [f_desc_table[d] EXCEPT !.cnt = @ - n]
      BY <2>2, <2>5 DEF Dropped
    <3>2. /\ f_desc_table'[d].cnt = f_desc_table[d].cnt - n
          /\ f_desc_table'[d].inode = f_desc_table[d].inode
          /\ f_desc_table'[d] \in [inode : Slots \union {NONE}, cnt : Int]
      BY <3>1, <2>2
    <3>3. f_desc_table'[d].cnt = Cardinality(HoldersOf(d)')
      BY <3>2, <2>1, <2>3, <1>7
    <3>4. n > 0 => HoldersOf(d)' # {} /\ HoldersOf(d) # {}
      BY <3>2, <3>3, <2>2, <2>5, <1>7
    <3>5. n = 0 => HoldersOf(d)' = HoldersOf(d)
      BY <2>1, <1>7
    <3>6. f_desc_table'[d].inode = NONE <=> HoldersOf(d)' = {}
      BY <3>2, <3>4, <3>5, <2>2, <2>3
    <3> QED BY <3>2, <3>3, <3>6
  <2> QED BY <2>4, <2>5
<1>9. f_desc_table' \in [Descs -> [inode : Slots \union {NONE}, cnt : Int]]
  BY <1>8
<1>10. DescsCounted'
  BY <1>8 DEF DescsCounted
<1>11. \A h \in Holders' : f_desc_table'[filp'[h[1]][h[2]]].inode = f_desc_table[filp[h[1]][h[2]]].inode
  <2> TAKE h \in Holders'
  <2>1. h \in Holders /\ filp'[h[1]][h[2]] = filp[h[1]][h[2]]
    BY <1>6
  <2>2. filp[h[1]][h[2]] \in Descs
    BY <2>1, HoldersThere
  <2>3. HoldersOf(filp[h[1]][h[2]])' # {}
    BY <2>1 DEF HoldersOf
  <2> QED BY <2>1, <2>2, <2>3, <1>8
<1>12. ASSUME NEW t \in Slots
       PROVE  Cardinality(UsersOf(t)') = Cardinality(UsersOf(t)) - UsesOf(p, t)
  <2> DEFINE F == {f \in Fds : filp[p][f] # NONE /\ f_desc_table[filp[p][f]].inode = t}
             C == {p} \X F
  <2>1. UsersOf(t)' = {h \in UsersOf(t) : h[1] # p}
    BY <1>6, <1>11 DEF UsersOf
  <2>2. C \subseteq UsersOf(t)
    BY <1>4 DEF UsersOf
  <2>3. UsersOf(t)' = UsersOf(t) \ C
    BY <2>1, <1>4 DEF UsersOf
  <2>4. IsFiniteSet(F) /\ Cardinality(F) = UsesOf(p, t)
    BY UsesFinite, ZenonT(30) DEF UsesOf
  <2>5. IsFiniteSet(C) /\ Cardinality(C) = UsesOf(p, t)
    BY <2>4, OnePerson
  <2> HIDE DEF C
  <2>6. Cardinality(UsersOf(t) \ C) = Cardinality(UsersOf(t)) - Cardinality(UsersOf(t) \intersect C)
    BY <2>5, <1>4, FS_Difference
  <2>7. UsersOf(t) \intersect C = C
    BY <2>2
  <2> QED BY <2>3, <2>5, <2>6, <2>7
<1> QED BY <1>2, <1>3, <1>9, <1>10, <1>12

-----------------------------------------------------------------------------
(* The slots of inode_table[].                                             *)

\* The second part of UsersCounted: the slots have at least the users they
\* are to have, and those in use hold different inodes in use.
SlotsCounted == \A s \in Slots :
  inode_table[s].cnt >= Cardinality(UsersOf(s)) + IF s = 0 /\ halted # "init" THEN 1 ELSE 0

CacheInv == SlotsCounted /\ CacheCoherent /\ SlotsInUse

\* A slot with users is in use and holds an inode in use.
LEMMA UsersHold ==
  ASSUME TypeOK, ForkInv, DescsCounted, CacheInv
  PROVE  UsersCounted
<1>1. ASSUME NEW s \in Slots, UsersOf(s) # {}
      PROVE  inode_table[s].inode.mode # "none"
  <2>1. Cardinality(UsersOf(s)) \in Nat /\ Cardinality(UsersOf(s)) # 0
    BY <1>1, HoldersAlive, FS_EmptySet
  <2>2. inode_table[s].cnt >= Cardinality(UsersOf(s)) + IF s = 0 /\ halted # "init" THEN 1 ELSE 0
    BY DEF CacheInv, SlotsCounted
  <2>3. inode_table[s].cnt \in Int
    BY DEF TypeOK
  <2>4. inode_table[s].cnt > 0
    BY <2>1, <2>2, <2>3
  <2> QED BY <2>4 DEF CacheInv, CacheCoherent, SlotsInUse
<1> QED BY <1>1 DEF UsersCounted, DescsCounted, CacheInv, SlotsCounted

\* The slot get_inode() gives, and the table with the inode in it.
LEMMA Slot ==
  ASSUME TypeOK, CacheInv, ForkInv, NEW n \in Nums, ~TableFull(n)
  PROVE  /\ SlotOf(n) \in Slots /\ inode_table[SlotOf(n)].cnt \in Nat
         /\ Got(n) = [inode_table EXCEPT ![SlotOf(n)] =
                        [num |-> n, cnt |-> inode_table[SlotOf(n)].cnt + 1, inode |-> inodes[n]]]
         /\ Pin(n) = [num |-> n, cnt |-> inode_table[SlotOf(n)].cnt + 1, inode |-> inodes[n]]
         /\ inode_table[SlotOf(n)].cnt > 0 => inode_table[SlotOf(n)].num = n
         /\ \A t \in Slots : inode_table[t].cnt > 0 /\ inode_table[t].num = n => t = SlotOf(n)
<1>1. PICK s : s = SlotOf(n)
  OBVIOUS
<1>2. /\ Cached(n) \subseteq Nat /\ FreeSlots \subseteq Nat
      /\ Cached(n) \subseteq Slots /\ FreeSlots \subseteq Slots
  BY Sizes DEF Cached, FreeSlots
<1>3. IF Cached(n) # {} THEN s \in Cached(n) ELSE s \in FreeSlots
  BY <1>1, <1>2, FirstOfSet DEF SlotOf, TableFull
<1>4. s \in Slots /\ inode_table[s] \in [num : Nat, cnt : Int, inode : Inodes]
  BY <1>2, <1>3 DEF TypeOK
<1>5. IF Cached(n) # {} THEN inode_table[s].cnt > 0 /\ inode_table[s].num = n
                        ELSE inode_table[s].cnt = 0
  BY <1>3 DEF Cached, FreeSlots
<1>6. inode_table[s].cnt \in Nat
  BY <1>4, <1>5
<1>7. ASSUME inode_table[s].cnt > 0
      PROVE  inode_table[s].num = n /\ inode_table[s].inode = inodes[n]
  BY <1>4, <1>5, <1>7 DEF CacheInv, CacheCoherent
<1> DEFINE new == [num |-> n, cnt |-> inode_table[s].cnt + 1, inode |-> inodes[n]]
<1>8. Got(n) = [inode_table EXCEPT ![s] = new]
  <2>1. CASE Cached(n) # {}
    <3>1. [inode_table[s] EXCEPT !.cnt = @ + 1] = new
      BY <2>1, <1>4, <1>5, <1>7
    <3> QED BY <2>1, <3>1, <1>1 DEF Got
  <2>2. CASE Cached(n) = {}
    <3>1. [num |-> n, cnt |-> 1, inode |-> inodes[n]] = new
      BY <2>2, <1>5
    <3> QED BY <2>2, <3>1, <1>1 DEF Got
  <2> QED BY <2>1, <2>2
<1>9. Pin(n) = new
  BY <1>1, <1>4, <1>8 DEF Pin, TypeOK
<1>10. ASSUME NEW t \in Slots, inode_table[t].cnt > 0, inode_table[t].num = n
       PROVE  t = s
  <2>1. Cached(n) # {}
    BY <1>10 DEF Cached
  <2> QED BY <2>1, <1>4, <1>5, <1>10 DEF CacheInv, CacheCoherent
<1> QED BY <1>1, <1>4, <1>6, <1>7, <1>8, <1>9, <1>10

\* get_inode() keeps the slots as they are to be, when the slot it gives gets
\* one user more at the most.
LEMMA GotKeeps ==
  ASSUME TypeOK, CacheInv, ForkInv, NEW n \in Nums, ~TableFull(n), inodes[n].mode # "none",
         inode_table' = Got(n), UNCHANGED inodes, halted # "init",
         \A t \in Slots : /\ Cardinality(UsersOf(t)) \in Nat
                          /\ Cardinality(UsersOf(t)') \in Nat
                          /\ Cardinality(UsersOf(t)') <=
                               Cardinality(UsersOf(t)) + IF t = SlotOf(n) THEN 1 ELSE 0
  PROVE  /\ inode_table' \in [Slots -> [num : Nat, cnt : Int, inode : Inodes]]
         /\ CacheInv'
         /\ inode_table[0].cnt > 0 => inode_table'[0].num = inode_table[0].num
<1>1. PICK s : s = SlotOf(n)
  OBVIOUS
<1> DEFINE new == [num |-> n, cnt |-> inode_table[s].cnt + 1, inode |-> inodes[n]]
<1>2. /\ s \in Slots /\ inode_table[s].cnt \in Nat
      /\ inode_table' = [inode_table EXCEPT ![s] = new]
      /\ inode_table[s].cnt > 0 => inode_table[s].num = n
      /\ \A t \in Slots : inode_table[t].cnt > 0 /\ inode_table[t].num = n => t = s
  BY <1>1, Slot
<1>3. /\ inode_table' \in [Slots -> [num : Nat, cnt : Int, inode : Inodes]]
      /\ inode_table'[s].num = n /\ inode_table'[s].cnt = inode_table[s].cnt + 1
      /\ inode_table'[s].inode = inodes[n]
      /\ \A t \in Slots : t # s => inode_table'[t] = inode_table[t]
  <2>1. new \in [num : Nat, cnt : Int, inode : Inodes]
    BY <1>2, Sizes, SMTT(30) DEF TypeOK
  <2> QED BY <2>1, <1>2 DEF TypeOK
<1>4. SlotsCounted'
  <2> SUFFICES ASSUME NEW t \in Slots
               PROVE  inode_table'[t].cnt >= Cardinality(UsersOf(t)') + IF t = 0 /\ halted' # "init" THEN 1 ELSE 0
    BY DEF SlotsCounted
  <2>1. inode_table[t].cnt >= Cardinality(UsersOf(t)) + IF t = 0 THEN 1 ELSE 0
    BY DEF CacheInv, SlotsCounted
  <2>2. inode_table[t].cnt \in Int
    BY DEF TypeOK
  <2>3. /\ Cardinality(UsersOf(t)) \in Nat
        /\ Cardinality(UsersOf(t)') \in Nat
        /\ Cardinality(UsersOf(t)') <= Cardinality(UsersOf(t)) + IF t = s THEN 1 ELSE 0
    BY <1>1
  <2>4. inode_table'[t].cnt = inode_table[t].cnt + IF t = s THEN 1 ELSE 0
    BY <1>3, <2>2
  <2> QED BY <2>1, <2>2, <2>3, <2>4
<1>5. CacheCoherent'
  BY <1>2, <1>3 DEF CacheInv, CacheCoherent
<1>6. SlotsInUse'
  BY <1>2, <1>3 DEF CacheInv, SlotsInUse
<1> QED BY <1>2, <1>3, <1>4, <1>5, <1>6, Sizes DEF CacheInv

\* A slot has as many users more or less as its i_cnt says, and none comes to
\* a slot that is free.
LEMMA CountsKeep ==
  ASSUME TypeOK, CacheInv, UNCHANGED inodes, halted # "init", halted' # "init",
         DOMAIN inode_table' = Slots, inode_table' = [s \in Slots |-> inode_table'[s]],
         \A s \in Slots :
           /\ inode_table'[s] \in [num : Nat, cnt : Int, inode : Inodes]
           /\ inode_table'[s].num = inode_table[s].num
           /\ inode_table'[s].inode = inode_table[s].inode
           /\ inode_table'[s].cnt > 0 => inode_table[s].cnt > 0
           /\ Cardinality(UsersOf(s)) \in Nat
           /\ Cardinality(UsersOf(s)') = Cardinality(UsersOf(s)) + (inode_table'[s].cnt - inode_table[s].cnt)
  PROVE  /\ inode_table' \in [Slots -> [num : Nat, cnt : Int, inode : Inodes]]
         /\ CacheInv' /\ inode_table'[0].num = inode_table[0].num
<1>1. inode_table' \in [Slots -> [num : Nat, cnt : Int, inode : Inodes]]
  OBVIOUS
<1>2. SlotsCounted'
  <2> SUFFICES ASSUME NEW t \in Slots
               PROVE  inode_table'[t].cnt >= Cardinality(UsersOf(t)') + IF t = 0 /\ halted' # "init" THEN 1 ELSE 0
    BY DEF SlotsCounted
  <2>1. inode_table[t].cnt >= Cardinality(UsersOf(t)) + IF t = 0 THEN 1 ELSE 0
    BY DEF CacheInv, SlotsCounted
  <2>2. inode_table[t].cnt \in Int /\ inode_table'[t].cnt \in Int
    BY <1>1 DEF TypeOK
  <2>3. /\ Cardinality(UsersOf(t)) \in Nat
        /\ Cardinality(UsersOf(t)') = Cardinality(UsersOf(t)) + (inode_table'[t].cnt - inode_table[t].cnt)
    OBVIOUS
  <2> QED BY <2>1, <2>2, <2>3
<1>3. CacheCoherent'
  BY DEF CacheInv, CacheCoherent
<1>4. SlotsInUse'
  BY DEF CacheInv, SlotsInUse
<1> QED BY <1>1, <1>2, <1>3, <1>4, Sizes DEF CacheInv

\* The invariant from its parts, and the parts from it.
LEMMA Parts ==
  TableInv <=> /\ TypeOK /\ ForkInv /\ DescsCounted /\ CacheInv
               /\ RootKept /\ EntriesInv /\ MapInv /\ SuperInv
               /\ halted = "init" => Init
<1>1. TableInv => DescsCounted /\ CacheInv
  BY DEF TableInv, UsersCounted, DescsCounted, CacheInv, SlotsCounted
<1>2. TypeOK /\ ForkInv /\ DescsCounted /\ CacheInv => UsersCounted
  BY UsersHold
<1> QED BY <1>1, <1>2 DEF TableInv, CacheInv

\* root_inode is in use.
LEMMA RootBusy ==
  ASSUME TableInv, halted # "init"
  PROVE  inode_table[0].cnt > 0
<1>1. inode_table[0].cnt >= Cardinality(UsersOf(0)) + 1 /\ inode_table[0].cnt \in Int
  BY Parts, Sizes DEF CacheInv, SlotsCounted, TypeOK
<1>2. Cardinality(UsersOf(0)) \in Nat
  BY Parts, HoldersAlive
<1> QED BY <1>1, <1>2

\* A path leads to the root or to a file in use, or nowhere.
LEMMA LookupFinds ==
  ASSUME TableInv, halted = "no", NEW path, Lookup(path) # 0
  PROVE  /\ Lookup(path) \in imap /\ Lookup(path) \in Nums
         /\ inodes[Lookup(path)].mode # "none"
<1> DEFINE name == strip_path(path)
           padded == Named(NoName, name)
           found == {i \in 1 .. SearchEnd : i <= MaxDir /\ SameMemory(padded, dir[i].name, MAX_FILENAME_LEN)}
<1>1. Lookup(path) = IF name = Refused THEN 0
                     ELSE IF name = <<>> THEN ROOT_INODE
                     ELSE IF found = {} THEN 0 ELSE dir[FirstOf(found)].inode_nr
  BY DEF Lookup
<1>2. SearchEnd \in Nat /\ MaxDir \in Nat
  BY FsAssumption DEF TableInv, TypeOK, SearchEnd
<1>3. found \subseteq 1 .. MaxDir /\ found \subseteq Nat
  BY <1>2
<1> HIDE DEF name, padded, found
<1>4. Lookup(path) \in imap
  <2>1. CASE Lookup(path) = ROOT_INODE
    BY <2>1 DEF TableInv, RootKept
  <2>2. CASE found # {} /\ Lookup(path) = dir[FirstOf(found)].inode_nr
    <3>1. FirstOf(found) \in 1 .. MaxDir
      BY <2>2, <1>3, FirstOfSet
    <3> QED BY <3>1, <2>2 DEF TableInv, EntriesInv
  <2> QED BY <2>1, <2>2, <1>1
<1> QED BY <1>4 DEF TableInv, TypeOK, MapInv

\* What a step keeps that leaves the descriptors of the processes alone.
LEMMA DescsKept ==
  ASSUME ForkInv, DescsCounted, UNCHANGED <<alive, forking, filp, f_desc_table>>
  PROVE  /\ ForkInv' /\ DescsCounted'
         /\ \A t : UsersOf(t)' = UsersOf(t)
<1>1. ForkInv'
  BY DEF ForkInv
<1>2. Holders' = Holders
  BY DEF Holders
<1>3. \A t : HoldersOf(t)' = HoldersOf(t) /\ UsersOf(t)' = UsersOf(t)
  BY <1>2 DEF HoldersOf, UsersOf
<1> QED BY <1>1, <1>3 DEF DescsCounted

\* A step that leaves the tables alone and may stop FS.
LEMMA TablesKept ==
  ASSUME TableInv, halted = "no", halted' # "init", halted' # "flg",
         UNCHANGED <<alive, forking, filp, f_desc_table, inode_table, super_block, inodes, dir, dir_n>>,
         log' \in BOOLEAN,
         imap' = imap \/ halted' # "no", imap \subseteq imap', imap' \subseteq Nums
  PROVE  TableInv'
<1>1. /\ TypeOK /\ ForkInv /\ DescsCounted /\ CacheInv /\ RootKept /\ EntriesInv /\ MapInv /\ SuperInv
  BY Parts
<1>2. ForkInv' /\ DescsCounted' /\ \A t : UsersOf(t)' = UsersOf(t)
  BY <1>1, DescsKept
<1>3. TypeOK'
  BY <1>1 DEF TypeOK
<1>4. CacheInv'
  BY <1>1, <1>2 DEF CacheInv, SlotsCounted, CacheCoherent, SlotsInUse
<1>5. RootKept' /\ EntriesInv'
  BY <1>1 DEF RootKept, EntriesInv
<1>6. MapInv'
  BY <1>1 DEF MapInv
<1>7. SuperInv'
  BY <1>1 DEF SuperInv, get_super_block
<1>8. UsersCounted'
  BY <1>1, <1>2 DEF TableInv, UsersCounted, DescsCounted, CacheInv, SlotsCounted
<1> QED BY <1>2, <1>3, <1>4, <1>5, <1>6, <1>7, <1>8 DEF TableInv, CacheInv

\* The same in the next state.
LEMMA PartsNext ==
  TableInv' <=> /\ TypeOK' /\ ForkInv' /\ DescsCounted' /\ CacheInv'
                /\ RootKept' /\ EntriesInv' /\ MapInv' /\ SuperInv'
                /\ (halted = "init" => Init)'
BY Parts, PTL

-----------------------------------------------------------------------------
(* The steps of FS that leave the disk alone.                              *)

\* open() of a file in use: its inode is got, and a descriptor leads there.
LEMMA OpenExistingKeeps ==
  ASSUME TableInv, NEW p, NEW path, OpenExisting(p, path)
  PROVE  TableInv'
<1>1. /\ TypeOK /\ ForkInv /\ DescsCounted /\ CacheInv /\ RootKept /\ EntriesInv /\ MapInv /\ SuperInv
  BY Parts
<1>2. PICK n : n = Lookup(path)
  OBVIOUS
<1>3. /\ halted = "no" /\ p \in alive /\ forking.parent # p /\ n # 0
      /\ FreeFds(p) # {} /\ FreeDescs # {}
  BY <1>2 DEF OpenExisting, MayCall
<1>4. n \in Nums /\ inodes[n].mode # "none"
  BY <1>2, <1>3, LookupFinds
<1>5. CASE Halt("table full")
  BY <1>1, <1>3, <1>5, TablesKept DEF Halt, fixed, disk, TypeOK
<1>6. CASE ~TableFull(n) /\ Connect(p, SlotOf(n)) /\ inode_table' = Got(n)
           /\ UNCHANGED <<fixed, disk, halted>>
  <2>1. SlotOf(n) \in Slots
    BY <1>1, <1>4, <1>6, Slot
  <2>2. UNCHANGED <<alive, forking>> /\ UNCHANGED <<super_block, inodes, imap, dir, dir_n, log, halted>>
    BY <1>6 DEF fixed, disk
  <2>3. /\ ForkInv' /\ DescsCounted'
        /\ \A t \in Slots : Cardinality(UsersOf(t)') =
             Cardinality(UsersOf(t)) + IF t = SlotOf(n) THEN 1 ELSE 0
        /\ filp' \in [Procs -> [Fds -> Descs \union {NONE}]]
        /\ f_desc_table' \in [Descs -> [inode : Slots \union {NONE}, cnt : Int]]
    BY <1>1, <1>3, <1>6, <2>1, <2>2, Connected
  <2>4. \A t \in Slots : /\ Cardinality(UsersOf(t)) \in Nat
                         /\ Cardinality(UsersOf(t)') \in Nat
                         /\ Cardinality(UsersOf(t)') <=
                              Cardinality(UsersOf(t)) + IF t = SlotOf(n) THEN 1 ELSE 0
    <3>1. \A t \in Slots : Cardinality(UsersOf(t)) \in Nat
      BY <1>1, HoldersAlive
    <3> QED BY <3>1, <2>3
  <2>5. /\ inode_table' \in [Slots -> [num : Nat, cnt : Int, inode : Inodes]]
        /\ CacheInv'
        /\ inode_table[0].cnt > 0 => inode_table'[0].num = inode_table[0].num
    <3>1. halted # "init" /\ UNCHANGED inodes
      BY <1>3, <2>2
    <3> QED BY <1>1, <1>4, <1>6, <2>4, <3>1, GotKeeps
  <2>6. TypeOK'
    BY <1>1, <2>2, <2>3, <2>5 DEF TypeOK
  <2>7. inode_table[0].cnt > 0
    BY <1>3, RootBusy
  <2>8. RootKept' /\ EntriesInv' /\ MapInv' /\ SuperInv'
    BY <1>1, <1>3, <2>2, <2>5, <2>7 DEF RootKept, EntriesInv, MapInv, SuperInv, get_super_block
  <2> QED BY <1>3, <2>2, <2>3, <2>5, <2>6, <2>8, PartsNext
<1> QED BY <1>2, <1>5, <1>6 DEF OpenExisting

\* What a step keeps that leaves the disk and the inodes in the slots alone.
LEMMA CountsStep ==
  ASSUME TableInv, halted = "no", UNCHANGED <<super_block, inodes, imap, dir, dir_n, log, halted>>,
         ForkInv', DescsCounted', CacheInv',
         filp' \in [Procs -> [Fds -> Descs \union {NONE}]],
         f_desc_table' \in [Descs -> [inode : Slots \union {NONE}, cnt : Int]],
         inode_table' \in [Slots -> [num : Nat, cnt : Int, inode : Inodes]],
         inode_table'[0].num = inode_table[0].num
  PROVE  TableInv'
<1>1. /\ TypeOK /\ RootKept /\ EntriesInv /\ MapInv /\ SuperInv
  BY Parts
<1>2. TypeOK'
  BY <1>1 DEF TypeOK
<1>3. RootKept' /\ EntriesInv' /\ MapInv' /\ SuperInv'
  BY <1>1 DEF RootKept, EntriesInv, MapInv, SuperInv, get_super_block
<1> QED BY <1>2, <1>3, PartsNext

\* close(): the slot loses a user and one of its i_cnt.
LEMMA CloseKeeps ==
  ASSUME TableInv, NEW p, NEW f \in Fds, Close(p, f)
  PROVE  TableInv'
<1>1. /\ TypeOK /\ ForkInv /\ DescsCounted /\ CacheInv
  BY Parts
<1>2. PICK s : s = f_desc_table[filp[p][f]].inode
  OBVIOUS
<1>3. /\ halted = "no" /\ p \in alive /\ forking.parent # p
      /\ filp[p][f] # NONE
      /\ inode_table' = [inode_table EXCEPT ![s].cnt = @ - 1]
      /\ f_desc_table' = [f_desc_table EXCEPT ![filp[p][f]] = Dropped(@, 1)]
      /\ filp' = [filp EXCEPT ![p][f] = NONE]
      /\ UNCHANGED <<alive, forking>> /\ UNCHANGED <<super_block, inodes, imap, dir, dir_n, log, halted>>
  BY <1>2 DEF Close, MayCall, put_inode, fixed, disk
<1>4. /\ ForkInv' /\ DescsCounted' /\ s \in Slots
      /\ \A t \in Slots : Cardinality(UsersOf(t)') =
           Cardinality(UsersOf(t)) - IF t = s THEN 1 ELSE 0
      /\ filp' \in [Procs -> [Fds -> Descs \union {NONE}]]
      /\ f_desc_table' \in [Descs -> [inode : Slots \union {NONE}, cnt : Int]]
  BY <1>1, <1>2, <1>3, Closed, ZenonT(30)
<1>5. /\ DOMAIN inode_table' = Slots /\ inode_table' = [t \in Slots |-> inode_table'[t]]
      /\ \A t \in Slots :
           /\ inode_table'[t] \in [num : Nat, cnt : Int, inode : Inodes]
           /\ inode_table'[t].num = inode_table[t].num
           /\ inode_table'[t].inode = inode_table[t].inode
           /\ inode_table'[t].cnt = inode_table[t].cnt - IF t = s THEN 1 ELSE 0
           /\ inode_table[t].cnt \in Int
  <2>1. \A t \in Slots : inode_table[t] \in [num : Nat, cnt : Int, inode : Inodes]
    BY <1>1 DEF TypeOK
  <2>2. /\ DOMAIN inode_table' = Slots /\ inode_table' = [t \in Slots |-> inode_table'[t]]
        /\ \A t \in Slots : inode_table'[t] =
             IF t = s THEN [inode_table[s] EXCEPT !.cnt = @ - 1] ELSE inode_table[t]
    BY <1>1, <1>3, <1>4 DEF TypeOK
  <2> QED BY <2>1, <2>2
<1>6. \A t \in Slots : Cardinality(UsersOf(t)) \in Nat
  BY <1>1, HoldersAlive
<1>7. \A t \in Slots :
        /\ inode_table'[t].cnt > 0 => inode_table[t].cnt > 0
        /\ Cardinality(UsersOf(t)') = Cardinality(UsersOf(t)) + (inode_table'[t].cnt - inode_table[t].cnt)
  BY <1>4, <1>5, <1>6
<1>8. /\ inode_table' \in [Slots -> [num : Nat, cnt : Int, inode : Inodes]]
      /\ CacheInv' /\ inode_table'[0].num = inode_table[0].num
  BY <1>1, <1>3, <1>5, <1>6, <1>7, CountsKeep
<1> QED BY <1>3, <1>4, <1>8, CountsStep

\* MM copies the descriptors, which FS has not counted yet.
LEMMA ForkCopyKeeps ==
  ASSUME TableInv, NEW p \in Procs, NEW c \in Procs, ForkCopy(p, c)
  PROVE  TableInv'
<1>1. /\ TypeOK /\ ForkInv /\ DescsCounted /\ CacheInv
  BY Parts
<1>2. /\ halted = "no" /\ p \in alive /\ forking = NoFork /\ c \notin alive
      /\ filp' = [filp EXCEPT ![c] = filp[p]]
      /\ forking' = [parent |-> p, child |-> c]
      /\ UNCHANGED <<alive, super_block, f_desc_table, inode_table, inodes, imap, dir, dir_n, log, halted>>
  BY DEF ForkCopy, MayCall, disk
<1>3. /\ filp' \in [Procs -> [Fds -> Descs \union {NONE}]]
      /\ filp'[c] = filp[p]
      /\ \A q \in Procs : q # c => filp'[q] = filp[q]
  BY <1>1, <1>2 DEF TypeOK
<1>4. ForkInv'
  <2>1. p # c
    BY <1>2
  <2>2. \A q \in Procs \ alive' : q # forking'.child => \A f \in Fds : filp'[q][f] = NONE
    BY <1>1, <1>2, <1>3, NilNobody DEF ForkInv, NoFork
  <2> QED BY <2>1, <2>2, <1>1, <1>2, <1>3 DEF ForkInv
<1>5. Holders' = {h \in alive \X Fds : filp'[h[1]][h[2]] # NONE}
  <2>1. forking'.child = c /\ alive' = alive
    BY <1>2
  <2>2. \A q \in Procs \ alive : q # c => \A f \in Fds : filp'[q][f] = NONE
    BY <2>1, <1>4 DEF ForkInv
  <2> QED BY <2>1, <2>2, <1>1, <1>2 DEF Holders, ForkInv
<1>6. Holders = {h \in alive \X Fds : filp[h[1]][h[2]] # NONE}
  BY <1>1, HoldersAlive
<1>7. Holders' = Holders /\ \A h \in Holders : filp'[h[1]][h[2]] = filp[h[1]][h[2]]
  <2>1. alive \subseteq Procs
    BY <1>1 DEF ForkInv
  <2>2. \A h \in alive \X Fds : filp'[h[1]] = filp[h[1]]
    BY <2>1, <1>2, <1>3
  <2> QED BY <2>2, <1>5, <1>6
<1>8. \A t : HoldersOf(t)' = HoldersOf(t) /\ UsersOf(t)' = UsersOf(t)
  BY <1>2, <1>7 DEF HoldersOf, UsersOf
<1>9. DescsCounted'
  BY <1>1, <1>2, <1>8 DEF DescsCounted
<1>10. CacheInv'
  BY <1>1, <1>2, <1>8 DEF CacheInv, SlotsCounted, CacheCoherent, SlotsInUse
<1>11. /\ f_desc_table' \in [Descs -> [inode : Slots \union {NONE}, cnt : Int]]
       /\ inode_table' \in [Slots -> [num : Nat, cnt : Int, inode : Inodes]]
       /\ inode_table'[0].num = inode_table[0].num
  BY <1>1, <1>2 DEF TypeOK
<1> QED BY <1>2, <1>3, <1>4, <1>9, <1>10, <1>11, CountsStep

\* fs_fork: the slots gain the users the child has, which its parent had.
LEMMA FsForkKeeps ==
  ASSUME TableInv, FsFork
  PROVE  TableInv'
<1>1. /\ TypeOK /\ ForkInv /\ DescsCounted /\ CacheInv
  BY Parts
<1>2. PICK c : c = forking.child
  OBVIOUS
<1>3. /\ halted = "no" /\ forking # NoFork
      /\ f_desc_table' = [d \in Descs |->
           [f_desc_table[d] EXCEPT !.cnt = @ + Uses(forking.child, d)]]
      /\ inode_table' = ForkCount(c)
      /\ alive' = alive \union {forking.child} /\ forking' = NoFork /\ UNCHANGED filp
      /\ UNCHANGED <<super_block, inodes, imap, dir, dir_n, log, halted>>
  BY <1>2 DEF FsFork, disk
<1>4. /\ ForkInv' /\ DescsCounted'
      /\ \A t \in Slots : Cardinality(UsersOf(t)') = Cardinality(UsersOf(t)) + UsesOf(c, t)
      /\ filp' \in [Procs -> [Fds -> Descs \union {NONE}]]
      /\ f_desc_table' \in [Descs -> [inode : Slots \union {NONE}, cnt : Int]]
  <2>1. /\ ForkInv' /\ DescsCounted'
        /\ \A t \in Slots : Cardinality(UsersOf(t)') = Cardinality(UsersOf(t)) + UsesOf(forking.child, t)
        /\ f_desc_table' \in [Descs -> [inode : Slots \union {NONE}, cnt : Int]]
    BY <1>1, <1>3, Forked
  <2> QED BY <2>1, <1>1, <1>2, <1>3 DEF TypeOK
<1>5. \A t \in Slots : UsesOf(c, t) \in Nat /\ Cardinality(UsersOf(t)) \in Nat
  BY <1>1, UsesFinite, HoldersAlive
<1>6. /\ DOMAIN inode_table' = Slots /\ inode_table' = [t \in Slots |-> inode_table'[t]]
      /\ \A t \in Slots :
           /\ inode_table'[t] \in [num : Nat, cnt : Int, inode : Inodes]
           /\ inode_table'[t].num = inode_table[t].num
           /\ inode_table'[t].inode = inode_table[t].inode
           /\ inode_table'[t].cnt = inode_table[t].cnt + UsesOf(c, t)
           /\ inode_table[t].cnt \in Int
  <2>1. \A t \in Slots : inode_table[t] \in [num : Nat, cnt : Int, inode : Inodes]
    BY <1>1 DEF TypeOK
  <2>2. inode_table' = [t \in Slots |-> [inode_table[t] EXCEPT !.cnt = @ + UsesOf(c, t)]]
    BY <1>3 DEF ForkCount
  <2> QED BY <2>1, <2>2, <1>5
<1>7. ASSUME NEW t \in Slots, inode_table'[t].cnt > 0
      PROVE  inode_table[t].cnt > 0
  <2> DEFINE F == {f \in Fds : filp[c][f] # NONE /\ f_desc_table[filp[c][f]].inode = t}
  <2>1. CASE F = {}
    <3>1. UsesOf(c, t) = 0
      BY <2>1, FS_EmptySet DEF UsesOf
    <3> QED BY <3>1, <1>6, <1>7
  <2>2. ASSUME NEW f \in F PROVE inode_table[t].cnt > 0
    <3>1. /\ forking.parent \in alive /\ filp[c] = filp[forking.parent]
      BY <1>1, <1>2, <1>3 DEF ForkInv
    <3>2. <<forking.parent, f>> \in UsersOf(t)
      BY <3>1, <1>1, HoldersAlive DEF UsersOf
    <3>3. Cardinality(UsersOf(t)) \in Nat /\ Cardinality(UsersOf(t)) # 0
      BY <3>2, <1>1, HoldersAlive, FS_EmptySet
    <3>4. inode_table[t].cnt >= Cardinality(UsersOf(t)) + IF t = 0 /\ halted # "init" THEN 1 ELSE 0
      BY <1>1 DEF CacheInv, SlotsCounted
    <3> QED BY <3>3, <3>4, <1>6
  <2> QED BY <2>1, <2>2
<1>8. \A t \in Slots : Cardinality(UsersOf(t)') =
        Cardinality(UsersOf(t)) + (inode_table'[t].cnt - inode_table[t].cnt)
  BY <1>4, <1>5, <1>6
<1>9. /\ inode_table' \in [Slots -> [num : Nat, cnt : Int, inode : Inodes]]
      /\ CacheInv' /\ inode_table'[0].num = inode_table[0].num
  BY <1>1, <1>3, <1>5, <1>6, <1>7, <1>8, CountsKeep
<1> QED BY <1>3, <1>4, <1>9, CountsStep

\* fs_exit: the slots lose the users the process has.
LEMMA FsExitKeeps ==
  ASSUME TableInv, NEW p, FsExit(p)
  PROVE  TableInv'
<1>1. /\ TypeOK /\ ForkInv /\ DescsCounted /\ CacheInv
  BY Parts
<1>2. /\ halted = "no" /\ p \in alive /\ forking = NoFork
      /\ inode_table' = [s \in Slots |-> [inode_table[s] EXCEPT !.cnt = @ - UsesOf(p, s)]]
      /\ f_desc_table' = [d \in Descs |-> Dropped(f_desc_table[d], Uses(p, d))]
      /\ filp' = [filp EXCEPT ![p] = [f \in Fds |-> NONE]]
      /\ alive' = alive \ {p} /\ UNCHANGED forking
      /\ UNCHANGED <<super_block, inodes, imap, dir, dir_n, log, halted>>
  BY DEF FsExit, MayCall, disk
<1>3. /\ ForkInv' /\ DescsCounted'
      /\ \A t \in Slots : Cardinality(UsersOf(t)') = Cardinality(UsersOf(t)) - UsesOf(p, t)
      /\ filp' \in [Procs -> [Fds -> Descs \union {NONE}]]
      /\ f_desc_table' \in [Descs -> [inode : Slots \union {NONE}, cnt : Int]]
  BY <1>1, <1>2, Exited
<1>4. \A t \in Slots : UsesOf(p, t) \in Nat /\ Cardinality(UsersOf(t)) \in Nat
  BY <1>1, UsesFinite, HoldersAlive
<1>5. /\ DOMAIN inode_table' = Slots /\ inode_table' = [t \in Slots |-> inode_table'[t]]
      /\ \A t \in Slots :
           /\ inode_table'[t] \in [num : Nat, cnt : Int, inode : Inodes]
           /\ inode_table'[t].num = inode_table[t].num
           /\ inode_table'[t].inode = inode_table[t].inode
           /\ inode_table'[t].cnt = inode_table[t].cnt - UsesOf(p, t)
           /\ inode_table[t].cnt \in Int
  <2>1. \A t \in Slots : inode_table[t] \in [num : Nat, cnt : Int, inode : Inodes]
    BY <1>1 DEF TypeOK
  <2> QED BY <2>1, <1>2, <1>4
<1>6. \A t \in Slots :
        /\ inode_table'[t].cnt > 0 => inode_table[t].cnt > 0
        /\ Cardinality(UsersOf(t)') = Cardinality(UsersOf(t)) + (inode_table'[t].cnt - inode_table[t].cnt)
  BY <1>3, <1>4, <1>5
<1>7. /\ inode_table' \in [Slots -> [num : Nat, cnt : Int, inode : Inodes]]
      /\ CacheInv' /\ inode_table'[0].num = inode_table[0].num
  BY <1>1, <1>2, <1>4, <1>5, <1>6, CountsKeep
<1> QED BY <1>2, <1>3, <1>7, CountsStep

\* unlink() of what is open or no file: the inode got is not put back.
LEMMA UnlinkRefusedKeeps ==
  ASSUME TableInv, NEW p, NEW path, UnlinkRefused(p, path)
  PROVE  TableInv'
<1>1. /\ TypeOK /\ ForkInv /\ DescsCounted /\ CacheInv /\ RootKept /\ EntriesInv /\ MapInv /\ SuperInv
  BY Parts
<1>2. PICK n : n = Lookup(path)
  OBVIOUS
<1>3. /\ halted = "no" /\ n # 0 /\ ~TableFull(n) /\ inode_table' = Got(n)
      /\ halted' \in {"no", "log"} /\ log' \in BOOLEAN
      /\ UNCHANGED <<alive, forking, filp, f_desc_table, super_block, inodes, imap, dir, dir_n>>
  BY <1>1, <1>2 DEF UnlinkRefused, MayCall, LogUnlink, fixed, TypeOK
<1>4. n \in Nums /\ inodes[n].mode # "none"
  BY <1>2, <1>3, LookupFinds
<1>5. ForkInv' /\ DescsCounted' /\ \A t : UsersOf(t)' = UsersOf(t)
  BY <1>1, <1>3, DescsKept
<1>6. \A t \in Slots : /\ Cardinality(UsersOf(t)) \in Nat
                       /\ Cardinality(UsersOf(t)') \in Nat
                       /\ Cardinality(UsersOf(t)') <=
                            Cardinality(UsersOf(t)) + IF t = SlotOf(n) THEN 1 ELSE 0
  <2>1. \A t \in Slots : Cardinality(UsersOf(t)) \in Nat
    BY <1>1, HoldersAlive
  <2> QED BY <2>1, <1>5
<1>7. /\ inode_table' \in [Slots -> [num : Nat, cnt : Int, inode : Inodes]]
      /\ CacheInv'
      /\ inode_table[0].cnt > 0 => inode_table'[0].num = inode_table[0].num
  <2>1. halted # "init" /\ UNCHANGED inodes
    BY <1>3
  <2> QED BY <1>1, <1>3, <1>4, <1>6, <2>1, GotKeeps
<1>8. TypeOK'
  BY <1>1, <1>3, <1>7 DEF TypeOK
<1>9. inode_table[0].cnt > 0
  BY <1>3, RootBusy
<1>10. RootKept' /\ EntriesInv' /\ MapInv' /\ SuperInv'
  BY <1>1, <1>3, <1>7, <1>9 DEF RootKept, EntriesInv, MapInv, SuperInv, get_super_block
<1> QED BY <1>3, <1>5, <1>7, <1>8, <1>10, PartsNext

-----------------------------------------------------------------------------
(* The steps that change the disk.                                         *)

\* The entries in use before one are fewer than its number.
LEMMA ShrunkSize ==
  ASSUME NEW i \in Nat \ {0}
  PROVE  Shrunk(i) \in 0 .. i - 1
<1> DEFINE S == {j \in 1 .. i - 1 : dir[j].inode_nr # 0}
<1>1. IsFiniteSet(1 .. i - 1) /\ Cardinality(1 .. i - 1) = i - 1
  BY FS_Interval
<1>2. IsFiniteSet(S) /\ Cardinality(S) <= i - 1 /\ Cardinality(S) \in Nat
  BY <1>1, FS_Subset, FS_CardinalityType
<1> QED BY <1>2 DEF Shrunk

\* do_unlink: the inode is in no other slot and the entry in no other place.
LEMMA UnlinkKeeps ==
  ASSUME TableInv, NEW p, NEW path, Unlink(p, path)
  PROVE  TableInv'
<1>1. /\ TypeOK /\ ForkInv /\ DescsCounted /\ CacheInv /\ RootKept /\ EntriesInv /\ MapInv /\ SuperInv
  BY Parts
<1>2. PICK n : n = Lookup(path)
  OBVIOUS
<1>3. PICK s : s = SlotOf(n)
  OBVIOUS
<1>4. PICK at : at = FirstOf(Place(n))
  OBVIOUS
<1>5. /\ halted = "no" /\ n # 0 /\ ~TableFull(n)
      /\ Pin(n).inode.mode = "REG" /\ ~(Pin(n).cnt > 1)
      /\ imap' = imap \ {n}
      /\ inodes' = [inodes EXCEPT ![n] = NoInode]
      /\ inode_table' = [inode_table EXCEPT ![s] = [num |-> n, cnt |-> 0, inode |-> NoInode]]
      /\ \/ /\ Place(n) # {}
            /\ dir' = [dir EXCEPT ![at] = NoEntry]
            /\ dir_n' = IF at = dir_n THEN Shrunk(at) ELSE dir_n
            /\ LogUnlink(Freed(n))
         \/ /\ Place(n) = {}
            /\ halted' = "flg" /\ smap' = Freed(n)
            /\ UNCHANGED <<dir, dir_n, log>>
      /\ UNCHANGED <<alive, forking, filp, f_desc_table, super_block>>
  BY <1>2, <1>3, <1>4 DEF Unlink, MayCall, Busy, fixed, WithoutEntry
<1>6. n \in Nums /\ n \in imap
  BY <1>2, <1>5, LookupFinds
<1>7. /\ s \in Slots /\ inode_table[s].cnt = 0 /\ inodes[n].mode = "REG"
      /\ \A t \in Slots : inode_table[t].cnt > 0 => inode_table[t].num # n
  <2>1. /\ s \in Slots /\ inode_table[s].cnt \in Nat
        /\ Pin(n) = [num |-> n, cnt |-> inode_table[s].cnt + 1, inode |-> inodes[n]]
        /\ \A t \in Slots : inode_table[t].cnt > 0 /\ inode_table[t].num = n => t = s
    BY <1>1, <1>3, <1>5, <1>6, Slot
  <2>2. Pin(n).cnt = inode_table[s].cnt + 1 /\ Pin(n).inode = inodes[n]
    BY <2>1
  <2>3. inode_table[s].cnt = 0
    BY <2>1, <2>2, <1>5
  <2> QED BY <2>1, <2>2, <2>3, <1>5
<1>8. /\ halted' \in {"no", "log", "flg"} /\ log' \in BOOLEAN
      /\ halted' # "flg" \/ Place(n) = {}
  BY <1>1, <1>5 DEF LogUnlink, TypeOK
<1>9. ForkInv' /\ DescsCounted' /\ \A t : UsersOf(t)' = UsersOf(t)
  BY <1>1, <1>5, DescsKept
<1>10. /\ NoInode \in Inodes /\ NoInode.mode = "none"
       /\ inodes' \in [Nums -> Inodes] /\ inodes'[n] = NoInode
       /\ \A m \in Nums : m # n => inodes'[m] = inodes[m]
  <2>1. NoInode \in Inodes /\ NoInode.mode = "none"
    BY DEF NoInode, DiskInode, Inodes
  <2> QED BY <2>1, <1>1, <1>5, <1>6 DEF TypeOK
<1>11. /\ inode_table' \in [Slots -> [num : Nat, cnt : Int, inode : Inodes]]
       /\ inode_table'[s].cnt = 0
       /\ \A t \in Slots : t # s => inode_table'[t] = inode_table[t]
  <2>1. [num |-> n, cnt |-> 0, inode |-> NoInode] \in [num : Nat, cnt : Int, inode : Inodes]
    BY <1>6, <1>10, Sizes
  <2> QED BY <2>1, <1>1, <1>5, <1>7 DEF TypeOK
<1>12. CacheInv'
  <2>1. SlotsCounted'
    <3> SUFFICES ASSUME NEW t \in Slots
                 PROVE  inode_table'[t].cnt >= Cardinality(UsersOf(t)') + IF t = 0 /\ halted' # "init" THEN 1 ELSE 0
      BY DEF SlotsCounted
    <3>1. inode_table[t].cnt >= Cardinality(UsersOf(t)) + IF t = 0 /\ halted # "init" THEN 1 ELSE 0
      BY <1>1 DEF CacheInv, SlotsCounted
    <3>2. inode_table'[t].cnt = inode_table[t].cnt
      BY <1>7, <1>11
    <3> QED BY <3>1, <3>2, <1>5, <1>8, <1>9
  <2>2. CacheCoherent'
    <3>1. \A t \in Slots : inode_table'[t].cnt > 0 =>
            t # s /\ inode_table'[t] = inode_table[t] /\ inode_table[t].cnt > 0
            /\ inode_table[t].num \in Nums /\ inode_table[t].num # n
      BY <1>1, <1>7, <1>11 DEF CacheInv, SlotsInUse
    <3> QED BY <3>1, <1>1, <1>10 DEF CacheInv, CacheCoherent
  <2>3. SlotsInUse'
    BY <1>1, <1>7, <1>10, <1>11 DEF CacheInv, SlotsInUse
  <2> QED BY <2>1, <2>2, <2>3 DEF CacheInv
<1>13. /\ n # ROOT_INODE /\ inode_table[0].cnt > 0
  <2>1. RootInode.mode = "DIR"
    BY DEF RootInode, DiskInode
  <2>2. inode_table[0].cnt > 0
    BY <1>5, RootBusy
  <2> QED BY <2>1, <2>2, <1>1, <1>5, <1>7 DEF RootKept
<1>14. RootKept'
  <2>1. s # 0 /\ ROOT_INODE \in Nums
    BY <1>1, <1>5, <1>7, <1>13, Sizes DEF ROOT_INODE
  <2> QED BY <2>1, <1>1, <1>5, <1>10, <1>11, <1>13, Sizes DEF RootKept
<1>15. MapInv'
  <2>1. inodes[n].mode # "none"
    BY <1>7
  <2> QED BY <2>1, <1>1, <1>5, <1>10 DEF MapInv
<1>16. SuperInv'
  BY <1>1, <1>5 DEF SuperInv, get_super_block
<1>17. CASE Place(n) # {}
  <2>1. Place(n) \subseteq Nat
    BY <1>1 DEF Place, TypeOK
  <2>2. at \in Place(n)
    BY <2>1, <1>4, <1>17, FirstOfSet
  <2>3. at \in 1 .. dir_n /\ dir[at].inode_nr = n /\ at \in 1 .. MaxDir
    BY <2>2, <1>1, FsAssumption DEF Place, TypeOK
  <2>4. /\ dir' = [dir EXCEPT ![at] = NoEntry]
        /\ dir_n' = IF at = dir_n THEN Shrunk(at) ELSE dir_n
    BY <1>5, <1>17
  <2>5. dir_n' \in 0 .. dir_n
    BY <2>3, <2>4, <1>1, ShrunkSize DEF TypeOK
  <2>6. /\ dir' = [i \in 1 .. MaxDir |-> Entry(dir'[i].inode_nr, dir'[i].name)]
        /\ dir'[at].inode_nr = 0
        /\ \A i \in 1 .. MaxDir : i # at => dir'[i].inode_nr = dir[i].inode_nr
    <3>1. NoEntry = Entry(NoEntry.inode_nr, NoEntry.name) /\ NoEntry.inode_nr = 0
      BY DEF NoEntry, Entry
    <3>2. \A i \in 1 .. MaxDir : dir[i] = Entry(dir[i].inode_nr, dir[i].name)
      BY <1>1 DEF TypeOK
    <3>3. DOMAIN dir = 1 .. MaxDir
      BY <1>1 DEF TypeOK
    <3> HIDE DEF NoEntry
    <3>4. /\ DOMAIN dir' = 1 .. MaxDir /\ dir' = [i \in 1 .. MaxDir |-> dir'[i]]
          /\ \A i \in 1 .. MaxDir : dir'[i] = IF i = at THEN NoEntry ELSE dir[i]
      BY <3>3, <2>3, <2>4
    <3>5. \A i \in 1 .. MaxDir : dir'[i] = Entry(dir'[i].inode_nr, dir'[i].name)
      BY <3>1, <3>2, <3>4
    <3> QED BY <3>1, <3>4, <3>5, <2>3
  <2>7. EntriesInv'
    <3>1. \A i \in 1 .. MaxDir : dir[i].inode_nr \in imap \union {0}
      BY <1>1, <1>5 DEF EntriesInv
    <3>2. \A i \in 1 .. MaxDir : i # at => dir[i].inode_nr # n
      BY <1>1, <1>5, <2>3 DEF EntriesInv
    <3> QED BY <3>1, <3>2, <2>6, <1>1, <1>5 DEF EntriesInv
  <2>8. TypeOK'
    <3>1. dir_n' \in 0 .. MaxDir
      BY <1>1, <2>5, DirSize DEF TypeOK
    <3>2. imap' \subseteq Nums
      BY <1>1, <1>5 DEF TypeOK
    <3>3. filp' \in [Procs -> [Fds -> Descs \union {NONE}]]
          /\ f_desc_table' \in [Descs -> [inode : Slots \union {NONE}, cnt : Int]]
      BY <1>1, <1>5 DEF TypeOK
    <3> QED BY <3>1, <3>2, <3>3, <1>8, <1>10, <1>11, <2>6 DEF TypeOK
  <2> QED BY <2>7, <2>8, <1>8, <1>9, <1>12, <1>14, <1>15, <1>16, PartsNext
<1>18. CASE Place(n) = {}
  <2>1. UNCHANGED <<dir, dir_n, log>> /\ halted' = "flg"
    BY <1>5, <1>18
  <2>2. EntriesInv'
    <3>1. \A i \in 1 .. dir_n : dir[i].inode_nr # n
      BY <1>18 DEF Place
    <3>2. \A i \in 1 .. MaxDir : dir[i].inode_nr \in imap \union {0}
      BY <1>1, <1>5 DEF EntriesInv
    <3>3. /\ \A i \in 1 .. MaxDir : i <= dir_n => dir[i].inode_nr \in imap' \union {0}
          /\ \A i, j \in 1 .. MaxDir : i # j /\ dir[i].inode_nr # 0 =>
               dir[i].inode_nr # dir[j].inode_nr
      <4>1. \A i, j \in 1 .. MaxDir : i # j /\ dir[i].inode_nr # 0 =>
              dir[i].inode_nr # dir[j].inode_nr
        BY <1>1 DEF EntriesInv
      <4>2. dir_n \in Nat
        BY <1>1, DirSize DEF TypeOK
      <4>3. imap' = imap \ {n}
        BY <1>5
      <4> QED BY <4>1, <4>2, <4>3, <3>1, <3>2, DirSize
    <3> QED BY <3>3, <2>1 DEF EntriesInv
  <2>3. TypeOK'
    BY <1>1, <1>5, <2>1, <1>10, <1>11 DEF TypeOK
  <2> QED BY <2>2, <2>3, <1>8, <1>9, <1>12, <1>14, <1>15, <1>16, PartsNext
<1> QED BY <1>17, <1>18

\* Where create_file puts the entry, and what it does to the others.
LEMMA EntryAdded ==
  ASSUME TableInv, halted = "no", NewPlace <= MaxDir, NEW n, NEW name,
         dir' = WithEntry(n, name), dir_n' = NewSize
  PROVE  /\ dir_n' \in 0 .. MaxDir
         /\ dir' = [j \in 1 .. MaxDir |-> Entry(dir'[j].inode_nr, dir'[j].name)]
         /\ \E i \in 1 .. MaxDir : \A j \in 1 .. MaxDir :
              IF j = i THEN dir'[j].inode_nr = n
              ELSE dir'[j].inode_nr \in {dir[j].inode_nr, 0}
<1>1. PICK i : i = NewPlace
  OBVIOUS
<1>2. dir_n \in 0 .. MaxDir /\ \A j \in 1 .. MaxDir : dir[j] = Entry(dir[j].inode_nr, dir[j].name)
  BY DEF TableInv, TypeOK
<1>3. dir_n \in Nat /\ dir_n <= MaxDir
  BY <1>2, DirSize
<1>4. i \in 1 .. MaxDir /\ dir_n' \in 0 .. MaxDir
  <2>1. CASE FreeEntries # {}
    <3>1. FreeEntries \subseteq Nat /\ FreeEntries \subseteq 1 .. dir_n
      BY <1>3 DEF FreeEntries
    <3>2. i \in FreeEntries
      BY <3>1, <2>1, <1>1, FirstOfSet DEF NewPlace
    <3>3. i \in 1 .. dir_n /\ dir_n' = dir_n
      BY <3>1, <3>2, <2>1 DEF NewSize
    <3> QED BY <3>3, <1>3, DirSize
  <2>2. CASE FreeEntries = {}
    <3>1. i = dir_n + 1 /\ dir_n' = dir_n + 1
      BY <2>2, <1>1 DEF NewPlace, NewSize
    <3>2. i <= MaxDir
      BY <1>1
    <3> QED BY <3>1, <3>2, <1>3, DirSize
  <2> QED BY <2>1, <2>2
<1>5. dir' = [j \in 1 .. MaxDir |->
        IF j = i THEN Entry(n, Named(dir[i].name, name))
        ELSE IF j = i + 1 /\ i % BlockEntries # 0 /\ Len(name) = MAX_FILENAME_LEN
             THEN [dir[j] EXCEPT !.inode_nr = 0] ELSE dir[j]]
  BY <1>1 DEF WithEntry
<1>6. ASSUME NEW j \in 1 .. MaxDir
      PROVE  /\ dir'[j] = Entry(dir'[j].inode_nr, dir'[j].name)
             /\ IF j = i THEN dir'[j].inode_nr = n
                ELSE dir'[j].inode_nr \in {dir[j].inode_nr, 0}
  <2>1. \/ j = i /\ dir'[j] = Entry(n, Named(dir[i].name, name))
        \/ j # i /\ dir'[j] = [dir[j] EXCEPT !.inode_nr = 0]
        \/ j # i /\ dir'[j] = dir[j]
    BY <1>5
  <2>2. dir[j] = Entry(dir[j].inode_nr, dir[j].name)
    BY <1>2
  <2>3. CASE j # i /\ dir'[j] = [dir[j] EXCEPT !.inode_nr = 0]
    <3>1. [dir[j] EXCEPT !.inode_nr = 0] = Entry(0, dir[j].name)
      BY <2>2 DEF Entry
    <3> QED BY <3>1, <2>3 DEF Entry
  <2> QED BY <2>1, <2>2, <2>3 DEF Entry
<1>7. dir' = [j \in 1 .. MaxDir |-> dir'[j]]
  BY <1>5
<1> QED BY <1>4, <1>6, <1>7

\* The sectors of a file that is new, and its inode.
LEMMA NewFile ==
  ASSUME TableInv, halted = "no", RunIsFree
  PROVE  /\ FirstOf(NewRun) = FirstOf(FreeSects) /\ FirstOf(NewRun) \in FreeSects
         /\ FirstOf(NewRun) \in Nat \ {0}
         /\ FirstOf(NewRun) - 1 + get_super_block.n_1st_sect \in Nat
         /\ DiskInode("REG", FirstOf(NewRun) - 1 + get_super_block.n_1st_sect,
                      NR_DEFAULT_FILE_SECTS) \in Inodes
<1>1. FreeSects # {} /\ FreeSects \subseteq Nat \ {0}
  <2>1. get_super_block.nr_smap_sects * BitsPerSect - 1 \in Int
    <3>1. get_super_block = [sb EXCEPT !.sb_dev = ROOT_DEV]
      BY DEF TableInv, SuperInv
    <3>2. get_super_block.nr_smap_sects = sb.nr_smap_sects
      BY <3>1 DEF sb, SuperBlock
    <3>3. sb.nr_smap_sects \in Nat /\ BitsPerSect \in Nat
      BY Sizes, FsAssumption
    <3> QED BY <3>2, <3>3
  <2> QED BY <2>1 DEF RunIsFree, NewRun, FreeSects, Sects
<1>2. PICK b : b = FirstOf(FreeSects)
  OBVIOUS
<1>3. b \in FreeSects /\ b \in Nat \ {0}
  BY <1>1, <1>2, FirstOfSet
<1>4. NR_DEFAULT_FILE_SECTS \in Nat \ {0}
  BY FsAssumption
<1>5. NewRun = b .. b + NR_DEFAULT_FILE_SECTS - 1
  BY <1>1, <1>2 DEF NewRun, Run
<1>6. NewRun \subseteq Nat /\ b \in NewRun /\ \A x \in NewRun : b <= x
  BY <1>3, <1>4, <1>5
<1>7. FirstOf(NewRun) \in NewRun /\ FirstOf(NewRun) <= b
  BY <1>6, FirstOfSet
<1>8. FirstOf(NewRun) = b
  <2>1. FirstOf(NewRun) \in Nat /\ b <= FirstOf(NewRun)
    BY <1>6, <1>7
  <2> QED BY <2>1, <1>3, <1>7
<1>9. get_super_block.n_1st_sect \in Nat
  <2>1. get_super_block = [sb EXCEPT !.sb_dev = ROOT_DEV]
    BY DEF TableInv, SuperInv
  <2>2. get_super_block.n_1st_sect = sb.n_1st_sect
    BY <2>1 DEF sb, SuperBlock
  <2> QED BY <2>2, Sizes
<1>10. b - 1 + get_super_block.n_1st_sect \in Nat
  BY <1>3, <1>9
<1> QED BY <1>2, <1>3, <1>4, <1>8, <1>10 DEF DiskInode, Inodes

\* create_file: the inode is in no slot, its entry in no other place.
LEMMA CreateKeeps ==
  ASSUME TableInv, NEW p, NEW path, Create(p, path)
  PROVE  TableInv'
<1>1. /\ TypeOK /\ ForkInv /\ DescsCounted /\ CacheInv /\ RootKept /\ EntriesInv /\ MapInv /\ SuperInv
  BY Parts
<1>2. PICK n : n = FirstOf(FreeNums)
  OBVIOUS
<1>3. PICK new : new = DiskInode("REG", FirstOf(NewRun) - 1 + get_super_block.n_1st_sect,
                                 NR_DEFAULT_FILE_SECTS)
  OBVIOUS
<1>4. /\ halted = "no" /\ p \in alive /\ forking.parent # p
      /\ FreeFds(p) # {} /\ FreeDescs # {} /\ FreeNums # {} /\ NewPlace <= MaxDir
      /\ imap' = imap \union {n}
      /\ UNCHANGED <<alive, forking, super_block, log>>
      /\ \/ /\ halted' \in {"smap", "table full"}
            /\ UNCHANGED <<inode_table, inodes, dir, dir_n, filp, f_desc_table>>
         \/ /\ RunIsFree /\ ~TableFull(n)
            /\ inode_table' = [inode_table EXCEPT ![SlotOf(n)] =
                                 [num |-> n, cnt |-> 1, inode |-> new]]
            /\ inodes' = [inodes EXCEPT ![n] = new]
            /\ dir' = WithEntry(n, strip_path(path))
            /\ dir_n' = NewSize
            /\ Connect(p, SlotOf(n))
            /\ UNCHANGED halted
  BY <1>2, <1>3 DEF Create, MayCall, fixed
<1>5. n \in Nums /\ n \notin imap
  <2>1. FreeNums \subseteq Nat
    BY Sizes DEF FreeNums
  <2>2. n \in FreeNums
    BY <2>1, <1>2, <1>4, FirstOfSet
  <2> QED BY <2>2 DEF FreeNums
<1>6. imap' \subseteq Nums /\ imap \subseteq imap'
  BY <1>1, <1>4, <1>5 DEF TypeOK
<1>7. CASE /\ halted' \in {"smap", "table full"}
           /\ UNCHANGED <<inode_table, inodes, dir, dir_n, filp, f_desc_table>>
  <2>1. log' \in BOOLEAN
    BY <1>1, <1>4 DEF TypeOK
  <2> QED BY <1>4, <1>6, <1>7, <2>1, TablesKept
<1>8. CASE /\ RunIsFree /\ ~TableFull(n)
           /\ inode_table' = [inode_table EXCEPT ![SlotOf(n)] =
                                [num |-> n, cnt |-> 1, inode |-> new]]
           /\ inodes' = [inodes EXCEPT ![n] = new]
           /\ dir' = WithEntry(n, strip_path(path))
           /\ dir_n' = NewSize
           /\ Connect(p, SlotOf(n))
           /\ UNCHANGED halted
  <2>1. PICK s : s = SlotOf(n)
    OBVIOUS
  <2>2. new \in Inodes /\ new.mode = "REG"
    <3>1. new \in Inodes
      BY <1>3, <1>4, <1>8, NewFile
    <3> QED BY <3>1, <1>3 DEF DiskInode
  <2>3. inodes[n].mode = "none"
    BY <1>1, <1>4, <1>5 DEF MapInv
  <2>4. /\ s \in Slots /\ inode_table[s].cnt = 0
        /\ \A t \in Slots : inode_table[t].cnt > 0 => inode_table[t].num # n
    <3>1. \A t \in Slots : inode_table[t].cnt > 0 => inode_table[t].num # n
      BY <2>3, <1>1 DEF CacheInv, SlotsInUse
    <3>2. s \in Slots /\ inode_table[s].cnt \in Nat /\ (inode_table[s].cnt > 0 => inode_table[s].num = n)
      BY <2>1, <1>1, <1>5, <1>8, Slot
    <3>3. ~(inode_table[s].cnt > 0)
      BY <3>1, <3>2
    <3> QED BY <3>1, <3>2, <3>3
  <2>5. /\ ForkInv' /\ DescsCounted'
        /\ \A t \in Slots : Cardinality(UsersOf(t)') =
             Cardinality(UsersOf(t)) + IF t = s THEN 1 ELSE 0
        /\ filp' \in [Procs -> [Fds -> Descs \union {NONE}]]
        /\ f_desc_table' \in [Descs -> [inode : Slots \union {NONE}, cnt : Int]]
    <3>1. Connect(p, s) /\ UNCHANGED <<alive, forking>>
      BY <2>1, <1>4, <1>8
    <3> QED BY <3>1, <2>4, <1>1, <1>4, Connected
  <2>6. /\ inodes' \in [Nums -> Inodes] /\ inodes'[n] = new
        /\ \A m \in Nums : m # n => inodes'[m] = inodes[m]
    BY <2>2, <1>1, <1>5, <1>8 DEF TypeOK
  <2>7. /\ inode_table' \in [Slots -> [num : Nat, cnt : Int, inode : Inodes]]
        /\ inode_table'[s] = [num |-> n, cnt |-> 1, inode |-> new]
        /\ \A t \in Slots : t # s => inode_table'[t] = inode_table[t]
    <3>1. [num |-> n, cnt |-> 1, inode |-> new] \in [num : Nat, cnt : Int, inode : Inodes]
      BY <2>2, <1>5, Sizes
    <3> QED BY <3>1, <2>1, <2>4, <1>1, <1>8 DEF TypeOK
  <2>8. inode_table'[s].num = n /\ inode_table'[s].cnt = 1 /\ inode_table'[s].inode = new
    BY <2>7
  <2>9. s # 0 /\ inode_table[0].cnt > 0
    <3>1. inode_table[0].cnt > 0
      BY <1>4, RootBusy
    <3> QED BY <3>1, <2>4
  <2>10. SlotsCounted'
    <3> SUFFICES ASSUME NEW t \in Slots
                 PROVE  inode_table'[t].cnt >= Cardinality(UsersOf(t)') + IF t = 0 /\ halted' # "init" THEN 1 ELSE 0
      BY DEF SlotsCounted
    <3>1. inode_table[t].cnt >= Cardinality(UsersOf(t)) + IF t = 0 /\ halted # "init" THEN 1 ELSE 0
      BY <1>1 DEF CacheInv, SlotsCounted
    <3>2. Cardinality(UsersOf(t)) \in Nat
      BY <1>1, HoldersAlive
    <3>3. Cardinality(UsersOf(t)') = Cardinality(UsersOf(t)) + IF t = s THEN 1 ELSE 0
      BY <2>5
    <3>4. CASE t = s
      BY <3>1, <3>2, <3>3, <3>4, <2>4, <2>8, <2>9
    <3>5. CASE t # s
      BY <3>1, <3>2, <3>3, <3>5, <2>7, <1>8
    <3> QED BY <3>4, <3>5
  <2>11. CacheCoherent'
    <3>1. \A t \in Slots : t # s /\ inode_table'[t].cnt > 0 =>
            inode_table'[t] = inode_table[t] /\ inode_table[t].cnt > 0
            /\ inode_table[t].num \in Nums /\ inode_table[t].num # n
      BY <2>4, <2>7, <1>1 DEF CacheInv, SlotsInUse
    <3> QED BY <3>1, <2>4, <2>6, <2>8, <1>1 DEF CacheInv, CacheCoherent
  <2>12. SlotsInUse'
    BY <2>2, <2>4, <2>6, <2>7, <2>8, <1>1, <1>5 DEF CacheInv, SlotsInUse
  <2>13. RootKept'
    <3>1. ROOT_INODE # n /\ ROOT_INODE \in Nums
      BY <1>1, <1>4, <1>5, Sizes DEF RootKept, ROOT_INODE
    <3> QED BY <3>1, <2>6, <2>7, <2>9, <1>1, <1>4, <1>6, Sizes DEF RootKept
  <2>14. MapInv'
    BY <2>2, <2>6, <1>1, <1>4, <1>5 DEF MapInv
  <2>15. SuperInv'
    BY <1>1, <1>4 DEF SuperInv, get_super_block
  <2>16. /\ dir_n' \in 0 .. MaxDir
         /\ dir' = [j \in 1 .. MaxDir |-> Entry(dir'[j].inode_nr, dir'[j].name)]
         /\ \E i \in 1 .. MaxDir : \A j \in 1 .. MaxDir :
              IF j = i THEN dir'[j].inode_nr = n
              ELSE dir'[j].inode_nr \in {dir[j].inode_nr, 0}
    BY <1>4, <1>8, EntryAdded
  <2>17. EntriesInv'
    <3>1. PICK i \in 1 .. MaxDir : \A j \in 1 .. MaxDir :
              IF j = i THEN dir'[j].inode_nr = n
              ELSE dir'[j].inode_nr \in {dir[j].inode_nr, 0}
      BY <2>16
    <3>2. /\ \A j \in 1 .. MaxDir : dir[j].inode_nr \in imap \union {0}
          /\ \A j, k \in 1 .. MaxDir : j # k /\ dir[j].inode_nr # 0 =>
               dir[j].inode_nr # dir[k].inode_nr
      BY <1>1, <1>4 DEF EntriesInv
    <3>3. n # 0
      BY <1>5, Sizes
    <3>4. \A j \in 1 .. MaxDir : dir'[j].inode_nr \in imap' \union {0}
      BY <3>1, <3>2, <1>4
    <3>5. \A j, k \in 1 .. MaxDir : j # k /\ dir'[j].inode_nr # 0 =>
            dir'[j].inode_nr # dir'[k].inode_nr
      BY <3>1, <3>2, <3>3, <1>5
    <3> QED BY <3>4, <3>5 DEF EntriesInv
  <2>18. TypeOK'
    BY <2>5, <2>6, <2>7, <2>16, <1>1, <1>4, <1>6 DEF TypeOK
  <2> QED BY <2>5, <2>10, <2>11, <2>12, <2>13, <2>14, <2>15, <2>17, <2>18, <1>4, <1>8, PartsNext
          DEF CacheInv
<1> QED BY <1>4, <1>7, <1>8

-----------------------------------------------------------------------------
(* The first state and the first step.                                     *)

\* The inodes mkfs() makes.
LEMMA FirstInodesMade ==
  /\ Len(FirstInodes) = Len(Ttys) + 2 /\ Len(FirstNames) = Len(Ttys) + 2
  /\ \A i \in 1 .. Len(Ttys) + 2 : FirstInodes[i] \in Inodes /\ FirstInodes[i].mode # "none"
  /\ FirstInodes[1] = RootInode /\ FirstInodes[Len(Ttys) + 2] = TarInode
  /\ \A i \in 2 .. Len(Ttys) + 1 : FirstInodes[i].nr = 0
  /\ RootInode \in Inodes
  /\ \A i \in 1 .. Len(Ttys) + 2 :
       FirstInodes[i].start >= sb.n_1st_sect /\ (FirstInodes[i].mode = "REG" => FirstInodes[i].nr > 0)
<1>1. Len(Ttys) \in Nat /\ Ttys \in Seq(Seq(STRING))
  BY FsAssumption
<1>2. /\ sb.n_1st_sect \in Nat /\ TtyDev \in Nat /\ NR_DEFAULT_FILE_SECTS \in Nat
      /\ INSTALL_START_SECT \in Nat /\ INSTALL_NR_SECTS \in Nat
  BY Sizes, FsAssumption
<1> DEFINE mid == [i \in 1 .. Len(Ttys) |-> DiskInode("CHR", TtyDev + i - 1, 0)]
<1>3. /\ RootInode \in Inodes /\ RootInode.mode # "none"
      /\ TarInode \in Inodes /\ TarInode.mode # "none"
      /\ \A i \in 1 .. Len(Ttys) : mid[i] \in Inodes /\ mid[i].mode # "none" /\ mid[i].nr = 0
  BY <1>1, <1>2 DEF RootInode, TarInode, DiskInode, Inodes
<1>4. mid \in Seq(Inodes) /\ Len(mid) = Len(Ttys)
  BY <1>1, <1>3
<1>5. FirstInodes = <<RootInode>> \o mid \o <<TarInode>>
  BY DEF FirstInodes
<1> HIDE DEF mid
<1>6. /\ Len(FirstInodes) = Len(Ttys) + 2
      /\ \A i \in 1 .. Len(Ttys) + 2 : FirstInodes[i] =
           IF i = 1 THEN RootInode ELSE IF i = Len(Ttys) + 2 THEN TarInode ELSE mid[i - 1]
  <2> DEFINE front == <<RootInode>> \o mid
  <2>1. <<RootInode>> \in Seq(Inodes) /\ <<TarInode>> \in Seq(Inodes)
    BY <1>3
  <2>2. /\ front \in Seq(Inodes) /\ Len(front) = Len(Ttys) + 1
        /\ \A i \in 1 .. Len(Ttys) + 1 : front[i] = IF i = 1 THEN RootInode ELSE mid[i - 1]
    BY <2>1, <1>1, <1>4
  <2> HIDE DEF front
  <2>3. FirstInodes = Append(front, TarInode)
    BY <2>1, <2>2, <1>5 DEF front
  <2>4. /\ Len(FirstInodes) = Len(front) + 1
        /\ \A i \in 1 .. Len(front) + 1 : FirstInodes[i] =
             IF i <= Len(front) THEN front[i] ELSE TarInode
    BY <2>2, <2>3
  <2>5. ASSUME NEW i \in 1 .. Len(Ttys) + 2
        PROVE  FirstInodes[i] =
                 IF i = 1 THEN RootInode ELSE IF i = Len(Ttys) + 2 THEN TarInode ELSE mid[i - 1]
    BY <2>2, <2>4, <1>1
  <2>6. Len(FirstInodes) = Len(Ttys) + 2
    BY <2>2, <2>4, <1>1
  <2> QED BY <2>5, <2>6
<1>7. \A i \in 1 .. Len(Ttys) + 2 : FirstInodes[i] \in Inodes /\ FirstInodes[i].mode # "none"
  <2> TAKE i \in 1 .. Len(Ttys) + 2
  <2>1. i = 1 \/ i = Len(Ttys) + 2 \/ i - 1 \in 1 .. Len(Ttys)
    BY <1>1
  <2> QED BY <2>1, <1>1, <1>3, <1>6
<1>8. Len(FirstNames) = Len(Ttys) + 2
  BY <1>1 DEF FirstNames
<1>9. \A i \in 2 .. Len(Ttys) + 1 : FirstInodes[i].nr = 0
  <2> TAKE i \in 2 .. Len(Ttys) + 1
  <2>1. i \in 1 .. Len(Ttys) + 2 /\ i # 1 /\ i # Len(Ttys) + 2 /\ i - 1 \in 1 .. Len(Ttys)
    BY <1>1
  <2> QED BY <2>1, <1>3, <1>6
<1>10. \A i \in 1 .. Len(Ttys) + 2 :
         FirstInodes[i].start >= sb.n_1st_sect /\ (FirstInodes[i].mode = "REG" => FirstInodes[i].nr > 0)
  <2>1. RootInode.start >= sb.n_1st_sect /\ RootInode.mode = "DIR"
    BY <1>2 DEF RootInode, DiskInode
  <2>2. TarInode.start >= sb.n_1st_sect /\ TarInode.nr > 0
    <3>1. INSTALL_START_SECT > NR_DEFAULT_FILE_SECTS + sb.n_1st_sect - 1 /\ INSTALL_NR_SECTS > 0
          /\ NR_DEFAULT_FILE_SECTS > 0
      BY FsAssumption
    <3>2. INSTALL_START_SECT >= sb.n_1st_sect
      BY <3>1, <1>2
    <3> QED BY <3>1, <3>2 DEF TarInode, DiskInode
  <2>3. \A i \in 1 .. Len(Ttys) : mid[i].start >= sb.n_1st_sect /\ mid[i].mode = "CHR"
    <3>1. TtyDev >= sb.n_1st_sect
      BY FsAssumption
    <3> QED BY <3>1, <1>2 DEF mid, DiskInode
  <2> TAKE i \in 1 .. Len(Ttys) + 2
  <2>4. i = 1 \/ i = Len(Ttys) + 2 \/ i - 1 \in 1 .. Len(Ttys)
    BY <1>1
  <2> QED BY <2>1, <2>2, <2>3, <2>4, <1>6
<1> QED BY <1>1, <1>3, <1>6, <1>7, <1>8, <1>9, <1>10

\* Before FS begins nothing is in use.
LEMMA InitKeeps == Init => TableInv
<1> SUFFICES ASSUME Init PROVE TableInv
  OBVIOUS
<1>1. TypeOK
  <2>1. NoInode \in Inodes
    BY DEF NoInode, DiskInode, Inodes
  <2>2. NoEntry = Entry(NoEntry.inode_nr, NoEntry.name)
    BY DEF NoEntry, Entry
  <2>3. dir = [i \in 1 .. MaxDir |-> Entry(dir[i].inode_nr, dir[i].name)]
    <3> HIDE DEF NoEntry
    <3> QED BY <2>2 DEF Init
  <2>4. NoDesc \in [inode : Slots \union {NONE}, cnt : Int] /\ FreeSlot \in [num : Nat, cnt : Int, inode : Inodes]
    BY <2>1 DEF NoDesc, FreeSlot
  <2>5. dir_n \in 0 .. MaxDir
    BY DirSize DEF Init
  <2> QED BY <2>1, <2>3, <2>4, <2>5 DEF Init, TypeOK
<1>2. ForkInv
  <2>1. INIT_PROC \in Procs /\ IsFiniteSet({INIT_PROC})
    BY FsAssumption, FS_Singleton
  <2> QED BY <2>1 DEF Init, ForkInv
<1>3. Holders = {}
  BY DEF Holders, Init
<1>4. \A t : HoldersOf(t) = {} /\ UsersOf(t) = {}
  BY <1>3 DEF HoldersOf, UsersOf
<1>5. Cardinality({}) = 0
  BY FS_EmptySet
<1>6. DescsCounted
  BY <1>4, <1>5 DEF DescsCounted, Init, NoDesc
<1>7. \A s \in Slots : inode_table[s].cnt = 0
  BY DEF Init, FreeSlot
<1>8. CacheInv
  <2>1. SlotsCounted
    <3>1. halted = "init" /\ \A s \in Slots : Cardinality(UsersOf(s)) = 0
      BY <1>4, <1>5 DEF Init
    <3> QED BY <3>1, <1>7 DEF SlotsCounted
  <2>2. CacheCoherent /\ SlotsInUse
    BY <1>7 DEF CacheCoherent, SlotsInUse
  <2> QED BY <2>1, <2>2 DEF CacheInv
<1>9. EntriesInv
  BY DEF EntriesInv, Init, NoEntry, Entry
<1>10. RootKept /\ MapInv /\ SuperInv
  BY DEF RootKept, MapInv, SuperInv, Init
<1> QED BY <1>1, <1>2, <1>6, <1>8, <1>9, <1>10, Parts

\* What mkfs() makes, and the super block FS reads back.
LEMMA init_fsKeeps ==
  ASSUME TableInv, init_fs
  PROVE  TableInv'
<1>1. Init /\ TypeOK /\ ForkInv /\ DescsCounted /\ CacheInv
  BY Parts DEF init_fs
<1>2. PICK L : L = Len(Ttys) + 2
  OBVIOUS
<1>3. L \in Nat /\ L >= 2 /\ L <= MaxNum /\ L <= MaxDir /\ MaxNum \in Nat /\ MaxDir \in Nat
  BY <1>2, Sizes, DirSize
<1>4. /\ imap' = 1 .. L /\ dir_n' = L /\ halted' = "no"
      /\ inode_table' = [inode_table EXCEPT ![0] = [num |-> ROOT_INODE, cnt |-> 1, inode |-> RootInode]]
      /\ inodes' = [n \in Nums |-> IF n <= L THEN FirstInodes[n]
                                   ELSE IF n <= InodesPerSect THEN NoInode ELSE inodes[n]]
      /\ dir' = [i \in 1 .. MaxDir |-> IF i <= L THEN NewEntry(i, FirstNames[i]) ELSE NoEntry]
      /\ read_super_block
      /\ UNCHANGED <<alive, forking, filp, f_desc_table, log>>
  BY <1>2, FirstInodesMade DEF init_fs, mkfs
<1>5. ForkInv' /\ DescsCounted' /\ \A t : UsersOf(t)' = UsersOf(t)
  BY <1>1, <1>4, DescsKept
<1>6. \A t : UsersOf(t) = {}
  BY <1>1 DEF Init, UsersOf, Holders
<1>7. /\ inodes' \in [Nums -> Inodes] /\ inodes'[ROOT_INODE] = RootInode
      /\ \A n \in Nums : inodes'[n].mode # "none" <=> n \in 1 .. L
  <2>1. NoInode \in Inodes /\ NoInode.mode = "none"
    BY DEF NoInode, DiskInode, Inodes
  <2>2. \A n \in Nums : inodes'[n] = IF n <= L THEN FirstInodes[n] ELSE NoInode
    BY <1>1, <1>4 DEF Init
  <2>3. \A n \in Nums : n \in Nat \ {0}
    BY Sizes
  <2>4. \A n \in 1 .. L : FirstInodes[n] \in Inodes /\ FirstInodes[n].mode # "none"
    BY <1>2, FirstInodesMade
  <2>5. inodes' = [n \in Nums |-> inodes'[n]]
    BY <1>4
  <2>6. ROOT_INODE \in Nums /\ ROOT_INODE = 1 /\ FirstInodes[1] = RootInode
    BY Sizes, FirstInodesMade DEF ROOT_INODE
  <2> QED BY <2>1, <2>2, <2>3, <2>4, <2>5, <2>6, <1>3
<1>8. /\ inode_table' \in [Slots -> [num : Nat, cnt : Int, inode : Inodes]]
      /\ inode_table'[0] = [num |-> ROOT_INODE, cnt |-> 1, inode |-> RootInode]
      /\ \A s \in Slots : s # 0 => inode_table'[s].cnt = 0
  <2>1. [num |-> ROOT_INODE, cnt |-> 1, inode |-> RootInode] \in [num : Nat, cnt : Int, inode : Inodes]
    BY FirstInodesMade DEF ROOT_INODE
  <2>2. \A s \in Slots : inode_table[s].cnt = 0
    BY <1>1 DEF Init, FreeSlot
  <2> QED BY <2>1, <2>2, <1>1, <1>4, Sizes DEF TypeOK
<1>9. inode_table'[0].num = ROOT_INODE /\ inode_table'[0].cnt = 1 /\ inode_table'[0].inode = RootInode
  BY <1>8
<1>10. CacheInv'
  <2>1. SlotsCounted'
    <3>1. \A s \in Slots : Cardinality(UsersOf(s)') = 0
      BY <1>5, <1>6, FS_EmptySet
    <3>2. \A s \in Slots : inode_table'[s].cnt = IF s = 0 THEN 1 ELSE 0
      BY <1>8, <1>9
    <3> QED BY <3>1, <3>2 DEF SlotsCounted
  <2>2. CacheCoherent'
    BY <1>7, <1>8, <1>9 DEF CacheCoherent
  <2>3. SlotsInUse'
    <3>1. ROOT_INODE \in Nums /\ ROOT_INODE \in 1 .. L
      BY <1>3, Sizes DEF ROOT_INODE
    <3> QED BY <3>1, <1>7, <1>8, <1>9 DEF SlotsInUse
  <2> QED BY <2>1, <2>2, <2>3 DEF CacheInv
<1>11. RootKept'
  BY <1>3, <1>4, <1>7, <1>9 DEF RootKept, ROOT_INODE
<1>12. /\ dir' = [i \in 1 .. MaxDir |-> Entry(dir'[i].inode_nr, dir'[i].name)]
       /\ \A i \in 1 .. MaxDir : dir'[i].inode_nr = IF i <= L THEN i ELSE 0
  <2>1. \A i \in 1 .. MaxDir : dir'[i] = IF i <= L THEN NewEntry(i, FirstNames[i]) ELSE NoEntry
    BY <1>4
  <2>2. \A i, name : NewEntry(i, name) = Entry(i, NewEntry(i, name).name) /\ NewEntry(i, name).inode_nr = i
    BY DEF NewEntry, Entry
  <2>3. NoEntry = Entry(0, NoEntry.name) /\ NoEntry.inode_nr = 0
    BY DEF NoEntry, Entry
  <2>4. \A i \in 1 .. MaxDir : /\ dir'[i] = Entry(dir'[i].inode_nr, dir'[i].name)
                               /\ dir'[i].inode_nr = IF i <= L THEN i ELSE 0
    BY <2>1, <2>2, <2>3
  <2>5. dir' = [i \in 1 .. MaxDir |-> dir'[i]]
    BY <1>4
  <2> QED BY <2>4, <2>5
<1>13. EntriesInv'
  BY <1>3, <1>4, <1>12 DEF EntriesInv
<1>14. MapInv'
  <2>1. 1 .. L \subseteq Nums
    BY <1>3 DEF Nums
  <2> QED BY <2>1, <1>4, <1>7 DEF MapInv
<1>15. SuperInv'
  <2>1. NR_SUPER_BLOCK \in Nat \ {0} /\ ROOT_DEV # NO_DEV
    BY FsAssumption
  <2>2. \A i \in 1 .. NR_SUPER_BLOCK : super_block[i].sb_dev = NO_DEV
    BY <1>1 DEF Init, NoSuperBlock, SuperBlock
  <2>3. DOMAIN super_block = 1 .. NR_SUPER_BLOCK
    BY <1>1 DEF Init
  <2>4. PICK new : new = [sb EXCEPT !.sb_dev = ROOT_DEV]
    OBVIOUS
  <2>5. new.sb_dev = ROOT_DEV
    BY <2>4 DEF sb, SuperBlock
  <2> DEFINE Free == {i \in DOMAIN super_block : super_block[i].sb_dev = NO_DEV}
  <2>6. PICK k : k = FirstOf(Free)
    OBVIOUS
  <2>7. k \in 1 .. NR_SUPER_BLOCK
    <3>1. 1 \in Free /\ Free \subseteq 1 .. NR_SUPER_BLOCK /\ Free \subseteq Nat
      BY <2>1, <2>2, <2>3
    <3> QED BY <3>1, <2>6, FirstOfSet
  <2>8. super_block' = [super_block EXCEPT ![k] = new]
    BY <1>4, <2>4, <2>6 DEF read_super_block
  <2>9. {i \in DOMAIN super_block' : super_block'[i].sb_dev = ROOT_DEV} = {k}
    BY <2>1, <2>2, <2>3, <2>5, <2>7, <2>8
  <2>10. FirstOf({k}) = k
    <3>1. {k} \in SUBSET Nat /\ {k} # {}
      BY <2>7
    <3> QED BY <3>1, FirstOfSet
  <2>11. get_super_block' = super_block'[FirstOf({i \in DOMAIN super_block' : super_block'[i].sb_dev = ROOT_DEV})]
    BY DEF get_super_block
  <2>12. get_super_block' = new
    BY <2>3, <2>7, <2>8, <2>9, <2>10, <2>11
  <2> QED BY <2>4, <2>12 DEF SuperInv
<1>16. TypeOK'
  BY <1>1, <1>3, <1>4, <1>7, <1>8, <1>12 DEF TypeOK, Nums
<1> QED BY <1>4, <1>5, <1>10, <1>11, <1>13, <1>14, <1>15, <1>16, PartsNext

-----------------------------------------------------------------------------
(* The invariant, and what it says of the properties the runs check.       *)

\* Every step of FS, and what no step of FS changes, keeps the invariant.
LEMMA NextKeeps == TableInv /\ [Next]_fsvars => TableInv'
<1> SUFFICES ASSUME TableInv, [Next]_fsvars PROVE TableInv'
  OBVIOUS
<1>1. CASE init_fs
  BY <1>1, init_fsKeeps
<1>2. ASSUME NEW p \in Procs, NEW path \in Paths, open(p, path)
      PROVE  TableInv'
  <2>1. CASE OpenPanics(p)
    <3>1. /\ halted = "no" /\ halted' = "table full"
          /\ UNCHANGED <<alive, forking, filp, f_desc_table, inode_table, super_block, inodes, dir, dir_n>>
          /\ imap' = imap /\ log' = log
      BY <2>1 DEF OpenPanics, MayCall, Halt, fixed, disk
    <3>2. log' \in BOOLEAN /\ imap \subseteq imap' /\ imap' \subseteq Nums
      BY <3>1 DEF TableInv, TypeOK
    <3> QED BY <3>1, <3>2, TablesKept
  <2>2. CASE OpenExisting(p, path)
    BY <2>2, OpenExistingKeeps
  <2>3. CASE Create(p, path)
    BY <2>3, CreateKeeps
  <2> QED BY <1>2, <2>1, <2>2, <2>3 DEF open
<1>3. ASSUME NEW p \in Procs, NEW path \in Paths, unlink(p, path)
      PROVE  TableInv'
  <2>1. CASE UnlinkRefused(p, path)
    BY <2>1, UnlinkRefusedKeeps
  <2>2. CASE Unlink(p, path)
    BY <2>2, UnlinkKeeps
  <2>3. CASE UnlinkPanics(p, path)
    <3>1. /\ halted = "no" /\ halted' = "table full"
          /\ UNCHANGED <<alive, forking, filp, f_desc_table, inode_table, super_block, inodes, dir, dir_n>>
          /\ imap' = imap /\ log' = log
      BY <2>3 DEF UnlinkPanics, MayCall, Halt, fixed, disk
    <3>2. log' \in BOOLEAN /\ imap \subseteq imap' /\ imap' \subseteq Nums
      BY <3>1 DEF TableInv, TypeOK
    <3> QED BY <3>1, <3>2, TablesKept
  <2>4. CASE UnlinkAbsent(p, path)
    <3>1. /\ halted = "no" /\ halted' \in {"no", "log"}
          /\ UNCHANGED <<alive, forking, filp, f_desc_table, inode_table, super_block, inodes, dir, dir_n>>
          /\ imap' = imap /\ log' \in {log, TRUE}
      BY <2>4 DEF UnlinkAbsent, MayCall, LogUnlink, fixed
    <3>2. log' \in BOOLEAN /\ imap \subseteq imap' /\ imap' \subseteq Nums
      BY <3>1 DEF TableInv, TypeOK
    <3> QED BY <3>1, <3>2, TablesKept
  <2> QED BY <1>3, <2>1, <2>2, <2>3, <2>4 DEF unlink
<1>4. ASSUME NEW p \in Procs, NEW f \in Fds, close(p, f)
      PROVE  TableInv'
  BY <1>4, CloseKeeps DEF close
<1>5. ASSUME NEW p \in Procs, NEW c \in Procs, ForkCopy(p, c)
      PROVE  TableInv'
  BY <1>5, ForkCopyKeeps
<1>6. ASSUME NEW p \in Procs, FsExit(p)
      PROVE  TableInv'
  BY <1>6, FsExitKeeps
<1>7. CASE FsFork
  BY <1>7, FsForkKeeps
<1>8. CASE UNCHANGED fsvars
  <2>1. /\ TypeOK /\ ForkInv /\ DescsCounted /\ CacheInv /\ RootKept /\ EntriesInv /\ MapInv /\ SuperInv
        /\ halted = "init" => Init
    BY Parts
  <2>2. UNCHANGED <<alive, forking, filp, f_desc_table>> /\ UNCHANGED <<inode_table, super_block, inodes>>
        /\ UNCHANGED <<imap, smap, dir, dir_n, log, halted>>
    BY <1>8 DEF fsvars
  <2>3. ForkInv' /\ DescsCounted' /\ \A t : UsersOf(t)' = UsersOf(t)
    BY <2>1, <2>2, DescsKept
  <2>4. CacheInv'
    BY <2>1, <2>2, <2>3 DEF CacheInv, SlotsCounted, CacheCoherent, SlotsInUse
  <2>5. TypeOK'
    BY <2>1, <2>2 DEF TypeOK
  <2>6. RootKept' /\ EntriesInv' /\ MapInv' /\ SuperInv'
    BY <2>1, <2>2 DEF RootKept, EntriesInv, MapInv, SuperInv, get_super_block
  <2>7. (halted = "init" => Init)'
    BY <2>1, <2>2 DEF Init
  <2> QED BY <2>3, <2>4, <2>5, <2>6, <2>7, PartsNext
<1> QED BY <1>1, <1>2, <1>3, <1>4, <1>5, <1>6, <1>7, <1>8 DEF Next

\* The tables of FS hang together in every state: what each descriptor, slot,
\* inode, bit and entry says of the others.
THEOREM TableInvHolds == Spec => []TableInv
BY InitKeeps, NextKeeps, PTL DEF Spec

\* fd_cnt is the number of descriptors that lead to an open file, across forks
\* and exits in any order, and i_cnt is never below the users of a slot, so
\* that no inode is taken away from, or removed under, a process that has it.
THEOREM CountsCorrect == Spec => []UsersCounted
BY TableInvHolds, PTL DEF TableInv

\* An inode is in one slot of inode_table[] at the most, and as on the disk.
THEOREM CacheCorrect == Spec => []CacheCoherent
BY TableInvHolds, PTL DEF TableInv

-----------------------------------------------------------------------------
(* The sector map.                                                         *)

\* The bits do_unlink clears, byte by byte, are those of the file.
LEMMA ClearedIsRun ==
  ASSUME NEW b \in Int, NEW n \in Nat
  PROVE  Cleared(b, n) = Run(b, n)
<1>1. BitsPerByte \in Nat \ {0}
  BY FsAssumption
<1>2. PICK q : q = b \div BitsPerByte
  OBVIOUS
<1>3. PICK r : r = b % BitsPerByte
  OBVIOUS
<1>4. q \in Int /\ r \in 0 .. BitsPerByte - 1 /\ b = q * BitsPerByte + r
  BY <1>1, <1>2, <1>3
<1>5. PICK room : room = BitsPerByte - r
  OBVIOUS
<1>6. room \in Nat /\ (q + 1) * BitsPerByte = b + room
  BY <1>1, <1>4, <1>5
<1>7. CASE n < room
  <2>1. Cleared(b, n) = Run(b, n) \union Run(b + room, 0 * BitsPerByte)
                          \union Run(b + room + 0 * BitsPerByte, n - n - 0 * BitsPerByte)
    BY <1>2, <1>3, <1>5, <1>6, <1>7 DEF Cleared
  <2> QED BY <2>1, <1>1, <1>6 DEF Run
<1>8. CASE ~(n < room)
  <2>1. PICK k : k = (n - room) \div BitsPerByte
    OBVIOUS
  <2>2. PICK c : c = k * BitsPerByte
    OBVIOUS
  <2>3. n - room \in Nat
    BY <1>6, <1>8
  <2>4. c \in Nat /\ c <= n - room
    BY <2>1, <2>2, <2>3, <1>1
  <2>5. Cleared(b, n) = Run(b, room) \union Run(b + room, c)
                          \union Run(b + room + c, n - room - c)
    BY <2>1, <2>2, <1>2, <1>3, <1>5, <1>6, <1>8 DEF Cleared
  <2> QED BY <2>3, <2>4, <2>5, <1>6 DEF Run
<1> QED BY <1>7, <1>8

\* What the super block says, and where the log's bits are.
LEMMA SuperSays ==
  ASSUME TableInv, halted # "init"
  PROVE  /\ get_super_block.n_1st_sect = sb.n_1st_sect
         /\ get_super_block.nr_sects = DevSects
         /\ Sects = 1 .. MapBits - 1 /\ MapBits \in Nat /\ MapBits > DevSects
         /\ FirstOfLog \in Nat \ {0} /\ FirstOfLog > INSTALL_START_SECT + INSTALL_NR_SECTS
         /\ LogBits = FirstOfLog .. DevSects - 1 /\ LogBits \subseteq Sects
<1>1. get_super_block = [sb EXCEPT !.sb_dev = ROOT_DEV]
  BY DEF TableInv, SuperInv
<1>2. /\ get_super_block.n_1st_sect = sb.n_1st_sect
      /\ get_super_block.nr_sects = sb.nr_sects
      /\ get_super_block.nr_smap_sects = sb.nr_smap_sects
  BY <1>1 DEF sb, SuperBlock
<1>3. /\ DevSects \in Nat /\ BitsPerSect \in Nat \ {0} /\ NR_SECTS_FOR_LOG \in Nat \ {0}
      /\ INSTALL_START_SECT \in Nat /\ INSTALL_NR_SECTS \in Nat
      /\ INSTALL_START_SECT + INSTALL_NR_SECTS < DevSects - NR_SECTS_FOR_LOG
  BY FsAssumption
<1>4. PICK d : d = DevSects \div BitsPerSect
  OBVIOUS
<1>5. d \in Nat /\ DevSects < (d + 1) * BitsPerSect /\ (d + 1) * BitsPerSect \in Nat
  <2>1. /\ d \in Nat /\ DevSects % BitsPerSect \in 0 .. BitsPerSect - 1
        /\ DevSects = d * BitsPerSect + (DevSects % BitsPerSect)
    BY <1>3, <1>4
  <2> QED BY <2>1, <1>3
<1>6. MapBits = (d + 1) * BitsPerSect
  BY <1>4, Sizes DEF MapBits
<1>7. Sects = 1 .. MapBits - 1 /\ MapBits \in Nat /\ MapBits > DevSects
  BY <1>2, <1>3, <1>5, <1>6 DEF Sects, MapBits
<1>8. FirstOfLog \in Nat \ {0} /\ FirstOfLog > INSTALL_START_SECT + INSTALL_NR_SECTS
  BY <1>3 DEF FirstOfLog
<1>9. LogBits = FirstOfLog .. DevSects - 1
  <2>1. LogBits = Run(DevSects - NR_SECTS_FOR_LOG, NR_SECTS_FOR_LOG)
    BY <1>2, Sizes DEF LogBits, LogSects
  <2> QED BY <2>1, <1>3 DEF Run, FirstOfLog
<1>10. LogBits \subseteq Sects
  BY <1>3, <1>7, <1>8, <1>9
<1> QED BY <1>2, <1>7, <1>8, <1>9, <1>10, Sizes

\* What LogUnlink does to a map when it goes on: the log's bits, which were in
\* no use, are reserved from then on.
LEMMA LogReserves ==
  ASSUME TableInv, halted = "no", halted' = "no", NEW map, LogUnlink(map),
         UNCHANGED super_block
  PROVE  /\ \/ log /\ smap' = map
            \/ ~log /\ smap' = map \union LogBits /\ LogBits \intersect map = {}
         /\ log' = TRUE /\ Reserved' = LogBits
<1>1. LogBits' = LogBits
  BY DEF LogBits, LogSects, get_super_block
<1>2. CASE log
  <2>1. log' = log /\ smap' = map
    BY <1>2 DEF LogUnlink
  <2>2. log = TRUE
    BY <1>2 DEF TableInv, TypeOK
  <2> QED BY <2>1, <2>2, <1>1, <1>2 DEF Reserved
<1>3. CASE ~log
  <2>1. /\ smap' = SetBitsOf(map, LogBits) /\ ~MeetsFile(map) /\ log' = TRUE
    BY <1>3 DEF LogUnlink
  <2>2. LogBits \intersect map = {}
    BY <2>1 DEF MeetsFile
  <2>3. SetBitsOf(map, LogBits) = map \union LogBits
    BY <2>2, SuperSays DEF SetBitsOf
  <2> QED BY <2>1, <2>2, <2>3, <1>1, <1>3 DEF Reserved
<1> QED BY <1>2, <1>3

\* The files of a map that a step does not change keep their bits.
LEMMA OwnersKept ==
  ASSUME UNCHANGED super_block
  PROVE  /\ \A m : Owner(m)' = FileBits(get_super_block, inodes'[m])
         /\ \A m : inodes'[m] = inodes[m] => Owner(m)' = Owner(m)
         /\ LogBits' = LogBits /\ get_super_block' = get_super_block
<1>1. get_super_block' = get_super_block
  BY DEF get_super_block
<1> QED BY <1>1 DEF Owner, LogBits, LogSects

\* A step that may set up the log and changes no file.
LEMMA LogKeepsMaps ==
  ASSUME TableInv, MapsMatchInodes, halted = "no", LogUnlink(smap),
         UNCHANGED <<super_block, inodes, imap>>
  PROVE  MapsMatchInodes'
<1> SUFFICES ASSUME halted' = "no" PROVE MapsMatchInodes'
  BY DEF MapsMatchInodes
<1>1. /\ \/ log /\ smap' = smap
         \/ ~log /\ smap' = smap \union LogBits /\ LogBits \intersect smap = {}
      /\ Reserved' = LogBits
  BY LogReserves
<1>2. \A m : Owner(m)' = Owner(m)
  BY OwnersKept
<1>3. get_super_block' = get_super_block
  BY OwnersKept
<1>4. /\ imap = {n \in Nums : inodes[n].mode # "none"}
      /\ smap = (UNION {Owner(n) : n \in imap}) \union Reserved
      /\ \A m, n \in imap : m # n => Owner(m) \intersect Owner(n) = {}
      /\ \A n \in imap : Owner(n) \intersect Reserved = {}
      /\ \A n \in imap : inodes[n].nr > 0 => inodes[n].start >= get_super_block.n_1st_sect
  BY DEF MapsMatchInodes
<1>5. smap' = (UNION {Owner(n) : n \in imap}) \union LogBits
  BY <1>1, <1>4 DEF Reserved
<1>6. \A n \in imap : Owner(n) \intersect LogBits = {}
  BY <1>1, <1>4 DEF Reserved
<1> QED BY <1>1, <1>2, <1>3, <1>4, <1>5, <1>6 DEF MapsMatchInodes

\* The bits of the files mkfs() makes: those of `/' are the first, those of
\* cmd.tar come behind them, and a terminal has none.
LEMMA FirstBits ==
  /\ FileBits(sb, RootInode) = 1 .. NR_DEFAULT_FILE_SECTS
  /\ FileBits(sb, TarInode) = TarBit .. TarBit + INSTALL_NR_SECTS - 1
  /\ TarBit \in Nat /\ TarBit > NR_DEFAULT_FILE_SECTS
  /\ NR_DEFAULT_FILE_SECTS \in Nat \ {0} /\ INSTALL_NR_SECTS \in Nat \ {0}
  /\ TarInode.start >= sb.n_1st_sect /\ RootInode.start = sb.n_1st_sect
<1>1. /\ INSTALL_START_SECT \in Nat /\ INSTALL_NR_SECTS \in Nat \ {0}
      /\ NR_DEFAULT_FILE_SECTS \in Nat \ {0}
      /\ INSTALL_START_SECT > NR_DEFAULT_FILE_SECTS + sb.n_1st_sect - 1
  BY FsAssumption
<1>2. sb.n_1st_sect \in Nat
  BY Sizes
<1> QED BY <1>1, <1>2 DEF FileBits, Run, BitOf, TarBit, RootInode, TarInode, DiskInode

\* mkfs() sets the bits of the files it makes.
LEMMA init_fsMakesMaps ==
  ASSUME TableInv, init_fs
  PROVE  MapsMatchInodes'
<1>1. TableInv' /\ Init
  BY init_fsKeeps DEF TableInv, init_fs
<1>2. PICK L : L = Len(Ttys) + 2
  OBVIOUS
<1>3. L \in Nat /\ L >= 2 /\ L <= MaxNum /\ MaxNum \in Nat
  BY <1>2, Sizes
<1>4. /\ imap' = 1 .. L /\ halted' = "no" /\ log' = FALSE
      /\ smap' = FileBits(sb, RootInode) \union FileBits(sb, TarInode)
      /\ inodes' = [n \in Nums |-> IF n <= L THEN FirstInodes[n]
                                   ELSE IF n <= InodesPerSect THEN NoInode ELSE inodes[n]]
  BY <1>1, <1>2, FirstInodesMade DEF init_fs, mkfs, Init
<1>5. get_super_block'.n_1st_sect = sb.n_1st_sect
  <2>1. get_super_block' = [sb EXCEPT !.sb_dev = ROOT_DEV]
    BY <1>1, <1>4 DEF TableInv, SuperInv
  <2> QED BY <2>1 DEF sb, SuperBlock
<1>6. \A n \in 1 .. L : n \in Nums /\ inodes'[n] = FirstInodes[n]
  BY <1>3, <1>4 DEF Nums
<1>7. /\ inodes'[1] = RootInode /\ inodes'[L] = TarInode
      /\ \A n \in 2 .. L - 1 : inodes'[n].nr = 0
      /\ \A n \in 1 .. L : inodes'[n] \in Inodes
  BY <1>2, <1>3, <1>6, FirstInodesMade
<1>8. \A n : Owner(n)' = Run(inodes'[n].start - sb.n_1st_sect + 1, inodes'[n].nr)
  BY <1>5 DEF Owner, FileBits, BitOf
<1>9. Owner(1)' = 1 .. NR_DEFAULT_FILE_SECTS
  <2>1. FileBits(sb, RootInode) = Run(RootInode.start - sb.n_1st_sect + 1, RootInode.nr)
    BY DEF FileBits, BitOf
  <2> QED BY <2>1, <1>7, <1>8, FirstBits
<1>10. Owner(L)' = TarBit .. TarBit + INSTALL_NR_SECTS - 1
  <2>1. FileBits(sb, TarInode) = Run(TarInode.start - sb.n_1st_sect + 1, TarInode.nr)
    BY DEF FileBits, BitOf
  <2> QED BY <2>1, <1>7, <1>8, FirstBits
<1>11. \A n \in 2 .. L - 1 : Owner(n)' = {}
  <2> TAKE n \in 2 .. L - 1
  <2>1. inodes'[n].nr = 0 /\ inodes'[n].start \in Nat
    BY <1>3, <1>7 DEF Inodes
  <2>2. Owner(n)' = Run(inodes'[n].start - sb.n_1st_sect + 1, 0)
    BY <2>1, <1>8
  <2> QED BY <2>1, <2>2, Sizes, SMTT(30) DEF Run
<1>12. \A n \in 1 .. L : n = 1 \/ n = L \/ n \in 2 .. L - 1
  BY <1>3
<1>13. smap' = (UNION {Owner(n)' : n \in imap'})
  <2>1. smap' = Owner(1)' \union Owner(L)'
    BY <1>4, <1>9, <1>10, FirstBits
  <2>2. 1 \in imap' /\ L \in imap'
    BY <1>3, <1>4
  <2>3. \A n \in imap' : n = 1 \/ n = L \/ Owner(n)' = {}
    BY <1>4, <1>11, <1>12
  <2> QED BY <2>1, <2>2, <2>3
<1>14. Owner(1)' \intersect Owner(L)' = {}
  BY <1>9, <1>10, FirstBits
<1>15. \A m, n \in imap' : m # n => Owner(m)' \intersect Owner(n)' = {}
  BY <1>4, <1>11, <1>12, <1>14
<1>16. \A n \in imap' : inodes'[n].nr > 0 => inodes'[n].start >= get_super_block'.n_1st_sect
  <2> TAKE n \in imap'
  <2>1. n = 1 \/ n = L \/ n \in 2 .. L - 1
    BY <1>4, <1>12
  <2> QED BY <2>1, <1>5, <1>7, FirstBits, Sizes
<1>17. Reserved' = {}
  BY <1>4 DEF Reserved
<1>18. imap' = {n \in Nums : inodes'[n].mode # "none"}
  BY <1>1, <1>4 DEF TableInv, MapInv
<1> QED BY <1>13, <1>15, <1>16, <1>17, <1>18 DEF MapsMatchInodes

\* The bits of a new file are free, and the map has them from then on.
LEMMA CreateKeepsMaps ==
  ASSUME TableInv, MapsMatchInodes, NEW p, NEW path, Create(p, path)
  PROVE  MapsMatchInodes'
<1> SUFFICES ASSUME halted' = "no" PROVE MapsMatchInodes'
  BY DEF MapsMatchInodes
<1>1. PICK n : n = FirstOf(FreeNums)
  OBVIOUS
<1>2. PICK new : new = DiskInode("REG", FirstOf(NewRun) - 1 + get_super_block.n_1st_sect,
                                 NR_DEFAULT_FILE_SECTS)
  OBVIOUS
<1>3. /\ halted = "no" /\ FreeNums # {} /\ RunIsFree
      /\ imap' = imap \union {n} /\ smap' = SetBitsOf(smap, NewRun)
      /\ inodes' = [inodes EXCEPT ![n] = new]
      /\ UNCHANGED <<super_block, log>>
  BY <1>1, <1>2 DEF Create, MayCall, fixed
<1>4. n \in Nums /\ n \notin imap
  <2>1. FreeNums \subseteq Nat
    BY Sizes DEF FreeNums
  <2>2. n \in FreeNums
    BY <2>1, <1>1, <1>3, FirstOfSet
  <2> QED BY <2>2 DEF FreeNums
<1>5. /\ inodes'[n] = new /\ \A m \in Nums : m # n => inodes'[m] = inodes[m]
      /\ imap \subseteq Nums
  BY <1>3, <1>4 DEF TableInv, TypeOK
<1>6. PICK b : b = FirstOf(FreeSects)
  OBVIOUS
<1>7. /\ FirstOf(NewRun) = b /\ b \in FreeSects /\ b \in Nat \ {0}
      /\ get_super_block.n_1st_sect \in Nat
      /\ new.start = b - 1 + get_super_block.n_1st_sect /\ new.nr = NR_DEFAULT_FILE_SECTS
  <2>1. FirstOf(NewRun) = b /\ b \in FreeSects
    BY <1>3, <1>6, NewFile
  <2>2. b \in Nat \ {0} /\ get_super_block.n_1st_sect \in Nat
    BY <2>1, <1>3, SuperSays, Sizes DEF FreeSects
  <2> QED BY <2>1, <2>2, <1>2 DEF DiskInode
<1>8. NewRun = Run(b, NR_DEFAULT_FILE_SECTS) /\ NewRun \subseteq FreeSects
  BY <1>3, <1>6 DEF RunIsFree, NewRun
<1>9. smap' = smap \union NewRun /\ NewRun \intersect smap = {}
  <2>1. NewRun \intersect smap = {} /\ NewRun \subseteq Sects
    BY <1>8 DEF FreeSects
  <2>2. SetBitsOf(smap, NewRun) = smap \union NewRun
    BY <2>1 DEF SetBitsOf
  <2> QED BY <2>1, <2>2, <1>3
<1>10. Owner(n)' = NewRun
  <2>1. new.start - get_super_block.n_1st_sect + 1 = b
    BY <1>7
  <2>2. Owner(n)' = FileBits(get_super_block, new)
    BY <1>3, <1>5, OwnersKept
  <2> QED BY <2>1, <2>2, <1>7, <1>8 DEF FileBits, BitOf
<1>11. \A m \in imap : Owner(m)' = Owner(m) /\ inodes'[m] = inodes[m] /\ m # n
  BY <1>3, <1>4, <1>5, OwnersKept
<1>12. Reserved' = Reserved /\ get_super_block' = get_super_block
  BY <1>3, OwnersKept DEF Reserved
<1>13. /\ smap = (UNION {Owner(m) : m \in imap}) \union Reserved
       /\ \A m, k \in imap : m # k => Owner(m) \intersect Owner(k) = {}
       /\ \A m \in imap : Owner(m) \intersect Reserved = {}
       /\ \A m \in imap : inodes[m].nr > 0 => inodes[m].start >= get_super_block.n_1st_sect
  BY <1>3 DEF MapsMatchInodes
<1>14. \A m \in imap : Owner(m) \intersect NewRun = {}
  BY <1>9, <1>13
<1>15. NewRun \intersect Reserved = {}
  BY <1>9, <1>13
<1>16. smap' = (UNION {Owner(m)' : m \in imap'}) \union Reserved'
  BY <1>3, <1>9, <1>10, <1>11, <1>12, <1>13
<1>17. \A m, k \in imap' : /\ m # k => Owner(m)' \intersect Owner(k)' = {}
                          /\ Owner(k)' \intersect Reserved' = {}
  BY <1>3, <1>10, <1>11, <1>12, <1>13, <1>14, <1>15
<1>18. \A m \in imap' : inodes'[m].nr > 0 => inodes'[m].start >= get_super_block'.n_1st_sect
  BY <1>3, <1>5, <1>7, <1>11, <1>12, <1>13
<1>19. imap' = {m \in Nums : inodes'[m].mode # "none"}
  <2>1. TableInv'
    BY CreateKeeps
  <2> QED BY <2>1 DEF TableInv, MapInv
<1> QED BY <1>16, <1>17, <1>18, <1>19 DEF MapsMatchInodes

\* do_unlink clears the bits of the file and no others.
LEMMA UnlinkKeepsMaps ==
  ASSUME TableInv, MapsMatchInodes, NEW p, NEW path, Unlink(p, path)
  PROVE  MapsMatchInodes'
<1> SUFFICES ASSUME halted' = "no" PROVE MapsMatchInodes'
  BY DEF MapsMatchInodes
<1>1. PICK n : n = Lookup(path)
  OBVIOUS
<1>2. /\ halted = "no" /\ n # 0 /\ ~TableFull(n)
      /\ imap' = imap \ {n}
      /\ inodes' = [inodes EXCEPT ![n] = NoInode]
      /\ LogUnlink(Freed(n))
      /\ UNCHANGED super_block
  BY <1>1 DEF Unlink, MayCall, fixed
<1>3. n \in Nums /\ n \in imap
  BY <1>1, <1>2, LookupFinds
<1>4. \A m \in imap' : /\ inodes'[m] = inodes[m] /\ Owner(m)' = Owner(m)
                       /\ m \in imap /\ m # n
  BY <1>2, <1>3, OwnersKept DEF TableInv, TypeOK
<1>5. Freed(n) = smap \ Owner(n)
  <2>1. Pin(n).inode = inodes[n]
    <3>1. Pin(n) = [num |-> n, cnt |-> inode_table[SlotOf(n)].cnt + 1, inode |-> inodes[n]]
      BY <1>2, <1>3, Parts, Slot
    <3> QED BY <3>1
  <2>2. Freed(n) = smap \ Cleared(BitOf(get_super_block, inodes[n].start), inodes[n].nr)
    BY <2>1 DEF Freed
  <2>3. Owner(n) = Run(BitOf(get_super_block, inodes[n].start), inodes[n].nr)
    BY DEF Owner, FileBits
  <2>4. inodes[n].start \in Nat /\ inodes[n].nr \in Nat
    BY <1>3 DEF TableInv, TypeOK, Inodes
  <2>5. get_super_block.n_1st_sect \in Nat
    BY <1>2, SuperSays, Sizes
  <2>6. BitOf(get_super_block, inodes[n].start) \in Int
    BY <2>4, <2>5 DEF BitOf
  <2> QED BY <2>2, <2>3, <2>4, <2>6, ClearedIsRun
<1>6. /\ smap = (UNION {Owner(m) : m \in imap}) \union Reserved
      /\ \A m, k \in imap : m # k => Owner(m) \intersect Owner(k) = {}
      /\ \A m \in imap : Owner(m) \intersect Reserved = {}
      /\ \A m \in imap : inodes[m].nr > 0 => inodes[m].start >= get_super_block.n_1st_sect
  BY <1>2 DEF MapsMatchInodes
<1>7. Freed(n) = (UNION {Owner(m) : m \in imap'}) \union Reserved
  BY <1>2, <1>3, <1>5, <1>6
<1>8. /\ \/ log /\ smap' = Freed(n)
         \/ ~log /\ smap' = Freed(n) \union LogBits /\ LogBits \intersect Freed(n) = {}
      /\ Reserved' = LogBits
  BY <1>2, LogReserves
<1>9. smap' = (UNION {Owner(m) : m \in imap'}) \union LogBits
  BY <1>7, <1>8 DEF Reserved
<1>10. \A m \in imap' : Owner(m) \intersect LogBits = {}
  <2>1. CASE log
    BY <2>1, <1>4, <1>6 DEF Reserved
  <2>2. CASE ~log
    BY <2>2, <1>7, <1>8
  <2> QED BY <2>1, <2>2
<1>11. smap' = (UNION {Owner(m)' : m \in imap'}) \union Reserved'
  BY <1>4, <1>8, <1>9
<1>12. \A m, k \in imap' : /\ m # k => Owner(m)' \intersect Owner(k)' = {}
                          /\ Owner(k)' \intersect Reserved' = {}
  BY <1>4, <1>6, <1>8, <1>10
<1>13. \A m \in imap' : inodes'[m].nr > 0 => inodes'[m].start >= get_super_block'.n_1st_sect
  BY <1>2, <1>4, <1>6, OwnersKept
<1>14. imap' = {m \in Nums : inodes'[m].mode # "none"}
  <2>1. TableInv'
    BY UnlinkKeeps
  <2> QED BY <2>1 DEF TableInv, MapInv
<1> QED BY <1>11, <1>12, <1>13, <1>14 DEF MapsMatchInodes

\* Every step keeps the maps.
LEMMA NextKeepsMaps == TableInv /\ MapsMatchInodes /\ [Next]_fsvars => MapsMatchInodes'
<1> SUFFICES ASSUME TableInv, MapsMatchInodes, [Next]_fsvars, halted' = "no"
             PROVE  MapsMatchInodes'
  BY DEF MapsMatchInodes
<1>1. ASSUME UNCHANGED <<super_block, inodes, imap, smap, log, halted>>
      PROVE  MapsMatchInodes'
  <2>1. \A m : Owner(m)' = Owner(m)
    BY <1>1, OwnersKept
  <2>2. Reserved' = Reserved /\ get_super_block' = get_super_block
    BY <1>1, OwnersKept DEF Reserved
  <2> QED BY <2>1, <2>2, <1>1 DEF MapsMatchInodes
<1>2. CASE init_fs
  BY <1>2, init_fsMakesMaps
<1>3. ASSUME NEW p \in Procs, NEW path \in Paths, open(p, path)
      PROVE  MapsMatchInodes'
  <2>1. CASE OpenPanics(p) \/ OpenExisting(p, path)
    BY <2>1, <1>1 DEF OpenPanics, OpenExisting, Halt, fixed, disk
  <2>2. CASE Create(p, path)
    BY <2>2, CreateKeepsMaps
  <2> QED BY <1>3, <2>1, <2>2 DEF open
<1>4. ASSUME NEW p \in Procs, NEW path \in Paths, unlink(p, path)
      PROVE  MapsMatchInodes'
  <2>1. CASE UnlinkRefused(p, path) \/ UnlinkAbsent(p, path)
    <3>1. halted = "no" /\ LogUnlink(smap) /\ UNCHANGED <<super_block, inodes, imap>>
      BY <2>1 DEF UnlinkRefused, UnlinkAbsent, MayCall, fixed
    <3> QED BY <3>1, LogKeepsMaps
  <2>2. CASE Unlink(p, path)
    BY <2>2, UnlinkKeepsMaps
  <2>3. CASE UnlinkPanics(p, path)
    BY <2>3 DEF UnlinkPanics, Halt
  <2> QED BY <1>4, <2>1, <2>2, <2>3 DEF unlink
<1>5. ASSUME NEW p \in Procs, NEW f \in Fds, close(p, f)
      PROVE  MapsMatchInodes'
  BY <1>1, <1>5 DEF close, Close, fixed, disk
<1>6. ASSUME NEW p \in Procs, NEW c \in Procs, ForkCopy(p, c)
      PROVE  MapsMatchInodes'
  BY <1>1, <1>6 DEF ForkCopy, disk
<1>7. ASSUME NEW p \in Procs, FsExit(p)
      PROVE  MapsMatchInodes'
  BY <1>1, <1>7 DEF FsExit, disk
<1>8. CASE FsFork
  BY <1>1, <1>8 DEF FsFork, disk
<1>9. CASE UNCHANGED fsvars
  BY <1>1, <1>9 DEF fsvars
<1> QED BY <1>2, <1>3, <1>4, <1>5, <1>6, <1>7, <1>8, <1>9 DEF Next

\* An inode bit is set for each inode in use, and each bit of the sector map
\* that is set is one of one file's or of the log's: whatever is created and
\* removed in any order, no two files share a sector and none is lost.
THEOREM MapsCorrect == Spec => []MapsMatchInodes
<1>1. Init => MapsMatchInodes
  BY DEF Init, MapsMatchInodes
<1> QED BY <1>1, TableInvHolds, NextKeepsMaps, PTL DEF Spec

-----------------------------------------------------------------------------
(* Where files lie, on a partition of a size that fits.                    *)

\* A file begins where the first-fit search finds a place: in a row of files
\* behind `/', or behind cmd.tar when the row before it leaves no gap.
PlacesInv == halted = "no" => \A n \in imap : inodes[n].nr > 0 =>
  \/ /\ inodes[n].nr = NR_DEFAULT_FILE_SECTS
     /\ MayBegin(BitOf(sb, inodes[n].start))
     /\ BitOf(sb, inodes[n].start) + NR_DEFAULT_FILE_SECTS <= MapBits
  \/ inodes[n].nr = INSTALL_NR_SECTS /\ inodes[n].start = INSTALL_START_SECT

\* cmd.tar lies on the disk, and its first bit is before its first sector.
LEMMA TarPlace ==
  /\ TarBit \in Nat /\ TarBit > 1 /\ TarBit <= INSTALL_START_SECT
  /\ INSTALL_START_SECT \in Nat /\ INSTALL_NR_SECTS \in Nat \ {0}
  /\ DevSects \in Nat /\ INSTALL_START_SECT < DevSects
<1>1. /\ INSTALL_START_SECT \in Nat /\ INSTALL_NR_SECTS \in Nat \ {0} /\ DevSects \in Nat
      /\ NR_SECTS_FOR_LOG \in Nat /\ INSTALL_START_SECT + INSTALL_NR_SECTS < DevSects - NR_SECTS_FOR_LOG
  BY FsAssumption
<1>2. sb.n_1st_sect \in Nat /\ sb.n_1st_sect >= 1
  BY Sizes
<1>3. TarBit \in Nat /\ TarBit > 1
  BY FirstBits
<1>4. TarBit <= INSTALL_START_SECT
  BY <1>1, <1>2 DEF TarBit, BitOf
<1> QED BY <1>1, <1>3, <1>4

\* A step of N leads from one multiple of N to the next.
LEMMA RowGoesOn ==
  ASSUME NEW N \in Nat \ {0}, NEW x \in Nat, x % N = 0
  PROVE  (x + N) % N = 0
<1>1. PICK q : q = x \div N
  OBVIOUS
<1>2. PICK p : p = (x + N) \div N
  OBVIOUS
<1>3. PICK r : r = (x + N) % N
  OBVIOUS
<1>4. q \in Nat /\ x = q * N + (x % N)
  BY <1>1
<1>5. p \in Nat /\ r \in 0 .. N - 1 /\ x + N = p * N + r
  BY <1>2, <1>3
<1>6. x + N = (q + 1) * N
  BY <1>4
<1>7. PICK d \in Int : d = q + 1 - p
  BY <1>4, <1>5
<1>8. d * N = r
  BY <1>4, <1>5, <1>6, <1>7
<1>9. d >= 1 => d * N >= N
  OBVIOUS
<1>10. d <= -1 => d * N <= -N
  OBVIOUS
<1>11. d = 0
  BY <1>5, <1>8, <1>9, <1>10
<1> QED BY <1>3, <1>8, <1>11

\* The next place in a row.
LEMMA NextInRow ==
  ASSUME NEW b \in Nat, NEW from \in Nat, InRow(b, from)
  PROVE  InRow(b + NR_DEFAULT_FILE_SECTS, from)
<1>1. NR_DEFAULT_FILE_SECTS \in Nat \ {0} /\ b - from \in Nat /\ b >= from
  BY FsAssumption DEF InRow
<1>2. (b - from) % NR_DEFAULT_FILE_SECTS = 0
  BY DEF InRow
<1>3. ((b - from) + NR_DEFAULT_FILE_SECTS) % NR_DEFAULT_FILE_SECTS = 0
  BY <1>1, <1>2, RowGoesOn
<1>4. (b + NR_DEFAULT_FILE_SECTS) - from = (b - from) + NR_DEFAULT_FILE_SECTS
  BY <1>1
<1>5. b + NR_DEFAULT_FILE_SECTS >= from
  BY <1>1
<1>6. ((b + NR_DEFAULT_FILE_SECTS) - from) % NR_DEFAULT_FILE_SECTS = 0
  BY <1>3, <1>4, Zenon
<1> QED BY <1>5, <1>6 DEF InRow

\* The place behind a file is one where a file can begin.
LEMMA NextMayBegin ==
  ASSUME NEW b \in Nat, MayBegin(b)
  PROVE  MayBegin(b + NR_DEFAULT_FILE_SECTS)
<1>1. TarBit + INSTALL_NR_SECTS \in Nat
  BY FirstBits
<1> QED BY <1>1, NextInRow DEF MayBegin

\* The bits of a file that has some.
LEMMA OwnerBits ==
  ASSUME TableInv, MapsMatchInodes, PlacesInv, halted = "no", NEW n \in imap,
         NEW c, c \in Owner(n)
  PROVE  \E f \in Nat \ {0}, k \in Nat \ {0} :
           /\ f = BitOf(sb, inodes[n].start) /\ k = inodes[n].nr
           /\ Owner(n) = f .. f + k - 1
           /\ \/ k = NR_DEFAULT_FILE_SECTS /\ MayBegin(f)
              \/ k = INSTALL_NR_SECTS /\ f = TarBit
<1>1. inodes[n].start \in Nat /\ inodes[n].nr \in Nat
  BY DEF TableInv, TypeOK, Inodes
<1>2. get_super_block.n_1st_sect = sb.n_1st_sect /\ sb.n_1st_sect \in Nat
  BY SuperSays, Sizes
<1>3. PICK f : f = BitOf(sb, inodes[n].start)
  OBVIOUS
<1>4. PICK k : k = inodes[n].nr
  OBVIOUS
<1>5. f \in Int /\ Owner(n) = f .. f + k - 1
  BY <1>1, <1>2, <1>3, <1>4 DEF Owner, FileBits, Run, BitOf
<1>6. k \in Nat \ {0}
  BY <1>1, <1>4, <1>5
<1>7. f \in Nat \ {0}
  BY <1>1, <1>2, <1>3, <1>4, <1>6 DEF MapsMatchInodes, BitOf
<1>8. \/ k = NR_DEFAULT_FILE_SECTS /\ MayBegin(f)
      \/ k = INSTALL_NR_SECTS /\ f = TarBit
  BY <1>3, <1>4, <1>6 DEF PlacesInv, TarBit
<1> QED BY <1>3, <1>4, <1>5, <1>6, <1>7, <1>8

\* The first free bit, with room for a file behind it, is such a place.
LEMMA FirstFree ==
  ASSUME TableInv, MapsMatchInodes, PlacesInv, FilesFit, halted = "no", RunIsFree
  PROVE  MayBegin(FirstOf(FreeSects)) /\ FirstOf(FreeSects) + NR_DEFAULT_FILE_SECTS <= MapBits
<1>1. PICK b : b = FirstOf(FreeSects)
  OBVIOUS
<1>2. PICK N : N = NR_DEFAULT_FILE_SECTS
  OBVIOUS
<1>3. /\ N \in Nat \ {0} /\ MapBits \in Nat /\ MapBits > DevSects /\ DevSects \in Nat
      /\ MapBits < DevSects + N /\ Sects = 1 .. MapBits - 1
      /\ FirstOfLog \in Nat \ {0} /\ FirstOfLog > INSTALL_START_SECT + INSTALL_NR_SECTS
      /\ LogBits = FirstOfLog .. DevSects - 1
  BY <1>2, FirstBits, SuperSays, FsAssumption DEF FilesFit
<1>4. b \in FreeSects /\ b \in 1 .. MapBits - 1 /\ b \notin smap
  BY <1>1, <1>3, NewFile DEF FreeSects
<1>5. b + N <= MapBits
  <2>1. NewRun = b .. b + N - 1 /\ NewRun \subseteq Sects
    BY <1>1, <1>2 DEF RunIsFree, NewRun, Run, FreeSects
  <2>2. b + N - 1 \in Sects
    BY <2>1, <1>3, <1>4
  <2> QED BY <2>2, <1>3, <1>4
<1>6. \A c \in 1 .. b - 1 : c \in smap
  <2> SUFFICES ASSUME NEW c \in 1 .. b - 1, c \notin smap PROVE FALSE
    OBVIOUS
  <2>1. c \in FreeSects /\ c < b
    BY <1>3, <1>4 DEF FreeSects
  <2>2. FreeSects \subseteq Nat
    BY <1>3 DEF FreeSects
  <2>3. b <= c
    BY <2>1, <2>2, <1>1, FirstOfSet
  <2> QED BY <2>1, <2>3, <1>4
<1>7. smap = (UNION {Owner(m) : m \in imap}) \union Reserved
  BY DEF MapsMatchInodes
<1>8. CASE b = 1
  <2>1. 0 % N = 0
    BY <1>3
  <2> QED BY <2>1, <1>1, <1>2, <1>5, <1>8 DEF MayBegin, InRow
<1>9. CASE b - 1 \in Reserved
  <2>1. b - 1 \in LogBits /\ b \notin LogBits
    BY <1>4, <1>7, <1>9 DEF Reserved
  <2>2. b = DevSects
    BY <2>1, <1>3, <1>4
  <2> QED BY <2>2, <1>3, <1>5
<1>10. ASSUME NEW m \in imap, b - 1 \in Owner(m)
       PROVE  MayBegin(b)
  <2>1. PICK f \in Nat \ {0}, k \in Nat \ {0} :
           /\ Owner(m) = f .. f + k - 1
           /\ \/ k = NR_DEFAULT_FILE_SECTS /\ MayBegin(f)
              \/ k = INSTALL_NR_SECTS /\ f = TarBit
    BY <1>10, OwnerBits
  <2>2. b = f + k
    <3>1. b \notin Owner(m)
      BY <1>4, <1>7
    <3> QED BY <3>1, <2>1, <1>4, <1>10
  <2>3. CASE k = NR_DEFAULT_FILE_SECTS /\ MayBegin(f)
    BY <2>2, <2>3, NextMayBegin
  <2>4. CASE k = INSTALL_NR_SECTS /\ f = TarBit
    <3>1. TarBit \in Nat /\ TarBit > 1 /\ TarBit <= INSTALL_START_SECT
          /\ INSTALL_START_SECT \in Nat /\ INSTALL_NR_SECTS \in Nat \ {0}
      BY TarPlace
    <3>2. TarBit - 1 \in smap
      BY <3>1, <2>2, <2>4, <1>4, <1>6
    <3>3. TarBit - 1 \notin Reserved
      BY <3>1, <1>3 DEF Reserved
    <3>4. PICK j \in imap : TarBit - 1 \in Owner(j)
      BY <3>2, <3>3, <1>7
    <3>5. PICK g \in Nat \ {0}, l \in Nat \ {0} :
             /\ Owner(j) = g .. g + l - 1
             /\ \/ l = NR_DEFAULT_FILE_SECTS /\ MayBegin(g)
                \/ l = INSTALL_NR_SECTS /\ g = TarBit
      BY <3>4, OwnerBits
    <3>6. TarBit - 1 \notin Owner(m) /\ TarBit \in Owner(m)
      BY <3>1, <2>1, <2>4
    <3>7. TarBit \notin Owner(j)
      BY <3>4, <3>6 DEF MapsMatchInodes
    <3>8. g + l = TarBit
      BY <3>1, <3>4, <3>5, <3>7
    <3>9. l = NR_DEFAULT_FILE_SECTS /\ MayBegin(g)
      BY <3>1, <3>5, <3>8
    <3>10. InRow(TarBit, 1)
      BY <3>5, <3>8, <3>9, NextInRow DEF MayBegin
    <3>11. InRow(b, TarBit + INSTALL_NR_SECTS)
      <4>1. b = TarBit + INSTALL_NR_SECTS /\ b - (TarBit + INSTALL_NR_SECTS) = 0 /\ 0 % N = 0
        BY <3>1, <2>2, <2>4, <1>3
      <4> QED BY <4>1, <3>1, <1>2 DEF InRow
    <3> QED BY <3>10, <3>11 DEF MayBegin
  <2> QED BY <2>1, <2>3, <2>4
<1>11. b = 1 \/ b - 1 \in 1 .. b - 1
  BY <1>3, <1>4
<1>12. b = 1 \/ b - 1 \in Reserved \/ \E m \in imap : b - 1 \in Owner(m)
  BY <1>6, <1>7, <1>11
<1> QED BY <1>1, <1>2, <1>5, <1>8, <1>9, <1>10, <1>12

\* What mkfs(), create_file and do_unlink do to the places of the files.
LEMMA NextKeepsPlaces ==
  FilesFit /\ TableInv /\ MapsMatchInodes /\ PlacesInv /\ [Next]_fsvars => PlacesInv'
<1> SUFFICES ASSUME FilesFit, TableInv, MapsMatchInodes, PlacesInv, [Next]_fsvars, halted' = "no"
             PROVE  PlacesInv'
  BY DEF PlacesInv
<1>1. ASSUME UNCHANGED <<inodes, imap>>, halted = "no"
      PROVE  PlacesInv'
  BY <1>1 DEF PlacesInv
<1>2. CASE init_fs
  <2>1. PICK L : L = Len(Ttys) + 2
    OBVIOUS
  <2>2. L \in Nat /\ L >= 2 /\ L <= MaxNum /\ MaxNum \in Nat
    BY <2>1, Sizes
  <2>3. /\ imap' = 1 .. L
        /\ inodes' = [n \in Nums |-> IF n <= L THEN FirstInodes[n]
                                     ELSE IF n <= InodesPerSect THEN NoInode ELSE inodes[n]]
    BY <1>2, <2>1, FirstInodesMade DEF init_fs, mkfs
  <2>4. \A n \in 1 .. L : n \in Nums /\ inodes'[n] = FirstInodes[n]
    BY <2>2, <2>3 DEF Nums
  <2>5. /\ inodes'[1] = RootInode /\ inodes'[L] = TarInode
        /\ \A n \in 2 .. L - 1 : inodes'[n].nr = 0
    BY <2>1, <2>2, <2>4, FirstInodesMade
  <2>6. /\ RootInode.nr = NR_DEFAULT_FILE_SECTS /\ BitOf(sb, RootInode.start) = 1
        /\ TarInode.nr = INSTALL_NR_SECTS /\ TarInode.start = INSTALL_START_SECT
    BY Sizes DEF RootInode, TarInode, DiskInode, BitOf
  <2>7. MayBegin(1)
    <3>1. 0 % NR_DEFAULT_FILE_SECTS = 0
      BY FirstBits
    <3> QED BY <3>1 DEF MayBegin, InRow
  <2>8. 1 + NR_DEFAULT_FILE_SECTS <= MapBits
    <3>1. TarBit <= INSTALL_START_SECT /\ INSTALL_START_SECT < DevSects
      BY TarPlace
    <3>2. DevSects < MapBits /\ MapBits \in Nat
      <4>1. DevSects \in Nat /\ BitsPerSect \in Nat \ {0}
        BY FsAssumption
      <4>2. PICK d : d = DevSects \div BitsPerSect
        OBVIOUS
      <4>3. /\ d \in Nat /\ DevSects % BitsPerSect \in 0 .. BitsPerSect - 1
            /\ DevSects = d * BitsPerSect + (DevSects % BitsPerSect)
        BY <4>1, <4>2
      <4>4. MapBits = (d + 1) * BitsPerSect
        BY <4>2, Sizes DEF MapBits
      <4> QED BY <4>1, <4>3, <4>4
    <3>4. /\ DevSects \in Nat /\ INSTALL_START_SECT \in Nat /\ MapBits \in Int
          /\ TarBit \in Nat /\ TarBit > NR_DEFAULT_FILE_SECTS /\ NR_DEFAULT_FILE_SECTS \in Nat
      BY <3>2, TarPlace, FirstBits
    <3> QED BY <3>1, <3>2, <3>4
  <2>9. \A n \in imap' : n = 1 \/ n = L \/ n \in 2 .. L - 1
    BY <2>2, <2>3
  <2> QED BY <2>5, <2>6, <2>7, <2>8, <2>9 DEF PlacesInv
<1>3. ASSUME NEW p \in Procs, NEW path \in Paths, open(p, path)
      PROVE  PlacesInv'
  <2>1. CASE OpenPanics(p) \/ OpenExisting(p, path)
    BY <2>1, <1>1 DEF OpenPanics, OpenExisting, MayCall, Halt, fixed, disk
  <2>2. CASE Create(p, path)
    <3>1. PICK n : n = FirstOf(FreeNums)
      OBVIOUS
    <3>2. PICK new : new = DiskInode("REG", FirstOf(NewRun) - 1 + get_super_block.n_1st_sect,
                                     NR_DEFAULT_FILE_SECTS)
      OBVIOUS
    <3>3. /\ halted = "no" /\ FreeNums # {} /\ RunIsFree
          /\ imap' = imap \union {n}
          /\ inodes' = [inodes EXCEPT ![n] = new]
      BY <2>2, <3>1, <3>2 DEF Create, MayCall, fixed
    <3>4. n \in Nums
      <4>1. FreeNums \subseteq Nat
        BY Sizes DEF FreeNums
      <4> QED BY <4>1, <3>1, <3>3, FirstOfSet DEF FreeNums
    <3>5. /\ inodes'[n] = new /\ \A m \in imap : m # n => inodes'[m] = inodes[m]
      BY <3>3, <3>4 DEF TableInv, TypeOK
    <3>6. new.nr = NR_DEFAULT_FILE_SECTS /\ BitOf(sb, new.start) = FirstOf(FreeSects)
      <4>1. FirstOf(NewRun) = FirstOf(FreeSects) /\ FirstOf(FreeSects) \in Int
        BY <3>3, NewFile, SuperSays DEF FreeSects
      <4>2. get_super_block.n_1st_sect = sb.n_1st_sect /\ sb.n_1st_sect \in Nat
        BY <3>3, SuperSays, Sizes
      <4> QED BY <4>1, <4>2, <3>2 DEF DiskInode, BitOf
    <3>7. MayBegin(FirstOf(FreeSects)) /\ FirstOf(FreeSects) + NR_DEFAULT_FILE_SECTS <= MapBits
      BY <3>3, FirstFree
    <3> QED BY <3>3, <3>5, <3>6, <3>7 DEF PlacesInv
  <2> QED BY <1>3, <2>1, <2>2 DEF open
<1>4. ASSUME NEW p \in Procs, NEW path \in Paths, unlink(p, path)
      PROVE  PlacesInv'
  <2>1. CASE UnlinkRefused(p, path) \/ UnlinkAbsent(p, path)
    BY <2>1, <1>1 DEF UnlinkRefused, UnlinkAbsent, MayCall, fixed
  <2>2. CASE Unlink(p, path)
    <3>1. PICK n : n = Lookup(path)
      OBVIOUS
    <3>2. /\ halted = "no" /\ imap' = imap \ {n}
          /\ inodes' = [inodes EXCEPT ![n] = NoInode]
      BY <2>2, <3>1 DEF Unlink, MayCall
    <3>3. \A m \in imap' : m \in imap /\ inodes'[m] = inodes[m]
      BY <3>2 DEF TableInv, TypeOK
    <3> QED BY <3>2, <3>3 DEF PlacesInv
  <2>3. CASE UnlinkPanics(p, path)
    BY <2>3 DEF UnlinkPanics, Halt
  <2> QED BY <1>4, <2>1, <2>2, <2>3 DEF unlink
<1>5. ASSUME NEW p \in Procs, NEW f \in Fds, close(p, f)
      PROVE  PlacesInv'
  BY <1>1, <1>5 DEF close, Close, MayCall, fixed, disk
<1>6. ASSUME NEW p \in Procs, NEW c \in Procs, ForkCopy(p, c)
      PROVE  PlacesInv'
  BY <1>1, <1>6 DEF ForkCopy, MayCall, disk
<1>7. ASSUME NEW p \in Procs, FsExit(p)
      PROVE  PlacesInv'
  BY <1>1, <1>7 DEF FsExit, MayCall, disk
<1>8. CASE FsFork
  BY <1>1, <1>8 DEF FsFork, disk
<1>9. CASE UNCHANGED fsvars
  BY <1>1, <1>9 DEF fsvars
<1> QED BY <1>2, <1>3, <1>4, <1>5, <1>6, <1>7, <1>8, <1>9 DEF Next

\* A file in such a place lies on the disk and outside the log.
LEMMA PlacesFit ==
  ASSUME FilesFit, TableInv, MapsMatchInodes, PlacesInv
  PROVE  FilesOnDisk
<1> SUFFICES ASSUME halted = "no", NEW n \in imap, inodes[n].nr > 0
             PROVE  /\ inodes[n].start + inodes[n].nr <= DevSects
                    /\ log => Run(inodes[n].start, inodes[n].nr) \intersect LogSects = {}
  BY DEF FilesOnDisk
<1>1. PICK s : s = inodes[n].start
  OBVIOUS
<1>2. PICK N : N = NR_DEFAULT_FILE_SECTS
  OBVIOUS
<1>3. /\ N \in Nat \ {0} /\ INSTALL_NR_SECTS \in Nat \ {0} /\ INSTALL_START_SECT \in Nat
      /\ MapBits \in Nat /\ DevSects \in Nat /\ MapBits < DevSects + N
      /\ FirstOfLog \in Nat \ {0} /\ FirstOfLog > INSTALL_START_SECT + INSTALL_NR_SECTS
      /\ LogBits = FirstOfLog .. DevSects - 1 /\ LogSects = LogBits
      /\ FirstOfLog < DevSects
  <2>1. FirstOfLog < DevSects
    BY FsAssumption DEF FirstOfLog
  <2> QED BY <2>1, <1>2, FirstBits, SuperSays, FsAssumption DEF FilesFit, LogBits
<1>4. s \in Nat /\ sb.n_1st_sect \in Nat /\ s >= sb.n_1st_sect
  <2>1. s \in Nat /\ s >= get_super_block.n_1st_sect
    BY <1>1 DEF TableInv, TypeOK, Inodes, MapsMatchInodes
  <2> QED BY <2>1, SuperSays, Sizes
<1>5. CASE inodes[n].nr = INSTALL_NR_SECTS /\ s = INSTALL_START_SECT
  <2>1. s + INSTALL_NR_SECTS < FirstOfLog
    BY <1>3, <1>5
  <2> QED BY <2>1, <1>1, <1>3, <1>5 DEF Run
<1>6. CASE /\ inodes[n].nr = N /\ MayBegin(BitOf(sb, s)) /\ BitOf(sb, s) + N <= MapBits
  <2>1. PICK b : b = BitOf(sb, s)
    OBVIOUS
  <2>2. b \in Nat \ {0} /\ b = s - sb.n_1st_sect + 1 /\ b \in 1 .. MapBits
    BY <2>1, <1>3, <1>4, <1>6 DEF BitOf
  <2>3. b - 1 + sb.n_1st_sect + N = s + N
    BY <2>2, <1>3, <1>4, SMTT(30)
  <2>4. s + N <= DevSects /\ (b + N <= FirstOfLog => s + N <= FirstOfLog)
    BY <2>1, <2>2, <2>3, <1>2, <1>6 DEF FilesFit
  <2>5. ASSUME log PROVE Run(s, N) \intersect LogSects = {}
    <3>1. Owner(n) = b .. b + N - 1
      BY <2>1, <1>1, <1>6, SuperSays DEF Owner, FileBits, BitOf, Run
    <3>2. Owner(n) \intersect LogBits = {}
      BY <2>5 DEF MapsMatchInodes, Reserved
    <3>3. CASE b + N <= FirstOfLog
      BY <3>3, <2>4, <1>3, <1>4 DEF Run
    <3>4. CASE b + N > FirstOfLog
      <4>1. b >= DevSects
        <5> SUFFICES ASSUME b < DevSects PROVE FALSE
          BY <2>2, <1>3
        <5>1. CASE b >= FirstOfLog
          <6>1. b \in Owner(n) /\ b \in LogBits
            BY <5>1, <3>1, <2>2, <1>3
          <6> QED BY <6>1, <3>2
        <5>2. CASE b < FirstOfLog
          <6>1. FirstOfLog \in Owner(n) /\ FirstOfLog \in LogBits
            BY <5>2, <3>1, <3>4, <2>2, <1>3
          <6> QED BY <6>1, <3>2
        <5> QED BY <5>1, <5>2, <2>2, <1>3
      <4> QED BY <4>1, <2>1, <2>2, <1>3, <1>6
    <3> QED BY <3>3, <3>4, <2>2, <1>3
  <2> QED BY <2>4, <2>5, <1>1, <1>6
<1> QED BY <1>1, <1>2, <1>5, <1>6 DEF PlacesInv

\* Every file lies on the disk, and none has a sector the log writes, if the
\* partition has such a size as that of the repository has.
THEOREM FilesStayOnDisk == FilesFit /\ Spec => []FilesOnDisk
<1>1. Init => MapsMatchInodes /\ PlacesInv
  BY DEF Init, MapsMatchInodes, PlacesInv
<1>2. ASSUME FilesFit
      PROVE  TableInv /\ MapsMatchInodes /\ PlacesInv /\ [Next]_fsvars => PlacesInv'
  BY <1>2, NextKeepsPlaces
<1>3. ASSUME FilesFit PROVE TableInv /\ MapsMatchInodes /\ PlacesInv => FilesOnDisk
  BY <1>3, PlacesFit
<1>4. ASSUME FilesFit PROVE Spec => []FilesOnDisk
  BY <1>1, <1>2, <1>3, <1>4, TableInvHolds, MapsCorrect, PTL DEF Spec
<1> QED BY <1>4

-----------------------------------------------------------------------------
(* The graph of dump_fd_graph().                                           *)

\* What the inode array holds for an inode that is free, and for one in use:
\* the loop of dump_fd_graph() goes by i_start_sect.
ArrayInv == halted = "no" => \A n \in Nums :
  IF inodes[n].mode = "none" THEN inodes[n].start = 0
  ELSE /\ inodes[n].start >= sb.n_1st_sect
       /\ inodes[n].mode = "REG" => inodes[n].nr > 0

\* A new file begins behind the inode array.
LEMMA NewStart ==
  ASSUME TableInv, MapsMatchInodes, halted = "no", RunIsFree
  PROVE  /\ FirstOf(NewRun) \in Nat \ {0}
         /\ FirstOf(NewRun) - 1 + get_super_block.n_1st_sect >= sb.n_1st_sect
<1>1. FirstOf(NewRun) \in Nat \ {0}
  BY NewFile
<1>2. get_super_block.n_1st_sect = sb.n_1st_sect /\ sb.n_1st_sect \in Nat
  BY SuperSays, Sizes
<1> QED BY <1>1, <1>2

\* What mkfs(), create_file and do_unlink do to the inode array.
LEMMA NextKeepsArray == TableInv /\ MapsMatchInodes /\ ArrayInv /\ [Next]_fsvars => ArrayInv'
<1> SUFFICES ASSUME TableInv, MapsMatchInodes, ArrayInv, [Next]_fsvars, halted' = "no"
             PROVE  ArrayInv'
  BY DEF ArrayInv
<1>1. ASSUME UNCHANGED inodes, halted = "no"
      PROVE  ArrayInv'
  BY <1>1 DEF ArrayInv
<1>2. CASE init_fs
  <2>1. PICK L : L = Len(Ttys) + 2
    OBVIOUS
  <2>2. L \in Nat /\ L >= 2 /\ L <= MaxNum /\ MaxNum \in Nat
    BY <2>1, Sizes
  <2>3. inodes' = [n \in Nums |-> IF n <= L THEN FirstInodes[n]
                                  ELSE IF n <= InodesPerSect THEN NoInode ELSE inodes[n]]
    BY <1>2, <2>1, FirstInodesMade DEF init_fs, mkfs
  <2>4. inodes = [n \in Nums |-> NoInode]
    BY <1>2 DEF init_fs, TableInv, Init
  <2>5. \A n \in Nums : inodes'[n] = IF n <= L THEN FirstInodes[n] ELSE NoInode
    BY <2>3, <2>4
  <2>6. \A n \in 1 .. L : /\ FirstInodes[n].mode # "none" /\ FirstInodes[n].start >= sb.n_1st_sect
                          /\ FirstInodes[n].mode = "REG" => FirstInodes[n].nr > 0
    BY <2>1, FirstInodesMade
  <2>7. NoInode.mode = "none" /\ NoInode.start = 0
    BY DEF NoInode, DiskInode
  <2> QED BY <2>2, <2>5, <2>6, <2>7 DEF ArrayInv, Nums
<1>3. ASSUME NEW p \in Procs, NEW path \in Paths, open(p, path)
      PROVE  ArrayInv'
  <2>1. CASE OpenPanics(p) \/ OpenExisting(p, path)
    BY <2>1, <1>1 DEF OpenPanics, OpenExisting, MayCall, Halt, fixed, disk
  <2>2. CASE Create(p, path)
    <3>1. PICK n : n = FirstOf(FreeNums)
      OBVIOUS
    <3>2. PICK new : new = DiskInode("REG", FirstOf(NewRun) - 1 + get_super_block.n_1st_sect,
                                     NR_DEFAULT_FILE_SECTS)
      OBVIOUS
    <3>3. /\ halted = "no" /\ FreeNums # {} /\ RunIsFree
          /\ inodes' = [inodes EXCEPT ![n] = new]
      BY <2>2, <3>1, <3>2 DEF Create, MayCall, fixed
    <3>4. new.mode = "REG" /\ new.start >= sb.n_1st_sect /\ new.nr > 0
      <4>1. NR_DEFAULT_FILE_SECTS > 0
        BY FsAssumption
      <4> QED BY <4>1, <3>2, <3>3, NewStart DEF DiskInode
    <3>5. \A m \in Nums : inodes'[m] = IF m = n THEN new ELSE inodes[m]
      BY <3>3 DEF TableInv, TypeOK
    <3> QED BY <3>3, <3>4, <3>5 DEF ArrayInv
  <2> QED BY <1>3, <2>1, <2>2 DEF open
<1>4. ASSUME NEW p \in Procs, NEW path \in Paths, unlink(p, path)
      PROVE  ArrayInv'
  <2>1. CASE UnlinkRefused(p, path) \/ UnlinkAbsent(p, path)
    BY <2>1, <1>1 DEF UnlinkRefused, UnlinkAbsent, MayCall, fixed
  <2>2. CASE Unlink(p, path)
    <3>1. PICK n : n = Lookup(path)
      OBVIOUS
    <3>2. halted = "no" /\ inodes' = [inodes EXCEPT ![n] = NoInode]
      BY <2>2, <3>1 DEF Unlink, MayCall
    <3>3. \A m \in Nums : inodes'[m] = IF m = n THEN NoInode ELSE inodes[m]
      BY <3>2 DEF TableInv, TypeOK
    <3>4. NoInode.mode = "none" /\ NoInode.start = 0
      BY DEF NoInode, DiskInode
    <3> QED BY <3>2, <3>3, <3>4 DEF ArrayInv
  <2>3. CASE UnlinkPanics(p, path)
    BY <2>3 DEF UnlinkPanics, Halt
  <2> QED BY <1>4, <2>1, <2>2, <2>3 DEF unlink
<1>5. ASSUME NEW p \in Procs, NEW f \in Fds, close(p, f)
      PROVE  ArrayInv'
  BY <1>1, <1>5 DEF close, Close, MayCall, fixed, disk
<1>6. ASSUME NEW p \in Procs, NEW c \in Procs, ForkCopy(p, c)
      PROVE  ArrayInv'
  BY <1>1, <1>6 DEF ForkCopy, MayCall, disk
<1>7. ASSUME NEW p \in Procs, FsExit(p)
      PROVE  ArrayInv'
  BY <1>1, <1>7 DEF FsExit, MayCall, disk
<1>8. CASE FsFork
  BY <1>1, <1>8 DEF FsFork, disk
<1>9. CASE UNCHANGED fsvars
  BY <1>1, <1>9 DEF fsvars
<1> QED BY <1>2, <1>3, <1>4, <1>5, <1>6, <1>7, <1>8, <1>9 DEF Next

\* The bits of a file, from the super block FS reads.
LEMMA FileOwns ==
  ASSUME TableInv, ArrayInv, halted = "no", NEW n \in Nums, inodes[n].mode # "none"
  PROVE  \E f \in Nat \ {0}, k \in Nat :
           /\ f = BitOf(get_super_block, inodes[n].start) /\ k = inodes[n].nr
           /\ Owner(n) = f .. f + k - 1
           /\ inodes[n].mode = "REG" => k > 0
<1>1. inodes[n].start \in Nat /\ inodes[n].nr \in Nat
  BY DEF TableInv, TypeOK, Inodes
<1>2. get_super_block.n_1st_sect = sb.n_1st_sect /\ sb.n_1st_sect \in Nat
  BY SuperSays, Sizes
<1>3. PICK f : f = BitOf(get_super_block, inodes[n].start)
  OBVIOUS
<1>4. inodes[n].start >= sb.n_1st_sect /\ (inodes[n].mode = "REG" => inodes[n].nr > 0)
  BY DEF ArrayInv
<1>5. f \in Nat \ {0}
  BY <1>1, <1>2, <1>3, <1>4 DEF BitOf
<1>6. Owner(n) = f .. f + inodes[n].nr - 1
  BY <1>3 DEF Owner, FileBits, Run
<1> QED BY <1>1, <1>3, <1>4, <1>5, <1>6

\* The bits that are set are numbers.
LEMMA SmapNumbers ==
  ASSUME TableInv, MapsMatchInodes, ArrayInv, halted = "no"
  PROVE  smap \subseteq Nat \ {0}
<1> SUFFICES ASSUME NEW b \in smap PROVE b \in Nat \ {0}
  OBVIOUS
<1>1. b \in Reserved \/ \E n \in imap : b \in Owner(n)
  BY DEF MapsMatchInodes
<1>2. CASE b \in Reserved
  BY <1>2, SuperSays DEF Reserved
<1>3. CASE \E n \in imap : b \in Owner(n)
  <2>1. PICK n \in imap : b \in Owner(n)
    BY <1>3
  <2>2. n \in Nums /\ inodes[n].mode # "none"
    BY <2>1 DEF MapsMatchInodes
  <2> QED BY <2>1, <2>2, FileOwns
<1> QED BY <1>1, <1>2, <1>3

\* A run of bits that are set lies in one that the loop of dump_fd_graph() draws,
\* if there is a clear bit behind it.
LEMMA RunDrawn ==
  ASSUME smap \subseteq Nat \ {0}, NEW M \in Nat, Sects = 1 .. M - 1,
         NEW first \in Nat \ {0}, NEW last \in Nat, first <= last, first .. last \subseteq smap,
         NEW c \in Sects, c >= last, c \notin smap
  PROVE  \E r \in SmapRuns : r[1] <= first /\ last <= r[2]
<1> DEFINE Clear == {x \in Nat : x > last /\ x \in Sects /\ x \notin smap}
<1>1. c \in Clear
  <2>1. last \in smap
    OBVIOUS
  <2> QED BY <2>1
<1>2. PICK x \in Clear : \A y \in Clear : x <= y
  BY <1>1, LeastNumber
<1>3. PICK e : e = x - 1
  OBVIOUS
<1>4. /\ e \in Nat /\ e >= last /\ e + 1 = x /\ x \in Sects /\ x \notin smap
      /\ \A y \in first .. e : y \in smap
  <2>1. x \in Nat /\ x > last /\ x \in 1 .. M - 1 /\ x \notin smap
    BY <1>2
  <2>2. ASSUME NEW y \in first .. e PROVE y \in smap
    <3>1. CASE y <= last
      BY <3>1
    <3>2. CASE y > last
      <4>1. y \in Nat /\ y < x /\ y \in 1 .. M - 1
        BY <2>1, <2>2, <3>2, <1>3
      <4> QED BY <4>1, <3>2, <1>2, <2>1
    <3> QED BY <3>1, <3>2, <2>1, <1>3
  <2> QED BY <2>1, <2>2, <1>3
<1>5. e \in RunEnds
  <2>1. e \in smap
    BY <1>4
  <2> QED BY <2>1, <1>4 DEF RunEnds, SetBits
<1> DEFINE Before == {d \in Nat : d <= first /\ first - d \in RunStarts}
<1>6. first \in Before
  <2>1. 0 \in RunStarts
    BY DEF RunStarts, SetBits
  <2> QED BY <2>1
<1>7. PICK d \in Before : \A z \in Before : d <= z
  BY <1>6, LeastNumber
<1>8. PICK b : b = first - d
  OBVIOUS
<1>9. b \in RunStarts /\ b \in Nat /\ b <= first
  BY <1>7, <1>8
<1>10. ASSUME NEW s \in RunStarts PROVE s <= b \/ e < s
  <2>1. s \in Nat
    BY DEF RunStarts, SetBits
  <2>2. CASE s <= first
    <3>1. first - s \in Nat /\ first - s <= first /\ first - (first - s) = s
      BY <2>1, <2>2
    <3>2. first - s \in Before
      BY <3>1
    <3>3. d <= first - s
      BY <3>2, <1>7
    <3> QED BY <3>3, <2>1, <1>7, <1>8
  <2>3. CASE s > first
    <3>1. s - 1 \notin smap
      BY DEF RunStarts, SetBits
    <3>2. s <= e => s - 1 \in first .. e
      BY <2>1, <2>3, <1>4
    <3> QED BY <3>1, <3>2, <2>1, <1>4
  <2> QED BY <2>1, <2>2, <2>3
<1>11. b <= e
  BY <1>4, <1>9
<1>12. <<b, e>> \in SmapRuns
  BY <1>5, <1>9, <1>10, <1>11 DEF SmapRuns
<1> QED BY <1>4, <1>9, <1>12

\* The sectors of a file are in one run.
LEMMA FileDrawn ==
  ASSUME TableInv, MapsMatchInodes, ArrayInv, halted = "no",
         NEW n \in Nums, inodes[n].mode = "REG"
  PROVE  InDrawnRun(n)
<1>1. PICK f \in Nat \ {0}, k \in Nat :
        /\ f = BitOf(get_super_block, inodes[n].start) /\ k = inodes[n].nr
        /\ Owner(n) = f .. f + k - 1 /\ k > 0
  BY FileOwns
<1>2. PICK l : l = f + k - 1
  OBVIOUS
<1>3. l \in Nat /\ f <= l
  BY <1>1, <1>2
<1>4. f .. l \subseteq smap
  BY <1>1, <1>2 DEF MapsMatchInodes
<1>5. smap \subseteq Nat \ {0} /\ MapBits \in Nat /\ Sects = 1 .. MapBits - 1
  BY SmapNumbers, SuperSays
<1>6. ASSUME NEW c \in {b \in Sects : b >= l}, c \notin smap
      PROVE  \E r \in SmapRuns : r[1] <= f /\ l <= r[2]
  BY <1>3, <1>4, <1>5, <1>6, RunDrawn
<1>7. (\E r \in SmapRuns : r[1] <= f /\ l <= r[2]) \/ {b \in Sects : b >= l} \subseteq smap
  BY <1>6
<1> QED BY <1>1, <1>2, <1>7 DEF InDrawnRun

\* The nodes of the inode array are the inodes in use.
LEMMA ArrayDrawn ==
  ASSUME TableInv, MapsMatchInodes, ArrayInv, halted = "no"
  PROVE  /\ ArrayNodes = {<<"inodearray", n>> : n \in {m \in imap : m <= InodesPerSect}}
         /\ imap = {n \in Nums : inodes[n].mode # "none"} /\ imap \subseteq Nat \ {0}
<1>1. imap = {n \in Nums : inodes[n].mode # "none"} /\ imap \subseteq Nat \ {0}
  BY Sizes DEF MapsMatchInodes
<1>2. \A n \in Nums : inodes[n].start # 0 <=> n \in imap
  <2> TAKE n \in Nums
  <2>1. inodes[n].start \in Nat
    BY DEF TableInv, TypeOK, Inodes
  <2>2. sb.n_1st_sect > 0 /\ sb.n_1st_sect \in Nat
    BY Sizes
  <2> QED BY <2>1, <2>2, <1>1 DEF ArrayInv
<1>3. {n \in Nums : n <= InodesPerSect /\ inodes[n].start # 0} = {m \in imap : m <= InodesPerSect}
  BY <1>1, <1>2
<1> QED BY <1>1, <1>3 DEF ArrayNodes, Node

\* Each arrow leads from a node to a node.
LEMMA NoLooseEnds ==
  ASSUME TableInv, MapsMatchInodes, ArrayInv, halted = "no"
  PROVE  LooseEnds = {}
<1>1. /\ TypeOK /\ ForkInv /\ DescsCounted /\ UsersCounted
  BY DEF TableInv, UsersCounted, DescsCounted
<1>2. \A m \in imap : m <= InodesPerSect => <<"inodearray", m>> \in ArrayNodes
  BY ArrayDrawn
<1>3. \A a \in ProcArrows : a[1] \in Nodes /\ a[2] \in Nodes
  <2> SUFFICES ASSUME NEW h \in UsedProcs \X Fds, filp[h[1]][h[2]] # NONE
               PROVE  <<"proc", h[1]>> \in ProcNodes /\ <<"filedesc", filp[h[1]][h[2]]>> \in DescNodes
    BY DEF ProcArrows, Nodes
  <2>1. PICK p \in alive : filp[p] = filp[h[1]]
    <3>1. h[1] \in alive \/ (h[1] = forking.child /\ h[1] # NIL)
      BY DEF UsedProcs
    <3>2. forking = NoFork => forking.child = NIL
      BY DEF NoFork
    <3> QED BY <3>1, <3>2, <1>1 DEF ForkInv
  <2>2. <<p, h[2]>> \in Holders
    BY <1>1, <2>1, HoldersAlive
  <2>3. f_desc_table[filp[h[1]][h[2]]].inode \in Slots /\ filp[h[1]][h[2]] \in Descs
    BY <1>1, <2>1, <2>2, HoldersThere
  <2>4. f_desc_table[filp[h[1]][h[2]]].inode # NONE
    BY <2>3, Sizes
  <2> QED BY <2>3, <2>4 DEF ProcNodes, DescNodes, Node, UsedDescs
<1>4. \A a \in DescArrows : a[1] \in Nodes /\ a[2] \in Nodes
  <2> SUFFICES ASSUME NEW d \in UsedDescs
               PROVE  <<"filedesc", d>> \in DescNodes /\ <<"inode", f_desc_table[d].inode>> \in InodeNodes
    BY DEF DescArrows, Nodes
  <2>1. d \in Descs /\ f_desc_table[d].inode # NONE
    BY DEF UsedDescs
  <2>2. PICK h \in Holders : h \in HoldersOf(d) /\ filp[h[1]][h[2]] = d
    BY <2>1, <1>1 DEF DescsCounted, HoldersOf
  <2>3. PICK s : s = f_desc_table[d].inode
    OBVIOUS
  <2>4. s \in Slots /\ h \in UsersOf(s)
    BY <2>1, <2>2, <2>3, <1>1, HoldersThere DEF UsersOf
  <2>5. Cardinality(UsersOf(s)) \in Nat /\ Cardinality(UsersOf(s)) # 0
    BY <2>4, <1>1, HoldersAlive, FS_EmptySet
  <2>6. inode_table[s].cnt # 0
    <3>1. inode_table[s].cnt >= Cardinality(UsersOf(s)) + IF s = 0 /\ halted # "init" THEN 1 ELSE 0
      BY <2>4, <1>1 DEF UsersCounted
    <3>2. inode_table[s].cnt \in Int
      BY <2>4, <1>1 DEF TypeOK
    <3> QED BY <3>1, <3>2, <2>5
  <2> QED BY <2>3, <2>4, <2>6 DEF DescNodes, InodeNodes, Node, UsedSlots
<1>5. \A a \in InodeArrows : /\ a[1] \in Nodes
                             /\ a[2] \in Nodes \/ (a[2][1] = "inodearray" /\ a[2][2] > InodesPerSect)
  <2> SUFFICES ASSUME NEW s \in UsedSlots
               PROVE  /\ <<"inode", s>> \in InodeNodes
                      /\ <<"inodearray", inode_table[s].num>> \in ArrayNodes
                         \/ inode_table[s].num > InodesPerSect
    BY DEF InodeArrows, Nodes
  <2>1. s \in Slots /\ inode_table[s].cnt # 0
    BY DEF UsedSlots
  <2>2. inode_table[s].cnt > 0
    <3>1. inode_table[s].cnt >= Cardinality(UsersOf(s)) + IF s = 0 /\ halted # "init" THEN 1 ELSE 0
      BY <2>1, <1>1 DEF UsersCounted
    <3>2. inode_table[s].cnt \in Int /\ Cardinality(UsersOf(s)) \in Nat
      BY <2>1, <1>1, HoldersAlive DEF TypeOK
    <3> QED BY <3>1, <3>2, <2>1
  <2>3. inode_table[s].num \in imap
    BY <2>1, <2>2, ArrayDrawn DEF TableInv, SlotsInUse
  <2>4. inode_table[s].num \in Nat /\ InodesPerSect \in Nat
    BY <2>3, ArrayDrawn, FsAssumption
  <2> QED BY <2>1, <2>3, <2>4, <1>2 DEF InodeNodes, Node, UsedSlots
<1>6. \A a \in DirArrows : /\ a[2] \in Nodes
                           /\ a[1] \in Nodes \/ (a[1][1] = "inodearray" /\ a[1][2] > InodesPerSect)
  <2> SUFFICES ASSUME NEW v \in DirNodes
               PROVE  <<"inodearray", v[2]>> \in ArrayNodes \/ v[2] > InodesPerSect
    BY DEF DirArrows, Nodes
  <2>1. PICK i \in 1 .. MaxDir : v = <<"rootdirent", dir[i].inode_nr>> /\ dir[i].inode_nr # 0
    BY DEF DirNodes, Node, ScannedEntries
  <2>2. dir[i].inode_nr \in imap
    BY <2>1 DEF TableInv, EntriesInv
  <2>3. dir[i].inode_nr \in Nat /\ InodesPerSect \in Nat
    BY <2>2, ArrayDrawn, FsAssumption
  <2> QED BY <2>1, <2>2, <2>3, <1>2
<1> QED BY <1>3, <1>4, <1>5, <1>6 DEF LooseEnds, Arrows

\* Property GraphHangsTogether of run fs: the graph of every dump, whatever is
\* open, shared, created and removed, and in the middle of a fork, has no loose ends,
\* and shows memory and disk as they belong together.
THEOREM GraphCorrect == Spec => []GraphHangsTogether
<1>1. Init => MapsMatchInodes /\ ArrayInv
  BY DEF Init, MapsMatchInodes, ArrayInv
<1>2. TableInv /\ MapsMatchInodes /\ ArrayInv => GraphHangsTogether
  <2> SUFFICES ASSUME TableInv, MapsMatchInodes, ArrayInv, halted = "no"
               PROVE  GraphHangsTogether
    BY DEF GraphHangsTogether
  <2>1. LooseEnds = {}
    BY NoLooseEnds
  <2>2. ArrayNodes = Node("inodearray", {n \in ImapBits : 0 < n /\ n <= InodesPerSect})
    <3>1. {m \in imap : m <= InodesPerSect} = {n \in ImapBits : 0 < n /\ n <= InodesPerSect}
      BY ArrayDrawn DEF ImapBits
    <3> QED BY <3>1, ArrayDrawn DEF Node
  <2>3. \A v \in ArrayNodes : v[2] \in Nums /\ inodes[v[2]].mode # "none"
    BY ArrayDrawn
  <2>4. \A v \in ArrayNodes : inodes[v[2]].start >= get_super_block.n_1st_sect
    BY <2>3, SuperSays DEF ArrayInv
  <2>5. \A v \in ArrayNodes : inodes[v[2]].mode = "REG" => InDrawnRun(v[2])
    BY <2>3, FileDrawn
  <2>6. \A i, j \in ScannedEntries : i # j /\ dir[i].inode_nr # 0 =>
          dir[i].inode_nr # dir[j].inode_nr
    BY DirSize, FsAssumption DEF TableInv, TypeOK, EntriesInv, ScannedEntries
  <2> QED BY <2>1, <2>2, <2>4, <2>5, <2>6 DEF GraphHangsTogether
<1> QED BY <1>1, <1>2, TableInvHolds, MapsCorrect, NextKeepsArray, PTL DEF Spec
=============================================================================
