----------------------------- MODULE BootProofs -----------------------------
(***************************************************************************)
(* The start of the machine, for every floppy and memory: sectors arrive   *)
(* where they should, the FAT leads from cluster to cluster, the segments  *)
(* of the kernel are put in their places from a file that is whole, and    *)
(* processes get memory that is there and that nobody else has.            *)
(***************************************************************************)
EXTENDS Untar, WellFoundedInduction, TLAPS

-----------------------------------------------------------------------------
\* Numbers: the least of a set, induction up to a number, and what division
\* and remainder are.
LEMMA LeastNumber ==
  ASSUME NEW T \in SUBSET Nat, T # {}
  PROVE  \E n \in T : \A m \in T : n <= m
<1> DEFINE R == {ss \in Nat \X Nat : ss[1] < ss[2]}
<1>1. IsWellFoundedOn(R, Nat)
  BY NatLessThanWellFounded DEF OpToRel
<1> HIDE DEF R
<1>2. PICK n \in T : \A m \in T : ~ (<<m, n>> \in R)
  BY <1>1, WFMin
<1>3. \A m \in T : ~ (m < n)
  BY <1>2 DEF R
<1> QED BY <1>3

LEMMA UpTo ==
  ASSUME NEW S, 0 \in S, NEW n \in Nat, \A i \in Nat : i < n /\ i \in S => i + 1 \in S
  PROVE  \A i \in 0 .. n : i \in S
<1> DEFINE T == {i \in 0 .. n : i \notin S}
<1>1. SUFFICES ASSUME T # {} PROVE FALSE
  OBVIOUS
<1>2. PICK i \in T : \A j \in T : i <= j
  <2>1. T \in SUBSET Nat
    OBVIOUS
  <2> HIDE DEF T
  <2> QED BY <1>1, <2>1, LeastNumber
<1>3. i - 1 \in Nat /\ i - 1 < n /\ i - 1 \in S
  BY <1>2
<1> QED BY <1>2, <1>3

LEMMA PlaceIs ==
  ASSUME NEW n \in Nat \ {0}, NEW q \in Int, NEW r \in 0 .. n - 1, NEW x, x = q * n + r
  PROVE  x \div n = q /\ x % n = r
<1> DEFINE d == x \div n
           m == x % n
<1>1. q * n \in Int /\ x \in Int
  OBVIOUS
<1>2. d \in Int /\ m \in 0 .. n - 1 /\ x = n * d + m
  BY <1>1
<1> HIDE DEF d, m
<1>3. ~(d >= q + 1)
  <2>1. SUFFICES ASSUME d >= q + 1 PROVE FALSE
    OBVIOUS
  <2>2. PICK z \in Nat : d = (q + 1) + z
    <3>1. d - (q + 1) \in Nat /\ d = (q + 1) + (d - (q + 1))
      BY <1>2, <2>1
    <3> QED BY <3>1
  <2>3. n * d = (q * n + n) + n * z /\ n * z \in Nat
    BY <2>2
  <2> QED BY <1>1, <1>2, <2>3
<1>4. ~(q >= d + 1)
  <2>1. SUFFICES ASSUME q >= d + 1 PROVE FALSE
    OBVIOUS
  <2>2. PICK z \in Nat : q = (d + 1) + z
    <3>1. q - (d + 1) \in Nat /\ q = (d + 1) + (q - (d + 1))
      BY <1>2, <2>1
    <3> QED BY <3>1
  <2>3. q * n = (n * d + n) + n * z /\ n * z \in Nat /\ n * d \in Int
    BY <1>2, <2>2
  <2> QED BY <1>1, <1>2, <2>3
<1>5. d = q
  BY <1>2, <1>3, <1>4
<1>6. n * d = q * n
  BY <1>5
<1>7. m = r
  BY <1>1, <1>2, <1>6
<1> QED BY <1>5, <1>7 DEF d, m

LEMMA HasPlace ==
  ASSUME NEW n \in Nat \ {0}, NEW x \in Nat
  PROVE  \E q \in Nat, r \in 0 .. n - 1 : x = q * n + r /\ x \div n = q /\ x % n = r
<1>1. (x \div n) \in Nat /\ (x % n) \in 0 .. n - 1 /\ x = n * (x \div n) + (x % n)
  OBVIOUS
<1> DEFINE q == x \div n
           r == x % n
<1>2. q \in Nat /\ r \in 0 .. n - 1 /\ x = n * q + r /\ x \div n = q /\ x % n = r
  BY <1>1
<1> HIDE DEF q, r
<1>3. n * q = q * n
  BY <1>2
<1> QED BY <1>2, <1>3

\* A multiple is not less than another one with a greater factor.
LEMMA Multiples ==
  ASSUME NEW n \in Nat \ {0}, NEW j \in Int, NEW k \in Int
  PROVE  /\ j * n \in Int /\ k * n \in Int /\ (j + 1) * n = j * n + n
         /\ j <= k => j * n <= k * n
         /\ j * n < k * n => j + 1 <= k /\ j * n + n <= k * n
<1>1. \A u, v \in Int : u <= v => u * n \in Int /\ v * n \in Int /\ u * n <= v * n
  <2> SUFFICES ASSUME NEW u \in Int, NEW v \in Int, u <= v
               PROVE  u * n \in Int /\ v * n \in Int /\ u * n <= v * n
    OBVIOUS
  <2>1. PICK z \in Nat : v = u + z
    <3>1. v - u \in Nat /\ v = u + (v - u)
      OBVIOUS
    <3> QED BY <3>1
  <2>2. v * n = u * n + z * n /\ z * n \in Nat /\ u * n \in Int
    BY <2>1
  <2> QED BY <2>2
<1>2. (j + 1) * n = j * n + n
  OBVIOUS
<1>3. j * n \in Int /\ k * n \in Int /\ (k + 1) * n \in Int
  OBVIOUS
<1>4. k < j + 1 => k * n <= j * n
  BY <1>1
<1>5. j + 1 <= k => (j + 1) * n <= k * n
  BY <1>1
<1>6. ASSUME j * n < k * n PROVE j + 1 <= k
  BY <1>3, <1>4, <1>6
<1> QED BY <1>1, <1>2, <1>3, <1>5, <1>6

\* A step that a function g gives for each number makes a sequence of values.
Steps(f, N, z, g) == f = [n \in 0 .. N |-> IF n = 0 THEN z ELSE g[n][f[n - 1]]]

LEMMA Recursion ==
  ASSUME NEW N \in Nat, NEW S, NEW z \in S, NEW g \in [1 .. N -> [S -> S]]
  PROVE  \E f \in [0 .. N -> S] : Steps(f, N, z, g)
<1> DEFINE Upto(n) == \E f \in [0 .. n -> S] : f[0] = z /\ \A k \in 1 .. n : f[k] = g[k][f[k - 1]]
           T == {n \in 0 .. N : Upto(n)}
<1>1. 0 \in T
  <2>1. PICK f : f = [k \in 0 .. 0 |-> z]
    OBVIOUS
  <2>2. f \in [0 .. 0 -> S] /\ f[0] = z /\ \A k \in 1 .. 0 : f[k] = g[k][f[k - 1]]
    BY <2>1
  <2>3. Upto(0)
    BY <2>2
  <2> HIDE DEF Upto
  <2> QED BY <2>3
<1>2. ASSUME NEW n \in Nat, n < N, n \in T PROVE n + 1 \in T
  <2>1. PICK f \in [0 .. n -> S] : f[0] = z /\ \A k \in 1 .. n : f[k] = g[k][f[k - 1]]
    BY <1>2
  <2>2. PICK y : y = g[n + 1][f[n]]
    OBVIOUS
  <2>3. PICK h : h = [k \in 0 .. n + 1 |-> IF k = n + 1 THEN y ELSE f[k]]
    OBVIOUS
  <2>4. y \in S
    BY <1>2, <2>1, <2>2
  <2>5. h \in [0 .. n + 1 -> S] /\ h[0] = z /\ h[n + 1] = y /\ \A k \in 0 .. n : h[k] = f[k]
    BY <2>1, <2>3, <2>4
  <2>6. ASSUME NEW k \in 1 .. n + 1 PROVE h[k] = g[k][h[k - 1]]
    <3>1. CASE k = n + 1
      BY <2>2, <2>5, <3>1
    <3>2. CASE k \in 1 .. n
      <4>1. k \in 0 .. n /\ k - 1 \in 0 .. n
        BY <3>2
      <4> QED BY <2>1, <2>5, <3>2, <4>1
    <3> QED BY <3>1, <3>2
  <2>7. Upto(n + 1)
    BY <2>5, <2>6
  <2>8. n + 1 \in 0 .. N
    BY <1>2
  <2> HIDE DEF Upto
  <2> QED BY <2>7, <2>8
<1>3. N \in T
  <2> HIDE DEF T
  <2>1. \A i \in 0 .. N : i \in T
    BY <1>1, <1>2, UpTo
  <2> QED BY <2>1
<1>4. PICK f \in [0 .. N -> S] : f[0] = z /\ \A k \in 1 .. N : f[k] = g[k][f[k - 1]]
  BY <1>3
<1>5. Steps(f, N, z, g)
  BY <1>4 DEF Steps
<1> QED BY <1>5

\* Where things are.
LEMMA Layout ==
  /\ BytsPerSec \in Nat \ {0} /\ SegSize \in Nat \ {0}
  /\ KERNEL_FILE_PHY_ADDR \in Nat /\ LOADER_PHY_ADDR \in Nat /\ MemTop \in Nat
  /\ KERNEL_FILE_PHY_ADDR < LOADER_PHY_ADDR /\ LOADER_PHY_ADDR <= MemTop
  /\ KERNEL_VALID_SPACE \in Nat /\ LOADER_PHY_ADDR = KERNEL_FILE_PHY_ADDR + KERNEL_VALID_SPACE
  /\ LOADER_OFF \in Nat /\ PROCS_BASE \in Nat /\ MemTop <= PROCS_BASE
<1>1. /\ BytsPerSec \in Nat \ {0} /\ SegSize \in Nat \ {0}
      /\ KERNEL_FILE_PHY_ADDR \in Nat /\ LOADER_PHY_ADDR \in Nat /\ MemTop \in Nat
      /\ KERNEL_FILE_PHY_ADDR < LOADER_PHY_ADDR /\ LOADER_PHY_ADDR <= MemTop
      /\ LOADER_OFF \in Nat /\ PROCS_BASE \in Nat /\ MemTop <= PROCS_BASE
  BY BootAssumption
<1> QED BY <1>1 DEF KERNEL_VALID_SPACE

-----------------------------------------------------------------------------
\* The BIOS reads the sector whose number was split.
LEMMA SectorNumber ==
  ASSUME NEW ax \in Nat
  PROVE  Int13(Geometry(ax)) = ax
<1>1. SecPerTrk \in Nat \ {0}
  BY BootAssumption
<1>2. PICK y \in Nat, r \in 0 .. SecPerTrk - 1 :
        ax = y * SecPerTrk + r /\ ax \div SecPerTrk = y /\ ax % SecPerTrk = r
  BY <1>1, HasPlace
<1>3. y = 2 * (y \div 2) + (y % 2) /\ (y \div 2) \in Nat /\ y % 2 \in 0 .. 1
  OBVIOUS
<1>4. Int13(Geometry(ax)) = (2 * (y \div 2) + (y % 2)) * SecPerTrk + (r + 1) - 1
  BY <1>2 DEF Int13, Geometry
<1>5. y * SecPerTrk \in Nat
  BY <1>1
<1> QED BY <1>2, <1>3, <1>4, <1>5

\* What is read is in memory, byte by byte, when it does not go beyond what bx
\* can reach, and nothing else has changed.
LEMMA SectorRead ==
  ASSUME NEW m \in [Addresses -> Int], NEW ax \in Nat, NEW cl \in Nat, NEW base \in Nat,
         NEW off \in Nat, off + cl * BytsPerSec <= SegSize
  PROVE  /\ ReadSector(m, ax, cl, base, off) \in [Addresses -> Int]
         /\ \A a \in Addresses :
              ReadSector(m, ax, cl, base, off)[a] =
                IF a - (base + off) \in 0 .. cl * BytsPerSec - 1
                THEN ax * BytsPerSec + (a - (base + off)) ELSE m[a]
<1> DEFINE n == cl * BytsPerSec
           r == ReadSector(m, ax, cl, base, off)
<1>1. n \in Nat /\ SegSize \in Nat \ {0} /\ BytsPerSec \in Nat \ {0} /\ MemTop \in Nat
  BY BootAssumption
<1>2. \A a \in Addresses : a \in Int
  BY <1>1 DEF Addresses
<1>3. r = [a \in Addresses |-> IF a - base \in 0 .. SegSize - 1 /\ (a - base - off) % SegSize < n
                               THEN ax * BytsPerSec + ((a - base - off) % SegSize) ELSE m[a]]
  BY SectorNumber DEF ReadSector
<1>4. off + n <= SegSize
  OBVIOUS
<1> HIDE DEF n, r
<1>5. ASSUME NEW a \in Addresses
      PROVE  /\ a - base \in 0 .. SegSize - 1 /\ (a - base - off) % SegSize < n
                <=> a - (base + off) \in 0 .. n - 1
             /\ a - (base + off) \in 0 .. n - 1 => (a - base - off) % SegSize = a - (base + off)
  <2> DEFINE d == (a - base) - off
  <2>1. d \in Int /\ d = a - (base + off) /\ a - base = d + off
    BY <1>2
  <2> HIDE DEF d
  <2>2. CASE d \in 0 .. SegSize - 1
    <3>1. d = 0 * SegSize + d
      BY <1>1, <2>1
    <3>2. d % SegSize = d
      BY <1>1, <2>2, <3>1, PlaceIs
    <3> QED BY <1>1, <1>4, <2>1, <2>2, <3>2 DEF d
  <2>3. CASE d \in -SegSize .. -1
    <3>1. PICK q \in Int, e \in Int : q = -1 /\ e = d + SegSize
      BY <1>1, <2>1
    <3>2. d = q * SegSize + e /\ e \in 0 .. SegSize - 1
      BY <1>1, <2>1, <2>3, <3>1
    <3>3. d % SegSize = e
      BY <1>1, <3>2, PlaceIs
    <3> QED BY <1>1, <1>4, <2>1, <2>3, <3>1, <3>3 DEF d
  <2>4. CASE d \notin -SegSize .. SegSize - 1
    <3>1. a - base \notin 0 .. SegSize - 1 /\ d \notin 0 .. n - 1
      BY <1>1, <1>4, <2>1, <2>4
    <3> QED BY <2>1, <3>1
  <2> QED BY <1>1, <2>1, <2>2, <2>3, <2>4
<1>6. ASSUME NEW a \in Addresses
      PROVE  r[a] = IF a - (base + off) \in 0 .. n - 1 THEN ax * BytsPerSec + (a - (base + off)) ELSE m[a]
  BY <1>3, <1>5
<1>7. ASSUME NEW a \in Addresses PROVE r[a] \in Int
  <2>1. ax * BytsPerSec \in Int /\ m[a] \in Int /\ a - (base + off) \in Int
    BY <1>1, <1>2
  <2> QED BY <1>6, <2>1
<1>8. r \in [Addresses -> Int]
  BY <1>3, <1>7
<1> QED BY <1>6, <1>8 DEF r, n

-----------------------------------------------------------------------------
\* The floppy.
Files == {"LOADER.BIN", "KERNEL.BIN"}

LEMMA ChainTypes ==
  ASSUME machine \in Machines, NEW f \in Files
  PROVE  /\ machine.chain[f] \in Seq(2 .. EndOfFile - 1) /\ DOMAIN machine.chain = Files
         /\ Len(machine.chain[f]) \in Nat \ {0}
         /\ DOMAIN machine.chain[f] = 1 .. Len(machine.chain[f])
         /\ \A i \in 1 .. Len(machine.chain[f]) : machine.chain[f][i] \in 2 .. EndOfFile - 1
<1>1. machine.chain \in [Files -> Seq(2 .. EndOfFile - 1) \ {<<>>}]
  BY FilesAssumption DEF Files
<1>2. PICK s \in Seq(2 .. EndOfFile - 1) : s = machine.chain[f] /\ s # <<>>
  BY <1>1
<1>3. Len(s) \in Nat /\ DOMAIN s = 1 .. Len(s) /\ \A i \in 1 .. Len(s) : s[i] \in 2 .. EndOfFile - 1
  <2>1. PICK S : S = 2 .. EndOfFile - 1
    OBVIOUS
  <2>2. s \in Seq(S)
    BY <2>1
  <2>3. Len(s) \in Nat /\ DOMAIN s = 1 .. Len(s) /\ \A i \in 1 .. Len(s) : s[i] \in S
    BY <2>2
  <2> QED BY <2>1, <2>3
<1>4. Len(s) # 0
  BY <1>2
<1> QED BY <1>1, <1>2, <1>3, <1>4

\* What the FAT says of a cluster of a file: the next one, or that it is the last.
LEMMA EntryNext ==
  ASSUME machine \in Machines, NEW f \in Files, NEW k \in 1 .. Len(machine.chain[f])
  PROVE  Entry(machine.chain[f][k]) =
           IF k = Len(machine.chain[f]) THEN EndOfFile ELSE machine.chain[f][k + 1]
<1> DEFINE e == machine.chain[f][k]
           holders == {g \in DOMAIN machine.chain :
                         \E i \in DOMAIN machine.chain[g] : machine.chain[g][i] = e}
           held == CHOOSE g \in holders : TRUE
           chain == machine.chain[held]
           at == CHOOSE i \in DOMAIN chain : chain[i] = e
<1>1. DOMAIN machine.chain = Files /\ k \in DOMAIN machine.chain[f]
  BY ChainTypes
<1>2. \A g \in Files : \A i \in DOMAIN machine.chain[g] : machine.chain[g][i] = e => g = f /\ i = k
  BY <1>1, FilesAssumption DEF Files
<1>3. f \in holders /\ \A g \in holders : g = f
  BY <1>1, <1>2
<1>4. Entry(e) = IF holders = {} THEN 0 ELSE IF at = Len(chain) THEN EndOfFile ELSE chain[at + 1]
  BY DEF Entry
<1> HIDE DEF holders
<1>5. holders # {} /\ held = f
  BY <1>3
<1> HIDE DEF held
<1>6. \E i \in DOMAIN chain : chain[i] = e
  BY <1>1, <1>5
<1>7. at \in DOMAIN chain /\ chain[at] = e
  BY <1>6
<1> HIDE DEF at
<1>8. at = k
  BY <1>2, <1>5, <1>7
<1> QED BY <1>4, <1>5, <1>8

LEMMA EntryType ==
  ASSUME machine \in Machines, NEW e \in Nat
  PROVE  Entry(e) \in Nat /\ Entry(e) < 4096
<1>1. ASSUME NEW f \in Files, NEW k \in 1 .. Len(machine.chain[f]), machine.chain[f][k] = e
      PROVE  Entry(e) \in Nat /\ Entry(e) < 4096
  <2>1. Entry(machine.chain[f][k]) = IF k = Len(machine.chain[f]) THEN EndOfFile ELSE machine.chain[f][k + 1]
    BY EntryNext
  <2>2. /\ Len(machine.chain[f]) \in Nat
        /\ \A i \in 1 .. Len(machine.chain[f]) : machine.chain[f][i] \in 2 .. EndOfFile - 1
    BY ChainTypes
  <2>3. k # Len(machine.chain[f]) => machine.chain[f][k + 1] \in 2 .. EndOfFile - 1
    <3>1. k # Len(machine.chain[f]) => k + 1 \in 1 .. Len(machine.chain[f])
      BY <2>2
    <3> QED BY <2>2, <3>1
  <2>4. \A n \in 2 .. EndOfFile - 1 : n \in Nat /\ n < 4096
    <3>1. EndOfFile \in Nat /\ EndOfFile < 4096
      BY DEF EndOfFile
    <3> QED BY <3>1
  <2>5. k # Len(machine.chain[f]) => machine.chain[f][k + 1] \in Nat /\ machine.chain[f][k + 1] < 4096
    BY <2>3, <2>4
  <2>6. EndOfFile \in Nat /\ EndOfFile < 4096
    BY DEF EndOfFile
  <2> QED BY <1>1, <2>1, <2>5, <2>6
<1>2. ASSUME \A f \in Files : \A k \in 1 .. Len(machine.chain[f]) : machine.chain[f][k] # e
      PROVE  Entry(e) \in Nat /\ Entry(e) < 4096
  <2>1. \A f \in Files : DOMAIN machine.chain = Files /\ DOMAIN machine.chain[f] = 1 .. Len(machine.chain[f])
    BY ChainTypes
  <2>2. \A f \in DOMAIN machine.chain : ~\E i \in DOMAIN machine.chain[f] : machine.chain[f][i] = e
    BY <1>2, <2>1 DEF Files
  <2>3. {f \in DOMAIN machine.chain : \E i \in DOMAIN machine.chain[f] : machine.chain[f][i] = e} = {}
    BY <2>2
  <2>4. Entry(e) = 0
    BY <2>3 DEF Entry
  <2> QED BY <2>4
<1>3. Entry(e) \in Nat /\ Entry(e) < 4096
  BY <1>1, <1>2
<1> QED BY <1>3

\* An entry is three nibbles.
LEMMA Nibbles ==
  ASSUME machine \in Machines, NEW e \in Nat
  PROVE  /\ Nibble(3 * e) = Entry(e) % 16
         /\ Nibble((3 * e) + 1) = (Entry(e) \div 16) % 16
         /\ Nibble((3 * e) + 2) = (Entry(e) \div 256) % 16
<1>1. \A r \in 0 .. 2 : ((3 * e) + r) \div 3 = e /\ ((3 * e) + r) % 3 = r
  OBVIOUS
<1>2. \A r \in 0 .. 2 : Nibble((3 * e) + r) = (Entry(e) \div <<1, 16, 256>>[r + 1]) % 16
  BY <1>1 DEF Nibble
<1>3. Entry(e) \in Nat
  BY EntryType
<1>4. <<1, 16, 256>>[1] = 1 /\ <<1, 16, 256>>[2] = 16 /\ <<1, 16, 256>>[3] = 256
  OBVIOUS
<1>5. Entry(e) \div 1 = Entry(e)
  BY <1>3
<1>6. Nibble((3 * e) + 0) = (Entry(e) \div <<1, 16, 256>>[0 + 1]) % 16
  BY <1>2
<1>7. Nibble((3 * e) + 1) = (Entry(e) \div <<1, 16, 256>>[1 + 1]) % 16
  BY <1>2
<1>8. Nibble((3 * e) + 2) = (Entry(e) \div <<1, 16, 256>>[2 + 1]) % 16
  BY <1>2
<1> QED BY <1>4, <1>5, <1>6, <1>7, <1>8

\* The three bytes that two entries fill.
LEMMA Packed ==
  ASSUME machine \in Machines, NEW h \in Nat
  PROVE  LET first == SectorNoOfFAT1 * BytsPerSec + 3 * h
             x == Entry(2 * h)
             y == Entry((2 * h) + 1)
         IN  /\ FatByte(first) = x % 256
             /\ FatByte(first + 1) = (x \div 256) + 16 * (y % 16)
             /\ FatByte(first + 2) = y \div 16
<1> DEFINE base == SectorNoOfFAT1 * BytsPerSec
           x == Entry(2 * h)
           y == Entry((2 * h) + 1)
<1>1. base \in Nat
  BY BootAssumption DEF SectorNoOfFAT1
<1>2. x \in Nat /\ x < 4096 /\ y \in Nat /\ y < 4096
  BY EntryType
<1>3. /\ Nibble(3 * (2 * h)) = x % 16
      /\ Nibble((3 * (2 * h)) + 1) = (x \div 16) % 16
      /\ Nibble((3 * (2 * h)) + 2) = (x \div 256) % 16
  BY Nibbles
<1>4. /\ Nibble(3 * ((2 * h) + 1)) = y % 16
      /\ Nibble((3 * ((2 * h) + 1)) + 1) = (y \div 16) % 16
      /\ Nibble((3 * ((2 * h) + 1)) + 2) = (y \div 256) % 16
  BY Nibbles
<1>5. \A i \in 0 .. 2 : FatByte((base + 3 * h) + i) =
                        Nibble(2 * (3 * h + i)) + 16 * Nibble((2 * (3 * h + i)) + 1)
  <2> TAKE i \in 0 .. 2
  <2>1. ((base + 3 * h) + i) - base = 3 * h + i
    BY <1>1
  <2> QED BY <2>1 DEF FatByte
<1>6. /\ 2 * (3 * h + 0) = 3 * (2 * h) /\ 2 * (3 * h + 1) = (3 * (2 * h)) + 2
      /\ (2 * (3 * h + 1)) + 1 = 3 * ((2 * h) + 1)
      /\ 2 * (3 * h + 2) = (3 * ((2 * h) + 1)) + 1
      /\ (2 * (3 * h + 2)) + 1 = (3 * ((2 * h) + 1)) + 2
      /\ (base + 3 * h) + 0 = base + 3 * h
  BY <1>1
<1> HIDE DEF base, x, y
<1>7. FatByte(base + 3 * h) = (x % 16) + 16 * ((x \div 16) % 16)
  <2>1. FatByte((base + 3 * h) + 0) = Nibble(2 * (3 * h + 0)) + 16 * Nibble((2 * (3 * h + 0)) + 1)
    BY <1>5
  <2> QED BY <1>3, <1>6, <2>1
<1>8. FatByte((base + 3 * h) + 1) = ((x \div 256) % 16) + 16 * (y % 16)
  <2>1. FatByte((base + 3 * h) + 1) = Nibble(2 * (3 * h + 1)) + 16 * Nibble((2 * (3 * h + 1)) + 1)
    BY <1>5
  <2> QED BY <1>3, <1>4, <1>6, <2>1
<1>9. FatByte((base + 3 * h) + 2) = ((y \div 16) % 16) + 16 * ((y \div 256) % 16)
  <2>1. FatByte((base + 3 * h) + 2) = Nibble(2 * (3 * h + 2)) + 16 * Nibble((2 * (3 * h + 2)) + 1)
    BY <1>5
  <2> QED BY <1>4, <1>6, <2>1
<1>10. (x % 16) + 16 * ((x \div 16) % 16) = x % 256 /\ (x \div 256) % 16 = x \div 256
  <2>1. PICK q \in Nat, r \in Nat : r < 256 /\ x = 256 * q + r
    <3>1. PICK n \in Nat \ {0} : n = 256
      OBVIOUS
    <3>2. PICK q \in Nat, r \in 0 .. n - 1 : x = q * n + r /\ x \div n = q /\ x % n = r
      BY <1>2, HasPlace
    <3>3. q * n = 256 * q /\ r \in Nat /\ r < 256
      BY <3>1
    <3> QED BY <3>2, <3>3
  <2>2. x \div 256 = q /\ x % 256 = r /\ q \in 0 .. 15
    BY <1>2, <2>1
  <2>3. x % 16 = r % 16 /\ (x \div 16) % 16 = r \div 16
    BY <1>2, <2>1
  <2>4. (r % 16) + 16 * (r \div 16) = r
    BY <2>1
  <2> QED BY <2>2, <2>3, <2>4
<1>11. ((y \div 16) % 16) + 16 * ((y \div 256) % 16) = y \div 16
  BY <1>2
<1> QED BY <1>7, <1>8, <1>9, <1>10, <1>11 DEF base, x, y

\* GetFATEntry finds the entry, though it may lie in two sectors, and leaves the
\* file alone.
LEMMA FatEntryRead ==
  ASSUME machine \in Machines, NEW m \in [Addresses -> Int], NEW c \in Nat
  PROVE  /\ FatRead(m, c) \in [Addresses -> Int]
         /\ \A a \in Addresses : a >= Place => FatRead(m, c)[a] = m[a]
         /\ GetFATEntry(FatRead(m, c), c) = Entry(c)
<1> DEFINE o == FatOffset(c)
           base == Place - FatGap
           first == SectorNoOfFAT1 * BytsPerSec
           r == FatRead(m, c)
<1>1. /\ BytsPerSec \in Nat \ {0} /\ SegSize \in Nat /\ 2 * BytsPerSec <= SegSize
      /\ SectorNoOfFAT1 \in Nat /\ FatGap \in Nat /\ MemTop \in Nat
      /\ Place \in Nat /\ Place <= MemTop /\ FatGap <= Place /\ 2 * BytsPerSec <= FatGap
  BY BootAssumption DEF SectorNoOfFAT1, Place
<1>2. o \in Nat
  BY DEF FatOffset
<1> HIDE DEF o
<1>3. PICK q \in Nat, i \in 0 .. BytsPerSec - 1 :
        o = q * BytsPerSec + i /\ o \div BytsPerSec = q /\ o % BytsPerSec = i
  BY <1>1, <1>2, HasPlace
<1>4. r = ReadSector(m, SectorNoOfFAT1 + q, 2, base, 0)
  BY <1>3 DEF FatRead, o
<1>5. base \in Nat /\ SectorNoOfFAT1 + q \in Nat /\ 2 * BytsPerSec <= SegSize
  BY <1>1
<1> HIDE DEF base, r
<1>6. /\ r \in [Addresses -> Int]
      /\ \A a \in Addresses : r[a] = IF a - (base + 0) \in 0 .. 2 * BytsPerSec - 1
                                     THEN (SectorNoOfFAT1 + q) * BytsPerSec + (a - (base + 0)) ELSE m[a]
  <2>1. PICK ax \in Nat, cl \in Nat, b \in Nat, z \in Nat :
          ax = SectorNoOfFAT1 + q /\ cl = 2 /\ b = base /\ z = 0
    BY <1>5
  <2>2. z + cl * BytsPerSec <= SegSize
    BY <1>1, <1>5, <2>1
  <2>3. /\ ReadSector(m, ax, cl, b, z) \in [Addresses -> Int]
        /\ \A a \in Addresses : ReadSector(m, ax, cl, b, z)[a] =
             IF a - (b + z) \in 0 .. cl * BytsPerSec - 1
             THEN ax * BytsPerSec + (a - (b + z)) ELSE m[a]
    BY <2>2, SectorRead
  <2> QED BY <1>4, <2>1, <2>3
<1>7. \A a \in Addresses : a >= Place => r[a] = m[a]
  <2> TAKE a \in Addresses
  <2>1. PICK p \in Nat, n \in Nat : p = Place /\ n = 2 * BytsPerSec /\ base + n <= p
    BY <1>1 DEF base
  <2>2. a \in Nat
    BY <1>1 DEF Addresses
  <2>3. a >= p => a - (base + 0) \notin 0 .. n - 1
    BY <1>5, <2>1, <2>2
  <2> QED BY <1>6, <2>1, <2>3
<1>8. (SectorNoOfFAT1 + q) * BytsPerSec = first + q * BytsPerSec /\ first \in Nat /\ q * BytsPerSec \in Nat
  BY <1>1
<1> HIDE DEF first
<1>9. r[base + i] = first + o /\ r[(base + i) + 1] = (first + o) + 1
  <2>1. base + i \in Addresses /\ (base + i) + 1 \in Addresses
    BY <1>1, <1>5 DEF base, Addresses
  <2>2. /\ (base + i) - (base + 0) = i /\ ((base + i) + 1) - (base + 0) = i + 1
        /\ i \in 0 .. 2 * BytsPerSec - 1 /\ i + 1 \in 0 .. 2 * BytsPerSec - 1
    BY <1>1, <1>5
  <2>3. r[base + i] = (SectorNoOfFAT1 + q) * BytsPerSec + i
    BY <1>6, <2>1, <2>2
  <2>4. r[(base + i) + 1] = (SectorNoOfFAT1 + q) * BytsPerSec + (i + 1)
    BY <1>6, <2>1, <2>2
  <2> QED BY <1>3, <1>8, <2>3, <2>4
<1> DEFINE word == FatByte(first + o) + 256 * FatByte((first + o) + 1)
<1>10. GetFATEntry(r, c) = (IF c % 2 = 1 THEN word \div 16 ELSE word) % 4096
  BY <1>3, <1>9 DEF GetFATEntry, o, base
<1>11. PICK h \in Nat : c = 2 * h \/ c = (2 * h) + 1
  <2>1. (c \div 2) \in Nat /\ (c = 2 * (c \div 2) \/ c = (2 * (c \div 2)) + 1)
    OBVIOUS
  <2> QED BY <2>1
<1> DEFINE x == Entry(2 * h)
           y == Entry((2 * h) + 1)
<1>12. /\ FatByte(first + 3 * h) = x % 256
       /\ FatByte((first + 3 * h) + 1) = (x \div 256) + 16 * (y % 16)
       /\ FatByte((first + 3 * h) + 2) = y \div 16
  BY Packed DEF first
<1>13. x \in Nat /\ x < 4096 /\ y \in Nat /\ y < 4096
  BY EntryType
<1>14. CASE c = 2 * h
  <2>1. o = 3 * h /\ c % 2 = 0
    BY <1>14 DEF o, FatOffset
  <2>2. word = (x % 256) + 256 * ((x \div 256) + 16 * (y % 16))
    BY <1>12, <2>1
  <2>3. Entry(c) = x
    BY <1>14
  <2> HIDE DEF word, x, y
  <2>4. word % 4096 = x
    BY <1>13, <2>2
  <2> QED BY <1>6, <1>7, <1>10, <2>1, <2>3, <2>4 DEF r
<1>15. CASE c = (2 * h) + 1
  <2>1. o = (3 * h) + 1 /\ c % 2 = 1
    BY <1>15 DEF o, FatOffset
  <2>2. first + o = (first + 3 * h) + 1 /\ (first + o) + 1 = (first + 3 * h) + 2
    BY <1>8, <2>1
  <2>3. word = ((x \div 256) + 16 * (y % 16)) + 256 * (y \div 16)
    BY <1>12, <2>2
  <2>4. Entry(c) = y
    BY <1>15
  <2> HIDE DEF word, x, y
  <2>5. (word \div 16) % 4096 = y
    BY <1>13, <2>3
  <2> QED BY <1>6, <1>7, <1>10, <2>1, <2>4, <2>5 DEF r
<1> QED BY <1>11, <1>14, <1>15

-----------------------------------------------------------------------------
\* The memory: what DispMemInfo has after each record.
EndOf(n) == (machine.bios[n].base + machine.bios[n].len) % Word

LEMMA BiosTypes ==
  ASSUME machine \in Machines
  PROVE  /\ Len(machine.bios) \in Nat /\ DOMAIN machine.bios = 1 .. Len(machine.bios)
         /\ Word \in Nat \ {0}
         /\ \A n \in 1 .. Len(machine.bios) :
              /\ machine.bios[n].base \in Nat /\ machine.bios[n].len \in Nat
              /\ machine.bios[n].base + machine.bios[n].len \in Nat
              /\ EndOf(n) \in Nat /\ EndOf(n) < Word
<1>1. PICK R : R = [base : 0 .. Word - 1, len : 0 .. Word - 1, type : Nat, high : BOOLEAN]
  OBVIOUS
<1>2. machine.bios \in Seq(R) /\ Word \in Nat \ {0}
  BY <1>1, MapAssumption, BootAssumption
<1>3. /\ Len(machine.bios) \in Nat /\ DOMAIN machine.bios = 1 .. Len(machine.bios)
      /\ \A n \in 1 .. Len(machine.bios) : machine.bios[n] \in R
  BY <1>2
<1>4. ASSUME NEW n \in 1 .. Len(machine.bios)
      PROVE  /\ machine.bios[n].base \in Nat /\ machine.bios[n].len \in Nat
             /\ machine.bios[n].base + machine.bios[n].len \in Nat
             /\ EndOf(n) \in Nat /\ EndOf(n) < Word
  <2>1. machine.bios[n].base \in 0 .. Word - 1 /\ machine.bios[n].len \in 0 .. Word - 1
    BY <1>1, <1>3
  <2>2. PICK e : e = machine.bios[n].base + machine.bios[n].len
    OBVIOUS
  <2>3. e \in Nat /\ machine.bios[n].base \in Nat /\ machine.bios[n].len \in Nat
    BY <1>2, <2>1, <2>2
  <2>4. e % Word \in 0 .. Word - 1
    BY <1>2, <2>3
  <2> QED BY <1>2, <2>2, <2>3, <2>4 DEF EndOf
<1> QED BY <1>2, <1>3, <1>4

LEMMA MemSizeIs ==
  ASSUME machine \in Machines
  PROVE  /\ MemSize[0] = 0
         /\ \A n \in 1 .. Len(machine.bios) :
              MemSize[n] = IF machine.bios[n].type = 1 /\ EndOf(n) >= MemSize[n - 1]
                           THEN EndOf(n) ELSE MemSize[n - 1]
<1> DEFINE N == Len(machine.bios)
           Counts(f) == f = [n \in 0 .. N |->
                              IF n = 0 THEN 0
                              ELSE LET r == machine.bios[n]
                                       end == (r.base + r.len) % Word
                                   IN  IF r.type = 1 /\ end >= f[n - 1] THEN end ELSE f[n - 1]]
           g == [n \in 1 .. N |-> [s \in Nat |->
                  IF machine.bios[n].type = 1 /\ EndOf(n) >= s THEN EndOf(n) ELSE s]]
<1>1. N \in Nat /\ \A n \in 1 .. N : EndOf(n) \in Nat
  BY BiosTypes
<1> HIDE DEF N
<1>2. g \in [1 .. N -> [Nat -> Nat]]
  BY <1>1
<1>3. PICK f \in [0 .. N -> Nat] : f = [n \in 0 .. N |-> IF n = 0 THEN 0 ELSE g[n][f[n - 1]]]
  <2> HIDE DEF g
  <2>1. PICK S : S = Nat
    OBVIOUS
  <2>2. PICK z \in S : z = 0
    BY <2>1
  <2>3. g \in [1 .. N -> [S -> S]]
    BY <1>2, <2>1
  <2>4. \E f \in [0 .. N -> S] : Steps(f, N, z, g)
    BY <1>1, <2>3, Recursion
  <2> QED BY <2>2, <2>1, <2>4 DEF Steps
<1>4. f = [n \in 0 .. N |-> IF n = 0 THEN 0
                           ELSE IF machine.bios[n].type = 1 /\ EndOf(n) >= f[n - 1] THEN EndOf(n) ELSE f[n - 1]]
  <2>1. ASSUME NEW n \in 0 .. N, n # 0
        PROVE  g[n][f[n - 1]] = IF machine.bios[n].type = 1 /\ EndOf(n) >= f[n - 1] THEN EndOf(n) ELSE f[n - 1]
    <3>1. n \in 1 .. N /\ n - 1 \in 0 .. N
      BY <1>1, <2>1
    <3>2. f[n - 1] \in Nat
      BY <1>3, <3>1
    <3> QED BY <3>1, <3>2
  <2> HIDE DEF g
  <2>2. DOMAIN f = 0 .. N
    BY <1>3
  <2>3. ASSUME NEW n \in 0 .. N
        PROVE  f[n] = IF n = 0 THEN 0
                      ELSE IF machine.bios[n].type = 1 /\ EndOf(n) >= f[n - 1] THEN EndOf(n) ELSE f[n - 1]
    BY <1>3, <2>1
  <2> QED BY <1>3, <2>2, <2>3
<1>5. Counts(f)
  BY <1>4 DEF EndOf
<1>6. MemSize = CHOOSE h : Counts(h)
  BY DEF MemSize, N
<1>7. Counts(MemSize)
  <2> HIDE DEF Counts
  <2> QED BY <1>5, <1>6
<1> DEFINE M == MemSize
<1>8. M = [n \in 0 .. N |-> IF n = 0 THEN 0
                           ELSE IF machine.bios[n].type = 1 /\ EndOf(n) >= M[n - 1] THEN EndOf(n) ELSE M[n - 1]]
  BY <1>7 DEF EndOf
<1> HIDE DEF M
<1>9. M[0] = 0
  BY <1>1, <1>8
<1>10. \A n \in 1 .. N : M[n] = IF machine.bios[n].type = 1 /\ EndOf(n) >= M[n - 1]
                                THEN EndOf(n) ELSE M[n - 1]
  BY <1>1, <1>8
<1> QED BY <1>9, <1>10 DEF M, N

\* s is the highest end of RAM below 4 GB, or there is none.
RamIs(s) ==
  /\ s \in 0 .. Word - 1
  /\ \A end \in RamEnds : end < Word => end <= s
  /\ s \in RamEnds \/ s = 0

LEMMA RamIsCounted ==
  ASSUME machine \in Machines
  PROVE  RamIs(MemSize[Len(machine.bios)])
<1> DEFINE N == Len(machine.bios)
           M == MemSize
           Ram(j) == machine.bios[j].type = 1
           Upto(n) == /\ M[n] \in Nat /\ M[n] < Word
                      /\ \A j \in 1 .. n : Ram(j) => EndOf(j) <= M[n]
                      /\ M[n] = 0 \/ \E j \in 1 .. n : Ram(j) /\ M[n] = EndOf(j)
           S == {n \in Nat : n <= N => Upto(n)}
<1>1. /\ N \in Nat /\ Word \in Nat \ {0} /\ DOMAIN machine.bios = 1 .. N
      /\ \A n \in 1 .. N : EndOf(n) \in Nat /\ EndOf(n) < Word
  BY BiosTypes
<1>2. M[0] = 0 /\ \A n \in 1 .. N : M[n] = IF Ram(n) /\ EndOf(n) >= M[n - 1] THEN EndOf(n) ELSE M[n - 1]
  BY MemSizeIs
<1> HIDE DEF N, M, Ram
<1>3. 0 \in S
  BY <1>1, <1>2
<1>4. ASSUME NEW i \in Nat, i < N, i \in S PROVE i + 1 \in S
  <2>1. Upto(i) /\ i + 1 \in 1 .. N /\ (i + 1) - 1 = i
    BY <1>1, <1>4
  <2>2. M[i + 1] = IF Ram(i + 1) /\ EndOf(i + 1) >= M[i] THEN EndOf(i + 1) ELSE M[i]
    BY <1>2, <2>1
  <2>3. EndOf(i + 1) \in Nat /\ EndOf(i + 1) < Word
    BY <1>1, <2>1
  <2>4. \A j \in 1 .. i : EndOf(j) \in Nat
    BY <1>1, <2>1
  <2>5. M[i + 1] \in Nat /\ M[i + 1] < Word /\ M[i] <= M[i + 1] /\ (Ram(i + 1) => EndOf(i + 1) <= M[i + 1])
    BY <2>1, <2>2, <2>3
  <2>6. ASSUME NEW j \in 1 .. i + 1, Ram(j) PROVE EndOf(j) <= M[i + 1]
    <3>1. CASE j = i + 1
      BY <2>5, <2>6, <3>1
    <3>2. CASE j \in 1 .. i
      BY <2>1, <2>4, <2>5, <2>6, <3>2
    <3> QED BY <3>1, <3>2
  <2>7. M[i + 1] = 0 \/ \E j \in 1 .. i + 1 : Ram(j) /\ M[i + 1] = EndOf(j)
    BY <2>1, <2>2
  <2>8. Upto(i + 1)
    BY <2>5, <2>6, <2>7
  <2> HIDE DEF Upto
  <2> QED BY <2>8
<1>5. Upto(N)
  <2> HIDE DEF Upto
  <2>1. N \in 0 .. N
    BY <1>1
  <2>2. \A i \in 0 .. N : i \in S
    <3> HIDE DEF S
    <3> QED BY <1>1, <1>3, <1>4, UpTo
  <2> QED BY <1>1, <2>1, <2>2
<1>6. \A j \in 1 .. N : Ram(j) => \E i \in 1 .. N :
        /\ Ram(i) /\ ~machine.bios[i].high
        /\ machine.bios[i].base + machine.bios[i].len < Word
        /\ EndOf(j) <= machine.bios[i].base + machine.bios[i].len
  BY <1>1, MapAssumption DEF Ram, EndOf
<1>7. \A i \in 1 .. N : machine.bios[i].base + machine.bios[i].len \in Nat
  BY BiosTypes DEF N
<1>8. \A i \in 1 .. N : machine.bios[i].base + machine.bios[i].len < Word =>
        EndOf(i) = machine.bios[i].base + machine.bios[i].len
  <2> TAKE i \in 1 .. N
  <2> HAVE machine.bios[i].base + machine.bios[i].len < Word
  <2>1. PICK e : e = machine.bios[i].base + machine.bios[i].len
    OBVIOUS
  <2>2. PICK q \in Int : q = 0
    OBVIOUS
  <2>3. e \in 0 .. Word - 1 /\ e = q * Word + e
    BY <1>1, <1>7, <2>1, <2>2
  <2>4. e % Word = e
    BY <1>1, <2>3, PlaceIs
  <2> QED BY <2>1, <2>4 DEF EndOf
<1>9. RamEnds = {machine.bios[i].base + machine.bios[i].len : i \in {j \in 1 .. N : Ram(j) /\ ~machine.bios[j].high}}
  <2>1. \A e : e \in RamEnds <=> \E i \in 1 .. N : Ram(i) /\ ~machine.bios[i].high
                                             /\ e = machine.bios[i].base + machine.bios[i].len
    BY <1>1 DEF RamEnds, Ram
  <2> QED BY <2>1
<1>10. \A end \in RamEnds : end < Word => end <= M[N]
  BY <1>5, <1>8, <1>9
<1>11. M[N] \in RamEnds \/ M[N] = 0
  <2>1. SUFFICES ASSUME M[N] # 0 PROVE M[N] \in RamEnds
    OBVIOUS
  <2>2. PICK j \in 1 .. N : Ram(j) /\ M[N] = EndOf(j)
    BY <1>5, <2>1
  <2>3. PICK i \in 1 .. N : /\ Ram(i) /\ ~machine.bios[i].high
                            /\ machine.bios[i].base + machine.bios[i].len < Word
                            /\ EndOf(j) <= machine.bios[i].base + machine.bios[i].len
    BY <1>6, <2>2
  <2>4. machine.bios[i].base + machine.bios[i].len = M[N]
    BY <1>5, <1>7, <1>8, <2>2, <2>3
  <2> QED BY <1>9, <2>3, <2>4
<1> QED BY <1>1, <1>5, <1>10, <1>11 DEF RamIs, M, N

-----------------------------------------------------------------------------
\* The segments of the kernel: what each copy leaves, and what all of them do.
Memory == [Addresses -> Int]

LEMMA CopyIs ==
  ASSUME NEW m \in Memory, NEW dst \in Nat, NEW src \in Nat, NEW n \in Nat, src + n <= MemTop
  PROVE  /\ MemCpy(m, dst, src, n) \in Memory
         /\ \A a \in Addresses : MemCpy(m, dst, src, n)[a] =
              IF a - dst \in 0 .. n - 1 THEN m[src + (a - dst)] ELSE m[a]
<1>1. MemTop \in Nat
  BY Layout
<1>2. \A a \in Addresses : a \in Int /\ (a - dst \in 0 .. n - 1 => src + (a - dst) \in Addresses)
  BY <1>1 DEF Addresses
<1> QED BY <1>2 DEF MemCpy, Memory

LEMMA HeaderTypes ==
  ASSUME machine \in Machines
  PROVE  /\ Len(machine.headers) \in Nat /\ DOMAIN machine.headers = 1 .. Len(machine.headers)
         /\ machine.size \in Nat
         /\ \A i \in 1 .. Len(machine.headers) :
              LET h == machine.headers[i]
              IN  /\ h.null \in BOOLEAN /\ h.offset \in Nat /\ h.vaddr \in Nat /\ h.filesz \in Nat
                  /\ ~h.null =>
                       /\ h.offset + h.filesz <= machine.size
                       /\ h.vaddr + h.filesz <= KERNEL_FILE_PHY_ADDR
                       /\ \A j \in 1 .. Len(machine.headers) :
                            ~machine.headers[j].null /\ i # j =>
                              \/ h.vaddr + h.filesz <= machine.headers[j].vaddr
                              \/ machine.headers[j].vaddr + machine.headers[j].filesz <= h.vaddr
<1>1. PICK R : R = [null : BOOLEAN, offset : Nat, vaddr : Nat, filesz : Nat]
  OBVIOUS
<1>2. machine.headers \in Seq(R)
  BY <1>1, ImageAssumption
<1>3. /\ Len(machine.headers) \in Nat /\ DOMAIN machine.headers = 1 .. Len(machine.headers)
      /\ \A i \in 1 .. Len(machine.headers) : machine.headers[i] \in R
  BY <1>2
<1>4. machine.size \in Nat
  BY FilesAssumption
<1>5. \A i \in 1 .. Len(machine.headers) :
        /\ machine.headers[i].null \in BOOLEAN /\ machine.headers[i].offset \in Nat
        /\ machine.headers[i].vaddr \in Nat /\ machine.headers[i].filesz \in Nat
  BY <1>1, <1>3
<1>6. \A i \in DOMAIN machine.headers : ~machine.headers[i].null =>
         /\ machine.headers[i].offset + machine.headers[i].filesz <= machine.size
         /\ machine.headers[i].vaddr + machine.headers[i].filesz <= KERNEL_FILE_PHY_ADDR
         /\ \A j \in DOMAIN machine.headers : ~machine.headers[j].null /\ i # j =>
              \/ machine.headers[i].vaddr + machine.headers[i].filesz <= machine.headers[j].vaddr
              \/ machine.headers[j].vaddr + machine.headers[j].filesz <= machine.headers[i].vaddr
  BY ImageAssumption
<1> QED BY <1>3, <1>4, <1>5, <1>6

\* The copy that header n asks for.
Segment(n, m) ==
  IF machine.headers[n].null THEN m
  ELSE MemCpy(m, machine.headers[n].vaddr, KERNEL_FILE_PHY_ADDR + machine.headers[n].offset,
              machine.headers[n].filesz)

LEMMA SegmentIs ==
  ASSUME machine \in Machines, machine.size <= KERNEL_VALID_SPACE,
         NEW n \in 1 .. Len(machine.headers), NEW m \in Memory
  PROVE  /\ Segment(n, m) \in Memory
         /\ ~machine.headers[n].null => \A a \in Addresses : Segment(n, m)[a] =
              IF a - machine.headers[n].vaddr \in 0 .. machine.headers[n].filesz - 1
              THEN m[(KERNEL_FILE_PHY_ADDR + machine.headers[n].offset) + (a - machine.headers[n].vaddr)]
              ELSE m[a]
<1>1. CASE machine.headers[n].null
  BY <1>1 DEF Segment
<1>2. CASE ~machine.headers[n].null
  <2>1. PICK v \in Nat, o \in Nat, f \in Nat :
          /\ v = machine.headers[n].vaddr /\ o = machine.headers[n].offset /\ f = machine.headers[n].filesz
          /\ o + f <= machine.size /\ machine.size \in Nat
    BY <1>2, HeaderTypes
  <2>2. KERNEL_FILE_PHY_ADDR + o \in Nat /\ (KERNEL_FILE_PHY_ADDR + o) + f <= MemTop
    <3>1. PICK z \in Nat : z <= KERNEL_VALID_SPACE /\ o + f <= z
      BY <2>1
    <3> QED BY <3>1, Layout
  <2>3. PICK src \in Nat : src = KERNEL_FILE_PHY_ADDR + o
    BY <2>2
  <2>4. Segment(n, m) = MemCpy(m, v, src, f)
    BY <1>2, <2>1, <2>3 DEF Segment
  <2>5. src + f <= MemTop
    BY <2>2, <2>3
  <2>6. /\ MemCpy(m, v, src, f) \in Memory
        /\ \A a \in Addresses : MemCpy(m, v, src, f)[a] =
              IF a - v \in 0 .. f - 1 THEN m[src + (a - v)] ELSE m[a]
    BY <2>5, CopyIs
  <2> QED BY <2>1, <2>3, <2>4, <2>6
<1> QED BY <1>1, <1>2

LEMMA PlacedIs ==
  ASSUME machine \in Machines, machine.size <= KERNEL_VALID_SPACE, mem \in Memory
  PROVE  /\ Placed[0] = mem
         /\ \A n \in 1 .. Len(machine.headers) : Placed[n] = Segment(n, Placed[n - 1])
<1> DEFINE N == Len(machine.headers)
           Copies(f) == f = [n \in 0 .. N |->
                               IF n = 0 THEN mem
                               ELSE LET h == machine.headers[n]
                                    IN  IF h.null THEN f[n - 1]
                                        ELSE MemCpy(f[n - 1], h.vaddr, KERNEL_FILE_PHY_ADDR + h.offset, h.filesz)]
           g == [n \in 1 .. N |-> [m \in Memory |-> Segment(n, m)]]
<1>1. N \in Nat
  BY HeaderTypes
<1>2. \A n \in 1 .. N, m \in Memory : Segment(n, m) \in Memory
  BY SegmentIs
<1> HIDE DEF N
<1>3. g \in [1 .. N -> [Memory -> Memory]]
  BY <1>2
<1>4. PICK f \in [0 .. N -> Memory] : Steps(f, N, mem, g)
  <2> HIDE DEF g
  <2> QED BY <1>1, <1>3, Recursion
<1>5. f = [n \in 0 .. N |-> IF n = 0 THEN mem ELSE Segment(n, f[n - 1])]
  <2>1. f = [n \in 0 .. N |-> IF n = 0 THEN mem ELSE g[n][f[n - 1]]]
    BY <1>4 DEF Steps
  <2>2. ASSUME NEW n \in 0 .. N, n # 0 PROVE g[n][f[n - 1]] = Segment(n, f[n - 1])
    <3>1. n \in 1 .. N /\ n - 1 \in 0 .. N
      BY <1>1, <2>2
    <3>2. f[n - 1] \in Memory
      BY <3>1
    <3> QED BY <3>1, <3>2
  <2> HIDE DEF g
  <2>3. DOMAIN f = 0 .. N /\ \A n \in 0 .. N : f[n] = IF n = 0 THEN mem ELSE Segment(n, f[n - 1])
    BY <2>1, <2>2
  <2> QED BY <2>1, <2>3
<1>6. Copies(f)
  BY <1>5 DEF Segment
<1>7. Placed = CHOOSE h : Copies(h)
  BY DEF Placed, N
<1>8. Copies(Placed)
  <2> HIDE DEF Copies
  <2> QED BY <1>6, <1>7
<1> DEFINE P == Placed
<1>9. P = [n \in 0 .. N |-> IF n = 0 THEN mem ELSE Segment(n, P[n - 1])]
  BY <1>8 DEF Segment
<1> HIDE DEF P
<1>10. P[0] = mem /\ \A n \in 1 .. N : P[n] = Segment(n, P[n - 1])
  BY <1>1, <1>9
<1> QED BY <1>10 DEF P, N

\* InitKernel: every segment is where its header says, and the file is as it was.
LEMMA SegmentsInPlace ==
  ASSUME machine \in Machines, machine.size <= KERNEL_VALID_SPACE, mem \in Memory
  PROVE  LET m == Placed[Len(machine.headers)]
         IN  /\ m \in Memory
             /\ \A a \in Addresses : a >= KERNEL_FILE_PHY_ADDR => m[a] = mem[a]
             /\ \A i \in 1 .. Len(machine.headers) : ~machine.headers[i].null =>
                  \A k \in 0 .. machine.headers[i].filesz - 1 :
                    m[machine.headers[i].vaddr + k] =
                      mem[(KERNEL_FILE_PHY_ADDR + machine.headers[i].offset) + k]
<1> DEFINE N == Len(machine.headers)
           P == Placed
           h(i) == machine.headers[i]
           Upto(n) == /\ P[n] \in Memory
                      /\ \A a \in Addresses : a >= KERNEL_FILE_PHY_ADDR => P[n][a] = mem[a]
                      /\ \A i \in 1 .. n : ~h(i).null => \A k \in 0 .. h(i).filesz - 1 :
                           P[n][h(i).vaddr + k] = mem[(KERNEL_FILE_PHY_ADDR + h(i).offset) + k]
           S == {n \in Nat : n <= N => Upto(n)}
<1>1. /\ N \in Nat /\ machine.size \in Nat
      /\ KERNEL_FILE_PHY_ADDR \in Nat /\ MemTop \in Nat
      /\ KERNEL_FILE_PHY_ADDR + machine.size <= MemTop
  BY HeaderTypes, Layout
<1>2. \A i \in 1 .. N :
        /\ h(i).null \in BOOLEAN /\ h(i).offset \in Nat /\ h(i).vaddr \in Nat /\ h(i).filesz \in Nat
        /\ ~h(i).null =>
             /\ h(i).offset + h(i).filesz <= machine.size
             /\ h(i).vaddr + h(i).filesz <= KERNEL_FILE_PHY_ADDR
             /\ \A j \in 1 .. N : ~h(j).null /\ i # j =>
                  \/ h(i).vaddr + h(i).filesz <= h(j).vaddr
                  \/ h(j).vaddr + h(j).filesz <= h(i).vaddr
  BY HeaderTypes
<1>3. P[0] = mem /\ \A n \in 1 .. N : P[n] = Segment(n, P[n - 1])
  BY PlacedIs
<1>4. \A n \in 1 .. N, m \in Memory :
        /\ Segment(n, m) \in Memory
        /\ ~h(n).null => \A a \in Addresses : Segment(n, m)[a] =
              IF a - h(n).vaddr \in 0 .. h(n).filesz - 1
              THEN m[(KERNEL_FILE_PHY_ADDR + h(n).offset) + (a - h(n).vaddr)] ELSE m[a]
  BY SegmentIs
<1>5. \A n \in 1 .. N : \A m : h(n).null => Segment(n, m) = m
  BY DEF Segment
<1> HIDE DEF N, P, h
<1>6. 0 \in S
  BY <1>3
<1>7. ASSUME NEW n \in Nat, n < N, n \in S PROVE n + 1 \in S
  <2>1. Upto(n) /\ n + 1 \in 1 .. N /\ (n + 1) - 1 = n
    BY <1>1, <1>7
  <2>2. P[n + 1] = Segment(n + 1, P[n])
    BY <1>3, <2>1
  <2>3. CASE h(n + 1).null
    <3>1. P[n + 1] = P[n]
      BY <1>5, <2>1, <2>2, <2>3
    <3>2. \A i \in 1 .. n + 1 : ~h(i).null => i \in 1 .. n
      BY <2>3
    <3>3. Upto(n + 1)
      BY <2>1, <3>1, <3>2
    <3> HIDE DEF Upto
    <3> QED BY <3>3
  <2>4. CASE ~h(n + 1).null
    <3>1. PICK v \in Nat, o \in Nat, f \in Nat :
            /\ v = h(n + 1).vaddr /\ o = h(n + 1).offset /\ f = h(n + 1).filesz
            /\ o + f <= machine.size /\ v + f <= KERNEL_FILE_PHY_ADDR
      BY <1>2, <2>1, <2>4
    <3>2. /\ P[n + 1] \in Memory
          /\ \A a \in Addresses : P[n + 1][a] =
                IF a - v \in 0 .. f - 1 THEN P[n][(KERNEL_FILE_PHY_ADDR + o) + (a - v)] ELSE P[n][a]
      BY <1>4, <2>1, <2>2, <2>4, <3>1
    <3>3. \A a \in Addresses : a >= KERNEL_FILE_PHY_ADDR => P[n + 1][a] = mem[a]
      BY <1>1, <2>1, <3>1, <3>2 DEF Addresses
    <3>4. ASSUME NEW i \in 1 .. n + 1, ~h(i).null, NEW k \in 0 .. h(i).filesz - 1
          PROVE  P[n + 1][h(i).vaddr + k] = mem[(KERNEL_FILE_PHY_ADDR + h(i).offset) + k]
      <4>1. i \in 1 .. N /\ i \in Nat
        BY <2>1, <1>1
      <4>2. PICK w \in Nat, p \in Nat, l \in Nat :
              /\ w = h(i).vaddr /\ p = h(i).offset /\ l = h(i).filesz
              /\ p + l <= machine.size /\ w + l <= KERNEL_FILE_PHY_ADDR
        BY <1>2, <3>4, <4>1
      <4>3. k \in 0 .. l - 1 /\ w + k \in Addresses
        BY <1>1, <3>4, <4>2 DEF Addresses
      <4>4. CASE i = n + 1
        <5>1. w = v /\ p = o /\ l = f
          BY <3>1, <4>2, <4>4
        <5>2. (w + k) - v = k /\ (KERNEL_FILE_PHY_ADDR + o) + k \in Addresses
              /\ (KERNEL_FILE_PHY_ADDR + o) + k >= KERNEL_FILE_PHY_ADDR
          BY <1>1, <3>1, <4>3, <5>1 DEF Addresses
        <5>3. P[n + 1][w + k] = P[n][(KERNEL_FILE_PHY_ADDR + o) + k]
          BY <3>2, <4>3, <5>1, <5>2
        <5>4. P[n][(KERNEL_FILE_PHY_ADDR + o) + k] = mem[(KERNEL_FILE_PHY_ADDR + o) + k]
          BY <2>1, <5>2
        <5> QED BY <4>2, <5>1, <5>3, <5>4
      <4>5. CASE i \in 1 .. n
        <5>1. w + l <= v \/ v + f <= w
          BY <1>2, <2>1, <2>4, <3>1, <3>4, <4>1, <4>2, <4>5
        <5>2. (w + k) - v \notin 0 .. f - 1
          BY <4>3, <5>1
        <5>3. P[n + 1][w + k] = P[n][w + k]
          BY <3>2, <4>3, <5>2
        <5> QED BY <2>1, <3>4, <4>2, <4>5, <5>3
      <4> QED BY <4>4, <4>5
    <3>5. Upto(n + 1)
      BY <3>2, <3>3, <3>4
    <3> HIDE DEF Upto
    <3> QED BY <3>5
  <2> QED BY <2>3, <2>4
<1>8. Upto(N)
  <2> HIDE DEF Upto
  <2>1. \A i \in 0 .. N : i \in S
    <3> HIDE DEF S
    <3> QED BY <1>1, <1>6, <1>7, UpTo
  <2> QED BY <1>1, <2>1
<1> QED BY <1>8 DEF N, P, h

-----------------------------------------------------------------------------
\* Descriptors: what is split over the fields is put together again.
Parts(x, l, m, n) ==
  \E u \in Nat, v \in 0 .. m - 1, r \in 0 .. l - 1 :
    /\ x = (u * n + v * l) + r
    /\ x \div n = u /\ (x \div l) % m = v /\ x % l = r

LEMMA ThreeParts ==
  ASSUME NEW l \in Nat \ {0}, NEW m \in Nat \ {0}, NEW n \in Nat \ {0}, n = l * m, NEW x \in Nat
  PROVE  Parts(x, l, m, n)
<1>1. PICK q \in Nat, r \in 0 .. l - 1 : x = q * l + r /\ x \div l = q /\ x % l = r
  BY HasPlace
<1>2. PICK u \in Nat, v \in 0 .. m - 1 : q = u * m + v /\ q \div m = u /\ q % m = v
  BY HasPlace
<1>3. PICK t \in Nat : t = v * l + r
  OBVIOUS
<1>4. t \in 0 .. n - 1
  <2>1. v * l <= (m - 1) * l /\ (m - 1) * l = n - l
    <3>1. m - 1 \in Int /\ v \in Int /\ v <= m - 1
      OBVIOUS
    <3>2. v * l <= (m - 1) * l
      BY <3>1, Multiples
    <3>3. (m - 1) * l = n - l
      OBVIOUS
    <3> QED BY <3>2, <3>3
  <2>2. v * l \in Nat
    OBVIOUS
  <2> QED BY <1>3, <2>1, <2>2
<1>5. x = u * n + t /\ x = (u * n + v * l) + r
  <2>1. x = (u * m + v) * l + r
    BY <1>1, <1>2
  <2>2. (u * m + v) * l = u * n + v * l
    OBVIOUS
  <2>3. u * n \in Nat /\ v * l \in Nat
    OBVIOUS
  <2> QED BY <1>3, <2>1, <2>2, <2>3
<1>6. x \div n = u
  BY <1>4, <1>5, PlaceIs
<1> QED BY <1>1, <1>2, <1>5, <1>6 DEF Parts

\* A number that is less than n is its own remainder.
LEMMA Itself ==
  ASSUME NEW n \in Nat \ {0}, NEW x \in Nat, x < n
  PROVE  x % n = x
<1>1. PICK z \in Int : z = 0
  OBVIOUS
<1>2. x \in 0 .. n - 1 /\ x = z * n + x
  BY <1>1
<1> QED BY <1>2, PlaceIs

LEMMA LimitKept ==
  ASSUME NEW l \in Nat \ {0}, NEW m \in Nat \ {0}, NEW x \in Nat, x < l * m
  PROVE  ((x \div l) % m) * l + (x % l) = x
<1>1. PICK q \in Nat, r \in 0 .. l - 1 : x = q * l + r /\ x \div l = q /\ x % l = r
  BY HasPlace
<1>2. l * m = m * l /\ q * l \in Nat /\ m * l \in Nat
  OBVIOUS
<1>3. q * l < m * l
  BY <1>1, <1>2
<1>4. q + 1 <= m
  BY <1>3, Multiples
<1>5. q < m
  BY <1>4
<1>6. q % m = q
  BY <1>5, Itself
<1> QED BY <1>1, <1>6

LEMMA BaseKept ==
  ASSUME NEW l \in Nat \ {0}, NEW m \in Nat \ {0}, NEW x \in Nat, x < l * m * m
  PROVE  ((x \div (l * m)) % m) * l * m + ((x \div l) % m) * l + (x % l) = x
<1>1. PICK n \in Nat \ {0} : n = l * m
  <2>1. l * m \in Nat /\ l * m # 0
    OBVIOUS
  <2> QED BY <2>1
<1>2. PICK u \in Nat, v \in 0 .. m - 1, r \in 0 .. l - 1 :
           /\ x = (u * n + v * l) + r
           /\ x \div n = u /\ (x \div l) % m = v /\ x % l = r
  <2>1. Parts(x, l, m, n)
    BY <1>1, ThreeParts
  <2> QED BY <2>1 DEF Parts
<1>3. u * n \in Nat /\ v * l \in Nat /\ m * n \in Nat /\ n * m = m * n
  OBVIOUS
<1>4. u * n < m * n
  <2>1. x < n * m
    BY <1>1
  <2> QED BY <1>2, <1>3, <2>1
<1>5. u + 1 <= m
  BY <1>4, Multiples
<1>6. u < m
  BY <1>5
<1>7. u % m = u
  BY <1>6, Itself
<1>8. u * l * m = u * n
  BY <1>1
<1>9. (x \div (l * m)) % m = u
  BY <1>1, <1>2, <1>7
<1> QED BY <1>2, <1>8, <1>9

LEMMA Descriptor ==
  ASSUME NEW base \in Nat, NEW limit \in Nat, base < Low * Mid * Mid, limit < Low * Nib
  PROVE  LET d == init_desc(base, limit)
         IN  /\ d.base_high * Low * Mid + d.base_mid * Low + d.base_low = base
             /\ d.limit_high * Low + d.limit_low = limit
<1>1. Low \in Nat \ {0} /\ Mid \in Nat \ {0} /\ Nib \in Nat \ {0}
  BY BootAssumption
<1> DEFINE d == init_desc(base, limit)
<1>2. /\ d.limit_low = limit % Low /\ d.base_low = base % Low /\ d.base_mid = (base \div Low) % Mid
      /\ d.limit_high = (limit \div Low) % Nib /\ d.base_high = (base \div (Low * Mid)) % Mid
  BY DEF init_desc
<1> HIDE DEF d
<1>3. ((limit \div Low) % Nib) * Low + (limit % Low) = limit
  BY <1>1, LimitKept
<1>4. ((base \div (Low * Mid)) % Mid) * Low * Mid + ((base \div Low) % Mid) * Low + (base % Low) = base
  BY <1>1, BaseKept
<1> QED BY <1>2, <1>3, <1>4 DEF d

LEMMA GreatestNumber ==
  ASSUME NEW T \in SUBSET Nat, T # {}, NEW B \in Nat, \A x \in T : x <= B
  PROVE  \E n \in T : \A m \in T : m <= n
<1> DEFINE U == {i \in Nat : \E x \in T : i = B - x}
<1>1. U \in SUBSET Nat /\ U # {}
  <2>1. PICK x : x \in T
    OBVIOUS
  <2>2. B - x \in U
    BY <2>1
  <2> QED BY <2>2
<1>2. PICK i \in U : \A j \in U : i <= j
  <2> HIDE DEF U
  <2> QED BY <1>1, LeastNumber
<1>3. PICK n \in T : i = B - n
  BY <1>2
<1>4. ASSUME NEW m \in T PROVE m <= n
  <2>1. m \in Nat /\ n \in Nat /\ B - m \in Nat
    OBVIOUS
  <2>2. B - m \in U
    BY <2>1
  <2> HIDE DEF U
  <2>3. B - n <= B - m
    BY <1>2, <1>3, <2>2
  <2> QED BY <2>1, <2>3
<1> QED BY <1>4

\* The kernel's segments end with its last section.
LEMMA KernelEnds ==
  ASSUME machine \in Machines
  PROVE  /\ LastByte \in Nat /\ LastByte < PROCS_BASE
         /\ KernelMap.base + KernelMap.limit = LastByte
<1> DEFINE top(i) == Top(machine.sections[i])
           bottom(i) == Bottom(machine.sections[i])
           A == Allocated
<1>1. /\ \A i \in A : bottom(i) \in Nat /\ top(i) \in Nat /\ top(i) <= PROCS_BASE
      /\ \E i \in A : top(i) > 0
  <2>1. PICK R : R = [alloc : BOOLEAN, addr : Nat, size : Nat]
    OBVIOUS
  <2>2. machine.sections \in Seq(R)
    BY <2>1, ImageAssumption
  <2>3. \A i \in DOMAIN machine.sections : machine.sections[i] \in R
    BY <2>2
  <2>4. \A i \in DOMAIN machine.sections : machine.sections[i].addr \in Nat /\ machine.sections[i].size \in Nat
    BY <2>1, <2>3
  <2>5. /\ \E i \in DOMAIN machine.sections : machine.sections[i].alloc /\ machine.sections[i].addr + machine.sections[i].size > 0
        /\ \A i \in DOMAIN machine.sections :
             machine.sections[i].alloc => machine.sections[i].addr + machine.sections[i].size <= PROCS_BASE
    BY ImageAssumption
  <2>6. \A i \in DOMAIN machine.sections : machine.sections[i].addr + machine.sections[i].size \in Nat
    BY <2>4
  <2> QED BY <2>4, <2>5, <2>6 DEF Allocated, Top, Bottom
<1> HIDE DEF A
<1>2. PROCS_BASE \in Nat
  BY Layout
<1>3. PICK u \in A : \A i \in A : top(i) <= top(u)
  <2> DEFINE T == {top(i) : i \in A}
  <2> HIDE DEF top
  <2>1. T \in SUBSET Nat /\ T # {} /\ \A x \in T : x <= PROCS_BASE
    BY <1>1
  <2>2. PICK n \in T : \A m \in T : m <= n
    <3> HIDE DEF T
    <3> QED BY <1>2, <2>1, GreatestNumber
  <2> QED BY <2>2
<1>4. PICK l \in A : \A i \in A : bottom(l) <= bottom(i)
  <2> DEFINE T == {bottom(i) : i \in A}
  <2> HIDE DEF bottom
  <2>1. T \in SUBSET Nat /\ T # {}
    BY <1>1
  <2>2. PICK n \in T : \A m \in T : n <= m
    <3> HIDE DEF T
    <3> QED BY <2>1, LeastNumber
  <2> QED BY <2>2
<1> DEFINE b == CHOOSE x \in {bottom(i) : i \in A} : \A i \in A : x <= bottom(i)
           t == CHOOSE x \in {top(i) : i \in A} : \A i \in A : x >= top(i)
           e == CHOOSE x \in {top(i) - 1 : i \in A} : \A i \in A : x >= top(i) - 1
<1>5. KernelMap.base = b /\ KernelMap.limit = (t - b) - 1 /\ LastByte = e
  BY DEF KernelMap, LastByte, A
<1> HIDE DEF top, bottom
<1>6. b \in Nat
  <2>1. b \in {bottom(i) : i \in A}
    BY <1>4
  <2> QED BY <1>1, <2>1
<1>7. t = top(u)
  <2>1. top(u) \in {top(i) : i \in A} /\ \A i \in A : top(u) >= top(i)
    BY <1>1, <1>3
  <2>2. t \in {top(i) : i \in A} /\ \A i \in A : t >= top(i)
    BY <2>1
  <2>3. PICK j \in A : t = top(j)
    BY <2>2
  <2> HIDE DEF t
  <2> QED BY <1>1, <1>3, <2>2, <2>3
<1>8. e = top(u) - 1
  <2>1. top(u) - 1 \in {top(i) - 1 : i \in A} /\ \A i \in A : top(u) - 1 >= top(i) - 1
    BY <1>1, <1>3
  <2>2. e \in {top(i) - 1 : i \in A} /\ \A i \in A : e >= top(i) - 1
    BY <2>1
  <2>3. PICK j \in A : e = top(j) - 1
    BY <2>2
  <2> HIDE DEF e
  <2> QED BY <1>1, <1>3, <2>2, <2>3
<1>9. top(u) \in Nat /\ top(u) > 0 /\ top(u) <= PROCS_BASE
  BY <1>1, <1>3
<1> HIDE DEF b, t, e
<1> QED BY <1>2, <1>5, <1>6, <1>7, <1>8, <1>9

-----------------------------------------------------------------------------
(***************************************************************************)
(* The inductive invariant.  That the kernel's file is whole when the      *)
(* kernel begins rests on how far loader.asm has come: the sectors before  *)
(* the one whose cluster it holds are in memory, and es:bx is where that   *)
(* one goes (KernelLoading).  That processes lie apart in RAM rests on     *)
(* what the descriptors of each hold (SegmentsGiven), for a fork takes the *)
(* size of the parent from them.                                           *)
(***************************************************************************)
BootTypes ==
  /\ machine \in Machines /\ mem \in Memory
  /\ wSectorNo \in Nat /\ cluster \in Nat /\ es \in Nat /\ bx \in Nat
  /\ dwMCRNumber \in 0 .. Len(machine.bios)
  /\ DOMAIN ldts = Children \cup {INIT_PROC} /\ DOMAIN copied = Children
  /\ \/ stage = "boot" /\ pc \in {"search", "no file", "load"}
     \/ stage = "loader" /\ pc \in {"memory map", "search", "no file", "too large", "load",
                                    "count memory", "paging", "init kernel", "lost"}
     \/ stage = "kernel" /\ pc \in {"kernel_main", "runs", "lost", "panic"}

LoaderKept == stage = "loader" /\ pc # "lost" => LoaderInMemory(mem)

\* The first n bytes of the kernel's file are where loader.asm puts it.
KernelRead(n) == InMemory("KERNEL.BIN", KERNEL_FILE_PHY_ADDR, n, mem)

KernelLoading ==
  stage = "loader" /\ pc = "load" =>
    /\ machine.size <= KERNEL_VALID_SPACE
    /\ bx < SegSize /\ bx % BytsPerSec = 0
    /\ \E k \in 1 .. Len(machine.chain["KERNEL.BIN"]) :
         /\ cluster = machine.chain["KERNEL.BIN"][k]
         /\ es + bx = KERNEL_FILE_PHY_ADDR + (k - 1) * BytsPerSec
         /\ KernelRead((k - 1) * BytsPerSec)

KernelLoaded ==
  stage = "loader" /\ pc \in {"count memory", "paging", "init kernel"} =>
    machine.size <= KERNEL_VALID_SPACE /\ KernelRead(machine.size)

KernelPlaced ==
  stage = "kernel" =>
    /\ KernelRead(machine.size)
    /\ \A i \in DOMAIN machine.headers :
         LET h == machine.headers[i]
         IN  ~h.null => \A k \in 0 .. h.filesz - 1 :
                          mem[h.vaddr + k] = FileByte("KERNEL.BIN", h.offset + k)

\* Without a record of the BIOS, there was none; otherwise all were counted.
MemoryCounted ==
  /\ stage = "loader" /\ pc \in {"search", "load", "count memory"} =>
       dwMCRNumber \in {0, Len(machine.bios)}
  /\ stage = "kernel" \/ pc \in {"paging", "init kernel"} => RamIs(dwMemSize)
  /\ stage = "kernel" \/ pc = "init kernel" => tables = Tables /\ tables # 0

SegmentsGiven ==
  /\ pc \in {"runs", "panic"} => ldts[INIT_PROC] = Ldt(0, LastByte \div Page)
  /\ \A p \in Children : ldts[p] # NoLdt =>
       /\ pc \in {"runs", "panic"}
       /\ ldts[p] = Ldt(Base(p), (PROC_IMAGE_SIZE_DEFAULT - 1) \div Page)
       /\ copied[p] \in LastByte + 1 .. PROC_IMAGE_SIZE_DEFAULT
       /\ Base(p) + copied[p] <= dwMemSize * Unit

BootInv ==
  /\ BootTypes /\ LoaderKept /\ KernelLoading /\ KernelLoaded /\ KernelPlaced
  /\ MemoryCounted /\ SegmentsGiven

-----------------------------------------------------------------------------
\* What the steps do to memory.
LEMMA ReadTypes ==
  ASSUME NEW m \in Memory, NEW ax \in Nat, NEW cl \in Nat, NEW base \in Nat, NEW off \in Nat
  PROVE  ReadSector(m, ax, cl, base, off) \in Memory
<1>1. SegSize \in Nat \ {0} /\ BytsPerSec \in Nat /\ MemTop \in Nat
  BY Layout
<1>2. \A a \in Addresses : (a - base - off) % SegSize \in Int
  <2> TAKE a \in Addresses
  <2>1. PICK d \in Int : d = (a - base) - off
    BY <1>1 DEF Addresses
  <2>2. d % SegSize \in Int
    BY <1>1
  <2> QED BY <2>1, <2>2
<1>3. Int13(Geometry(ax)) * BytsPerSec \in Int
  BY <1>1, SectorNumber
<1>4. \A a \in Addresses : m[a] \in Int
  BY DEF Memory
<1> QED BY <1>2, <1>3, <1>4 DEF ReadSector, Memory

LEMMA LoaderStays ==
  ASSUME machine \in Machines, NEW m, NEW n, LoaderInMemory(m),
         \A a \in Addresses : a >= LOADER_PHY_ADDR => n[a] = m[a]
  PROVE  LoaderInMemory(n)
<1>1. LOADER_PHY_ADDR \in Nat /\ LOADER_OFF \in Nat /\ BytsPerSec \in Nat /\ MemTop \in Nat
  BY Layout
<1>2. PICK size : size = Len(machine.chain["LOADER.BIN"]) * BytsPerSec
  OBVIOUS
<1>3. size \in Nat /\ LOADER_PHY_ADDR + LOADER_OFF + size <= MemTop
  <2>1. Len(machine.chain["LOADER.BIN"]) \in Nat
    BY ChainTypes DEF Files
  <2>2. LOADER_PHY_ADDR + LOADER_OFF + size <= MemTop
    BY <1>2, FilesAssumption
  <2>3. size \in Nat
    BY <1>1, <1>2, <2>1
  <2> QED BY <2>2, <2>3
<1>4. \A i \in 0 .. size - 1 :
        /\ (LOADER_PHY_ADDR + LOADER_OFF) + i \in Addresses
        /\ (LOADER_PHY_ADDR + LOADER_OFF) + i >= LOADER_PHY_ADDR
  BY <1>1, <1>3 DEF Addresses
<1>5. \A i \in 0 .. size - 1 : m[(LOADER_PHY_ADDR + LOADER_OFF) + i] = FileByte("LOADER.BIN", i)
  BY <1>2 DEF LoaderInMemory, InMemory
<1>6. \A i \in 0 .. size - 1 : n[(LOADER_PHY_ADDR + LOADER_OFF) + i] = FileByte("LOADER.BIN", i)
  BY <1>4, <1>5
<1> QED BY <1>2, <1>6 DEF LoaderInMemory, InMemory

\* The kernel's sectors end where the loader begins, at the latest.
LEMMA SectorsFit ==
  ASSUME machine \in Machines, machine.size <= KERNEL_VALID_SPACE,
         NEW k \in 1 .. Len(machine.chain["KERNEL.BIN"])
  PROVE  /\ k \in Nat /\ k * BytsPerSec \in Nat /\ (k - 1) * BytsPerSec \in Nat
         /\ k * BytsPerSec = (k - 1) * BytsPerSec + BytsPerSec
         /\ k * BytsPerSec <= KERNEL_VALID_SPACE
         /\ k = Len(machine.chain["KERNEL.BIN"]) => machine.size <= k * BytsPerSec
         /\ machine.size \in Nat
<1>1. PICK n \in Nat \ {0}, l \in Nat, z \in Nat, v \in Nat :
        /\ n = BytsPerSec /\ l = Len(machine.chain["KERNEL.BIN"]) /\ z = machine.size
        /\ v = KERNEL_VALID_SPACE /\ z <= v
  <2>1. BytsPerSec \in Nat \ {0} /\ KERNEL_VALID_SPACE \in Nat
    BY Layout
  <2>2. Len(machine.chain["KERNEL.BIN"]) \in Nat
    BY ChainTypes DEF Files
  <2>3. machine.size \in Nat
    BY FilesAssumption
  <2> QED BY <2>1, <2>2, <2>3
<1>2. z <= l * n /\ (l - 1) * n < z
  BY <1>1, FilesAssumption
<1>3. PICK u \in Nat : v = u * n
  <2>1. v % n = 0
    BY <1>1, BootAssumption
  <2>2. PICK q \in Nat, r \in 0 .. n - 1 : v = q * n + r /\ v \div n = q /\ v % n = r
    BY HasPlace
  <2>3. q * n \in Nat
    OBVIOUS
  <2> QED BY <2>1, <2>2, <2>3
<1>4. l <= u
  <2>1. l - 1 \in Int /\ (l - 1) * n \in Int /\ u * n \in Int
    OBVIOUS
  <2>2. (l - 1) * n < u * n
    <3>1. PICK x \in Int : x = (l - 1) * n
      BY <2>1
    <3>2. x < z /\ z <= v
      BY <1>1, <1>2, <3>1
    <3>3. x < v
      BY <3>2
    <3> QED BY <1>3, <3>1, <3>3
  <2>3. (l - 1) + 1 <= u
    BY <2>1, <2>2, Multiples
  <2> QED BY <2>3
<1>5. k \in Nat /\ k - 1 \in Nat /\ k <= u /\ (k - 1) + 1 = k
  BY <1>1, <1>4
<1>6. k * n <= u * n
  BY <1>5, Multiples
<1>7. ((k - 1) + 1) * n = (k - 1) * n + n
  BY <1>5, Multiples
<1>8. k * n \in Nat /\ (k - 1) * n \in Nat
  BY <1>5
<1> QED BY <1>1, <1>2, <1>3, <1>5, <1>6, <1>7, <1>8

\* Where the bytes of the sector come from that is byte (k - 1) * BytsPerSec and
\* on of a file.
LEMMA SectorBytes ==
  ASSUME NEW f, NEW k \in Nat \ {0}, NEW r \in 0 .. BytsPerSec - 1
  PROVE  FileByte(f, (k - 1) * BytsPerSec + r) = SectorOf(machine.chain[f][k]) * BytsPerSec + r
<1>1. BytsPerSec \in Nat \ {0}
  BY Layout
<1>2. PICK q \in Int : q = k - 1
  OBVIOUS
<1>3. PICK i : i = q * BytsPerSec + r
  OBVIOUS
<1>4. i \div BytsPerSec = q /\ i % BytsPerSec = r
  BY <1>1, <1>3, PlaceIs
<1>5. FileByte(f, i) = SectorOf(machine.chain[f][q + 1]) * BytsPerSec + r
  BY <1>4 DEF FileByte
<1>6. q + 1 = k
  BY <1>2
<1> QED BY <1>2, <1>3, <1>5, <1>6

-----------------------------------------------------------------------------
\* What holds of INIT's and the children's segments until there are any.
LEMMA NoSegments ==
  ASSUME SegmentsGiven, pc \notin {"runs", "panic"}, pc' \notin {"runs", "panic"},
         UNCHANGED ldts
  PROVE  SegmentsGiven'
BY DEF SegmentsGiven

LEMMA NoFileKeeps == BootInv /\ NoFile => BootInv'
<1> SUFFICES ASSUME BootInv, NoFile PROVE BootInv'
  OBVIOUS
<1> USE DEF BootInv, NoFile, search, load, memory, kernel
<1>1. BootTypes'
  BY DEF BootTypes
<1>2. LoaderKept' /\ KernelLoading' /\ KernelLoaded' /\ KernelPlaced'
  <2>1. stage = "loader" => LoaderInMemory(mem')
    BY DEF LoaderKept
  <2>2. stage' # "kernel"
    BY DEF BootTypes
  <2> QED BY <2>1, <2>2 DEF LoaderKept, LoaderInMemory, InMemory, FileByte, KernelLoading, KernelLoaded, KernelPlaced
<1>3. MemoryCounted'
  BY DEF MemoryCounted, BootTypes
<1>4. SegmentsGiven'
  BY NoSegments
<1> QED BY <1>1, <1>2, <1>3, <1>4

LEMMA SearchSectorKeeps == BootInv /\ SearchSector => BootInv'
<1> SUFFICES ASSUME BootInv, SearchSector PROVE BootInv'
  OBVIOUS
<1>1. /\ BootTypes /\ LoaderKept /\ MemoryCounted /\ SegmentsGiven
      /\ pc = "search" /\ mem' = ReadSector(mem, wSectorNo, 1, Place, Offset)
      /\ UNCHANGED <<machine, stage, dwMCRNumber, dwMemSize, tables, ldts, copied>>
  BY DEF BootInv, SearchSector, memory, kernel
<1>2. \/ UNCHANGED <<pc, cluster, es, bx>> /\ wSectorNo' = wSectorNo + 1
      \/ /\ pc' = (IF TooLarge THEN "too large" ELSE "load") /\ wSectorNo' = wSectorNo
         /\ cluster' = machine.chain[FileName][1] /\ es' = Place /\ bx' = Offset
  BY DEF SearchSector, load
<1>3. /\ BytsPerSec \in Nat \ {0} /\ SegSize \in Nat \ {0} /\ 2 * BytsPerSec <= SegSize
      /\ Place \in Nat /\ Offset \in Nat /\ KERNEL_FILE_PHY_ADDR \in Nat
      /\ BytsPerSec <= KERNEL_VALID_SPACE /\ KERNEL_VALID_SPACE \in Nat
      /\ LOADER_PHY_ADDR = KERNEL_FILE_PHY_ADDR + KERNEL_VALID_SPACE
  <2>1. 2 * BytsPerSec <= SegSize /\ KERNEL_VALID_SPACE % BytsPerSec = 0
    BY BootAssumption
  <2>2. PICK n \in Nat \ {0}, v \in Nat \ {0} : n = BytsPerSec /\ v = KERNEL_VALID_SPACE
    BY Layout
  <2>3. ~(v < n)
    <3>1. SUFFICES ASSUME v < n PROVE FALSE
      OBVIOUS
    <3>2. v % n = v
      BY <3>1, Itself
    <3> QED BY <2>1, <2>2, <3>2
  <2> QED BY <2>1, <2>2, <2>3, Layout DEF Place, Offset
<1>4. FileName \in Files /\ machine.chain[FileName][1] \in Nat
  <2>1. FileName \in Files /\ machine \in Machines
    BY <1>1 DEF FileName, Files, BootTypes
  <2>2. PICK f \in Files : f = FileName
    BY <2>1
  <2>3. 1 \in 1 .. Len(machine.chain[f])
    BY <2>1, ChainTypes
  <2>4. machine.chain[f][1] \in 2 .. EndOfFile - 1
    BY <2>1, <2>3, ChainTypes
  <2>5. EndOfFile \in Nat
    BY DEF EndOfFile
  <2>6. machine.chain[f][1] \in Nat
    BY <2>4, <2>5
  <2> QED BY <2>2, <2>6
<1>5. BootTypes'
  <2>1. mem' \in Memory
    BY <1>1, <1>3, ReadTypes DEF BootTypes
  <2>2. /\ wSectorNo' \in Nat /\ cluster' \in Nat /\ es' \in Nat /\ bx' \in Nat
    <3>1. wSectorNo \in Nat /\ cluster \in Nat /\ es \in Nat /\ bx \in Nat
      BY <1>1 DEF BootTypes
    <3>2. \/ cluster' = cluster /\ es' = es /\ bx' = bx /\ wSectorNo' = wSectorNo + 1
          \/ /\ cluster' = machine.chain[FileName][1] /\ es' = Place /\ bx' = Offset
             /\ wSectorNo' = wSectorNo
      BY <1>2
    <3> QED BY <1>3, <1>4, <3>1, <3>2
  <2>3. pc' = pc \/ pc' = "load" \/ (stage = "loader" /\ pc' = "too large")
    BY <1>2 DEF TooLarge
  <2> QED BY <1>1, <2>1, <2>2, <2>3 DEF BootTypes
<1>6. stage = "loader" => \A a \in Addresses : a >= LOADER_PHY_ADDR => mem'[a] = mem[a]
  <2> SUFFICES ASSUME stage = "loader", NEW a \in Addresses, a >= LOADER_PHY_ADDR PROVE mem'[a] = mem[a]
    OBVIOUS
  <2>1. Place = KERNEL_FILE_PHY_ADDR /\ Offset = 0
    BY DEF Place, Offset
  <2>2. PICK ax \in Nat, base \in Nat, off \in Nat, cl \in Nat :
          ax = wSectorNo /\ base = KERNEL_FILE_PHY_ADDR /\ off = 0 /\ cl = 1
    BY <1>1, <1>3 DEF BootTypes
  <2>3. mem \in [Addresses -> Int] /\ off + cl * BytsPerSec <= SegSize
    BY <1>1, <1>3, <2>2 DEF BootTypes, Memory
  <2>4. ReadSector(mem, ax, cl, base, off)[a] =
          IF a - (base + off) \in 0 .. cl * BytsPerSec - 1
          THEN ax * BytsPerSec + (a - (base + off)) ELSE mem[a]
    BY <2>3, SectorRead
  <2>5. a - (base + off) \notin 0 .. cl * BytsPerSec - 1
    <3>1. a \in Nat
      BY Layout DEF Addresses
    <3> QED BY <1>3, <2>2, <3>1
  <2>6. mem' = ReadSector(mem, ax, cl, base, off)
    BY <1>1, <2>1, <2>2
  <2> QED BY <2>4, <2>5, <2>6
<1>7. LoaderKept'
  <2>1. SUFFICES ASSUME stage = "loader" PROVE LoaderInMemory(mem')
    BY <1>1 DEF LoaderKept, LoaderInMemory, InMemory, FileByte
  <2>2. LoaderInMemory(mem) /\ machine \in Machines
    BY <1>1, <2>1 DEF LoaderKept, BootTypes
  <2> QED BY <1>6, <2>1, <2>2, LoaderStays
<1>8. KernelLoading'
  <2>1. SUFFICES ASSUME stage = "loader", pc' = "load"
                 PROVE  /\ machine.size <= KERNEL_VALID_SPACE
                        /\ bx' < SegSize /\ bx' % BytsPerSec = 0
                        /\ \E k \in 1 .. Len(machine.chain["KERNEL.BIN"]) :
                             /\ cluster' = machine.chain["KERNEL.BIN"][k]
                             /\ es' + bx' = KERNEL_FILE_PHY_ADDR + (k - 1) * BytsPerSec
                             /\ KernelRead((k - 1) * BytsPerSec)'
    BY <1>1 DEF KernelLoading
  <2>2. /\ cluster' = machine.chain["KERNEL.BIN"][1] /\ es' = KERNEL_FILE_PHY_ADDR /\ bx' = 0
        /\ ~(machine.size > KERNEL_VALID_SPACE)
    BY <1>1, <1>2, <2>1 DEF Place, Offset, FileName, TooLarge
  <2>3. machine.size \in Nat /\ Len(machine.chain["KERNEL.BIN"]) \in Nat \ {0}
    <3>1. machine \in Machines
      BY <1>1 DEF BootTypes
    <3> QED BY <3>1, FilesAssumption, ChainTypes DEF Files
  <2>4. PICK z \in Nat : z = 0
    OBVIOUS
  <2>5. bx' < SegSize /\ bx' % BytsPerSec = 0
    <3>1. z % BytsPerSec = z
      BY <1>3, <2>4, Itself
    <3> QED BY <1>3, <2>2, <2>4, <3>1
  <2>6. PICK k \in 1 .. Len(machine.chain["KERNEL.BIN"]) : k = 1
    BY <2>3
  <2>7. (k - 1) * BytsPerSec = 0
    BY <1>3, <2>6
  <2>8. KernelRead((k - 1) * BytsPerSec)'
    BY <2>7 DEF KernelRead, InMemory
  <2>9. cluster' = machine.chain["KERNEL.BIN"][k] /\ es' + bx' = KERNEL_FILE_PHY_ADDR + (k - 1) * BytsPerSec
    BY <1>3, <2>2, <2>6, <2>7
  <2>10. machine.size <= KERNEL_VALID_SPACE
    BY <1>3, <2>2, <2>3
  <2> QED BY <2>5, <2>8, <2>9, <2>10
<1>9. pc' \in {"search", "load", "too large"} /\ stage \in {"boot", "loader"}
  BY <1>1, <1>2 DEF BootTypes
<1>10. KernelLoaded' /\ KernelPlaced'
  BY <1>1, <1>9 DEF KernelLoaded, KernelPlaced
<1>11. MemoryCounted'
  BY <1>1, <1>9 DEF MemoryCounted
<1>12. SegmentsGiven'
  BY <1>1, <1>9, NoSegments
<1> QED BY <1>5, <1>7, <1>8, <1>10, <1>11, <1>12 DEF BootInv

\* One sector more: what LoadSector does in either program.
LEMMA LoadReads ==
  ASSUME BootTypes, LoadSector
  PROVE  LET m == ReadSector(mem, SectorOf(cluster), 1, es, bx)
         IN  /\ m \in Memory /\ mem' \in Memory /\ SectorOf(cluster) \in Nat
             /\ \A a \in Addresses : a >= Place => mem'[a] = m[a]
             /\ IF Entry(cluster) = EndOfFile THEN FileLoaded
                ELSE cluster' = Entry(cluster) /\ NextPlace /\ UNCHANGED <<stage, pc, search>>
             /\ UNCHANGED <<machine, dwMCRNumber, dwMemSize, tables, ldts, copied>> /\ pc = "load"
<1> DEFINE m == ReadSector(mem, SectorOf(cluster), 1, es, bx)
<1>1. /\ mem' = FatRead(m, cluster) /\ pc = "load"
      /\ IF IsLast(GetFATEntry(mem', cluster)) THEN FileLoaded
         ELSE cluster' = GetFATEntry(mem', cluster) /\ NextPlace /\ UNCHANGED <<stage, pc, search>>
      /\ UNCHANGED <<machine, dwMCRNumber, dwMemSize, tables, ldts, copied>>
  BY DEF LoadSector, memory, kernel
<1>2. machine \in Machines /\ mem \in Memory /\ cluster \in Nat /\ es \in Nat /\ bx \in Nat
  BY DEF BootTypes
<1>3. PICK ax \in Nat : ax = SectorOf(cluster)
  <2>1. RootDirSectors \in Nat /\ RsvdSecCnt \in Nat \ {0} /\ FATSz \in Nat \ {0}
    BY BootAssumption
  <2>2. SectorOf(cluster) \in Nat
    BY <1>2, <2>1 DEF SectorOf, DeltaSectorNo
  <2> QED BY <2>2
<1>4. m \in Memory
  <2>1. PICK cl \in Nat : cl = 1
    OBVIOUS
  <2>2. ReadSector(mem, ax, cl, es, bx) \in Memory
    BY <1>2, ReadTypes
  <2> QED BY <1>3, <2>1, <2>2
<1> HIDE DEF m
<1>5. m \in [Addresses -> Int]
  BY <1>4 DEF Memory
<1>6. /\ FatRead(m, cluster) \in [Addresses -> Int]
      /\ \A a \in Addresses : a >= Place => FatRead(m, cluster)[a] = m[a]
      /\ GetFATEntry(FatRead(m, cluster), cluster) = Entry(cluster)
  BY <1>2, <1>5, FatEntryRead
<1>7. mem' \in Memory
  BY <1>1, <1>6 DEF Memory
<1>8. /\ \A a \in Addresses : a >= Place => mem'[a] = m[a]
      /\ GetFATEntry(mem', cluster) = Entry(cluster)
  BY <1>1, <1>6
<1>9. IF Entry(cluster) = EndOfFile THEN FileLoaded
      ELSE cluster' = Entry(cluster) /\ NextPlace /\ UNCHANGED <<stage, pc, search>>
  BY <1>1, <1>8 DEF IsLast, EndOfFile
<1> QED BY <1>1, <1>3, <1>4, <1>7, <1>8, <1>9 DEF m

LEMMA NextPlaceTypes ==
  ASSUME BootTypes, NextPlace
  PROVE  es' \in Nat /\ bx' \in Nat
<1>1. PICK n \in Nat \ {0}, k \in Nat \ {0} : n = SegSize /\ k = BytsPerSec
  BY Layout
<1>2. es \in Nat /\ bx \in Nat
  BY DEF BootTypes
<1>3. (bx + k) % n \in Nat
  BY <1>1, <1>2
<1>4. 16 * n \in Nat \ {0} /\ (es + n) % (16 * n) \in Nat
  <2>1. PICK x \in Nat \ {0} : x = 16 * n
    OBVIOUS
  <2>2. (es + n) % x \in Nat
    BY <1>2
  <2> QED BY <2>1, <2>2
<1> QED BY <1>1, <1>2, <1>3, <1>4 DEF NextPlace

\* In boot.asm the FAT leads through numbers of clusters, and what is loaded is
\* looked at in the end.
LEMMA BootLoadKeeps == BootInv /\ LoadSector /\ stage = "boot" => BootInv'
<1> SUFFICES ASSUME BootInv, LoadSector, stage = "boot" PROVE BootInv'
  OBVIOUS
<1>1. BootTypes /\ SegmentsGiven
  BY DEF BootInv
<1>2. /\ mem' \in Memory
      /\ IF Entry(cluster) = EndOfFile THEN FileLoaded
         ELSE cluster' = Entry(cluster) /\ NextPlace /\ UNCHANGED <<stage, pc, search>>
      /\ UNCHANGED <<machine, dwMCRNumber, dwMemSize, tables, ldts, copied>> /\ pc = "load"
  BY <1>1, LoadReads
<1>3. CASE Entry(cluster) = EndOfFile
  <2>1. /\ stage' = "loader" /\ pc' = (IF LoaderInMemory(mem') THEN "memory map" ELSE "lost")
        /\ wSectorNo' = SectorNoOfRootDirectory /\ UNCHANGED <<cluster, es, bx>>
    BY <1>2, <1>3 DEF FileLoaded, load
  <2>2. SectorNoOfRootDirectory \in Nat
    BY BootAssumption DEF SectorNoOfRootDirectory
  <2>3. BootTypes'
    BY <1>1, <1>2, <2>1, <2>2 DEF BootTypes
  <2>4. LoaderKept'
    BY <1>2, <2>1 DEF LoaderKept, LoaderInMemory, InMemory, FileByte
  <2>5. KernelLoading' /\ KernelLoaded' /\ KernelPlaced' /\ MemoryCounted'
    BY <2>1 DEF KernelLoading, KernelLoaded, KernelPlaced, MemoryCounted
  <2>6. SegmentsGiven'
    BY <1>1, <1>2, <2>1, NoSegments
  <2> QED BY <2>3, <2>4, <2>5, <2>6 DEF BootInv
<1>4. CASE Entry(cluster) # EndOfFile
  <2>1. cluster' = Entry(cluster) /\ NextPlace /\ UNCHANGED <<stage, pc, wSectorNo>>
    BY <1>2, <1>4 DEF search
  <2>2. cluster' \in Nat
    <3>1. machine \in Machines /\ cluster \in Nat
      BY <1>1 DEF BootTypes
    <3> QED BY <2>1, <3>1, EntryType
  <2>3. es' \in Nat /\ bx' \in Nat
    BY <1>1, <2>1, NextPlaceTypes
  <2>4. BootTypes'
    BY <1>1, <1>2, <2>1, <2>2, <2>3 DEF BootTypes
  <2>5. LoaderKept' /\ KernelLoading' /\ KernelLoaded' /\ KernelPlaced' /\ MemoryCounted'
    BY <1>2, <2>1 DEF LoaderKept, KernelLoading, KernelLoaded, KernelPlaced, MemoryCounted
  <2>6. SegmentsGiven'
    BY <1>1, <1>2, <2>1, NoSegments
  <2> QED BY <2>4, <2>5, <2>6 DEF BootInv
<1> QED BY <1>3, <1>4

\* One sector, which goes to es:bx.
LEMMA OneSector ==
  ASSUME NEW m \in [Addresses -> Int], NEW ax \in Nat, NEW base \in Nat, NEW off \in Nat,
         off + BytsPerSec <= SegSize
  PROVE  \A a \in Addresses : ReadSector(m, ax, 1, base, off)[a] =
           IF a - (base + off) \in 0 .. BytsPerSec - 1
           THEN ax * BytsPerSec + (a - (base + off)) ELSE m[a]
<1>1. PICK cl \in Nat : cl = 1
  OBVIOUS
<1>2. BytsPerSec \in Nat
  BY Layout
<1>3. cl * BytsPerSec = BytsPerSec /\ off + cl * BytsPerSec <= SegSize
  BY <1>1, <1>2
<1>4. \A a \in Addresses : ReadSector(m, ax, cl, base, off)[a] =
        IF a - (base + off) \in 0 .. cl * BytsPerSec - 1
        THEN ax * BytsPerSec + (a - (base + off)) ELSE m[a]
  BY <1>3, SectorRead
<1> QED BY <1>1, <1>3, <1>4

\* In loader.asm the next sector of the kernel comes to follow those that are
\* there, whether it is in the same segment or not.
LEMMA SectorFollows ==
  ASSUME BootTypes, machine.size <= KERNEL_VALID_SPACE, bx < SegSize, bx % BytsPerSec = 0,
         NEW k \in 1 .. Len(machine.chain["KERNEL.BIN"]),
         cluster = machine.chain["KERNEL.BIN"][k],
         es + bx = KERNEL_FILE_PHY_ADDR + (k - 1) * BytsPerSec,
         KernelRead((k - 1) * BytsPerSec), LoadSector, stage = "loader"
  PROVE  /\ KernelRead(k * BytsPerSec)'
         /\ \A a \in Addresses : a >= LOADER_PHY_ADDR => mem'[a] = mem[a]
         /\ bx + BytsPerSec <= SegSize
<1> DEFINE m == ReadSector(mem, SectorOf(cluster), 1, es, bx)
<1>1. /\ m \in Memory /\ mem' \in Memory /\ SectorOf(cluster) \in Nat
      /\ \A a \in Addresses : a >= Place => mem'[a] = m[a]
      /\ machine' = machine
  BY LoadReads
<1>2. machine \in Machines /\ es \in Nat /\ bx \in Nat /\ mem \in [Addresses -> Int]
  BY DEF BootTypes, Memory
<1>3. PICK B \in Nat \ {0}, G \in Nat \ {0}, K \in Nat, L \in Nat, T \in Nat :
        /\ B = BytsPerSec /\ G = SegSize /\ K = KERNEL_FILE_PHY_ADDR
        /\ L = LOADER_PHY_ADDR /\ T = MemTop /\ L <= T /\ L = K + KERNEL_VALID_SPACE
  BY Layout
<1>4. PICK at \in Nat, next \in Nat :
        at = (k - 1) * B /\ next = k * B /\ next = at + B /\ next <= L - K
  <2>1. /\ k * BytsPerSec \in Nat /\ (k - 1) * BytsPerSec \in Nat
        /\ k * BytsPerSec = (k - 1) * BytsPerSec + BytsPerSec
        /\ k * BytsPerSec <= KERNEL_VALID_SPACE
    BY <1>2, SectorsFit
  <2>2. KERNEL_VALID_SPACE = L - K
    BY <1>3, Layout
  <2> QED BY <1>3, <2>1, <2>2
<1>5. bx + B <= G
  <2>1. PICK u \in Nat, r \in 0 .. B - 1 : G = u * B + r /\ G \div B = u /\ G % B = r
    BY HasPlace
  <2>2. PICK v \in Nat, q \in 0 .. B - 1 : bx = v * B + q /\ bx \div B = v /\ bx % B = q
    BY <1>2, HasPlace
  <2>3. r = 0 /\ q = 0
    BY <1>3, <2>1, <2>2, BootAssumption
  <2>4. u * B \in Nat /\ v * B \in Nat
    OBVIOUS
  <2>5. v * B < u * B
    BY <1>3, <2>1, <2>2, <2>3, <2>4
  <2>6. v * B + B <= u * B
    BY <2>5, Multiples
  <2> QED BY <2>1, <2>2, <2>3, <2>4, <2>6
<1>6. PICK ax \in Nat : ax = SectorOf(cluster)
  BY <1>1
<1>7. es + bx = K + at
  BY <1>3, <1>4
<1>8. \A a \in Addresses : ReadSector(mem, ax, 1, es, bx)[a] =
        IF a - (es + bx) \in 0 .. BytsPerSec - 1
        THEN ax * BytsPerSec + (a - (es + bx)) ELSE mem[a]
  <2>1. bx + BytsPerSec <= SegSize
    BY <1>3, <1>5
  <2> QED BY <1>2, <2>1, OneSector
<1>9. \A a \in Addresses : m[a] = IF a - (K + at) \in 0 .. B - 1 THEN ax * B + (a - (K + at)) ELSE mem[a]
  BY <1>3, <1>6, <1>7, <1>8
<1>10. Place = K
  BY <1>3 DEF Place
<1> HIDE DEF m
<1>11. \A a \in Addresses : a \in Nat /\ a < T
  BY <1>3 DEF Addresses
<1>12. \A a \in Addresses : a >= LOADER_PHY_ADDR => mem'[a] = mem[a]
  <2> SUFFICES ASSUME NEW a \in Addresses, a >= L PROVE mem'[a] = mem[a]
    BY <1>3
  <2>1. a - (K + at) \notin 0 .. B - 1 /\ a >= K
    BY <1>4, <1>11
  <2> QED BY <1>1, <1>9, <1>10, <2>1
<1>13. ASSUME NEW i \in 0 .. next - 1 PROVE mem'[K + i] = FileByte("KERNEL.BIN", i)
  <2>1. K + i \in Addresses /\ K + i >= K /\ i \in Nat
    BY <1>3, <1>4 DEF Addresses
  <2>2. mem'[K + i] = m[K + i]
    BY <1>1, <1>10, <2>1
  <2>3. CASE i < at
    <3>1. (K + i) - (K + at) \notin 0 .. B - 1 /\ i \in 0 .. at - 1
      BY <2>1, <2>3
    <3>2. m[K + i] = mem[K + i]
      BY <1>9, <2>1, <3>1
    <3>3. mem[K + i] = FileByte("KERNEL.BIN", i)
      BY <1>3, <1>4, <3>1 DEF KernelRead, InMemory
    <3> QED BY <2>2, <3>2, <3>3
  <2>4. CASE i >= at
    <3>1. PICK r \in 0 .. B - 1 : i = at + r
      <4>1. i - at \in 0 .. B - 1 /\ i = at + (i - at)
        BY <1>4, <2>1, <2>4
      <4> QED BY <4>1
    <3>2. (K + i) - (K + at) = r
      BY <3>1
    <3>3. m[K + i] = ax * B + r
      BY <1>9, <2>1, <3>1, <3>2
    <3>4. FileByte("KERNEL.BIN", (k - 1) * BytsPerSec + r) =
            SectorOf(machine.chain["KERNEL.BIN"][k]) * BytsPerSec + r
      <4>1. k \in Nat \ {0} /\ r \in 0 .. BytsPerSec - 1
        BY <1>3
      <4> QED BY <4>1, SectorBytes
    <3>5. FileByte("KERNEL.BIN", i) = ax * B + r
      BY <1>3, <1>4, <1>6, <3>1, <3>4
    <3> QED BY <2>2, <3>3, <3>5
  <2> QED BY <1>4, <2>1, <2>3, <2>4
<1>14. KernelRead(k * BytsPerSec)'
  <2>1. \A i : FileByte("KERNEL.BIN", i)' = FileByte("KERNEL.BIN", i)
    BY <1>1 DEF FileByte
  <2>2. \A i \in 0 .. k * BytsPerSec - 1 :
          mem'[KERNEL_FILE_PHY_ADDR + i] = FileByte("KERNEL.BIN", i)
    BY <1>3, <1>4, <1>13
  <2> QED BY <1>1, <2>2 DEF KernelRead, InMemory, FileByte
<1> QED BY <1>3, <1>5, <1>12, <1>14

\* The place after es:bx, in the same segment or the next one.
Follows(b, n, e, x, y, f) == y < n /\ y % b = 0 /\ f + y = (e + x) + b

LEMMA NextPlaceFollows ==
  ASSUME NEW b \in Nat \ {0}, NEW n \in Nat \ {0}, NEW e \in Nat, NEW x \in Nat,
         b <= n, n % b = 0, x % b = 0, x + b <= n, e + x + b < 16 * n
  PROVE  Follows(b, n, e, x, (x + b) % n, IF x + b >= n THEN (e + n) % (16 * n) ELSE e)
<1> USE DEF Follows
<1>1. CASE x + b = n
  <2>1. PICK N \in Nat \ {0}, s \in Nat, z \in Nat : N = 16 * n /\ s = e + n /\ z = 0
    OBVIOUS
  <2>2. s < N
    BY <1>1, <2>1
  <2>3. s % N = s
    BY <2>2, Itself
  <2>4. n % n = z
    <3>1. PICK q \in Int, r \in 0 .. n - 1 : q = 1 /\ r = z
      BY <2>1
    <3>2. q * n = n
      BY <3>1
    <3>3. n = q * n + r
      BY <2>1, <3>1, <3>2
    <3>4. n % n = r
      BY <3>3, PlaceIs
    <3> QED BY <3>1, <3>4
  <2>5. z % b = z
    BY <2>1, Itself
  <2> QED BY <1>1, <2>1, <2>3, <2>4, <2>5
<1>2. CASE x + b < n
  <2>1. PICK y \in Nat : y = x + b
    OBVIOUS
  <2>2. y % n = y
    BY <1>2, <2>1, Itself
  <2>3. y % b = 0
    <3>1. PICK q \in Nat, r \in 0 .. b - 1 : x = q * b + r /\ x \div b = q /\ x % b = r
      BY HasPlace
    <3>2. PICK p \in Int : p = q + 1
      OBVIOUS
    <3>3. p * b = q * b + b /\ q * b \in Nat
      BY <3>2, Multiples
    <3>4. y = p * b + r
      BY <2>1, <3>1, <3>3
    <3>5. y % b = r
      BY <3>4, PlaceIs
    <3> QED BY <3>1, <3>5
  <2> QED BY <1>2, <2>1, <2>2, <2>3
<1> QED BY <1>1, <1>2

\* After the last sector the file is whole, and after any other the next one of
\* the file is to come.
LEMMA LoaderLoadKeeps == BootInv /\ LoadSector /\ stage = "loader" => BootInv'
<1> SUFFICES ASSUME BootInv, LoadSector, stage = "loader" PROVE BootInv'
  OBVIOUS
<1>1. BootTypes /\ LoaderKept /\ KernelLoading /\ MemoryCounted /\ SegmentsGiven
  BY DEF BootInv
<1>2. /\ mem' \in Memory
      /\ IF Entry(cluster) = EndOfFile THEN FileLoaded
         ELSE cluster' = Entry(cluster) /\ NextPlace /\ UNCHANGED <<stage, pc, search>>
      /\ UNCHANGED <<machine, dwMCRNumber, dwMemSize, tables, ldts, copied>> /\ pc = "load"
  BY <1>1, LoadReads
<1>3. /\ machine \in Machines /\ es \in Nat /\ bx \in Nat
      /\ machine.size <= KERNEL_VALID_SPACE /\ bx < SegSize /\ bx % BytsPerSec = 0
  BY <1>1, <1>2 DEF BootTypes, KernelLoading
<1>4. PICK k \in 1 .. Len(machine.chain["KERNEL.BIN"]) :
        /\ cluster = machine.chain["KERNEL.BIN"][k]
        /\ es + bx = KERNEL_FILE_PHY_ADDR + (k - 1) * BytsPerSec
        /\ KernelRead((k - 1) * BytsPerSec)
  BY <1>1, <1>2 DEF KernelLoading
<1>5. /\ KernelRead(k * BytsPerSec)'
      /\ \A a \in Addresses : a >= LOADER_PHY_ADDR => mem'[a] = mem[a]
      /\ bx + BytsPerSec <= SegSize
  BY <1>1, <1>3, <1>4, SectorFollows
<1>6. LoaderKept'
  <2>1. LoaderInMemory(mem)
    BY <1>1, <1>2 DEF LoaderKept
  <2>2. LoaderInMemory(mem')
    BY <1>3, <1>5, <2>1, LoaderStays
  <2> QED BY <1>2, <2>2 DEF LoaderKept, LoaderInMemory, InMemory, FileByte
<1>7. Entry(cluster) = IF k = Len(machine.chain["KERNEL.BIN"]) THEN EndOfFile
                       ELSE machine.chain["KERNEL.BIN"][k + 1]
  <2>1. PICK f \in Files : f = "KERNEL.BIN"
    BY DEF Files
  <2>2. k \in 1 .. Len(machine.chain[f])
    BY <2>1
  <2> QED BY <1>3, <1>4, <2>1, <2>2, EntryNext
<1>8. CASE k = Len(machine.chain["KERNEL.BIN"])
  <2>1. pc' = "count memory" /\ UNCHANGED <<stage, wSectorNo, cluster, es, bx>>
    BY <1>2, <1>7, <1>8 DEF FileLoaded, search, load
  <2>2. BootTypes'
    BY <1>1, <1>2, <2>1 DEF BootTypes
  <2>3. KernelLoaded'
    <3>1. machine.size <= k * BytsPerSec /\ k * BytsPerSec \in Nat /\ machine.size \in Nat
      BY <1>3, <1>8, SectorsFit
    <3>2. 0 .. machine.size - 1 \subseteq 0 .. k * BytsPerSec - 1
      BY <3>1
    <3>3. KernelRead(machine.size)'
      BY <1>2, <1>5, <3>2 DEF KernelRead, InMemory
    <3> QED BY <1>2, <1>3, <3>3 DEF KernelLoaded
  <2>4. KernelLoading' /\ KernelPlaced'
    BY <2>1 DEF KernelLoading, KernelPlaced
  <2>5. MemoryCounted'
    BY <1>1, <1>2, <2>1 DEF MemoryCounted
  <2>6. SegmentsGiven'
    BY <1>1, <1>2, <2>1, NoSegments
  <2> QED BY <1>6, <2>2, <2>3, <2>4, <2>5, <2>6 DEF BootInv
<1>9. CASE k # Len(machine.chain["KERNEL.BIN"])
  <2>1. PICK j \in 1 .. Len(machine.chain["KERNEL.BIN"]) : j = k + 1 /\ j - 1 = k /\ k \in Nat
    <3>1. Len(machine.chain["KERNEL.BIN"]) \in Nat
      BY <1>3, ChainTypes DEF Files
    <3> QED BY <1>9, <3>1
  <2>2. Entry(cluster) = machine.chain["KERNEL.BIN"][j] /\ Entry(cluster) # EndOfFile
        /\ Entry(cluster) \in Nat
    <3>1. machine.chain["KERNEL.BIN"][j] \in 2 .. EndOfFile - 1
      BY <1>3, ChainTypes DEF Files
    <3>2. EndOfFile \in Nat
      BY DEF EndOfFile
    <3>3. machine.chain["KERNEL.BIN"][j] # EndOfFile /\ machine.chain["KERNEL.BIN"][j] \in Nat
      BY <3>1, <3>2
    <3> QED BY <1>7, <1>9, <2>1, <3>3
  <2>3. cluster' = machine.chain["KERNEL.BIN"][j] /\ NextPlace /\ UNCHANGED <<stage, pc, wSectorNo>>
    BY <1>2, <2>2 DEF search
  <2>4. PICK b \in Nat \ {0}, n \in Nat \ {0}, e \in Nat, x \in Nat, p \in Nat, q \in Nat :
          /\ b = BytsPerSec /\ n = SegSize /\ e = es /\ x = bx
          /\ p = (k - 1) * BytsPerSec /\ q = k * BytsPerSec /\ q = p + b
          /\ KERNEL_FILE_PHY_ADDR + q < LOADER_PHY_ADDR
    <3>1. /\ k * BytsPerSec \in Nat /\ (k - 1) * BytsPerSec \in Nat
          /\ k * BytsPerSec = (k - 1) * BytsPerSec + BytsPerSec
      BY <1>3, SectorsFit
    <3>2. /\ j * BytsPerSec \in Nat /\ (j - 1) * BytsPerSec \in Nat
          /\ j * BytsPerSec = (j - 1) * BytsPerSec + BytsPerSec
          /\ j * BytsPerSec <= KERNEL_VALID_SPACE
      BY <1>3, SectorsFit
    <3>3. (j - 1) * BytsPerSec = k * BytsPerSec
      BY <2>1
    <3>4. KERNEL_FILE_PHY_ADDR + k * BytsPerSec < LOADER_PHY_ADDR
      BY <3>2, <3>3, Layout
    <3> QED BY <1>3, <3>1, <3>4, Layout
  <2>5. b <= n /\ n % b = 0 /\ x % b = 0 /\ x + b <= n /\ LOADER_PHY_ADDR <= 16 * n
    BY <1>3, <1>5, <2>4, BootAssumption
  <2>6. e + x = KERNEL_FILE_PHY_ADDR + p
    BY <1>4, <2>4
  <2>7. e + x + b < 16 * n
    BY <2>4, <2>5, <2>6, Layout
  <2>8. bx' < SegSize /\ bx' % BytsPerSec = 0 /\ es' + bx' = (es + bx) + BytsPerSec
    <3>1. Follows(b, n, e, x, (x + b) % n, IF x + b >= n THEN (e + n) % (16 * n) ELSE e)
      BY <2>5, <2>7, NextPlaceFollows
    <3>2. bx' = (x + b) % n /\ es' = IF x + b >= n THEN (e + n) % (16 * n) ELSE e
      BY <2>3, <2>4 DEF NextPlace
    <3> QED BY <2>4, <3>1, <3>2 DEF Follows
  <2>9. KernelLoading'
    <3>1. es' + bx' = KERNEL_FILE_PHY_ADDR + (j - 1) * BytsPerSec
      <4>1. (j - 1) * BytsPerSec = q
        BY <2>1, <2>4
      <4>2. KERNEL_FILE_PHY_ADDR \in Nat
        BY Layout
      <4> QED BY <2>4, <2>6, <2>8, <4>1, <4>2
    <3>2. KernelRead((j - 1) * BytsPerSec)'
      BY <1>5, <2>1 DEF KernelRead
    <3> QED BY <1>2, <1>3, <2>3, <2>8, <3>1, <3>2 DEF KernelLoading
  <2>10. BootTypes'
    <3>1. es' \in Nat /\ bx' \in Nat
      BY <1>1, <2>3, NextPlaceTypes
    <3> QED BY <1>1, <1>2, <2>2, <2>3, <3>1 DEF BootTypes
  <2>11. KernelLoaded' /\ KernelPlaced' /\ MemoryCounted'
    BY <1>1, <1>2, <2>3 DEF KernelLoaded, KernelPlaced, MemoryCounted
  <2>12. SegmentsGiven'
    BY <1>1, <1>2, <2>3, NoSegments
  <2> QED BY <1>6, <2>9, <2>10, <2>11, <2>12 DEF BootInv
<1> QED BY <1>8, <1>9

\* The ends of RAM are the machine's.
LEMMA SameRam ==
  ASSUME UNCHANGED machine
  PROVE  RamEnds' = RamEnds
BY DEF RamEnds

LEMMA MemoryMapKeeps == BootInv /\ MemoryMap => BootInv'
<1> SUFFICES ASSUME BootInv, MemoryMap PROVE BootInv'
  OBVIOUS
<1>1. BootTypes /\ LoaderKept /\ MemoryCounted /\ SegmentsGiven
  BY DEF BootInv
<1>2. /\ pc = "memory map" /\ UNCHANGED <<machine, stage, wSectorNo, cluster, es, bx, mem>>
      /\ UNCHANGED <<dwMemSize, tables, ldts, copied>>
      /\ \/ /\ dwMCRNumber < Len(machine.bios) /\ dwMCRNumber' = dwMCRNumber + 1
            /\ pc' = IF dwMCRNumber' = Len(machine.bios) THEN "search" ELSE pc
         \/ dwMCRNumber' = 0 /\ pc' = "search"
  BY DEF MemoryMap, search, load, kernel
<1>3. stage = "loader" /\ machine \in Machines /\ dwMCRNumber \in 0 .. Len(machine.bios)
  BY <1>1, <1>2 DEF BootTypes
<1>4. Len(machine.bios) \in Nat
  BY <1>3, BiosTypes
<1>5. pc' \in {"memory map", "search"} /\ dwMCRNumber' \in 0 .. Len(machine.bios)
  <2>1. PICK n \in Nat, d \in Nat : n = Len(machine.bios) /\ d = dwMCRNumber
    BY <1>3, <1>4
  <2>2. dwMCRNumber' = 0 \/ (d < n /\ dwMCRNumber' = d + 1)
    BY <1>2, <2>1
  <2>3. dwMCRNumber' \in 0 .. n
    BY <2>2
  <2> QED BY <1>2, <2>1, <2>3
<1>6. BootTypes'
  BY <1>1, <1>2, <1>3, <1>5 DEF BootTypes
<1>7. LoaderKept'
  BY <1>1, <1>2, <1>3 DEF LoaderKept, LoaderInMemory, InMemory, FileByte
<1>8. KernelLoading' /\ KernelLoaded' /\ KernelPlaced'
  BY <1>2, <1>3, <1>5 DEF KernelLoading, KernelLoaded, KernelPlaced
<1>9. MemoryCounted'
  <2>1. pc' = "search" => dwMCRNumber' \in {0, Len(machine.bios)}
    BY <1>2
  <2> QED BY <1>2, <1>3, <1>5, <2>1 DEF MemoryCounted
<1>10. SegmentsGiven'
  BY <1>1, <1>2, <1>5, NoSegments
<1> QED BY <1>6, <1>7, <1>8, <1>9, <1>10 DEF BootInv

LEMMA DispMemInfoKeeps == BootInv /\ DispMemInfo => BootInv'
<1> SUFFICES ASSUME BootInv, DispMemInfo PROVE BootInv'
  OBVIOUS
<1>1. BootTypes /\ LoaderKept /\ KernelLoaded /\ MemoryCounted /\ SegmentsGiven
  BY DEF BootInv
<1>2. /\ pc = "count memory" /\ UNCHANGED <<machine, stage, wSectorNo, cluster, es, bx, mem>>
      /\ UNCHANGED <<dwMCRNumber, tables, ldts, copied>>
      /\ dwMemSize' = MemSize[dwMCRNumber]
      /\ pc' = IF dwMCRNumber = 0 THEN "lost" ELSE "paging"
  BY DEF DispMemInfo, search, load, kernel
<1>3. stage = "loader" /\ machine \in Machines /\ dwMCRNumber \in {0, Len(machine.bios)}
  BY <1>1, <1>2 DEF BootTypes, MemoryCounted
<1>4. BootTypes'
  BY <1>1, <1>2, <1>3 DEF BootTypes
<1>5. LoaderKept'
  BY <1>1, <1>2, <1>3 DEF LoaderKept, LoaderInMemory, InMemory, FileByte
<1>6. KernelLoading' /\ KernelPlaced'
  BY <1>2, <1>3 DEF KernelLoading, KernelPlaced
<1>7. KernelLoaded'
  BY <1>1, <1>2, <1>3 DEF KernelLoaded, KernelRead, InMemory, FileByte
<1>8. MemoryCounted'
  <2>1. pc' = "paging" => RamIs(MemSize[dwMCRNumber])
    BY <1>2, <1>3, RamIsCounted
  <2>2. pc' = "paging" => RamIs(dwMemSize)'
    BY <1>2, <2>1, SameRam DEF RamIs
  <2> QED BY <1>2, <1>3, <2>2 DEF MemoryCounted
<1>9. SegmentsGiven'
  BY <1>1, <1>2, NoSegments
<1> QED BY <1>4, <1>5, <1>6, <1>7, <1>8, <1>9 DEF BootInv

LEMMA SetupPagingKeeps == BootInv /\ SetupPaging => BootInv'
<1> SUFFICES ASSUME BootInv, SetupPaging PROVE BootInv'
  OBVIOUS
<1>1. BootTypes /\ LoaderKept /\ KernelLoaded /\ MemoryCounted /\ SegmentsGiven
  BY DEF BootInv
<1>2. /\ pc = "paging" /\ UNCHANGED <<machine, stage, wSectorNo, cluster, es, bx, mem>>
      /\ UNCHANGED <<dwMCRNumber, dwMemSize, ldts, copied>>
      /\ tables' = Tables
      /\ pc' = IF tables' = 0 THEN "lost" ELSE "init kernel"
  BY DEF SetupPaging, search, load, kernel
<1>3. stage = "loader" /\ machine \in Machines /\ RamIs(dwMemSize)
  BY <1>1, <1>2 DEF BootTypes, MemoryCounted
<1>4. BootTypes'
  BY <1>1, <1>2, <1>3 DEF BootTypes
<1>5. LoaderKept'
  BY <1>1, <1>2, <1>3 DEF LoaderKept, LoaderInMemory, InMemory, FileByte
<1>6. KernelLoading' /\ KernelPlaced'
  BY <1>2, <1>3 DEF KernelLoading, KernelPlaced
<1>7. KernelLoaded'
  BY <1>1, <1>2, <1>3 DEF KernelLoaded, KernelRead, InMemory, FileByte
<1>8. MemoryCounted'
  <2>1. RamIs(dwMemSize)'
    BY <1>2, <1>3, SameRam DEF RamIs
  <2>2. Tables' = Tables
    BY <1>2 DEF Tables
  <2> QED BY <1>2, <1>3, <2>1, <2>2 DEF MemoryCounted
<1>9. SegmentsGiven'
  BY <1>1, <1>2, NoSegments
<1> QED BY <1>4, <1>5, <1>6, <1>7, <1>8, <1>9 DEF BootInv

LEMMA InitKernelKeeps == BootInv /\ InitKernel => BootInv'
<1> SUFFICES ASSUME BootInv, InitKernel PROVE BootInv'
  OBVIOUS
<1>1. BootTypes /\ KernelLoaded /\ MemoryCounted /\ SegmentsGiven
  BY DEF BootInv
<1>2. /\ pc = "init kernel" /\ UNCHANGED <<machine, wSectorNo, cluster, es, bx>>
      /\ UNCHANGED <<dwMCRNumber, dwMemSize, tables, ldts, copied>>
      /\ mem' = Placed[Len(machine.headers)] /\ stage' = "kernel" /\ pc' = "kernel_main"
  BY DEF InitKernel, search, load, memory, kernel
<1>3. /\ stage = "loader" /\ machine \in Machines /\ mem \in Memory
      /\ machine.size <= KERNEL_VALID_SPACE /\ KernelRead(machine.size)
  BY <1>1, <1>2 DEF BootTypes, KernelLoaded
<1>4. /\ mem' \in Memory
      /\ \A a \in Addresses : a >= KERNEL_FILE_PHY_ADDR => mem'[a] = mem[a]
      /\ \A i \in 1 .. Len(machine.headers) : ~machine.headers[i].null =>
           \A k \in 0 .. machine.headers[i].filesz - 1 :
             mem'[machine.headers[i].vaddr + k] =
               mem[(KERNEL_FILE_PHY_ADDR + machine.headers[i].offset) + k]
  BY <1>2, <1>3, SegmentsInPlace
<1>5. BootTypes'
  BY <1>1, <1>2, <1>3, <1>4 DEF BootTypes
<1>6. PICK K \in Nat, z \in Nat : K = KERNEL_FILE_PHY_ADDR /\ z = machine.size /\ K + z <= MemTop
  <2>1. machine.size \in Nat
    BY <1>3, HeaderTypes
  <2> QED BY <1>3, <2>1, Layout
<1>7. \A i \in 0 .. z - 1 : K + i \in Addresses /\ K + i >= K
  BY <1>6, Layout DEF Addresses
<1>8. \A i \in 0 .. z - 1 : mem[K + i] = FileByte("KERNEL.BIN", i)
  BY <1>3, <1>6 DEF KernelRead, InMemory
<1>9. KernelRead(machine.size)'
  <2>1. \A i \in 0 .. z - 1 : mem'[K + i] = FileByte("KERNEL.BIN", i)
    BY <1>4, <1>6, <1>7, <1>8
  <2> QED BY <1>2, <1>6, <2>1 DEF KernelRead, InMemory, FileByte
<1>10. ASSUME NEW i \in 1 .. Len(machine.headers), ~machine.headers[i].null,
              NEW k \in 0 .. machine.headers[i].filesz - 1
       PROVE  mem'[machine.headers[i].vaddr + k] =
                FileByte("KERNEL.BIN", machine.headers[i].offset + k)
  <2>1. PICK o \in Nat, n \in Nat : o = machine.headers[i].offset /\ n = machine.headers[i].filesz /\ o + n <= z
    BY <1>3, <1>6, <1>10, HeaderTypes
  <2>2. o + k \in 0 .. z - 1 /\ (K + o) + k = K + (o + k)
    <3>1. k \in 0 .. n - 1 /\ o + n <= z
      BY <2>1
    <3> QED BY <3>1
  <2>3. mem[(K + o) + k] = FileByte("KERNEL.BIN", o + k)
    BY <1>8, <2>2
  <2>4. mem'[machine.headers[i].vaddr + k] = mem[(K + o) + k]
    BY <1>4, <1>6, <1>10, <2>1
  <2> QED BY <2>1, <2>3, <2>4
<1>11. KernelPlaced'
  <2>1. DOMAIN machine.headers = 1 .. Len(machine.headers)
    BY <1>3, HeaderTypes
  <2> QED BY <1>2, <1>9, <1>10, <2>1 DEF KernelPlaced, FileByte
<1>12. LoaderKept' /\ KernelLoading' /\ KernelLoaded'
  BY <1>2 DEF LoaderKept, KernelLoading, KernelLoaded
<1>13. MemoryCounted'
  <2>1. RamIs(dwMemSize)'
    <3>1. RamIs(dwMemSize)
      BY <1>1, <1>2 DEF MemoryCounted
    <3> QED BY <1>2, <3>1, SameRam DEF RamIs
  <2>2. Tables' = Tables /\ tables = Tables /\ tables # 0
    BY <1>1, <1>2 DEF Tables, MemoryCounted
  <2> QED BY <1>2, <2>1, <2>2 DEF MemoryCounted
<1>14. SegmentsGiven'
  BY <1>1, <1>2, NoSegments
<1> QED BY <1>5, <1>11, <1>12, <1>13, <1>14 DEF BootInv

\* The kernel's last byte depends on the machine alone.
LEMMA SameLastByte ==
  ASSUME UNCHANGED machine
  PROVE  LastByte' = LastByte
BY DEF LastByte, Allocated, Top

LEMMA kernel_mainKeeps == BootInv /\ kernel_main => BootInv'
<1> SUFFICES ASSUME BootInv, kernel_main PROVE BootInv'
  OBVIOUS
<1>1. BootTypes /\ KernelPlaced /\ MemoryCounted /\ SegmentsGiven
  BY DEF BootInv
<1>2. /\ pc = "kernel_main" /\ UNCHANGED <<machine, stage, wSectorNo, cluster, es, bx, mem>>
      /\ UNCHANGED <<dwMCRNumber, dwMemSize, tables, copied>>
      /\ pc' \in {"runs", "lost"}
      /\ ldts' = [ldts EXCEPT ![INIT_PROC] = Ldt(0, (KernelMap.base + KernelMap.limit) \div Page)]
  BY DEF kernel_main, search, load, memory
<1>3. stage = "kernel" /\ machine \in Machines /\ DOMAIN ldts = Children \cup {INIT_PROC}
  BY <1>1, <1>2 DEF BootTypes
<1>4. BootTypes'
  BY <1>1, <1>2, <1>3 DEF BootTypes
<1>5. LoaderKept' /\ KernelLoading' /\ KernelLoaded'
  BY <1>2, <1>3 DEF LoaderKept, KernelLoading, KernelLoaded
<1>6. KernelPlaced'
  BY <1>1, <1>2, <1>3 DEF KernelPlaced, KernelRead, InMemory, FileByte
<1>7. MemoryCounted'
  <2>1. RamIs(dwMemSize) /\ tables = Tables /\ tables # 0
    BY <1>1, <1>3 DEF MemoryCounted
  <2>2. RamIs(dwMemSize)'
    BY <1>2, <2>1, SameRam DEF RamIs
  <2>3. Tables' = Tables
    BY <1>2 DEF Tables
  <2> QED BY <1>2, <1>3, <2>1, <2>2, <2>3 DEF MemoryCounted
<1>8. SegmentsGiven'
  <2>1. ldts'[INIT_PROC] = Ldt(0, LastByte \div Page)
    BY <1>2, <1>3, KernelEnds
  <2>2. LastByte' = LastByte
    BY <1>2, SameLastByte
  <2>3. ldts'[INIT_PROC] = Ldt(0, LastByte \div Page)'
    BY <2>1, <2>2 DEF Ldt, init_desc
  <2>4. \A p \in Children : ldts'[p] = ldts[p] /\ ldts[p] = NoLdt
    <3>1. \A p \in Children : p # INIT_PROC
      BY BootAssumption
    <3> QED BY <1>1, <1>2, <1>3, <3>1 DEF SegmentsGiven
  <2> QED BY <1>2, <2>3, <2>4 DEF SegmentsGiven, NoLdt
<1> QED BY <1>4, <1>5, <1>6, <1>7, <1>8 DEF BootInv

\* What lies in the first 4 GB has room in a descriptor, as a limit in pages
\* and as a base.
LEMMA Limits ==
  ASSUME NEW x \in Nat, x < Word * Unit
  PROVE  /\ x \div Page \in Nat /\ x \div Page < Low * Nib /\ x < Low * Mid * Mid
         /\ (x \div Page) * Page \in Nat /\ (x \div Page) * Page <= x
         /\ ((x \div Page) + 1) * Page \in Nat /\ x < ((x \div Page) + 1) * Page
<1>1. /\ Page \in Nat \ {0} /\ Word * Unit \in Nat /\ Low * Nib \in Nat
      /\ Word * Unit <= Low * Mid * Mid /\ Word * Unit <= (Low * Nib) * Page
      /\ Low * Mid * Mid \in Nat
  BY BootAssumption
<1>2. PICK n \in Nat \ {0}, w \in Nat, m \in Nat, b \in Nat :
        /\ n = Page /\ w = Word * Unit /\ m = Low * Nib /\ w <= m * n
        /\ b = Low * Mid * Mid /\ w <= b
  BY <1>1
<1>3. PICK q \in Nat, r \in 0 .. n - 1 : x = q * n + r /\ x \div n = q /\ x % n = r
  BY HasPlace
<1>4. q * n \in Nat /\ m * n \in Nat /\ (q + 1) * n = q * n + n
  BY Multiples
<1>5. q * n < m * n
  BY <1>2, <1>3, <1>4
<1>6. q + 1 <= m
  BY <1>5, Multiples
<1>7. q < m /\ x < b /\ q * n <= x /\ (q + 1) * n \in Nat /\ x < (q + 1) * n
  BY <1>2, <1>3, <1>4, <1>6
<1> QED BY <1>2, <1>3, <1>4, <1>7

\* The kernel, and one process, end below 4 GB.
LEMMA Below4GB ==
  ASSUME machine \in Machines
  PROVE  /\ LastByte \in Nat /\ LastByte < Word * Unit /\ LastByte < PROCS_BASE
         /\ PROC_IMAGE_SIZE_DEFAULT \in Nat \ {0} /\ PROC_IMAGE_SIZE_DEFAULT - 1 \in Nat
         /\ PROC_IMAGE_SIZE_DEFAULT - 1 < Word * Unit
         /\ (((PROC_IMAGE_SIZE_DEFAULT - 1) \div Page) + 1) * Page = PROC_IMAGE_SIZE_DEFAULT
<1>1. PICK w \in Nat, s \in Nat \ {0}, b \in Nat, n \in Nat \ {0} :
        /\ w = Word * Unit /\ s = PROC_IMAGE_SIZE_DEFAULT /\ b = PROCS_BASE /\ n = Page
        /\ b + s <= w /\ s % n = 0
  <2>1. /\ Word * Unit \in Nat /\ PROC_IMAGE_SIZE_DEFAULT \in Nat \ {0}
        /\ PROCS_BASE \in Nat /\ Page \in Nat \ {0}
        /\ PROCS_BASE + PROC_IMAGE_SIZE_DEFAULT <= Word * Unit
        /\ PROC_IMAGE_SIZE_DEFAULT % Page = 0
    BY BootAssumption
  <2> QED BY <2>1
<1>2. LastByte \in Nat /\ LastByte < b
  BY <1>1, KernelEnds
<1>3. PICK u \in Nat : s = u * n
  <2>1. PICK q \in Nat, r \in 0 .. n - 1 : s = q * n + r /\ s \div n = q /\ s % n = r
    BY HasPlace
  <2>2. q * n \in Nat
    OBVIOUS
  <2> QED BY <1>1, <2>1, <2>2
<1>4. PICK v \in Int, r \in 0 .. n - 1 : v = u - 1 /\ r = n - 1
  OBVIOUS
<1>5. (v + 1) * n = v * n + n /\ v * n \in Int
  BY Multiples
<1>6. v + 1 = u
  BY <1>4
<1>7. s - 1 = v * n + r
  BY <1>3, <1>4, <1>5, <1>6
<1>8. (s - 1) \div n = v
  BY <1>7, PlaceIs
<1>9. ((s - 1) \div n + 1) * n = s
  BY <1>3, <1>6, <1>8
<1> QED BY <1>1, <1>2, <1>9

\* Where INIT and the children are, put together from their descriptors.
LEMMA SegmentsAre ==
  ASSUME BootTypes, SegmentsGiven, MemoryCounted, pc \in {"runs", "panic"}
  PROVE  /\ va2la(INIT_PROC, 0) = 0 /\ Limit(INIT_PROC) = LastByte \div Page
         /\ \A p \in Children : ldts[p] # NoLdt =>
              /\ Base(p) \in Nat /\ \A n \in Nat : va2la(p, n) = Base(p) + n
              /\ Limit(p) = (PROC_IMAGE_SIZE_DEFAULT - 1) \div Page
              /\ copied[p] \in Nat /\ LastByte < copied[p] /\ copied[p] <= PROC_IMAGE_SIZE_DEFAULT
<1>1. /\ machine \in Machines /\ stage = "kernel"
  BY DEF BootTypes
<1>2. PICK w \in Nat, l \in Nat, s \in Nat :
        /\ w = Word * Unit /\ l = LastByte /\ s = PROC_IMAGE_SIZE_DEFAULT - 1 /\ s \in Nat
        /\ l < w /\ s < w
  <2>1. Word * Unit \in Nat
    BY BootAssumption
  <2> QED BY <1>1, <2>1, Below4GB
<1>3. l \div Page \in Nat /\ l \div Page < Low * Nib
  BY <1>2, Limits
<1>4. s \div Page \in Nat /\ s \div Page < Low * Nib
  BY <1>2, Limits
<1>5. /\ va2la(INIT_PROC, 0) = 0 /\ Limit(INIT_PROC) = l \div Page
  <2>1. ldts[INIT_PROC] = Ldt(0, l \div Page)
    BY <1>2 DEF SegmentsGiven
  <2>2. PICK b \in Nat, k \in Nat : b = 0 /\ k = l \div Page /\ b < w
    BY <1>2, <1>3
  <2>3. b < Low * Mid * Mid /\ k < Low * Nib
    BY <1>2, <1>3, <2>2, Limits
  <2>4. LET d == init_desc(b, k)
        IN  /\ d.base_high * Low * Mid + d.base_mid * Low + d.base_low = b
            /\ d.limit_high * Low + d.limit_low = k
    BY <2>3, Descriptor
  <2>5. ldts[INIT_PROC].C = init_desc(b, k) /\ ldts[INIT_PROC]["RW"] = init_desc(b, k)
    BY <2>1, <2>2 DEF Ldt
  <2>6. ldt_seg_linear(INIT_PROC, "RW") = b /\ Limit(INIT_PROC) = k
    BY <2>4, <2>5 DEF ldt_seg_linear, Limit
  <2> QED BY <2>2, <2>6 DEF va2la
<1>6. ASSUME NEW p \in Children, ldts[p] # NoLdt
      PROVE  /\ Base(p) \in Nat /\ \A n \in Nat : va2la(p, n) = Base(p) + n
             /\ Limit(p) = s \div Page
             /\ copied[p] \in Nat /\ l < copied[p] /\ copied[p] <= PROC_IMAGE_SIZE_DEFAULT
  <2>1. /\ ldts[p] = Ldt(Base(p), s \div Page)
        /\ copied[p] \in l + 1 .. PROC_IMAGE_SIZE_DEFAULT
        /\ Base(p) + copied[p] <= dwMemSize * Unit
    BY <1>2, <1>6 DEF SegmentsGiven
  <2>2. copied[p] \in Nat /\ l < copied[p] /\ copied[p] <= PROC_IMAGE_SIZE_DEFAULT
    <3>1. PROC_IMAGE_SIZE_DEFAULT \in Nat
      BY <1>1, Below4GB
    <3> QED BY <2>1, <3>1
  <2>3. PICK b \in Nat, k \in Nat : b = Base(p) /\ k = s \div Page
    <3>1. p \in Nat /\ PROCS_BASE \in Nat /\ PROC_IMAGE_SIZE_DEFAULT \in Nat
      BY BootAssumption
    <3>2. Base(p) \in Nat
      BY <3>1 DEF Base
    <3> QED BY <1>4, <3>2
  <2>4. b < w
    <3>1. dwMemSize \in Nat /\ dwMemSize < Word /\ Word \in Nat /\ Unit \in Nat \ {0}
      <4>1. dwMemSize \in 0 .. Word - 1
        BY <1>1 DEF MemoryCounted, RamIs
      <4> QED BY <4>1, BootAssumption
    <3>2. dwMemSize * Unit <= Word * Unit /\ dwMemSize * Unit \in Int
      BY <3>1, Multiples
    <3> QED BY <1>2, <2>1, <2>2, <2>3, <3>2
  <2>5. b < Low * Mid * Mid /\ k < Low * Nib
    BY <1>2, <1>4, <2>3, <2>4, Limits
  <2>6. LET d == init_desc(b, k)
        IN  /\ d.base_high * Low * Mid + d.base_mid * Low + d.base_low = b
            /\ d.limit_high * Low + d.limit_low = k
    BY <2>5, Descriptor
  <2>7. ldts[p].C = init_desc(b, k) /\ ldts[p]["RW"] = init_desc(b, k)
    BY <2>1, <2>3 DEF Ldt
  <2>8. ldt_seg_linear(p, "RW") = b /\ Limit(p) = k
    BY <2>6, <2>7 DEF ldt_seg_linear, Limit
  <2> QED BY <2>2, <2>3, <2>8 DEF va2la
<1> QED BY <1>2, <1>5, <1>6

\* A process has the whole of its parent's memory, or what one may have.
LEMMA SizesAre ==
  ASSUME BootTypes, SegmentsGiven, MemoryCounted, pc = "runs",
         NEW pid \in DOMAIN ldts, ldts[pid] # NoLdt
  PROVE  Size(pid) \in Nat /\ LastByte < Size(pid)
<1>1. machine \in Machines /\ DOMAIN ldts = Children \cup {INIT_PROC}
  BY DEF BootTypes
<1>2. CASE pid = INIT_PROC
  <2>1. PICK l \in Nat : l = LastByte /\ l < Word * Unit
    BY <1>1, Below4GB
  <2>2. ((l \div Page) + 1) * Page \in Nat /\ l < ((l \div Page) + 1) * Page
    BY <2>1, Limits
  <2>3. Size(pid) = ((l \div Page) + 1) * Page
    BY <1>2, <2>1, SegmentsAre DEF Size
  <2> QED BY <2>1, <2>2, <2>3
<1>3. CASE pid \in Children
  <2>1. Limit(pid) = (PROC_IMAGE_SIZE_DEFAULT - 1) \div Page /\ copied[pid] \in Nat
        /\ LastByte < copied[pid] /\ copied[pid] <= PROC_IMAGE_SIZE_DEFAULT
    BY <1>3, SegmentsAre
  <2>2. Size(pid) = PROC_IMAGE_SIZE_DEFAULT
    BY <1>1, <2>1, Below4GB DEF Size
  <2> QED BY <1>1, <2>1, <2>2, Below4GB
<1> QED BY <1>1, <1>2, <1>3

\* What fits lies below the end of the memory; a size that is negative as an int
\* leaves no room at all.
LEMMA FitsIn ==
  ASSUME dwMemSize \in 0 .. Word - 1, NEW p \in Children, NEW n \in Nat, Fits(p, n)
  PROVE  n <= PROC_IMAGE_SIZE_DEFAULT /\ Base(p) + n <= dwMemSize * Unit
<1>1. /\ Word \in Nat \ {0} /\ Unit \in Nat \ {0} /\ p \in Nat
      /\ PROCS_BASE \in Nat /\ PROC_IMAGE_SIZE_DEFAULT \in Nat
  BY BootAssumption
<1>2. PICK d \in Nat, b \in Nat : d = dwMemSize /\ d < Word /\ b = Base(p)
  <2>1. Base(p) \in Nat
    BY <1>1 DEF Base
  <2> QED BY <1>1, <2>1
<1>3. n <= PROC_IMAGE_SIZE_DEFAULT /\ b + n < memory_size
  BY <1>2 DEF Fits
<1>4. (d - Word) * Unit <= d * Unit /\ (d - Word) * Unit \in Int /\ d * Unit \in Int
  <2>1. PICK j \in Int : j = d - Word /\ j <= d
    BY <1>1, <1>2
  <2> QED BY <1>1, <2>1, Multiples
<1>5. memory_size = (d - Word) * Unit \/ memory_size = d * Unit
  BY <1>2 DEF memory_size
<1> QED BY <1>2, <1>3, <1>4, <1>5

LEMMA ForkKeeps ==
  ASSUME BootInv, NEW pid \in DOMAIN ldts, NEW child \in Children, Fork(pid, child)
  PROVE  BootInv'
<1>1. BootTypes /\ KernelPlaced /\ MemoryCounted /\ SegmentsGiven
  BY DEF BootInv
<1>2. /\ pc = "runs" /\ UNCHANGED <<machine, stage, wSectorNo, cluster, es, bx, mem>>
      /\ UNCHANGED <<dwMCRNumber, dwMemSize, tables>> /\ ldts[pid] # NoLdt /\ ldts[child] = NoLdt
      /\ \/ /\ Fits(child, Size(pid)) /\ pc' = pc
            /\ copied' = [copied EXCEPT ![child] = Size(pid)]
            /\ ldts' = [ldts EXCEPT ![child] =
                          Ldt(Base(child), (PROC_IMAGE_SIZE_DEFAULT - 1) \div Page)]
         \/ pc' = "panic" /\ UNCHANGED <<ldts, copied>>
  BY DEF Fork, search, load, memory, kernel
<1>3. /\ stage = "kernel" /\ machine \in Machines
      /\ DOMAIN ldts = Children \cup {INIT_PROC} /\ DOMAIN copied = Children
  BY <1>1, <1>2 DEF BootTypes
<1>4. BootTypes'
  BY <1>1, <1>2, <1>3 DEF BootTypes
<1>5. LoaderKept' /\ KernelLoading' /\ KernelLoaded'
  BY <1>2, <1>3 DEF LoaderKept, KernelLoading, KernelLoaded
<1>6. KernelPlaced'
  BY <1>1, <1>2, <1>3 DEF KernelPlaced, KernelRead, InMemory, FileByte
<1>7. MemoryCounted'
  <2>1. RamIs(dwMemSize) /\ tables = Tables /\ tables # 0
    BY <1>1, <1>3 DEF MemoryCounted
  <2>2. RamIs(dwMemSize)'
    BY <1>2, <2>1, SameRam DEF RamIs
  <2>3. Tables' = Tables
    BY <1>2 DEF Tables
  <2> QED BY <1>2, <1>3, <2>1, <2>2, <2>3 DEF MemoryCounted
<1>8. LastByte' = LastByte /\ INIT_PROC \notin Children
  BY <1>2, SameLastByte, BootAssumption
<1>9. ldts'[INIT_PROC] = Ldt(0, LastByte \div Page)
  BY <1>1, <1>2, <1>3, <1>8 DEF SegmentsGiven
<1>10. ASSUME NEW p \in Children, ldts'[p] # NoLdt
       PROVE  /\ ldts'[p] = Ldt(Base(p), (PROC_IMAGE_SIZE_DEFAULT - 1) \div Page)
              /\ copied'[p] \in LastByte + 1 .. PROC_IMAGE_SIZE_DEFAULT
              /\ Base(p) + copied'[p] <= dwMemSize * Unit
  <2>1. CASE ldts'[p] = ldts[p] /\ copied'[p] = copied[p]
    BY <1>1, <1>10, <2>1 DEF SegmentsGiven
  <2>2. CASE p = child /\ Fits(child, Size(pid)) /\ copied'[p] = Size(pid)
             /\ ldts'[p] = Ldt(Base(child), (PROC_IMAGE_SIZE_DEFAULT - 1) \div Page)
    <3>1. Size(pid) \in Nat /\ LastByte < Size(pid)
      BY <1>1, <1>2, SizesAre
    <3>2. dwMemSize \in 0 .. Word - 1
      BY <1>1, <1>3 DEF MemoryCounted, RamIs
    <3>3. Size(pid) <= PROC_IMAGE_SIZE_DEFAULT /\ Base(child) + Size(pid) <= dwMemSize * Unit
      BY <2>2, <3>1, <3>2, FitsIn
    <3>4. LastByte \in Nat /\ PROC_IMAGE_SIZE_DEFAULT \in Nat
      BY <1>3, Below4GB
    <3>5. Size(pid) \in LastByte + 1 .. PROC_IMAGE_SIZE_DEFAULT
      BY <3>1, <3>3, <3>4
    <3> QED BY <2>2, <3>3, <3>5
  <2> QED BY <1>2, <1>3, <2>1, <2>2
<1>11. SegmentsGiven'
  <2>1. pc' \in {"runs", "panic"}
    BY <1>2
  <2> QED BY <1>2, <1>8, <1>9, <1>10, <2>1 DEF SegmentsGiven, Ldt, init_desc, Base, NoLdt
<1> QED BY <1>4, <1>5, <1>6, <1>7, <1>11 DEF BootInv

LEMMA StutterKeeps == BootInv /\ UNCHANGED vars => BootInv'
<1> SUFFICES ASSUME BootInv, UNCHANGED vars PROVE BootInv'
  OBVIOUS
<1>1. /\ UNCHANGED <<machine, stage, pc, wSectorNo, cluster, es, bx, mem>>
      /\ UNCHANGED <<dwMCRNumber, dwMemSize, tables, ldts, copied>>
  BY DEF vars, search, load, memory, kernel
<1>2. BootTypes'
  BY <1>1 DEF BootInv, BootTypes
<1>3. LoaderKept'
  BY <1>1 DEF BootInv, LoaderKept, LoaderInMemory, InMemory, FileByte
<1>4. KernelLoading'
  BY <1>1 DEF BootInv, KernelLoading, KernelRead, InMemory, FileByte
<1>5. KernelLoaded' /\ KernelPlaced'
  BY <1>1 DEF BootInv, KernelLoaded, KernelPlaced, KernelRead, InMemory, FileByte
<1>6. MemoryCounted'
  <2>1. RamIs(dwMemSize) => RamIs(dwMemSize)'
    BY <1>1, SameRam DEF RamIs
  <2>2. Tables' = Tables
    BY <1>1 DEF Tables
  <2>3. MemoryCounted
    BY DEF BootInv
  <2> QED BY <1>1, <2>1, <2>2, <2>3 DEF MemoryCounted
<1>7. SegmentsGiven'
  <2>1. LastByte' = LastByte
    BY <1>1, SameLastByte
  <2> QED BY <1>1, <2>1 DEF BootInv, SegmentsGiven, Ldt, init_desc, Base, NoLdt
<1> QED BY <1>2, <1>3, <1>4, <1>5, <1>6, <1>7 DEF BootInv

LEMMA BootBegins == BootInit => BootInv
<1> SUFFICES ASSUME BootInit PROVE BootInv
  OBVIOUS
<1>1. machine \in Machines /\ stage = "boot" /\ pc = "search"
  BY DEF BootInit
<1>2. SectorNoOfRootDirectory \in Nat /\ LOADER_PHY_ADDR \in Nat /\ LOADER_OFF \in Nat
  BY BootAssumption DEF SectorNoOfRootDirectory
<1>3. mem \in Memory
  BY DEF BootInit, NoByte, Memory
<1>4. 0 \in 0 .. Len(machine.bios)
  <2>1. Len(machine.bios) \in Nat
    BY <1>1, BiosTypes
  <2> QED BY <2>1
<1>5. BootTypes
  BY <1>1, <1>2, <1>3, <1>4 DEF BootInit, BootTypes
<1>6. LoaderKept /\ KernelLoading /\ KernelLoaded /\ KernelPlaced /\ MemoryCounted
  BY <1>1 DEF LoaderKept, KernelLoading, KernelLoaded, KernelPlaced, MemoryCounted
<1>7. SegmentsGiven
  BY <1>1 DEF BootInit, SegmentsGiven, NoLdt
<1> QED BY <1>5, <1>6, <1>7 DEF BootInv

LEMMA StartKeeps == BootInv /\ StartNext => BootInv'
<1> SUFFICES ASSUME BootInv, StartNext PROVE BootInv'
  OBVIOUS
<1>1. CASE NoFile
  BY <1>1, NoFileKeeps
<1>2. CASE SearchSector
  BY <1>2, SearchSectorKeeps
<1>3. CASE LoadSector
  <2>1. stage \in {"boot", "loader"}
    BY <1>3 DEF BootInv, BootTypes, LoadSector
  <2> QED BY <1>3, <2>1, BootLoadKeeps, LoaderLoadKeeps
<1>4. CASE MemoryMap
  BY <1>4, MemoryMapKeeps
<1>5. CASE DispMemInfo
  BY <1>5, DispMemInfoKeeps
<1>6. CASE SetupPaging
  BY <1>6, SetupPagingKeeps
<1>7. CASE InitKernel
  BY <1>7, InitKernelKeeps
<1>8. CASE kernel_main
  BY <1>8, kernel_mainKeeps
<1>9. CASE InitRuns
  BY <1>9, StutterKeeps DEF InitRuns
<1>10. CASE \E pid \in DOMAIN ldts, child \in Children : Fork(pid, child)
  BY <1>10, ForkKeeps
<1> QED BY <1>1, <1>2, <1>3, <1>4, <1>5, <1>6, <1>7, <1>8, <1>9, <1>10 DEF StartNext, Start

LEMMA KernelIsInPlace == BootInv => KernelInPlace
<1> SUFFICES ASSUME BootInv PROVE KernelInPlace
  OBVIOUS
<1>1. BootTypes /\ LoaderKept /\ KernelPlaced /\ MemoryCounted /\ SegmentsGiven
  BY DEF BootInv
<1>2. ASSUME pc = "runs"
      PROVE  Limit(INIT_PROC) * Page <= LastByte /\ LastByte < (Limit(INIT_PROC) + 1) * Page
  <2>1. machine \in Machines
    BY <1>1 DEF BootTypes
  <2>2. PICK l \in Nat : l = LastByte /\ l < Word * Unit
    BY <2>1, Below4GB
  <2>3. (l \div Page) * Page <= l /\ l < ((l \div Page) + 1) * Page
    BY <2>2, Limits
  <2>4. Limit(INIT_PROC) = l \div Page
    BY <1>1, <1>2, <2>2, SegmentsAre
  <2> QED BY <2>2, <2>3, <2>4
<1>3. stage = "kernel" =>
        /\ InMemory("KERNEL.BIN", KERNEL_FILE_PHY_ADDR, machine.size, mem)
        /\ \A i \in DOMAIN machine.headers :
             LET h == machine.headers[i]
             IN  ~h.null => \A k \in 0 .. h.filesz - 1 :
                              mem[h.vaddr + k] = FileByte("KERNEL.BIN", h.offset + k)
  BY <1>1 DEF KernelPlaced, KernelRead
<1> QED BY <1>1, <1>2, <1>3 DEF KernelInPlace, LoaderKept

\* As many page tables as the memory needs.
LEMMA TablesAre ==
  ASSUME dwMemSize \in Nat, tables = Tables, tables # 0
  PROVE  /\ dwMemSize # 0 /\ tables * TableSpan \in Nat /\ dwMemSize <= tables * TableSpan
         /\ (tables - 1) * TableSpan < dwMemSize
<1>1. PICK n \in Nat \ {0}, d \in Nat : n = TableSpan /\ d = dwMemSize
  BY BootAssumption
<1>2. PICK q \in Nat, r \in 0 .. n - 1 : d = q * n + r /\ d \div n = q /\ d % n = r
  BY HasPlace
<1>3. (q + 1) * n = q * n + n /\ q * n \in Nat
  BY Multiples
<1>4. tables = q + IF r = 0 THEN 0 ELSE 1
  BY <1>1, <1>2 DEF Tables
<1>5. CASE r = 0
  <2>1. tables = q /\ q # 0
    BY <1>4, <1>5
  <2>2. PICK p \in Int : p = q - 1 /\ p + 1 = q
    OBVIOUS
  <2>3. (p + 1) * n = p * n + n /\ p * n \in Int
    BY <2>2, Multiples
  <2>4. d = q * n /\ p * n < d
    BY <1>2, <1>3, <1>5, <2>2, <2>3
  <2>5. d # 0
    <3>1. p >= 0
      BY <2>1, <2>2
    <3>2. p * n >= 0
      BY <3>1
    <3> QED BY <2>3, <2>4, <3>2
  <2> QED BY <1>1, <1>3, <2>1, <2>2, <2>4, <2>5
<1>6. CASE r # 0
  <2>1. PICK t \in Nat : t = q + 1 /\ t - 1 = q /\ tables = t
    BY <1>4, <1>6
  <2>2. t * n = q * n + n /\ t * n \in Nat
    BY <1>3, <2>1
  <2> QED BY <1>1, <1>2, <1>3, <1>6, <2>1, <2>2
<1> QED BY <1>2, <1>5, <1>6

\* Each pid has a place of its own behind the kernel.
LEMMA PlacesApart ==
  ASSUME NEW p \in Children, NEW q \in Children, p < q
  PROVE  /\ Base(p) \in Nat /\ Base(q) \in Nat
         /\ Base(p) + PROC_IMAGE_SIZE_DEFAULT <= Base(q)
<1>1. PICK b \in Nat, s \in Nat \ {0}, i \in Nat, j \in Nat :
        b = PROCS_BASE /\ s = PROC_IMAGE_SIZE_DEFAULT /\ i = p /\ j = q /\ i + 1 <= j
  BY BootAssumption
<1>2. i * s \in Nat /\ j * s \in Nat /\ (i + 1) * s = i * s + s /\ (i + 1) * s <= j * s
  BY <1>1, Multiples
<1> QED BY <1>1, <1>2 DEF Base

LEMMA MemoryIsMapped == BootInv => MemoryMapped
<1> SUFFICES ASSUME BootInv, stage = "kernel" PROVE MemoryMapped
  BY DEF MemoryMapped
<1>1. BootTypes /\ MemoryCounted /\ SegmentsGiven /\ machine \in Machines
  BY DEF BootInv, BootTypes
<1>2. RamIs(dwMemSize) /\ tables = Tables /\ tables # 0
  BY <1>1 DEF MemoryCounted
<1>3. dwMemSize \in Nat
  <2>1. Word \in Nat
    BY BootAssumption
  <2> QED BY <1>2, <2>1 DEF RamIs
<1>4. /\ dwMemSize # 0 /\ tables * TableSpan \in Nat /\ dwMemSize <= tables * TableSpan
      /\ (tables - 1) * TableSpan < dwMemSize
  BY <1>2, <1>3, TablesAre
<1>5. ASSUME NEW end \in RamEnds, end < Word PROVE end <= tables * TableSpan
  <2>1. end \in Nat
    BY <1>1, BiosTypes DEF RamEnds
  <2>2. end <= dwMemSize
    BY <1>2, <1>5 DEF RamIs
  <2> QED BY <1>3, <1>4, <2>1, <2>2
<1>6. \E end \in RamEnds : end = dwMemSize /\ (tables - 1) * TableSpan < end
  BY <1>2, <1>4 DEF RamIs
<1>7. pc = "runs" => va2la(INIT_PROC, 0) = 0
  BY <1>1, SegmentsAre
<1>8. ASSUME NEW p \in Children, ldts[p] # NoLdt
      PROVE  /\ LastByte < va2la(p, 0) /\ LastByte < copied[p]
             /\ va2la(p, copied[p]) <= dwMemSize * Unit
             /\ \A q \in Children \ {p} : ldts[q] # NoLdt =>
                  va2la(p, copied[p]) <= va2la(q, 0) \/ va2la(q, copied[q]) <= va2la(p, 0)
  <2>1. pc \in {"runs", "panic"} /\ Base(p) + copied[p] <= dwMemSize * Unit
    BY <1>1, <1>8 DEF SegmentsGiven
  <2>2. \A q \in Children : ldts[q] # NoLdt =>
          /\ Base(q) \in Nat /\ \A n \in Nat : va2la(q, n) = Base(q) + n
          /\ copied[q] \in Nat /\ LastByte < copied[q] /\ copied[q] <= PROC_IMAGE_SIZE_DEFAULT
    BY <1>1, <2>1, SegmentsAre
  <2>3. \A q \in Children : ldts[q] # NoLdt =>
          va2la(q, 0) = Base(q) /\ va2la(q, copied[q]) = Base(q) + copied[q]
    BY <2>2
  <2>4. LastByte < Base(p)
    <3>1. PICK s \in Nat, b \in Nat, i \in Nat : s = PROC_IMAGE_SIZE_DEFAULT /\ b = PROCS_BASE /\ i = p
      BY BootAssumption
    <3>2. i * s \in Nat
      OBVIOUS
    <3>3. LastByte \in Nat /\ LastByte < b
      BY <1>1, <3>1, KernelEnds
    <3> QED BY <3>1, <3>2, <3>3 DEF Base
  <2>5. ASSUME NEW q \in Children \ {p}, ldts[q] # NoLdt
        PROVE  Base(p) + copied[p] <= Base(q) \/ Base(q) + copied[q] <= Base(p)
    <3>1. PROC_IMAGE_SIZE_DEFAULT \in Nat /\ p \in Nat /\ q \in Nat
      BY BootAssumption
    <3>2. CASE p < q
      BY <1>8, <2>2, <2>5, <3>1, <3>2, PlacesApart
    <3>3. CASE q < p
      BY <1>8, <2>2, <2>5, <3>1, <3>3, PlacesApart
    <3> QED BY <3>1, <3>2, <3>3
  <2> QED BY <1>8, <2>1, <2>2, <2>3, <2>4, <2>5
<1> QED BY <1>5, <1>6, <1>7, <1>8 DEF MemoryMapped

-----------------------------------------------------------------------------
\* What the start goes through: the invariant holds in every state of it.
THEOREM BootCorrect == StartSpec => []BootInv
<1>1. Init => BootInv
  BY BootBegins DEF Init
<1>2. BootInv /\ [StartNext]_<<vars, unvars>> => BootInv'
  <2>1. ASSUME BootInv, UNCHANGED <<vars, unvars>> PROVE BootInv'
    BY <2>1, StutterKeeps
  <2> QED BY <2>1, StartKeeps
<1> QED BY <1>1, <1>2, PTL DEF StartSpec

\* The loader is not overwritten while it works, however long the files are and
\* wherever they lie on the floppy (boot/loader.asm); when the kernel begins
\* every byte of its segments is where it is linked to be, the file is whole
\* for get_kernel_map (kernel/klib.c), and INIT's limit is the kernel's last
\* page (kernel/main.c).
THEOREM KernelCorrect == StartSpec => []KernelInPlace
BY BootCorrect, KernelIsInPlace, PTL

\* All RAM below 4 GB is mapped with no table too many (SetupPaging of
\* boot/loader.asm), and each process that was forked has a copy of all INIT
\* was loaded with, in RAM, behind the kernel and apart from the others
\* (alloc_mem and do_fork of mm), wherever its descriptors say it is.
THEOREM MemoryCorrect == StartSpec => []MemoryMapped
BY BootCorrect, MemoryIsMapped, PTL
=============================================================================
