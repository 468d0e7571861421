-------------------------- MODULE FileSystemProofs --------------------------
(***************************************************************************)
(* Proofs about the file system: no sector has two uses, the free map is   *)
(* exact, and files read as they were written, at every moment of every    *)
(* operation and so on the disk that a crash leaves.                       *)
(*                                                                         *)
(* Two hypotheses are about the client.  DirectFiles: no file needs an index *)
(* sector, since the code does not store the indices of a header.          *)
(* ClosesFirst: a file is closed before it is removed, since an open file  *)
(* keeps its copy of the header.                                           *)
(*                                                                         *)
(* FSInv describes the disk while an operation has writes left to do: what *)
(* the writes done so far have made of it, and what those to come will do. *)
(* Each operation has its own description (Formatting, Creating, Removing, *)
(* Writing); starting an operation establishes it, WriteSector preserves it *)
(* or completes the operation, and every file that is not the subject of the *)
(* operation is Settled, before, during and after it.                      *)
(***************************************************************************)
EXTENDS FileSystem, ListTheorems

-----------------------------------------------------------------------------
(* BitMap::Find *)

\* A bit map has finitely many clear bits.
LEMMA ClearFinite ==
  ASSUME NEW map
  PROVE  /\ Clear(map) \subseteq Sector /\ Clear(map) \subseteq Nat /\ IsFiniteSet(Clear(map))
         /\ NumClear(map) \in Nat
<1>1. IsFiniteSet(Sector)
  BY FileHeaderAssumption, FS_Interval DEF Sector
<1>2. Clear(map) \subseteq Sector /\ Sector \subseteq Nat
  BY FileHeaderAssumption DEF Clear, Sector
<1>3. IsFiniteSet(Clear(map))
  BY <1>1, <1>2, FS_Subset
<1> QED
  BY <1>2, <1>3, FS_CardinalityType DEF NumClear

\* For every place up to their number there is a clear bit with as many before it.
LEMMA ClearInOrder ==
  ASSUME NEW map, NEW i \in 1 .. NumClear(map)
  PROVE  \E s \in Clear(map) : Cardinality({r \in Clear(map) : r < s}) = i - 1
<1> DEFINE C == Clear(map)
           Below(s) == {r \in C : r < s}
           Size1(s) == Cardinality(Below(s))
           Bad == {j \in 1 .. NumClear(map) : \A s \in C : Size1(s) # j - 1}
           m == CHOOSE j \in Bad : \A k \in Bad : j <= k
<1>1. C \subseteq Nat /\ IsFiniteSet(C) /\ NumClear(map) \in Nat /\ NumClear(map) = Cardinality(C)
  BY ClearFinite DEF NumClear
<1>2. \A s \in C : s \notin Below(s) /\ IsFiniteSet(Below(s))
  <2>1. \A s \in C : s \notin Below(s)
    BY <1>1
  <2>2. ASSUME NEW s \in C PROVE IsFiniteSet(Below(s))
    <3>1. Below(s) \subseteq C
      OBVIOUS
    <3> QED
      BY <1>1, <3>1, FS_Subset
  <2> QED
    BY <2>1, <2>2
<1> SUFFICES ASSUME i \in Bad PROVE FALSE
  OBVIOUS
<1>3. Bad \in SUBSET Nat /\ \A j \in Bad : j \in 1 .. NumClear(map) /\ \A s \in C : Size1(s) # j - 1
  <2> HIDE DEF Size1
  <2> QED
    BY <1>1
<1>4. \A j \in 1 .. NumClear(map) : j \notin Bad => \E s \in C : Size1(s) = j - 1
  <2> HIDE DEF Size1
  <2> QED
    OBVIOUS
<1> HIDE DEF Bad
<1>5. m \in Bad /\ \A k \in Bad : m <= k
  BY <1>3, LeastIndex
<1> HIDE DEF m
<1> DEFINE c == Cardinality(C)
<1>6. m \in Nat /\ m >= 1 /\ m <= c /\ c \in Nat
  BY <1>1, <1>3, <1>5
<1>7. ASSUME NEW s \in C PROVE Size1(s) # m - 1
  BY <1>3, <1>5
<1>8. CASE m = 1
  <2>1. C # {}
    BY <1>1, <1>6, <1>8, FS_EmptySet
  <2> DEFINE s == CHOOSE x \in C : \A j \in C : x <= j
  <2>2. s \in C /\ \A j \in C : s <= j
    BY <1>1, <2>1, LeastIndex
  <2> HIDE DEF s
  <2>3. Below(s) = {}
    BY <1>1, <2>2
  <2>4. Size1(s) = 0
    BY <2>3, FS_EmptySet
  <2> HIDE DEF Size1
  <2> QED
    BY <1>7, <1>8, <2>2, <2>4
<1>9. CASE m # 1
  <2>1. m - 1 \in 1 .. NumClear(map) /\ m - 1 \notin Bad
    BY <1>1, <1>5, <1>6, <1>9
  <2>2. PICK s \in C : Size1(s) = (m - 1) - 1
    BY <1>4, <2>1
  <2> DEFINE B == Below(s)
             Above == {r \in C : s < r}
  <2>3. IsFiniteSet(B) /\ s \notin B /\ Cardinality(B) = (m - 1) - 1
    BY <1>2, <2>2
  <2>4. Above # {} => \E t \in C : Below(t) = B \cup {s}
    <3> DEFINE t == CHOOSE x \in Above : \A j \in Above : x <= j
    <3> SUFFICES ASSUME Above # {} PROVE \E u \in C : Below(u) = B \cup {s}
      OBVIOUS
    <3>1. Above \in SUBSET Nat
      BY <1>1
    <3>2. t \in Above /\ \A j \in Above : t <= j
      BY <3>1, LeastIndex
    <3> HIDE DEF t
    <3>3. t \in C /\ Below(t) = B \cup {s}
      BY <1>1, <3>2
    <3> QED
      BY <3>3
  <2>5. Above = {} => C = B \cup {s}
    BY <1>1
  <2> HIDE DEF B, Above
  <2>6. Cardinality(B \cup {s}) = Cardinality(B) + 1
    BY <2>3, FS_AddElement
  <2>7. Cardinality(B \cup {s}) = m - 1
    BY <1>6, <2>3, <2>6
  <2>8. PICK t \in C : Below(t) = B \cup {s}
    <3>1. Above # {}
      BY <1>6, <2>5, <2>7
    <3> QED
      BY <2>4, <3>1
  <2>9. Size1(t) = m - 1
    BY <2>7, <2>8
  <2> QED
    BY <1>7, <2>9
<1> QED
  BY <1>8, <1>9

\* As many calls of Find as there are clear bits return different clear bits.
LEMMA FindSectors ==
  ASSUME NEW map, NEW n \in Nat, n <= NumClear(map)
  PROVE  /\ Find(map, n) \in Seq(Clear(map)) /\ Len(Find(map, n)) = n
         /\ IsInjective(Find(map, n)) /\ DOMAIN Find(map, n) = 1 .. n
         /\ Taken(map, n) = Range(Find(map, n)) \/ Needed(n) # n
<1> DEFINE C == Clear(map)
           Below(s) == {r \in C : r < s}
           g == Find(map, n)
<1>1. NumClear(map) \in Nat /\ C \subseteq Sector
  BY ClearFinite
<1>2. ASSUME NEW i \in 1 .. n PROVE g[i] \in C /\ Cardinality(Below(g[i])) = i - 1
  <2>1. i \in 1 .. NumClear(map) /\ ~(i > NumClear(map))
    BY <1>1
  <2>2. \E s \in C : Cardinality(Below(s)) = i - 1
    BY <2>1, ClearInOrder
  <2>3. g[i] = CHOOSE s \in C : Cardinality(Below(s)) = i - 1
    BY <2>1 DEF Find
  <2> QED
    BY <2>2, <2>3
<1>3. g = [i \in 1 .. n |-> g[i]]
  BY DEF Find
<1> HIDE DEF g
<1>4. g \in Seq(C) /\ Len(g) = n /\ DOMAIN g = 1 .. n
  <2>1. \A i \in 1 .. n : g[i] \in C
    BY <1>2
  <2> HIDE DEF C
  <2> QED
    BY <1>3, <2>1
<1>5. ASSUME NEW a \in 1 .. n, NEW b \in 1 .. n, g[a] = g[b] PROVE a = b
  <2>1. a - 1 = b - 1
    BY <1>2, <1>5
  <2> QED
    BY <2>1
<1>6. Needed(n) = n => Taken(map, n) = Range(g)
  BY <1>1, <1>2, <1>4 DEF Taken, Range, g
<1> QED
  BY <1>4, <1>5, <1>6 DEF g, IsInjective

\* The files need no index sector: up to 30 sectors, 3840 bytes, in the code.
DirectFiles == \A size \in Size : divRoundUp(size, SectorSize) <= NumDirect

-----------------------------------------------------------------------------
(* The invariant *)

\* The sectors of the free map and of the directory.
MapAt == Find(mapUsed, 1)[1]
DirAt == Find(dirUsed, NumDirEntries)
Slot == 1 .. NumDirEntries

\* The files in the directory, by their entries: names, header sectors, data sectors.
Active == {i \in Slot : disk[DirAt[i]].inUse}
NameAt(i) == disk[DirAt[i]].name
HeadAt(i) == disk[DirAt[i]].sector
SectorsAt(i) == disk[HeadAt(i)].dataSectors
Foot(i) == {HeadAt(i)} \cup Range(SectorsAt(i))
Marked == disk[MapAt].used
Occupied == Reserved \cup UNION {Foot(i) : i \in Active}

\* A header as Create makes it for a file without an index.
HeaderOK(c) ==
  /\ c = [kind |-> "header", numBytes |-> c.numBytes, numSectors |-> c.numSectors,
          dataSectors |-> c.dataSectors]
  /\ c.numBytes \in Nat /\ c.numSectors = divRoundUp(c.numBytes, SectorSize)
  /\ c.numSectors \in 0 .. NumDirect
  /\ c.dataSectors \in Seq(Sector) /\ Len(c.dataSectors) = c.numSectors
  /\ IsInjective(c.dataSectors)

\* The system's own sectors.
SystemOK ==
  /\ disk[FreeMapSector] = WriteBack(NewHeader(mapUsed, MapBytes))
  /\ disk[DirectorySector] = WriteBack(NewHeader(dirUsed, DirBytes))
  /\ disk[MapAt] = Map(Marked)
  /\ \A i \in Slot : /\ disk[DirAt[i]] = Entry(disk[DirAt[i]].inUse, NameAt(i), HeadAt(i))
                     /\ disk[DirAt[i]].inUse \in BOOLEAN

\* The files in the directory have headers, and share no sector.
FilesOK ==
  /\ \A i \in Active :
       /\ NameAt(i) \in Name /\ HeaderOK(disk[HeadAt(i)])
       /\ Foot(i) \subseteq Sector \ Reserved /\ HeadAt(i) \notin Range(SectorsAt(i))
       /\ born[NameAt(i)] \in {NULL, FetchFrom(disk[HeadAt(i)], -1, -1)}
  /\ \A i, j \in Active : i # j => NameAt(i) # NameAt(j) /\ Foot(i) \cap Foot(j) = {}

\* An open file has the header that is on the disk, and is not being removed.
OpenOK ==
  \A n \in Name :
    open[n] # NULL =>
      /\ \E i \in Active :
           /\ NameAt(i) = n /\ born[n] = FetchFrom(disk[HeadAt(i)], -1, -1)
           /\ \E l1, l2 \in Leftover : open[n].hdr = FetchFrom(disk[HeadAt(i)], l1, l2)
      /\ open[n] = [hdr |-> open[n].hdr, seekPosition |-> open[n].seekPosition]
      /\ open[n].seekPosition \in Nat

\* The contents c of a file's sector k has the bytes of the file there.
SectorHolds(c, k, bytes) ==
  /\ c = [kind |-> "data", bytes |-> c.bytes]
  /\ \A x \in 1 .. SectorSize :
       (k - 1) * SectorSize + x <= Len(bytes) => c.bytes[x] = bytes[(k - 1) * SectorSize + x]
\* A file on the disk.
Holds(i, bytes) ==
  /\ bytes \in Seq(Byte) /\ Len(bytes) = disk[HeadAt(i)].numBytes
  /\ \A k \in DOMAIN SectorsAt(i) : SectorHolds(disk[SectorsAt(i)[k]], k, bytes)

\* What is known of a file that no operation is changing.
Settled(n) ==
  /\ files[n] = NULL => \A i \in Active : NameAt(i) # n
  /\ files[n] # NULL => \E i \in Active : /\ NameAt(i) = n /\ Holds(i, files[n])
                                          /\ born[n] = FetchFrom(disk[HeadAt(i)], -1, -1)

\* The write of slot i of the directory, when slot e gets the entry x.
SlotWrite(i, e, x) == Write(DirAt[i], IF i = e THEN x ELSE disk[DirAt[i]])

NewFoot(h, sec) == {sec} \cup Range(h.dataSectors)

\* Create has still to clear cnt data sectors.
Allocating(n, h, e, sec) ==
  \E cnt \in 0 .. h.numSectors :
    /\ Len(todo) = cnt + NumDirEntries + 2
    /\ \A i \in 1 .. cnt :
         todo[i] = Write(h.dataSectors[(h.numSectors - cnt) + i], Zero)
    /\ todo[cnt + 1] = Write(sec, WriteBack(h))
    /\ \A i \in Slot : todo[cnt + 1 + i] = SlotWrite(i, e, Entry(TRUE, n, sec))
    /\ todo[cnt + NumDirEntries + 2] = Write(MapAt, Map(Marked \cup NewFoot(h, sec)))
    /\ \A k \in 1 .. h.numSectors - cnt : disk[h.dataSectors[k]] = Zero
    /\ e \notin Active /\ NewFoot(h, sec) \cap Occupied = {}
    /\ Marked = Occupied

\* Create has still to write the directory from slot j on, and the map.
Listing(n, h, e, sec) ==
  \E j \in 1 .. NumDirEntries + 1 :
    /\ Len(todo) = NumDirEntries + 2 - j
    /\ \A i \in j .. NumDirEntries : todo[(i - j) + 1] = SlotWrite(i, e, Entry(TRUE, n, sec))
    /\ todo[NumDirEntries + 2 - j] = Write(MapAt, Map(Marked \cup NewFoot(h, sec)))
    /\ disk[sec] = WriteBack(h)
    /\ \A k \in 1 .. h.numSectors : disk[h.dataSectors[k]] = Zero
    /\ e < j => disk[DirAt[e]] = Entry(TRUE, n, sec)
    /\ e >= j => e \notin Active /\ NewFoot(h, sec) \cap Occupied = {}
    /\ Marked = Occupied \ NewFoot(h, sec)

\* The file n that is being created gets the header h in sector sec, and entry e.
Making(n, h, e, sec) ==
  /\ n \in Name /\ open[n] = NULL /\ before[n] = NULL /\ files[n] = Zeros(h.numBytes)
  /\ h = FetchFrom(WriteBack(h), -1, -1) /\ HeaderOK(WriteBack(h))
  /\ sec \notin Range(h.dataSectors)
  /\ \A i \in Active \ {e} : NameAt(i) # n
  /\ Allocating(n, h, e, sec) \/ Listing(n, h, e, sec)
Creating == \E e \in Slot, sec \in Sector : Making(op, born[op], e, sec)

\* Remove has still to write the map and the directory, or the directory from slot j on.
Unmarking(n, e) ==
  /\ Len(todo) = NumDirEntries + 1
  /\ todo[1] = Write(MapAt, Map(Marked \ Foot(e)))
  /\ \A i \in Slot : todo[1 + i] = SlotWrite(i, e, Entry(FALSE, n, HeadAt(e)))
  /\ e \in Active /\ NameAt(e) = n /\ Holds(e, before[n]) /\ Marked = Occupied
Unlisting(n, e) ==
  \E j \in 1 .. NumDirEntries :
    /\ Len(todo) = NumDirEntries + 1 - j
    /\ \A i \in j .. NumDirEntries : todo[(i - j) + 1] = SlotWrite(i, e, Entry(FALSE, n, HeadAt(e)))
    /\ IF e >= j THEN /\ e \in Active /\ NameAt(e) = n /\ Holds(e, before[n])
                      /\ Marked = Occupied \ Foot(e)
       ELSE e \notin Active /\ Marked = Occupied
\* The file n that is being removed has entry e.
Dropping(n, e) ==
  /\ n \in Name /\ open[n] = NULL /\ born[n] = NULL /\ files[n] = NULL
  /\ \A i \in Active \ {e} : NameAt(i) # n
  /\ disk[DirAt[e]].name = n
  /\ Unmarking(n, e) \/ Unlisting(n, e)
Removing == \E e \in Slot : Dropping(op, e)

\* WriteAt has still to write some sectors of the file n, which has entry i.
Pending(s) == \E x \in DOMAIN todo : todo[x].sector = s
Filling(n, i) ==
  LET ds == SectorsAt(i)
  IN /\ n \in Name /\ NameAt(i) = n /\ Marked = Occupied
     /\ born[n] = FetchFrom(disk[HeadAt(i)], -1, -1)
     /\ {files[n], before[n]} \subseteq Seq(Byte)
     /\ Len(files[n]) = disk[HeadAt(i)].numBytes /\ Len(before[n]) = Len(files[n])
     /\ \A x \in DOMAIN todo :
          \E k \in DOMAIN ds : /\ todo[x] = Write(ds[k], todo[x].content)
                               /\ SectorHolds(todo[x].content, k, files[n])
     /\ \A x, y \in DOMAIN todo : todo[x].sector = todo[y].sector => x = y
     /\ \A k \in DOMAIN ds :
          SectorHolds(disk[ds[k]], k, IF Pending(ds[k]) THEN before[n] ELSE files[n])
Writing == \E i \in Active : Filling(op, i)

\* The disk d after k of the writes of FileSystem(TRUE).
FormatDone(d, k) ==
  /\ k >= NumDirEntries + 2 => d[FreeMapSector] = WriteBack(NewHeader(mapUsed, MapBytes))
  /\ IF k >= NumDirEntries + 3
     THEN d[DirectorySector] = WriteBack(NewHeader(dirUsed, DirBytes))
     ELSE d[DirectorySector].kind = "data"
  /\ k >= NumDirEntries + 4 => d[MapAt] = Map(Reserved)
  /\ \A i \in Slot : IF k >= NumDirEntries + 4 + i
                     THEN d[DirAt[i]] = Entry(FALSE, NULL, -1)
                     ELSE d[DirAt[i]].kind = "data"
Formatting ==
  \E k \in 0 .. 2 * NumDirEntries + 3 :
    /\ Len(todo) = 2 * NumDirEntries + 4 - k
    /\ \A x \in 1 .. Len(todo) : todo[x] = Format[k + x]
    /\ FormatDone(disk, k)
    /\ \A n \in Name : files[n] = NULL /\ born[n] = NULL /\ open[n] = NULL
    /\ op = NULL

Types ==
  /\ disk = [s \in Sector |-> disk[s]] /\ todo \in Seq(Range(todo))
  /\ open = [n \in Name |-> open[n]] /\ files = [n \in Name |-> files[n]]
  /\ before = [n \in Name |-> before[n]] /\ born = [n \in Name |-> born[n]]

\* While formatting nothing else is on the disk.  After that the system's own files,
\* the listed files and the open ones are in order, every file but the subject of the
\* operation is settled, and the map is exact unless an operation is in progress.
FSInv ==
  /\ Types
  /\ \/ Formatting
     \/ /\ SystemOK /\ FilesOK /\ OpenOK
        /\ \A n \in Name \ {op} : Settled(n)
        /\ \/ todo = <<>> /\ op = NULL /\ Marked = Occupied
           \/ todo # <<>> /\ (Creating \/ Removing \/ Writing)

-----------------------------------------------------------------------------
(* The sizes of files, and files without an index *)

\* A sector for every byte, and none too many.
LEMMA RoundUp ==
  ASSUME NEW b \in Nat, NEW n, n = divRoundUp(b, SectorSize)
  PROVE  /\ n \in Nat /\ b <= n * SectorSize
         /\ \A p \in 0 .. b - 1 : /\ p \div SectorSize \in 0 .. n - 1
                                  /\ p % SectorSize \in 0 .. SectorSize - 1
                                  /\ p = (p \div SectorSize) * SectorSize + (p % SectorSize)
<1> DEFINE S == SectorSize
           a == b + S - 1
<1>1. S \in Nat \ {0} /\ a \in Nat
  BY FileHeaderAssumption
<1>2. n = a \div S
  BY DEF divRoundUp
<1> HIDE DEF S, a
<1>3. a \div S \in Int /\ a % S \in 0 .. S - 1 /\ a = (a \div S) * S + (a % S)
  BY <1>1, DivMod
<1>4. PICK r \in 0 .. S - 1 : n \in Int /\ a = n * S + r
  BY <1>2, <1>3
<1>5. n >= 0
  BY <1>1, <1>4
<1>6. b <= n * S
  BY <1>1, <1>4 DEF a
<1>7. ASSUME NEW p \in 0 .. b - 1
      PROVE  /\ p \div S \in 0 .. n - 1 /\ p % S \in 0 .. S - 1
             /\ p = (p \div S) * S + (p % S)
  <2>1. p \in Int /\ p >= 0 /\ p < n * S
    BY <1>4, <1>6, <1>1
  <2>2. p \div S \in Int /\ p % S \in 0 .. S - 1 /\ p = (p \div S) * S + (p % S)
    BY <1>1, <2>1, DivMod
  <2> DEFINE q == p \div S
  <2>3. q \in Int /\ q * S <= p /\ p < (q + 1) * S
    BY <1>1, <2>2
  <2> HIDE DEF q
  <2>4. q >= 0
    BY <1>1, <2>1, <2>3
  <2>5. q < n
    BY <1>1, <1>4, <2>1, <2>3
  <2> QED
    BY <1>4, <2>2, <2>3, <2>4, <2>5 DEF q
<1> QED
  BY <1>4, <1>5, <1>6, <1>7 DEF S

\* A whole number of sectors.
LEMMA WholeSectors ==
  ASSUME NEW n \in Nat
  PROVE  /\ divRoundUp(n * SectorSize, SectorSize) = n /\ (n * SectorSize) \div SectorSize = n
         /\ n * SectorSize \in Nat
<1> DEFINE S == SectorSize
<1>1. S \in Nat \ {0}
  BY FileHeaderAssumption
<1> HIDE DEF S
<1>2. S - 1 \in Nat /\ S - 1 < S /\ 0 \in Nat /\ 0 < S /\ n \in Int /\ n * S \in Nat
  BY <1>1
<1>3. (n * S + (S - 1)) \div S = n /\ (n * S + 0) \div S = n
  BY <1>1, <1>2, DivModUnique
<1>4. n * S + S - 1 = n * S + (S - 1) /\ n * S + 0 = n * S
  BY <1>1
<1> QED
  BY <1>2, <1>3, <1>4 DEF divRoundUp, S

\* Up to NumDirect sectors need no index.
LEMMA DirectNeeds ==
  ASSUME NEW n \in 0 .. NumDirect
  PROVE  Needed(n) = n /\ L1Sectors(n) = 0 /\ L2Sectors(n) = 0
<1>1. ~(n > NumDirect) /\ ~(n > NumDirect + L1_INDEX_NUM) /\ n \in Nat
  BY FileHeaderAssumption
<1> QED
  BY <1>1 DEF Needed, L1Sectors, L2Sectors

\* What Allocate does for a file without an index.
LEMMA DirectHeader ==
  ASSUME NEW map, NEW size \in Nat, NEW n, n = divRoundUp(size, SectorSize),
         n <= NumDirect, n <= NumClear(map)
  PROVE  /\ n \in 0 .. NumDirect /\ Taken(map, n) = Range(Find(map, n))
         /\ NewHeader(map, size) = [numBytes |-> size, numSectors |-> n,
                                    dataSectors |-> Find(map, n),
                                    L1Index |-> -1, L2Index |-> -1]
         /\ AllocateWrites(map, size) = ClearSector(Find(map, n))
<1>1. n \in Nat /\ n \in 0 .. NumDirect
  BY RoundUp, FileHeaderAssumption
<1>2. Needed(n) = n /\ L1Sectors(n) = 0 /\ L2Sectors(n) = 0
  BY <1>1, DirectNeeds
<1> DEFINE g == Find(map, n)
<1>3. g \in Seq(Clear(map)) /\ Len(g) = n /\ Taken(map, n) = Range(g)
  BY <1>1, <1>2, FindSectors
<1>4. Least(n, NumDirect) = n
  BY <1>1, FileHeaderAssumption DEF Least
<1>5. Direct(g, n) = g
  <2> HIDE DEF g
  <2>1. SubSeq(g, 1, n) = g
    BY <1>1, <1>3
  <2> QED
    BY <1>4, <2>1 DEF Direct
<1>6. ~(0 = 1) /\ ~(0 > 0)
  OBVIOUS
<1>7. NewHeader(map, size) = [numBytes |-> size, numSectors |-> n, dataSectors |-> g,
                              L1Index |-> -1, L2Index |-> -1]
  BY <1>2, <1>5, <1>6 DEF NewHeader
<1>8. AllocateWrites(map, size) = ClearSector(g) \o <<>> \o <<>>
  BY <1>2, <1>5, <1>6, Zenon DEF AllocateWrites
<1>9. ClearSector(g) \in Seq({Write(s, Zero) : s \in Clear(map)})
  <2> DEFINE S == {Write(s, Zero) : s \in Clear(map)}
             c == ClearSector(g)
  <2>1. g = [i \in 1 .. n |-> g[i]] /\ \A i \in 1 .. n : g[i] \in Clear(map)
    BY <1>3
  <2>2. c = [i \in 1 .. n |-> Write(g[i], Zero)]
    BY <2>1 DEF ClearSector
  <2>3. \A i \in 1 .. n : c[i] \in S
    BY <2>1, <2>2
  <2>4. c = [i \in 1 .. n |-> c[i]]
    BY <2>2
  <2> HIDE DEF S, c
  <2> QED
    BY <1>1, <2>3, <2>4 DEF S, c
<1>10. ClearSector(g) \o <<>> \o <<>> = ClearSector(g)
  BY <1>9
<1> QED
  BY <1>1, <1>3, <1>7, <1>8, <1>10

\* A set without one of its elements.
LEMMA RemoveOne ==
  ASSUME NEW X, IsFiniteSet(X), NEW x \in X
  PROVE  IsFiniteSet(X \ {x}) /\ Cardinality(X \ {x}) = Cardinality(X) - 1
<1>1. IsFiniteSet(X \ {x})
  BY FS_RemoveElement
<1>2. Cardinality(X \ {x}) = Cardinality(X) - (IF x \in X THEN 1 ELSE 0)
  BY CountOne
<1>3. (IF x \in X THEN 1 ELSE 0) = 1
  OBVIOUS
<1> QED
  BY <1>1, <1>2, <1>3

\* Where the free map and the directory are: the sectors are all different.
LEMMA Layout ==
  /\ FreeMapSector \in Sector /\ DirectorySector \in Sector /\ FreeMapSector # DirectorySector
  /\ MapAt \in Sector \ mapUsed
  /\ \A i \in Slot : DirAt[i] \in Sector \ (mapUsed \cup {MapAt})
  /\ \A i, j \in Slot : DirAt[i] = DirAt[j] => i = j
  /\ Reserved = mapUsed \cup {MapAt} \cup {DirAt[i] : i \in Slot} /\ Reserved \subseteq Sector
  /\ NewHeader(mapUsed, MapBytes).dataSectors[1] = MapAt
  /\ NewHeader(dirUsed, DirBytes).dataSectors = DirAt
  /\ AllocateWrites(mapUsed, MapBytes) = ClearSector(<<MapAt>>)
  /\ AllocateWrites(dirUsed, DirBytes) = ClearSector(DirAt)
  /\ DirAt \in Seq(Sector) /\ Len(DirAt) = NumDirEntries /\ DOMAIN DirAt = Slot
  /\ NumDirEntries \in Nat /\ NumDirEntries >= 1
<1> DEFINE N == NumDirEntries
<1>1. /\ N \in Nat /\ N >= 1 /\ N <= NumDirect /\ NumDirect \in Nat /\ NumSectors \in Nat
      /\ 3 + N <= NumSectors /\ SectorSize \in Nat
  BY FileSystemAssumption, FileHeaderAssumption, FormatFits
<1>2. 0 \in Sector /\ 1 \in Sector /\ mapUsed = {0, 1} /\ Sector \subseteq Nat
  BY <1>1 DEF Sector, mapUsed, FreeMapSector, DirectorySector
<1>3. IsFiniteSet(Sector) /\ Cardinality(Sector) = NumSectors
  <2>1. IsFiniteSet(0 .. NumSectors - 1)
         /\ Cardinality(0 .. NumSectors - 1) = IF 0 > NumSectors - 1 THEN 0 ELSE NumSectors - 1 - 0 + 1
    BY <1>1, FS_Interval
  <2> QED
    BY <1>1, <2>1 DEF Sector
<1>4. IsFiniteSet(Sector \ {0}) /\ Cardinality(Sector \ {0}) = NumSectors - 1
  BY <1>2, <1>3, RemoveOne
<1>5. IsFiniteSet((Sector \ {0}) \ {1}) /\ Cardinality((Sector \ {0}) \ {1}) = NumSectors - 1 - 1
  <2> DEFINE S1 == Sector \ {0}
             c1 == NumSectors - 1
  <2>1. IsFiniteSet(S1) /\ Cardinality(S1) = c1 /\ 1 \in S1
    BY <1>2, <1>4
  <2> HIDE DEF S1, c1
  <2>2. IsFiniteSet(S1 \ {1}) /\ Cardinality(S1 \ {1}) = c1 - 1
    BY <2>1, RemoveOne
  <2> QED
    BY <2>2 DEF S1, c1
<1>6. Clear(mapUsed) = (Sector \ {0}) \ {1}
  BY <1>2 DEF Clear
<1>7. NumClear(mapUsed) = NumSectors - 1 - 1 /\ 1 <= NumClear(mapUsed)
  BY <1>1, <1>5, <1>6 DEF NumClear
<1>8. divRoundUp(MapBytes, SectorSize) = 1 /\ MapBytes \in Nat
  <2>1. MapBytes = 1 * SectorSize
    BY <1>1 DEF MapBytes
  <2> QED
    BY <1>1, <2>1, WholeSectors
<1>9. /\ Taken(mapUsed, 1) = Range(Find(mapUsed, 1))
      /\ NewHeader(mapUsed, MapBytes).dataSectors = Find(mapUsed, 1)
      /\ AllocateWrites(mapUsed, MapBytes) = ClearSector(Find(mapUsed, 1))
  BY <1>1, <1>7, <1>8, DirectHeader
<1>10. Find(mapUsed, 1) \in Seq(Clear(mapUsed)) /\ Len(Find(mapUsed, 1)) = 1
  BY <1>7, FindSectors
<1>11. Find(mapUsed, 1) = <<MapAt>> /\ MapAt \in Clear(mapUsed)
  BY <1>10 DEF MapAt
<1>12. dirUsed = mapUsed \cup {MapAt}
  <2>1. Range(<<MapAt>>) = {MapAt}
    BY DEF Range
  <2> QED
    BY <1>9, <1>11, <2>1 DEF dirUsed
<1>13. Clear(dirUsed) = ((Sector \ {0}) \ {1}) \ {MapAt} /\ MapAt \in (Sector \ {0}) \ {1}
  BY <1>2, <1>6, <1>11, <1>12 DEF Clear
<1>14. NumClear(dirUsed) = NumSectors - 1 - 1 - 1 /\ N <= NumClear(dirUsed)
  <2> DEFINE S2 == (Sector \ {0}) \ {1}
             c2 == NumSectors - 1 - 1
  <2>1. IsFiniteSet(S2) /\ Cardinality(S2) = c2 /\ MapAt \in S2 /\ Clear(dirUsed) = S2 \ {MapAt}
    BY <1>5, <1>13
  <2> HIDE DEF S2, c2
  <2>2. Cardinality(S2 \ {MapAt}) = c2 - 1
    BY <2>1, RemoveOne
  <2> QED
    BY <1>1, <2>1, <2>2 DEF NumClear, c2
<1>15. divRoundUp(DirBytes, SectorSize) = N /\ DirBytes \in Nat
  BY <1>1, WholeSectors DEF DirBytes
<1>16. /\ Taken(dirUsed, N) = Range(DirAt)
       /\ NewHeader(dirUsed, DirBytes).dataSectors = DirAt
       /\ AllocateWrites(dirUsed, DirBytes) = ClearSector(DirAt)
  BY <1>1, <1>14, <1>15, DirectHeader DEF DirAt
<1>17. DirAt \in Seq(Clear(dirUsed)) /\ Len(DirAt) = N /\ IsInjective(DirAt) /\ DOMAIN DirAt = Slot
  BY <1>1, <1>14, FindSectors DEF DirAt, Slot
<1>18. \A i \in Slot : DirAt[i] \in Clear(dirUsed)
  BY <1>17
<1>19. Clear(dirUsed) \subseteq Sector \ (mapUsed \cup {MapAt})
  BY <1>12 DEF Clear
<1>20. Reserved = mapUsed \cup {MapAt} \cup {DirAt[i] : i \in Slot}
  <2>1. Range(DirAt) = {DirAt[i] : i \in Slot}
    BY <1>17 DEF Range
  <2> QED
    BY <1>12, <1>16, <2>1 DEF Reserved
<1>21. Reserved \subseteq Sector
  BY <1>2, <1>13, <1>18, <1>19, <1>20
<1>22. DirAt \in Seq(Sector)
  <2>1. \A i \in Slot : DirAt[i] \in Sector
    BY <1>18, <1>19
  <2>2. DirAt = [i \in 1 .. N |-> DirAt[i]]
    BY <1>17 DEF Slot
  <2> HIDE DEF N
  <2> QED
    BY <1>1, <2>1, <2>2 DEF Slot, N
<1>23. \A i, j \in Slot : DirAt[i] = DirAt[j] => i = j
  BY <1>17 DEF IsInjective
<1>24. MapAt \in Sector \ mapUsed
  BY <1>11 DEF Clear
<1>25. FreeMapSector \in Sector /\ DirectorySector \in Sector /\ FreeMapSector # DirectorySector
  BY <1>2 DEF FreeMapSector, DirectorySector
<1> QED
  BY <1>1, <1>9, <1>11, <1>16, <1>17, <1>18, <1>19, <1>20, <1>21, <1>22, <1>23, <1>24, <1>25

-----------------------------------------------------------------------------
(* What the operations find on the disk *)

\* The system's sectors are where FileSystem(TRUE) put them.
LEMMA Lookup ==
  ASSUME SystemOK
  PROVE  /\ freeMapFile = MapAt /\ directoryFile = DirAt /\ freeMap = Marked
         /\ table = [i \in Slot |-> disk[DirAt[i]]] /\ DOMAIN table = Slot
         /\ \A i \in Slot : table[i] = disk[DirAt[i]]
<1>1. freeMapFile = MapAt
  BY Layout DEF SystemOK, freeMapFile, WriteBack
<1>2. directoryFile = DirAt
  BY Layout DEF SystemOK, directoryFile, WriteBack
<1>3. freeMap = Marked
  BY <1>1 DEF freeMap, Marked
<1>4. table = [i \in Slot |-> disk[DirAt[i]]]
  BY <1>2 DEF table, Slot
<1> QED
  BY <1>1, <1>2, <1>3, <1>4

\* FindIndex finds the one entry of the name that is in use.
LEMMA FoundAt ==
  ASSUME SystemOK, FilesOK, NEW n
  PROVE  /\ FindIndex(n) = {i \in Active : NameAt(i) = n}
         /\ InDirectory(n) <=> \E i \in Active : NameAt(i) = n
         /\ \A i \in Active : NameAt(i) = n => /\ (CHOOSE e \in FindIndex(n) : TRUE) = i
                                               /\ HeaderSector(n) = HeadAt(i)
<1>1. DOMAIN table = Slot /\ \A i \in Slot : table[i] = disk[DirAt[i]]
  BY Lookup
<1>2. \A i \in Slot : Named(i, n) <=> i \in Active /\ NameAt(i) = n
  BY <1>1 DEF Named, Active, NameAt
<1>3. Slot \subseteq Int /\ \A i \in Slot : \A j \in 1 .. i - 1 : j \in Slot /\ j # i
  BY Layout DEF Slot
<1>4. \A i, j \in Active : i # j => NameAt(i) # NameAt(j)
  BY DEF FilesOK
<1>5. Active \subseteq Slot
  BY DEF Active
<1>6. FindIndex(n) = {i \in Active : NameAt(i) = n}
  <2>1. ASSUME NEW i \in FindIndex(n) PROVE i \in Active /\ NameAt(i) = n
    BY <1>1, <1>2 DEF FindIndex
  <2>2. ASSUME NEW i \in Active, NameAt(i) = n PROVE i \in FindIndex(n)
    BY <1>1, <1>2, <1>3, <1>4, <1>5, <2>2 DEF FindIndex
  <2> QED
    BY <2>1, <2>2
<1>7. ASSUME NEW i \in Active, NameAt(i) = n
      PROVE  (CHOOSE e \in FindIndex(n) : TRUE) = i /\ HeaderSector(n) = HeadAt(i)
  <2>1. FindIndex(n) = {i}
    BY <1>4, <1>6, <1>7
  <2>2. (CHOOSE e \in FindIndex(n) : TRUE) = i
    BY <2>1
  <2> QED
    BY <1>1, <1>5, <2>2 DEF HeaderSector, HeadAt
<1> QED
  BY <1>6, <1>7 DEF InDirectory

\* Through a header without an index every byte of the file is found.
LEMMA HeaderFinds ==
  ASSUME NEW c, HeaderOK(c), NEW d, NEW l1, NEW l2, NEW h, h = FetchFrom(c, l1, l2)
  PROVE  /\ \A p \in Nat : p \div SectorSize \in 0 .. c.numSectors - 1 =>
              ByteToSector(d, h, p) = c.dataSectors[(p \div SectorSize) + 1]
         /\ \A i \in 1 .. c.numSectors :
              ByteToSector(d, h, (i - 1) * SectorSize) = c.dataSectors[i]
         /\ Deallocated(d, h) = Range(c.dataSectors)
         /\ h.numBytes = c.numBytes /\ h.numSectors = c.numSectors
         /\ h.dataSectors = c.dataSectors /\ WriteBack(h) = c
<1> DEFINE S == SectorSize
           m == c.numSectors
<1>1. /\ m \in 0 .. NumDirect /\ NumDirect \in Nat /\ S \in Nat \ {0}
      /\ c.dataSectors \in Seq(Sector) /\ Len(c.dataSectors) = m
  BY FileHeaderAssumption DEF HeaderOK
<1>2. /\ h.numBytes = c.numBytes /\ h.numSectors = c.numSectors /\ h.dataSectors = c.dataSectors
      /\ WriteBack(h) = c
  BY DEF FetchFrom, WriteBack, HeaderOK
<1>3. ASSUME NEW p \in Nat, p \div S \in 0 .. m - 1
      PROVE  ByteToSector(d, h, p) = c.dataSectors[(p \div S) + 1]
  <2>1. p \div S < NumDirect
    BY <1>1, <1>3
  <2>2. p \div S < NumDirect /\ ~(p \div S >= NumDirect)
        /\ ~((p \div S) - NumDirect - L1_INDEX_NUM >= 0)
    BY <1>1, <1>3, FileHeaderAssumption
  <2> QED
    BY <1>2, <2>2 DEF ByteToSector
<1>4. ASSUME NEW i \in 1 .. m
      PROVE  ByteToSector(d, h, (i - 1) * S) = c.dataSectors[i]
  <2>1. i - 1 \in Nat /\ i - 1 \in 0 .. m - 1 /\ (i - 1) + 1 = i
    BY <1>1
  <2>2. ((i - 1) * S) \div S = i - 1 /\ (i - 1) * S \in Nat
    BY <2>1, WholeSectors
  <2> QED
    BY <1>3, <2>1, <2>2
<1>5. DataSectors(d, h) = Range(c.dataSectors)
  <2>1. Range(c.dataSectors) = {c.dataSectors[i] : i \in 1 .. m}
    BY <1>1 DEF Range
  <2>2. DataSectors(d, h) = {ByteToSector(d, h, (i - 1) * S) : i \in 1 .. m}
    BY <1>2 DEF DataSectors
  <2> QED
    BY <1>4, <2>1, <2>2
<1>6. L1Sectors(m) = 0 /\ L2Sectors(m) = 0
  BY <1>1, DirectNeeds
<1>7. Deallocated(d, h) = Range(c.dataSectors)
  BY <1>2, <1>5, <1>6 DEF Deallocated
<1> QED
  BY <1>2, <1>3, <1>4, <1>7

\* A file's header and its sectors, as the properties speak of them.
LEMMA OwnedAt ==
  ASSUME SystemOK, FilesOK, NEW i \in Active, NEW n, NameAt(i) = n
  PROVE  /\ HeaderOf(n) = FetchFrom(disk[HeadAt(i)], -1, -1) /\ HeaderSector(n) = HeadAt(i)
         /\ Owned(n) = Foot(i) /\ n \in Name
<1>1. /\ born[n] \in {NULL, FetchFrom(disk[HeadAt(i)], -1, -1)} /\ HeaderOK(disk[HeadAt(i)])
      /\ n \in Name
  BY DEF FilesOK
<1>2. HeaderSector(n) = HeadAt(i)
  BY FoundAt
<1>3. HeaderOf(n) = FetchFrom(disk[HeadAt(i)], -1, -1)
  BY <1>1, <1>2, Zenon DEF HeaderOf
<1>4. Deallocated(disk, HeaderOf(n)) = Range(SectorsAt(i))
  BY <1>1, <1>3, HeaderFinds DEF SectorsAt
<1> QED
  BY <1>1, <1>2, <1>3, <1>4 DEF Owned, Foot

-----------------------------------------------------------------------------
(* What a step leaves as it is *)

\* The entry and the header of a file are unchanged; all of the file is.
SameAt(i) == disk'[DirAt[i]] = disk[DirAt[i]] /\ disk'[HeadAt(i)] = disk[HeadAt(i)]
Intact(i) == disk'[DirAt[i]] = disk[DirAt[i]] /\ \A s \in Foot(i) : disk'[s] = disk[s]

LEMMA Same ==
  ASSUME NEW i \in Slot, SameAt(i)
  PROVE  /\ NameAt(i)' = NameAt(i) /\ HeadAt(i)' = HeadAt(i) /\ (disk[HeadAt(i)])' = disk[HeadAt(i)]
         /\ SectorsAt(i)' = SectorsAt(i) /\ Foot(i)' = Foot(i) /\ (i \in Active)' = (i \in Active)
<1>1. NameAt(i)' = NameAt(i) /\ HeadAt(i)' = HeadAt(i)
  BY DEF SameAt, NameAt, HeadAt
<1>2. (disk[HeadAt(i)])' = disk[HeadAt(i)]
  BY <1>1 DEF SameAt
<1>3. SectorsAt(i)' = SectorsAt(i)
  BY <1>2 DEF SectorsAt
<1>4. Foot(i)' = Foot(i)
  BY <1>1, <1>3 DEF Foot
<1>5. (i \in Active)' = (i \in Active)
  BY DEF Active, SameAt
<1> QED
  BY <1>1, <1>2, <1>3, <1>4, <1>5

LEMMA IntactSame ==
  ASSUME NEW i \in Slot, Intact(i)
  PROVE  /\ SameAt(i)
         /\ \A k \in DOMAIN SectorsAt(i) : disk'[SectorsAt(i)[k]] = disk[SectorsAt(i)[k]]
         /\ \A b : Holds(i, b) => Holds(i, b)'
<1>1. HeadAt(i) \in Foot(i) /\ \A k \in DOMAIN SectorsAt(i) : SectorsAt(i)[k] \in Foot(i)
  BY DEF Foot, Range
<1>2. SameAt(i)
  BY <1>1 DEF SameAt, Intact
<1>3. \A k \in DOMAIN SectorsAt(i) : disk'[SectorsAt(i)[k]] = disk[SectorsAt(i)[k]]
  BY <1>1 DEF Intact
<1>4. SectorsAt(i)' = SectorsAt(i) /\ (disk[HeadAt(i)])' = disk[HeadAt(i)]
  BY <1>2, Same
<1>5. \A b : Holds(i, b) => Holds(i, b)'
  BY <1>3, <1>4 DEF Holds
<1> QED
  BY <1>2, <1>3, <1>5

LEMMA FilesKept ==
  ASSUME FilesOK, Active' \subseteq Active, \A i \in Active' : SameAt(i),
         \A i \in Active' : born'[NameAt(i)] \in {NULL, born[NameAt(i)]}
  PROVE  FilesOK'
<1>1. Active \subseteq Slot
  BY DEF Active
<1>2. ASSUME NEW i \in Active'
      PROVE  /\ i \in Active
             /\ NameAt(i)' = NameAt(i) /\ HeadAt(i)' = HeadAt(i) /\ (disk[HeadAt(i)])' = disk[HeadAt(i)]
             /\ SectorsAt(i)' = SectorsAt(i) /\ Foot(i)' = Foot(i)
             /\ (born[NameAt(i)])' = born'[NameAt(i)]
  <2>1. i \in Active /\ i \in Slot /\ SameAt(i)
    BY <1>1
  <2>2. /\ NameAt(i)' = NameAt(i) /\ HeadAt(i)' = HeadAt(i) /\ (disk[HeadAt(i)])' = disk[HeadAt(i)]
        /\ SectorsAt(i)' = SectorsAt(i) /\ Foot(i)' = Foot(i)
    BY <2>1, Same
  <2> QED
    BY <2>1, <2>2
<1>3. ASSUME NEW i \in Active'
      PROVE  (/\ NameAt(i) \in Name /\ HeaderOK(disk[HeadAt(i)])
              /\ Foot(i) \subseteq Sector \ Reserved /\ HeadAt(i) \notin Range(SectorsAt(i)))'
             /\ (born[NameAt(i)] \in {NULL, FetchFrom(disk[HeadAt(i)], -1, -1)})'
  <2>1. /\ NameAt(i) \in Name /\ HeaderOK(disk[HeadAt(i)])
        /\ Foot(i) \subseteq Sector \ Reserved /\ HeadAt(i) \notin Range(SectorsAt(i))
        /\ born[NameAt(i)] \in {NULL, FetchFrom(disk[HeadAt(i)], -1, -1)}
    BY <1>2 DEF FilesOK
  <2>2. HeaderOK(disk[HeadAt(i)])'
    BY <1>2, <2>1 DEF HeaderOK
  <2>3. (born[NameAt(i)] \in {NULL, FetchFrom(disk[HeadAt(i)], -1, -1)})'
    BY <1>2, <2>1 DEF FetchFrom
  <2> QED
    BY <1>2, <2>1, <2>2, <2>3
<1>4. \A i, j \in Active' : i # j => (NameAt(i) # NameAt(j) /\ Foot(i) \cap Foot(j) = {})'
  BY <1>2 DEF FilesOK
<1> QED
  BY <1>3, <1>4 DEF FilesOK

LEMMA OpenKept ==
  ASSUME OpenOK, Active \subseteq Slot, open' = open,
         \A i \in Active : open[NameAt(i)] # NULL =>
           i \in Active' /\ SameAt(i) /\ born'[NameAt(i)] = born[NameAt(i)]
  PROVE  OpenOK'
<1>1. SUFFICES ASSUME NEW n \in Name, open[n] # NULL
               PROVE  (/\ \E i \in Active :
                            /\ NameAt(i) = n /\ born[n] = FetchFrom(disk[HeadAt(i)], -1, -1)
                            /\ \E l1, l2 \in Leftover :
                                 open[n].hdr = FetchFrom(disk[HeadAt(i)], l1, l2)
                       /\ open[n] = [hdr |-> open[n].hdr, seekPosition |-> open[n].seekPosition]
                       /\ open[n].seekPosition \in Nat)'
  BY DEF OpenOK
<1>2. PICK i \in Active : /\ NameAt(i) = n /\ born[n] = FetchFrom(disk[HeadAt(i)], -1, -1)
                          /\ \E l1, l2 \in Leftover :
                               open[n].hdr = FetchFrom(disk[HeadAt(i)], l1, l2)
  BY <1>1 DEF OpenOK
<1>3. /\ i \in Active' /\ SameAt(i) /\ born'[n] = born[n]
  BY <1>1, <1>2
<1>4. NameAt(i)' = n /\ (disk[HeadAt(i)])' = disk[HeadAt(i)]
  BY <1>2, <1>3, Same
<1>5. /\ open[n] = [hdr |-> open[n].hdr, seekPosition |-> open[n].seekPosition]
      /\ open[n].seekPosition \in Nat
  BY <1>1 DEF OpenOK
<1>6. (born[n] = FetchFrom(disk[HeadAt(i)], -1, -1))'
  BY <1>2, <1>3, <1>4 DEF FetchFrom
<1>7. (\E l1, l2 \in Leftover : open[n].hdr = FetchFrom(disk[HeadAt(i)], l1, l2))'
  BY <1>2, <1>4 DEF FetchFrom
<1> QED
  BY <1>3, <1>4, <1>5, <1>6, <1>7

LEMMA SettledKept ==
  ASSUME NEW n, Settled(n), files'[n] = files[n], born'[n] = born[n], Active \subseteq Slot,
         \A i \in Active : NameAt(i) = n => i \in Active' /\ Intact(i),
         \A i \in Active' : (i \in Active /\ NameAt(i)' = NameAt(i)) \/ NameAt(i)' # n
  PROVE  Settled(n)'
<1>1. CASE files[n] = NULL
  BY <1>1 DEF Settled
<1>2. CASE files[n] # NULL
  <2>1. PICK i \in Active : /\ NameAt(i) = n /\ Holds(i, files[n])
                            /\ born[n] = FetchFrom(disk[HeadAt(i)], -1, -1)
    BY <1>2 DEF Settled
  <2>2. i \in Active' /\ Intact(i) /\ i \in Slot
    BY <2>1
  <2>3. SameAt(i) /\ \A b : Holds(i, b) => Holds(i, b)'
    BY <2>2, IntactSame
  <2>4. NameAt(i)' = n /\ (disk[HeadAt(i)])' = disk[HeadAt(i)]
    BY <2>1, <2>2, <2>3, Same
  <2>5. PICK b : b = files[n]
    OBVIOUS
  <2>6. Holds(i, b)'
    BY <2>1, <2>3, <2>5
  <2>7. (born[n] = FetchFrom(disk[HeadAt(i)], -1, -1))'
    BY <2>1, <2>4 DEF FetchFrom
  <2>8. Holds(i, files[n])'
    BY <2>5, <2>6
  <2> QED
    BY <1>2, <2>2, <2>4, <2>7, <2>8 DEF Settled
<1> QED
  BY <1>1, <1>2

-----------------------------------------------------------------------------
(* Writing one sector *)

LEMMA OccupiedSame ==
  ASSUME Active' = Active, \A i \in Active : SameAt(i)
  PROVE  Occupied' = Occupied
<1>1. \A i \in Active : Foot(i)' = Foot(i)
  BY Same DEF Active
<1> QED
  BY <1>1 DEF Occupied

\* A sector that is not one of the system's.
LEMMA WriteOutside ==
  ASSUME SystemOK, FilesOK, NEW s \in Sector \ Reserved, \A t \in Sector \ {s} : disk'[t] = disk[t]
  PROVE  /\ SystemOK' /\ Marked' = Marked /\ Active' = Active
         /\ \A i \in Slot : disk'[DirAt[i]] = disk[DirAt[i]]
         /\ \A i \in Active : s \notin Foot(i) => Intact(i)
<1>1. \A t \in Reserved : disk'[t] = disk[t]
  BY Layout
<1>2. /\ FreeMapSector \in Reserved /\ DirectorySector \in Reserved /\ MapAt \in Reserved
      /\ \A i \in Slot : DirAt[i] \in Reserved
  BY Layout DEF mapUsed
<1>3. \A i \in Slot : disk'[DirAt[i]] = disk[DirAt[i]]
  BY <1>1, <1>2
<1>4. Marked' = Marked
  BY <1>1, <1>2 DEF Marked
<1>5. Active' = Active
  BY <1>3 DEF Active
<1>6. \A i \in Active : Foot(i) \subseteq Sector /\ i \in Slot
  BY DEF FilesOK, Active
<1>7. \A i \in Active : s \notin Foot(i) => Intact(i)
  BY <1>3, <1>6 DEF Intact
<1>8. \A i \in Slot : NameAt(i)' = NameAt(i) /\ HeadAt(i)' = HeadAt(i)
  BY <1>3 DEF NameAt, HeadAt
<1>9. SystemOK'
  <2>1. (disk[FreeMapSector])' = disk[FreeMapSector] /\ (disk[DirectorySector])' = disk[DirectorySector]
        /\ (disk[MapAt])' = disk[MapAt]
    BY <1>1, <1>2
  <2>2. (\A i \in Slot : /\ disk[DirAt[i]] = Entry(disk[DirAt[i]].inUse, NameAt(i), HeadAt(i))
                         /\ disk[DirAt[i]].inUse \in BOOLEAN)'
    BY <1>3, <1>8 DEF SystemOK, Entry
  <2>3. (disk[MapAt] = Map(Marked))'
    BY <1>4, <2>1 DEF SystemOK, Map
  <2> QED
    BY <2>1, <2>2, <2>3 DEF SystemOK
<1> QED
  BY <1>3, <1>4, <1>5, <1>7, <1>9

\* The free map.
LEMMA WriteMap ==
  ASSUME SystemOK, FilesOK, NEW X, disk'[MapAt] = Map(X),
         \A t \in Sector \ {MapAt} : disk'[t] = disk[t]
  PROVE  /\ SystemOK' /\ Marked' = X /\ Active' = Active /\ Occupied' = Occupied
         /\ \A i \in Active : Intact(i)
<1>1. /\ FreeMapSector \in Sector \ {MapAt} /\ DirectorySector \in Sector \ {MapAt}
      /\ MapAt \in Reserved /\ \A i \in Slot : DirAt[i] \in Sector \ {MapAt}
  BY Layout DEF mapUsed
<1>2. \A i \in Slot : disk'[DirAt[i]] = disk[DirAt[i]]
  BY <1>1
<1>3. Marked' = X
  BY DEF Marked, Map
<1>4. Active' = Active
  BY <1>2 DEF Active
<1>5. \A i \in Active : Foot(i) \subseteq Sector \ {MapAt} /\ i \in Slot
  BY <1>1 DEF FilesOK, Active
<1>6. \A i \in Active : Intact(i)
  BY <1>2, <1>5 DEF Intact
<1>7. \A i \in Slot : NameAt(i)' = NameAt(i) /\ HeadAt(i)' = HeadAt(i)
  BY <1>2 DEF NameAt, HeadAt
<1>8. SystemOK'
  <2>1. (disk[FreeMapSector])' = disk[FreeMapSector] /\ (disk[DirectorySector])' = disk[DirectorySector]
    BY <1>1
  <2>2. (\A i \in Slot : /\ disk[DirAt[i]] = Entry(disk[DirAt[i]].inUse, NameAt(i), HeadAt(i))
                         /\ disk[DirAt[i]].inUse \in BOOLEAN)'
    BY <1>2, <1>7 DEF SystemOK, Entry
  <2>3. (disk[MapAt] = Map(Marked))'
    BY <1>3 DEF Map
  <2> QED
    BY <2>1, <2>2, <2>3 DEF SystemOK
<1>9. Occupied' = Occupied
  BY <1>4, <1>5, <1>6, IntactSame, OccupiedSame
<1> QED
  BY <1>3, <1>4, <1>6, <1>8, <1>9

\* An entry of the directory.
LEMMA WriteEntry ==
  ASSUME SystemOK, FilesOK, NEW e \in Slot, NEW b \in BOOLEAN, NEW m, NEW sec,
         disk'[DirAt[e]] = Entry(b, m, sec), \A t \in Sector \ {DirAt[e]} : disk'[t] = disk[t]
  PROVE  /\ SystemOK' /\ Marked' = Marked
         /\ Active' = (Active \ {e}) \cup (IF b THEN {e} ELSE {})
         /\ NameAt(e)' = m /\ HeadAt(e)' = sec
         /\ \A i \in Active \ {e} : Intact(i)
         /\ \A t \in Sector \ Reserved : disk'[t] = disk[t]
<1>1. /\ FreeMapSector \in Sector \ {DirAt[e]} /\ DirectorySector \in Sector \ {DirAt[e]}
      /\ MapAt \in Sector \ {DirAt[e]} /\ DirAt[e] \in Reserved
      /\ \A i \in Slot \ {e} : DirAt[i] \in Sector \ {DirAt[e]}
  BY Layout DEF mapUsed
<1>2. \A i \in Slot \ {e} : disk'[DirAt[i]] = disk[DirAt[i]]
  BY <1>1
<1>3. Marked' = Marked
  BY <1>1 DEF Marked
<1>4. NameAt(e)' = m /\ HeadAt(e)' = sec /\ (disk[DirAt[e]].inUse)' = b
  BY DEF Entry, NameAt, HeadAt
<1>5. Active' = (Active \ {e}) \cup (IF b THEN {e} ELSE {})
  <2>1. ASSUME NEW i \in Slot \ {e} PROVE i \in Active' <=> i \in Active
    BY <1>2 DEF Active
  <2>2. e \in Active' <=> b
    BY <1>4 DEF Active
  <2>3. Active' \subseteq Slot /\ Active \subseteq Slot
    BY DEF Active
  <2> QED
    BY <2>1, <2>2, <2>3
<1>6. \A t \in Sector \ Reserved : disk'[t] = disk[t]
  BY <1>1
<1>7. \A i \in Active : Foot(i) \subseteq Sector \ Reserved /\ i \in Slot
  BY DEF FilesOK, Active
<1>8. \A i \in Active \ {e} : Intact(i)
  BY <1>2, <1>6, <1>7 DEF Intact
<1>9. \A i \in Slot \ {e} : NameAt(i)' = NameAt(i) /\ HeadAt(i)' = HeadAt(i)
  BY <1>2 DEF NameAt, HeadAt
<1>10. SystemOK'
  <2>1. (disk[FreeMapSector])' = disk[FreeMapSector] /\ (disk[DirectorySector])' = disk[DirectorySector]
        /\ (disk[MapAt])' = disk[MapAt]
    BY <1>1
  <2>2. ASSUME NEW i \in Slot
        PROVE  (/\ disk[DirAt[i]] = Entry(disk[DirAt[i]].inUse, NameAt(i), HeadAt(i))
                /\ disk[DirAt[i]].inUse \in BOOLEAN)'
    <3>1. CASE i # e
      BY <1>2, <1>9, <3>1 DEF SystemOK, Entry
    <3>2. CASE i = e
      BY <1>4, <3>2 DEF Entry
    <3> QED
      BY <3>1, <3>2
  <2>3. (disk[MapAt] = Map(Marked))'
    BY <1>3, <2>1 DEF SystemOK, Map
  <2> QED
    BY <2>1, <2>2, <2>3 DEF SystemOK
<1> QED
  BY <1>3, <1>4, <1>5, <1>6, <1>8, <1>10

\* What WriteSector does with the first of the writes.
LEMMA WriteStep ==
  ASSUME Types, WriteSector, NEW s \in Sector, NEW c, todo[1] = Write(s, c)
  PROVE  /\ disk' = [disk EXCEPT ![s] = c] /\ disk'[s] = c
         /\ \A t \in Sector \ {s} : disk'[t] = disk[t]
         /\ Len(todo) \in Nat \ {0} /\ Len(todo') = Len(todo) - 1
         /\ \A x \in 1 .. Len(todo) - 1 : todo'[x] = todo[x + 1]
         /\ open' = open /\ files' = files /\ born' = born
         /\ Len(todo) > 1 => todo' # <<>> /\ op' = op /\ before' = before
         /\ Len(todo) = 1 => todo' = <<>> /\ op' = NULL
         /\ Types'
<1>1. todo \in Seq(Range(todo)) /\ todo # <<>>
  BY DEF Types, WriteSector
<1> DEFINE T == Range(todo)
<1>2. todo \in Seq(T)
  BY <1>1
<1>3. /\ Head(todo) = todo[1] /\ Len(todo) \in Nat \ {0} /\ Tail(todo) \in Seq(T)
      /\ Len(Tail(todo)) = Len(todo) - 1
      /\ \A x \in 1 .. Len(todo) - 1 : Tail(todo)[x] = todo[x + 1]
  <2> HIDE DEF T
  <2> QED
    BY <1>1, <1>2
<1>4. Head(todo).sector = s /\ Head(todo).content = c
  BY <1>3 DEF Write
<1>5. /\ disk' = [disk EXCEPT ![s] = c] /\ todo' = Tail(todo) /\ Done(todo' = <<>>)
      /\ open' = open /\ files' = files /\ born' = born
  BY <1>4 DEF WriteSector
<1>6. /\ Len(todo) > 1 => todo' # <<>> /\ op' = op /\ before' = before
      /\ Len(todo) = 1 => todo' = <<>> /\ op' = NULL /\ before' = files
  <2>1. Len(todo) > 1 => todo' # <<>>
    <3>1. Len(todo') = Len(todo) - 1
      BY <1>3, <1>5, Zenon
    <3>2. Len(<<>>) = 0
      BY EmptySeq
    <3>3. todo' = <<>> => Len(todo') = 0
      BY <3>2, Zenon
    <3> QED
      BY <1>3, <3>1, <3>3
  <2>2. Len(todo) = 1 => todo' = <<>>
    <3> HIDE DEF T
    <3> QED
      BY <1>3, <1>5
  <2>3. op' = (IF todo' = <<>> THEN NULL ELSE op) /\ before' = (IF todo' = <<>> THEN files ELSE before)
    BY <1>5 DEF Done
  <2> QED
    BY <1>3, <2>1, <2>2, <2>3
<1>7. todo' \in Seq(Range(todo'))
  <2> DEFINE q == Tail(todo)
  <2>1. q \in Seq(T)
    BY <1>3
  <2> HIDE DEF q, T
  <2>2. q \in Seq(Range(q))
    BY <2>1 DEF Range
  <2> QED
    BY <1>5, <2>2 DEF q
<1>8. /\ open' = [n \in Name |-> open'[n]] /\ files' = [n \in Name |-> files'[n]]
      /\ born' = [n \in Name |-> born'[n]]
  BY <1>5 DEF Types
<1>9. before' = [n \in Name |-> before'[n]]
  <2>1. before' = before \/ before' = files
    BY <1>5 DEF Done
  <2> QED
    BY <2>1 DEF Types
<1>10. disk' = [t \in Sector |-> disk'[t]] /\ disk'[s] = c /\ \A t \in Sector \ {s} : disk'[t] = disk[t]
  BY <1>5 DEF Types
<1>11. Types'
  BY <1>7, <1>8, <1>9, <1>10 DEF Types
<1> QED
  BY <1>3, <1>5, <1>6, <1>10, <1>11

\* A write that touches none of the files.
LEMMA Quiet ==
  ASSUME FilesOK, OpenOK, NEW N \in SUBSET Name, \A n \in N : Settled(n),
         Active' = Active, \A i \in Active : Intact(i),
         open' = open, files' = files, born' = born
  PROVE  /\ FilesOK' /\ OpenOK' /\ \A n \in N : Settled(n)'
         /\ Occupied' = Occupied
         /\ \A i \in Active : /\ i \in Slot /\ SameAt(i) /\ NameAt(i)' = NameAt(i)
                              /\ HeadAt(i)' = HeadAt(i) /\ Foot(i)' = Foot(i)
<1>1. Active \subseteq Slot
  BY DEF Active
<1>2. \A i \in Active : i \in Slot /\ SameAt(i)
  BY <1>1, IntactSame
<1>3. FilesOK'
  BY <1>2, FilesKept
<1>4. OpenOK'
  BY <1>1, <1>2, OpenKept
<1>5. \A i \in Active : NameAt(i)' = NameAt(i) /\ HeadAt(i)' = HeadAt(i) /\ Foot(i)' = Foot(i)
  BY <1>2, Same
<1>6. ASSUME NEW n \in N PROVE Settled(n)'
  BY <1>1, <1>5, SettledKept
<1>7. Occupied' = Occupied
  BY <1>2, OccupiedSame
<1> QED
  BY <1>2, <1>3, <1>4, <1>5, <1>6, <1>7

\* Rewriting an entry as it is.
LEMMA Unwritten ==
  ASSUME SystemOK, disk' = disk
  PROVE  SystemOK' /\ Marked' = Marked /\ Active' = Active /\ \A i \in Active : Intact(i)
<1>1. Marked' = Marked
  BY DEF Marked
<1>2. Active' = Active
  BY DEF Active
<1>3. \A i \in Active : Intact(i)
  BY DEF Intact
<1>4. SystemOK'
  BY <1>1 DEF SystemOK, Map, Entry, NameAt, HeadAt
<1> QED
  BY <1>1, <1>2, <1>3, <1>4

-----------------------------------------------------------------------------
(* The writes of Create *)

\* Clearing the sectors of the new file, and writing its header.
LEMMA AllocStep ==
  ASSUME Types, SystemOK, FilesOK, OpenOK, \A m \in Name \ {op} : Settled(m), WriteSector,
         NEW e \in Slot, NEW sec \in Sector, NEW n, NEW h, n = op, h = born[n],
         Making(n, h, e, sec), Allocating(n, h, e, sec)
  PROVE  FSInv'
<1> DEFINE D == NumDirEntries
           ds == h.dataSectors
           F == NewFoot(h, sec)
           M == h.numSectors
<1>1. /\ n \in Name /\ open[n] = NULL /\ before[n] = NULL /\ files[n] = Zeros(h.numBytes)
      /\ h = FetchFrom(WriteBack(h), -1, -1) /\ HeaderOK(WriteBack(h))
      /\ sec \notin Range(h.dataSectors)
      /\ \A i \in Active \ {e} : NameAt(i) # n
  BY DEF Making
<1>2. ds \in Seq(Sector) /\ M \in Nat /\ Len(ds) = M /\ D \in Nat /\ D >= 1
  BY <1>1, Layout, FileHeaderAssumption DEF HeaderOK, WriteBack
<1>3. PICK cnt \in 0 .. M :
    /\ Len(todo) = cnt + D + 2
    /\ \A i \in 1 .. cnt : todo[i] = Write(ds[(M - cnt) + i], Zero)
    /\ todo[cnt + 1] = Write(sec, WriteBack(h))
    /\ \A i \in Slot : todo[cnt + 1 + i] = SlotWrite(i, e, Entry(TRUE, n, sec))
    /\ todo[cnt + D + 2] = Write(MapAt, Map(Marked \cup F))
    /\ \A k \in 1 .. M - cnt : disk[ds[k]] = Zero
    /\ e \notin Active /\ F \cap Occupied = {}
    /\ Marked = Occupied
  BY DEF Allocating
<1>3n. /\ cnt \in Nat /\ cnt <= M /\ Len(todo) = cnt + D + 2 /\ M \in Nat
       /\ D \in Nat /\ D >= 1 /\ Slot = 1 .. D
  BY <1>2, <1>3 DEF Slot
<1>4. F \subseteq Sector /\ sec \in F /\ \A k \in 1 .. M : ds[k] \in F /\ ds[k] # sec
  BY <1>1, <1>2 DEF NewFoot, Range
<1>5. PICK s, c : /\ todo[1] = Write(s, c) /\ s \in F
                  /\ cnt = 0 => s = sec /\ c = WriteBack(h)
                  /\ cnt # 0 => s = ds[(M - cnt) + 1] /\ c = Zero
  <2>1. CASE cnt = 0
    BY <1>3, <1>4, <2>1
  <2>2. CASE cnt # 0
    <3>1. 1 \in 1 .. cnt /\ (M - cnt) + 1 \in 1 .. M
      <4> HIDE DEF M, D
      <4> QED
        BY <1>3n, <2>2
    <3> QED
      BY <1>3, <1>4, <2>2, <3>1
  <2> QED
    BY <2>1, <2>2
<1>6. s \in Sector /\ s \notin Reserved /\ \A i \in Active : s \notin Foot(i)
  BY <1>3, <1>4, <1>5 DEF Occupied
<1>7. /\ disk'[s] = c /\ \A t \in Sector \ {s} : disk'[t] = disk[t]
      /\ Len(todo') = Len(todo) - 1 /\ \A x \in 1 .. Len(todo) - 1 : todo'[x] = todo[x + 1]
      /\ open' = open /\ files' = files /\ born' = born
      /\ Len(todo) > 1 => todo' # <<>> /\ op' = op /\ before' = before
      /\ Types'
  BY <1>5, <1>6, WriteStep
<1>8. todo' # <<>> /\ op' = n /\ before' = before
  BY <1>2, <1>3, <1>7
<1>9. /\ SystemOK' /\ Marked' = Marked /\ Active' = Active /\ \A i \in Active : Intact(i)
      /\ \A i \in Slot : disk'[DirAt[i]] = disk[DirAt[i]]
  BY <1>6, <1>7, WriteOutside
<1>10. /\ FilesOK' /\ OpenOK' /\ \A m \in Name \ {n} : Settled(m)'
       /\ Occupied' = Occupied /\ \A i \in Active : NameAt(i)' = NameAt(i)
  <2>1. Name \ {n} \in SUBSET Name /\ \A m \in Name \ {n} : Settled(m)
    OBVIOUS
  <2> QED
    BY <1>7, <1>9, <2>1, Quiet
<1>11. ASSUME NEW i \in Slot
       PROVE  SlotWrite(i, e, Entry(TRUE, n, sec))' = SlotWrite(i, e, Entry(TRUE, n, sec))
  BY <1>9 DEF SlotWrite, Write
<1>12. (Allocating(n, h, e, sec) \/ Listing(n, h, e, sec))'
  <2>1. CASE cnt = 0
    <3>1. /\ 1 \in 1 .. D + 1 /\ Len(todo') = D + 2 - 1
      BY <1>3n, <1>7, <2>1
    <3>2. ASSUME NEW i \in 1 .. D PROVE todo'[(i - 1) + 1] = SlotWrite(i, e, Entry(TRUE, n, sec))'
      <4>1. (i - 1) + 1 \in 1 .. Len(todo) - 1 /\ ((i - 1) + 1) + 1 = cnt + 1 + i /\ i \in Slot
        BY <1>3n, <2>1
      <4> QED
        BY <1>3, <1>7, <1>11, <4>1
    <3>3. todo'[D + 2 - 1] = Write(MapAt, Map(Marked \cup F))'
      <4>1. D + 2 - 1 \in 1 .. Len(todo) - 1 /\ (D + 2 - 1) + 1 = cnt + D + 2
        BY <1>3n, <2>1
      <4> QED
        BY <1>3, <1>7, <1>9, <4>1 DEF Write, Map
    <3>4. disk'[sec] = WriteBack(h)
      BY <1>5, <1>7, <2>1
    <3>5. ASSUME NEW k \in 1 .. M PROVE disk'[ds[k]] = Zero
      <4>1. k \in 1 .. M - cnt /\ ds[k] \in Sector \ {sec}
        BY <1>2, <1>4, <2>1
      <4> QED
        BY <1>3, <1>5, <1>7, <2>1, <4>1
    <3>6. ~(e < 1)
      BY DEF Slot
    <3>7. e \notin Active' /\ (F \cap Occupied = {})' /\ Marked' = Occupied' \ F
      BY <1>3, <1>9, <1>10
    <3>8. Listing(n, h, e, sec)'
      BY <3>1, <3>2, <3>3, <3>4, <3>5, <3>6, <3>7 DEF Listing
    <3> QED
      BY <3>8
  <2>2. CASE cnt # 0
    <3> DEFINE c1 == cnt - 1
    <3>1. /\ c1 \in 0 .. M /\ Len(todo') = c1 + D + 2
      BY <1>3n, <1>7, <2>2
    <3>2. ASSUME NEW i \in 1 .. c1 PROVE todo'[i] = Write(ds[(M - c1) + i], Zero)
      <4>1. i \in 1 .. Len(todo) - 1 /\ i + 1 \in 1 .. cnt /\ (M - cnt) + (i + 1) = (M - c1) + i
        <5> HIDE DEF M, D
        <5>1. i \in Nat /\ i >= 1 /\ i <= cnt - 1
          BY <1>3n
        <5>2. Len(todo) - 1 = cnt + D + 1
          BY <1>3n
        <5> QED
          BY <1>3n, <5>1, <5>2
      <4> QED
        BY <1>3, <1>7, <4>1
    <3>3. todo'[c1 + 1] = Write(sec, WriteBack(h))
      <4>1. c1 + 1 \in 1 .. Len(todo) - 1 /\ (c1 + 1) + 1 = cnt + 1
        BY <1>3n, <2>2
      <4> QED
        BY <1>3, <1>7, <4>1
    <3>4. ASSUME NEW i \in Slot PROVE todo'[c1 + 1 + i] = SlotWrite(i, e, Entry(TRUE, n, sec))'
      <4>1. c1 + 1 + i \in 1 .. Len(todo) - 1 /\ (c1 + 1 + i) + 1 = cnt + 1 + i
        BY <1>3n, <2>2
      <4> QED
        BY <1>3, <1>7, <1>11, <4>1
    <3>5. todo'[c1 + D + 2] = Write(MapAt, Map(Marked \cup F))'
      <4>1. c1 + D + 2 \in 1 .. Len(todo) - 1 /\ (c1 + D + 2) + 1 = cnt + D + 2
        BY <1>3n, <2>2
      <4> QED
        BY <1>3, <1>7, <1>9, <4>1 DEF Write, Map
    <3>6. ASSUME NEW k \in 1 .. M - c1 PROVE disk'[ds[k]] = Zero
      <4>1. k \in 1 .. M /\ ds[k] \in Sector
        BY <1>2, <1>4, <2>2
      <4>2. CASE ds[k] = s
        BY <1>5, <1>7, <2>2, <4>2
      <4>3. CASE ds[k] # s
        <5>1. k # (M - cnt) + 1
          BY <1>5, <2>2, <4>3
        <5>2. k \in 1 .. M - cnt
          BY <1>2, <2>2, <5>1
        <5> QED
          BY <1>3, <1>7, <4>1, <4>3, <5>2
      <4> QED
        BY <4>2, <4>3
    <3>7. e \notin Active' /\ (F \cap Occupied = {})' /\ Marked' = Occupied'
      BY <1>3, <1>9, <1>10
    <3> HIDE DEF c1
    <3>8. Allocating(n, h, e, sec)'
      BY <3>1, <3>2, <3>3, <3>4, <3>5, <3>6, <3>7 DEF Allocating
    <3> QED
      BY <3>8
  <2> QED
    BY <2>1, <2>2
<1>13. \A i \in Active' \ {e} : NameAt(i)' # n
  BY <1>1, <1>9, <1>10
<1>14. Making(op, born[op], e, sec)'
  <2>1. op' = n /\ born'[n] = h /\ open'[n] = NULL /\ before'[n] = NULL /\ files'[n] = Zeros(h.numBytes)
    BY <1>1, <1>7, <1>8
  <2> QED
    BY <1>1, <1>12, <1>13, <2>1 DEF Making
<1>15. Creating'
  BY <1>14 DEF Creating
<1> QED
  BY <1>7, <1>8, <1>9, <1>10, <1>15 DEF FSInv

\* A new file holds zeros.
LEMMA ZerosHeld ==
  ASSUME NEW m \in Nat, NEW k \in Nat \ {0}
  PROVE  Zeros(m) \in Seq(Byte) /\ Len(Zeros(m)) = m /\ SectorHolds(Zero, k, Zeros(m)) /\ Zeros(m) # NULL
<1>1. 0 \in Byte /\ NULL \notin Seq(Byte) /\ SectorSize \in Nat
  BY FileSystemAssumption, FileHeaderAssumption
<1>2. Zeros(m) \in Seq(Byte) /\ Len(Zeros(m)) = m /\ \A i \in 1 .. m : Zeros(m)[i] = 0
  BY <1>1 DEF Zeros
<1>3. Zero = [kind |-> "data", bytes |-> Zero.bytes] /\ \A x \in 1 .. SectorSize : Zero.bytes[x] = 0
  BY DEF Zero
<1>4. ASSUME NEW x \in 1 .. SectorSize, (k - 1) * SectorSize + x <= m
      PROVE  (k - 1) * SectorSize + x \in 1 .. m
  <2>1. k - 1 \in Nat /\ (k - 1) * SectorSize \in Nat
    BY <1>1, WholeSectors
  <2> QED
    BY <1>1, <1>4, <2>1
<1>5. SectorHolds(Zero, k, Zeros(m))
  BY <1>2, <1>3, <1>4 DEF SectorHolds
<1> QED
  BY <1>1, <1>2, <1>5

\* Writing the directory with the new file, and the free map.
LEMMA ListStep ==
  ASSUME Types, SystemOK, FilesOK, OpenOK, \A m \in Name \ {op} : Settled(m), WriteSector,
         NEW e \in Slot, NEW sec \in Sector, NEW n, NEW h, n = op, h = born[n],
         Making(n, h, e, sec), Listing(n, h, e, sec)
  PROVE  FSInv'
<1> DEFINE D == NumDirEntries
           ds == h.dataSectors
           F == NewFoot(h, sec)
           M == h.numSectors
           x1 == Entry(TRUE, n, sec)
<1>1. /\ n \in Name /\ open[n] = NULL /\ before[n] = NULL /\ files[n] = Zeros(h.numBytes)
      /\ h = FetchFrom(WriteBack(h), -1, -1) /\ HeaderOK(WriteBack(h))
      /\ sec \notin Range(h.dataSectors)
      /\ \A i \in Active \ {e} : NameAt(i) # n
  BY DEF Making
<1>2. ds \in Seq(Sector) /\ M \in Nat /\ Len(ds) = M /\ h.numBytes \in Nat
  BY <1>1, FileHeaderAssumption DEF HeaderOK, WriteBack
<1>3. PICK j \in 1 .. D + 1 :
    /\ Len(todo) = D + 2 - j
    /\ \A i \in j .. D : todo[(i - j) + 1] = SlotWrite(i, e, x1)
    /\ todo[D + 2 - j] = Write(MapAt, Map(Marked \cup F))
    /\ disk[sec] = WriteBack(h)
    /\ \A k \in 1 .. M : disk[ds[k]] = Zero
    /\ e < j => disk[DirAt[e]] = x1
    /\ e >= j => e \notin Active /\ F \cap Occupied = {}
    /\ Marked = Occupied \ F
  BY DEF Listing
<1>4. D \in Nat /\ D >= 1 /\ Slot = 1 .. D /\ j \in Nat /\ j >= 1 /\ Len(todo) = D + 2 - j /\ e \in 1 .. D
  BY <1>3, Layout DEF Slot
<1>5. F \subseteq Sector /\ sec \in F /\ \A k \in 1 .. M : ds[k] \in F /\ ds[k] # sec
  BY <1>1, <1>2 DEF NewFoot, Range
<1>6. CASE j = D + 1
  <2>1. e < j /\ Len(todo) = 1 /\ D + 2 - j = 1
    BY <1>4, <1>6
  <2>2. todo[1] = Write(MapAt, Map(Marked \cup F)) /\ disk[DirAt[e]] = x1
    BY <1>3, <2>1
  <2>3. PICK X : X = Marked \cup F
    OBVIOUS
  <2>4. /\ disk'[MapAt] = Map(X) /\ \A t \in Sector \ {MapAt} : disk'[t] = disk[t]
        /\ open' = open /\ files' = files /\ born' = born
        /\ todo' = <<>> /\ op' = NULL /\ Types'
    <3>1. PICK c : c = Map(X)
      OBVIOUS
    <3>2. todo[1] = Write(MapAt, c) /\ MapAt \in Sector
      BY <2>2, <2>3, <3>1, Layout
    <3> QED
      BY <2>1, <3>1, <3>2, WriteStep
  <2>5. SystemOK' /\ Marked' = X /\ Active' = Active /\ Occupied' = Occupied /\ \A i \in Active : Intact(i)
    BY <2>4, WriteMap
  <2>6. FilesOK' /\ OpenOK' /\ \A m \in Name \ {n} : Settled(m)'
    <3>1. Name \ {n} \in SUBSET Name /\ \A m \in Name \ {n} : Settled(m)
      OBVIOUS
    <3> QED
      BY <2>4, <2>5, <3>1, Quiet
  <2>7. e \in Active /\ NameAt(e) = n /\ HeadAt(e) = sec
    BY <2>2 DEF Active, NameAt, HeadAt, Entry
  <2>8. disk[HeadAt(e)] = WriteBack(h) /\ SectorsAt(e) = ds /\ Foot(e) = F
    BY <1>3, <2>7 DEF SectorsAt, Foot, NewFoot, WriteBack
  <2>9. Marked' = Occupied'
    <3>1. F \subseteq Occupied
      BY <2>7, <2>8 DEF Occupied
    <3> QED
      BY <1>3, <2>3, <2>5, <3>1
  <2>10. Intact(e) /\ SameAt(e) /\ \A b : Holds(e, b) => Holds(e, b)'
    BY <2>5, <2>7, IntactSame
  <2>11. Holds(e, Zeros(h.numBytes))
    <3> DEFINE Z == Zeros(h.numBytes)
    <3>1. Z \in Seq(Byte) /\ Len(Z) = h.numBytes
      BY <1>2, ZerosHeld
    <3>2. ASSUME NEW k \in DOMAIN ds PROVE SectorHolds(disk[ds[k]], k, Z)
      <4>1. k \in 1 .. M /\ k \in Nat \ {0}
        BY <1>2
      <4>2. disk[ds[k]] = Zero /\ SectorHolds(Zero, k, Z)
        BY <1>2, <1>3, <4>1, ZerosHeld
      <4> QED
        BY <4>2
    <3>3. disk[HeadAt(e)].numBytes = h.numBytes
      BY <2>8 DEF WriteBack
    <3> HIDE DEF Z
    <3> QED
      BY <2>8, <3>1, <3>2, <3>3 DEF Holds, Z
  <2>12. Settled(n)'
    <3>1. Holds(e, files[n])'
      BY <1>1, <2>4, <2>10, <2>11
    <3>2. e \in Active' /\ NameAt(e)' = n /\ (disk[HeadAt(e)])' = disk[HeadAt(e)]
      BY <2>5, <2>7, <2>10, Same
    <3>3. (born[n] = FetchFrom(disk[HeadAt(e)], -1, -1))'
      BY <1>1, <2>4, <2>8, <3>2 DEF FetchFrom
    <3>4. files'[n] # NULL
      BY <1>1, <1>2, <2>4, ZerosHeld
    <3> QED
      BY <3>1, <3>2, <3>3, <3>4 DEF Settled
  <2>13. \A m \in Name : Settled(m)'
    BY <2>6, <2>12
  <2> QED
    BY <2>4, <2>5, <2>6, <2>9, <2>13 DEF FSInv
<1>7. CASE j # D + 1
  <2>1. /\ j \in Slot /\ j \in j .. D /\ (j - j) + 1 = 1 /\ Len(todo) > 1
        /\ j + 1 \in 1 .. D + 1 /\ Len(todo) - 1 = D + 2 - (j + 1)
    BY <1>4, <1>7
  <2>2. PICK c : todo[1] = Write(DirAt[j], c) /\ (c = IF j = e THEN x1 ELSE disk[DirAt[j]])
    BY <1>3, <2>1 DEF SlotWrite
  <2>3. DirAt[j] \in Sector
    BY <2>1, Layout
  <2>4. /\ disk' = [disk EXCEPT ![DirAt[j]] = c] /\ disk'[DirAt[j]] = c
        /\ \A t \in Sector \ {DirAt[j]} : disk'[t] = disk[t]
        /\ Len(todo') = Len(todo) - 1 /\ \A x \in 1 .. Len(todo) - 1 : todo'[x] = todo[x + 1]
        /\ open' = open /\ files' = files /\ born' = born
        /\ todo' # <<>> /\ op' = op /\ before' = before /\ Types'
    BY <2>1, <2>2, <2>3, WriteStep
  <2>5. /\ SystemOK' /\ FilesOK' /\ OpenOK' /\ \A m \in Name \ {n} : Settled(m)'
        /\ Marked' = Marked /\ Active' \ {e} = Active \ {e}
        /\ \A i \in Active \ {e} : NameAt(i)' = NameAt(i)
        /\ \A t \in Sector \ Reserved : disk'[t] = disk[t]
        /\ Marked' = Occupied' \ F /\ \A i \in Slot \ {e} : disk'[DirAt[i]] = disk[DirAt[i]]
        /\ e < j + 1 => disk'[DirAt[e]] = x1
        /\ e >= j + 1 => e \notin Active' /\ (F \cap Occupied = {})'
    <3>0. Name \ {n} \in SUBSET Name /\ \A m \in Name \ {n} : Settled(m)
      OBVIOUS
    <3>1. CASE j # e
      <4>1. disk' = disk
        BY <2>2, <2>3, <2>4, <3>1 DEF Types
      <4>2. SystemOK' /\ Marked' = Marked /\ Active' = Active /\ \A i \in Active : Intact(i)
        BY <4>1, Unwritten
      <4>3. /\ FilesOK' /\ OpenOK' /\ \A m \in Name \ {n} : Settled(m)'
            /\ Occupied' = Occupied /\ \A i \in Active : NameAt(i)' = NameAt(i)
        BY <2>4, <3>0, <4>2, Quiet
      <4>4. (e < j + 1 => e < j) /\ (e >= j + 1 => e >= j)
        BY <1>4, <3>1
      <4> QED
        BY <1>3, <4>1, <4>2, <4>3, <4>4
    <3>2. CASE j = e
      <4>1. c = x1 /\ ~(e < j) /\ e < j + 1 /\ ~(e >= j + 1) /\ e >= j
        BY <1>4, <2>2, <3>2
      <4>2. e \notin Active /\ F \cap Occupied = {}
        BY <1>3, <4>1
      <4>3. /\ SystemOK' /\ Marked' = Marked /\ Active' = Active \cup {e}
            /\ NameAt(e)' = n /\ HeadAt(e)' = sec /\ \A i \in Active : Intact(i)
            /\ \A t \in Sector \ Reserved : disk'[t] = disk[t]
        <5>0. PICK b \in BOOLEAN : b = TRUE
          OBVIOUS
        <5>2. /\ disk'[DirAt[e]] = Entry(b, n, sec)
              /\ \A t \in Sector \ {DirAt[e]} : disk'[t] = disk[t]
          BY <2>4, <3>2, <4>1, <5>0
        <5>1. /\ SystemOK' /\ Marked' = Marked
              /\ Active' = (Active \ {e}) \cup (IF b THEN {e} ELSE {})
              /\ NameAt(e)' = n /\ HeadAt(e)' = sec /\ \A i \in Active \ {e} : Intact(i)
              /\ \A t \in Sector \ Reserved : disk'[t] = disk[t]
          BY <5>2, WriteEntry
        <5> QED
          BY <4>2, <5>0, <5>1
      <4>4. F \subseteq Sector \ Reserved /\ \A i \in Active : F \cap Foot(i) = {}
        BY <1>5, <4>2 DEF Occupied
      <4>5. \A t \in F : disk'[t] = disk[t]
        BY <4>3, <4>4
      <4>6. (disk[HeadAt(e)])' = WriteBack(h)
        BY <1>3, <1>5, <4>3, <4>5
      <4>7. SectorsAt(e)' = ds /\ Foot(e)' = F
        BY <4>3, <4>6 DEF SectorsAt, Foot, NewFoot, WriteBack
      <4>8. \A i \in Active : /\ i \in Slot /\ SameAt(i) /\ NameAt(i)' = NameAt(i) /\ Foot(i)' = Foot(i)
                              /\ HeadAt(i)' = HeadAt(i) /\ (disk[HeadAt(i)])' = disk[HeadAt(i)]
                              /\ SectorsAt(i)' = SectorsAt(i)
        BY <4>3, Same, IntactSame DEF Active
      <4>9. Occupied' = Occupied \cup F
        BY <4>3, <4>7, <4>8 DEF Occupied
      <4>10. \A i \in Active : NameAt(i) # n
        BY <1>1, <4>2
      <4>11. FilesOK'
        <5>1. ASSUME NEW i \in Active'
              PROVE  (/\ NameAt(i) \in Name /\ HeaderOK(disk[HeadAt(i)])
                      /\ Foot(i) \subseteq Sector \ Reserved /\ HeadAt(i) \notin Range(SectorsAt(i))
                      /\ born[NameAt(i)] \in {NULL, FetchFrom(disk[HeadAt(i)], -1, -1)})'
          <6>1. CASE i = e
            <7>1. HeaderOK(disk[HeadAt(i)])'
              BY <1>1, <4>6, <6>1 DEF HeaderOK
            <7>2. (born[NameAt(i)] = FetchFrom(disk[HeadAt(i)], -1, -1))'
              BY <1>1, <2>4, <4>3, <4>6, <6>1 DEF FetchFrom
            <7> QED
              BY <1>1, <4>3, <4>4, <4>7, <6>1, <7>1, <7>2
          <6>2. CASE i # e
            <7>1. i \in Active
              BY <4>3, <6>2
            <7>2. /\ NameAt(i) \in Name /\ HeaderOK(disk[HeadAt(i)])
                  /\ Foot(i) \subseteq Sector \ Reserved /\ HeadAt(i) \notin Range(SectorsAt(i))
                  /\ born[NameAt(i)] \in {NULL, FetchFrom(disk[HeadAt(i)], -1, -1)}
              BY <7>1 DEF FilesOK
            <7>3. HeaderOK(disk[HeadAt(i)])'
              BY <4>8, <7>1, <7>2 DEF HeaderOK
            <7>4. (born[NameAt(i)] \in {NULL, FetchFrom(disk[HeadAt(i)], -1, -1)})'
              BY <2>4, <4>8, <7>1, <7>2 DEF FetchFrom
            <7> QED
              BY <4>8, <7>1, <7>2, <7>3, <7>4
          <6> QED
            BY <6>1, <6>2
        <5>2. ASSUME NEW i \in Active', NEW k \in Active', i # k
              PROVE  (NameAt(i) # NameAt(k) /\ Foot(i) \cap Foot(k) = {})'
          <6>1. i \in Active \/ i = e
            BY <4>3
          <6>2. k \in Active \/ k = e
            BY <4>3
          <6>3. CASE i \in Active /\ k \in Active
            BY <4>8, <5>2, <6>3 DEF FilesOK
          <6>4. CASE i = e /\ k \in Active
            BY <4>3, <4>4, <4>7, <4>8, <4>10, <6>4
          <6>5. CASE i \in Active /\ k = e
            BY <4>3, <4>4, <4>7, <4>8, <4>10, <6>5
          <6> QED
            BY <5>2, <6>1, <6>2, <6>3, <6>4, <6>5
        <5> QED
          BY <5>1, <5>2 DEF FilesOK
      <4>12. OpenOK'
        <5>1. Active \subseteq Slot
          BY <4>8
        <5> QED
          BY <2>4, <4>3, <4>8, <5>1, OpenKept
      <4>13. ASSUME NEW m \in Name \ {n} PROVE Settled(m)'
        <5>1. Active \subseteq Slot
          BY <4>8
        <5>2. \A i \in Active' : (i \in Active /\ NameAt(i)' = NameAt(i)) \/ NameAt(i)' # m
          BY <4>3, <4>8
        <5> QED
          BY <2>4, <3>0, <4>3, <5>1, <5>2, SettledKept
      <4>14. Marked' = Occupied' \ F
        BY <1>3, <4>2, <4>3, <4>9
      <4>15. \A i \in Slot \ {e} : disk'[DirAt[i]] = disk[DirAt[i]]
        BY <2>4, <3>2, Layout
      <4>16. disk'[DirAt[e]] = x1
        BY <2>4, <3>2, <4>1
      <4> QED
        BY <4>1, <4>2, <4>3, <4>8, <4>11, <4>12, <4>13, <4>14, <4>15, <4>16
    <3> QED
      BY <3>1, <3>2
  <2>6. Listing(n, h, e, sec)'
    <3> DEFINE k == j + 1
    <3>1. k \in 1 .. D + 1 /\ Len(todo') = D + 2 - k
      BY <2>1, <2>4
    <3>2. ASSUME NEW i \in k .. D PROVE todo'[(i - k) + 1] = SlotWrite(i, e, x1)'
      <4>1. /\ (i - k) + 1 \in 1 .. Len(todo) - 1 /\ ((i - k) + 1) + 1 = (i - j) + 1
            /\ i \in j .. D /\ i \in Slot
        BY <1>4, <2>1
      <4>2. todo'[(i - k) + 1] = SlotWrite(i, e, x1)
        BY <1>3, <2>4, <4>1
      <4>3. SlotWrite(i, e, x1)' = SlotWrite(i, e, x1)
        BY <2>5, <4>1 DEF SlotWrite, Write
      <4> QED
        BY <4>2, <4>3
    <3>3. todo'[D + 2 - k] = Write(MapAt, Map(Marked \cup F))'
      <4>1. D + 2 - k \in 1 .. Len(todo) - 1 /\ (D + 2 - k) + 1 = D + 2 - j
        BY <1>4, <2>1
      <4> QED
        BY <1>3, <2>4, <2>5, <4>1 DEF Write, Map
    <3>4. F \subseteq Sector \ Reserved
      <4>1. CASE e >= j
        BY <1>3, <1>5, <4>1 DEF Occupied
      <4>2. CASE e < j
        <5>1. disk[DirAt[e]] = x1
          BY <1>3, <4>2
        <5>2. e \in Active /\ HeadAt(e) = sec
          BY <5>1 DEF Active, HeadAt, Entry
        <5>3. Foot(e) = F
          BY <1>3, <5>2 DEF SectorsAt, Foot, NewFoot, WriteBack
        <5> QED
          BY <5>2, <5>3 DEF FilesOK
      <4> QED
        BY <1>4, <4>1, <4>2
    <3>5. disk'[sec] = WriteBack(h) /\ \A i \in 1 .. M : disk'[ds[i]] = Zero
      BY <1>3, <1>5, <2>5, <3>4
    <3> HIDE DEF k
    <3>6. /\ e < k => disk'[DirAt[e]] = x1
          /\ e >= k => e \notin Active' /\ (F \cap Occupied = {})'
      BY <2>5 DEF k
    <3> QED
      BY <2>5, <3>1, <3>2, <3>3, <3>5, <3>6 DEF Listing
  <2>7. Making(op, born[op], e, sec)'
    <3>1. op' = n /\ born'[n] = h /\ open'[n] = NULL /\ before'[n] = NULL /\ files'[n] = Zeros(h.numBytes)
      BY <1>1, <2>4
    <3>2. \A i \in Active' \ {e} : NameAt(i)' # n
      BY <1>1, <2>5
    <3> QED
      BY <1>1, <2>6, <3>1, <3>2 DEF Making
  <2>8. Creating'
    BY <2>7 DEF Creating
  <2> QED
    BY <2>4, <2>5, <2>8 DEF FSInv
<1> QED
  BY <1>6, <1>7

-----------------------------------------------------------------------------
(* The writes of Remove *)

\* Writing the free map without the sectors of the file.
LEMMA UnmarkStep ==
  ASSUME Types, SystemOK, FilesOK, OpenOK, \A m \in Name \ {op} : Settled(m), WriteSector,
         NEW e \in Slot, NEW n, n = op, Dropping(n, e), Unmarking(n, e)
  PROVE  FSInv'
<1> DEFINE D == NumDirEntries
<1>1. /\ n \in Name /\ open[n] = NULL /\ born[n] = NULL /\ files[n] = NULL
      /\ \A i \in Active \ {e} : NameAt(i) # n
      /\ disk[DirAt[e]].name = n
  BY DEF Dropping
<1>2. /\ Len(todo) = D + 1 /\ todo[1] = Write(MapAt, Map(Marked \ Foot(e)))
      /\ \A i \in Slot : todo[1 + i] = SlotWrite(i, e, Entry(FALSE, n, HeadAt(e)))
      /\ e \in Active /\ NameAt(e) = n /\ Holds(e, before[n]) /\ Marked = Occupied
  BY DEF Unmarking
<1>3. D \in Nat /\ D >= 1 /\ Slot = 1 .. D /\ e \in 1 .. D /\ Len(todo) > 1 /\ MapAt \in Sector
  BY <1>2, Layout DEF Slot
<1>4. PICK X, c : X = Marked \ Foot(e) /\ c = Map(X)
  OBVIOUS
<1>5. todo[1] = Write(MapAt, c)
  BY <1>2, <1>4
<1>6. /\ disk'[MapAt] = Map(X) /\ \A t \in Sector \ {MapAt} : disk'[t] = disk[t]
      /\ Len(todo') = Len(todo) - 1 /\ \A x \in 1 .. Len(todo) - 1 : todo'[x] = todo[x + 1]
      /\ open' = open /\ files' = files /\ born' = born
      /\ todo' # <<>> /\ op' = op /\ before' = before /\ Types'
  BY <1>3, <1>4, <1>5, WriteStep
<1>7. SystemOK' /\ Marked' = X /\ Active' = Active /\ Occupied' = Occupied /\ \A i \in Active : Intact(i)
  BY <1>6, WriteMap
<1>8. /\ FilesOK' /\ OpenOK' /\ \A m \in Name \ {n} : Settled(m)'
      /\ \A i \in Active : /\ i \in Slot /\ SameAt(i) /\ NameAt(i)' = NameAt(i)
                           /\ HeadAt(i)' = HeadAt(i) /\ Foot(i)' = Foot(i)
  <2>1. Name \ {n} \in SUBSET Name /\ \A m \in Name \ {n} : Settled(m)
    OBVIOUS
  <2> QED
    BY <1>6, <1>7, <2>1, Quiet
<1>9. Holds(e, before[n])'
  <2>1. PICK b : b = before[n]
    OBVIOUS
  <2>2. Holds(e, b)'
    BY <1>2, <1>7, <2>1, IntactSame
  <2> QED
    BY <1>6, <2>1, <2>2
<1>10. Unlisting(n, e)'
  <2>1. 1 \in 1 .. D /\ Len(todo') = D + 1 - 1 /\ e >= 1
    BY <1>2, <1>3, <1>6
  <2>2. ASSUME NEW i \in 1 .. D
        PROVE  todo'[(i - 1) + 1] = SlotWrite(i, e, Entry(FALSE, n, HeadAt(e)))'
    <3>1. (i - 1) + 1 \in 1 .. Len(todo) - 1 /\ ((i - 1) + 1) + 1 = 1 + i /\ i \in Slot
      BY <1>2, <1>3
    <3>2. disk'[DirAt[i]] = disk[DirAt[i]]
      BY <1>6, <3>1, Layout
    <3>3. todo'[(i - 1) + 1] = SlotWrite(i, e, Entry(FALSE, n, HeadAt(e)))
      BY <1>2, <1>6, <3>1
    <3>4. HeadAt(e)' = HeadAt(e)
      BY <1>2, <1>8
    <3>5. SlotWrite(i, e, Entry(FALSE, n, HeadAt(e)))' = SlotWrite(i, e, Entry(FALSE, n, HeadAt(e)))
      BY <3>2, <3>4 DEF SlotWrite, Write, Entry
    <3> QED
      BY <3>3, <3>5
  <2>3. e \in Active' /\ NameAt(e)' = n /\ Marked' = Occupied' \ Foot(e)'
    BY <1>2, <1>4, <1>7, <1>8
  <2> QED
    BY <1>9, <2>1, <2>2, <2>3 DEF Unlisting
<1>11. Dropping(op, e)'
  <2>1. op' = n /\ n \in Name /\ open'[n] = NULL /\ born'[n] = NULL /\ files'[n] = NULL
    BY <1>1, <1>6
  <2>2. \A i \in Active' \ {e} : NameAt(i)' # n
    BY <1>1, <1>7, <1>8
  <2>3. disk'[DirAt[e]].name = n
    BY <1>1, <1>2, <1>8 DEF SameAt
  <2> QED
    BY <1>10, <2>1, <2>2, <2>3 DEF Dropping
<1>12. Removing'
  BY <1>11 DEF Removing
<1> QED
  BY <1>6, <1>7, <1>8, <1>12 DEF FSInv

\* Writing the directory without the file.
LEMMA UnlistStep ==
  ASSUME Types, SystemOK, FilesOK, OpenOK, \A m \in Name \ {op} : Settled(m), WriteSector,
         NEW e \in Slot, NEW n, n = op, Dropping(n, e), Unlisting(n, e)
  PROVE  FSInv'
<1> DEFINE D == NumDirEntries
<1>1. /\ n \in Name /\ open[n] = NULL /\ born[n] = NULL /\ files[n] = NULL
      /\ \A i \in Active \ {e} : NameAt(i) # n
      /\ disk[DirAt[e]].name = n
  BY DEF Dropping
<1>2. PICK hs, b : hs = HeadAt(e) /\ b = before[n]
  OBVIOUS
<1> DEFINE x0 == Entry(FALSE, n, hs)
<1>3. PICK j \in 1 .. D :
    /\ Len(todo) = D + 1 - j
    /\ \A i \in j .. D : todo[(i - j) + 1] = SlotWrite(i, e, x0)
    /\ IF e >= j THEN e \in Active /\ NameAt(e) = n /\ Holds(e, b) /\ Marked = Occupied \ Foot(e)
       ELSE e \notin Active /\ Marked = Occupied
  BY <1>2 DEF Unlisting
<1>4. D \in Nat /\ D >= 1 /\ Slot = 1 .. D /\ j \in Nat /\ j >= 1 /\ j <= D
      /\ Len(todo) = D + 1 - j /\ e \in 1 .. D
  BY <1>3, Layout DEF Slot
<1>5. j \in Slot /\ j \in j .. D /\ (j - j) + 1 = 1
  BY <1>4
<1>6. PICK c : todo[1] = Write(DirAt[j], c) /\ (c = IF j = e THEN x0 ELSE disk[DirAt[j]])
  BY <1>3, <1>5 DEF SlotWrite
<1>7. DirAt[j] \in Sector
  BY <1>5, Layout
<1>8. /\ disk' = [disk EXCEPT ![DirAt[j]] = c] /\ disk'[DirAt[j]] = c
      /\ \A t \in Sector \ {DirAt[j]} : disk'[t] = disk[t]
      /\ Len(todo') = Len(todo) - 1 /\ \A x \in 1 .. Len(todo) - 1 : todo'[x] = todo[x + 1]
      /\ open' = open /\ files' = files /\ born' = born /\ Types'
      /\ Len(todo) > 1 => todo' # <<>> /\ op' = op /\ before' = before
      /\ Len(todo) = 1 => todo' = <<>> /\ op' = NULL
  BY <1>6, <1>7, WriteStep
<1>9. Name \ {n} \in SUBSET Name /\ \A m \in Name \ {n} : Settled(m)
  OBVIOUS
<1>10. /\ SystemOK' /\ FilesOK' /\ OpenOK' /\ \A m \in Name \ {n} : Settled(m)'
       /\ \A i \in Active' \ {e} : NameAt(i)' # n
       /\ HeadAt(e)' = hs /\ disk'[DirAt[e]].name = n
       /\ \A i \in Slot \ {e} : disk'[DirAt[i]] = disk[DirAt[i]]
       /\ e >= j + 1 => /\ e \in Active' /\ NameAt(e)' = n /\ Holds(e, b)'
                        /\ Marked' = Occupied' \ Foot(e)'
       /\ ~(e >= j + 1) => e \notin Active' /\ Marked' = Occupied'
  <2>1. CASE j # e
    <3>1. disk' = disk
      BY <1>6, <1>7, <1>8, <2>1 DEF Types
    <3>2. SystemOK' /\ Marked' = Marked /\ Active' = Active /\ \A i \in Active : Intact(i)
      BY <3>1, Unwritten
    <3>3. /\ FilesOK' /\ OpenOK' /\ Occupied' = Occupied /\ \A m \in Name \ {n} : Settled(m)'
          /\ \A i \in Active : /\ i \in Slot /\ SameAt(i) /\ NameAt(i)' = NameAt(i)
                               /\ HeadAt(i)' = HeadAt(i) /\ Foot(i)' = Foot(i)
      BY <1>8, <1>9, <3>2, Quiet
    <3>4. e >= j + 1 <=> e >= j
      BY <1>4, <2>1
    <3>5. HeadAt(e)' = hs /\ disk'[DirAt[e]].name = n
      BY <1>1, <1>2, <3>1 DEF HeadAt
    <3>8. \A i \in Active' \ {e} : NameAt(i)' # n
      BY <1>1, <3>2, <3>3
    <3>9. \A i \in Slot \ {e} : disk'[DirAt[i]] = disk[DirAt[i]]
      BY <3>1
    <3>6. CASE e >= j
      <4>1. e \in Active /\ NameAt(e) = n /\ Holds(e, b) /\ Marked = Occupied \ Foot(e)
        BY <1>3, <3>6
      <4>2. Holds(e, b)'
        BY <3>2, <4>1, IntactSame
      <4>3. e \in Active' /\ NameAt(e)' = n /\ Marked' = Occupied' \ Foot(e)'
        BY <3>2, <3>3, <4>1, Zenon
      <4> QED
        BY <3>2, <3>3, <3>4, <3>5, <3>6, <3>8, <3>9, <4>2, <4>3, Zenon
    <3>7. CASE ~(e >= j)
      <4>1. e \notin Active /\ Marked = Occupied
        BY <1>3, <3>7
      <4>2. e \notin Active' /\ Marked' = Occupied'
        BY <3>2, <3>3, <4>1, Zenon
      <4> QED
        BY <3>2, <3>3, <3>4, <3>5, <3>7, <3>8, <3>9, <4>2, Zenon
    <3> QED
      BY <3>6, <3>7
  <2>2. CASE j = e
    <3>1. c = x0 /\ e >= j /\ ~(e >= j + 1)
      BY <1>4, <1>6, <2>2
    <3>2. e \in Active /\ NameAt(e) = n /\ Marked = Occupied \ Foot(e)
      BY <1>3, <3>1
    <3>3. PICK f \in BOOLEAN : f = FALSE
      OBVIOUS
    <3>4. disk'[DirAt[e]] = Entry(f, n, hs) /\ \A t \in Sector \ {DirAt[e]} : disk'[t] = disk[t]
      BY <1>8, <2>2, <3>1, <3>3
    <3>5. /\ SystemOK' /\ Marked' = Marked
          /\ Active' = (Active \ {e}) \cup (IF f THEN {e} ELSE {})
          /\ NameAt(e)' = n /\ HeadAt(e)' = hs /\ \A i \in Active \ {e} : Intact(i)
      BY <3>4, WriteEntry
    <3>6. Active' = Active \ {e} /\ Active \subseteq Slot
      BY <3>3, <3>5 DEF Active
    <3>7. \A i \in Active' : /\ i \in Slot /\ SameAt(i) /\ NameAt(i)' = NameAt(i) /\ Foot(i)' = Foot(i)
                             /\ Intact(i)
      BY <3>5, <3>6, Same, IntactSame
    <3>8. FilesOK'
      BY <1>8, <3>6, <3>7, FilesKept
    <3>9. OpenOK'
      <4>1. \A i \in Active : open[NameAt(i)] # NULL => i \in Active'
        BY <1>1, <3>2, <3>6
      <4> QED
        BY <1>8, <3>6, <3>7, <4>1, OpenKept
    <3>10. ASSUME NEW m \in Name \ {n} PROVE Settled(m)'
      <4>1. \A i \in Active : NameAt(i) = m => i \in Active' /\ Intact(i)
        BY <3>2, <3>6, <3>7
      <4> QED
        BY <1>8, <1>9, <3>6, <3>7, <4>1, SettledKept
    <3>11. Marked' = Occupied'
      <4>1. ASSUME NEW t PROVE t \in Occupied <=> t \in Reserved \/ \E i \in Active : t \in Foot(i)
        BY DEF Occupied
      <4>2. ASSUME NEW t
            PROVE  t \in Occupied' <=> t \in Reserved \/ \E i \in Active \ {e} : t \in Foot(i)
        <5>1. t \in Occupied' <=> t \in Reserved \/ \E i \in Active' : t \in Foot(i)'
          BY DEF Occupied
        <5> QED
          BY <3>6, <3>7, <5>1
      <4>3. \A i \in Active \ {e} : Foot(i) \cap Foot(e) = {}
        BY <3>2 DEF FilesOK
      <4>4. Foot(e) \cap Reserved = {}
        BY <3>2 DEF FilesOK
      <4>5. ASSUME NEW t PROVE t \in Occupied' <=> t \in Occupied /\ t \notin Foot(e)
        BY <3>2, <4>1, <4>2, <4>3, <4>4
      <4> QED
        BY <3>2, <3>5, <4>5
    <3>12. \A i \in Slot \ {e} : disk'[DirAt[i]] = disk[DirAt[i]]
      BY <1>8, <2>2, Layout
    <3>13. \A i \in Active' \ {e} : NameAt(i)' # n
      BY <1>1, <3>6, <3>7
    <3>14. disk'[DirAt[e]].name = n
      BY <3>4 DEF Entry
    <3> QED
      BY <3>1, <3>5, <3>6, <3>8, <3>9, <3>10, <3>11, <3>12, <3>13, <3>14
  <2> QED
    BY <2>1, <2>2
<1>11. CASE j = D
  <2>1. Len(todo) = 1 /\ ~(e >= j + 1)
    BY <1>4, <1>11
  <2>2. todo' = <<>> /\ op' = NULL /\ e \notin Active' /\ Marked' = Occupied'
    BY <1>8, <1>10, <2>1
  <2>3. Settled(n)'
    <3>1. files'[n] = NULL /\ \A i \in Active' : NameAt(i)' # n
      BY <1>1, <1>8, <1>10, <2>2
    <3> QED
      BY <3>1 DEF Settled
  <2>4. \A m \in Name : Settled(m)'
    BY <1>10, <2>3
  <2> QED
    BY <1>8, <1>10, <2>2, <2>4 DEF FSInv
<1>12. CASE j # D
  <2> DEFINE k == j + 1
  <2>1. Len(todo) > 1 /\ k \in 1 .. D /\ Len(todo) - 1 = D + 1 - k
    BY <1>4, <1>12
  <2>2. todo' # <<>> /\ op' = n /\ before' = before /\ Len(todo') = D + 1 - k
    BY <1>8, <2>1
  <2>3. ASSUME NEW i \in k .. D
        PROVE  todo'[(i - k) + 1] = SlotWrite(i, e, Entry(FALSE, n, HeadAt(e)))'
    <3>1. /\ (i - k) + 1 \in 1 .. Len(todo) - 1 /\ ((i - k) + 1) + 1 = (i - j) + 1
          /\ i \in j .. D /\ i \in Slot
      BY <1>4, <2>1
    <3>2. todo'[(i - k) + 1] = SlotWrite(i, e, x0)
      BY <1>3, <1>8, <3>1
    <3>3. SlotWrite(i, e, Entry(FALSE, n, HeadAt(e)))' = SlotWrite(i, e, x0)
      BY <1>10, <3>1 DEF SlotWrite, Write, Entry
    <3> QED
      BY <3>2, <3>3
  <2>4. /\ e >= k => /\ e \in Active' /\ NameAt(e)' = n /\ Holds(e, before[n])'
                     /\ Marked' = Occupied' \ Foot(e)'
        /\ ~(e >= k) => e \notin Active' /\ Marked' = Occupied'
    <3>1. (before[n])' = b
      BY <1>2, <2>2
    <3>2. Holds(e, b)' => Holds(e, before[n])'
      BY <3>1
    <3> QED
      BY <1>10, <3>2
  <2> HIDE DEF k
  <2>5. Unlisting(n, e)'
    BY <2>1, <2>2, <2>3, <2>4 DEF Unlisting
  <2>6. Dropping(op, e)'
    <3>1. op' = n /\ n \in Name /\ open'[n] = NULL /\ born'[n] = NULL /\ files'[n] = NULL
      BY <1>1, <1>8, <2>2
    <3> QED
      BY <1>10, <2>5, <3>1 DEF Dropping
  <2>7. Removing'
    BY <2>6 DEF Removing
  <2> QED
    BY <1>8, <1>10, <2>2, <2>7 DEF FSInv
<1> QED
  BY <1>11, <1>12

-----------------------------------------------------------------------------
(* The writes of WriteAt *)

LEMMA DataStep ==
  ASSUME Types, SystemOK, FilesOK, OpenOK, \A m \in Name \ {op} : Settled(m), WriteSector,
         NEW i \in Active, NEW n, n = op, Filling(n, i)
  PROVE  FSInv'
<1>1. PICK ds, hc, new, old :
        ds = SectorsAt(i) /\ hc = disk[HeadAt(i)] /\ new = files[n] /\ old = before[n]
  OBVIOUS
<1>2. /\ n \in Name /\ NameAt(i) = n /\ Marked = Occupied
      /\ born[n] = FetchFrom(hc, -1, -1)
      /\ new \in Seq(Byte) /\ old \in Seq(Byte) /\ Len(new) = hc.numBytes /\ Len(old) = Len(new)
      /\ \A x \in DOMAIN todo :
            \E k \in DOMAIN ds : /\ todo[x] = Write(ds[k], todo[x].content)
                                 /\ SectorHolds(todo[x].content, k, new)
      /\ \A x, y \in DOMAIN todo : todo[x].sector = todo[y].sector => x = y
      /\ \A k \in DOMAIN ds : SectorHolds(disk[ds[k]], k, IF Pending(ds[k]) THEN old ELSE new)
  BY <1>1 DEF Filling
<1>3. /\ i \in Slot /\ HeaderOK(hc) /\ Foot(i) = {HeadAt(i)} \cup Range(ds)
      /\ Foot(i) \subseteq Sector \ Reserved /\ HeadAt(i) \notin Range(ds) /\ IsInjective(ds)
  <2>1. hc.dataSectors = ds
    BY <1>1 DEF SectorsAt
  <2> QED
    BY <1>1, <2>1 DEF FilesOK, Active, Foot, HeaderOK
<1>4. DOMAIN todo = 1 .. Len(todo) /\ Len(todo) \in Nat \ {0} /\ 1 \in DOMAIN todo
  <2>1. todo \in Seq(Range(todo)) /\ todo # <<>>
    BY DEF Types, WriteSector
  <2> DEFINE T == Range(todo)
  <2>2. todo \in Seq(T)
    BY <2>1
  <2> HIDE DEF T
  <2> QED
    BY <2>1, <2>2
<1>5. PICK k0, s, c :
        k0 \in DOMAIN ds /\ s = ds[k0] /\ todo[1] = Write(s, c) /\ SectorHolds(c, k0, new)
  BY <1>2, <1>4
<1>6. s \in Sector /\ s \notin Reserved /\ s # HeadAt(i) /\ s \in Foot(i)
  BY <1>3, <1>5 DEF Range
<1>7. /\ disk'[s] = c /\ \A t \in Sector \ {s} : disk'[t] = disk[t]
      /\ Len(todo') = Len(todo) - 1 /\ \A x \in 1 .. Len(todo) - 1 : todo'[x] = todo[x + 1]
      /\ open' = open /\ files' = files /\ born' = born /\ Types'
      /\ Len(todo) > 1 => todo' # <<>> /\ op' = op /\ before' = before
      /\ Len(todo) = 1 => todo' = <<>> /\ op' = NULL
  BY <1>5, <1>6, WriteStep
<1>8. DOMAIN todo' = 1 .. Len(todo) - 1
  <2>1. todo' \in Seq(Range(todo'))
    BY <1>7 DEF Types
  <2>2. PICK q, T : q = todo' /\ T = Range(q)
    OBVIOUS
  <2>3. q \in Seq(T) /\ Len(q) = Len(todo) - 1
    BY <1>7, <2>1, <2>2
  <2>4. DOMAIN q = 1 .. Len(q)
    BY <2>3
  <2> QED
    BY <2>2, <2>3, <2>4
<1>9. /\ SystemOK' /\ Marked' = Marked /\ Active' = Active
      /\ \A j \in Slot : disk'[DirAt[j]] = disk[DirAt[j]]
      /\ \A j \in Active : s \notin Foot(j) => Intact(j)
  BY <1>6, <1>7, WriteOutside
<1>10. \A j \in Active : j # i => Intact(j) /\ NameAt(j) # n
  BY <1>2, <1>6, <1>9 DEF FilesOK
<1>11. SameAt(i)
  BY <1>3, <1>6, <1>7, <1>9 DEF SameAt
<1>12. Active \subseteq Slot /\ \A j \in Active : SameAt(j) /\ NameAt(j)' = NameAt(j)
  BY <1>10, <1>11, IntactSame, Same DEF Active
<1>13. FilesOK' /\ OpenOK' /\ Occupied' = Occupied
  <2>1. FilesOK'
    BY <1>7, <1>9, <1>12, FilesKept
  <2>2. OpenOK'
    BY <1>7, <1>9, <1>12, OpenKept
  <2> QED
    BY <1>9, <1>12, <2>1, <2>2, OccupiedSame
<1>14. ASSUME NEW m \in Name \ {n} PROVE Settled(m)'
  <2>1. Settled(m) /\ \A j \in Active : NameAt(j) = m => j \in Active' /\ Intact(j)
    BY <1>2, <1>9, <1>10
  <2> QED
    BY <1>7, <1>9, <1>12, <2>1, SettledKept
<1>15. /\ NameAt(i)' = n /\ SectorsAt(i)' = ds /\ (disk[HeadAt(i)])' = hc /\ i \in Active'
       /\ files'[n] = new /\ born'[n] = FetchFrom(hc, -1, -1)
  BY <1>1, <1>2, <1>7, <1>9, <1>11, <1>3, Same
<1>16. ASSUME NEW k \in DOMAIN ds
       PROVE  /\ Pending(ds[k])' <=> Pending(ds[k]) /\ k # k0
              /\ disk'[ds[k]] = IF k = k0 THEN c ELSE disk[ds[k]]
  <2>1. k # k0 => ds[k] # s /\ ds[k] \in Sector
    BY <1>3, <1>5 DEF IsInjective, Range
  <2>2. disk'[ds[k]] = IF k = k0 THEN c ELSE disk[ds[k]]
    BY <1>5, <1>7, <2>1
  <2>3. todo[1].sector = s
    BY <1>5 DEF Write
  <2>4. ASSUME Pending(ds[k])' PROVE Pending(ds[k]) /\ k # k0
    <3>1. PICK x \in 1 .. Len(todo) - 1 : todo'[x].sector = ds[k]
      BY <1>8, <2>4 DEF Pending
    <3>2. x + 1 \in DOMAIN todo /\ x + 1 # 1 /\ todo[x + 1].sector = ds[k]
      BY <1>4, <1>7, <3>1
    <3> QED
      BY <1>2, <1>4, <1>5, <2>3, <3>2 DEF Pending
  <2>5. ASSUME Pending(ds[k]), k # k0 PROVE Pending(ds[k])'
    <3>1. PICK x \in DOMAIN todo : todo[x].sector = ds[k]
      BY <2>5 DEF Pending
    <3>2. x # 1
      BY <2>1, <2>3, <2>5, <3>1
    <3>3. x - 1 \in 1 .. Len(todo) - 1 /\ (x - 1) + 1 = x
      BY <1>4, <3>2
    <3>4. todo'[x - 1] = todo[x]
      BY <1>7, <3>3
    <3> QED
      BY <1>8, <3>1, <3>3, <3>4 DEF Pending
  <2> QED
    BY <2>2, <2>4, <2>5
<1>17. ASSUME NEW k \in DOMAIN ds
       PROVE  SectorHolds(disk'[ds[k]], k, IF Pending(ds[k])' THEN old ELSE new)
  <2>1. CASE k = k0
    BY <1>5, <1>16, <2>1
  <2>2. CASE k # k0
    <3>1. disk'[ds[k]] = disk[ds[k]] /\ (Pending(ds[k])' <=> Pending(ds[k]))
      BY <1>16, <2>2
    <3> QED
      BY <1>2, <3>1
  <2> QED
    BY <2>1, <2>2
<1>18. CASE Len(todo) = 1
  <2>1. todo' = <<>> /\ op' = NULL /\ Marked' = Occupied'
    BY <1>2, <1>7, <1>9, <1>13, <1>18
  <2>2. \A k \in DOMAIN ds : ~Pending(ds[k])'
    BY <1>8, <1>18 DEF Pending
  <2>3. \A k \in DOMAIN ds : SectorHolds(disk'[ds[k]], k, new)
    BY <1>17, <2>2
  <2>4. Holds(i, files[n])'
    BY <1>2, <1>15, <2>3 DEF Holds
  <2>5. new # NULL
    BY <1>2, FileSystemAssumption
  <2>6. (born[n] = FetchFrom(disk[HeadAt(i)], -1, -1))'
    BY <1>15
  <2>7. Settled(n)'
    BY <1>15, <2>4, <2>5, <2>6 DEF Settled
  <2>8. \A m \in Name : Settled(m)'
    BY <1>14, <2>7
  <2> QED
    BY <1>7, <1>9, <1>13, <2>1, <2>8 DEF FSInv
<1>19. CASE Len(todo) # 1
  <2>1. todo' # <<>> /\ op' = n /\ before' = before /\ Marked' = Occupied'
    BY <1>2, <1>4, <1>7, <1>9, <1>13, <1>19
  <2>2. before'[n] = old
    BY <1>1, <2>1
  <2>3. ASSUME NEW x \in DOMAIN todo'
        PROVE  \E k \in DOMAIN ds : /\ todo'[x] = Write(ds[k], todo'[x].content)
                                    /\ SectorHolds(todo'[x].content, k, new)
    <3>1. x + 1 \in DOMAIN todo /\ todo'[x] = todo[x + 1]
      BY <1>4, <1>7, <1>8
    <3> QED
      BY <1>2, <3>1
  <2>4. ASSUME NEW x \in DOMAIN todo', NEW y \in DOMAIN todo', todo'[x].sector = todo'[y].sector
        PROVE  x = y
    <3>1. /\ x + 1 \in DOMAIN todo /\ todo'[x] = todo[x + 1]
          /\ y + 1 \in DOMAIN todo /\ todo'[y] = todo[y + 1]
      BY <1>4, <1>7, <1>8
    <3>2. x + 1 = y + 1
      BY <1>2, <2>4, <3>1
    <3> QED
      BY <1>4, <1>8, <3>2
  <2>5. (born[n] = FetchFrom(disk[HeadAt(i)], -1, -1))'
    BY <1>15
  <2>6. Filling(op, i)'
    BY <1>2, <1>15, <1>17, <2>1, <2>2, <2>3, <2>4, <2>5 DEF Filling
  <2>7. Writing'
    BY <1>15, <2>6 DEF Writing
  <2> QED
    BY <1>7, <1>9, <1>13, <1>14, <2>1, <2>7 DEF FSInv
<1> QED
  BY <1>18, <1>19

-----------------------------------------------------------------------------
(* The writes of FileSystem(TRUE) *)

LEMMA Concat ==
  ASSUME NEW T, NEW a \in Seq(T), NEW b \in Seq(T)
  PROVE  /\ a \o b \in Seq(T) /\ Len(a \o b) = Len(a) + Len(b)
         /\ \A i \in 1 .. Len(a) : (a \o b)[i] = a[i]
         /\ \A i \in 1 .. Len(b) : (a \o b)[Len(a) + i] = b[i]
<1>1. a \o b \in Seq(T) /\ Len(a \o b) = Len(a) + Len(b) /\ Len(a) \in Nat /\ Len(b) \in Nat
  OBVIOUS
<1>2. \A i \in 1 .. Len(a) + Len(b) : (a \o b)[i] = IF i <= Len(a) THEN a[i] ELSE b[i - Len(a)]
  BY <1>1
<1>3. ASSUME NEW i \in 1 .. Len(a) PROVE (a \o b)[i] = a[i]
  BY <1>1, <1>2
<1>4. ASSUME NEW i \in 1 .. Len(b) PROVE (a \o b)[Len(a) + i] = b[i]
  <2>1. Len(a) + i \in 1 .. Len(a) + Len(b) /\ ~(Len(a) + i <= Len(a)) /\ (Len(a) + i) - Len(a) = i
    BY <1>1
  <2> QED
    BY <1>2, <2>1
<1> QED
  BY <1>1, <1>3, <1>4

LEMMA FormatWrites ==
  LET D == NumDirEntries
  IN /\ Format \in Seq(Range(Format)) /\ Len(Format) = 2 * D + 4
     /\ Format[1] = Write(MapAt, Zero)
     /\ \A i \in Slot : Format[1 + i] = Write(DirAt[i], Zero)
     /\ Format[D + 2] = Write(FreeMapSector, WriteBack(NewHeader(mapUsed, MapBytes)))
     /\ Format[D + 3] = Write(DirectorySector, WriteBack(NewHeader(dirUsed, DirBytes)))
     /\ Format[D + 4] = Write(MapAt, Map(Reserved))
     /\ \A i \in Slot : Format[D + 4 + i] = Write(DirAt[i], Entry(FALSE, NULL, -1))
     /\ \A x \in 1 .. 2 * D + 4 : \E s \in Sector : \E c : Format[x] = Write(s, c)
<1> DEFINE D == NumDirEntries
           w0 == Write(FreeMapSector, WriteBack(NewHeader(mapUsed, MapBytes)))
           w1 == Write(DirectorySector, WriteBack(NewHeader(dirUsed, DirBytes)))
           wm == Write(MapAt, Map(Reserved))
           wz(i) == Write(DirAt[i], Zero)
           we(i) == Write(DirAt[i], Entry(FALSE, NULL, -1))
           z0 == Write(MapAt, Zero)
           T == {w0, w1, wm, z0} \cup {wz(i) : i \in 1 .. D} \cup {we(i) : i \in 1 .. D}
           a == <<z0>>
           b == [i \in 1 .. D |-> wz(i)]
           c == <<w0, w1>>
           d == <<wm>>
           f == [i \in 1 .. D |-> we(i)]
<1>1. D \in Nat /\ Slot = 1 .. D
  BY Layout DEF Slot
<1>2. ClearSector(<<MapAt>>) = a
  BY DEF ClearSector
<1>3. ClearSector(DirAt) = b
  BY Layout DEF ClearSector, Slot
<1>4. Format = a \o b \o c \o d \o f
  BY <1>2, <1>3, Layout, Zenon DEF Format
<1>5. /\ w0 \in T /\ w1 \in T /\ wm \in T /\ z0 \in T
      /\ \A i \in 1 .. D : wz(i) \in T /\ we(i) \in T
  OBVIOUS
<1>21. \A t \in T : \E s \in Sector : \E c1 : t = Write(s, c1)
  <2>1. /\ FreeMapSector \in Sector /\ DirectorySector \in Sector /\ MapAt \in Sector
        /\ \A i \in 1 .. D : DirAt[i] \in Sector
    BY Layout DEF Slot
  <2> QED
    BY <2>1, Zenon
<1> HIDE DEF w0, w1, wm, wz, we, z0, T
<1>6. a \in Seq(T) /\ Len(a) = 1 /\ a[1] = z0
  BY <1>5
<1>7. b \in Seq(T) /\ Len(b) = D /\ \A i \in 1 .. D : b[i] = wz(i)
  BY <1>1, <1>5
<1>8. c \in Seq(T) /\ Len(c) = 2 /\ c[1] = w0 /\ c[2] = w1
  BY <1>5
<1>9. d \in Seq(T) /\ Len(d) = 1 /\ d[1] = wm
  BY <1>5
<1>10. f \in Seq(T) /\ Len(f) = D /\ \A i \in 1 .. D : f[i] = we(i)
  BY <1>1, <1>5
<1> DEFINE ab == a \o b
           abc == ab \o c
           abcd == abc \o d
           all == abcd \o f
<1> HIDE DEF a, b, c, d, f, D
<1>11. /\ ab \in Seq(T) /\ Len(ab) = 1 + D /\ ab[1] = z0
       /\ \A i \in 1 .. D : ab[1 + i] = wz(i)
  <2>t. a \in Seq(T) /\ b \in Seq(T)
    BY <1>6, <1>7
  <2>c. /\ ab \in Seq(T) /\ Len(ab) = Len(a) + Len(b)
        /\ \A i \in 1 .. Len(a) : ab[i] = a[i]
        /\ \A i \in 1 .. Len(b) : ab[Len(a) + i] = b[i]
    BY <2>t, Concat
  <2> HIDE DEF ab
  <2>1. 1 \in 1 .. 1
    OBVIOUS
  <2> QED
    BY <1>1, <1>6, <1>7, <2>1, <2>c DEF D
<1> HIDE DEF ab
<1>12. /\ abc \in Seq(T) /\ Len(abc) = 1 + D + 2 /\ \A i \in 1 .. 1 + D : abc[i] = ab[i]
       /\ abc[1 + D + 1] = w0 /\ abc[1 + D + 2] = w1
  <2>t. ab \in Seq(T) /\ c \in Seq(T)
    BY <1>8, <1>11
  <2>c. /\ abc \in Seq(T) /\ Len(abc) = Len(ab) + Len(c)
        /\ \A i \in 1 .. Len(ab) : abc[i] = ab[i]
        /\ \A i \in 1 .. Len(c) : abc[Len(ab) + i] = c[i]
    BY <2>t, Concat
  <2> HIDE DEF abc
  <2>1. 1 \in 1 .. 2 /\ 2 \in 1 .. 2
    OBVIOUS
  <2> QED
    BY <1>8, <1>11, <2>1, <2>c
<1> HIDE DEF abc
<1>13. /\ abcd \in Seq(T) /\ Len(abcd) = 1 + D + 2 + 1 /\ \A i \in 1 .. 1 + D + 2 : abcd[i] = abc[i]
       /\ abcd[1 + D + 2 + 1] = wm
  <2>t. abc \in Seq(T) /\ d \in Seq(T)
    BY <1>9, <1>12
  <2>c. /\ abcd \in Seq(T) /\ Len(abcd) = Len(abc) + Len(d)
        /\ \A i \in 1 .. Len(abc) : abcd[i] = abc[i]
        /\ \A i \in 1 .. Len(d) : abcd[Len(abc) + i] = d[i]
    BY <2>t, Concat
  <2> HIDE DEF abcd
  <2>1. 1 \in 1 .. 1
    OBVIOUS
  <2> QED
    BY <1>9, <1>12, <2>1, <2>c
<1> HIDE DEF abcd
<1>14. /\ all \in Seq(T) /\ Len(all) = 1 + D + 2 + 1 + D
       /\ \A i \in 1 .. 1 + D + 2 + 1 : all[i] = abcd[i]
       /\ \A i \in 1 .. D : all[(1 + D + 2 + 1) + i] = we(i)
  <2>t. abcd \in Seq(T) /\ f \in Seq(T)
    BY <1>10, <1>13
  <2>c. /\ all \in Seq(T) /\ Len(all) = Len(abcd) + Len(f)
        /\ \A i \in 1 .. Len(abcd) : all[i] = abcd[i]
        /\ \A i \in 1 .. Len(f) : all[Len(abcd) + i] = f[i]
    BY <2>t, Concat
  <2> HIDE DEF all
  <2> QED
    BY <1>10, <1>13, <2>c
<1>15. Format = all
  BY <1>4 DEF all, abcd, abc, ab
<1> HIDE DEF all
<1>16. all \in Seq(Range(all))
  BY <1>14 DEF Range
<1>17. Len(all) = 2 * D + 4
  BY <1>1, <1>14
<1>18. all[1] = z0 /\ \A i \in 1 .. D : all[1 + i] = wz(i)
  <2>1. /\ 1 \in 1 .. 1 + D /\ 1 \in 1 .. 1 + D + 2 /\ 1 \in 1 .. 1 + D + 2 + 1
        /\ \A i \in 1 .. D : /\ 1 + i \in 1 .. 1 + D /\ 1 + i \in 1 .. 1 + D + 2
                             /\ 1 + i \in 1 .. 1 + D + 2 + 1
    BY <1>1 DEF D
  <2> QED
    BY <1>11, <1>12, <1>13, <1>14, <2>1
<1>19. all[D + 2] = w0 /\ all[D + 3] = w1 /\ all[D + 4] = wm
  <2>1. /\ D + 2 = 1 + D + 1 /\ D + 3 = 1 + D + 2 /\ D + 4 = 1 + D + 2 + 1
        /\ D + 2 \in 1 .. 1 + D + 2 /\ D + 2 \in 1 .. 1 + D + 2 + 1
        /\ D + 3 \in 1 .. 1 + D + 2 /\ D + 3 \in 1 .. 1 + D + 2 + 1 /\ D + 4 \in 1 .. 1 + D + 2 + 1
    BY <1>1
  <2> QED
    BY <1>12, <1>13, <1>14, <2>1
<1>20. \A i \in 1 .. D : all[D + 4 + i] = we(i)
  <2>1. \A i \in 1 .. D : D + 4 + i = (1 + D + 2 + 1) + i
    BY <1>1
  <2> QED
    BY <1>14, <2>1
<1>22. \A x \in 1 .. 2 * D + 4 : \E s \in Sector : \E c1 : all[x] = Write(s, c1)
  <2>1. \A x \in 1 .. 2 * D + 4 : all[x] \in T
    BY <1>14, <1>17
  <2> QED
    BY <1>21, <2>1
<1> QED
  BY <1>1, <1>15, <1>16, <1>17, <1>18, <1>19, <1>20, <1>22 DEF D, w0, w1, wm, wz, we, z0

\* The next write of FileSystem(TRUE).
LEMMA FormatStep ==
  ASSUME NEW k \in 0 .. 2 * NumDirEntries + 3, NEW d, FormatDone(d, k), NEW s, NEW c,
         Format[k + 1] = Write(s, c),
         NEW d1, d1[s] = c, \A t \in Sector \ {s} : d1[t] = d[t]
  PROVE  s \in Sector /\ FormatDone(d1, k + 1)
<1> DEFINE D == NumDirEntries
           H0 == WriteBack(NewHeader(mapUsed, MapBytes))
           H1 == WriteBack(NewHeader(dirUsed, DirBytes))
           E0 == Entry(FALSE, NULL, -1)
           MR == Map(Reserved)
           Z == Zero
<1>1. D \in Nat /\ D >= 1 /\ Slot = 1 .. D /\ k \in Nat /\ k <= 2 * D + 3
  BY Layout DEF Slot
<1>2. /\ FreeMapSector \in Sector /\ DirectorySector \in Sector /\ MapAt \in Sector
      /\ FreeMapSector # DirectorySector /\ MapAt # FreeMapSector /\ MapAt # DirectorySector
      /\ \A i \in Slot : /\ DirAt[i] \in Sector /\ DirAt[i] # FreeMapSector
                         /\ DirAt[i] # DirectorySector /\ DirAt[i] # MapAt
      /\ \A i, j \in Slot : DirAt[i] = DirAt[j] => i = j
  BY Layout DEF mapUsed
<1>3. Z.kind = "data"
  BY DEF Zero
<1>4. /\ k >= D + 2 => d[FreeMapSector] = H0
      /\ IF k >= D + 3 THEN d[DirectorySector] = H1 ELSE d[DirectorySector].kind = "data"
      /\ k >= D + 4 => d[MapAt] = MR
      /\ \A i \in Slot : IF k >= D + 4 + i THEN d[DirAt[i]] = E0 ELSE d[DirAt[i]].kind = "data"
  BY DEF FormatDone
<1>5. \/ k = 0 /\ s = MapAt /\ c = Z
      \/ \E i \in Slot : k = i /\ s = DirAt[i] /\ c = Z
      \/ k = D + 1 /\ s = FreeMapSector /\ c = H0
      \/ k = D + 2 /\ s = DirectorySector /\ c = H1
      \/ k = D + 3 /\ s = MapAt /\ c = MR
      \/ \E i \in Slot : k = D + 3 + i /\ s = DirAt[i] /\ c = E0
  <2>0. \A s1, c1 : Write(s, c) = Write(s1, c1) => s = s1 /\ c = c1
    BY DEF Write
  <2>1. CASE k = 0
    <3>1. k + 1 = 1
      BY <2>1
    <3>2. Format[1] = Write(MapAt, Zero)
      BY FormatWrites
    <3> QED
      BY <2>0, <2>1, <3>1, <3>2
  <2>2. CASE k \in 1 .. D
    <3>1. k + 1 = 1 + k /\ k \in Slot
      BY <1>1, <2>2
    <3>2. Format[1 + k] = Write(DirAt[k], Zero)
      BY <3>1, FormatWrites
    <3> QED
      BY <2>0, <3>1, <3>2
  <2>3. CASE k = D + 1
    <3>1. k + 1 = D + 2
      BY <1>1, <2>3
    <3>2. Format[D + 2] = Write(FreeMapSector, H0)
      BY FormatWrites
    <3> QED
      BY <2>0, <2>3, <3>1, <3>2
  <2>4. CASE k = D + 2
    <3>1. k + 1 = D + 3
      BY <1>1, <2>4
    <3>2. Format[D + 3] = Write(DirectorySector, H1)
      BY FormatWrites
    <3> QED
      BY <2>0, <2>4, <3>1, <3>2
  <2>5. CASE k = D + 3
    <3>1. k + 1 = D + 4
      BY <1>1, <2>5
    <3>2. Format[D + 4] = Write(MapAt, MR)
      BY FormatWrites
    <3> QED
      BY <2>0, <2>5, <3>1, <3>2
  <2>6. CASE k >= D + 4
    <3>1. PICK i \in Slot : k = D + 3 + i /\ k + 1 = D + 4 + i
      <4>1. k - (D + 3) \in Slot /\ k = D + 3 + (k - (D + 3)) /\ k + 1 = D + 4 + (k - (D + 3))
        BY <1>1, <2>6
      <4> QED
        BY <4>1
    <3>2. Format[D + 4 + i] = Write(DirAt[i], E0)
      BY FormatWrites
    <3> QED
      BY <2>0, <3>1, <3>2
  <2>7. k = 0 \/ k \in 1 .. D \/ k = D + 1 \/ k = D + 2 \/ k = D + 3 \/ k >= D + 4
    BY <1>1
  <2> QED
    BY <2>1, <2>2, <2>3, <2>4, <2>5, <2>6, <2>7
<1>6. s \in Sector
  BY <1>2, <1>5
<1> DEFINE m == k + 1
           Goal == /\ m >= D + 2 => d1[FreeMapSector] = H0
                   /\ IF m >= D + 3 THEN d1[DirectorySector] = H1 ELSE d1[DirectorySector].kind = "data"
                   /\ m >= D + 4 => d1[MapAt] = MR
                   /\ \A i \in Slot : IF m >= D + 4 + i THEN d1[DirAt[i]] = E0
                                      ELSE d1[DirAt[i]].kind = "data"
<1> HIDE DEF H0, H1, E0, MR, Z, D
<1>7. ASSUME k = 0 /\ s = MapAt /\ c = Z PROVE Goal
  BY <1>1, <1>2, <1>4, <1>7
<1>8. ASSUME NEW i \in Slot, k = i /\ s = DirAt[i] /\ c = Z PROVE Goal
  BY <1>1, <1>2, <1>3, <1>4, <1>8
<1>9. ASSUME k = D + 1 /\ s = FreeMapSector /\ c = H0 PROVE Goal
  BY <1>1, <1>2, <1>4, <1>9
<1>10. ASSUME k = D + 2 /\ s = DirectorySector /\ c = H1 PROVE Goal
  BY <1>1, <1>2, <1>4, <1>10
<1>11. ASSUME k = D + 3 /\ s = MapAt /\ c = MR PROVE Goal
  BY <1>1, <1>2, <1>4, <1>11
<1>12. ASSUME NEW i \in Slot, k = D + 3 + i /\ s = DirAt[i] /\ c = E0 PROVE Goal
  BY <1>1, <1>2, <1>4, <1>12
<1>13. Goal
  BY <1>5, <1>7, <1>8, <1>9, <1>10, <1>11, <1>12
<1> QED
  BY <1>6, <1>13 DEF FormatDone, H0, H1, E0, MR, D

LEMMA FormatSector ==
  ASSUME Types, Formatting, WriteSector
  PROVE  FSInv'
<1> DEFINE D == NumDirEntries
<1>1. PICK k \in 0 .. 2 * D + 3 :
        /\ Len(todo) = 2 * D + 4 - k /\ \A x \in 1 .. Len(todo) : todo[x] = Format[k + x]
        /\ FormatDone(disk, k)
        /\ \A n \in Name : files[n] = NULL /\ born[n] = NULL /\ open[n] = NULL
        /\ op = NULL
  BY DEF Formatting
<1>2. D \in Nat /\ D >= 1 /\ Slot = 1 .. D
  BY Layout DEF Slot
<1>3. k \in Nat /\ k <= 2 * D + 3 /\ 1 \in 1 .. Len(todo) /\ k + 1 \in 1 .. 2 * D + 4
  BY <1>1, <1>2
<1>4. PICK s, c : s \in Sector /\ Format[k + 1] = Write(s, c)
  BY <1>3, FormatWrites
<1>5. todo[1] = Write(s, c)
  BY <1>1, <1>3, <1>4
<1>6. /\ disk'[s] = c /\ \A t \in Sector \ {s} : disk'[t] = disk[t]
      /\ Len(todo') = Len(todo) - 1 /\ \A x \in 1 .. Len(todo) - 1 : todo'[x] = todo[x + 1]
      /\ open' = open /\ files' = files /\ born' = born /\ Types'
      /\ Len(todo) > 1 => op' = op
      /\ Len(todo) = 1 => todo' = <<>> /\ op' = NULL
  BY <1>4, <1>5, WriteStep
<1>7. FormatDone(disk', k + 1)
  <2>1. PICK d, d1 : d = disk /\ d1 = disk'
    OBVIOUS
  <2>2. FormatDone(d, k) /\ d1[s] = c /\ \A t \in Sector \ {s} : d1[t] = d[t]
    BY <1>1, <1>6, <2>1
  <2>3. FormatDone(d1, k + 1)
    BY <1>4, <2>2, FormatStep
  <2> QED
    BY <2>1, <2>3
<1>8. \A n \in Name : files'[n] = NULL /\ born'[n] = NULL /\ open'[n] = NULL
  BY <1>1, <1>6
<1>9. CASE k # 2 * D + 3
  <2> DEFINE m == k + 1
  <2>1. m \in 0 .. 2 * D + 3 /\ Len(todo) > 1 /\ Len(todo') = 2 * D + 4 - m
    <3> HIDE DEF D
    <3>1. Len(todo) = 2 * D + 4 - k /\ Len(todo') = Len(todo) - 1
      BY <1>1, <1>6
    <3>2. D \in Nat /\ k \in Nat /\ k <= 2 * D + 3
      BY <1>2, <1>3
    <3> QED
      BY <1>9, <3>1, <3>2
  <2>2. ASSUME NEW x \in 1 .. Len(todo') PROVE todo'[x] = Format[m + x]
    <3>1. x \in 1 .. Len(todo) - 1 /\ x + 1 \in 1 .. Len(todo) /\ k + (x + 1) = m + x
      BY <1>1, <1>2, <1>3, <1>6
    <3> QED
      BY <1>1, <1>6, <3>1
  <2>3. FormatDone(disk', m) /\ op' = NULL
    BY <1>1, <1>6, <1>7, <2>1
  <2> HIDE DEF m
  <2>4. Formatting'
    BY <1>8, <2>1, <2>2, <2>3 DEF Formatting
  <2> QED
    BY <1>6, <2>4 DEF FSInv
<1>10. CASE k = 2 * D + 3
  <2>1. Len(todo) = 1 /\ k + 1 >= D + 2 /\ k + 1 >= D + 3 /\ k + 1 >= D + 4
        /\ \A i \in Slot : k + 1 >= D + 4 + i
    BY <1>1, <1>2, <1>10
  <2>2. /\ disk'[FreeMapSector] = WriteBack(NewHeader(mapUsed, MapBytes))
        /\ disk'[DirectorySector] = WriteBack(NewHeader(dirUsed, DirBytes))
        /\ disk'[MapAt] = Map(Reserved)
        /\ \A i \in Slot : disk'[DirAt[i]] = Entry(FALSE, NULL, -1)
    BY <1>7, <2>1 DEF FormatDone
  <2>3. Marked' = Reserved
    BY <2>2 DEF Marked, Map
  <2>4. Active' = {}
    BY <2>2 DEF Active, Entry
  <2>5. Occupied' = Reserved
    BY <2>4 DEF Occupied
  <2>6. SystemOK'
    <3>1. ASSUME NEW i \in Slot
          PROVE  (/\ disk[DirAt[i]] = Entry(disk[DirAt[i]].inUse, NameAt(i), HeadAt(i))
                  /\ disk[DirAt[i]].inUse \in BOOLEAN)'
      <4>1. disk'[DirAt[i]] = Entry(FALSE, NULL, -1)
        BY <2>2
      <4>2. disk'[DirAt[i]].inUse = FALSE /\ NameAt(i)' = NULL /\ HeadAt(i)' = -1
        BY <4>1 DEF Entry, NameAt, HeadAt
      <4> QED
        BY <4>1, <4>2, Zenon
    <3> QED
      BY <2>2, <2>3, <3>1 DEF SystemOK
  <2>7. FilesOK' /\ OpenOK' /\ \A n \in Name : Settled(n)'
    BY <1>8, <2>4 DEF FilesOK, OpenOK, Settled
  <2> QED
    BY <1>6, <2>1, <2>3, <2>5, <2>6, <2>7 DEF FSInv
<1> QED
  BY <1>9, <1>10

LEMMA InitFSInv ==
  ASSUME Init
  PROVE  FSInv
<1> DEFINE D == NumDirEntries
<1>1. D \in Nat /\ D >= 1 /\ Slot = 1 .. D
  BY Layout DEF Slot
<1>2. todo = Format /\ Format \in Seq(Range(Format)) /\ Len(Format) = 2 * D + 4
  BY FormatWrites DEF Init
<1>3. Types
  BY <1>2 DEF Init, Types
<1>4. FormatDone(disk, 0)
  <2>1. /\ ~(0 >= D + 2) /\ ~(0 >= D + 3) /\ ~(0 >= D + 4) /\ \A i \in Slot : ~(0 >= D + 4 + i)
    BY <1>1
  <2>2. Zero.kind = "data"
    BY DEF Zero
  <2>3. disk[DirectorySector] = Zero /\ \A i \in Slot : disk[DirAt[i]] = Zero
    BY Layout DEF Init
  <2> QED
    BY <2>1, <2>2, <2>3 DEF FormatDone
<1>5. 0 \in 0 .. 2 * D + 3 /\ Len(todo) = 2 * D + 4 - 0 /\ \A x \in 1 .. Len(todo) : 0 + x = x
  BY <1>1, <1>2
<1>6. \A x \in 1 .. Len(todo) : todo[x] = Format[0 + x]
  BY <1>2, <1>5
<1>7. \A n \in Name : files[n] = NULL /\ born[n] = NULL /\ open[n] = NULL
  BY DEF Init
<1>8. op = NULL
  BY DEF Init
<1>9. Formatting
  BY <1>4, <1>5, <1>6, <1>7, <1>8 DEF Formatting
<1> QED
  BY <1>3, <1>9 DEF FSInv

-----------------------------------------------------------------------------
(* Between the operations *)

LEMMA Idle ==
  ASSUME FSInv, todo = <<>>
  PROVE  /\ Types /\ SystemOK /\ FilesOK /\ OpenOK /\ op = NULL /\ Marked = Occupied
         /\ \A n \in Name : Settled(n)
<1>1. ~Formatting
  <2>1. Len(todo) = 0
    BY EmptySeq
  <2>2. NumDirEntries \in Nat
    BY Layout
  <2>3. \A k \in 0 .. 2 * NumDirEntries + 3 : Len(todo) # 2 * NumDirEntries + 4 - k
    BY <2>1, <2>2
  <2> QED
    BY <2>3 DEF Formatting
<1>2. /\ SystemOK /\ FilesOK /\ OpenOK /\ \A n \in Name \ {op} : Settled(n)
      /\ op = NULL /\ Marked = Occupied
  BY <1>1 DEF FSInv
<1>3. NULL \notin Name
  BY FileSystemAssumption
<1> QED
  BY <1>2, <1>3 DEF FSInv

\* A step that leaves the disk, and the headers and contents of the files in N.
LEMMA DiskSame ==
  ASSUME disk' = disk, SystemOK, FilesOK, NEW N \in SUBSET Name, \A n \in N : Settled(n),
         \A n \in N : files'[n] = files[n] /\ born'[n] = born[n],
         \A n \in Name : born'[n] \in {NULL, born[n]} \/ \A i \in Active : NameAt(i) # n
  PROVE  /\ SystemOK' /\ Marked' = Marked /\ Active' = Active /\ Occupied' = Occupied
         /\ FilesOK' /\ \A n \in N : Settled(n)'
         /\ \A i \in Active : /\ i \in Slot /\ SameAt(i) /\ NameAt(i)' = NameAt(i)
                              /\ HeadAt(i)' = HeadAt(i) /\ Foot(i)' = Foot(i)
         /\ \A i \in Active : \A b : Holds(i, b) => Holds(i, b)'
<1>1. SystemOK' /\ Marked' = Marked /\ Active' = Active /\ \A i \in Active : Intact(i)
  BY Unwritten
<1>2. Active \subseteq Slot
  BY DEF Active
<1>3. \A i \in Active : i \in Slot /\ SameAt(i) /\ \A b : Holds(i, b) => Holds(i, b)'
  BY <1>1, <1>2, IntactSame
<1>4. \A i \in Active : NameAt(i)' = NameAt(i) /\ HeadAt(i)' = HeadAt(i) /\ Foot(i)' = Foot(i)
  BY <1>3, Same
<1>5. FilesOK'
  <2>1. \A i \in Active : NameAt(i) \in Name
    BY DEF FilesOK
  <2>2. \A i \in Active' : born'[NameAt(i)] \in {NULL, born[NameAt(i)]}
    BY <1>1, <2>1
  <2> QED
    BY <1>1, <1>3, <2>2, FilesKept
<1>6. ASSUME NEW n \in N PROVE Settled(n)'
  BY <1>1, <1>2, <1>4, SettledKept
<1>7. Occupied' = Occupied
  BY <1>1, <1>3, OccupiedSame
<1> QED
  BY <1>1, <1>3, <1>4, <1>5, <1>6, <1>7

\* The steps that only change the open files.
LEMMA OpenStep ==
  ASSUME FSInv, todo = <<>>, UNCHANGED <<disk, todo, histVars>>,
         open' = [n \in Name |-> open'[n]], NEW m,
         \A n \in Name : open'[n] \in {NULL, open[n]} \/ n = m,
         \/ m \notin Name \/ open'[m] = NULL
         \/ /\ \E i \in Active : /\ NameAt(i) = m
                                 /\ \E l1, l2 \in Leftover :
                                      open'[m].hdr = FetchFrom(disk[HeadAt(i)], l1, l2)
            /\ open'[m] = [hdr |-> open'[m].hdr, seekPosition |-> open'[m].seekPosition]
            /\ open'[m].seekPosition \in Nat
  PROVE  FSInv'
<1>1. /\ Types /\ SystemOK /\ FilesOK /\ OpenOK /\ op = NULL /\ Marked = Occupied
      /\ \A n \in Name : Settled(n)
  BY Idle
<1>2. /\ disk' = disk /\ todo' = todo /\ op' = op /\ files' = files /\ before' = before /\ born' = born
  BY DEF histVars
<1>3. /\ SystemOK' /\ Marked' = Marked /\ Active' = Active /\ Occupied' = Occupied
      /\ FilesOK' /\ \A n \in Name : Settled(n)'
      /\ \A i \in Active : NameAt(i)' = NameAt(i) /\ SameAt(i) /\ i \in Slot
  <2>1. Name \in SUBSET Name
    OBVIOUS
  <2> QED
    BY <1>1, <1>2, <2>1, DiskSame
<1>4. Types'
  BY <1>1, <1>2 DEF Types
<1>5. OpenOK'
  <2>1. SUFFICES ASSUME NEW n \in Name, open'[n] # NULL
                 PROVE  (/\ \E i \in Active :
                              /\ NameAt(i) = n /\ born[n] = FetchFrom(disk[HeadAt(i)], -1, -1)
                              /\ \E l1, l2 \in Leftover :
                                   open[n].hdr = FetchFrom(disk[HeadAt(i)], l1, l2)
                         /\ open[n] = [hdr |-> open[n].hdr, seekPosition |-> open[n].seekPosition]
                         /\ open[n].seekPosition \in Nat)'
    BY DEF OpenOK
  <2>2. /\ \E i \in Active : /\ NameAt(i) = n
                             /\ \E l1, l2 \in Leftover :
                                  open'[n].hdr = FetchFrom(disk[HeadAt(i)], l1, l2)
        /\ open'[n] = [hdr |-> open'[n].hdr, seekPosition |-> open'[n].seekPosition]
        /\ open'[n].seekPosition \in Nat
    <3>1. CASE n = m
      BY <2>1, <3>1
    <3>2. CASE n # m
      <4>1. open'[n] = open[n] /\ open[n] # NULL
        BY <2>1, <3>2
      <4>2. /\ \E i \in Active : /\ NameAt(i) = n
                                 /\ \E l1, l2 \in Leftover :
                                      open[n].hdr = FetchFrom(disk[HeadAt(i)], l1, l2)
            /\ open[n] = [hdr |-> open[n].hdr, seekPosition |-> open[n].seekPosition]
            /\ open[n].seekPosition \in Nat
        BY <1>1, <4>1 DEF OpenOK
      <4> QED
        BY <4>1, <4>2
    <3> QED
      BY <3>1, <3>2
  <2>3. PICK i \in Active : /\ NameAt(i) = n
                            /\ \E l1, l2 \in Leftover :
                                 open'[n].hdr = FetchFrom(disk[HeadAt(i)], l1, l2)
    BY <2>2
  <2>4. born[n] = FetchFrom(disk[HeadAt(i)], -1, -1)
    <3>1. PICK j \in Active : NameAt(j) = n /\ born[n] = FetchFrom(disk[HeadAt(j)], -1, -1)
      BY <1>1, <2>3 DEF Settled
    <3>2. i = j
      BY <1>1, <2>3, <3>1 DEF FilesOK
    <3> QED
      BY <3>1, <3>2
  <2>5. i \in Active' /\ NameAt(i)' = n /\ (disk[HeadAt(i)])' = disk[HeadAt(i)] /\ born'[n] = born[n]
    BY <1>2, <1>3, <2>3, Same
  <2>6. (born[n] = FetchFrom(disk[HeadAt(i)], -1, -1))'
    BY <2>4, <2>5 DEF FetchFrom
  <2>7. (\E l1, l2 \in Leftover : open[n].hdr = FetchFrom(disk[HeadAt(i)], l1, l2))'
    BY <2>3, <2>5 DEF FetchFrom
  <2> QED
    BY <2>2, <2>5, <2>6, <2>7
<1> QED
  BY <1>1, <1>2, <1>3, <1>4, <1>5 DEF FSInv

LEMMA TransferType ==
  ASSUME NEW h, h.numBytes \in Nat, NEW len \in Nat, NEW position \in Nat
  PROVE  /\ Transfer(h, len, position) \in 0 .. len
         /\ Transfer(h, len, position) # 0 => position + Transfer(h, len, position) <= h.numBytes
  BY DEF Transfer, Least

LEMMA MaxLenType == MaxLen \in Nat
<1> DEFINE S == {Len(d) : d \in Data}
<1>1. Data \subseteq Seq(Byte)
  BY FileSystemAssumption
<1>2. \A d \in Data : Len(d) \in Nat
  BY <1>1
<1>3. \E m \in S : \A d \in Data : Len(d) <= m
  BY LongestData
<1>4. MaxLen \in S
  BY <1>3 DEF MaxLen
<1> QED
  BY <1>2, <1>4

LEMMA OpenInv ==
  ASSUME FSInv, NEW n \in Name, Open(n) \/ Close(n) \/ ReadFile(n, MaxLen)
                                \/ \E position \in Position : Seek(n, position)
  PROVE  FSInv'
<1>1. todo = <<>> /\ UNCHANGED <<disk, todo, histVars>>
  BY DEF Open, Close, ReadFile, Seek, Ready
<1>2. /\ Types /\ SystemOK /\ FilesOK /\ OpenOK
  BY <1>1, Idle
<1>3. open = [m \in Name |-> open[m]]
  BY <1>2 DEF Types
<1>4. CASE Open(n)
  <2>1. PICK l1 \in Leftover, l2 \in Leftover :
          open' = [open EXCEPT ![n] = [hdr |-> FetchFrom(disk[HeaderSector(n)], l1, l2),
                                       seekPosition |-> 0]]
    BY <1>4 DEF Open
  <2>2. PICK i \in Active : NameAt(i) = n /\ HeaderSector(n) = HeadAt(i)
    BY <1>2, <1>4, FoundAt DEF Open
  <2>3. PICK h : h = FetchFrom(disk[HeadAt(i)], l1, l2)
    OBVIOUS
  <2>4. open' = [open EXCEPT ![n] = [hdr |-> h, seekPosition |-> 0]]
    BY <2>1, <2>2, <2>3
  <2>5. open' = [m \in Name |-> open'[m]] /\ \A m \in Name : open'[m] \in {NULL, open[m]} \/ m = n
    BY <1>3, <2>4
  <2>6. open'[n].hdr = h /\ open'[n].seekPosition = 0
        /\ open'[n] = [hdr |-> open'[n].hdr, seekPosition |-> open'[n].seekPosition]
    BY <1>3, <2>4
  <2> QED
    BY <1>1, <2>2, <2>3, <2>5, <2>6, OpenStep
<1>5. CASE Close(n)
  <2>1. open' = [open EXCEPT ![n] = NULL]
    BY <1>5 DEF Close
  <2>2. /\ open' = [m \in Name |-> open'[m]] /\ open'[n] = NULL
        /\ \A m \in Name : open'[m] \in {NULL, open[m]} \/ m = n
    BY <1>3, <2>1
  <2> QED
    BY <1>1, <2>2, OpenStep
<1>6. ASSUME open[n] # NULL, NEW q \in Nat, open' = [open EXCEPT ![n].seekPosition = q]
      PROVE  FSInv'
  <2>1. open' = [m \in Name |-> open'[m]] /\ \A m \in Name : open'[m] \in {NULL, open[m]} \/ m = n
    BY <1>3, <1>6
  <2>2. /\ \E i \in Active : /\ NameAt(i) = n
                             /\ \E l1, l2 \in Leftover :
                                  open[n].hdr = FetchFrom(disk[HeadAt(i)], l1, l2)
        /\ open[n] = [hdr |-> open[n].hdr, seekPosition |-> open[n].seekPosition]
    BY <1>2, <1>6 DEF OpenOK
  <2>3. PICK h, z : open[n] = [hdr |-> h, seekPosition |-> z] /\ h = open[n].hdr
    BY <2>2
  <2>4. open'[n] = [hdr |-> h, seekPosition |-> q]
    BY <1>3, <1>6, <2>3
  <2>5. open'[n].hdr = h /\ open'[n].seekPosition = q
        /\ open'[n] = [hdr |-> open'[n].hdr, seekPosition |-> open'[n].seekPosition]
    BY <2>4
  <2> QED
    BY <1>1, <2>1, <2>2, <2>3, <2>5, OpenStep
<1>7. CASE ReadFile(n, MaxLen)
  <2>1. open[n] # NULL
        /\ open' = [open EXCEPT ![n].seekPosition =
             open[n].seekPosition + Len(ReadAt(disk, open[n].hdr, MaxLen, open[n].seekPosition))]
    BY <1>7 DEF ReadFile
  <2>2. PICK h, z, t : h = open[n].hdr /\ z = open[n].seekPosition /\ t = Transfer(h, MaxLen, z)
    OBVIOUS
  <2>3. z \in Nat /\ h.numBytes \in Nat
    <3>1. PICK i \in Active : \E l1, l2 \in Leftover : open[n].hdr = FetchFrom(disk[HeadAt(i)], l1, l2)
      BY <1>2, <2>1 DEF OpenOK
    <3>2. HeaderOK(disk[HeadAt(i)])
      BY <1>2 DEF FilesOK
    <3>3. h.numBytes = disk[HeadAt(i)].numBytes
      BY <2>2, <3>1 DEF FetchFrom
    <3> QED
      BY <1>2, <2>1, <2>2, <3>2, <3>3 DEF OpenOK, HeaderOK
  <2>4. t \in Nat
    BY <2>2, <2>3, MaxLenType, TransferType
  <2>5. Len(ReadAt(disk, h, MaxLen, z)) = t
    <3>1. PICK f, d : f = ReadAt(disk, h, MaxLen, z) /\ d = disk
      OBVIOUS
    <3>2. f = [i \in 1 .. t |-> ByteAt(d, h, z + i - 1)]
      BY <2>2, <3>1 DEF ReadAt
    <3> DEFINE B(i) == ByteAt(d, h, z + i - 1)
               V == {B(i) : i \in 1 .. t}
    <3>3. f = [i \in 1 .. t |-> B(i)] /\ \A i \in 1 .. t : B(i) \in V
      BY <3>2
    <3> HIDE DEF B, V
    <3>4. f \in Seq(V) /\ Len(f) = t
      BY <2>4, <3>3
    <3> QED
      BY <3>1, <3>4
  <2>6. PICK q \in Nat : q = z + t
    BY <2>3, <2>4
  <2>7. open' = [open EXCEPT ![n].seekPosition = q]
    BY <2>1, <2>2, <2>5, <2>6
  <2> QED
    BY <1>6, <2>1, <2>7
<1>8. ASSUME NEW position \in Position, Seek(n, position) PROVE FSInv'
  <2>1. position \in Nat /\ open[n] # NULL /\ open' = [open EXCEPT ![n].seekPosition = position]
    BY <1>8, FileSystemAssumption DEF Seek
  <2> QED
    BY <1>6, <2>1
<1> QED
  BY <1>4, <1>5, <1>7, <1>8

-----------------------------------------------------------------------------
(* Create *)

LEMMA Concat4 ==
  ASSUME NEW T, NEW a \in Seq(T), NEW b \in Seq(T), NEW c \in Seq(T), NEW d \in Seq(T),
         NEW q, q = a \o b \o c \o d
  PROVE  /\ q \in Seq(T) /\ Len(q) = Len(a) + Len(b) + Len(c) + Len(d)
         /\ \A i \in 1 .. Len(a) : q[i] = a[i]
         /\ \A i \in 1 .. Len(b) : q[Len(a) + i] = b[i]
         /\ \A i \in 1 .. Len(c) : q[Len(a) + Len(b) + i] = c[i]
         /\ \A i \in 1 .. Len(d) : q[Len(a) + Len(b) + Len(c) + i] = d[i]
<1> DEFINE ab == a \o b
           abc == ab \o c
<1>1. /\ ab \in Seq(T) /\ Len(ab) = Len(a) + Len(b)
      /\ \A i \in 1 .. Len(a) : ab[i] = a[i]
      /\ \A i \in 1 .. Len(b) : ab[Len(a) + i] = b[i]
  BY Concat
<1> HIDE DEF ab
<1>2. /\ abc \in Seq(T) /\ Len(abc) = Len(ab) + Len(c)
      /\ \A i \in 1 .. Len(ab) : abc[i] = ab[i]
      /\ \A i \in 1 .. Len(c) : abc[Len(ab) + i] = c[i]
  <2>1. ab \in Seq(T)
    BY <1>1
  <2> QED
    BY <2>1, Concat
<1> HIDE DEF abc
<1>3. q = abc \o d
  BY DEF ab, abc
<1>4. /\ q \in Seq(T) /\ Len(q) = Len(abc) + Len(d)
      /\ \A i \in 1 .. Len(abc) : q[i] = abc[i]
      /\ \A i \in 1 .. Len(d) : q[Len(abc) + i] = d[i]
  <2>1. abc \in Seq(T)
    BY <1>2
  <2> QED
    BY <1>3, <2>1, Concat
<1>5. Len(a) \in Nat /\ Len(b) \in Nat /\ Len(c) \in Nat /\ Len(d) \in Nat
  OBVIOUS
<1>6. ASSUME NEW i \in 1 .. Len(a) PROVE q[i] = a[i]
  <2>1. i \in 1 .. Len(ab) /\ i \in 1 .. Len(abc)
    BY <1>1, <1>2, <1>5
  <2> QED
    BY <1>1, <1>2, <1>4, <2>1
<1>7. ASSUME NEW i \in 1 .. Len(b) PROVE q[Len(a) + i] = b[i]
  <2>1. Len(a) + i \in 1 .. Len(ab) /\ Len(a) + i \in 1 .. Len(abc)
    BY <1>1, <1>2, <1>5
  <2> QED
    BY <1>1, <1>2, <1>4, <2>1
<1>8. ASSUME NEW i \in 1 .. Len(c) PROVE q[Len(a) + Len(b) + i] = c[i]
  <2>1. Len(a) + Len(b) + i \in 1 .. Len(abc) /\ Len(a) + Len(b) + i = Len(ab) + i
    BY <1>1, <1>2, <1>5
  <2> QED
    BY <1>2, <1>4, <2>1
<1>9. ASSUME NEW i \in 1 .. Len(d) PROVE q[Len(a) + Len(b) + Len(c) + i] = d[i]
  <2>1. Len(a) + Len(b) + Len(c) + i = Len(abc) + i
    BY <1>1, <1>2, <1>5
  <2> QED
    BY <1>4, <2>1
<1>10. Len(q) = Len(a) + Len(b) + Len(c) + Len(d)
  BY <1>1, <1>2, <1>4
<1> QED
  BY <1>4, <1>6, <1>7, <1>8, <1>9, <1>10

\* What Create finds in the free map: a sector for the header and as many as the
\* file needs, all of them free and different.
LEMMA CreateFinds ==
  ASSUME NEW map, NEW size \in Nat, NEW m, m = divRoundUp(size, SectorSize), m <= NumDirect,
         Clear(map) # {}, NEW used, used = map \cup Taken(map, 1), Fits(used, m)
  PROVE  \E sec \in Clear(map), ds \in Seq(Clear(map)) :
           /\ m \in Nat /\ Len(ds) = m /\ IsInjective(ds) /\ sec \notin Range(ds)
           /\ Find(map, 1)[1] = sec
           /\ used = map \cup {sec}
           /\ used \cup Taken(used, m) = map \cup ({sec} \cup Range(ds))
           /\ NewHeader(used, size) = [numBytes |-> size, numSectors |-> m, dataSectors |-> ds,
                                       L1Index |-> -1, L2Index |-> -1]
           /\ AllocateWrites(used, size) = ClearSector(ds)
<1>1. IsFiniteSet(Clear(map)) /\ NumClear(map) \in Nat /\ 1 <= NumClear(map)
  <2>1. IsFiniteSet(Clear(map)) /\ NumClear(map) \in Nat
    BY ClearFinite
  <2>2. NumClear(map) # 0
    BY <2>1, FS_EmptySet DEF NumClear
  <2> QED
    BY <2>1, <2>2
<1>2. 1 \in 0 .. NumDirect
  BY FileHeaderAssumption
<1>3. Needed(1) = 1
  BY <1>2, DirectNeeds
<1>4. Find(map, 1) \in Seq(Clear(map)) /\ Len(Find(map, 1)) = 1 /\ Taken(map, 1) = Range(Find(map, 1))
  BY <1>1, <1>3, FindSectors
<1> DEFINE sec == Find(map, 1)[1]
<1>5. sec \in Clear(map) /\ Taken(map, 1) = {sec}
  <2>1. PICK f : f = Find(map, 1)
    OBVIOUS
  <2>2. f \in Seq(Clear(map)) /\ Len(f) = 1
    BY <1>4, <2>1
  <2>3. f[1] \in Clear(map) /\ DOMAIN f = 1 .. 1 /\ \A i \in 1 .. 1 : i = 1
    BY <2>2
  <2>4. Range(f) = {f[1]}
    BY <2>3 DEF Range
  <2> QED
    BY <1>4, <2>1, <2>3, <2>4
<1>6. used = map \cup {sec}
  BY <1>5
<1> HIDE DEF sec
<1>7. m \in Nat /\ m \in 0 .. NumDirect
  BY RoundUp, FileHeaderAssumption
<1>8. Needed(m) = m
  BY <1>7, DirectNeeds
<1>9. m <= NumClear(used)
  <2>1. NumClear(used) \in Nat /\ ~(m > NumDirect + L1_INDEX_NUM)
    BY <1>7, ClearFinite, FileHeaderAssumption
  <2> QED
    BY <1>7, <1>8, <2>1 DEF Fits
<1> DEFINE ds == Find(used, m)
<1>10. /\ Taken(used, m) = Range(ds)
       /\ NewHeader(used, size) = [numBytes |-> size, numSectors |-> m, dataSectors |-> ds,
                                   L1Index |-> -1, L2Index |-> -1]
       /\ AllocateWrites(used, size) = ClearSector(ds)
  BY <1>9, DirectHeader
<1>11. ds \in Seq(Clear(used)) /\ Len(ds) = m /\ IsInjective(ds)
  BY <1>7, <1>9, FindSectors
<1> HIDE DEF ds
<1>12. Clear(used) \subseteq Clear(map) /\ sec \notin Clear(used)
  BY <1>6 DEF Clear
<1>13. ds \in Seq(Clear(map)) /\ sec \notin Range(ds)
  <2>1. ds = [i \in 1 .. m |-> ds[i]] /\ \A i \in 1 .. m : ds[i] \in Clear(used)
    BY <1>7, <1>11
  <2>2. \A i \in 1 .. m : ds[i] \in Clear(map) /\ ds[i] # sec
    BY <1>12, <2>1
  <2>3. DOMAIN ds = 1 .. m
    BY <2>1
  <2>4. sec \notin Range(ds)
    BY <2>2, <2>3 DEF Range
  <2>5. PICK C : C = Clear(map)
    OBVIOUS
  <2>6. ds \in Seq(C)
    BY <1>7, <2>1, <2>2, <2>5
  <2> QED
    BY <2>4, <2>5, <2>6
<1>14. used \cup Taken(used, m) = map \cup ({sec} \cup Range(ds))
  BY <1>6, <1>10
<1>15. Find(map, 1)[1] = sec
  BY DEF sec
<1> QED
  BY <1>5, <1>6, <1>7, <1>10, <1>11, <1>13, <1>14, <1>15

LEMMA CreateInv ==
  ASSUME FSInv, DirectFiles, NEW n \in Name, NEW size \in Size, Create(n, size)
  PROVE  FSInv'
<1> DEFINE D == NumDirEntries
<1>1. /\ Types /\ SystemOK /\ FilesOK /\ OpenOK /\ op = NULL /\ Marked = Occupied
      /\ \A m \in Name : Settled(m)
  BY Idle DEF Create, Ready
<1>2. size \in Nat /\ divRoundUp(size, SectorSize) <= NumDirect
  BY FileSystemAssumption DEF DirectFiles
<1>3. PICK map, m, used : /\ map = freeMap /\ m = divRoundUp(size, SectorSize)
                          /\ used = map \cup Taken(map, 1)
  OBVIOUS
<1>4. /\ ~InDirectory(n) /\ Clear(map) # {} /\ FreeEntry # {} /\ Fits(used, m)
      /\ op' = n /\ todo' = CreateWrites(n, size)
      /\ before' = files /\ files' = [files EXCEPT ![n] = Zeros(size)]
      /\ born' = [born EXCEPT ![n] = NewHeader(used, size)]
      /\ disk' = disk /\ running' = running /\ open' = open
  BY <1>3 DEF Create, CanCreate, Begin
<1>5. PICK sec \in Clear(map), ds \in Seq(Clear(map)) :
           /\ m \in Nat /\ Len(ds) = m /\ IsInjective(ds) /\ sec \notin Range(ds)
           /\ Find(map, 1)[1] = sec
           /\ used = map \cup {sec}
           /\ used \cup Taken(used, m) = map \cup ({sec} \cup Range(ds))
           /\ NewHeader(used, size) = [numBytes |-> size, numSectors |-> m, dataSectors |-> ds,
                                       L1Index |-> -1, L2Index |-> -1]
           /\ AllocateWrites(used, size) = ClearSector(ds)
  <2>1. /\ size \in Nat /\ m = divRoundUp(size, SectorSize) /\ m <= NumDirect /\ Clear(map) # {}
        /\ used = map \cup Taken(map, 1) /\ Fits(used, m)
    BY <1>2, <1>3, <1>4
  <2> QED
    BY <2>1, CreateFinds
<1>6. PICK h : h = [numBytes |-> size, numSectors |-> m, dataSectors |-> ds,
                    L1Index |-> -1, L2Index |-> -1]
  OBVIOUS
<1>7. /\ h.numBytes = size /\ h.numSectors = m /\ h.dataSectors = ds
      /\ h = FetchFrom(WriteBack(h), -1, -1)
  BY <1>6 DEF FetchFrom, WriteBack
<1>8. map = Occupied /\ freeMap = Marked
  BY <1>1, <1>3, Lookup
<1>9. sec \in Sector /\ sec \notin Occupied /\ ds \in Seq(Sector) /\ Range(ds) \cap Occupied = {}
  <2>1. Clear(map) = Sector \ map
    BY DEF Clear
  <2>2. ds = [i \in 1 .. m |-> ds[i]] /\ \A i \in 1 .. m : ds[i] \in Sector \ map
    BY <1>5, <2>1
  <2>3. ds \in Seq(Sector)
    BY <1>5, <2>2
  <2>4. Range(ds) \cap map = {}
    BY <2>2 DEF Range
  <2> QED
    BY <1>5, <1>8, <2>1, <2>3, <2>4
<1>10. HeaderOK(WriteBack(h))
  <2>1. m \in 0 .. NumDirect /\ m = divRoundUp(size, SectorSize)
    BY <1>2, <1>3, <1>5, FileHeaderAssumption
  <2>2. PICK w : w = WriteBack(h)
    OBVIOUS
  <2>3. w = [kind |-> "header", numBytes |-> size, numSectors |-> m, dataSectors |-> ds]
    BY <1>7, <2>2 DEF WriteBack
  <2>4. /\ w = [kind |-> "header", numBytes |-> w.numBytes, numSectors |-> w.numSectors,
                dataSectors |-> w.dataSectors]
        /\ w.numBytes = size /\ w.numSectors = m /\ w.dataSectors = ds
    BY <2>3
  <2>5. HeaderOK(w)
    BY <1>2, <1>5, <1>9, <2>1, <2>4 DEF HeaderOK
  <2> QED
    BY <2>2, <2>5
<1>11. PICK e \in Slot : e \notin Active /\ e = (CHOOSE i \in FreeEntry : TRUE)
  <2>1. (CHOOSE i \in FreeEntry : TRUE) \in FreeEntry
    BY <1>4
  <2>2. \A i \in FreeEntry : i \in Slot /\ i \notin Active
    BY <1>1, Lookup DEF FreeEntry, Active
  <2> QED
    BY <2>1, <2>2
<1>12. \A i \in Active : NameAt(i) # n
  BY <1>1, <1>4, FoundAt
<1>13. open[n] = NULL /\ files[n] = NULL
  BY <1>1, <1>12 DEF OpenOK, Settled
<1>14. /\ open'[n] = NULL /\ before'[n] = NULL /\ files'[n] = Zeros(size) /\ born'[n] = h
       /\ \A k \in Name \ {n} : files'[k] = files[k] /\ born'[k] = born[k]
  BY <1>1, <1>4, <1>5, <1>6, <1>13 DEF Types
<1>15. /\ SystemOK' /\ Marked' = Marked /\ Active' = Active /\ Occupied' = Occupied
       /\ FilesOK' /\ \A k \in Name \ {n} : Settled(k)'
       /\ \A i \in Active : i \in Slot /\ SameAt(i) /\ NameAt(i)' = NameAt(i)
  <2>1. Name \ {n} \in SUBSET Name /\ \A k \in Name \ {n} : Settled(k)
    BY <1>1
  <2>2. \A k \in Name : born'[k] \in {NULL, born[k]} \/ \A i \in Active : NameAt(i) # k
    BY <1>12, <1>14
  <2> QED
    BY <1>1, <1>4, <1>14, <2>1, <2>2, DiskSame
<1>16. OpenOK'
  <2>1. \A i \in Active : born'[NameAt(i)] = born[NameAt(i)]
    BY <1>1, <1>12, <1>14 DEF FilesOK
  <2>2. Active \subseteq Slot
    BY <1>15
  <2> QED
    BY <1>1, <1>4, <1>15, <2>1, <2>2, OpenKept
<1> DEFINE x1 == Entry(TRUE, n, sec)
           wh == Write(sec, WriteBack(h))
           F == NewFoot(h, sec)
           wm == Write(MapAt, Map(Marked \cup F))
           sw(i) == SlotWrite(i, e, x1)
           za == ClearSector(ds)
           zb == <<wh>>
           zc == [i \in 1 .. D |-> sw(i)]
           zd == <<wm>>
<1>17. todo' = za \o zb \o zc \o zd
  <2>1. DirWrites([table EXCEPT ![e] = x1]) = zc
    <3>1. PICK t : t = [table EXCEPT ![e] = x1]
      OBVIOUS
    <3>2. DOMAIN t = Slot /\ \A i \in Slot : t[i] = IF i = e THEN x1 ELSE disk[DirAt[i]]
      BY <1>1, <3>1, Lookup
    <3>3. DirWrites(t) = [i \in Slot |-> Write(directoryFile[i], t[i])]
      BY <3>2 DEF DirWrites
    <3>4. \A i \in Slot : Write(directoryFile[i], t[i]) = sw(i)
      BY <1>1, <3>2, Lookup DEF SlotWrite
    <3>5. DirWrites(t) = [i \in Slot |-> sw(i)]
      BY <3>3, <3>4
    <3> QED
      BY <3>1, <3>5 DEF Slot
  <2>2. MapWrites(used \cup Taken(used, m)) = zd
    <3>1. used \cup Taken(used, m) = Marked \cup F
      BY <1>3, <1>5, <1>7, <1>8 DEF NewFoot
    <3> QED
      BY <1>1, <3>1, Lookup DEF MapWrites
  <2>3. CreateWrites(n, size) =
          AllocateWrites(used, size) \o <<Write(sec, WriteBack(NewHeader(used, size)))>>
          \o DirWrites([table EXCEPT ![e] = x1]) \o MapWrites(used \cup Taken(used, m))
    BY <1>3, <1>5, <1>11 DEF CreateWrites
  <2> QED
    BY <1>4, <1>5, <1>6, <2>1, <2>2, <2>3
<1>18. D \in Nat /\ D >= 1 /\ Slot = 1 .. D
  BY Layout DEF Slot
<1>19. /\ todo' \in Seq(Range(todo')) /\ Len(todo') = m + D + 2
       /\ \A i \in 1 .. m : todo'[i] = Write(ds[i], Zero)
       /\ todo'[m + 1] = wh
       /\ \A i \in 1 .. D : todo'[m + 1 + i] = sw(i)
       /\ todo'[m + D + 2] = wm
  <2>1. za = [i \in 1 .. m |-> Write(ds[i], Zero)]
    BY <1>5, <1>9 DEF ClearSector
  <2> DEFINE wz(i) == Write(ds[i], Zero)
             T == {wh, wm} \cup {wz(i) : i \in 1 .. m} \cup {sw(i) : i \in 1 .. D}
  <2>2. /\ wh \in T /\ wm \in T
        /\ \A i \in 1 .. m : wz(i) \in T
        /\ \A i \in 1 .. D : sw(i) \in T
    OBVIOUS
  <2> HIDE DEF T, wh, wm, sw
  <2>3. za = [i \in 1 .. m |-> wz(i)]
    BY <2>1
  <2> HIDE DEF wz, za
  <2>4. za \in Seq(T) /\ Len(za) = m /\ \A i \in 1 .. m : za[i] = wz(i)
    BY <1>5, <2>2, <2>3
  <2>5. zb \in Seq(T) /\ Len(zb) = 1 /\ zb[1] = wh
    BY <2>2
  <2>6. zc \in Seq(T) /\ Len(zc) = D /\ \A i \in 1 .. D : zc[i] = sw(i)
    BY <1>18, <2>2
  <2>7. zd \in Seq(T) /\ Len(zd) = 1 /\ zd[1] = wm
    BY <2>2
  <2> HIDE DEF zb, zc, zd
  <2>8. PICK q, q1, q2, q3, q4 : q = todo' /\ q1 = za /\ q2 = zb /\ q3 = zc /\ q4 = zd
    OBVIOUS
  <2>9. PICK T1 : T1 = T
    OBVIOUS
  <2>10. q1 \in Seq(T1) /\ q2 \in Seq(T1) /\ q3 \in Seq(T1) /\ q4 \in Seq(T1) /\ q = q1 \o q2 \o q3 \o q4
    BY <1>17, <2>4, <2>5, <2>6, <2>7, <2>8, <2>9
  <2>11. /\ q \in Seq(T1) /\ Len(q) = Len(q1) + Len(q2) + Len(q3) + Len(q4)
         /\ \A i \in 1 .. Len(q1) : q[i] = q1[i]
         /\ \A i \in 1 .. Len(q2) : q[Len(q1) + i] = q2[i]
         /\ \A i \in 1 .. Len(q3) : q[Len(q1) + Len(q2) + i] = q3[i]
         /\ \A i \in 1 .. Len(q4) : q[Len(q1) + Len(q2) + Len(q3) + i] = q4[i]
    BY <2>10, Concat4
  <2>12. Len(q1) = m /\ Len(q2) = 1 /\ Len(q3) = D /\ Len(q4) = 1
    BY <2>4, <2>5, <2>6, <2>7, <2>8
  <2>13. q \in Seq(Range(q))
    BY <2>11 DEF Range
  <2>14. \A i \in 1 .. m : q[i] = wz(i)
    BY <2>4, <2>8, <2>11, <2>12
  <2>15. q[m + 1] = wh
    <3>1. 1 \in 1 .. Len(q2)
      BY <2>12
    <3> QED
      BY <2>5, <2>8, <2>11, <2>12, <3>1
  <2>16. \A i \in 1 .. D : q[m + 1 + i] = sw(i)
    BY <2>6, <2>8, <2>11, <2>12
  <2>17. q[m + D + 2] = wm
    <3>1. 1 \in 1 .. Len(q4) /\ m + D + 2 = Len(q1) + Len(q2) + Len(q3) + 1
      BY <1>5, <1>18, <2>12
    <3> QED
      BY <2>7, <2>8, <2>11, <3>1
  <2>18. Len(q) = m + D + 2
    BY <1>5, <1>18, <2>11, <2>12
  <2> QED
    BY <2>8, <2>13, <2>14, <2>15, <2>16, <2>17, <2>18 DEF wz
<1>20. Allocating(n, h, e, sec)'
  <2>1. m \in 0 .. h.numSectors /\ Len(todo') = m + D + 2 /\ h.numSectors - m = 0
    BY <1>5, <1>7, <1>19
  <2>2. \A i \in 1 .. m : todo'[i] = Write(h.dataSectors[(h.numSectors - m) + i], Zero)
    <3>1. \A i \in 1 .. m : (h.numSectors - m) + i = i
      BY <1>5, <1>7
    <3> QED
      BY <1>7, <1>19, <3>1
  <2>3. ASSUME NEW i \in Slot PROVE todo'[m + 1 + i] = SlotWrite(i, e, x1)'
    <3>1. SlotWrite(i, e, x1)' = SlotWrite(i, e, x1)
      BY <1>4 DEF SlotWrite, Write
    <3>2. todo'[m + 1 + i] = sw(i)
      BY <1>18, <1>19
    <3> QED
      BY <3>1, <3>2
  <2>4. todo'[m + D + 2] = Write(MapAt, Map(Marked \cup F))'
    BY <1>15, <1>19 DEF Write, Map
  <2>5. \A k \in 1 .. h.numSectors - m : disk'[h.dataSectors[k]] = Zero
    BY <2>1
  <2>6. e \notin Active' /\ (F \cap Occupied = {})' /\ Marked' = Occupied'
    BY <1>1, <1>7, <1>9, <1>11, <1>15 DEF NewFoot
  <2>7. todo'[m + 1] = Write(sec, WriteBack(h))
    BY <1>19
  <2> HIDE DEF x1, F
  <2> QED
    BY <2>1, <2>2, <2>3, <2>4, <2>5, <2>6, <2>7 DEF Allocating, x1, F
<1>21. Making(op, born[op], e, sec)'
  <2>1. op' = n /\ born'[n] = h /\ sec \notin Range(h.dataSectors)
    BY <1>4, <1>5, <1>7, <1>14
  <2>2. files'[n] = Zeros(h.numBytes)
    BY <1>7, <1>14
  <2>3. \A i \in Active' \ {e} : NameAt(i)' # n
    BY <1>12, <1>15
  <2> QED
    BY <1>7, <1>10, <1>14, <1>20, <2>1, <2>2, <2>3 DEF Making
<1>22. Creating'
  BY <1>9, <1>21 DEF Creating
<1>23. Types'
  <2>1. /\ disk' = [s \in Sector |-> disk'[s]] /\ open' = [k \in Name |-> open'[k]]
        /\ files' = [k \in Name |-> files'[k]] /\ before' = [k \in Name |-> before'[k]]
        /\ born' = [k \in Name |-> born'[k]]
    BY <1>1, <1>4 DEF Types
  <2> QED
    BY <1>19, <2>1 DEF Types
<1>24. todo' # <<>>
  <2>1. Len(todo') # 0
    BY <1>5, <1>18, <1>19
  <2>2. Len(<<>>) = 0
    BY EmptySeq
  <2> QED
    BY <2>1, <2>2, Zenon
<1> QED
  BY <1>4, <1>15, <1>16, <1>22, <1>23, <1>24 DEF FSInv

-----------------------------------------------------------------------------
(* Remove *)

\* Directory::Remove changes inUse only.
LEMMA EntryCleared ==
  ASSUME NEW u, NEW v, NEW m, NEW s
  PROVE  [Entry(u, m, s) EXCEPT !.inUse = v] = Entry(v, m, s)
  BY DEF Entry

LEMMA RemoveInv ==
  ASSUME FSInv, ClosesFirst, NEW n \in Name, Remove(n)
  PROVE  FSInv'
<1> DEFINE D == NumDirEntries
<1>1. /\ Types /\ SystemOK /\ FilesOK /\ OpenOK /\ op = NULL /\ Marked = Occupied
      /\ \A m \in Name : Settled(m)
  BY Idle DEF Remove, Ready
<1>2. open[n] = NULL /\ InDirectory(n)
  BY DEF Remove
<1>3. PICK e \in Active : /\ NameAt(e) = n /\ HeaderSector(n) = HeadAt(e)
                          /\ (CHOOSE i \in FindIndex(n) : TRUE) = e
  BY <1>1, <1>2, FoundAt
<1>4. e \in Slot /\ HeaderOK(disk[HeadAt(e)])
  BY <1>1 DEF Active, FilesOK
<1>5. PICK l1, l2, h : /\ h = FetchFrom(disk[HeadAt(e)], l1, l2)
                       /\ IF Deallocated(disk, h) \subseteq freeMap
                          THEN /\ Begin(n, NULL, RemoveWrites(n, h)) /\ UNCHANGED running
                               /\ born' = [born EXCEPT ![n] = NULL]
                          ELSE running' = FALSE /\ UNCHANGED <<todo, histVars>>
  <2>1. PICK l1 \in Leftover, l2 \in Leftover :
          LET h == FetchFrom(disk[HeaderSector(n)], l1, l2)
          IN IF Deallocated(disk, h) \subseteq freeMap
             THEN /\ Begin(n, NULL, RemoveWrites(n, h)) /\ UNCHANGED running
                  /\ born' = [born EXCEPT ![n] = NULL]
             ELSE running' = FALSE /\ UNCHANGED <<todo, histVars>>
    BY DEF Remove
  <2>2. PICK h : h = FetchFrom(disk[HeaderSector(n)], l1, l2)
    OBVIOUS
  <2>3. h = FetchFrom(disk[HeadAt(e)], l1, l2)
    BY <1>3, <2>2
  <2>4. IF Deallocated(disk, h) \subseteq freeMap
        THEN /\ Begin(n, NULL, RemoveWrites(n, h)) /\ UNCHANGED running
             /\ born' = [born EXCEPT ![n] = NULL]
        ELSE running' = FALSE /\ UNCHANGED <<todo, histVars>>
    BY <2>1, <2>2
  <2> QED
    BY <2>3, <2>4
<1>6. Deallocated(disk, h) = Range(SectorsAt(e))
  BY <1>4, <1>5, HeaderFinds DEF SectorsAt
<1>7. /\ freeMap = Marked /\ Foot(e) = Range(SectorsAt(e)) \cup {HeadAt(e)}
      /\ Foot(e) \subseteq Occupied
  BY <1>1, <1>3, Lookup DEF Foot, Occupied
<1>8. Deallocated(disk, h) \subseteq freeMap
  BY <1>1, <1>6, <1>7
<1>9. Begin(n, NULL, RemoveWrites(n, h)) /\ born' = [born EXCEPT ![n] = NULL]
  BY <1>5, <1>8
<1>10. /\ op' = n /\ todo' = RemoveWrites(n, h) /\ before' = files
       /\ files' = [files EXCEPT ![n] = NULL] /\ born' = [born EXCEPT ![n] = NULL]
       /\ disk' = disk /\ open' = open
  BY <1>9 DEF Begin, Remove
<1>11. /\ open'[n] = NULL /\ before'[n] = files[n] /\ files'[n] = NULL /\ born'[n] = NULL
       /\ \A k \in Name \ {n} : files'[k] = files[k] /\ born'[k] = born[k]
  BY <1>1, <1>2, <1>10 DEF Types
<1>12. /\ SystemOK' /\ Marked' = Marked /\ Active' = Active /\ Occupied' = Occupied
       /\ FilesOK' /\ \A k \in Name \ {n} : Settled(k)'
       /\ \A i \in Active : /\ i \in Slot /\ SameAt(i) /\ NameAt(i)' = NameAt(i)
                            /\ HeadAt(i)' = HeadAt(i) /\ Foot(i)' = Foot(i)
       /\ \A i \in Active : \A b : Holds(i, b) => Holds(i, b)'
  <2>1. Name \ {n} \in SUBSET Name /\ \A k \in Name \ {n} : Settled(k)
    BY <1>1
  <2>2. \A k \in Name : born'[k] \in {NULL, born[k]} \/ \A i \in Active : NameAt(i) # k
    BY <1>11
  <2> QED
    BY <1>1, <1>10, <1>11, <2>1, <2>2, DiskSame
<1>13. OpenOK'
  <2>1. \A i \in Active : open[NameAt(i)] # NULL => born'[NameAt(i)] = born[NameAt(i)]
    BY <1>1, <1>2, <1>11 DEF FilesOK
  <2>2. Active \subseteq Slot
    BY <1>12
  <2> QED
    BY <1>1, <1>10, <1>12, <2>1, <2>2, OpenKept
<1>14. \A i \in Active \ {e} : NameAt(i) # n
  BY <1>1, <1>3 DEF FilesOK
<1>15. Holds(e, before[n])'
  <2>1. PICK i \in Active : NameAt(i) = n /\ Holds(i, files[n])
    BY <1>1, <1>3 DEF Settled
  <2>2. i = e
    BY <1>14, <2>1
  <2>3. PICK b : b = files[n]
    OBVIOUS
  <2>4. Holds(e, b)'
    BY <1>12, <2>1, <2>2, <2>3
  <2> QED
    BY <1>11, <2>3, <2>4
<1> DEFINE x0 == Entry(FALSE, n, HeadAt(e))
           wm == Write(MapAt, Map(Marked \ Foot(e)))
           sw(i) == SlotWrite(i, e, x0)
           za == <<wm>>
           zb == [i \in 1 .. D |-> sw(i)]
<1>16. todo' = za \o zb
  <2>1. DirWrites([table EXCEPT ![e].inUse = FALSE]) = zb
    <3>1. PICK t : t = [table EXCEPT ![e].inUse = FALSE]
      OBVIOUS
    <3>2. table[e] = Entry(table[e].inUse, n, HeadAt(e)) /\ DOMAIN table = Slot
          /\ \A i \in Slot : table[i] = disk[DirAt[i]]
      BY <1>1, <1>3, <1>4, Lookup DEF SystemOK
    <3>3. [table[e] EXCEPT !.inUse = FALSE] = x0
      <4>1. PICK r, u, hs : r = table[e] /\ r = Entry(u, n, hs) /\ hs = HeadAt(e)
        BY <3>2
      <4>2. PICK v : v = FALSE
        OBVIOUS
      <4>3. [r EXCEPT !.inUse = v] = Entry(v, n, hs)
        BY <4>1, EntryCleared
      <4>4. [r EXCEPT !.inUse = FALSE] = Entry(FALSE, n, hs)
        BY <4>2, <4>3, Zenon
      <4> QED
        BY <4>1, <4>4, Zenon
    <3>4. DOMAIN t = Slot /\ \A i \in Slot : t[i] = IF i = e THEN x0 ELSE disk[DirAt[i]]
      <4>1. t = [table EXCEPT ![e] = [table[e] EXCEPT !.inUse = FALSE]]
        BY <3>1
      <4>2. t = [table EXCEPT ![e] = x0]
        BY <3>3, <4>1
      <4> HIDE DEF x0
      <4> QED
        BY <3>2, <4>2
    <3>5. DirWrites(t) = [i \in Slot |-> Write(directoryFile[i], t[i])]
      BY <3>4 DEF DirWrites
    <3>6. \A i \in Slot : Write(directoryFile[i], t[i]) = sw(i)
      BY <1>1, <3>4, Lookup DEF SlotWrite
    <3>7. DirWrites(t) = [i \in Slot |-> sw(i)]
      BY <3>5, <3>6
    <3> QED
      BY <3>1, <3>7 DEF Slot
  <2>2. MapWrites(freeMap \ (Deallocated(disk, h) \cup {HeaderSector(n)})) = za
    <3>1. freeMap \ (Deallocated(disk, h) \cup {HeaderSector(n)}) = Marked \ Foot(e)
      BY <1>3, <1>6, <1>7
    <3> QED
      BY <1>1, <3>1, Lookup DEF MapWrites
  <2> QED
    BY <1>3, <1>10, <2>1, <2>2 DEF RemoveWrites
<1>17. D \in Nat /\ D >= 1 /\ Slot = 1 .. D
  BY Layout DEF Slot
<1>18. /\ todo' \in Seq(Range(todo')) /\ Len(todo') = D + 1
       /\ todo'[1] = wm /\ \A i \in 1 .. D : todo'[1 + i] = sw(i)
  <2> DEFINE T == {wm} \cup {sw(i) : i \in 1 .. D}
  <2>1. wm \in T /\ \A i \in 1 .. D : sw(i) \in T
    OBVIOUS
  <2> HIDE DEF T, wm, sw
  <2>2. za \in Seq(T) /\ Len(za) = 1 /\ za[1] = wm
    BY <2>1
  <2>3. zb \in Seq(T) /\ Len(zb) = D /\ \A i \in 1 .. D : zb[i] = sw(i)
    BY <1>17, <2>1
  <2> HIDE DEF za, zb
  <2>4. PICK q, q1, q2, T1 : q = todo' /\ q1 = za /\ q2 = zb /\ T1 = T
    OBVIOUS
  <2>5. q1 \in Seq(T1) /\ q2 \in Seq(T1) /\ q = q1 \o q2
    BY <1>16, <2>2, <2>3, <2>4
  <2>6. /\ q \in Seq(T1) /\ Len(q) = Len(q1) + Len(q2)
        /\ \A i \in 1 .. Len(q1) : q[i] = q1[i]
        /\ \A i \in 1 .. Len(q2) : q[Len(q1) + i] = q2[i]
    BY <2>5, Concat
  <2>7. Len(q1) = 1 /\ Len(q2) = D /\ 1 \in 1 .. Len(q1)
    <3>1. Len(q1) = 1 /\ Len(q2) = D
      BY <2>2, <2>3, <2>4, Zenon
    <3> QED
      BY <3>1
  <2>8. q \in Seq(Range(q))
    BY <2>6 DEF Range
  <2>9. q[1] = wm /\ \A i \in 1 .. D : q[1 + i] = sw(i)
    BY <2>2, <2>3, <2>4, <2>6, <2>7
  <2>10. Len(q) = D + 1
    BY <1>17, <2>6, <2>7
  <2> QED
    BY <2>4, <2>8, <2>9, <2>10
<1>19. Unmarking(n, e)'
  <2>1. ASSUME NEW i \in Slot PROVE todo'[1 + i] = SlotWrite(i, e, Entry(FALSE, n, HeadAt(e)))'
    <3>1. HeadAt(e)' = HeadAt(e)
      BY <1>12
    <3>2. SlotWrite(i, e, Entry(FALSE, n, HeadAt(e)))' = SlotWrite(i, e, Entry(FALSE, n, HeadAt(e)))
      BY <1>10, <3>1 DEF SlotWrite, Write, Entry
    <3>3. todo'[1 + i] = sw(i)
      BY <1>17, <1>18
    <3> QED
      BY <3>2, <3>3
  <2>2. todo'[1] = Write(MapAt, Map(Marked \ Foot(e)))'
    <3>1. Marked' = Marked /\ Foot(e)' = Foot(e)
      BY <1>12
    <3> QED
      BY <1>18, <3>1 DEF Write, Map
  <2>3. e \in Active' /\ NameAt(e)' = n /\ Marked' = Occupied'
    BY <1>1, <1>3, <1>12
  <2>4. Len(todo') = D + 1
    BY <1>18
  <2> QED
    BY <1>15, <2>1, <2>2, <2>3, <2>4 DEF Unmarking
<1>20. Dropping(op, e)'
  <2>1. disk'[DirAt[e]].name = n
    BY <1>3, <1>10 DEF NameAt
  <2>2. \A i \in Active' \ {e} : NameAt(i)' # n
    BY <1>12, <1>14
  <2> QED
    BY <1>10, <1>11, <1>19, <2>1, <2>2 DEF Dropping
<1>21. Removing'
  BY <1>4, <1>20 DEF Removing
<1>22. Types'
  <2>1. /\ disk' = [s \in Sector |-> disk'[s]] /\ open' = [k \in Name |-> open'[k]]
        /\ files' = [k \in Name |-> files'[k]] /\ before' = [k \in Name |-> before'[k]]
        /\ born' = [k \in Name |-> born'[k]]
    BY <1>1, <1>10 DEF Types
  <2> QED
    BY <1>18, <2>1 DEF Types
<1>23. todo' # <<>>
  <2>1. Len(todo') # 0
    BY <1>17, <1>18
  <2>2. Len(<<>>) = 0
    BY EmptySeq
  <2> QED
    BY <2>1, <2>2, Zenon
<1> QED
  BY <1>10, <1>12, <1>13, <1>21, <1>22, <1>23 DEF FSInv

-----------------------------------------------------------------------------
(* OpenFile::Write *)

\* Byte q of a file is byte x of its sector k.
Place(q, k, x) == q = (k - 1) * SectorSize + x

LEMMA Locate ==
  ASSUME NEW k \in Nat \ {0}, NEW x \in 1 .. SectorSize, NEW q, Place(q, k, x)
  PROVE  /\ q \in Nat \ {0} /\ q - 1 \in Nat
         /\ (q - 1) \div SectorSize = k - 1 /\ (q - 1) % SectorSize = x - 1
<1> DEFINE S == SectorSize
           j == k - 1
           y == x - 1
<1>1. S \in Nat \ {0} /\ j \in Nat /\ y \in Nat /\ y < S /\ j \in Int
  BY FileHeaderAssumption
<1>2. j * S \in Nat
  BY <1>1, WholeSectors
<1> HIDE DEF S, j
<1>3. q - 1 = j * S + y /\ q \in Nat \ {0} /\ q - 1 \in Nat
  <2>1. q = j * S + x
    BY DEF S, j, Place
  <2> QED
    BY <1>1, <1>2, <2>1
<1> HIDE DEF y
<1>4. (j * S + y) \div S = j /\ (j * S + y) % S = y
  BY <1>1, DivModUnique
<1> QED
  BY <1>3, <1>4 DEF S, j, y

LEMMA DivMono ==
  ASSUME NEW a \in Nat, NEW b \in Nat, a <= b, NEW d \in Nat \ {0}
  PROVE  a \div d \in Nat /\ b \div d \in Nat /\ a \div d <= b \div d
<1> DEFINE qa == a \div d
           qb == b \div d
<1>1. qa \in Int /\ a % d \in 0 .. d - 1 /\ a = qa * d + (a % d)
  BY DivMod
<1>2. qb \in Int /\ b % d \in 0 .. d - 1 /\ b = qb * d + (b % d)
  BY DivMod
<1>3. PICK r \in 0 .. d - 1 : a = qa * d + r
  BY <1>1
<1>4. PICK t \in 0 .. d - 1 : b = qb * d + t
  BY <1>2
<1>5. qa \in Int /\ qb \in Int
  BY <1>1, <1>2
<1> HIDE DEF qa, qb
<1>6. qa >= 0 /\ qb >= 0
  BY <1>3, <1>4, <1>5
<1>7. qa <= qb
  BY <1>3, <1>4, <1>5
<1> QED
  BY <1>5, <1>6, <1>7 DEF qa, qb

\* The sector of a byte.
LEMMA FindByte ==
  ASSUME NEW c, HeaderOK(c), NEW l1, NEW l2, NEW h, h = FetchFrom(c, l1, l2), NEW d,
         NEW j \in 0 .. c.numSectors - 1, NEW p, p \div SectorSize = j
  PROVE  ByteToSector(d, h, p) = c.dataSectors[j + 1] /\ c.dataSectors[j + 1] \in Sector
<1>1. /\ c.numSectors \in 0 .. NumDirect /\ NumDirect \in Nat
      /\ c.dataSectors \in Seq(Sector) /\ Len(c.dataSectors) = c.numSectors
  BY FileHeaderAssumption DEF HeaderOK
<1>2. h.dataSectors = c.dataSectors
  BY DEF FetchFrom
<1>3. j < NumDirect /\ ~(j >= NumDirect) /\ ~(j - NumDirect - L1_INDEX_NUM >= 0)
      /\ j + 1 \in 1 .. Len(c.dataSectors)
  BY <1>1, FileHeaderAssumption
<1> QED
  BY <1>1, <1>2, <1>3 DEF ByteToSector

\* The bytes of a sector are read from where the file's sectors hold them.
BytesRead(d, h, k, b) ==
  \A x \in 1 .. SectorSize, q \in Int : Place(q, k, x) /\ q <= Len(b) => ByteAt(d, h, q - 1) = b[q]

LEMMA BytesHeld ==
  ASSUME NEW c, HeaderOK(c), NEW l1, NEW l2, NEW h, h = FetchFrom(c, l1, l2), NEW d, NEW b,
         NEW k \in 1 .. c.numSectors, SectorHolds(d[c.dataSectors[k]], k, b)
  PROVE  BytesRead(d, h, k, b)
<1>1. SUFFICES ASSUME NEW x \in 1 .. SectorSize, NEW q \in Int, Place(q, k, x), q <= Len(b)
               PROVE  ByteAt(d, h, q - 1) = b[q]
  BY DEF BytesRead
<1>2. PICK p, j : p = q - 1 /\ j = k - 1
  OBVIOUS
<1>3. c.numSectors \in Nat
  BY FileHeaderAssumption DEF HeaderOK
<1>4. /\ k \in Nat \ {0} /\ j \in 0 .. c.numSectors - 1 /\ j + 1 = k /\ (x - 1) + 1 = x
  BY <1>2, <1>3, FileHeaderAssumption
<1>5. p \div SectorSize = j /\ p % SectorSize = x - 1
  BY <1>1, <1>2, <1>4, Locate
<1>6. ByteToSector(d, h, p) = c.dataSectors[k] /\ c.dataSectors[k] \in Sector
  <2>1. ByteToSector(d, h, p) = c.dataSectors[j + 1] /\ c.dataSectors[j + 1] \in Sector
    BY <1>4, <1>5, FindByte
  <2> QED
    BY <1>4, <2>1
<1>7. d[c.dataSectors[k]].kind = "data" /\ d[c.dataSectors[k]].bytes[x] = b[q]
  BY <1>1 DEF SectorHolds, Place
<1>8. ByteAt(d, h, p) = d[c.dataSectors[k]].bytes[(p % SectorSize) + 1]
  BY <1>6, <1>7 DEF ByteAt
<1>9. (p % SectorSize) + 1 = x
  BY <1>4, <1>5
<1> QED
  BY <1>2, <1>7, <1>8, <1>9

\* The file after bytes are put at position.
LEMMA Overwritten ==
  ASSUME NEW old \in Seq(Byte), NEW bytes \in Seq(Byte), NEW position \in Nat,
         bytes # <<>> => position + Len(bytes) <= Len(old), NEW new, new = Overwrite(old, bytes, position)
  PROVE  /\ new \in Seq(Byte) /\ Len(new) = Len(old)
         /\ \A p \in 1 .. Len(old) :
              new[p] = IF p > position /\ p <= position + Len(bytes) THEN bytes[p - position] ELSE old[p]
         /\ bytes = <<>> => new = old
<1>1. DOMAIN old = 1 .. Len(old) /\ Len(old) \in Nat /\ Len(bytes) \in Nat
      /\ \A p \in 1 .. Len(old) : old[p] \in Byte
  OBVIOUS
<1> DEFINE V(p) == IF p > position /\ p <= position + Len(bytes) THEN bytes[p - position] ELSE old[p]
<1>2. new = [p \in 1 .. Len(old) |-> V(p)]
  BY <1>1 DEF Overwrite
<1>3. ASSUME NEW p \in 1 .. Len(old) PROVE V(p) \in Byte
  <2>1. CASE p > position /\ p <= position + Len(bytes)
    <3>1. p - position \in 1 .. Len(bytes)
      BY <1>1, <2>1
    <3>2. bytes[p - position] \in Byte
      BY <3>1
    <3> QED
      BY <2>1, <3>2
  <2>2. CASE ~(p > position /\ p <= position + Len(bytes))
    BY <1>1, <2>2
  <2> QED
    BY <2>1, <2>2
<1>4. \A p \in 1 .. Len(old) : new[p] = V(p)
  BY <1>2
<1>5. bytes = <<>> => new = old
  <2>1. SUFFICES ASSUME bytes = <<>> PROVE new = old
    OBVIOUS
  <2>2. Len(bytes) = 0
    BY <2>1, EmptySeq
  <2>3. \A p \in 1 .. Len(old) : V(p) = old[p]
    BY <1>1, <2>2
  <2>4. old = [p \in 1 .. Len(old) |-> old[p]]
    BY <1>1
  <2> HIDE DEF V
  <2> QED
    BY <1>2, <2>3, <2>4
<1> HIDE DEF V
<1>6. new \in Seq(Byte) /\ Len(new) = Len(old)
  BY <1>1, <1>2, <1>3
<1> QED
  BY <1>4, <1>5, <1>6 DEF V

\* A sector of the buffer that WriteAt writes back.
LEMMA BufferOverwritten ==
  ASSUME NEW c, HeaderOK(c), NEW l1, NEW l2, NEW h, h = FetchFrom(c, l1, l2),
         NEW old \in Seq(Byte), Len(old) = c.numBytes, NEW bytes \in Seq(Byte), NEW position \in Nat,
         position + Len(bytes) <= Len(old), NEW new, new = Overwrite(old, bytes, position),
         NEW k \in 1 .. c.numSectors, SectorHolds(disk[c.dataSectors[k]], k, old), NEW pad
  PROVE  SectorHolds(SectorBuf(h, k - 1, bytes, position, pad), k, new)
<1>0. BytesRead(disk, h, k, old)
  BY BytesHeld
<1>1. /\ new \in Seq(Byte) /\ Len(new) = Len(old)
      /\ \A p \in 1 .. Len(old) :
           new[p] = IF p > position /\ p <= position + Len(bytes) THEN bytes[p - position] ELSE old[p]
  BY Overwritten
<1>2. h.numBytes = c.numBytes /\ c.numBytes \in Nat /\ c.numSectors \in Nat /\ SectorSize \in Nat
      /\ Len(bytes) \in Nat
  BY FileHeaderAssumption DEF FetchFrom, HeaderOK
<1> DEFINE buf == SectorBuf(h, k - 1, bytes, position, pad)
           P(x) == (k - 1) * SectorSize + x - 1
           B(x) == IF P(x) >= position /\ P(x) < position + Len(bytes) THEN bytes[P(x) - position + 1]
                   ELSE IF P(x) < h.numBytes THEN ByteAt(disk, h, P(x)) ELSE pad
<1>3. buf = [kind |-> "data", bytes |-> [x \in 1 .. SectorSize |-> B(x)]]
  BY DEF SectorBuf
<1>4. buf = [kind |-> "data", bytes |-> buf.bytes] /\ \A x \in 1 .. SectorSize : buf.bytes[x] = B(x)
  <2> HIDE DEF B, buf
  <2> QED
    BY <1>3
<1>5. ASSUME NEW x \in 1 .. SectorSize, (k - 1) * SectorSize + x <= Len(new)
      PROVE  B(x) = new[(k - 1) * SectorSize + x]
  <2>1. PICK q : q = (k - 1) * SectorSize + x
    OBVIOUS
  <2>2. k - 1 \in Nat /\ (k - 1) * SectorSize \in Nat
    BY <1>2, WholeSectors
  <2>3. q \in 1 .. Len(old) /\ P(x) = q - 1
    BY <1>1, <1>2, <1>5, <2>1, <2>2
  <2>4. new[q] = IF q > position /\ q <= position + Len(bytes) THEN bytes[q - position] ELSE old[q]
    BY <1>1, <2>3
  <2>5. CASE q > position /\ q <= position + Len(bytes)
    <3>1. P(x) >= position /\ P(x) < position + Len(bytes) /\ P(x) - position + 1 = q - position
      BY <1>2, <2>3, <2>5
    <3>2. B(x) = bytes[q - position]
      BY <3>1
    <3> QED
      BY <2>1, <2>4, <2>5, <3>2
  <2>6. CASE ~(q > position /\ q <= position + Len(bytes))
    <3>1. ~(P(x) >= position /\ P(x) < position + Len(bytes)) /\ P(x) < h.numBytes
      BY <1>2, <2>3, <2>6
    <3>2. B(x) = ByteAt(disk, h, P(x))
      BY <3>1
    <3>3. ByteAt(disk, h, q - 1) = old[q]
      <4>1. Place(q, k, x) /\ q <= Len(old) /\ q \in Int
        BY <2>1, <2>3 DEF Place
      <4> QED
        BY <1>0, <4>1 DEF BytesRead
    <3> QED
      BY <2>1, <2>3, <2>4, <2>6, <3>2, <3>3
  <2> QED
    BY <2>5, <2>6
<1> HIDE DEF B, buf
<1>6. SectorHolds(buf, k, new)
  BY <1>4, <1>5 DEF SectorHolds
<1> QED
  BY <1>6 DEF buf

\* A sector that WriteAt does not write.
LEMMA SectorSpared ==
  ASSUME NEW old \in Seq(Byte), NEW bytes \in Seq(Byte), bytes # <<>>, NEW position \in Nat,
         position + Len(bytes) <= Len(old), NEW new, new = Overwrite(old, bytes, position),
         NEW k \in Nat \ {0}, NEW c, SectorHolds(c, k, old),
         k - 1 \notin position \div SectorSize .. (position + Len(bytes) - 1) \div SectorSize
  PROVE  SectorHolds(c, k, new)
<1>1. /\ new \in Seq(Byte) /\ Len(new) = Len(old)
      /\ \A p \in 1 .. Len(old) :
           new[p] = IF p > position /\ p <= position + Len(bytes) THEN bytes[p - position] ELSE old[p]
  BY Overwritten
<1>2. SectorSize \in Nat \ {0} /\ Len(bytes) \in Nat /\ Len(old) \in Nat /\ Len(bytes) > 0
  BY FileHeaderAssumption
<1>3. ASSUME NEW x \in 1 .. SectorSize, (k - 1) * SectorSize + x <= Len(new)
      PROVE  new[(k - 1) * SectorSize + x] = old[(k - 1) * SectorSize + x]
  <2>1. PICK q : Place(q, k, x) /\ q = (k - 1) * SectorSize + x
    BY DEF Place
  <2>2. PICK p : p = q - 1
    OBVIOUS
  <2>3. p \in Nat /\ q \in Nat \ {0} /\ p \div SectorSize = k - 1
    BY <2>1, <2>2, Locate
  <2>4. q = p + 1 /\ q \in 1 .. Len(old) /\ k - 1 \in Nat
    <3>1. q <= Len(old)
      BY <1>1, <1>3, <2>1
    <3> QED
      BY <1>2, <2>2, <2>3, <3>1
  <2>5. ASSUME q > position, q <= position + Len(bytes) PROVE FALSE
    <3>1. position <= p /\ p <= position + Len(bytes) - 1 /\ position + Len(bytes) - 1 \in Nat
      BY <1>2, <2>3, <2>4, <2>5
    <3>2. position \div SectorSize \in Nat /\ position \div SectorSize <= k - 1
      BY <1>2, <2>3, <3>1, DivMono
    <3>3. (position + Len(bytes) - 1) \div SectorSize \in Nat
          /\ k - 1 <= (position + Len(bytes) - 1) \div SectorSize
      BY <1>2, <2>3, <3>1, DivMono
    <3> QED
      BY <2>4, <3>2, <3>3
  <2> QED
    BY <1>1, <2>1, <2>4, <2>5
<1> QED
  BY <1>1, <1>3 DEF SectorHolds

\* The sector numbers, from 0, between which WriteAt writes.
LEMMA WriteRange ==
  ASSUME NEW size \in Nat, NEW n, n = divRoundUp(size, SectorSize), NEW len \in Nat \ {0},
         NEW position \in Nat, position + len <= size,
         NEW f, f = position \div SectorSize, NEW l, l = (position + len - 1) \div SectorSize
  PROVE  n \in Nat /\ f \in Nat /\ l \in 0 .. n - 1 /\ f <= l
<1>1. SectorSize \in Nat \ {0} /\ position + len - 1 \in Nat /\ position <= position + len - 1
      /\ position + len - 1 \in 0 .. size - 1
  BY FileHeaderAssumption
<1>2. PICK p : p = position + len - 1
  OBVIOUS
<1>3. p \in Nat /\ position <= p /\ p \in 0 .. size - 1 /\ l = p \div SectorSize
  BY <1>1, <1>2
<1>4. f \in Nat /\ f <= l
  BY <1>1, <1>3, DivMono
<1>5. n \in Nat /\ p \div SectorSize \in 0 .. n - 1
  BY <1>3, RoundUp
<1> QED
  BY <1>3, <1>4, <1>5

\* The sectors of the file with the header c hold the bytes b.
SectorsHold(c, b) == \A k \in 1 .. c.numSectors : SectorHolds(disk[c.dataSectors[k]], k, b)

\* The writes w change what the file with the header c holds to the bytes b.
Changes(w, c, b) ==
  /\ w \in Seq(Range(w)) /\ w # <<>>
  /\ \A x \in DOMAIN w : \E k \in 1 .. c.numSectors :
        w[x] = Write(c.dataSectors[k], w[x].content) /\ SectorHolds(w[x].content, k, b)
  /\ \A x, y \in DOMAIN w : w[x].sector = w[y].sector => x = y
  /\ \A k \in 1 .. c.numSectors :
       \/ \E x \in DOMAIN w : w[x].sector = c.dataSectors[k]
       \/ SectorHolds(disk[c.dataSectors[k]], k, b)

\* The writes of WriteAt, for a file without an index.
LEMMA WriteAtSectors ==
  ASSUME NEW c, HeaderOK(c), NEW l1, NEW l2, NEW h, h = FetchFrom(c, l1, l2),
         NEW old \in Seq(Byte), Len(old) = c.numBytes, NEW bytes \in Seq(Byte), bytes # <<>>,
         NEW position \in Nat, position + Len(bytes) <= Len(old),
         NEW new, new = Overwrite(old, bytes, position), NEW pad, SectorsHold(c, old),
         NEW w, w = WriteAtWrites(h, bytes, position, pad)
  PROVE  Changes(w, c, new)
<1>1. /\ c.numBytes \in Nat /\ c.numSectors = divRoundUp(c.numBytes, SectorSize)
      /\ Len(bytes) \in Nat \ {0} /\ IsInjective(c.dataSectors)
      /\ DOMAIN c.dataSectors = 1 .. c.numSectors
  <2>1. Len(bytes) \in Nat \ {0}
    BY EmptySeq
  <2> QED
    BY <2>1 DEF HeaderOK
<1>2. PICK f, l, m : /\ f = position \div SectorSize /\ m = c.numSectors
                     /\ l = (position + Len(bytes) - 1) \div SectorSize
  OBVIOUS
<1>3. m \in Nat /\ f \in Nat /\ l \in 0 .. m - 1 /\ f <= l
  <2>1. PICK size, len : size = c.numBytes /\ len = Len(bytes)
    OBVIOUS
  <2>2. /\ size \in Nat /\ m = divRoundUp(size, SectorSize) /\ len \in Nat \ {0}
        /\ position + len <= size /\ f = position \div SectorSize
        /\ l = (position + len - 1) \div SectorSize
    BY <1>1, <1>2, <2>1
  <2> QED
    BY <2>2, WriteRange
<1> DEFINE W(x) == Write(ByteToSector(disk, h, (f + x - 1) * SectorSize),
                         SectorBuf(h, f + x - 1, bytes, position, pad))
           V == {W(x) : x \in 1 .. l - f + 1}
<1>4. w = [x \in 1 .. l - f + 1 |-> W(x)]
  BY <1>2 DEF WriteAtWrites
<1>5. \A x \in 1 .. l - f + 1 : W(x) \in V
  OBVIOUS
<1>6. ASSUME NEW x \in 1 .. l - f + 1
      PROVE  /\ f + x \in 1 .. m /\ W(x) = Write(c.dataSectors[f + x], W(x).content)
             /\ SectorHolds(W(x).content, f + x, new)
  <2>1. PICK j, k : j = f + x - 1 /\ k = f + x
    OBVIOUS
  <2>2. j \in Nat /\ j \in 0 .. m - 1 /\ k \in 1 .. m /\ k = j + 1 /\ j = k - 1
    BY <1>3, <2>1
  <2>3. PICK p : p = j * SectorSize
    OBVIOUS
  <2>4. p \div SectorSize = j
    BY <2>2, <2>3, WholeSectors
  <2>5. ByteToSector(disk, h, p) = c.dataSectors[j + 1]
    BY <1>2, <2>2, <2>4, FindByte
  <2>6. SectorHolds(disk[c.dataSectors[k]], k, old) /\ k \in 1 .. c.numSectors
    BY <1>2, <2>2 DEF SectorsHold
  <2>7. SectorHolds(SectorBuf(h, k - 1, bytes, position, pad), k, new)
    BY <2>6, BufferOverwritten
  <2>8. W(x) = Write(c.dataSectors[k], SectorBuf(h, k - 1, bytes, position, pad))
    BY <2>1, <2>2, <2>3, <2>5
  <2>9. W(x).content = SectorBuf(h, k - 1, bytes, position, pad)
    BY <2>8 DEF Write
  <2> QED
    BY <2>1, <2>2, <2>7, <2>8, <2>9
<1> HIDE DEF W, V
<1>7. w \in Seq(V) /\ DOMAIN w = 1 .. l - f + 1 /\ Len(w) = l - f + 1 /\ Len(w) # 0
      /\ \A x \in 1 .. l - f + 1 : w[x] = W(x)
  BY <1>3, <1>4, <1>5
<1>8. w \in Seq(Range(w)) /\ w # <<>>
  <2>1. \A x \in 1 .. Len(w) : w[x] \in Range(w)
    BY <1>7 DEF Range
  <2>2. w = [x \in 1 .. Len(w) |-> w[x]] /\ Len(w) \in Nat
    BY <1>7
  <2>3. PICK R : R = Range(w)
    OBVIOUS
  <2>4. w \in Seq(R)
    BY <2>1, <2>2, <2>3
  <2> QED
    BY <1>7, <2>3, <2>4, EmptySeq
<1>9. ASSUME NEW x \in DOMAIN w
      PROVE  /\ f + x \in 1 .. m /\ w[x] = Write(c.dataSectors[f + x], w[x].content)
             /\ SectorHolds(w[x].content, f + x, new) /\ w[x].sector = c.dataSectors[f + x]
  <2>1. /\ f + x \in 1 .. m /\ w[x] = Write(c.dataSectors[f + x], w[x].content)
        /\ SectorHolds(w[x].content, f + x, new)
    BY <1>6, <1>7
  <2> QED
    BY <2>1 DEF Write
<1>10. ASSUME NEW x \in DOMAIN w, NEW y \in DOMAIN w, w[x].sector = w[y].sector
       PROVE  x = y
  <2>1. f + x = f + y
    BY <1>1, <1>2, <1>9, <1>10 DEF IsInjective
  <2> QED
    BY <1>3, <1>7, <2>1
<1>11. ASSUME NEW k \in 1 .. c.numSectors
       PROVE  \/ \E x \in DOMAIN w : w[x].sector = c.dataSectors[k]
              \/ SectorHolds(disk[c.dataSectors[k]], k, new)
  <2>1. CASE k - 1 \in f .. l
    <3>1. k \in 1 .. m
      BY <1>2
    <3>2. k - f \in 1 .. l - f + 1 /\ f + (k - f) = k
      BY <1>3, <2>1, <3>1
    <3>3. k - f \in DOMAIN w
      BY <1>7, <3>2
    <3> QED
      BY <1>9, <3>2, <3>3
  <2>2. CASE k - 1 \notin f .. l
    <3>1. /\ k \in Nat \ {0} /\ SectorHolds(disk[c.dataSectors[k]], k, old)
          /\ k - 1 \notin position \div SectorSize .. (position + Len(bytes) - 1) \div SectorSize
      BY <1>2, <1>3, <2>2 DEF SectorsHold
    <3>2. SectorHolds(disk[c.dataSectors[k]], k, new)
      BY <3>1, SectorSpared
    <3> QED
      BY <3>2
  <2> QED
    BY <2>1, <2>2
<1>12. \A x \in DOMAIN w : \E k \in 1 .. c.numSectors :
         w[x] = Write(c.dataSectors[k], w[x].content) /\ SectorHolds(w[x].content, k, new)
  BY <1>2, <1>9
<1> QED
  BY <1>8, <1>10, <1>11, <1>12 DEF Changes

\* The open files, when only their positions change.
LEMMA OpenMoved ==
  ASSUME OpenOK, Active' = Active, \A i \in Active : i \in Slot /\ SameAt(i), born' = born,
         \A m \in Name :
           \/ open'[m] = NULL
           \/ /\ open[m] # NULL /\ open'[m].hdr = open[m].hdr
              /\ open'[m] = [hdr |-> open'[m].hdr, seekPosition |-> open'[m].seekPosition]
              /\ open'[m].seekPosition \in Nat
  PROVE  OpenOK'
<1>1. SUFFICES ASSUME NEW n \in Name, open'[n] # NULL
               PROVE  (/\ \E i \in Active :
                            /\ NameAt(i) = n /\ born[n] = FetchFrom(disk[HeadAt(i)], -1, -1)
                            /\ \E l1, l2 \in Leftover :
                                 open[n].hdr = FetchFrom(disk[HeadAt(i)], l1, l2)
                       /\ open[n] = [hdr |-> open[n].hdr, seekPosition |-> open[n].seekPosition]
                       /\ open[n].seekPosition \in Nat)'
  BY DEF OpenOK
<1>2. PICK i \in Active :
        /\ NameAt(i) = n /\ born[n] = FetchFrom(disk[HeadAt(i)], -1, -1)
        /\ \E l1, l2 \in Leftover : open[n].hdr = FetchFrom(disk[HeadAt(i)], l1, l2)
  BY <1>1 DEF OpenOK
<1>3. i \in Active' /\ NameAt(i)' = n /\ (disk[HeadAt(i)])' = disk[HeadAt(i)]
  BY <1>2, Same
<1>4. (born[n] = FetchFrom(disk[HeadAt(i)], -1, -1))'
  BY <1>2, <1>3 DEF FetchFrom
<1>5. (\E l1, l2 \in Leftover : open[n].hdr = FetchFrom(disk[HeadAt(i)], l1, l2))'
  BY <1>1, <1>2, <1>3 DEF FetchFrom
<1> QED
  BY <1>1, <1>3, <1>4, <1>5

LEMMA WriteFileInv ==
  ASSUME FSInv, NEW n \in Name, NEW data \in Data, WriteFile(n, data)
  PROVE  FSInv'
<1>1. todo = <<>> /\ open[n] # NULL /\ disk' = disk /\ born' = born
  BY DEF WriteFile, Ready
<1>2. /\ Types /\ SystemOK /\ FilesOK /\ OpenOK /\ op = NULL /\ Marked = Occupied
      /\ \A m \in Name : Settled(m)
  BY <1>1, Idle
<1>3. PICK h, z, t : h = open[n].hdr /\ z = open[n].seekPosition /\ t = Transfer(h, Len(data), z)
  OBVIOUS
<1>4. PICK bytes : bytes = SubSeq(data, 1, t)
  OBVIOUS
<1>5. PICK pad \in Pad :
        /\ todo' = WriteAtWrites(h, bytes, z, pad) /\ before' = files
        /\ open' = [open EXCEPT ![n].seekPosition = z + Len(bytes)]
        /\ op' = (IF todo' = <<>> THEN NULL ELSE n)
        /\ files' = IF files[n] = NULL THEN files
                    ELSE [files EXCEPT ![n] = Overwrite(files[n], bytes, z)]
  BY <1>3, <1>4 DEF WriteFile
<1>6. PICK i \in Active, l1 \in Leftover, l2 \in Leftover :
        /\ NameAt(i) = n /\ h = FetchFrom(disk[HeadAt(i)], l1, l2)
        /\ born[n] = FetchFrom(disk[HeadAt(i)], -1, -1)
  BY <1>1, <1>2, <1>3 DEF OpenOK
<1>7. z \in Nat /\ open[n] = [hdr |-> h, seekPosition |-> z]
  BY <1>1, <1>2, <1>3 DEF OpenOK
<1>8. PICK c, old : c = disk[HeadAt(i)] /\ old = files[n]
  OBVIOUS
<1>9. HeaderOK(c) /\ c.dataSectors = SectorsAt(i) /\ h = FetchFrom(c, l1, l2) /\ i \in Slot
      /\ born[n] = FetchFrom(c, -1, -1) /\ DOMAIN c.dataSectors = 1 .. c.numSectors
  <2>1. HeaderOK(c) /\ c.dataSectors = SectorsAt(i) /\ h = FetchFrom(c, l1, l2) /\ i \in Slot
        /\ born[n] = FetchFrom(c, -1, -1)
    BY <1>2, <1>6, <1>8 DEF FilesOK, SectorsAt, Active
  <2> QED
    BY <2>1 DEF HeaderOK
<1>10. Holds(i, old) /\ old # NULL
  <2>1. old # NULL
    BY <1>2, <1>6, <1>8 DEF Settled
  <2>2. PICK j \in Active : NameAt(j) = n /\ Holds(j, old)
    BY <1>2, <1>8, <2>1 DEF Settled
  <2>3. i = j
    BY <1>2, <1>6, <2>2 DEF FilesOK
  <2> QED
    BY <2>1, <2>2, <2>3
<1>11. /\ old \in Seq(Byte) /\ Len(old) = c.numBytes
       /\ \A k \in 1 .. c.numSectors : SectorHolds(disk[c.dataSectors[k]], k, old)
  BY <1>8, <1>9, <1>10 DEF Holds
<1>12. h.numBytes = c.numBytes /\ c.numBytes \in Nat
  BY <1>9 DEF FetchFrom, HeaderOK
<1>13. data \in Seq(Byte) /\ Len(data) \in Nat
  BY FileSystemAssumption
<1>14. t \in 0 .. Len(data) /\ (t # 0 => z + t <= h.numBytes)
  BY <1>3, <1>7, <1>12, <1>13, TransferType
<1>15. bytes \in Seq(Byte) /\ Len(bytes) = t
  BY <1>4, <1>13, <1>14
<1>16. bytes # <<>> => t # 0 /\ z + Len(bytes) <= Len(old)
  BY <1>11, <1>12, <1>14, <1>15
<1>17. PICK new : new = Overwrite(old, bytes, z)
  OBVIOUS
<1>18. new \in Seq(Byte) /\ Len(new) = Len(old) /\ (bytes = <<>> => new = old)
  <2>1. bytes # <<>> => z + Len(bytes) <= Len(old)
    BY <1>16
  <2> QED
    BY <1>7, <1>11, <1>15, <1>17, <2>1, Overwritten
<1>19. /\ files = [m \in Name |-> files[m]] /\ open = [m \in Name |-> open[m]]
       /\ before' = [m \in Name |-> before'[m]]
       /\ disk' = [s \in Sector |-> disk'[s]] /\ born' = [m \in Name |-> born'[m]]
  BY <1>1, <1>2, <1>5 DEF Types
<1>20. files' = [files EXCEPT ![n] = new]
  BY <1>5, <1>8, <1>10, <1>17
<1>21. /\ files' = [m \in Name |-> files'[m]] /\ files'[n] = new
       /\ \A m \in Name \ {n} : files'[m] = files[m]
  BY <1>19, <1>20
<1>22. PICK q \in Nat : q = z + Len(bytes)
  BY <1>7, <1>15, <1>13, <1>14
<1>23. open' = [open EXCEPT ![n].seekPosition = q]
  BY <1>5, <1>22
<1>24. open'[n] = [hdr |-> h, seekPosition |-> q]
  BY <1>7, <1>19, <1>23
<1>25. open' = [m \in Name |-> open'[m]] /\ \A m \in Name \ {n} : open'[m] = open[m]
  BY <1>19, <1>23
<1>26. /\ SystemOK' /\ Marked' = Marked /\ Active' = Active /\ Occupied' = Occupied
       /\ FilesOK' /\ \A m \in Name \ {n} : Settled(m)'
       /\ \A j \in Active : j \in Slot /\ SameAt(j)
       /\ \A j \in Active : \A b : Holds(j, b) => Holds(j, b)'
  <2>1. Name \ {n} \in SUBSET Name /\ \A m \in Name \ {n} : Settled(m)
    BY <1>2
  <2>2. \A m \in Name \ {n} : files'[m] = files[m] /\ born'[m] = born[m]
    BY <1>1, <1>21
  <2> QED
    BY <1>1, <1>2, <2>1, <2>2, DiskSame
<1>27. OpenOK'
  <2>1. ASSUME NEW m \in Name, open'[m] # NULL
        PROVE  /\ open[m] # NULL /\ open'[m].hdr = open[m].hdr
               /\ open'[m] = [hdr |-> open'[m].hdr, seekPosition |-> open'[m].seekPosition]
               /\ open'[m].seekPosition \in Nat
    <3>1. CASE m = n
      BY <1>1, <1>3, <1>24, <3>1
    <3>2. CASE m # n
      <4>1. open'[m] = open[m] /\ open[m] # NULL
        BY <1>25, <2>1, <3>2
      <4>2. /\ open[m] = [hdr |-> open[m].hdr, seekPosition |-> open[m].seekPosition]
            /\ open[m].seekPosition \in Nat
        BY <1>2, <4>1 DEF OpenOK
      <4> QED
        BY <4>1, <4>2
    <3> QED
      BY <3>1, <3>2
  <2> QED
    BY <1>1, <1>2, <1>26, <2>1, OpenMoved
<1>28. /\ NameAt(i)' = n /\ SectorsAt(i)' = c.dataSectors /\ (disk[HeadAt(i)])' = c /\ i \in Active'
  BY <1>6, <1>8, <1>9, <1>26, Same
<1>29. CASE bytes = <<>>
  <2>1. todo' = <<>>
    <3> DEFINE W(x) == Write(ByteToSector(disk, h, ((z \div SectorSize) + x - 1) * SectorSize),
                             SectorBuf(h, (z \div SectorSize) + x - 1, bytes, z, pad))
    <3>1. todo' = [x \in 1 .. 0 |-> W(x)]
      BY <1>5, <1>29 DEF WriteAtWrites
    <3> HIDE DEF W
    <3>2. PICK w : w = todo'
      OBVIOUS
    <3>3. w = [x \in 1 .. 0 |-> W(x)]
      BY <3>1, <3>2
    <3>4. w = <<>>
      BY <3>3
    <3> QED
      BY <3>2, <3>4
  <2>2. op' = NULL /\ Marked' = Occupied'
    BY <1>2, <1>5, <1>26, <2>1
  <2>3. files'[n] = files[n]
    BY <1>8, <1>18, <1>21, <1>29
  <2>4. Settled(n)'
    <3>1. Holds(i, old)' /\ files'[n] = old
      BY <1>8, <1>10, <1>26, <2>3
    <3>2. Holds(i, files[n])'
      BY <1>11, <1>28, <3>1 DEF Holds
    <3>3. (born[n] = FetchFrom(disk[HeadAt(i)], -1, -1))'
      BY <1>1, <1>9, <1>28
    <3> QED
      BY <1>10, <1>28, <3>1, <3>2, <3>3 DEF Settled
  <2>5. \A m \in Name : Settled(m)'
    BY <1>26, <2>4
  <2>6. Types'
    <3>1. <<>> \in Seq(Range(<<>>))
      OBVIOUS
    <3>2. todo' \in Seq(Range(todo'))
      BY <2>1, <3>1
    <3> QED
      BY <1>19, <1>21, <1>25, <3>2 DEF Types
  <2> QED
    BY <1>26, <1>27, <2>1, <2>2, <2>5, <2>6 DEF FSInv
<1>30. CASE bytes # <<>>
  <2>1. PICK w : w = todo'
    OBVIOUS
  <2>2. w = WriteAtWrites(h, bytes, z, pad)
    BY <1>5, <2>1
  <2>3. z + Len(bytes) <= Len(old)
    BY <1>16, <1>30
  <2>4. /\ w \in Seq(Range(w)) /\ w # <<>>
        /\ \A x \in DOMAIN w : \E k \in 1 .. c.numSectors :
              w[x] = Write(c.dataSectors[k], w[x].content) /\ SectorHolds(w[x].content, k, new)
        /\ \A x, y \in DOMAIN w : w[x].sector = w[y].sector => x = y
        /\ \A k \in 1 .. c.numSectors :
             \/ \E x \in DOMAIN w : w[x].sector = c.dataSectors[k]
             \/ SectorHolds(disk[c.dataSectors[k]], k, new)
    <3>1. SectorsHold(c, old)
      BY <1>11 DEF SectorsHold
    <3>2. Changes(w, c, new)
      BY <1>7, <1>9, <1>11, <1>15, <1>17, <1>30, <2>2, <2>3, <3>1, WriteAtSectors
    <3> QED
      BY <3>2 DEF Changes
  <2>5. todo' # <<>> /\ op' = n /\ Marked' = Occupied'
    BY <1>2, <1>5, <1>26, <2>1, <2>4
  <2>6. PICK ds : ds = c.dataSectors
    OBVIOUS
  <2>7. /\ SectorsAt(i)' = ds /\ DOMAIN ds = 1 .. c.numSectors
    BY <1>9, <1>28, <2>6
  <2>8. ASSUME NEW x \in DOMAIN todo'
        PROVE  \E k \in DOMAIN ds : /\ todo'[x] = Write(ds[k], todo'[x].content)
                                    /\ SectorHolds(todo'[x].content, k, new)
    BY <2>1, <2>4, <2>6, <2>7
  <2>9. ASSUME NEW x \in DOMAIN todo', NEW y \in DOMAIN todo', todo'[x].sector = todo'[y].sector
        PROVE  x = y
    BY <2>1, <2>4, <2>9
  <2>10. ASSUME NEW k \in DOMAIN ds
         PROVE  SectorHolds(disk'[ds[k]], k, IF Pending(ds[k])' THEN old ELSE new)
    <3>1. SectorHolds(disk[ds[k]], k, old) /\ disk'[ds[k]] = disk[ds[k]]
      BY <1>1, <1>11, <2>6, <2>7
    <3>2. Pending(ds[k])' \/ SectorHolds(disk[ds[k]], k, new)
      <4>1. (\E x \in DOMAIN w : w[x].sector = ds[k]) \/ SectorHolds(disk[ds[k]], k, new)
        BY <2>4, <2>6, <2>7
      <4>2. (\E x \in DOMAIN w : w[x].sector = ds[k]) => Pending(ds[k])'
        BY <2>1 DEF Pending
      <4> QED
        BY <4>1, <4>2
    <3> QED
      BY <3>1, <3>2
  <2>11. (born[n] = FetchFrom(disk[HeadAt(i)], -1, -1))'
    BY <1>1, <1>9, <1>28
  <2>12. before'[n] = old /\ files'[n] = new /\ Len(new) = c.numBytes /\ Len(old) = Len(new)
         /\ old \in Seq(Byte) /\ new \in Seq(Byte)
    BY <1>5, <1>8, <1>11, <1>18, <1>21
  <2>13. Filling(op, i)'
    BY <1>28, <2>5, <2>7, <2>8, <2>9, <2>10, <2>11, <2>12 DEF Filling
  <2>14. Writing'
    BY <1>28, <2>13 DEF Writing
  <2>15. Types'
    <3>1. todo' \in Seq(Range(todo'))
      BY <2>1, <2>4
    <3> QED
      BY <1>19, <1>21, <1>25, <3>1 DEF Types
  <2> QED
    BY <1>26, <1>27, <2>5, <2>14, <2>15 DEF FSInv
<1> QED
  BY <1>29, <1>30

-----------------------------------------------------------------------------
(* The invariant holds *)

LEMMA WriteSectorInv ==
  ASSUME FSInv, WriteSector
  PROVE  FSInv'
<1>1. Types /\ todo # <<>>
  BY DEF FSInv, WriteSector
<1>2. CASE Formatting
  BY <1>1, <1>2, FormatSector
<1>3. CASE ~Formatting
  <2>1. /\ SystemOK /\ FilesOK /\ OpenOK /\ \A m \in Name \ {op} : Settled(m)
        /\ Creating \/ Removing \/ Writing
    BY <1>1, <1>3 DEF FSInv
  <2>2. PICK n, h : n = op /\ h = born[n]
    OBVIOUS
  <2>3. CASE Creating
    <3>1. PICK e \in Slot, sec \in Sector : Making(n, h, e, sec)
      BY <2>2, <2>3 DEF Creating
    <3>2. Allocating(n, h, e, sec) \/ Listing(n, h, e, sec)
      BY <3>1 DEF Making
    <3>3. CASE Allocating(n, h, e, sec)
      BY <1>1, <2>1, <2>2, <3>1, <3>3, AllocStep
    <3>4. CASE Listing(n, h, e, sec)
      BY <1>1, <2>1, <2>2, <3>1, <3>4, ListStep
    <3> QED
      BY <3>2, <3>3, <3>4
  <2>4. CASE Removing
    <3>1. PICK e \in Slot : Dropping(n, e)
      BY <2>2, <2>4 DEF Removing
    <3>2. Unmarking(n, e) \/ Unlisting(n, e)
      BY <3>1 DEF Dropping
    <3>3. CASE Unmarking(n, e)
      BY <1>1, <2>1, <2>2, <3>1, <3>3, UnmarkStep
    <3>4. CASE Unlisting(n, e)
      BY <1>1, <2>1, <2>2, <3>1, <3>4, UnlistStep
    <3> QED
      BY <3>2, <3>3, <3>4
  <2>5. CASE Writing
    <3>1. PICK i \in Active : Filling(n, i)
      BY <2>2, <2>5 DEF Writing
    <3> QED
      BY <1>1, <2>1, <2>2, <3>1, DataStep
  <2> QED
    BY <2>1, <2>3, <2>4, <2>5
<1> QED
  BY <1>2, <1>3

\* The invariant does not depend on whether Nachos runs.
LEMMA Stopped ==
  ASSUME FSInv, UNCHANGED <<disk, todo, open, histVars>>
  PROVE  FSInv'
<1>1. /\ disk' = disk /\ todo' = todo /\ open' = open /\ op' = op /\ files' = files
      /\ before' = before /\ born' = born
  BY DEF histVars
<1>2. Active' = Active /\ Marked' = Marked /\ Occupied' = Occupied
  BY <1>1 DEF Active, Marked, Occupied, Foot, HeadAt, SectorsAt
<1>3. SystemOK' = SystemOK /\ FilesOK' = FilesOK /\ OpenOK' = OpenOK
  BY <1>1 DEF SystemOK, FilesOK, OpenOK, Active, NameAt, HeadAt, SectorsAt, Foot, Marked
<1>4. \A n \in Name : Settled(n)' = Settled(n)
  BY <1>1 DEF Settled, Active, NameAt, HeadAt, SectorsAt, Holds
<1>5. Creating' = Creating
  BY <1>1 DEF Creating, Making, Allocating, Listing, SlotWrite, Active, Occupied, Marked, NameAt,
              HeadAt, SectorsAt, Foot
<1>6. Removing' = Removing
  BY <1>1 DEF Removing, Dropping, Unmarking, Unlisting, SlotWrite, Active, Occupied, Marked, NameAt,
              HeadAt, SectorsAt, Foot, Holds
<1>7. Writing' = Writing
  BY <1>1 DEF Writing, Filling, Pending, Active, Occupied, Marked, NameAt, HeadAt, SectorsAt, Foot
<1>8. Formatting' = Formatting /\ Types' = Types
  BY <1>1 DEF Formatting, Types
<1> QED
  BY <1>1, <1>2, <1>3, <1>4, <1>5, <1>6, <1>7, <1>8 DEF FSInv

LEMMA RestartInv ==
  ASSUME FSInv, Restart
  PROVE  FSInv'
<1>1. todo = <<>> /\ UNCHANGED <<disk, todo, histVars>> /\ open' = [n \in Name |-> NULL]
  BY DEF Restart
<1>2. open' = [n \in Name |-> open'[n]] /\ \A n \in Name : open'[n] \in {NULL, open[n]}
  BY <1>1
<1>3. NULL \notin Name
  BY FileSystemAssumption
<1> QED
  BY <1>1, <1>2, <1>3, OpenStep

LEMMA StepInv ==
  ASSUME FSInv, DirectFiles, ClosesFirst, [Next]_vars
  PROVE  FSInv'
<1>1. CASE WriteSector
  BY <1>1, WriteSectorInv
<1>2. CASE Crash
  BY <1>2, Stopped DEF Crash
<1>3. CASE Restart
  BY <1>3, RestartInv
<1>4. ASSUME NEW n \in Name, NEW size \in Size, Create(n, size) PROVE FSInv'
  BY <1>4, CreateInv
<1>5. ASSUME NEW n \in Name, Open(n) \/ Close(n) \/ ReadFile(n, MaxLen)
                             \/ \E position \in Position : Seek(n, position)
      PROVE  FSInv'
  BY <1>5, OpenInv
<1>6. ASSUME NEW n \in Name, Remove(n) PROVE FSInv'
  BY <1>6, RemoveInv
<1>7. ASSUME NEW n \in Name, NEW data \in Data, WriteFile(n, data) PROVE FSInv'
  BY <1>7, WriteFileInv
<1>8. CASE UNCHANGED vars
  BY <1>8, Stopped DEF vars
<1> QED
  BY <1>1, <1>2, <1>3, <1>4, <1>5, <1>6, <1>7, <1>8 DEF Next

\* Between the writes of every operation the disk is as FSInv says.
THEOREM FileSystemInvariant ==
  ASSUME DirectFiles, ClosesFirst
  PROVE  Spec => []FSInv
<1>1. Init => FSInv
  BY InitFSInv
<1>2. FSInv /\ [Next]_vars => FSInv'
  BY StepInv
<1> QED
  BY <1>1, <1>2, PTL DEF Spec

-----------------------------------------------------------------------------
(* No sector has two uses *)

\* While FileSystem(TRUE) writes, the directory is not complete.
LEMMA FormattedOK ==
  ASSUME FSInv, Formatted
  PROVE  /\ SystemOK /\ FilesOK /\ \A n \in Name \ {op} : Settled(n)
         /\ \/ todo = <<>> /\ op = NULL /\ Marked = Occupied
            \/ todo # <<>> /\ (Creating \/ Removing \/ Writing)
<1>1. ASSUME Formatting PROVE FALSE
  <2>1. PICK k \in 0 .. 2 * NumDirEntries + 3 : FormatDone(disk, k)
    BY <1>1 DEF Formatting
  <2>2. disk[DirectorySector].kind = "header"
        /\ \A i \in Slot : disk[directoryFile[i]].kind = "entry"
    BY DEF Formatted, Slot
  <2>3. k >= NumDirEntries + 3 /\ disk[DirectorySector] = WriteBack(NewHeader(dirUsed, DirBytes))
    <3>1. k >= NumDirEntries + 3
      BY <2>1, <2>2 DEF FormatDone
    <3> QED
      BY <2>1, <3>1 DEF FormatDone
  <2>4. directoryFile = DirAt
    BY <2>3, Layout DEF directoryFile, WriteBack
  <2>5. NumDirEntries \in Slot /\ ~(k >= NumDirEntries + 4 + NumDirEntries)
    BY Layout DEF Slot
  <2>6. disk[DirAt[NumDirEntries]].kind = "data"
    BY <2>1, <2>5 DEF FormatDone
  <2>7. disk[DirAt[NumDirEntries]].kind = "entry"
    BY <2>2, <2>4, <2>5
  <2> QED
    BY <2>6, <2>7
<1> QED
  BY <1>1 DEF FSInv

\* The files in the directory are the names of the entries in use.
LEMMA ListedAt ==
  ASSUME SystemOK, FilesOK
  PROVE  /\ \A n \in Listed : \E i \in Active : NameAt(i) = n /\ Owned(n) = Foot(i)
         /\ \A i \in Active : NameAt(i) \in Listed /\ Owned(NameAt(i)) = Foot(i)
         /\ InUse = Occupied
<1>1. ASSUME NEW n \in Listed PROVE \E i \in Active : NameAt(i) = n /\ Owned(n) = Foot(i)
  <2>1. InDirectory(n)
    BY DEF Listed
  <2>2. PICK i \in Active : NameAt(i) = n
    BY <2>1, FoundAt
  <2> QED
    BY <2>2, OwnedAt
<1>2. ASSUME NEW i \in Active PROVE NameAt(i) \in Listed /\ Owned(NameAt(i)) = Foot(i)
  <2>1. PICK n : n = NameAt(i)
    OBVIOUS
  <2>2. Owned(n) = Foot(i) /\ n \in Name /\ InDirectory(n)
    BY <2>1, OwnedAt, FoundAt
  <2> QED
    BY <2>1, <2>2 DEF Listed
<1>3. UNION {Owned(n) : n \in Listed} = UNION {Foot(i) : i \in Active}
  BY <1>1, <1>2
<1> QED
  BY <1>1, <1>2, <1>3 DEF InUse, Occupied

LEMMA RangeSize ==
  ASSUME NEW T, NEW q \in Seq(T), IsInjective(q)
  PROVE  IsFiniteSet(Range(q)) /\ Cardinality(Range(q)) = Len(q)
<1>1. PICK n \in Nat : n = Len(q)
  OBVIOUS
<1>2. DOMAIN q = 1 .. n /\ q \in [1 .. n -> Range(q)]
  <2>1. DOMAIN q = 1 .. n /\ q = [x \in 1 .. n |-> q[x]]
    BY <1>1
  <2>2. \A x \in 1 .. n : q[x] \in Range(q)
    BY <2>1 DEF Range
  <2>3. PICK R : R = Range(q)
    OBVIOUS
  <2>4. q \in [1 .. n -> R]
    BY <2>1, <2>2, <2>3
  <2> QED
    BY <2>1, <2>3, <2>4
<1>3. PICK R : R = Range(q)
  OBVIOUS
<1>4. q \in [1 .. n -> R] /\ \A t \in R : \E i \in 1 .. n : q[i] = t
  BY <1>2, <1>3 DEF Range
<1>5. \A i, j \in 1 .. n : q[i] = q[j] => i = j
  BY <1>2 DEF IsInjective
<1>6. IsFiniteSet(R) /\ Cardinality(R) = n
  BY <1>4, <1>5, Numbered
<1> QED
  BY <1>1, <1>3, <1>6

LEMMA Disjoint ==
  ASSUME FSInv
  PROVE  SectorsDisjoint
<1>1. SUFFICES ASSUME Formatted, NEW n \in Listed
               PROVE  /\ Owned(n) \subseteq Sector \ Reserved
                      /\ Cardinality(Owned(n)) = 1 + Needed(HeaderOf(n).numSectors)
                      /\ \A m \in Listed \ {n} : Owned(n) \cap Owned(m) = {}
  BY DEF SectorsDisjoint
<1>2. SystemOK /\ FilesOK
  BY <1>1, FormattedOK
<1>3. PICK i \in Active : NameAt(i) = n /\ Owned(n) = Foot(i)
  BY <1>2, ListedAt
<1>4. PICK c : c = disk[HeadAt(i)]
  OBVIOUS
<1>5. /\ HeaderOK(c) /\ Foot(i) \subseteq Sector \ Reserved
      /\ Foot(i) = {HeadAt(i)} \cup Range(c.dataSectors) /\ HeadAt(i) \notin Range(c.dataSectors)
  BY <1>2, <1>4 DEF FilesOK, Foot, SectorsAt
<1>6. HeaderOf(n).numSectors = c.numSectors
  BY <1>2, <1>3, <1>4, OwnedAt DEF FetchFrom
<1>7. Cardinality(Foot(i)) = 1 + c.numSectors
  <2>1. /\ c.dataSectors \in Seq(Sector) /\ Len(c.dataSectors) = c.numSectors
        /\ IsInjective(c.dataSectors) /\ c.numSectors \in Nat
    BY <1>5, FileHeaderAssumption DEF HeaderOK
  <2>2. PICK R, s : R = Range(c.dataSectors) /\ s = HeadAt(i)
    OBVIOUS
  <2>3. IsFiniteSet(R) /\ Cardinality(R) = c.numSectors
    BY <2>1, <2>2, RangeSize
  <2>4. Cardinality(R \cup {s}) = Cardinality(R) + 1
    BY <1>5, <2>2, <2>3, CountOne
  <2>5. Foot(i) = R \cup {s}
    BY <1>5, <2>2
  <2> QED
    BY <2>1, <2>3, <2>4, <2>5
<1>8. Needed(c.numSectors) = c.numSectors
  BY <1>5, DirectNeeds DEF HeaderOK
<1>9. ASSUME NEW m \in Listed \ {n} PROVE Owned(n) \cap Owned(m) = {}
  <2>1. PICK j \in Active : NameAt(j) = m /\ Owned(m) = Foot(j)
    BY <1>2, ListedAt
  <2>2. i # j
    BY <1>3, <2>1
  <2> QED
    BY <1>2, <1>3, <2>1, <2>2 DEF FilesOK
<1> QED
  BY <1>3, <1>5, <1>6, <1>7, <1>8, <1>9

\* No sector has two uses (SectorsDisjoint), at every moment of every operation, so
\* also on the disk that a crash leaves behind, when files need no index and are
\* closed before they are removed.
THEOREM NoSectorTwice ==
  ASSUME DirectFiles, ClosesFirst
  PROVE  Spec => []SectorsDisjoint
<1>1. Spec => []FSInv
  BY FileSystemInvariant
<1>2. FSInv => SectorsDisjoint
  BY Disjoint
<1> QED
  BY <1>1, <1>2, PTL

-----------------------------------------------------------------------------
(* The free map *)

\* Where the map is wrong, during an operation, only one file is concerned.
LEMMA Exact ==
  ASSUME FSInv
  PROVE  MapExact
<1>1. SUFFICES ASSUME Formatted
               PROVE  LET wrong == (freeMap \ InUse) \cup (InUse \ freeMap)
                      IN IF todo = <<>> THEN wrong = {}
                         ELSE \A m \in Listed \ {op} : wrong \cap Owned(m) = {}
  BY DEF MapExact
<1>2. /\ SystemOK /\ FilesOK
      /\ \/ todo = <<>> /\ op = NULL /\ Marked = Occupied
         \/ todo # <<>> /\ (Creating \/ Removing \/ Writing)
  BY <1>1, FormattedOK
<1>3. freeMap = Marked /\ InUse = Occupied
  BY <1>2, Lookup, ListedAt
<1>4. CASE Marked = Occupied
  BY <1>3, <1>4
<1>5. ASSUME todo # <<>>, NEW e \in Active, NameAt(e) = op, Marked = Occupied \ Foot(e),
             NEW m \in Listed \ {op}
      PROVE  ((freeMap \ InUse) \cup (InUse \ freeMap)) \cap Owned(m) = {}
  <2>1. PICK i \in Active : NameAt(i) = m /\ Owned(m) = Foot(i)
    BY <1>2, ListedAt
  <2>2. i # e
    BY <1>5, <2>1
  <2>3. Foot(i) \cap Foot(e) = {}
    BY <1>2, <2>2 DEF FilesOK
  <2> QED
    BY <1>3, <1>5, <2>1, <2>3
<1>6. CASE todo # <<>> /\ Creating
  <2>1. PICK n, h : n = op /\ h = born[n]
    OBVIOUS
  <2>2. PICK e \in Slot, sec \in Sector : Making(n, h, e, sec)
    BY <1>6, <2>1 DEF Creating
  <2>3. CASE Allocating(n, h, e, sec)
    BY <1>4, <2>3 DEF Allocating
  <2>4. CASE Listing(n, h, e, sec)
    <3>1. PICK j \in 1 .. NumDirEntries + 1 :
            /\ disk[sec] = WriteBack(h)
            /\ e < j => disk[DirAt[e]] = Entry(TRUE, n, sec)
            /\ e >= j => e \notin Active /\ NewFoot(h, sec) \cap Occupied = {}
            /\ Marked = Occupied \ NewFoot(h, sec)
      BY <2>4 DEF Listing
    <3>2. e < j \/ e >= j
      BY Layout DEF Slot
    <3>3. CASE e >= j
      <4>1. Marked = Occupied
        BY <3>1, <3>3
      <4> QED
        BY <1>4, <4>1
    <3>4. CASE e < j
      <4>1. disk[DirAt[e]] = Entry(TRUE, n, sec)
        BY <3>1, <3>4
      <4>2. e \in Active /\ NameAt(e) = n /\ HeadAt(e) = sec
        BY <4>1 DEF Active, NameAt, HeadAt, Entry
      <4>3. Foot(e) = NewFoot(h, sec)
        BY <3>1, <4>2 DEF Foot, NewFoot, SectorsAt, WriteBack
      <4> QED
        BY <1>5, <1>6, <2>1, <3>1, <4>2, <4>3
    <3> QED
      BY <3>2, <3>3, <3>4
  <2> QED
    BY <2>2, <2>3, <2>4 DEF Making
<1>7. CASE todo # <<>> /\ Removing
  <2>1. PICK n : n = op
    OBVIOUS
  <2>2. PICK e \in Slot : Dropping(n, e)
    BY <1>7, <2>1 DEF Removing
  <2>3. CASE Unmarking(n, e)
    BY <1>4, <2>3 DEF Unmarking
  <2>4. CASE Unlisting(n, e)
    <3>1. \/ e \in Active /\ NameAt(e) = n /\ Marked = Occupied \ Foot(e)
          \/ Marked = Occupied
      BY <2>4 DEF Unlisting
    <3> QED
      BY <1>4, <1>5, <1>7, <2>1, <3>1
  <2> QED
    BY <2>2, <2>3, <2>4 DEF Dropping
<1>8. CASE todo # <<>> /\ Writing
  BY <1>4, <1>8 DEF Writing, Filling
<1> QED
  BY <1>2, <1>4, <1>6, <1>7, <1>8

\* The free map marks exactly the sectors in use when no operation is in progress,
\* and in the middle of one it is right for every other file (MapExact).
THEOREM FreeMapExact ==
  ASSUME DirectFiles, ClosesFirst
  PROVE  Spec => []MapExact
<1>1. Spec => []FSInv
  BY FileSystemInvariant
<1>2. FSInv => MapExact
  BY Exact
<1> QED
  BY <1>1, <1>2, PTL

-----------------------------------------------------------------------------
(* The contents of the files *)

\* Every byte has a place in one of the file's sectors.
LEMMA HasPlace ==
  ASSUME NEW size \in Nat, NEW n, n = divRoundUp(size, SectorSize), NEW q \in 1 .. size
  PROVE  \E k \in 1 .. n, x \in 1 .. SectorSize : Place(q, k, x)
<1>1. PICK p : p = q - 1
  OBVIOUS
<1>2. p \in 0 .. size - 1 /\ q = p + 1 /\ p \in Int
  BY <1>1
<1>3. /\ n \in Nat /\ p \div SectorSize \in 0 .. n - 1 /\ p % SectorSize \in 0 .. SectorSize - 1
      /\ p = (p \div SectorSize) * SectorSize + (p % SectorSize)
  BY <1>2, RoundUp
<1>4. PICK j, r : j = p \div SectorSize /\ r = p % SectorSize
  OBVIOUS
<1>5. n \in Nat /\ j \in 0 .. n - 1 /\ r \in 0 .. SectorSize - 1 /\ p = j * SectorSize + r
  BY <1>3, <1>4
<1>6. SectorSize \in Nat /\ j \in Nat
  BY <1>5, FileHeaderAssumption
<1>7. PICK s \in Nat : s = j * SectorSize
  BY <1>6, WholeSectors
<1>8. j + 1 \in 1 .. n /\ r + 1 \in 1 .. SectorSize /\ (j + 1) - 1 = j /\ q = s + (r + 1)
  BY <1>2, <1>5, <1>6, <1>7
<1>9. Place(q, j + 1, r + 1)
  BY <1>7, <1>8 DEF Place
<1> QED
  BY <1>8, <1>9

\* What a file's sectors hold, byte by byte.
BytesOf(d, h, b) == \A q \in 1 .. Len(b) : ByteAt(d, h, q - 1) = b[q]

LEMMA AllBytes ==
  ASSUME NEW c, HeaderOK(c), NEW l1, NEW l2, NEW h, h = FetchFrom(c, l1, l2),
         NEW b \in Seq(Byte), Len(b) = c.numBytes, SectorsHold(c, b)
  PROVE  BytesOf(disk, h, b)
<1>1. ASSUME NEW q \in 1 .. Len(b) PROVE ByteAt(disk, h, q - 1) = b[q]
  <2>1. PICK k \in 1 .. c.numSectors, x \in 1 .. SectorSize : Place(q, k, x)
    <3>1. PICK size, n : size = c.numBytes /\ n = c.numSectors
      OBVIOUS
    <3>2. size \in Nat /\ n = divRoundUp(size, SectorSize) /\ q \in 1 .. size
      BY <3>1 DEF HeaderOK
    <3>3. \E k \in 1 .. n, x \in 1 .. SectorSize : Place(q, k, x)
      BY <3>2, HasPlace
    <3> QED
      BY <3>1, <3>3
  <2>2. SectorHolds(disk[c.dataSectors[k]], k, b)
    BY DEF SectorsHold
  <2>3. BytesRead(disk, h, k, b)
    BY <2>2, BytesHeld
  <2>4. q \in Int /\ q <= Len(b)
    OBVIOUS
  <2> QED
    BY <2>1, <2>3, <2>4 DEF BytesRead
<1> QED
  BY <1>1 DEF BytesOf

LEMMA ReadBytes ==
  ASSUME NEW d, NEW h, NEW b \in Seq(Byte), h.numBytes = Len(b), BytesOf(d, h, b),
         NEW position \in 0 .. Len(b), NEW len \in Nat
  PROVE  ReadAt(d, h, len, position)
           = SubSeq(b, position + 1, Least(position + len, Len(b)))
<1>1. PICK t, n : t = Transfer(h, len, position) /\ n = Len(b)
  OBVIOUS
<1>2. n \in Nat /\ position \in 0 .. n /\ t \in Nat /\ position + t <= n
      /\ Least(position + len, n) = position + t
  <2>1. n \in Nat /\ h.numBytes = n /\ position \in 0 .. n
    BY <1>1
  <2> QED
    BY <1>1, <2>1 DEF Transfer, Least
<1> DEFINE B(i) == ByteAt(d, h, position + i - 1)
           r == [i \in 1 .. t |-> B(i)]
<1>3. ReadAt(d, h, len, position) = r
  BY <1>1 DEF ReadAt
<1>4. ASSUME NEW i \in 1 .. t PROVE B(i) = b[position + i] /\ b[position + i] \in Byte
  <2>1. PICK q : q = position + i
    OBVIOUS
  <2>2. q \in 1 .. n /\ q - 1 = position + i - 1
    BY <1>2, <2>1
  <2>3. ByteAt(d, h, q - 1) = b[q] /\ b[q] \in Byte
    BY <1>1, <2>2 DEF BytesOf
  <2> QED
    BY <2>1, <2>2, <2>3
<1> HIDE DEF B
<1>5. r \in Seq(Byte) /\ Len(r) = t /\ \A i \in 1 .. t : r[i] = b[position + i]
  BY <1>2, <1>4
<1> HIDE DEF r
<1>6. PICK s : s = SubSeq(b, position + 1, position + t)
  OBVIOUS
<1>7. s \in Seq(Byte) /\ Len(s) = t /\ \A i \in 1 .. t : s[i] = b[position + i]
  <2>1. PICK u, v : u = position + 1 /\ v = position + t
    OBVIOUS
  <2>2. u \in Int /\ v \in Int /\ u \in 1 .. n + 1 /\ v <= n
    BY <1>2, <2>1
  <2>3. \A i \in u .. v : b[i] \in Byte
    <3>1. \A i \in u .. v : i \in 1 .. Len(b)
      BY <1>1, <2>2
    <3> QED
      BY <3>1
  <2>4. /\ s \in Seq(Byte) /\ Len(s) = IF u <= v THEN v - u + 1 ELSE 0
        /\ \A i \in 1 .. v - u + 1 : s[i] = b[u + i - 1]
    BY <1>6, <2>1, <2>2, <2>3, SubSeqProperties
  <2>5. v - u + 1 = t /\ (u <= v <=> t # 0) /\ \A i \in 1 .. t : u + i - 1 = position + i
    BY <1>2, <2>1
  <2> QED
    BY <1>2, <2>4, <2>5
<1>8. r = s
  BY <1>5, <1>7, SeqEqual
<1> QED
  BY <1>1, <1>2, <1>3, <1>6, <1>8

\* A file that its sectors hold reads as such.
LEMMA HeldReads ==
  ASSUME SystemOK, FilesOK, NEW i \in Active, NEW n, NameAt(i) = n, NEW b, Holds(i, b)
  PROVE  InDirectory(n) /\ b # NULL /\ ReadsAs(n, b)
<1>1. PICK c, h : c = disk[HeadAt(i)] /\ h = HeaderOf(n)
  OBVIOUS
<1>2. h = FetchFrom(c, -1, -1) /\ HeaderSector(n) = HeadAt(i) /\ InDirectory(n) /\ HeaderOK(c)
      /\ SectorsAt(i) = c.dataSectors
  BY <1>1, OwnedAt, FoundAt DEF FilesOK, SectorsAt
<1>3. b \in Seq(Byte) /\ Len(b) = c.numBytes /\ SectorsHold(c, b) /\ b # NULL
  <2>1. DOMAIN c.dataSectors = 1 .. c.numSectors
    BY <1>2 DEF HeaderOK
  <2>2. b \in Seq(Byte) /\ Len(b) = c.numBytes /\ SectorsHold(c, b)
    BY <1>1, <1>2, <2>1 DEF Holds, SectorsHold
  <2> QED
    BY <2>2, FileSystemAssumption
<1>4. h.numBytes = Len(b) /\ WriteBack(h) = c
  BY <1>2, <1>3 DEF FetchFrom, WriteBack, HeaderOK
<1>5. BytesOf(disk, h, b)
  BY <1>2, <1>3, AllBytes
<1>6. ASSUME NEW position \in 0 .. Len(b), NEW len \in 0 .. MaxLen + 1
      PROVE  ReadAt(disk, h, len, position)
               = SubSeq(b, position + 1, Least(position + len, Len(b)))
  <2>1. len \in Nat
    BY MaxLenType
  <2> QED
    BY <1>3, <1>4, <1>5, <2>1, ReadBytes
<1>7. ReadsAs(n, b)
  BY <1>1, <1>2, <1>3, <1>4, <1>6 DEF ReadsAs
<1> QED
  BY <1>2, <1>3, <1>7

\* In the middle of a write every byte is the old or the new one.
LEMMA Mixture ==
  ASSUME SystemOK, FilesOK, NEW i \in Active, NEW n, Filling(n, i)
  PROVE  /\ InDirectory(n) /\ files[n] # NULL /\ before[n] # NULL
         /\ \A p \in DOMAIN files[n] :
              ByteAt(disk, HeaderOf(n), p - 1) \in {files[n][p], before[n][p]}
<1>1. PICK c, h, new, old :
        c = disk[HeadAt(i)] /\ h = HeaderOf(n) /\ new = files[n] /\ old = before[n]
  OBVIOUS
<1>2. /\ NameAt(i) = n /\ new \in Seq(Byte) /\ old \in Seq(Byte)
      /\ Len(new) = c.numBytes /\ Len(old) = Len(new)
      /\ \A k \in DOMAIN SectorsAt(i) :
           SectorHolds(disk[SectorsAt(i)[k]], k, IF Pending(SectorsAt(i)[k]) THEN old ELSE new)
  BY <1>1 DEF Filling
<1>3. h = FetchFrom(c, -1, -1) /\ InDirectory(n) /\ HeaderOK(c) /\ SectorsAt(i) = c.dataSectors
  BY <1>1, <1>2, OwnedAt, FoundAt DEF FilesOK, SectorsAt
<1>4. new # NULL /\ old # NULL
  BY <1>2, FileSystemAssumption
<1>5. ASSUME NEW q \in DOMAIN new PROVE ByteAt(disk, h, q - 1) \in {new[q], old[q]}
  <2>1. PICK size, m : size = c.numBytes /\ m = c.numSectors
    OBVIOUS
  <2>2. size \in Nat /\ m = divRoundUp(size, SectorSize) /\ q \in 1 .. size
        /\ Len(old) = size /\ Len(new) = size
    BY <1>2, <1>3, <2>1 DEF HeaderOK
  <2>3. PICK k \in 1 .. m, x \in 1 .. SectorSize : Place(q, k, x)
    BY <2>2, HasPlace
  <2>4. PICK b \in {new, old} : SectorHolds(disk[c.dataSectors[k]], k, b)
    <3>1. k \in DOMAIN c.dataSectors
      BY <1>3, <2>1 DEF HeaderOK
    <3>2. SectorHolds(disk[c.dataSectors[k]], k, IF Pending(c.dataSectors[k]) THEN old ELSE new)
      BY <1>2, <1>3, <3>1
    <3> QED
      BY <3>2
  <2>5. BytesRead(disk, h, k, b)
    <3>1. k \in 1 .. c.numSectors
      BY <2>1
    <3> QED
      BY <1>3, <2>4, <3>1, BytesHeld
  <2>6. q \in Int /\ q <= Len(b)
    BY <2>2, <2>4
  <2>7. ByteAt(disk, h, q - 1) = b[q]
    BY <2>3, <2>5, <2>6 DEF BytesRead
  <2> QED
    BY <2>4, <2>7
<1> QED
  BY <1>1, <1>3, <1>4, <1>5

LEMMA Kept ==
  ASSUME FSInv
  PROVE  ContentsKept
<1>1. SUFFICES ASSUME Formatted, NEW n \in Name
               PROVE  IF todo = <<>> \/ n # op
                      THEN InDirectory(n) = (files[n] # NULL) /\ (InDirectory(n) => ReadsAs(n, files[n]))
                      ELSE \/ ~InDirectory(n) /\ NULL \in {before[n], files[n]}
                           \/ InDirectory(n) /\ (ReadsAs(n, files[n]) \/ ReadsAs(n, before[n]))
                           \/ /\ InDirectory(n) /\ NULL \notin {before[n], files[n]}
                              /\ \A p \in DOMAIN files[n] :
                                   ByteAt(disk, HeaderOf(n), p - 1) \in {files[n][p], before[n][p]}
  BY DEF ContentsKept
<1>2. /\ SystemOK /\ FilesOK /\ \A m \in Name \ {op} : Settled(m)
      /\ \/ todo = <<>> /\ op = NULL /\ Marked = Occupied
         \/ todo # <<>> /\ (Creating \/ Removing \/ Writing)
  BY <1>1, FormattedOK
<1>3. InDirectory(n) <=> \E i \in Active : NameAt(i) = n
  BY <1>2, FoundAt
<1>4. CASE todo = <<>> \/ n # op
  <2>1. Settled(n)
    BY <1>2, <1>4, FileSystemAssumption
  <2>2. CASE files[n] = NULL
    <3>1. ~InDirectory(n)
      BY <1>3, <2>1, <2>2 DEF Settled
    <3> QED
      BY <1>4, <2>2, <3>1 DEF InDirectory
  <2>3. CASE files[n] # NULL
    <3>1. PICK i \in Active : NameAt(i) = n /\ Holds(i, files[n])
      BY <2>1, <2>3 DEF Settled
    <3>2. InDirectory(n) /\ ReadsAs(n, files[n])
      BY <1>2, <3>1, HeldReads
    <3> QED
      BY <1>4, <2>3, <3>2 DEF InDirectory
  <2> QED
    BY <2>2, <2>3
<1>5. CASE todo # <<>> /\ n = op /\ Creating
  <2>1. PICK h : h = born[n]
    OBVIOUS
  <2>2. PICK e \in Slot, sec \in Sector : Making(n, h, e, sec)
    BY <1>5, <2>1 DEF Creating
  <2>3. /\ before[n] = NULL /\ files[n] = Zeros(h.numBytes) /\ HeaderOK(WriteBack(h))
        /\ \A i \in Active \ {e} : NameAt(i) # n
        /\ Allocating(n, h, e, sec) \/ Listing(n, h, e, sec)
    BY <2>2 DEF Making
  <2>4. CASE e \notin Active
    <3>1. ~InDirectory(n)
      BY <1>3, <2>3, <2>4
    <3> QED
      BY <1>5, <2>3, <3>1
  <2>5. CASE e \in Active
    <3>1. Listing(n, h, e, sec)
      BY <2>3, <2>5 DEF Allocating
    <3>2. PICK j \in 1 .. NumDirEntries + 1 :
            /\ disk[sec] = WriteBack(h)
            /\ \A k \in 1 .. h.numSectors : disk[h.dataSectors[k]] = Zero
            /\ e < j => disk[DirAt[e]] = Entry(TRUE, n, sec)
            /\ e >= j => e \notin Active
      BY <3>1 DEF Listing
    <3>3. e < j
      BY <2>5, <3>2, Layout DEF Slot
    <3>4. NameAt(e) = n /\ HeadAt(e) = sec
      BY <3>2, <3>3 DEF NameAt, HeadAt, Entry
    <3>5. /\ SectorsAt(e) = h.dataSectors /\ disk[HeadAt(e)].numBytes = h.numBytes
          /\ h.numBytes \in Nat /\ DOMAIN h.dataSectors = 1 .. h.numSectors /\ h.numSectors \in Nat
      <4>1. /\ SectorsAt(e) = h.dataSectors /\ disk[HeadAt(e)].numBytes = h.numBytes
        BY <3>2, <3>4 DEF SectorsAt, WriteBack
      <4>2. /\ WriteBack(h).numBytes = h.numBytes /\ WriteBack(h).dataSectors = h.dataSectors
            /\ WriteBack(h).numSectors = h.numSectors
        BY DEF WriteBack
      <4>3. /\ h.numBytes \in Nat /\ h.numSectors \in 0 .. NumDirect
            /\ h.dataSectors \in Seq(Sector) /\ Len(h.dataSectors) = h.numSectors
        BY <2>3, <4>2 DEF HeaderOK
      <4> QED
        BY <4>1, <4>3, FileHeaderAssumption
    <3>6. ASSUME NEW k \in DOMAIN SectorsAt(e)
          PROVE  SectorHolds(disk[SectorsAt(e)[k]], k, files[n])
      <4>1. k \in Nat \ {0} /\ disk[SectorsAt(e)[k]] = Zero
        BY <3>2, <3>5
      <4> QED
        BY <2>3, <3>5, <4>1, ZerosHeld
    <3>7. files[n] \in Seq(Byte) /\ Len(files[n]) = h.numBytes
      <4>1. 1 \in Nat \ {0}
        OBVIOUS
      <4> QED
        BY <2>3, <3>5, <4>1, ZerosHeld
    <3>8. Holds(e, files[n])
      BY <3>5, <3>6, <3>7 DEF Holds
    <3>9. InDirectory(n) /\ ReadsAs(n, files[n])
      BY <1>2, <2>5, <3>4, <3>8, HeldReads
    <3> QED
      BY <1>5, <3>9
  <2> QED
    BY <2>4, <2>5
<1>6. CASE todo # <<>> /\ n = op /\ Removing
  <2>1. PICK e \in Slot : Dropping(n, e)
    BY <1>6 DEF Removing
  <2>2. /\ files[n] = NULL /\ \A i \in Active \ {e} : NameAt(i) # n
        /\ Unmarking(n, e) \/ Unlisting(n, e)
    BY <2>1 DEF Dropping
  <2>3. e \notin Active \/ (e \in Active /\ NameAt(e) = n /\ Holds(e, before[n]))
    BY <2>2 DEF Unmarking, Unlisting
  <2>4. CASE e \notin Active
    <3>1. ~InDirectory(n)
      BY <1>3, <2>2, <2>4
    <3> QED
      BY <1>6, <2>2, <3>1
  <2>5. CASE e \in Active /\ NameAt(e) = n /\ Holds(e, before[n])
    <3>1. InDirectory(n) /\ ReadsAs(n, before[n])
      BY <1>2, <2>5, HeldReads
    <3> QED
      BY <1>6, <3>1
  <2> QED
    BY <2>3, <2>4, <2>5
<1>7. CASE todo # <<>> /\ n = op /\ Writing
  <2>1. PICK i \in Active : Filling(n, i)
    BY <1>7 DEF Writing
  <2>2. /\ InDirectory(n) /\ files[n] # NULL /\ before[n] # NULL
        /\ \A p \in DOMAIN files[n] :
             ByteAt(disk, HeaderOf(n), p - 1) \in {files[n][p], before[n][p]}
    BY <1>2, <2>1, Mixture
  <2> QED
    BY <1>7, <2>2
<1> QED
  BY <1>2, <1>4, <1>5, <1>6, <1>7

\* The files read as the operations so far have made them, and an operation that is
\* cut short leaves the others as they were (ContentsKept).
THEOREM FilesRead ==
  ASSUME DirectFiles, ClosesFirst
  PROVE  Spec => []ContentsKept
<1>1. Spec => []FSInv
  BY FileSystemInvariant
<1>2. FSInv => ContentsKept
  BY Kept
<1> QED
  BY <1>1, <1>2, PTL
=============================================================================
