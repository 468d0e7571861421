----------------------------- MODULE FileSystem -----------------------------
(***************************************************************************)
(* The file system: FileSystem (filesys/filesys.cc), Directory             *)
(* (filesys/directory.cc) and OpenFile (filesys/openfile.cc) on a disk     *)
(* whose sectors are written one at a time.                                *)
(*                                                                         *)
(* Each operation first reads what it needs and then writes sectors.  Its  *)
(* action computes the writes and leaves them in todo; WriteSector does    *)
(* the next one, and Nachos may stop between any two (Crash).  There is    *)
(* one client: "this implementation assumes there is no concurrent         *)
(* access".                                                                *)
(*                                                                         *)
(* A directory entry takes 136 bytes and a sector 128, but inUse, sector   *)
(* and name of entry i (of 10) lie completely in sector i of the           *)
(* directory file: the model has one entry per sector.  The rest of the    *)
(* entry is never used.                                                    *)
(***************************************************************************)
EXTENDS FileHeader

CONSTANTS Name, NumDirEntries,
          Size,               \* the sizes in bytes a client asks for
          Data,               \* the byte sequences a client writes
          Position,           \* the positions a client seeks
          Byte, NULL,
          Pad,                \* what bytes of a new buffer may hold
          Leftover,           \* what the index fields of a new FileHeader may hold
          IndexedUse,         \* the client reads, writes and removes indexed files
          ClosesFirst         \* the client closes a file before it removes it

ASSUME FileSystemAssumption ==
  /\ NumDirEntries \in 1 .. NumDirect /\ Size \subseteq Nat /\ Position \subseteq Nat
  /\ 0 \in Byte /\ Pad \subseteq Byte /\ Data \subseteq Seq(Byte)
  /\ NULL \notin Name /\ NULL \notin Seq(Byte)
  /\ IndexedUse \in BOOLEAN /\ ClosesFirst \in BOOLEAN

\* The longest of the client's byte sequences; ReadFile asks for as many bytes.
ASSUME LongestData == \E d \in Data : \A e \in Data : Len(e) <= Len(d)

\* FileSystem(TRUE) asserts that the map and the directory get their sectors.
ASSUME FormatFits == 3 + NumDirEntries <= NumSectors

VARIABLES disk,
          todo,               \* the writes of the operation in progress
          running,            \* FALSE when Nachos has stopped
          open,               \* name -> its OpenFile object, or NULL
          op,                 \* history: name of the file being changed, or NULL
          files, before,      \* history: the bytes each file should have, now and
                              \* before the operation in progress
          born                \* history: the header object Create made for a file

histVars == <<op, files, before, born>>
vars == <<disk, todo, running, open, histVars>>

FreeMapSector == 0
DirectorySector == 1

Map(used) == [kind |-> "map", used |-> used]
Entry(inUse, name, sector) ==
  [kind |-> "entry", inUse |-> inUse, name |-> name, sector |-> sector]

\* The two files that are open all the time.
freeMapFile == disk[FreeMapSector].dataSectors[1]
directoryFile == disk[DirectorySector].dataSectors

-----------------------------------------------------------------------------
(* Start-up *)

\* The sizes of the map and the directory, in sectors.
MapBytes == SectorSize
DirBytes == NumDirEntries * SectorSize

mapUsed == {FreeMapSector, DirectorySector}
dirUsed == mapUsed \cup Taken(mapUsed, 1)
Reserved == dirUsed \cup Taken(dirUsed, NumDirEntries)

\* FileSystem(TRUE): headers of the two files, then their contents.
Format ==
  LET mapHdr == NewHeader(mapUsed, MapBytes)
      dirHdr == NewHeader(dirUsed, DirBytes)
  IN AllocateWrites(mapUsed, MapBytes) \o AllocateWrites(dirUsed, DirBytes)
     \o <<Write(FreeMapSector, WriteBack(mapHdr)), Write(DirectorySector, WriteBack(dirHdr))>>
     \o <<Write(mapHdr.dataSectors[1], Map(Reserved))>>
     \o [i \in 1 .. NumDirEntries |-> Write(dirHdr.dataSectors[i], Entry(FALSE, NULL, -1))]

Init ==
  /\ disk = [s \in Sector |-> Zero] /\ todo = Format /\ running = TRUE
  /\ open = [n \in Name |-> NULL]
  /\ op = NULL
  /\ files = [n \in Name |-> NULL] /\ before = files /\ born = files

\* History: the operation in progress is over.
Done(over) ==
  /\ op' = IF over THEN NULL ELSE op
  /\ before' = IF over THEN files ELSE before

\* The next WriteSector of the operation.  A sector number of -1 fails the
\* ASSERT of Disk::WriteRequest, and Nachos stops.
WriteSector ==
  /\ running /\ todo # <<>>
  /\ LET w == Head(todo)
     IN IF w.sector \in Sector
        THEN /\ disk' = [disk EXCEPT ![w.sector] = w.content]
             /\ todo' = Tail(todo) /\ UNCHANGED running
             /\ Done(todo' = <<>>)
        ELSE running' = FALSE /\ UNCHANGED <<disk, todo, op, before>>
  /\ UNCHANGED <<open, files, born>>

\* Nachos exits, at any time.
Crash ==
  /\ running /\ running' = FALSE
  /\ UNCHANGED <<disk, todo, open, histVars>>

\* Nachos starts again with FileSystem(FALSE); no operation had been cut short.
Restart ==
  /\ ~running /\ todo = <<>>
  /\ running' = TRUE /\ open' = [n \in Name |-> NULL]
  /\ UNCHANGED <<disk, todo, histVars>>

Ready == running /\ todo = <<>>

-----------------------------------------------------------------------------
(* Directory and free map, as an operation reads them *)

table == [i \in 1 .. NumDirEntries |-> disk[directoryFile[i]]]
freeMap == disk[freeMapFile].used

\* Directory::FindIndex: the first entry that is in use and has the name.
Named(i, n) == table[i].inUse /\ table[i].name = n
FindIndex(n) == {i \in DOMAIN table : Named(i, n) /\ \A j \in 1 .. i - 1 : ~Named(j, n)}
InDirectory(n) == FindIndex(n) # {}
HeaderSector(n) == table[CHOOSE i \in FindIndex(n) : TRUE].sector

\* Directory::Add takes the first entry that is not in use.
FreeEntry == {i \in DOMAIN table : ~table[i].inUse /\ \A j \in 1 .. i - 1 : table[j].inUse}

\* WriteBack of the free map and of the whole directory.
MapWrites(used) == <<Write(freeMapFile, Map(used))>>
DirWrites(t) == [i \in DOMAIN t |-> Write(directoryFile[i], t[i])]

-----------------------------------------------------------------------------
(* FileSystem *)

Begin(n, contents, writes) ==
  /\ op' = n /\ todo' = writes
  /\ before' = files /\ files' = [files EXCEPT ![n] = contents]

Zeros(size) == [i \in 1 .. size |-> 0]

\* Create when all its tests succeed; otherwise it writes nothing.
CanCreate(n, size) ==
  /\ ~InDirectory(n) /\ Clear(freeMap) # {} /\ FreeEntry # {}
  /\ Fits(freeMap \cup Taken(freeMap, 1), divRoundUp(size, SectorSize))

\* Mutant: the directory is written before the file's header.
CreateWrites_DirFirst(n, size) ==
  LET used == freeMap \cup Taken(freeMap, 1)
      sector == Find(freeMap, 1)[1]
      i == CHOOSE e \in FreeEntry : TRUE
  IN AllocateWrites(used, size)
     \o DirWrites([table EXCEPT ![i] = Entry(TRUE, n, sector)])
     \o <<Write(sector, WriteBack(NewHeader(used, size)))>>
     \o MapWrites(used \cup Taken(used, divRoundUp(size, SectorSize)))

\* Cleared sectors, header, directory and free map.
CreateWrites(n, size) ==
  LET used == freeMap \cup Taken(freeMap, 1)
      sector == Find(freeMap, 1)[1]
      i == CHOOSE e \in FreeEntry : TRUE
  IN AllocateWrites(used, size)
     \o <<Write(sector, WriteBack(NewHeader(used, size)))>>
     \o DirWrites([table EXCEPT ![i] = Entry(TRUE, n, sector)])
     \o MapWrites(used \cup Taken(used, divRoundUp(size, SectorSize)))

Create(n, size) ==
  /\ Ready /\ CanCreate(n, size)
  /\ Begin(n, Zeros(size), CreateWrites(n, size))
  /\ born' = [born EXCEPT ![n] = NewHeader(freeMap \cup Taken(freeMap, 1), size)]
  /\ UNCHANGED <<disk, running, open>>

Indexed(content) == content.numSectors > NumDirect

\* FileSystem::Open.
Open(n) ==
  /\ Ready /\ InDirectory(n) /\ open[n] = NULL
  /\ \E l1, l2 \in Leftover :
       open' = [open EXCEPT ![n] =
                  [hdr |-> FetchFrom(disk[HeaderSector(n)], l1, l2), seekPosition |-> 0]]
  /\ UNCHANGED <<disk, todo, running, histVars>>

Close(n) ==
  /\ Ready /\ open[n] # NULL /\ open' = [open EXCEPT ![n] = NULL]
  /\ UNCHANGED <<disk, todo, running, histVars>>

\* Mutant: the header's own sector stays marked.
RemoveWrites_KeepsHeader(n, h) ==
  MapWrites(freeMap \ Deallocated(disk, h))
  \o DirWrites([table EXCEPT ![CHOOSE i \in FindIndex(n) : TRUE].inUse = FALSE])

\* Free map, then directory.
RemoveWrites(n, h) ==
  MapWrites(freeMap \ (Deallocated(disk, h) \cup {HeaderSector(n)}))
  \o DirWrites([table EXCEPT ![CHOOSE i \in FindIndex(n) : TRUE].inUse = FALSE])

\* Deallocate asserts that the sectors are marked, or Nachos stops.
Remove(n) ==
  /\ Ready /\ InDirectory(n) /\ (ClosesFirst => open[n] = NULL)
  /\ IndexedUse \/ ~Indexed(disk[HeaderSector(n)])
  /\ \E l1, l2 \in Leftover :
       LET h == FetchFrom(disk[HeaderSector(n)], l1, l2)
       IN IF Deallocated(disk, h) \subseteq freeMap
          THEN /\ Begin(n, NULL, RemoveWrites(n, h)) /\ UNCHANGED running
               /\ born' = [born EXCEPT ![n] = NULL]
          ELSE running' = FALSE /\ UNCHANGED <<todo, histVars>>
  /\ UNCHANGED <<disk, open>>

-----------------------------------------------------------------------------
(* OpenFile *)

\* How many bytes a transfer of len bytes at position moves.
Transfer(h, len, position) ==
  IF len <= 0 \/ position >= h.numBytes THEN 0 ELSE Least(len, h.numBytes - position)

\* Byte number p (from 0) of the file.
ByteAt(d, h, p) ==
  LET s == ByteToSector(d, h, p)
  IN IF s \in Sector /\ d[s].kind = "data" THEN d[s].bytes[(p % SectorSize) + 1] ELSE -1

ReadAt(d, h, len, position) ==
  [i \in 1 .. Transfer(h, len, position) |-> ByteAt(d, h, position + i - 1)]

\* Sector s (of the file) of the buffer WriteAt writes back: the new bytes, around
\* them what ReadAt found, and behind the end of the file what the new buffer
\* happened to hold.
SectorBuf(h, s, bytes, position, pad) ==
  [kind |-> "data",
   bytes |-> [k \in 1 .. SectorSize |->
      LET p == s * SectorSize + k - 1
      IN IF p >= position /\ p < position + Len(bytes) THEN bytes[p - position + 1]
         ELSE IF p < h.numBytes THEN ByteAt(disk, h, p) ELSE pad]]

WriteAtWrites(h, bytes, position, pad) ==
  LET first == position \div SectorSize
      last == (position + Len(bytes) - 1) \div SectorSize
  IN [i \in 1 .. (IF bytes = <<>> THEN 0 ELSE last - first + 1) |->
        Write(ByteToSector(disk, h, (first + i - 1) * SectorSize),
              SectorBuf(h, first + i - 1, bytes, position, pad))]

\* What a file holds when bytes are put at position: the reference.
Overwrite(old, bytes, position) ==
  [p \in DOMAIN old |-> IF p > position /\ p <= position + Len(bytes)
                        THEN bytes[p - position] ELSE old[p]]

\* The client stays in front of the sectors found through an index.
InReach(h, len, position) ==
  IndexedUse \/ position + len <= NumDirect * SectorSize

\* OpenFile::Write, with WriteAt.
WriteFile(n, data) ==
  /\ Ready /\ open[n] # NULL
  /\ LET h == open[n].hdr
         position == open[n].seekPosition
         bytes == SubSeq(data, 1, Transfer(h, Len(data), position))
     IN /\ InReach(h, Len(bytes), position)
        /\ \E pad \in Pad : todo' = WriteAtWrites(h, bytes, position, pad)
        /\ open' = [open EXCEPT ![n].seekPosition = @ + Len(bytes)]
        /\ op' = (IF todo' = <<>> THEN NULL ELSE n) /\ before' = files
        /\ files' = IF files[n] = NULL THEN files
                    ELSE [files EXCEPT ![n] = Overwrite(@, bytes, position)]
  /\ UNCHANGED <<disk, running, born>>

\* OpenFile::Read, with ReadAt: its only effect is the new position.
ReadFile(n, len) ==
  /\ Ready /\ open[n] # NULL
  /\ InReach(open[n].hdr, len, open[n].seekPosition)
  /\ open' = [open EXCEPT ![n].seekPosition =
                @ + Len(ReadAt(disk, open[n].hdr, len, @))]
  /\ UNCHANGED <<disk, todo, running, histVars>>

Seek(n, position) ==
  /\ Ready /\ open[n] # NULL
  /\ open' = [open EXCEPT ![n].seekPosition = position]
  /\ UNCHANGED <<disk, todo, running, histVars>>

MaxLen == CHOOSE m \in {Len(d) : d \in Data} : \A d \in Data : Len(d) <= m

Next ==
  \/ WriteSector \/ Crash \/ Restart
  \/ \E n \in Name :
       \/ \E size \in Size : Create(n, size)
       \/ Open(n) \/ Close(n) \/ Remove(n)
       \/ \E data \in Data : WriteFile(n, data)
       \/ ReadFile(n, MaxLen)
       \/ \E position \in Position : Seek(n, position)

Spec == Init /\ [][Next]_vars

-----------------------------------------------------------------------------
(* Properties *)

Formatted == disk[DirectorySector].kind = "header" /\ disk[freeMapFile].kind = "map"
             /\ \A i \in 1 .. NumDirEntries : disk[directoryFile[i]].kind = "entry"

Listed == {n \in Name : InDirectory(n)}

\* The header of a file as Create made it; for a file that is being removed, as it
\* is found in the directory.
HeaderOf(n) == IF born[n] # NULL THEN born[n] ELSE FetchFrom(disk[HeaderSector(n)], -1, -1)
Owned(n) == Deallocated(disk, HeaderOf(n)) \cup {HeaderSector(n)}

\* No sector has two uses: the sectors of the files in the directory, their headers
\* and their index sectors are all different, and none is one of the system's.
\* This holds at every moment, so also on the disk that a crash leaves behind.
SectorsDisjoint ==
  Formatted =>
    \A n \in Listed :
      /\ Owned(n) \subseteq Sector \ Reserved
      /\ Cardinality(Owned(n)) = 1 + Needed(HeaderOf(n).numSectors)
      /\ \A m \in Listed \ {n} : Owned(n) \cap Owned(m) = {}

\* The free map marks exactly what is in use: no sector leaks when files come and go,
\* and a crash in the middle of an operation leaves wrong marks only for sectors of
\* the one file that was being created or removed.
InUse == Reserved \cup UNION {Owned(n) : n \in Listed}
MapExact ==
  Formatted =>
    LET wrong == (freeMap \ InUse) \cup (InUse \ freeMap)
    IN IF todo = <<>> THEN wrong = {}
       ELSE \A m \in Listed \ {op} : wrong \cap Owned(m) = {}

\* Every file that is in the directory reads as the operations so far have made it,
\* at every position and length, whether or not these are multiples of SectorSize.
\* When a crash cuts an operation short, the other files are untouched, and the one
\* being changed is as before, as after or, for a write, a mixture by sectors.
ReadsAs(n, bytes) ==
  /\ bytes # NULL /\ disk[HeaderSector(n)] = WriteBack(HeaderOf(n))
  /\ HeaderOf(n).numBytes = Len(bytes)
  /\ \A position \in 0 .. Len(bytes), len \in 0 .. MaxLen + 1 :
       ReadAt(disk, HeaderOf(n), len, position)
         = SubSeq(bytes, position + 1, Least(position + len, Len(bytes)))

ContentsKept ==
  Formatted =>
    \A n \in Name :
      IF todo = <<>> \/ n # op
      THEN InDirectory(n) = (files[n] # NULL) /\ (InDirectory(n) => ReadsAs(n, files[n]))
      ELSE \/ ~InDirectory(n) /\ NULL \in {before[n], files[n]}
           \/ InDirectory(n) /\ (ReadsAs(n, files[n]) \/ ReadsAs(n, before[n]))
           \/ /\ InDirectory(n) /\ NULL \notin {before[n], files[n]}
              /\ \A p \in DOMAIN files[n] :
                   ByteAt(disk, HeaderOf(n), p - 1) \in {files[n][p], before[n][p]}

\* "Convert a byte offset into the file to the disk sector containing the byte"
\* (filehdr.h:53): an open file finds the sectors that Create gave it.
OpenFindsSectors ==
  \A n \in Name :
    open[n] # NULL /\ born[n] # NULL =>
      \A i \in 1 .. born[n].numSectors :
        ByteToSector(disk, open[n].hdr, (i - 1) * SectorSize)
          = ByteToSector(disk, born[n], (i - 1) * SectorSize)
=============================================================================
