----------------------------- MODULE FileHeader -----------------------------
(***************************************************************************)
(* The free map (userprog/bitmap.cc) and the file header                   *)
(* (filesys/filehdr.cc): which sectors a file gets, how its header and     *)
(* index sectors record them, how a byte is found and how the sectors are  *)
(* given back.  A bit map is the set of the bits that are set.             *)
(*                                                                         *)
(* A sector's contents is a record whose field "kind" says what was        *)
(* written there last: "header", "index", "map", "entry" or "data".        *)
(***************************************************************************)
EXTENDS Integers, Sequences, FiniteSets

LOCAL INSTANCE SequencesExt

CONSTANTS NumSectors, SectorSize,
          NumDirect,          \* data sectors named in the header itself
          L1_INDEX_NUM        \* sector numbers that fit into an index sector

ASSUME FileHeaderAssumption ==
  /\ NumSectors \in Nat \ {0} /\ SectorSize \in Nat \ {0}
  /\ NumDirect \in Nat \ {0} /\ L1_INDEX_NUM \in Nat \ {0}

Sector == 0 .. NumSectors - 1

divRoundUp(n, s) == (n + s - 1) \div s

-----------------------------------------------------------------------------
(* BitMap *)

Clear(map) == Sector \ map

NumClear(map) == Cardinality(Clear(map))

\* What n calls of Find return: the clear bits in order, then -1.
Find(map, n) ==
  [i \in 1 .. n |->
     IF i > NumClear(map) THEN -1
     ELSE CHOOSE s \in Clear(map) : Cardinality({r \in Clear(map) : r < s}) = i - 1]

-----------------------------------------------------------------------------
(* Allocate *)

L1Sectors(n) == IF n > NumDirect THEN 1 ELSE 0

\* adSector: the index sectors below L2Index.
adSector(n) ==
  IF n > NumDirect + L1_INDEX_NUM
  THEN divRoundUp(n - NumDirect - L1_INDEX_NUM, L1_INDEX_NUM) ELSE 0

L2Sectors(n) == IF n > NumDirect + L1_INDEX_NUM THEN adSector(n) + 1 ELSE 0

\* How often Allocate calls Find for n data sectors.
Needed(n) == n + L1Sectors(n) + L2Sectors(n)

\* The test that lets Allocate go on.  With two levels of indexing it does not
\* count what is needed.
Fits(map, n) ==
  \/ n <= NumDirect + L1_INDEX_NUM /\ NumClear(map) >= Needed(n)
  \/ /\ n > NumDirect + L1_INDEX_NUM
     /\ n <= NumDirect + L1_INDEX_NUM + L1_INDEX_NUM * L1_INDEX_NUM
     /\ NumClear(map) > NumDirect + adSector(n) + 1
     /\ NumClear(map) > NumDirect + L1_INDEX_NUM + 1

Least(a, b) == IF a <= b THEN a ELSE b

\* An index buffer, filled up with -1.
IndexBuf(s) ==
  [kind |-> "index",
   entry |-> [i \in 1 .. L1_INDEX_NUM |-> IF i \in DOMAIN s THEN s[i] ELSE -1]]

\* sectorsGet cut into the direct sectors, the L1 group (its index sector first)
\* and the groups below L2.
Direct(get, n) == SubSeq(get, 1, Least(n, NumDirect))
L1Group(get, n) == SubSeq(get, NumDirect + 1,
                          Least(Len(get), NumDirect + L1_INDEX_NUM + 1))
L2At == NumDirect + L1_INDEX_NUM + 2
L2Group(get, i) ==
  LET from == L2At + 1 + (i - 1) * (L1_INDEX_NUM + 1)
  IN SubSeq(get, from, Least(Len(get), from + L1_INDEX_NUM))

Zero == [kind |-> "data", bytes |-> [i \in 1 .. SectorSize |-> 0]]
Write(s, c) == [sector |-> s, content |-> c]
ClearSector(get) == [i \in DOMAIN get |-> Write(get[i], Zero)]

\* The writes for a group: clear its sectors, then write its index.
GroupWrites(group) ==
  Append(ClearSector(group), Write(group[1], IndexBuf(Tail(group))))

\* Mutant: the L1 group takes one sector too few, so the next file is given it.
Taken_Short(map, n) == {s \in Sector : \E i \in 1 .. Needed(n) - L1Sectors(n) :
                                          Find(map, Needed(n))[i] = s}

\* The bits Allocate sets.
Taken(map, n) == {s \in Sector : \E i \in 1 .. Needed(n) : Find(map, Needed(n))[i] = s}

\* The header object Allocate fills in.
NewHeader(map, numBytes) ==
  LET n == divRoundUp(numBytes, SectorSize)
      get == Find(map, Needed(n))
  IN [numBytes |-> numBytes, numSectors |-> n, dataSectors |-> Direct(get, n),
      L1Index |-> IF L1Sectors(n) = 1 THEN get[NumDirect + 1] ELSE -1,
      L2Index |-> IF L2Sectors(n) > 0 THEN get[L2At] ELSE -1]

\* The sectors Allocate writes, in order.
AllocateWrites(map, numBytes) ==
  LET n == divRoundUp(numBytes, SectorSize)
      get == Find(map, Needed(n))
      groups == [i \in 1 .. adSector(n) |-> L2Group(get, i)]
  IN ClearSector(Direct(get, n))
     \o (IF L1Sectors(n) = 1 THEN GroupWrites(L1Group(get, n)) ELSE <<>>)
     \o (IF L2Sectors(n) = 0 THEN <<>>
         ELSE <<Write(get[L2At], Zero)>>
              \o FlattenSeq([i \in DOMAIN groups |-> GroupWrites(groups[i])])
              \o <<Write(get[L2At], IndexBuf([i \in DOMAIN groups |-> Head(groups[i])]))>>)

-----------------------------------------------------------------------------
(* The header on disk, and what is found through it *)

\* WriteBack: a sector holds numBytes, numSectors and dataSectors.  L1Index and
\* L2Index lie behind them in the object and are cut off.
WriteBack(h) ==
  [kind |-> "header", numBytes |-> h.numBytes, numSectors |-> h.numSectors,
   dataSectors |-> h.dataSectors]

\* FetchFrom into a new object, whose index fields hold l1 and l2 from before.
FetchFrom(content, l1, l2) ==
  [numBytes |-> content.numBytes, numSectors |-> content.numSectors,
   dataSectors |-> content.dataSectors, L1Index |-> l1, L2Index |-> l2]

\* Entry i (from 0) of what lies at sector s, taken as an index.  The code reads
\* whatever is there; for what is not an index the model has -1, which is no sector.
IndexEntry(disk, s, i) ==
  IF s \in Sector /\ disk[s].kind = "index" THEN disk[s].entry[i + 1] ELSE -1

\* The sector of a byte.
ByteToSector(disk, h, offset) ==
  LET cur == offset \div SectorSize
      behind == cur - NumDirect - L1_INDEX_NUM
  IN CASE cur < NumDirect -> h.dataSectors[cur + 1]
       [] cur >= NumDirect /\ behind < 0 -> IndexEntry(disk, h.L1Index, cur - NumDirect)
       [] behind >= 0 /\ behind < L1_INDEX_NUM * L1_INDEX_NUM ->
            IndexEntry(disk, IndexEntry(disk, h.L2Index, behind \div L1_INDEX_NUM),
                       behind % L1_INDEX_NUM)
       [] OTHER -> -1

\* The data sectors of a header.
DataSectors(disk, h) ==
  {ByteToSector(disk, h, (i - 1) * SectorSize) : i \in 1 .. h.numSectors}

\* The bits Deallocate clears: data and index sectors.
Deallocated(disk, h) ==
  DataSectors(disk, h)
  \cup (IF L1Sectors(h.numSectors) = 1 THEN {h.L1Index} ELSE {})
  \cup (IF L2Sectors(h.numSectors) = 0 THEN {}
        ELSE {h.L2Index} \cup {IndexEntry(disk, h.L2Index, j - 1) :
                                  j \in 1 .. adSector(h.numSectors)})
=============================================================================
