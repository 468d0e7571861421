----------------------------- MODULE Translation -----------------------------
(***************************************************************************)
(* Address translation, machine/translate.cc with TranslatePTE of          *)
(* machine.cc and the page table of userprog/addrspace.cc, in the builds   *)
(* that define USE_TLB.                                                    *)
(*                                                                         *)
(* The translation state mmu has the TLB, the page table of the running    *)
(* program and the bitmap of frames.  valid is TRUE and readOnly FALSE in  *)
(* every page table entry there is, so neither is kept, and a TLB entry    *)
(* that is not valid is EmptyEntry.  Of NRU_N only the order matters,      *)
(* which SortTLB and SortPTE compute anew before each use.                 *)
(***************************************************************************)
EXTENDS Integers, FiniteSetsExt

CONSTANTS PageSize, NumPhysPages, TLBSize

ASSUME TranslationAssumption ==
  /\ PageSize \in Nat \ {0} /\ NumPhysPages \in Nat \ {0} /\ TLBSize \in Nat \ {0}

MemorySize == NumPhysPages * PageSize

EmptyEntry == [virtualPage |-> -1, physicalPage |-> -1, use |-> FALSE, dirty |-> FALSE]
IsValid(e) == e # EmptyEntry

\* The page table of the AddrSpace constructor: Find takes the frames in order.
FirstTable(realNumPages) ==
  [i \in 0 .. Min({realNumPages, NumPhysPages}) - 1 |->
     [virtualPage |-> i, physicalPage |-> i, use |-> FALSE, dirty |-> FALSE]]
FirstMMU(realNumPages) ==
  [tlb |-> [i \in 0 .. TLBSize - 1 |-> EmptyEntry],
   pageTable |-> FirstTable(realNumPages),
   bitmap |-> DOMAIN FirstTable(realNumPages)]

\* SortTLB and SwitchOutTLB, or SortPTE and LRU_PTE: the first entry of the lowest
\* class.
NRUClass(e) == (IF e.use THEN 2 ELSE 0) + (IF e.dirty THEN 1 ELSE 0)
NRUVictim(entries) ==
  LET lowest == Min({NRUClass(entries[i]) : i \in DOMAIN entries})
  IN Min({i \in DOMAIN entries : NRUClass(entries[i]) = lowest})

\* Mutant: the page goes on using the frame of the one it replaces.
UpdatePageTable_KeepsFrame(mmu, vpn) ==
  LET victim == NRUVictim(mmu.pageTable)
  IN [mmu EXCEPT !.pageTable[victim] =
        [virtualPage |-> vpn, physicalPage |-> @.physicalPage,
         use |-> FALSE, dirty |-> FALSE]]

\* PTEPageFaultException: UpdatePageTable and AddrSpace::SwitchPageTable.  The Mark is
\* reached only for a bit that is set.
UpdatePageTable(mmu, vpn) ==
  LET victim == NRUVictim(mmu.pageTable)
  IN [mmu EXCEPT
        !.pageTable[victim] = [virtualPage |-> vpn, physicalPage |-> vpn,
                               use |-> FALSE, dirty |-> FALSE],
        !.bitmap = @ \ {mmu.pageTable[victim].physicalPage}]

\* Mutant: the entry with the number of the page is taken for the page's own.
InTable_IndexOnly(mmu, vpn) == vpn \in DOMAIN mmu.pageTable

\* The test of TranslatePTE.
InTable(mmu, vpn) ==
  vpn \in DOMAIN mmu.pageTable /\ mmu.pageTable[vpn].virtualPage = vpn

\* TLBPageFaultException: TranslatePTE, whose entry is the one of the page or the one
\* that has just been replaced.
TranslatePTE(mmu, vpn) ==
  IF InTable(mmu, vpn) THEN [mmu |-> mmu, pageTableFrame |-> vpn]
  ELSE [mmu |-> UpdatePageTable(mmu, vpn), pageTableFrame |-> NRUVictim(mmu.pageTable)]

UpdateTLB(mmu, entry) ==
  LET free == {i \in 0 .. TLBSize - 1 : ~ IsValid(mmu.tlb[i])}
  IN [mmu EXCEPT !.tlb[IF free # {} THEN Min(free) ELSE NRUVictim(mmu.tlb)] = entry]

Touched(e, writing) == [e EXCEPT !.use = TRUE, !.dirty = @ \/ writing]

\* The rest of Translate: the state after it, the frame, and whether the kernel was
\* entered on the way.
Hit(mmu, i, writing) ==
  [mmu |-> [mmu EXCEPT !.tlb[i] = Touched(@, writing)],
   pageFrame |-> mmu.tlb[i].physicalPage, tlb_miss |-> FALSE]
Filled(mmu, frame, entry) ==
  [mmu |-> UpdateTLB([mmu EXCEPT !.pageTable[frame] = entry], entry),
   pageFrame |-> entry.physicalPage, tlb_miss |-> TRUE]
Miss(t, writing) ==
  Filled(t.mmu, t.pageTableFrame, Touched(t.mmu.pageTable[t.pageTableFrame], writing))

\* Translate for an aligned address.
Translate(mmu, vpn, writing) ==
  LET found == {i \in 0 .. TLBSize - 1 :
                  IsValid(mmu.tlb[i]) /\ mmu.tlb[i].virtualPage = vpn}
  IN IF found # {} THEN Hit(mmu, Min(found), writing)
     ELSE Miss(TranslatePTE(mmu, vpn), writing)
=============================================================================
