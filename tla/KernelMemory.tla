---------------------------- MODULE KernelMemory ----------------------------
(***************************************************************************)
(* The heap of kernel/stdlib.c and the page tables of kernel/mmu.c, which  *)
(* take their pages from the same bump pointer, over the tables that       *)
(* x86_64/boot/main.asm builds.                                            *)
(*                                                                         *)
(* A page of virtual memory is the tuple of its four table indices, root   *)
(* first.  tables holds the entries that were written; every other entry   *)
(* of a table page is zero, as mmu_alloc_page clears it.                   *)
(*                                                                         *)
(* Heap assumes that the heap's pages are contiguous.  They are not once a *)
(* page table lies between two of them, and free, which merges a block     *)
(* with the next one of the list wherever that is, then makes a block that *)
(* reaches into the page table: jumped says that this has happened.  The   *)
(* model ends there, since what is then written into such a block changes  *)
(* the tables.                                                             *)
(***************************************************************************)
EXTENDS Heap

CONSTANTS
  Indices,   (* indices of a table that are used (0 .. 511)                *)
  Pages,     (* the virtual pages that are mapped and unmapped             *)
  Frames     (* the physical pages they are mapped to                      *)

ASSUME PagesAssumption ==
  /\ {0, 1} \subseteq Indices /\ Indices \subseteq 0 .. 511
  /\ Pages \subseteq Indices \X Indices \X Indices \X Indices
  /\ BASE > 5

(* The boot loader's tables lie below BASE, as does the page 0x1000 that   *)
(* mmu_unmap_page takes for the root.                                      *)
page_table_l4 == 1
page_table_l3 == 2
page_table_l2 == 3
page_table_l2_2 == 4
LOW_PAGE == 5

VARIABLES
  tables,    (* <<table, index>> -> entry, for the entries that are set    *)
  jumped     (* ghost: free has merged two blocks that are not adjacent    *)

memoryVars == <<vars, tables, jumped>>

Entry(to, present, huge) == [to |-> to, present |-> present, huge |-> huge]
Cleared == Entry(0, FALSE, FALSE)
EntryOf(t, table, i) ==
  IF <<table, i>> \in DOMAIN t THEN t[<<table, i>>] ELSE Cleared
Store(t, table, i, entry) ==
  [k \in DOMAIN t \union {<<table, i>>} |->
     IF k = <<table, i>> THEN entry ELSE t[k]]

(* set_up_page_tables: the first two gigabytes in huge pages. *)
BootTables ==
  [k \in {<<page_table_l4, 0>>, <<page_table_l3, 0>>, <<page_table_l3, 1>>}
           \union ({page_table_l2, page_table_l2_2} \X Indices) |->
     CASE k[1] = page_table_l4 -> Entry(page_table_l3, TRUE, FALSE)
       [] k = <<page_table_l3, 0>> -> Entry(page_table_l2, TRUE, FALSE)
       [] k = <<page_table_l3, 1>> -> Entry(page_table_l2_2, TRUE, FALSE)
       [] OTHER -> Entry(0, TRUE, TRUE)]

MemoryInit == Init /\ tables = BootTables /\ jumped = FALSE

-----------------------------------------------------------------------------
(* mmu.c                                                                   *)

cr3 == page_table_l4

(* The memory while a call runs: the tables and the bump pointer. *)
Memory(t, brk) == [tables |-> t, brk |-> brk]

(* Mutants of Ensure: the page that becomes a table stays on offer; a      *)
(* table is made although there is one.                                    *)
EnsureShares(m, table, i, present) ==
  IF EntryOf(m.tables, table, i).present THEN m
  ELSE Memory(Store(m.tables, table, i, Entry(m.brk, present, FALSE)), m.brk)

EnsureAlways(m, table, i, present) ==
  Memory(Store(m.tables, table, i, Entry(m.brk, present, FALSE)),
         m.brk + PAGE_SIZE)

(* "Ensure ... exists": the entry gets the flags of the page being mapped. *)
Ensure(m, table, i, present) ==
  IF EntryOf(m.tables, table, i).present THEN m
  ELSE Memory(Store(m.tables, table, i, Entry(m.brk, present, FALSE)),
              m.brk + PAGE_SIZE)

(* The first four megabytes. *)
MappedByBootLoader(v) == v[1] = 0 /\ v[2] = 0 /\ v[3] < 2

MapLeaf(m, pd, phys, v, present) ==
  LET m3 == Ensure(m, pd, v[3], present)
      pt == EntryOf(m3.tables, pd, v[3]).to
  IN Memory(Store(m3.tables, pt, v[4], Entry(phys, present, FALSE)), m3.brk)

Map(m, phys, v, present) ==
  LET m1 == Ensure(m, cr3, v[1], present)
      pdp == EntryOf(m1.tables, cr3, v[1]).to
      m2 == Ensure(m1, pdp, v[2], present)
      pd == EntryOf(m2.tables, pdp, v[2]).to
  IN IF EntryOf(m2.tables, pd, v[3]).huge THEN m2
     ELSE MapLeaf(m2, pd, phys, v, present)

(* The flags matter as far as they contain PAGE_PRESENT. *)
mmu_map_page(phys, v, present) ==
  /\ UNCHANGED <<heap, asked, last, skewed, jumped>>
  /\ LET m == IF MappedByBootLoader(v) THEN Memory(tables, next_free_page)
              ELSE Map(Memory(tables, next_free_page), phys, v, present)
     IN /\ m.brk <= HeapLimit
        /\ tables' = m.tables
        /\ next_free_page' = m.brk

(* The page-directory entry of v that a walk from root finds. *)
DirectoryEntry(t, root, v) ==
  LET e4 == EntryOf(t, root, v[1])
      e3 == IF e4.present THEN EntryOf(t, e4.to, v[2]) ELSE Cleared
  IN IF e3.present THEN EntryOf(t, e3.to, v[3]) ELSE Cleared

(* The entry that translates v, if there is one. *)
Walk(t, v) ==
  LET e2 == DirectoryEntry(t, cr3, v)
  IN IF e2.present /\ ~e2.huge THEN EntryOf(t, e2.to, v[4]) ELSE e2

mmu_is_mapped(v) == Walk(tables, v).present

(* The tables after mmu_unmap_page(v).  The root is not cr3 but the page   *)
(* 0x1000, in which nothing is mapped (it is taken to be clear).           *)
Unmap(t, v) ==
  LET e2 == DirectoryEntry(t, LOW_PAGE, v)
  IN IF e2.present THEN Store(t, e2.to, v[4], Cleared) ELSE t

mmu_unmap_page(v) == tables' = Unmap(tables, v) /\ UNCHANGED <<vars, jumped>>

(* A caller takes a page for itself; mmu_free_page gives nothing back. *)
mmu_alloc_page ==
  /\ next_free_page + PAGE_SIZE <= HeapLimit
  /\ next_free_page' = next_free_page + PAGE_SIZE
  /\ UNCHANGED <<heap, asked, last, skewed, tables, jumped>>

-----------------------------------------------------------------------------
(* A step of the heap.  A block grows only where free merges it with its   *)
(* successor.                                                              *)
MergesAcrossGap ==
  \E i \in 1 .. Len(heap) - 1 :
    /\ End(heap[i]) # heap[i + 1].addr
    /\ \E j \in 1 .. Len(heap') :
         heap'[j].addr = heap[i].addr /\ heap'[j].size > heap[i].size

HeapStep ==
  /\ Next
  /\ jumped' = (jumped \/ MergesAcrossGap)
  /\ UNCHANGED tables

MemoryNext ==
  /\ ~jumped
  /\ \/ HeapStep
     \/ mmu_alloc_page
     \/ \E v \in Pages : mmu_unmap_page(v)
     \/ \E phys \in Frames, v \in Pages, present \in BOOLEAN :
          mmu_map_page(phys, v, present)

MemorySpec == MemoryInit /\ [][MemoryNext]_memoryVars

-----------------------------------------------------------------------------
(* Properties.                                                             *)

(* What the processor finds for v: its frame, or the huge page it lies in. *)
Translation(v) ==
  LET e == Walk(tables, v) IN IF mmu_is_mapped(v) THEN <<e.to, e.huge>> ELSE <<>>

(* mmu_map_page maps the page it is given as its flags say and changes the *)
(* translation of no other page, whichever table pages it had to make and  *)
(* whatever earlier calls left in the tables; a page that the boot loader  *)
(* maps keeps its translation.                                             *)
MapsJustThat ==
  [][memoryVars' # memoryVars =>
       \A phys \in Frames, v \in Pages, present \in BOOLEAN :
         mmu_map_page(phys, v, present) =>
           /\ \A w \in Pages \ {v} : Translation(w)' = Translation(w)
           /\ Translation(v)' = IF v[1] = 0 /\ v[2] < 2 THEN Translation(v)
                                ELSE IF present THEN <<phys, FALSE>>
                                ELSE <<>>]_memoryVars

(* The pages that mmu_map_page made into tables. *)
TablePages == {tables[k].to : k \in DOMAIN tables} \ (Frames \union 0 .. BASE - 1)


(* As long as free has not merged across a gap, the heap and the page      *)
(* tables keep out of each other's memory although they draw on one bump   *)
(* pointer in any order: no two callers of malloc share a byte, no block   *)
(* reaches into a table page, and every table page hangs on one entry.     *)
MemoryApart ==
  ~jumped =>
    /\ LiveDisjoint
    /\ \A i \in 1 .. Len(heap), t \in TablePages :
         End(heap[i]) <= t \/ t + PAGE_SIZE <= heap[i].addr
    /\ \A j, k \in DOMAIN tables :
         tables[j].to \in TablePages /\ tables[j].to = tables[k].to => j = k

(* "Virtual address still mapped after unmap": a page that mmu_map_page     *)
(* mapped is not mapped any more once mmu_unmap_page was called for it.     *)
UnmapTakesEffect ==
  \A v \in Pages :
    mmu_is_mapped(v) /\ ~Walk(tables, v).huge => ~Walk(Unmap(tables, v), v).present

=============================================================================
