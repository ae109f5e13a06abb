-------------------------------- MODULE Heap --------------------------------
(***************************************************************************)
(* The kernel heap: malloc, calloc, realloc and free of kernel/stdlib.c    *)
(* over mmu_alloc_page of kernel/mmu.c.                                    *)
(*                                                                         *)
(* The heap is one singly linked list of blocks that starts at heap_start. *)
(* A block is a header (struct MemBlock, HDR bytes) followed by size       *)
(* usable bytes.  The list is the sequence heap: heap[1] is *heap_start,   *)
(* and heap[i].next is heap[i + 1].  Memory comes from a page allocator    *)
(* that only ever moves next_free_page up.                                 *)
(*                                                                         *)
(* Callers obey the C contract: they free or reallocate only pointers they *)
(* got and still own.  asked records what each of them asked for.          *)
(***************************************************************************)
EXTENDS Integers, Sequences, SequencesExt

CONSTANTS
  PAGE_SIZE,  (* bytes that one mmu_alloc_page adds (4096)                 *)
  MIN_ALLOC,  (* smallest block that malloc takes from a page (4096)       *)
  HDR,        (* sizeof(struct MemBlock) (24)                              *)
  ALIGN,      (* malloc rounds sizes up to a multiple of this (8)          *)
  SLACK,      (* payload a split must leave to the new block (32)          *)
  WORD,       (* size_t counts modulo this (2^64)                          *)
  BASE,       (* initial next_free_page (0x400000)                         *)
  HeapLimit,  (* bound: no page is handed out at or above this address     *)
  Requests,   (* the sizes callers ask for                                 *)
  CallocArgs  (* the pairs <<nmemb, size>> callers pass to calloc          *)

NULL == 0

ASSUME SizesAssumption ==
  /\ PAGE_SIZE \in Nat /\ MIN_ALLOC = PAGE_SIZE
  /\ HDR \in Nat \ {0} /\ HDR <= PAGE_SIZE
  /\ ALIGN \in Nat \ {0}
  /\ SLACK \in Nat
  /\ WORD \in Nat \ {0}
  /\ BASE \in Nat
  /\ HeapLimit \in Nat

(* 0x400000, 24 and 4096 are multiples of 8. *)
ASSUME AlignmentAssumption ==
  BASE % ALIGN = 0 /\ HDR % ALIGN = 0 /\ PAGE_SIZE % ALIGN = 0

ASSUME RequestsAssumption ==
  /\ Requests \subseteq Nat
  /\ CallocArgs \subseteq Nat \X Nat

VARIABLES
  heap,            (* the block list, in list order                        *)
  next_free_page,  (* mmu.c's bump pointer                                 *)
  asked,           (* ghost: pointer -> bytes its owner asked for          *)
  last,            (* ghost: what the last call did, and the memset or     *)
                   (* memcpy (ptr, len) it made into a new block           *)
  skewed           (* ghost: a realloc split a block at an unrounded size  *)

vars == <<heap, next_free_page, asked, last, skewed>>

Block == [addr: Nat, size: Nat, is_free: BOOLEAN]

(* The pointer malloc returns for a block (block + 1), and the address just *)
(* after the block.                                                         *)
Payload(b) == b.addr + HDR
End(b) == b.addr + HDR + b.size

(* Mutant of RoundUp: the size is used as it is. *)
NoRounding(n) == n

(* size = (size + 7) & ~7: clear the low bits. *)
RoundUp(n) == (n + (ALIGN - 1)) - ((n + (ALIGN - 1)) % ALIGN)

(* A product of two size_t, as calloc computes it. *)
Wrap(n) == IF n < WORD THEN n ELSE n % WORD

(* Every request, rounded up, fits a page together with its header. *)
RequestsFitAPage ==
  /\ \A n \in Requests : RoundUp(n) + HDR <= PAGE_SIZE
  /\ \A a \in CallocArgs : RoundUp(Wrap(a[1] * a[2])) + HDR <= PAGE_SIZE

-----------------------------------------------------------------------------
(* The block list.                                                         *)

(* init_block: a free block made of n bytes at address a. *)
InitBlock(a, n) == [addr |-> a, size |-> n - HDR, is_free |-> TRUE]

(* Mutant of FindFreeBlock: is_free is not tested. *)
FindAnyBlock(h, n) == SelectInSeq(h, LAMBDA b : b.size >= n)

(* find_free_block: the first free block of at least n bytes, 0 if none. *)
FindFreeBlock(h, n) ==
  SelectInSeq(h, LAMBDA b : b.is_free /\ b.size >= n)

(* Mutants of SplitBlock: the header is forgotten in the guard; the size of *)
(* the split block is not updated.                                          *)
SplitWithoutRoom(h, i, n) ==
  IF h[i].size >= n
    THEN InsertAt([h EXCEPT ![i].size = n], i + 1,
                  [addr    |-> h[i].addr + HDR + n,
                   size    |-> h[i].size - n - HDR,
                   is_free |-> TRUE])
    ELSE h

SplitKeepsSize(h, i, n) ==
  IF h[i].size >= n + HDR + SLACK
    THEN InsertAt(h, i + 1, [addr    |-> h[i].addr + HDR + n,
                             size    |-> h[i].size - n - HDR,
                             is_free |-> TRUE])
    ELSE h

(* split_block: cut block i down to n bytes if what is left can be a block. *)
SplitBlock(h, i, n) ==
  IF h[i].size >= n + HDR + SLACK
    THEN InsertAt([h EXCEPT ![i].size = n], i + 1,
                  [addr    |-> h[i].addr + HDR + n,
                   size    |-> h[i].size - n - HDR,
                   is_free |-> TRUE])
    ELSE h

(* The block malloc takes from the page at brk: one page, however large n. *)
PageBlock(brk, n) ==
  InitBlock(brk, IF n + HDR < MIN_ALLOC THEN MIN_ALLOC ELSE n + HDR)

(* malloc(n) on block list h with bump pointer brk. *)
Malloc(h, brk, n) ==
  IF n = 0 THEN [heap |-> h, brk |-> brk, ptr |-> NULL]
  ELSE LET size  == RoundUp(n)
           found == FindFreeBlock(h, size)
           i     == IF found = 0 THEN Len(h) + 1 ELSE found
           h1    == IF found = 0 THEN Append(h, PageBlock(brk, size)) ELSE h
       IN [heap |-> [SplitBlock(h1, i, size) EXCEPT ![i].is_free = FALSE],
           brk  |-> IF found = 0 THEN brk + PAGE_SIZE ELSE brk,
           ptr  |-> Payload(h1[i])]

(* The index of the block whose payload is at p: the header before p. *)
IndexOf(h, p) == SelectInSeq(h, LAMBDA b : Payload(b) = p)

(* Mutant of Free: the merge forgets the swallowed header. *)
FreeLosesHeader(h, p) ==
  LET i  == IndexOf(h, p)
      h1 == [h EXCEPT ![i].is_free = TRUE]
  IN IF i < Len(h) /\ h[i + 1].is_free
       THEN RemoveAt([h1 EXCEPT ![i].size = @ + h[i + 1].size], i + 1)
       ELSE h1

(* free(p) for p # NULL: mark the block, then swallow a free successor. *)
Free(h, p) ==
  LET i  == IndexOf(h, p)
      h1 == [h EXCEPT ![i].is_free = TRUE]
  IN IF i < Len(h) /\ h[i + 1].is_free
       THEN RemoveAt([h1 EXCEPT ![i].size = @ + HDR + h[i + 1].size], i + 1)
       ELSE h1

-----------------------------------------------------------------------------
(* Calls.                                                                  *)

Live == DOMAIN asked

Without(p) == [q \in Live \ {p} |-> asked[q]]

(* Record that p now holds n bytes for its owner; NULL gives nothing. *)
Owned(f, p, n) ==
  IF p = NULL THEN f
  ELSE [q \in DOMAIN f \cup {p} |-> IF q = p THEN n ELSE f[q]]

(* A call that did op, and wrote len bytes at ptr if ptr # NULL. *)
Did(op, ptr, len) == [op |-> op, ptr |-> ptr, len |-> len]

(* malloc and calloc either allocate or, for a size of 0, return NULL. *)
Allocated(r) == IF r.ptr = NULL THEN "none" ELSE "allocate"

Init ==
  /\ heap = << >>
  /\ next_free_page = BASE
  /\ asked = [p \in {} |-> 0]
  /\ last = Did("none", NULL, 0)
  /\ skewed = FALSE

(* The heap after a malloc with result r, if the bound allows the page. *)
TakeResult(r) ==
  /\ r.brk <= HeapLimit
  /\ heap' = r.heap
  /\ next_free_page' = r.brk

MallocCall(n) ==
  LET r == Malloc(heap, next_free_page, n)
  IN /\ TakeResult(r)
     /\ asked' = Owned(asked, r.ptr, n)
     /\ last' = Did(Allocated(r), NULL, 0)
     /\ UNCHANGED skewed

(* calloc multiplies first and clears what it got. *)
CallocCall(c, n) ==
  LET total == Wrap(c * n)
      r     == Malloc(heap, next_free_page, total)
  IN /\ TakeResult(r)
     /\ asked' = Owned(asked, r.ptr, c * n)
     /\ last' = Did(Allocated(r), r.ptr, total)
     /\ UNCHANGED skewed

FreeCall(p) ==
  /\ heap' = Free(heap, p)
  /\ asked' = Without(p)
  /\ last' = Did("release", NULL, 0)
  /\ UNCHANGED <<next_free_page, skewed>>

(* realloc of a block that is large enough: split_block with the size as   *)
(* the caller gave it, not rounded up.                                     *)
ReallocInPlace(p, n) ==
  LET i == IndexOf(heap, p)
  IN /\ n > 0
     /\ heap[i].size >= n
     /\ heap' = SplitBlock(heap, i, n)
     /\ asked' = Owned(asked, p, n)
     /\ last' = Did("resize", NULL, 0)
     /\ skewed' = (skewed \/ n % ALIGN # 0)
     /\ UNCHANGED next_free_page

(* Mutant of ReallocMove: the old block is freed, and merged, before its    *)
(* size is read for the copy.                                               *)
ReallocCopiesLate(p, n) ==
  LET old == heap[IndexOf(heap, p)]
      r   == Malloc(heap, next_free_page, n)
      h   == Free(r.heap, p)
  IN /\ old.size < n
     /\ r.brk <= HeapLimit
     /\ heap' = h
     /\ next_free_page' = r.brk
     /\ asked' = Owned(Without(p), r.ptr, n)
     /\ last' = Did("resize", r.ptr, h[IndexOf(h, p)].size)
     /\ UNCHANGED skewed

(* realloc of a block that is too small: malloc, copy the whole old block, *)
(* free the old block.                                                     *)
ReallocMove(p, n) ==
  LET old == heap[IndexOf(heap, p)]
      r   == Malloc(heap, next_free_page, n)
  IN /\ old.size < n
     /\ r.brk <= HeapLimit
     /\ heap' = Free(r.heap, p)
     /\ next_free_page' = r.brk
     /\ asked' = Owned(Without(p), r.ptr, n)
     /\ last' = Did("resize", r.ptr, old.size)
     /\ UNCHANGED skewed

(* realloc(NULL, n) is malloc(n); realloc(p, 0) is free(p). *)
ReallocCall(p, n) ==
  \/ p = NULL /\ MallocCall(n)
  \/ p # NULL /\ n = 0 /\ FreeCall(p)
  \/ p # NULL /\ ReallocInPlace(p, n)
  \/ p # NULL /\ ReallocMove(p, n)

Next ==
  \/ \E n \in Requests : MallocCall(n)
  \/ \E a \in CallocArgs : CallocCall(a[1], a[2])
  \/ \E p \in Live : FreeCall(p)
  \/ \E p \in Live \cup {NULL}, n \in Requests : ReallocCall(p, n)

Spec == Init /\ [][Next]_vars

-----------------------------------------------------------------------------
(* Properties.                                                             *)

(* The bytes of p that its owner was promised: what it asked for, modulo    *)
(* 2^64, since calloc does not notice that nmemb * size wrapped around.     *)
Promised == [p \in Live |-> Wrap(asked[p])]

A == INSTANCE Allocator WITH region <- Promised, op <- last.op

(* The heap is a list of blocks, the ghosts are maps of sizes. *)
TypeOK ==
  /\ heap \in Seq(Block)
  /\ next_free_page \in Nat
  /\ asked \in [Live -> Nat]
  /\ Live \subseteq Nat \ {NULL}
  /\ last \in [op: A!Ops, ptr: Nat, len: Nat]
  /\ skewed \in BOOLEAN

(* Blocks lie in list order and none reaches into a later one, so no header *)
(* or payload byte belongs to two blocks (find_free_block, split_block and  *)
(* free's merge all assume it).                                             *)
Ordered(h) ==
  \A i, j \in 1..Len(h) : i < j => End(h[i]) <= h[j].addr
BlocksOrdered == Ordered(heap)

(* The blocks tile the memory between the first page and next_free_page:    *)
(* nothing is lost between two blocks and no block reaches past the pages   *)
(* the heap was given.  This is what makes free's merge with block->next    *)
(* sound, for free never looks whether the next block is adjacent.          *)
Tiles(h, brk) ==
  /\ \A i \in 1..Len(h) : h[i].addr = IF i = 1 THEN BASE ELSE End(h[i - 1])
  /\ brk = IF Len(h) = 0 THEN BASE ELSE End(h[Len(h)])
Tiling == Tiles(heap, next_free_page)

(* The used blocks are exactly the ones that callers own: free and realloc  *)
(* release the block they were given and no other, malloc never hands out a *)
(* block twice.                                                             *)
UsedBlocks(h) == {h[i] : i \in {j \in 1..Len(h) : ~h[j].is_free}}
UsedIsLive == Live = {Payload(b) : b \in UsedBlocks(heap)}

(* A caller can use every byte it was promised, after any sequence of       *)
(* splits, merges and reallocs.                                             *)
EnoughBytes ==
  \A b \in UsedBlocks(heap) : Promised[Payload(b)] <= b.size

(* calloc's memset and realloc's memcpy stay inside the block they fill:    *)
(* realloc copies the size of the old block, whatever the new size is.      *)
FillFits ==
  last.ptr # NULL =>
    \E b \in UsedBlocks(heap) : Payload(b) = last.ptr /\ last.len <= b.size

(* Whatever was called before, the owners' pointers are exactly the used    *)
(* blocks, each owner has its bytes, and no call writes outside its block.  *)
OwnersServed == UsedIsLive /\ EnoughBytes /\ FillFits

(* malloc's rounding keeps every pointer aligned, as long as no realloc     *)
(* has split a block at an unrounded size.                                  *)
Aligned ==
  ~skewed => \A i \in 1..Len(heap) : Payload(heap[i]) % ALIGN = 0

(* Two callers never own the same byte. *)
LiveDisjoint ==
  \A p, q \in Live :
    p # q => (p .. p + Promised[p] - 1) \cap (q .. q + Promised[q] - 1) = {}

(* The heap implements the allocator that the callers of stdlib.h see. *)
AllocatorSpec == A!Spec

=============================================================================
