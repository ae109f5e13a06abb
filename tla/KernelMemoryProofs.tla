------------------------- MODULE KernelMemoryProofs -------------------------
(***************************************************************************)
(* Proofs about the kernel's memory.                                       *)
(*                                                                         *)
(* The heap alone: for every page size, header size, alignment and set of  *)
(* requests that fit a page, the block list always tiles the heap's pages, *)
(* the used blocks are the ones that callers own, no two callers own the   *)
(* same byte, pointers are aligned, and the heap implements the abstract   *)
(* Allocator.                                                              *)
(*                                                                         *)
(* The memory that the heap and the page tables share: as long as free has *)
(* not merged across a gap, no block reaches into a page table, whatever   *)
(* order malloc, mmu_map_page and mmu_alloc_page take their pages in.  And *)
(* the tables: they stay a tree, and mmu_map_page changes the translation  *)
(* of the one page.                                                        *)
(***************************************************************************)
EXTENDS KernelMemory, TLAPS, SequenceTheorems, WellFoundedInduction

USE DEF NULL

(* Block b keeps out of the page at t. *)
Clear(b, t) == End(b) <= t \/ t + PAGE_SIZE <= b.addr

(* What the block list must satisfy with bump pointer brk: the blocks lie  *)
(* in order below brk and keep out of the pages in T, which others took    *)
(* from the bump pointer.  A tight list tiles the memory below brk: it is  *)
(* the list of a heap that alone draws on the bump pointer.                *)
Laid(h, brk, T, tight) ==
  /\ h \in Seq(Block) /\ brk \in Nat
  /\ Ordered(h)
  /\ \A j \in 1 .. Len(h) : End(h[j]) <= brk
  /\ \A t \in T : t \in Nat /\ t + PAGE_SIZE <= brk
  /\ \A j \in 1 .. Len(h), t \in T : Clear(h[j], t)
  /\ tight => Tiles(h, brk)

-----------------------------------------------------------------------------
(* Sequences and minima.                                                   *)

(* A nonempty set of natural numbers contains its Min. *)
LEMMA MinIsMember ==
  ASSUME NEW S \in SUBSET Nat, S # {}
  PROVE  Min(S) \in S
<1>1. \E x \in S : \A y \in S : ~(<<y, x>> \in OpToRel(<, Nat))
  BY NatLessThanWellFounded, WFMin, Zenon
<1>2. \A x, y \in Nat : <<y, x>> \in OpToRel(<, Nat) <=> y < x
  BY DEF OpToRel
<1>3. \E x \in S : \A y \in S : ~(y < x)
  BY <1>1, <1>2, Zenon
<1>4. \E x \in S : \A y \in S : x =< y
  BY <1>3
<1> QED
  BY <1>4 DEF Min

(* What InsertAt puts at position j, as one term. *)
Inserted(s, i, e, j) ==
  IF j < i THEN s[j] ELSE IF j = i THEN e ELSE s[j - 1]

(* What inserting an element into a list (new_block->next = block->next;   *)
(* block->next = new_block) does to the positions.                         *)
LEMMA InsertAtShape ==
  ASSUME NEW S, NEW s \in Seq(S), NEW i \in 1 .. Len(s) + 1, NEW e \in S
  PROVE  /\ InsertAt(s, i, e) \in Seq(S)
         /\ Len(InsertAt(s, i, e)) = Len(s) + 1
         /\ \A j \in 1 .. Len(s) + 1 :
              InsertAt(s, i, e)[j] = Inserted(s, i, e, j)
<1> DEFINE l == SubSeq(s, 1, i - 1)
           r == SubSeq(s, i, Len(s))
<1>1. /\ l \in Seq(S) /\ Len(l) = i - 1
      /\ \A j \in 1 .. i - 1 : l[j] = s[j]
  BY SubSeqProperties
<1>2. /\ r \in Seq(S) /\ Len(r) = Len(s) - i + 1
      /\ \A j \in 1 .. Len(s) - i + 1 : r[j] = s[i + j - 1]
  BY SubSeqProperties
<1>3. <<e>> \in Seq(S) /\ Len(<<e>>) = 1 /\ <<e>>[1] = e
  OBVIOUS
<1> DEFINE le == l \o <<e>>
<1> HIDE DEF l, r
<1>4. /\ le \in Seq(S) /\ Len(le) = i
      /\ \A j \in 1 .. i : le[j] = IF j <= i - 1 THEN s[j] ELSE e
  BY <1>1, <1>3, ConcatProperties
<1> HIDE DEF le
<1>5. /\ le \o r \in Seq(S)
      /\ Len(le \o r) = Len(s) + 1
      /\ \A j \in 1 .. Len(s) + 1 :
           (le \o r)[j] = IF j <= i THEN le[j] ELSE r[j - i]
  BY <1>2, <1>4, ConcatProperties
<1>6. \A j \in 1 .. Len(s) + 1 :
        (le \o r)[j] = IF j < i THEN s[j] ELSE IF j = i THEN e ELSE s[j - 1]
  BY <1>2, <1>4, <1>5
<1>7. \A j \in 1 .. Len(s) + 1 : (le \o r)[j] = Inserted(s, i, e, j)
  BY <1>6 DEF Inserted
<1>8. InsertAt(s, i, e) = le \o r
  BY DEF InsertAt, le, l, r
<1> QED
  BY <1>5, <1>7, <1>8, Zenon

(* What unlinking an element (block->next = block->next->next) does. *)
LEMMA RemoveAtShape ==
  ASSUME NEW S, NEW s \in Seq(S), NEW i \in 1 .. Len(s)
  PROVE  /\ RemoveAt(s, i) \in Seq(S)
         /\ Len(RemoveAt(s, i)) = Len(s) - 1
         /\ \A j \in 1 .. Len(s) - 1 :
              RemoveAt(s, i)[j] = IF j < i THEN s[j] ELSE s[j + 1]
<1> DEFINE l == SubSeq(s, 1, i - 1)
           r == SubSeq(s, i + 1, Len(s))
<1>1. /\ l \in Seq(S) /\ Len(l) = i - 1
      /\ \A j \in 1 .. i - 1 : l[j] = s[j]
  BY SubSeqProperties
<1>2. /\ r \in Seq(S) /\ Len(r) = Len(s) - i
      /\ \A j \in 1 .. Len(s) - i : r[j] = s[i + j]
  BY SubSeqProperties
<1> HIDE DEF l, r
<1>3. /\ l \o r \in Seq(S)
      /\ Len(l \o r) = Len(s) - 1
      /\ \A j \in 1 .. Len(s) - 1 :
           (l \o r)[j] = IF j <= i - 1 THEN l[j] ELSE r[j - (i - 1)]
  <2>1. /\ l \o r \in Seq(S)
        /\ Len(l \o r) = Len(l) + Len(r)
        /\ \A j \in 1 .. Len(l) + Len(r) :
             (l \o r)[j] = IF j <= Len(l) THEN l[j] ELSE r[j - Len(l)]
    BY <1>1, <1>2, ConcatProperties
  <2>2. Len(l) = i - 1 /\ Len(l) + Len(r) = Len(s) - 1
    BY <1>1, <1>2
  <2> QED
    BY <2>1, <2>2
<1>4. \A j \in 1 .. Len(s) - 1 : (l \o r)[j] = IF j < i THEN s[j] ELSE s[j + 1]
  BY <1>1, <1>2, <1>3
<1> QED
  BY <1>3, <1>4 DEF RemoveAt, l, r

-----------------------------------------------------------------------------
(* The helpers of malloc and free.                                         *)

(* Every element of a block list is a block. *)
LEMMA ElementsAreBlocks ==
  ASSUME NEW h \in Seq(Block), NEW i \in 1 .. Len(h)
  PROVE  /\ h[i] \in Block
         /\ h[i].addr \in Nat
         /\ h[i].size \in Nat
         /\ h[i].is_free \in BOOLEAN
<1>1. h[i] \in Block
  BY ElementOfSeq
<1> QED
  BY <1>1 DEF Block

(* find_free_block returns a block that is free and large enough. *)
LEMMA FindFreeBlockFinds ==
  ASSUME NEW h \in Seq(Block), NEW n \in Nat
  PROVE  /\ FindFreeBlock(h, n) \in 0 .. Len(h)
         /\ FindFreeBlock(h, n) # 0 =>
              /\ h[FindFreeBlock(h, n)].is_free
              /\ h[FindFreeBlock(h, n)].size >= n
<1> DEFINE I == {i \in 1 .. Len(h) : h[i].is_free /\ h[i].size >= n}
<1>1. FindFreeBlock(h, n) = IF I # {} THEN Min(I) ELSE 0
  BY DEF FindFreeBlock, SelectInSeq
<1>2. I \in SUBSET Nat
  OBVIOUS
<1>3. I # {} => Min(I) \in I
  BY <1>2, MinIsMember
<1> QED
  BY <1>1, <1>3

(* The header before a payload is the one block that has this payload. *)
LEMMA IndexOfFinds ==
  ASSUME NEW h \in Seq(Block), NEW p, NEW k \in 1 .. Len(h), Payload(h[k]) = p,
         Ordered(h)
  PROVE  IndexOf(h, p) = k
<1> DEFINE I == {i \in 1 .. Len(h) : Payload(h[i]) = p}
<1>1. IndexOf(h, p) = IF I # {} THEN Min(I) ELSE 0
  BY DEF IndexOf, SelectInSeq
<1>2. I \in SUBSET Nat /\ k \in I
  OBVIOUS
<1>3. Min(I) \in I
  BY <1>2, MinIsMember
<1>4. ASSUME NEW i \in I PROVE i = k
  <2>1. /\ h[i].addr \in Nat /\ h[i].size \in Nat
        /\ h[k].addr \in Nat /\ h[k].size \in Nat
    BY ElementsAreBlocks
  <2>2. h[i].addr = h[k].addr
    BY <2>1, SizesAssumption, SMTT(30) DEF Payload
  <2>3. ~(i < k) /\ ~(k < i)
    BY <2>1, <2>2, SizesAssumption, SMTT(30) DEF Ordered, End
  <2> QED
    BY <2>3
<1> QED
  BY <1>1, <1>2, <1>3, <1>4

(* Rounding never loses a byte. *)
LEMMA RoundUpBounds ==
  ASSUME NEW n \in Nat
  PROVE  RoundUp(n) \in Nat /\ n <= RoundUp(n)
<1> DEFINE m == n + (ALIGN - 1)
<1>1. m \in Nat /\ ALIGN \in Nat /\ ALIGN > 0
  BY SizesAssumption
<1>2. m % ALIGN \in 0 .. ALIGN - 1
  BY <1>1
<1> QED
  BY <1>1, <1>2 DEF RoundUp

-----------------------------------------------------------------------------
(* What each step on the block list preserves.                             *)

(* Blocks at different positions have different addresses. *)
LEMMA AddressesDiffer ==
  ASSUME NEW h \in Seq(Block), Ordered(h),
         NEW i \in 1 .. Len(h), NEW j \in 1 .. Len(h), i # j
  PROVE  h[i].addr # h[j].addr
<1>1. /\ h[i].addr \in Nat /\ h[i].size \in Nat
      /\ h[j].addr \in Nat /\ h[j].size \in Nat
  BY ElementsAreBlocks
<1> QED
  BY <1>1, SizesAssumption, SMTT(30) DEF Ordered, End

(* Changing a block's is_free moves nothing. *)
LEMMA MarkLaid ==
  ASSUME NEW h, NEW brk, NEW T, NEW tight, Laid(h, brk, T, tight),
         NEW i \in 1 .. Len(h),
         NEW e \in Block, e.addr = h[i].addr, e.size = h[i].size
  PROVE  /\ Laid([h EXCEPT ![i] = e], brk, T, tight)
         /\ Len([h EXCEPT ![i] = e]) = Len(h)
         /\ \A j \in 1 .. Len(h) : [h EXCEPT ![i] = e][j] = IF j = i THEN e ELSE h[j]
<1> DEFINE g == [h EXCEPT ![i] = e]
<1>1. h \in Seq(Block) /\ h[i] \in Block
  BY ElementsAreBlocks DEF Laid
<1>2. e.addr = h[i].addr /\ e.size = h[i].size
  OBVIOUS
<1>3. /\ g \in Seq(Block) /\ Len(g) = Len(h)
      /\ \A j \in 1 .. Len(h) : g[j] = IF j = i THEN e ELSE h[j]
  BY <1>1, ExceptSeq
<1> HIDE DEF g
<1>4. \A j \in 1 .. Len(h) : g[j].addr = h[j].addr /\ g[j].size = h[j].size
  BY <1>2, <1>3
<1>5. \A j \in 1 .. Len(h) : End(g[j]) = End(h[j])
  BY <1>4 DEF End
<1>6. Ordered(g)
  BY <1>3, <1>4, <1>5 DEF Laid, Ordered
<1>7. ASSUME tight PROVE Tiles(g, brk)
  <2>1. Len(h) \in Nat /\ Tiles(h, brk)
    BY <1>1, <1>7 DEF Laid
  <2>2. ASSUME NEW j \in 1 .. Len(h)
        PROVE  g[j].addr = IF j = 1 THEN BASE ELSE End(g[j - 1])
    <3>1. h[j].addr = IF j = 1 THEN BASE ELSE End(h[j - 1])
      BY <2>1 DEF Tiles
    <3>2. j # 1 => j - 1 \in 1 .. Len(h)
      BY <2>1
    <3> QED
      BY <1>4, <1>5, <3>1, <3>2
  <2>3. brk = IF Len(g) = 0 THEN BASE ELSE End(g[Len(g)])
    BY <1>3, <1>5, <2>1 DEF Tiles
  <2> QED
    BY <1>3, <2>2, <2>3 DEF Tiles
<1>8. Laid(g, brk, T, tight)
  BY <1>3, <1>4, <1>5, <1>6, <1>7 DEF Laid, Clear
<1> QED
  BY <1>3, <1>8 DEF g

(* The block c that split_block cuts off block b ends where b ended. *)
LEMMA HalvesMeet ==
  ASSUME NEW b, NEW c, NEW n \in Nat,
         b.addr \in Nat, b.size \in Nat, c.addr \in Nat, c.size \in Nat,
         c.addr = b.addr + HDR + n, c.size = b.size - n - HDR
  PROVE  End(c) = End(b) /\ b.addr <= c.addr /\ c.addr <= End(c)
BY SizesAssumption DEF End

(* split_block keeps the layout: the two halves fill the old block. *)
LEMMA SplitLaid ==
  ASSUME NEW h, NEW brk, NEW T, NEW tight, Laid(h, brk, T, tight),
         NEW i \in 1 .. Len(h), NEW n \in Nat,
         h[i].size >= n + HDR + SLACK
  PROVE  LET g == SplitBlock(h, i, n)
         IN /\ Laid(g, brk, T, tight)
            /\ Len(g) = Len(h) + 1
            /\ g[i] = [h[i] EXCEPT !.size = n]
            /\ g[i + 1].is_free
            /\ \A j \in 1 .. Len(h) + 1 :
                 /\ j < i => g[j] = h[j]
                 /\ j > i + 1 => g[j] = h[j - 1]
<1> DEFINE e == [h[i] EXCEPT !.size = n]
           f == [addr |-> h[i].addr + HDR + n, size |-> h[i].size - n - HDR,
                 is_free |-> TRUE]
           h1 == [h EXCEPT ![i] = e]
           g == InsertAt(h1, i + 1, f)
<1>0. HDR \in Nat /\ SLACK \in Nat
  BY SizesAssumption
<1>1. /\ h \in Seq(Block) /\ h[i] \in Block
      /\ h[i].addr \in Nat /\ h[i].size \in Nat
  BY ElementsAreBlocks DEF Laid
<1>2. e \in Block /\ e.addr = h[i].addr /\ e.size = n
  BY <1>1 DEF Block
<1>3. /\ f.addr = h[i].addr + HDR + n /\ f.addr \in Nat
      /\ f.size = h[i].size - n - HDR /\ f.size \in Nat
  BY <1>0, <1>1, SMTT(30)
<1>4. f \in Block /\ f.is_free
  BY <1>3 DEF Block
<1>5. g = SplitBlock(h, i, n)
  BY DEF SplitBlock
<1> HIDE DEF e, f
<1>6. /\ h1 \in Seq(Block) /\ Len(h1) = Len(h)
      /\ \A j \in 1 .. Len(h) : h1[j] = IF j = i THEN e ELSE h[j]
  BY <1>1, <1>2, ExceptSeq
<1> HIDE DEF h1
<1> DEFINE L == Len(h)
<1>7. L \in Nat /\ i \in 1 .. L /\ i + 1 \in 1 .. L + 1
  BY <1>1
<1>8. /\ g \in Seq(Block) /\ Len(g) = L + 1
      /\ \A j \in 1 .. L + 1 :
           g[j] = IF j < i + 1 THEN h1[j] ELSE IF j = i + 1 THEN f ELSE h1[j - 1]
  <2>1. f \in Block /\ h1 \in Seq(Block) /\ Len(h1) = L /\ i + 1 \in 1 .. Len(h1) + 1
    BY <1>4, <1>6, <1>7
  <2>2. g \in Seq(Block)
    BY <2>1, InsertAtShape
  <2>3. Len(g) = Len(h1) + 1
    BY <2>1, InsertAtShape, SMTT(30)
  <2>4. ASSUME NEW j \in 1 .. L + 1
        PROVE  g[j] = IF j < i + 1 THEN h1[j] ELSE IF j = i + 1 THEN f ELSE h1[j - 1]
    <3>1. \A k \in 1 .. Len(h1) + 1 : g[k] = Inserted(h1, i + 1, f, k)
      BY <2>1, InsertAtShape, Zenon
    <3>2. j \in 1 .. Len(h1) + 1
      BY <2>1
    <3>3. g[j] = Inserted(h1, i + 1, f, j)
      BY <3>1, <3>2, Zenon
    <3> QED
      BY <3>3, Zenon DEF Inserted
  <2> QED
    BY <2>1, <2>2, <2>3, <2>4, Zenon
<1> HIDE DEF g
<1>9. \A j \in 1 .. L : h1[j] = IF j = i THEN e ELSE h[j]
  BY <1>6
<1> HIDE DEF L
<1>10. /\ \A j \in 1 .. i - 1 : g[j] = h[j]
       /\ g[i] = e /\ g[i + 1] = f
       /\ \A j \in i + 2 .. L + 1 : g[j] = h[j - 1]
  <2>1. \A j \in 1 .. i - 1 : g[j] = h[j]
    BY <1>7, <1>8, <1>9
  <2>2. g[i] = e
    BY <1>7, <1>8, <1>9
  <2>3. g[i + 1] = f
    BY <1>7, <1>8
  <2>4. ASSUME NEW j \in i + 2 .. L + 1 PROVE g[j] = h[j - 1]
    <3>1. j \in 1 .. L + 1 /\ ~(j < i + 1) /\ j # i + 1 /\ j - 1 \in 1 .. L /\ j - 1 # i
      BY <1>7
    <3> QED
      BY <1>8, <1>9, <3>1
  <2> QED
    BY <2>1, <2>2, <2>3, <2>4
<1>11. \A j \in 1 .. L : End(h[j]) \in Nat /\ h[j].addr \in Nat
  BY <1>0, <1>1, ElementsAreBlocks, SMTT(30) DEF End, L
<1>12. /\ End(e) = f.addr /\ End(f) = End(h[i])
       /\ h[i].addr <= f.addr /\ f.addr <= End(f)
  <2>1. End(e) = f.addr
    BY <1>0, <1>1, <1>2, <1>3 DEF End
  <2> QED
    BY <1>1, <1>3, <2>1, HalvesMeet
<1>13. \A j, k \in 1 .. L : j < k => End(h[j]) <= h[k].addr
  BY DEF Laid, Ordered, L
<1>14. Ordered(g)
  <2> SUFFICES ASSUME NEW j \in 1 .. L + 1, NEW k \in 1 .. L + 1, j < k
               PROVE  End(g[j]) <= g[k].addr
    BY <1>8 DEF Ordered
  <2>1. CASE k < i
    <3>1. g[j] = h[j] /\ g[k] = h[k] /\ j \in 1 .. L /\ k \in 1 .. L
      BY <1>7, <1>10, <2>1
    <3> QED
      BY <1>13, <3>1
  <2>2. CASE k = i
    BY <1>2, <1>7, <1>10, <1>13, <2>2
  <2>3. CASE k = i + 1
    <3>1. CASE j = i
      BY <1>3, <1>10, <1>12, <2>3, <3>1
    <3>2. CASE j < i
      <4>1. g[j] = h[j] /\ j \in 1 .. L /\ g[k] = f
        BY <1>7, <1>10, <2>3, <3>2
      <4>2. End(h[j]) <= h[i].addr /\ End(h[j]) \in Nat
        BY <1>7, <1>11, <1>13, <3>2, <4>1
      <4>3. h[i].addr \in Nat /\ f.addr \in Nat /\ h[i].addr <= f.addr
        BY <1>1, <1>3, <1>12
      <4> QED
        BY <4>1, <4>2, <4>3
    <3> QED
      BY <1>7, <2>3, <3>1, <3>2
  <2>4. CASE k > i + 1
    <3>0. g[k] = h[k - 1] /\ k - 1 \in 1 .. L /\ i < k - 1
      BY <1>7, <1>10, <2>4
    <3>1. CASE j < i
      <4>1. g[j] = h[j] /\ j \in 1 .. L /\ j < k - 1
        BY <1>7, <1>10, <3>0, <3>1
      <4> QED
        BY <1>13, <3>0, <4>1
    <3>2. CASE j = i
      <4>1. g[j] = e /\ End(h[i]) <= h[k - 1].addr
        BY <1>7, <1>10, <1>13, <3>0, <3>2
      <4>2. h[k - 1].addr \in Nat /\ End(f) \in Nat
        BY <1>7, <1>11, <1>12, <3>0
      <4>3. End(e) <= End(f) /\ End(e) \in Nat /\ End(f) = End(h[i])
        BY <1>3, <1>12
      <4> QED
        BY <3>0, <4>1, <4>2, <4>3
    <3>3. CASE j = i + 1
      BY <1>7, <1>10, <1>12, <1>13, <3>0, <3>3
    <3>4. CASE j > i + 1
      <4>1. g[j] = h[j - 1] /\ j - 1 \in 1 .. L /\ j - 1 < k - 1
        BY <1>7, <1>10, <3>4
      <4> QED
        BY <1>13, <3>0, <4>1
    <3> QED
      BY <1>7, <3>1, <3>2, <3>3, <3>4
  <2> QED
    BY <1>7, <2>1, <2>2, <2>3, <2>4
<1>15. ASSUME tight PROVE Tiles(g, brk)
  <2>0. /\ \A j \in 1 .. L : h[j].addr = IF j = 1 THEN BASE ELSE End(h[j - 1])
        /\ brk = IF L = 0 THEN BASE ELSE End(h[L])
    BY <1>15 DEF Laid, Tiles, L
  <2>1. ASSUME NEW j \in 1 .. L + 1
        PROVE  g[j].addr = IF j = 1 THEN BASE ELSE End(g[j - 1])
    <3>1. CASE j < i
      <4>1. g[j] = h[j] /\ j \in 1 .. L /\ (j # 1 => g[j - 1] = h[j - 1])
        BY <1>7, <1>10, <3>1
      <4> QED
        BY <2>0, <4>1
    <3>2. CASE j = i
      BY <1>2, <1>7, <1>10, <2>0, <3>2
    <3>3. CASE j = i + 1
      BY <1>7, <1>10, <1>12, <3>3
    <3>4. CASE j = i + 2
      <4>1. g[j] = h[i + 1] /\ g[j - 1] = f /\ i + 1 \in 1 .. L
        BY <1>7, <1>10, <3>4
      <4> QED
        BY <1>7, <1>12, <2>0, <3>4, <4>1
    <3>5. CASE j > i + 2
      <4>1. /\ g[j] = h[j - 1] /\ g[j - 1] = h[(j - 1) - 1]
            /\ j - 1 \in 1 .. L /\ j - 1 # 1 /\ j # 1
        BY <1>7, <1>10, <3>5
      <4> QED
        BY <2>0, <4>1
    <3> QED
      BY <1>7, <3>1, <3>2, <3>3, <3>4, <3>5
  <2>2. brk = End(g[L + 1])
    <3>1. CASE i = L
      BY <1>7, <1>10, <1>12, <2>0, <3>1
    <3>2. CASE i < L
      <4>1. g[L + 1] = h[(L + 1) - 1]
        BY <1>7, <1>10, <3>2
      <4> QED
        BY <1>7, <2>0, <3>2, <4>1
    <3> QED
      BY <1>7, <3>1, <3>2
  <2> QED
    BY <1>7, <1>8, <2>1, <2>2 DEF Tiles
<1>16. Laid(g, brk, T, tight)
  <2>1. ASSUME NEW j \in 1 .. L + 1
        PROVE  \E k \in 1 .. L : h[k].addr <= g[j].addr /\ End(g[j]) <= End(h[k])
                                 /\ g[j].addr \in Nat /\ End(g[j]) \in Nat
    <3>1. CASE j < i
      BY <1>7, <1>10, <1>11, <3>1, SMTT(30)
    <3>2. CASE j = i
      BY <1>1, <1>2, <1>3, <1>7, <1>10, <1>11, <1>12, <3>2, SMTT(30)
    <3>3. CASE j = i + 1
      BY <1>1, <1>3, <1>7, <1>10, <1>11, <1>12, <3>3, SMTT(30)
    <3>4. CASE j > i + 1
      <4>1. g[j] = h[j - 1] /\ j - 1 \in 1 .. L
        BY <1>7, <1>10, <3>4
      <4> QED
        BY <1>11, <4>1
    <3> QED
      BY <1>7, <3>1, <3>2, <3>3, <3>4
  <2>2. /\ \A j \in 1 .. L : End(h[j]) <= brk
        /\ \A t \in T : t \in Nat /\ t + PAGE_SIZE <= brk
        /\ \A j \in 1 .. L, t \in T : End(h[j]) <= t \/ t + PAGE_SIZE <= h[j].addr
        /\ brk \in Nat /\ PAGE_SIZE \in Nat
    BY SizesAssumption DEF Laid, Clear, L
  <2>3. ASSUME NEW j \in 1 .. L + 1
        PROVE  End(g[j]) <= brk /\ \A t \in T : Clear(g[j], t)
    <3>1. PICK k \in 1 .. L : h[k].addr <= g[j].addr /\ End(g[j]) <= End(h[k])
                             /\ g[j].addr \in Nat /\ End(g[j]) \in Nat
      BY <2>1
    <3> QED
      BY <1>11, <2>2, <3>1, SMTT(30) DEF Clear
  <2> QED
    BY <1>8, <1>14, <1>15, <2>2, <2>3 DEF Laid
<1>17. \A j \in 1 .. L + 1 : /\ j < i => g[j] = h[j]
                             /\ j > i + 1 => g[j] = h[j - 1]
  BY <1>7, <1>10
<1> QED
  BY <1>4, <1>5, <1>8, <1>10, <1>16, <1>17 DEF e, L

(* A new block on the page at brk continues the tiling. *)
LEMMA AppendLaid ==
  ASSUME NEW h, NEW brk, NEW T, NEW tight, Laid(h, brk, T, tight),
         NEW b \in Block, b.addr = brk
  PROVE  /\ Laid(Append(h, b), End(b), T, tight)
         /\ Len(Append(h, b)) = Len(h) + 1
         /\ \A j \in 1 .. Len(h) : Append(h, b)[j] = h[j]
         /\ Append(h, b)[Len(h) + 1] = b
<1> DEFINE g == Append(h, b)
           L == Len(h)
<1>1. h \in Seq(Block) /\ brk \in Nat /\ L \in Nat
  BY DEF Laid
<1>2. /\ g \in Seq(Block) /\ Len(g) = L + 1
      /\ \A j \in 1 .. L : g[j] = h[j]
      /\ g[L + 1] = b
  BY <1>1
<1>3. b.addr \in Nat /\ b.size \in Nat /\ HDR \in Nat
  BY SizesAssumption DEF Block
<1>4. End(b) \in Nat
  BY <1>3 DEF End
<1>5. \A j, k \in 1 .. L : j < k => End(h[j]) <= h[k].addr
  BY DEF Laid, Ordered
<1>6. \A j \in 1 .. L : /\ End(h[j]) \in Nat /\ h[j].addr \in Nat
                        /\ h[j].addr <= End(h[j])
  BY <1>1, <1>3, ElementsAreBlocks, SMTT(30) DEF End
<1> HIDE DEF g, L
<1>7. \A j \in 1 .. L : End(h[j]) <= brk
  BY DEF Laid, L
<1>8. Ordered(g)
  <2> SUFFICES ASSUME NEW j \in 1 .. L + 1, NEW k \in 1 .. L + 1, j < k
               PROVE  End(g[j]) <= g[k].addr
    BY <1>2 DEF Ordered
  <2>1. j \in 1 .. L /\ g[j] = h[j]
    BY <1>1, <1>2
  <2>2. CASE k = L + 1
    BY <1>2, <1>7, <2>1, <2>2
  <2>3. CASE k < L + 1
    <3>1. k \in 1 .. L /\ g[k] = h[k]
      BY <1>1, <1>2, <2>3
    <3> QED
      BY <1>5, <2>1, <3>1
  <2> QED
    BY <1>1, <2>2, <2>3
<1>9. ASSUME tight PROVE Tiles(g, End(b))
  <2>0. /\ \A j \in 1 .. L : h[j].addr = IF j = 1 THEN BASE ELSE End(h[j - 1])
        /\ brk = IF L = 0 THEN BASE ELSE End(h[L])
    BY <1>9 DEF Laid, Tiles, L
  <2>1. ASSUME NEW j \in 1 .. L + 1
        PROVE  g[j].addr = IF j = 1 THEN BASE ELSE End(g[j - 1])
    <3>1. CASE j = L + 1
      BY <1>1, <1>2, <2>0, <3>1
    <3>2. CASE j < L + 1
      <4>1. j \in 1 .. L /\ g[j] = h[j] /\ (j # 1 => g[j - 1] = h[j - 1])
        BY <1>1, <1>2, <3>2
      <4> QED
        BY <2>0, <4>1
    <3> QED
      BY <1>1, <3>1, <3>2
  <2> QED
    BY <1>1, <1>2, <2>1 DEF Tiles
<1>10. brk <= End(b)
  BY <1>1, <1>3 DEF End
<1>11. ASSUME NEW j \in 1 .. L + 1
       PROVE  End(g[j]) <= End(b) /\ \A t \in T : Clear(g[j], t)
  <2>1. CASE j = L + 1
    BY <1>2, <1>4, <2>1 DEF Laid, Clear
  <2>2. CASE j # L + 1
    <3>1. j \in 1 .. L /\ g[j] = h[j]
      BY <1>1, <1>2, <2>2
    <3>2. End(h[j]) <= End(b)
      BY <1>1, <1>4, <1>6, <1>7, <1>10, <3>1
    <3> QED
      BY <3>1, <3>2 DEF Laid, L
  <2> QED
    BY <2>1, <2>2
<1>12. \A t \in T : t \in Nat /\ t + PAGE_SIZE <= End(b)
  BY <1>1, <1>4, <1>10, SizesAssumption DEF Laid
<1>13. Laid(g, End(b), T, tight)
  BY <1>2, <1>4, <1>8, <1>9, <1>11, <1>12 DEF Laid
<1> QED
  BY <1>2, <1>13 DEF g, L

(* A block that swallowed its neighbour c ends where c ended. *)
LEMMA MergedEnd ==
  ASSUME NEW b, NEW c, NEW m,
         b.addr \in Nat, b.size \in Nat, c.addr \in Nat, c.size \in Nat,
         c.addr = b.addr + HDR + b.size,
         m.addr = b.addr, m.size = b.size + HDR + c.size
  PROVE  End(m) = End(c)
BY SizesAssumption DEF End

(* Block i ends where the next block of the list starts. *)
Adjoins(h, i) == End(h[i]) = h[i + 1].addr

(* free's merge keeps the layout if the next block in the list is the next *)
(* block in memory.                                                        *)
LEMMA MergeLaid ==
  ASSUME NEW h, NEW brk, NEW T, NEW tight, Laid(h, brk, T, tight),
         NEW i \in 1 .. Len(h), i < Len(h), Adjoins(h, i)
  PROVE  LET g == RemoveAt([h EXCEPT ![i].size = @ + HDR + h[i + 1].size], i + 1)
         IN /\ Laid(g, brk, T, tight)
            /\ Len(g) = Len(h) - 1
            /\ g[i] = [h[i] EXCEPT !.size = h[i].size + HDR + h[i + 1].size]
            /\ \A j \in 1 .. Len(h) - 1 :
                 /\ j < i => g[j] = h[j]
                 /\ j > i => g[j] = h[j + 1]
<1> DEFINE e == [h[i] EXCEPT !.size = h[i].size + HDR + h[i + 1].size]
           h1 == [h EXCEPT ![i] = e]
           g == RemoveAt(h1, i + 1)
           L == Len(h)
<1>0. HDR \in Nat
  BY SizesAssumption
<1>1. /\ h \in Seq(Block) /\ L \in Nat /\ i \in 1 .. L /\ i + 1 \in 1 .. L
      /\ i < L
  BY DEF Laid
<1>2. /\ h[i] \in Block /\ h[i].addr \in Nat /\ h[i].size \in Nat
      /\ h[i + 1].addr \in Nat /\ h[i + 1].size \in Nat
  BY <1>1, ElementsAreBlocks
<1>3. h[i].size + HDR + h[i + 1].size \in Nat
  BY <1>0, <1>2, SMTT(30)
<1>4. /\ e \in Block /\ e.addr = h[i].addr
      /\ e.size = h[i].size + HDR + h[i + 1].size
  BY <1>2, <1>3 DEF Block
<1> HIDE DEF e
<1>5. /\ h1 \in Seq(Block) /\ Len(h1) = L
      /\ \A j \in 1 .. L : h1[j] = IF j = i THEN e ELSE h[j]
  BY <1>1, <1>4, ExceptSeq
<1> HIDE DEF h1
<1>6. g \in Seq(Block) /\ Len(g) = L - 1
  BY <1>1, <1>5, RemoveAtShape
<1>7. ASSUME NEW j \in 1 .. L - 1
      PROVE  g[j] = IF j < i + 1 THEN h1[j] ELSE h1[j + 1]
  BY <1>1, <1>5, RemoveAtShape
<1> HIDE DEF g, L
<1>8. /\ \A j \in 1 .. i - 1 : g[j] = h[j]
      /\ g[i] = e
      /\ \A j \in i + 1 .. L - 1 : g[j] = h[j + 1]
  <2>1. ASSUME NEW j \in 1 .. i - 1 PROVE g[j] = h[j]
    <3>1. j \in 1 .. L - 1 /\ j < i + 1 /\ j \in 1 .. L /\ j # i
      BY <1>1
    <3> QED
      BY <1>5, <1>7, <3>1, Zenon
  <2>2. g[i] = e
    <3>1. i \in 1 .. L - 1 /\ i < i + 1
      BY <1>1
    <3> QED
      BY <1>1, <1>5, <1>7, <3>1, Zenon
  <2>3. ASSUME NEW j \in i + 1 .. L - 1 PROVE g[j] = h[j + 1]
    <3>1. j \in 1 .. L - 1 /\ ~(j < i + 1) /\ j + 1 \in 1 .. L /\ j + 1 # i
      BY <1>1
    <3> QED
      BY <1>5, <1>7, <3>1, Zenon
  <2> QED
    BY <2>1, <2>2, <2>3
<1>9. \A j, k \in 1 .. L : j < k => End(h[j]) <= h[k].addr
  BY DEF Laid, Ordered, L
<1>10. End(e) = End(h[i + 1])
  <2>1. h[i + 1].addr = h[i].addr + HDR + h[i].size
    BY DEF Adjoins, End
  <2> QED
    BY <1>2, <1>4, <2>1, MergedEnd
<1>11. Ordered(g)
  <2> SUFFICES ASSUME NEW j \in 1 .. L - 1, NEW k \in 1 .. L - 1, j < k
               PROVE  End(g[j]) <= g[k].addr
    BY <1>6 DEF Ordered
  <2> DEFINE k1 == IF k <= i THEN k ELSE k + 1
             j1 == IF j < i THEN j ELSE j + 1
  <2>1. k1 \in 1 .. L /\ j1 \in 1 .. L /\ j1 < k1
    BY <1>1
  <2>2. g[k].addr = h[k1].addr
    <3>1. CASE k < i
      <4>1. k \in 1 .. i - 1 /\ k1 = k
        BY <1>1, <3>1
      <4> HIDE DEF k1
      <4> QED
        BY <1>8, <4>1, Zenon
    <3>2. CASE k = i
      <4>1. k1 = k
        BY <1>1, <3>2
      <4> HIDE DEF k1
      <4> QED
        BY <1>4, <1>8, <3>2, <4>1, Zenon
    <3>3. CASE k > i
      <4>1. k \in i + 1 .. L - 1 /\ k1 = k + 1
        BY <1>1, <3>3
      <4> HIDE DEF k1
      <4> QED
        BY <1>8, <4>1, Zenon
    <3> QED
      BY <1>1, <3>1, <3>2, <3>3
  <2>3. End(g[j]) = End(h[j1])
    <3>1. CASE j < i
      <4>1. g[j] = h[j] /\ j1 = j
        BY <1>1, <1>8, <3>1
      <4> QED
        BY <4>1
    <3>2. CASE j = i
      BY <1>1, <1>8, <1>10, <3>2
    <3>3. CASE j > i
      BY <1>1, <1>8, <3>3
    <3> QED
      BY <1>1, <3>1, <3>2, <3>3
  <2> HIDE DEF j1, k1
  <2> QED
    BY <1>9, <2>1, <2>2, <2>3
<1>12. ASSUME tight PROVE Tiles(g, brk)
  <2>0. /\ \A j \in 1 .. L : h[j].addr = IF j = 1 THEN BASE ELSE End(h[j - 1])
        /\ brk = IF L = 0 THEN BASE ELSE End(h[L])
    BY <1>12 DEF Laid, Tiles, L
  <2>1. ASSUME NEW j \in 1 .. L - 1
        PROVE  g[j].addr = IF j = 1 THEN BASE ELSE End(g[j - 1])
    <3>1. CASE j < i
      BY <1>1, <1>8, <2>0, <3>1
    <3>2. CASE j = i
      BY <1>1, <1>4, <1>8, <2>0, <3>2
    <3>3. CASE j = i + 1
      <4>1. g[j] = h[j + 1] /\ g[j - 1] = e /\ j + 1 \in 1 .. L
        BY <1>1, <1>8, <3>3
      <4>2. h[j + 1].addr = End(h[j])
        BY <1>1, <2>0, <3>3, <4>1
      <4> QED
        BY <1>1, <1>10, <3>3, <4>1, <4>2
    <3>4. CASE j > i + 1
      <4>1. /\ g[j] = h[j + 1] /\ g[j - 1] = h[(j + 1) - 1]
            /\ j + 1 \in 1 .. L /\ j + 1 # 1 /\ j # 1
        BY <1>1, <1>8, <3>4
      <4> QED
        BY <2>0, <4>1
    <3> QED
      BY <1>1, <3>1, <3>2, <3>3, <3>4
  <2>2. brk = End(g[L - 1])
    <3>1. CASE i = L - 1
      BY <1>1, <1>8, <2>0, <1>10, <3>1
    <3>2. CASE i < L - 1
      <4>1. L - 1 \in i + 1 .. L - 1 /\ (L - 1) + 1 = L /\ L # 0
        BY <1>1, <3>2
      <4> QED
        BY <1>8, <2>0, <4>1
    <3> QED
      BY <1>1, <3>1, <3>2
  <2> QED
    BY <1>1, <1>6, <2>1, <2>2 DEF Tiles
<1>13. Laid(g, brk, T, tight)
  <2>1. /\ \A j \in 1 .. L : End(h[j]) <= brk
        /\ \A t \in T : t \in Nat /\ t + PAGE_SIZE <= brk
        /\ \A j \in 1 .. L, t \in T : Clear(h[j], t)
        /\ brk \in Nat /\ PAGE_SIZE \in Nat /\ PAGE_SIZE > 0
    BY SizesAssumption DEF Laid, L
  <2>2. \A t \in T : Clear(e, t)
    <3> SUFFICES ASSUME NEW t \in T PROVE Clear(e, t)
      OBVIOUS
    <3>1. Clear(h[i], t) /\ Clear(h[i + 1], t) /\ t \in Nat
      BY <1>1, <2>1
    <3>2. End(h[i]) \in Nat /\ End(h[i + 1]) \in Nat /\ End(h[i]) = h[i + 1].addr
      <4>1. End(h[i]) \in Nat
        BY <1>0, <1>2, SMTT(30) DEF End
      <4>2. End(h[i + 1]) \in Nat
        BY <1>0, <1>2, SMTT(30) DEF End
      <4> QED
        BY <4>1, <4>2 DEF Adjoins
    <3>3. \A a, m, z, u \in Nat :
            (m <= u \/ u + PAGE_SIZE <= a) /\ (z <= u \/ u + PAGE_SIZE <= m)
              => (z <= u \/ u + PAGE_SIZE <= a)
      BY <2>1
    <3>4. /\ End(h[i]) <= t \/ t + PAGE_SIZE <= h[i].addr
          /\ End(h[i + 1]) <= t \/ t + PAGE_SIZE <= End(h[i])
      BY <3>1, <3>2 DEF Clear
    <3>5. End(h[i + 1]) <= t \/ t + PAGE_SIZE <= h[i].addr
      BY <1>2, <3>1, <3>2, <3>3, <3>4, ZenonT(40)
    <3> QED
      BY <1>4, <1>10, <3>5 DEF Clear
  <2>3. ASSUME NEW j \in 1 .. L - 1
        PROVE  End(g[j]) <= brk /\ \A t \in T : Clear(g[j], t)
    <3>1. CASE j < i
      BY <1>1, <1>8, <2>1, <3>1
    <3>2. CASE j = i
      BY <1>1, <1>8, <1>10, <2>1, <2>2, <3>2
    <3>3. CASE j > i
      <4>1. g[j] = h[j + 1] /\ j + 1 \in 1 .. L
        BY <1>1, <1>8, <3>3
      <4> QED
        BY <2>1, <4>1
    <3> QED
      BY <1>1, <3>1, <3>2, <3>3
  <2> QED
    BY <1>6, <1>11, <1>12, <2>1, <2>3 DEF Laid
<1>14. \A j \in 1 .. L - 1 : /\ j < i => g[j] = h[j]
                             /\ j > i => g[j] = h[j + 1]
  BY <1>1, <1>8
<1> QED
  BY <1>6, <1>8, <1>13, <1>14 DEF g, h1, e, L

-----------------------------------------------------------------------------
(* What each call does to the set of used blocks.                          *)

(* The used blocks at positions other than i. *)
UsedExcept(h, i) == {h[j] : j \in {k \in 1 .. Len(h) : k # i /\ ~h[k].is_free}}

(* Membership in the sets of used blocks. *)
LEMMA UsedMember ==
  ASSUME NEW h, NEW x
  PROVE  x \in UsedBlocks(h) <=> \E j \in 1 .. Len(h) : ~h[j].is_free /\ x = h[j]
BY Zenon DEF UsedBlocks

(* A used block adds itself to the others, a free one adds nothing. *)
LEMMA UsedWith ==
  ASSUME NEW h, NEW i \in 1 .. Len(h)
  PROVE  /\ h[i].is_free => UsedBlocks(h) = UsedExcept(h, i)
         /\ ~h[i].is_free => UsedBlocks(h) = UsedExcept(h, i) \cup {h[i]}
<1>1. ASSUME h[i].is_free, NEW x
      PROVE  x \in UsedBlocks(h) <=> x \in UsedExcept(h, i)
  BY <1>1 DEF UsedBlocks, UsedExcept
<1>2. ASSUME ~h[i].is_free, NEW x
      PROVE  x \in UsedBlocks(h) <=> x \in UsedExcept(h, i) \/ x = h[i]
  BY <1>2 DEF UsedBlocks, UsedExcept
<1> QED
  BY <1>1, <1>2, Zenon

(* Used blocks are blocks, and two of them never have the same address. *)
LEMMA UsedAreBlocks ==
  ASSUME NEW h, NEW brk, NEW T, NEW tight, Laid(h, brk, T, tight),
         NEW b \in UsedBlocks(h)
  PROVE  /\ b \in Block /\ b.addr \in Nat /\ b.size \in Nat
         /\ \A c \in UsedBlocks(h) : c.addr = b.addr => c = b
<1>1. h \in Seq(Block) /\ Ordered(h)
  BY DEF Laid
<1>2. PICK i \in 1 .. Len(h) : b = h[i]
  BY UsedMember, Zenon
<1>3. b \in Block /\ b.addr \in Nat /\ b.size \in Nat
  BY <1>1, <1>2, ElementsAreBlocks
<1>4. ASSUME NEW c \in UsedBlocks(h), c.addr = b.addr PROVE c = b
  <2>1. PICK j \in 1 .. Len(h) : c = h[j]
    BY UsedMember, Zenon
  <2>2. i = j
    BY <1>1, <1>2, <1>4, <2>1, AddressesDiffer, Zenon
  <2> QED
    BY <1>2, <2>1, <2>2
<1> QED
  BY <1>3, <1>4

(* Splitting a block changes no used block but the split one. *)
LEMMA SplitUsed ==
  ASSUME NEW h, NEW brk, NEW T, NEW tight, Laid(h, brk, T, tight),
         NEW i \in 1 .. Len(h), NEW n \in Nat,
         h[i].size >= n
  PROVE  LET g == SplitBlock(h, i, n)
         IN /\ Laid(g, brk, T, tight)
            /\ i \in 1 .. Len(g)
            /\ g[i].addr = h[i].addr /\ g[i].is_free = h[i].is_free
            /\ g[i].size >= n
            /\ UsedExcept(g, i) = UsedExcept(h, i)
<1> DEFINE g == SplitBlock(h, i, n)
<1>1. h \in Seq(Block) /\ Len(h) \in Nat /\ h[i] \in Block
  BY ElementsAreBlocks DEF Laid
<1>2. CASE ~(h[i].size >= n + HDR + SLACK)
  <2>1. g = h
    BY <1>2 DEF SplitBlock
  <2> QED
    BY <2>1
<1>3. CASE h[i].size >= n + HDR + SLACK
  <2>1. /\ Laid(g, brk, T, tight)
        /\ Len(g) = Len(h) + 1
        /\ g[i] = [h[i] EXCEPT !.size = n]
        /\ g[i + 1].is_free
        /\ \A j \in 1 .. Len(h) + 1 :
             /\ j < i => g[j] = h[j]
             /\ j > i + 1 => g[j] = h[j - 1]
    BY <1>3, SplitLaid
  <2> HIDE DEF g
  <2>2. g[i].addr = h[i].addr /\ g[i].is_free = h[i].is_free /\ g[i].size = n
    BY <1>1, <2>1 DEF Block
  <2>3. i \in 1 .. Len(g)
    BY <1>1, <2>1
  <2>4. ASSUME NEW j \in 1 .. Len(g), j # i, ~g[j].is_free
        PROVE  \E k \in 1 .. Len(h) : k # i /\ ~h[k].is_free /\ g[j] = h[k]
    <3>1. j # i + 1
      BY <2>1, <2>4
    <3>2. CASE j < i
      <4>1. j \in 1 .. Len(h) /\ g[j] = h[j]
        BY <1>1, <2>1, <3>2
      <4> QED
        BY <2>4, <4>1, Zenon
    <3>3. CASE j > i + 1
      <4>1. j - 1 \in 1 .. Len(h) /\ j - 1 # i /\ g[j] = h[j - 1]
        BY <1>1, <2>1, <3>3
      <4> QED
        BY <2>4, <4>1, Zenon
    <3> QED
      BY <1>1, <2>1, <2>4, <3>1, <3>2, <3>3
  <2>5. ASSUME NEW j \in 1 .. Len(h), j # i, ~h[j].is_free
        PROVE  \E k \in 1 .. Len(g) : k # i /\ ~g[k].is_free /\ h[j] = g[k]
    <3>1. CASE j < i
      <4>1. j \in 1 .. Len(g) /\ g[j] = h[j]
        BY <1>1, <2>1, <3>1
      <4> QED
        BY <2>5, <4>1, Zenon
    <3>2. CASE j > i
      <4>1. j + 1 \in 1 .. Len(g) /\ j + 1 # i /\ g[j + 1] = h[j]
        <5>1. j + 1 \in 1 .. Len(h) + 1 /\ j + 1 > i + 1 /\ (j + 1) - 1 = j /\ j + 1 # i
          BY <1>1, <3>2
        <5> QED
          BY <2>1, <5>1
      <4> QED
        BY <2>5, <4>1, Zenon
    <3> QED
      BY <1>1, <2>5, <3>1, <3>2
  <2>6. g[i].size >= n
    BY <2>2
  <2>7. ASSUME NEW x PROVE x \in UsedExcept(g, i) <=> x \in UsedExcept(h, i)
    <3>1. ASSUME x \in UsedExcept(g, i) PROVE x \in UsedExcept(h, i)
      <4>1. PICK j \in 1 .. Len(g) : j # i /\ ~g[j].is_free /\ x = g[j]
        BY <3>1, Zenon DEF UsedExcept
      <4>2. PICK k \in 1 .. Len(h) : k # i /\ ~h[k].is_free /\ g[j] = h[k]
        BY <2>4, <4>1, Zenon
      <4> QED
        BY <4>1, <4>2, Zenon DEF UsedExcept
    <3>2. ASSUME x \in UsedExcept(h, i) PROVE x \in UsedExcept(g, i)
      <4>1. PICK j \in 1 .. Len(h) : j # i /\ ~h[j].is_free /\ x = h[j]
        BY <3>2, Zenon DEF UsedExcept
      <4>2. PICK k \in 1 .. Len(g) : k # i /\ ~g[k].is_free /\ h[j] = g[k]
        BY <2>5, <4>1, Zenon
      <4> QED
        BY <4>1, <4>2, Zenon DEF UsedExcept
    <3> QED
      BY <3>1, <3>2
  <2>8. UsedExcept(g, i) = UsedExcept(h, i)
    BY <2>7, Zenon
  <2> QED
    BY <2>1, <2>2, <2>3, <2>6, <2>8 DEF g
<1> QED
  BY <1>2, <1>3

(* malloc's last two steps: split the chosen free block, mark it used. *)
LEMMA TakeBlock ==
  ASSUME NEW h, NEW brk, NEW T, NEW tight, Laid(h, brk, T, tight),
         NEW i \in 1 .. Len(h), NEW n \in Nat,
         h[i].size >= n, h[i].is_free
  PROVE  LET g == [SplitBlock(h, i, n) EXCEPT ![i].is_free = FALSE]
         IN /\ Laid(g, brk, T, tight)
            /\ i \in 1 .. Len(g)
            /\ g[i].addr = h[i].addr
            /\ g[i].size >= n
            /\ ~g[i].is_free
            /\ UsedBlocks(g) = UsedBlocks(h) \cup {g[i]}
<1> DEFINE s == SplitBlock(h, i, n)
           g == [s EXCEPT ![i].is_free = FALSE]
<1>1. /\ Laid(s, brk, T, tight)
      /\ i \in 1 .. Len(s)
      /\ s[i].addr = h[i].addr
      /\ s[i].size >= n
      /\ UsedExcept(s, i) = UsedExcept(h, i)
  BY SplitUsed
<1> HIDE DEF s
<1>2. s[i] \in Block
  BY <1>1, ElementsAreBlocks DEF Laid
<1> DEFINE e == [s[i] EXCEPT !.is_free = FALSE]
<1>3. e \in Block /\ e.addr = s[i].addr /\ e.size = s[i].size
  BY <1>2 DEF Block
<1>4. ~e.is_free
  BY <1>2 DEF Block
<1>5. /\ Laid(g, brk, T, tight) /\ Len(g) = Len(s)
      /\ g[i] = e
      /\ \A j \in 1 .. Len(s) : j # i => g[j] = s[j]
  <2>1. g = [s EXCEPT ![i] = e]
    OBVIOUS
  <2> HIDE DEF g, e
  <2>2. /\ Laid([s EXCEPT ![i] = e], brk, T, tight)
        /\ Len([s EXCEPT ![i] = e]) = Len(s)
        /\ \A j \in 1 .. Len(s) : [s EXCEPT ![i] = e][j] = IF j = i THEN e ELSE s[j]
    BY <1>1, <1>3, MarkLaid
  <2> QED
    BY <1>1, <2>1, <2>2
<1> HIDE DEF g, e
<1>6. ASSUME NEW x PROVE x \in UsedExcept(g, i) <=> x \in UsedExcept(s, i)
  BY <1>5 DEF UsedExcept
<1>7. UsedExcept(g, i) = UsedExcept(s, i)
  BY <1>6, Zenon
<1>8. i \in 1 .. Len(g) /\ ~g[i].is_free
  BY <1>1, <1>4, <1>5
<1>9. UsedBlocks(g) = UsedBlocks(h) \cup {g[i]}
  <2>1. UsedBlocks(g) = UsedExcept(g, i) \cup {g[i]}
    BY <1>8, UsedWith, Zenon
  <2>2. UsedBlocks(h) = UsedExcept(h, i)
    BY UsedWith, Zenon
  <2> QED
    BY <1>1, <1>7, <2>1, <2>2
<1>10. g[i].addr = h[i].addr /\ g[i].size >= n
  BY <1>1, <1>3, <1>5
<1> QED
  BY <1>5, <1>8, <1>9, <1>10 DEF g, s

(* The list g with break b is h with break brk, or h and a new page. *)
SameOrNewPage(h, brk, g, b, i) ==
  \/ g = h /\ b = brk
  \/ /\ Len(g) = Len(h) + 1 /\ \A j \in 1 .. Len(h) : g[j] = h[j]
     /\ i = Len(g) /\ g[i].addr = brk /\ b = brk + PAGE_SIZE

(* The block that malloc of n > 0 bytes chooses: one of the list, or the   *)
(* block it makes of a new page.                                           *)
Chosen(h, brk, n, g, i) ==
  /\ i \in 1 .. Len(g) /\ g[i].size >= RoundUp(n) /\ g[i].is_free
  /\ UsedBlocks(g) = UsedBlocks(h)
  /\ Malloc(h, brk, n).heap = [SplitBlock(g, i, RoundUp(n)) EXCEPT ![i].is_free = FALSE]
  /\ Malloc(h, brk, n).ptr = Payload(g[i])
  /\ SameOrNewPage(h, brk, g, Malloc(h, brk, n).brk, i)

(* malloc finds a free block or makes one from a page; either way the list *)
(* stays laid out.                                                         *)
LEMMA MallocChooses ==
  ASSUME NEW h, NEW brk, NEW T, NEW tight, Laid(h, brk, T, tight), NEW n \in Nat, n # 0,
         RoundUp(n) + HDR <= PAGE_SIZE
  PROVE  \E g, i : Laid(g, Malloc(h, brk, n).brk, T, tight) /\ Chosen(h, brk, n, g, i)
<1> DEFINE size  == RoundUp(n)
           found == FindFreeBlock(h, size)
           i     == IF found = 0 THEN Len(h) + 1 ELSE found
           page  == PageBlock(brk, size)
           h1    == IF found = 0 THEN Append(h, page) ELSE h
           b1    == IF found = 0 THEN brk + PAGE_SIZE ELSE brk
           g     == [SplitBlock(h1, i, size) EXCEPT ![i].is_free = FALSE]
<1>1. Malloc(h, brk, n) = [heap |-> g, brk |-> b1, ptr |-> Payload(h1[i])]
  BY DEF Malloc
<1>2. size \in Nat /\ n <= size
  BY RoundUpBounds
<1>3. h \in Seq(Block) /\ Len(h) \in Nat /\ brk \in Nat
  BY DEF Laid
<1>4. size + HDR <= PAGE_SIZE
  OBVIOUS
<1>5. /\ page \in Block /\ page.addr = brk /\ page.size >= size
      /\ End(page) = brk + PAGE_SIZE
  <2>1. page = [addr |-> brk, size |-> PAGE_SIZE - HDR, is_free |-> TRUE]
    <3>1. (IF size + HDR < MIN_ALLOC THEN MIN_ALLOC ELSE size + HDR) = PAGE_SIZE
      BY <1>2, <1>4, SizesAssumption
    <3> QED
      BY <3>1, Zenon DEF PageBlock, InitBlock
  <2>2. PAGE_SIZE - HDR \in Nat /\ PAGE_SIZE - HDR >= size
    BY <1>2, <1>4, SizesAssumption
  <2>3. brk + HDR + (PAGE_SIZE - HDR) = brk + PAGE_SIZE
    BY <1>3, SizesAssumption
  <2> QED
    BY <1>3, <2>1, <2>2, <2>3 DEF Block, End
<1>6. page.is_free
  BY DEF PageBlock, InitBlock
<1>7. /\ found \in 0 .. Len(h)
      /\ found # 0 => h[found].size >= size
  BY <1>2, <1>3, FindFreeBlockFinds
<1>8. found # 0 => h[found].is_free
  BY <1>2, <1>3, FindFreeBlockFinds
<1> HIDE DEF size, found, page
<1>9. /\ Laid(h1, b1, T, tight) /\ i \in 1 .. Len(h1)
      /\ h1[i].size >= size /\ h1[i].is_free
      /\ UsedBlocks(h1) = UsedBlocks(h)
      /\ SameOrNewPage(h, brk, h1, b1, i)
  <2>1. CASE found # 0
    BY <1>3, <1>7, <1>8, <2>1 DEF SameOrNewPage
  <2>2. CASE found = 0
    <3>1. h1 = Append(h, page) /\ i = Len(h) + 1 /\ b1 = End(page)
      BY <1>5, <2>2
    <3> HIDE DEF h1, i, b1
    <3>2. /\ Laid(h1, b1, T, tight)
          /\ Len(h1) = Len(h) + 1
          /\ \A j \in 1 .. Len(h) : h1[j] = h[j]
          /\ h1[i] = page
      BY <1>5, <3>1, AppendLaid
    <3>3. i \in 1 .. Len(h1) /\ h1[i].is_free
      BY <1>3, <1>6, <3>1, <3>2
    <3>4. h1[i].size >= size
      BY <1>5, <3>2
    <3>5. UsedExcept(h1, i) = UsedBlocks(h)
      <4>1. {k \in 1 .. Len(h1) : k # i /\ ~h1[k].is_free}
              = {k \in 1 .. Len(h) : ~h[k].is_free}
        <5>1. \A k : k \in 1 .. Len(h1) /\ k # i <=> k \in 1 .. Len(h)
          BY <1>3, <3>1, <3>2
        <5> QED
          BY <3>2, <5>1
      <4> QED
        BY <3>2, <4>1 DEF UsedExcept, UsedBlocks
    <3>6. SameOrNewPage(h, brk, h1, b1, i)
      BY <1>5, <3>1, <3>2 DEF SameOrNewPage
    <3> QED
      BY <3>2, <3>3, <3>4, <3>5, <3>6, UsedWith
  <2> QED
    BY <2>1, <2>2
<1> HIDE DEF h1, i, b1
<1>10. Chosen(h, brk, n, h1, i)
  <2>1. /\ Malloc(h, brk, n).heap = g /\ Malloc(h, brk, n).brk = b1
        /\ Malloc(h, brk, n).ptr = Payload(h1[i])
    BY <1>1
  <2>2. i \in 1 .. Len(h1) /\ h1[i].size >= RoundUp(n)
    BY <1>9 DEF size
  <2>3. /\ h1[i].is_free /\ UsedBlocks(h1) = UsedBlocks(h)
        /\ SameOrNewPage(h, brk, h1, b1, i)
    BY <1>9
  <2>4. g = [SplitBlock(h1, i, RoundUp(n)) EXCEPT ![i].is_free = FALSE]
    BY DEF size
  <2> HIDE DEF g
  <2> QED
    BY <2>1, <2>2, <2>3, <2>4, Zenon DEF Chosen
<1>11. Laid(h1, Malloc(h, brk, n).brk, T, tight)
  BY <1>1, <1>9
<1> QED
  BY <1>10, <1>11

(* malloc of n > 0 bytes: one used block more, of at least n bytes, whose  *)
(* payload no used block had.                                              *)
LEMMA MallocTakes ==
  ASSUME NEW h, NEW brk, NEW T, NEW tight, Laid(h, brk, T, tight), NEW n \in Nat, n # 0,
         RoundUp(n) + HDR <= PAGE_SIZE
  PROVE  /\ Laid(Malloc(h, brk, n).heap, Malloc(h, brk, n).brk, T, tight)
         /\ \E b \in Block :
              /\ Payload(b) = Malloc(h, brk, n).ptr
              /\ b.size >= n
              /\ UsedBlocks(Malloc(h, brk, n).heap) = UsedBlocks(h) \cup {b}
              /\ b \in UsedBlocks(Malloc(h, brk, n).heap)
              /\ \A c \in UsedBlocks(h) : c.addr # b.addr
<1> DEFINE size == RoundUp(n)
           b1   == Malloc(h, brk, n).brk
<1>1. PICK h1, i : Laid(h1, b1, T, tight) /\ Chosen(h, brk, n, h1, i)
  BY MallocChooses
<1> DEFINE g == [SplitBlock(h1, i, size) EXCEPT ![i].is_free = FALSE]
<1>2. size \in Nat /\ n <= size
  BY RoundUpBounds
<1>3. Malloc(h, brk, n).heap = g /\ Malloc(h, brk, n).ptr = Payload(h1[i])
  BY <1>1 DEF Chosen
<1>4. /\ Laid(h1, b1, T, tight) /\ i \in 1 .. Len(h1)
      /\ h1[i].size >= size /\ h1[i].is_free
      /\ UsedBlocks(h1) = UsedBlocks(h)
  BY <1>1 DEF Chosen
<1> HIDE DEF size, b1
<1>5. /\ Laid(g, b1, T, tight)
       /\ i \in 1 .. Len(g)
       /\ g[i].addr = h1[i].addr
       /\ g[i].size >= size
       /\ ~g[i].is_free
       /\ UsedBlocks(g) = UsedBlocks(h) \cup {g[i]}
  <2>1. /\ Laid(g, b1, T, tight)
        /\ i \in 1 .. Len(g)
        /\ g[i].addr = h1[i].addr
        /\ g[i].size >= size
        /\ ~g[i].is_free
        /\ UsedBlocks(g) = UsedBlocks(h1) \cup {g[i]}
    BY <1>2, <1>4, TakeBlock, ZenonT(40)
  <2> QED
    BY <1>4, <2>1, Zenon
<1>6. g[i] \in Block /\ g[i].size \in Nat
  <2>1. g \in Seq(Block)
    BY <1>5 DEF Laid
  <2> QED
    BY <1>5, <2>1, ElementsAreBlocks
<1> HIDE DEF g
<1>7. \A c \in UsedBlocks(h) : c.addr # g[i].addr
  <2> SUFFICES ASSUME NEW c \in UsedBlocks(h1) PROVE c.addr # h1[i].addr
    BY <1>4, <1>5
  <2>1. PICK j \in 1 .. Len(h1) : ~h1[j].is_free /\ c = h1[j]
    BY UsedMember, Zenon
  <2>2. j # i
    BY <1>4, <2>1, Zenon
  <2> QED
    BY <1>4, <2>1, <2>2, AddressesDiffer DEF Laid
<1>8. g[i] \in UsedBlocks(g)
  BY <1>5
<1>9. Payload(g[i]) = Payload(h1[i])
  BY <1>5 DEF Payload
<1>10. g[i].size >= n
  BY <1>2, <1>5, <1>6
<1> QED
  BY <1>3, <1>5, <1>6, <1>7, <1>8, <1>9, <1>10 DEF b1

(* free(p) merges at most with the block that follows in memory. *)
MergesNext(h, p) ==
  LET i == IndexOf(h, p)
  IN i < Len(h) /\ h[i + 1].is_free => Adjoins(h, i)

(* free of a used block: that block leaves the used blocks, no other does. *)
LEMMA FreeReleases ==
  ASSUME NEW h, NEW brk, NEW T, NEW tight, Laid(h, brk, T, tight),
         NEW b \in UsedBlocks(h),
         tight \/ MergesNext(h, Payload(b))
  PROVE  /\ Laid(Free(h, Payload(b)), brk, T, tight)
         /\ UsedBlocks(Free(h, Payload(b))) = UsedBlocks(h) \ {b}
<1>1. h \in Seq(Block) /\ Ordered(h) /\ Len(h) \in Nat
  BY DEF Laid
<1>2. PICK i \in 1 .. Len(h) : ~h[i].is_free /\ b = h[i]
  BY UsedMember, Zenon
<1>3. IndexOf(h, Payload(b)) = i
  BY <1>1, <1>2, IndexOfFinds
<1> DEFINE e == [h[i] EXCEPT !.is_free = TRUE]
           h1 == [h EXCEPT ![i].is_free = TRUE]
           m == RemoveAt([h1 EXCEPT ![i].size = @ + HDR + h[i + 1].size], i + 1)
<1>4. Free(h, Payload(b)) = IF i < Len(h) /\ h[i + 1].is_free THEN m ELSE h1
  BY <1>3 DEF Free
<1>5. h[i] \in Block
  BY <1>1, ElementsAreBlocks
<1>6. e \in Block /\ e.addr = h[i].addr /\ e.size = h[i].size
  BY <1>5 DEF Block
<1>7. e.is_free
  BY <1>5 DEF Block
<1>8. /\ Laid(h1, brk, T, tight) /\ Len(h1) = Len(h) /\ h1[i] = e
      /\ \A j \in 1 .. Len(h) : j # i => h1[j] = h[j]
  <2>1. h1 = [h EXCEPT ![i] = e]
    OBVIOUS
  <2> HIDE DEF h1, e
  <2>2. /\ Laid([h EXCEPT ![i] = e], brk, T, tight)
        /\ Len([h EXCEPT ![i] = e]) = Len(h)
        /\ \A j \in 1 .. Len(h) : [h EXCEPT ![i] = e][j] = IF j = i THEN e ELSE h[j]
    BY <1>6, MarkLaid
  <2> QED
    BY <2>1, <2>2
<1>9. UsedExcept(h, i) = UsedBlocks(h) \ {b}
  <2>1. UsedBlocks(h) = UsedExcept(h, i) \cup {h[i]}
    BY <1>2, UsedWith, Zenon
  <2>2. h[i] \notin UsedExcept(h, i)
    <3> SUFFICES ASSUME h[i] \in UsedExcept(h, i) PROVE FALSE
      OBVIOUS
    <3>1. PICK j \in 1 .. Len(h) : j # i /\ ~h[j].is_free /\ h[i] = h[j]
      BY Zenon DEF UsedExcept
    <3> QED
      BY <1>1, <3>1, AddressesDiffer
  <2> QED
    BY <1>2, <2>1, <2>2
<1> HIDE DEF h1, e
<1>10. UsedExcept(h1, i) = UsedExcept(h, i)
  BY <1>8 DEF UsedExcept
<1>11. h1[i].is_free
  BY <1>7, <1>8
<1>12. CASE ~(i < Len(h) /\ h[i + 1].is_free)
  <2>1. UsedBlocks(h1) = UsedExcept(h1, i)
    BY <1>8, <1>11, UsedWith, Zenon
  <2> QED
    BY <1>4, <1>8, <1>9, <1>10, <1>12, <2>1
<1>13. CASE i < Len(h) /\ h[i + 1].is_free
  <2>1. h1[i + 1] = h[i + 1]
    BY <1>1, <1>8, <1>13
  <2> DEFINE m1 == RemoveAt([h1 EXCEPT ![i].size = @ + HDR + h1[i + 1].size], i + 1)
  <2>2. m = m1
    BY <2>1
  <2>3. /\ Laid(m, brk, T, tight)
        /\ Len(m) = Len(h1) - 1
        /\ m[i] = [h1[i] EXCEPT !.size = h1[i].size + HDR + h1[i + 1].size]
        /\ \A j \in 1 .. Len(h1) - 1 :
             /\ j < i => m[j] = h1[j]
             /\ j > i => m[j] = h1[j + 1]
    <3>1. /\ Laid(m1, brk, T, tight)
          /\ Len(m1) = Len(h1) - 1
          /\ m1[i] = [h1[i] EXCEPT !.size = h1[i].size + HDR + h1[i + 1].size]
          /\ \A j \in 1 .. Len(h1) - 1 :
               /\ j < i => m1[j] = h1[j]
               /\ j > i => m1[j] = h1[j + 1]
      <4>1. i + 1 \in 1 .. Len(h) /\ i + 1 # 1 /\ (i + 1) - 1 = i
        BY <1>1, <1>13
      <4>2. End(h[i]) = h[i + 1].addr
        <5>1. CASE tight
          <6>1. Tiles(h, brk)
            BY <5>1 DEF Laid
          <6> QED
            BY <4>1, <6>1 DEF Tiles
        <5>2. CASE MergesNext(h, Payload(b))
          BY <1>3, <1>13, <5>2 DEF MergesNext, Adjoins
        <5> QED
          BY <5>1, <5>2
      <4>3. Adjoins(h1, i)
        BY <1>6, <1>8, <2>1, <4>2 DEF End, Adjoins
      <4> QED
        <5>1. Laid(h1, brk, T, tight) /\ i \in 1 .. Len(h1) /\ i < Len(h1)
          BY <1>8, <1>13
        <5> QED
          BY <4>3, <5>1, MergeLaid, ZenonT(40)
    <3> HIDE DEF m, m1
    <3> QED
      BY <2>2, <3>1
  <2> HIDE DEF m, m1
  <2>4. h1[i] \in Block
    BY <1>6, <1>8
  <2>5. m[i].is_free = h1[i].is_free
    BY <2>3, <2>4 DEF Block
  <2>6. i \in 1 .. Len(m)
    BY <1>1, <1>8, <1>13, <2>3
  <2>7. UsedBlocks(m) = UsedExcept(m, i)
    BY <1>11, <2>5, <2>6, UsedWith
  <2>8. ASSUME NEW x PROVE x \in UsedExcept(m, i) <=> x \in UsedExcept(h1, i)
    <3>1. ASSUME x \in UsedExcept(m, i) PROVE x \in UsedExcept(h1, i)
      <4>1. PICK j \in 1 .. Len(m) : j # i /\ ~m[j].is_free /\ x = m[j]
        BY <3>1, Zenon DEF UsedExcept
      <4>2. \E k \in 1 .. Len(h1) : k # i /\ m[j] = h1[k]
        <5>1. CASE j < i
          BY <1>1, <1>8, <2>3, <4>1, <5>1
        <5>2. CASE j > i
          <6>1. j + 1 \in 1 .. Len(h1) /\ j + 1 # i /\ m[j] = h1[j + 1]
            BY <1>1, <1>8, <2>3, <5>2
          <6> QED
            BY <6>1
        <5> QED
          BY <1>1, <1>8, <2>3, <4>1, <5>1, <5>2
      <4> QED
        BY <4>1, <4>2, Zenon DEF UsedExcept
    <3>2. ASSUME x \in UsedExcept(h1, i) PROVE x \in UsedExcept(m, i)
      <4>1. PICK k \in 1 .. Len(h1) : k # i /\ ~h1[k].is_free /\ x = h1[k]
        BY <3>2, Zenon DEF UsedExcept
      <4>2. k # i + 1
        BY <1>13, <2>1, <4>1
      <4>3. \E j \in 1 .. Len(m) : j # i /\ m[j] = h1[k]
        <5>1. CASE k < i
          BY <1>1, <1>8, <1>13, <2>3, <4>1, <5>1
        <5>2. CASE k > i + 1
          <6>1. /\ k - 1 \in 1 .. Len(m) /\ k - 1 # i /\ k - 1 > i
                /\ (k - 1) + 1 = k
            BY <1>1, <1>8, <2>3, <5>2
          <6>2. m[k - 1] = h1[k]
            BY <2>3, <6>1
          <6> QED
            BY <6>1, <6>2
        <5> QED
          BY <1>1, <1>8, <4>1, <4>2, <5>1, <5>2
      <4> QED
        BY <4>1, <4>3, Zenon DEF UsedExcept
    <3> QED
      BY <3>1, <3>2
  <2>9. UsedExcept(m, i) = UsedExcept(h1, i)
    BY <2>8, Zenon
  <2> QED
    BY <1>4, <1>9, <1>10, <1>13, <2>3, <2>7, <2>9
<1> QED
  BY <1>12, <1>13

-----------------------------------------------------------------------------
(* Owners and the blocks they own.                                         *)

(* f gives the owner's request for exactly the blocks in U, and each block *)
(* holds the bytes its owner was promised.                                 *)
Owns(U, f) ==
  /\ f \in [{Payload(b) : b \in U} -> Nat]
  /\ \A b \in U : Wrap(f[Payload(b)]) <= b.size

(* A set of blocks no two of which have the same address. *)
Apart(U) ==
  /\ \A b \in U : b.addr \in Nat
  /\ \A b, c \in U : b.addr = c.addr => b = c

(* A wrapped size is never larger than the size. *)
LEMMA WrapBounds ==
  ASSUME NEW n \in Nat
  PROVE  Wrap(n) \in Nat /\ Wrap(n) <= n
<1>1. CASE n < WORD
  BY <1>1 DEF Wrap
<1>2. CASE ~(n < WORD)
  <2>1. WORD \in Nat /\ WORD > 0 /\ n >= WORD
    BY <1>2, SizesAssumption
  <2>2. n % WORD \in 0 .. WORD - 1
    BY <2>1
  <2> QED
    BY <1>2, <2>1, <2>2 DEF Wrap
<1> QED
  BY <1>1, <1>2

(* The used blocks of a laid-out list are apart. *)
LEMMA UsedApart ==
  ASSUME NEW h, NEW brk, NEW T, NEW tight, Laid(h, brk, T, tight)
  PROVE  Apart(UsedBlocks(h))
BY UsedAreBlocks DEF Apart

(* Different addresses, different payloads, none of them NULL. *)
LEMMA PayloadsDiffer ==
  ASSUME NEW b, NEW c, b.addr \in Nat, c.addr \in Nat
  PROVE  /\ Payload(b) = Payload(c) <=> b.addr = c.addr
         /\ Payload(b) \in Nat \ {NULL}
BY SizesAssumption DEF Payload

(* A new block with a new address gets an owner. *)
LEMMA GainOwner ==
  ASSUME NEW U, NEW f, Apart(U), Owns(U, f),
         NEW b, b.addr \in Nat, \A c \in U : c.addr # b.addr,
         NEW t \in Nat, Wrap(t) <= b.size
  PROVE  Owns(U \cup {b}, Owned(f, Payload(b), t))
<1> DEFINE p == Payload(b)
           D == {Payload(c) : c \in U}
           f1 == [q \in D \cup {p} |-> IF q = p THEN t ELSE f[q]]
<1>1. p # NULL
  BY PayloadsDiffer
<1>2. \A c \in U : Payload(c) # p
  BY PayloadsDiffer DEF Apart
<1>3. f \in [D -> Nat]
  BY DEF Owns
<1>4. Owned(f, p, t) = f1
  BY <1>1, <1>3 DEF Owned
<1>5. D \cup {p} = {Payload(c) : c \in U \cup {b}}
  OBVIOUS
<1>6. f1 \in [D \cup {p} -> Nat]
  BY <1>3
<1>7. ASSUME NEW c \in U \cup {b} PROVE Wrap(f1[Payload(c)]) <= c.size
  <2>1. CASE c = b
    <3>1. f1[p] = t
      OBVIOUS
    <3> QED
      BY <2>1, <3>1
  <2>2. CASE c \in U
    <3>1. Payload(c) \in D /\ Payload(c) # p
      BY <1>2, <2>2
    <3>2. f1[Payload(c)] = f[Payload(c)]
      BY <3>1
    <3> QED
      BY <2>2, <3>2 DEF Owns
  <2> QED
    BY <2>1, <2>2
<1> QED
  BY <1>4, <1>5, <1>6, <1>7 DEF Owns

(* A block that goes takes its owner along. *)
LEMMA LoseOwner ==
  ASSUME NEW U, NEW f, Apart(U), Owns(U, f), NEW b \in U
  PROVE  /\ Apart(U \ {b})
         /\ Owns(U \ {b}, [q \in DOMAIN f \ {Payload(b)} |-> f[q]])
<1> DEFINE p == Payload(b)
           D == {Payload(c) : c \in U}
           f1 == [q \in D \ {p} |-> f[q]]
<1>1. \A c \in U : Payload(c) = p => c = b
  BY PayloadsDiffer DEF Apart
<1>2. f \in [D -> Nat]
  BY DEF Owns
<1>3. D \ {p} = {Payload(c) : c \in U \ {b}}
  BY <1>1
<1>4. f1 \in [D \ {p} -> Nat]
  BY <1>2
<1>5. ASSUME NEW c \in U \ {b} PROVE Wrap(f1[Payload(c)]) <= c.size
  <2>1. Payload(c) \in D \ {p}
    BY <1>1
  <2>2. f1[Payload(c)] = f[Payload(c)]
    BY <2>1
  <2> QED
    BY <2>2 DEF Owns
<1>6. Apart(U \ {b})
  BY DEF Apart
<1>7. f1 = [q \in DOMAIN f \ {p} |-> f[q]]
  BY <1>2
<1> QED
  BY <1>3, <1>4, <1>5, <1>6, <1>7 DEF Owns

-----------------------------------------------------------------------------
(* The inductive invariant.                                                *)

(* The layout is what split_block and free's merge rest on; that the used  *)
(* blocks are the owned ones is what makes the header that free and        *)
(* realloc compute from a pointer a block of the list.                     *)
HeapCore(T, tight) ==
  /\ Laid(heap, next_free_page, T, tight)
  /\ Owns(UsedBlocks(heap), asked)
  /\ last \in [op: A!Ops, ptr: Nat, len: Nat]
  /\ skewed \in BOOLEAN
  /\ FillFits

(* The heap by itself: nobody else takes pages, and its blocks tile them. *)
HeapInv == HeapCore({}, TRUE)

(* The heap starts empty. *)
LEMMA InitHeapInv == Init => HeapInv
<1> SUFFICES ASSUME Init PROVE HeapInv
  OBVIOUS
<1>1. heap = << >> /\ next_free_page = BASE /\ BASE \in Nat
  BY SizesAssumption DEF Init
<1>2. heap \in Seq(Block) /\ Len(heap) = 0
  BY <1>1
<1>3. Laid(heap, next_free_page, {}, TRUE)
  BY <1>1, <1>2 DEF Laid, Ordered, Tiles
<1>4. UsedBlocks(heap) = {}
  BY <1>2 DEF UsedBlocks
<1>5. Owns(UsedBlocks(heap), asked)
  BY <1>4 DEF Owns, Init
<1>6. /\ last \in [op: A!Ops, ptr: Nat, len: Nat]
      /\ skewed \in BOOLEAN
      /\ FillFits
  BY DEF Init, Did, FillFits, A!Ops
<1> QED
  BY <1>3, <1>5, <1>6 DEF HeapInv, HeapCore

(* The block of a live pointer. *)
LEMMA LiveBlock ==
  ASSUME NEW T, NEW tight, HeapCore(T, tight), NEW p \in Live
  PROVE  \E i \in 1 .. Len(heap) :
           /\ heap[i] \in UsedBlocks(heap) /\ ~heap[i].is_free
           /\ heap[i] \in Block /\ heap[i].addr \in Nat /\ heap[i].size \in Nat
           /\ Payload(heap[i]) = p
           /\ IndexOf(heap, p) = i
<1>1. heap \in Seq(Block) /\ Ordered(heap)
  BY DEF HeapCore, Laid
<1>2. PICK b \in UsedBlocks(heap) : p = Payload(b)
  BY DEF HeapCore, Owns, Live
<1>3. PICK i \in 1 .. Len(heap) : ~heap[i].is_free /\ b = heap[i]
  BY UsedMember, Zenon
<1>4. IndexOf(heap, p) = i
  BY <1>1, <1>2, <1>3, IndexOfFinds
<1>5. heap[i] \in Block /\ heap[i].addr \in Nat /\ heap[i].size \in Nat
  BY <1>1, ElementsAreBlocks
<1> QED
  BY <1>2, <1>3, <1>4, <1>5

(* The heap after a malloc of n bytes, with the owner's request t. *)
LEMMA MallocStep ==
  ASSUME NEW T, NEW tight, HeapCore(T, tight),
         NEW n \in Nat, RoundUp(n) + HDR <= PAGE_SIZE,
         NEW t \in Nat, Wrap(t) <= n,
         NEW r, r = Malloc(heap, next_free_page, n)
  PROVE  /\ Laid(r.heap, r.brk, T, tight)
         /\ Owns(UsedBlocks(r.heap), Owned(asked, r.ptr, t))
         /\ r.ptr \in Nat
         /\ r.ptr # NULL =>
              \E b \in UsedBlocks(r.heap) : Payload(b) = r.ptr /\ n <= b.size
<1>1. /\ Laid(heap, next_free_page, T, tight)
      /\ Owns(UsedBlocks(heap), asked)
      /\ Apart(UsedBlocks(heap))
  BY UsedApart DEF HeapCore
<1>2. CASE n = 0
  <2>1. r = [heap |-> heap, brk |-> next_free_page, ptr |-> NULL]
    BY <1>2 DEF Malloc
  <2> QED
    BY <1>1, <2>1 DEF Owned
<1>3. CASE n # 0
  <2>1. Laid(r.heap, r.brk, T, tight)
    BY <1>1, <1>3, MallocTakes
  <2>2. PICK b \in Block :
              /\ Payload(b) = r.ptr
              /\ b.size >= n
              /\ UsedBlocks(r.heap) = UsedBlocks(heap) \cup {b}
              /\ b \in UsedBlocks(r.heap)
              /\ \A c \in UsedBlocks(heap) : c.addr # b.addr
    BY <1>1, <1>3, MallocTakes
  <2>3. b.addr \in Nat /\ b.size \in Nat
    BY DEF Block
  <2>4. Wrap(t) <= b.size
    BY <2>2, <2>3, WrapBounds
  <2>5. Owns(UsedBlocks(heap) \cup {b}, Owned(asked, Payload(b), t))
    BY <1>1, <2>2, <2>3, <2>4, GainOwner
  <2>6. r.ptr \in Nat
    BY <2>2, <2>3, PayloadsDiffer
  <2>7. n <= b.size
    BY <2>2, <2>3
  <2> QED
    BY <2>1, <2>2, <2>5, <2>6, <2>7
<1> QED
  BY <1>2, <1>3

(* free(p), also as realloc(p, 0). *)
LEMMA FreeStep ==
  ASSUME NEW T, NEW tight, HeapCore(T, tight), NEW p \in Live, FreeCall(p),
         tight \/ MergesNext(heap, p)
  PROVE  HeapCore(T, tight)'
<1>1. PICK i \in 1 .. Len(heap) :
         heap[i] \in UsedBlocks(heap) /\ Payload(heap[i]) = p
  BY LiveBlock
<1> DEFINE b == heap[i]
<1>2. /\ Laid(heap, next_free_page, T, tight)
      /\ Owns(UsedBlocks(heap), asked)
      /\ Apart(UsedBlocks(heap))
  BY UsedApart DEF HeapCore
<1>3. /\ Laid(Free(heap, Payload(b)), next_free_page, T, tight)
      /\ UsedBlocks(Free(heap, Payload(b))) = UsedBlocks(heap) \ {b}
  BY <1>1, <1>2, FreeReleases
<1>4. heap' = Free(heap, Payload(b)) /\ next_free_page' = next_free_page
  BY <1>1 DEF FreeCall
<1>5. Owns(UsedBlocks(heap) \ {b}, [q \in DOMAIN asked \ {Payload(b)} |-> asked[q]])
  BY <1>1, <1>2, LoseOwner
<1>6. asked' = [q \in DOMAIN asked \ {Payload(b)} |-> asked[q]]
  BY <1>1 DEF FreeCall, Without, Live
<1>7. Laid(heap', next_free_page', T, tight) /\ Owns(UsedBlocks(heap'), asked')
  BY <1>3, <1>4, <1>5, <1>6
<1>8. /\ (last \in [op: A!Ops, ptr: Nat, len: Nat])'
      /\ (skewed \in BOOLEAN)'
      /\ FillFits'
  BY DEF FreeCall, Did, FillFits, HeapCore, A!Ops
<1> QED
  BY <1>7, <1>8 DEF HeapCore

(* malloc(n), also as realloc(NULL, n). *)
LEMMA MallocCallStep ==
  ASSUME NEW T, NEW tight, HeapCore(T, tight),
         NEW n \in Nat, RoundUp(n) + HDR <= PAGE_SIZE, MallocCall(n)
  PROVE  HeapCore(T, tight)'
<1> DEFINE r == Malloc(heap, next_free_page, n)
<1>1. /\ heap' = r.heap /\ next_free_page' = r.brk
      /\ asked' = Owned(asked, r.ptr, n)
      /\ last' = Did(Allocated(r), NULL, 0)
      /\ skewed' = skewed
  BY DEF MallocCall, TakeResult
<1> HIDE DEF r
<1>2. Wrap(n) <= n
  BY WrapBounds
<1>3. Laid(r.heap, r.brk, T, tight) /\ Owns(UsedBlocks(r.heap), Owned(asked, r.ptr, n))
  BY <1>2, MallocStep DEF r
<1>4. Laid(heap', next_free_page', T, tight) /\ Owns(UsedBlocks(heap'), asked')
  BY <1>1, <1>3
<1>5. /\ (last \in [op: A!Ops, ptr: Nat, len: Nat])'
      /\ (skewed \in BOOLEAN)'
      /\ FillFits'
  BY <1>1 DEF Did, Allocated, FillFits, HeapCore, A!Ops
<1> QED
  BY <1>4, <1>5 DEF HeapCore

(* calloc(c, n): the block is filled up to the wrapped product. *)
LEMMA CallocCallStep ==
  ASSUME NEW T, NEW tight, HeapCore(T, tight), NEW c \in Nat, NEW n \in Nat,
         RoundUp(Wrap(c * n)) + HDR <= PAGE_SIZE, CallocCall(c, n)
  PROVE  HeapCore(T, tight)'
<1> DEFINE t == c * n
           total == Wrap(t)
           r == Malloc(heap, next_free_page, total)
<1>1. /\ heap' = r.heap /\ next_free_page' = r.brk
      /\ asked' = Owned(asked, r.ptr, t)
      /\ last' = Did(Allocated(r), r.ptr, total)
      /\ skewed' = skewed
  BY DEF CallocCall, TakeResult
<1>2. t \in Nat
  OBVIOUS
<1> HIDE DEF t
<1>3. total \in Nat
  BY <1>2, WrapBounds
<1>4. RoundUp(total) + HDR <= PAGE_SIZE /\ Wrap(t) <= total
  BY <1>3 DEF t
<1> HIDE DEF r, total
<1>5. /\ Laid(r.heap, r.brk, T, tight) /\ Owns(UsedBlocks(r.heap), Owned(asked, r.ptr, t))
      /\ r.ptr \in Nat
      /\ r.ptr # NULL =>
           \E b \in UsedBlocks(r.heap) : Payload(b) = r.ptr /\ total <= b.size
  BY <1>2, <1>3, <1>4, MallocStep DEF r
<1>6. Laid(heap', next_free_page', T, tight) /\ Owns(UsedBlocks(heap'), asked')
  BY <1>1, <1>5
<1>7. (last \in [op: A!Ops, ptr: Nat, len: Nat])' /\ (skewed \in BOOLEAN)'
  BY <1>1, <1>3, <1>5 DEF Did, Allocated, HeapCore, A!Ops
<1>8. last'.ptr = r.ptr /\ last'.len = total
  BY <1>1 DEF Did
<1>9. FillFits'
  BY <1>1, <1>5, <1>8 DEF FillFits
<1> QED
  BY <1>6, <1>7, <1>9 DEF HeapCore

(* realloc inside the block: only the owner's block may be cut. *)
LEMMA ReallocInPlaceStep ==
  ASSUME NEW T, NEW tight, HeapCore(T, tight),
         NEW p \in Live, NEW n \in Nat, ReallocInPlace(p, n)
  PROVE  HeapCore(T, tight)'
<1>1. PICK i \in 1 .. Len(heap) :
         /\ heap[i] \in UsedBlocks(heap) /\ ~heap[i].is_free
         /\ heap[i].addr \in Nat /\ Payload(heap[i]) = p
         /\ IndexOf(heap, p) = i
  BY LiveBlock
<1> DEFINE g == SplitBlock(heap, i, n)
           U == UsedBlocks(heap)
<1>2. /\ heap[i].size >= n /\ heap' = g
      /\ asked' = Owned(asked, p, n)
      /\ last' = Did("resize", NULL, 0)
      /\ skewed' = (skewed \/ n % ALIGN # 0)
      /\ next_free_page' = next_free_page
  BY <1>1 DEF ReallocInPlace
<1>3. Laid(heap, next_free_page, T, tight) /\ Owns(U, asked) /\ Apart(U)
  BY UsedApart DEF HeapCore
<1>4. /\ Laid(g, next_free_page, T, tight)
      /\ i \in 1 .. Len(g)
      /\ g[i].addr = heap[i].addr /\ g[i].is_free = heap[i].is_free
      /\ g[i].size >= n
      /\ UsedExcept(g, i) = UsedExcept(heap, i)
  BY <1>2, <1>3, SplitUsed
<1> HIDE DEF g
<1>5. g[i].size \in Nat
  BY <1>4, ElementsAreBlocks DEF Laid
<1>6. U \ {heap[i]} = UsedExcept(heap, i)
  <2>1. U = UsedExcept(heap, i) \cup {heap[i]}
    BY <1>1, UsedWith, Zenon
  <2>2. heap[i] \notin UsedExcept(heap, i)
    <3> SUFFICES ASSUME heap[i] \in UsedExcept(heap, i) PROVE FALSE
      OBVIOUS
    <3>1. PICK j \in 1 .. Len(heap) : j # i /\ heap[i] = heap[j]
      BY Zenon DEF UsedExcept
    <3> QED
      BY <1>3, <3>1, AddressesDiffer DEF Laid
  <2> QED
    BY <2>1, <2>2
<1>7. UsedBlocks(g) = (U \ {heap[i]}) \cup {g[i]}
  <2>1. ~g[i].is_free
    BY <1>1, <1>4
  <2>2. UsedBlocks(g) = UsedExcept(g, i) \cup {g[i]}
    BY <1>4, <2>1, UsedWith, Zenon
  <2> QED
    BY <1>4, <1>6, <2>2
<1> DEFINE f == [q \in DOMAIN asked \ {Payload(heap[i])} |-> asked[q]]
<1>8. Apart(U \ {heap[i]}) /\ Owns(U \ {heap[i]}, f)
  BY <1>1, <1>3, LoseOwner
<1>9. Payload(g[i]) = p
  BY <1>1, <1>4 DEF Payload
<1>10. Owned(f, p, n) = Owned(asked, p, n)
  <2>1. f = [q \in DOMAIN asked \ {p} |-> asked[q]]
    BY <1>1
  <2>2. DOMAIN f = DOMAIN asked \ {p} /\ \A q \in DOMAIN asked \ {p} : f[q] = asked[q]
    BY <2>1
  <2>3. DOMAIN f \cup {p} = DOMAIN asked \cup {p}
    BY <2>2
  <2>4. p # NULL
    BY <1>1, PayloadsDiffer
  <2> HIDE DEF f
  <2>5. [q \in DOMAIN f \cup {p} |-> IF q = p THEN n ELSE f[q]]
          = [q \in DOMAIN asked \cup {p} |-> IF q = p THEN n ELSE asked[q]]
    BY <2>2, <2>3
  <2> QED
    BY <2>4, <2>5 DEF Owned
<1> HIDE DEF f
<1>11. \A c \in U \ {heap[i]} : c.addr # g[i].addr
  BY <1>1, <1>3, <1>4 DEF Apart
<1>12. Wrap(n) <= g[i].size
  <2>1. g[i].size >= n
    BY <1>4
  <2>2. \A x \in Nat : x >= n => Wrap(n) <= x
    BY WrapBounds
  <2> QED
    BY <1>5, <2>1, <2>2, Zenon
<1>13. g[i].addr \in Nat
  BY <1>1, <1>4
<1>14. Owns((U \ {heap[i]}) \cup {g[i]}, Owned(f, Payload(g[i]), n))
  BY <1>8, <1>11, <1>12, <1>13, GainOwner
<1>15. Laid(heap', next_free_page', T, tight) /\ Owns(UsedBlocks(heap'), asked')
  BY <1>2, <1>4, <1>7, <1>9, <1>10, <1>14
<1>16. /\ (last \in [op: A!Ops, ptr: Nat, len: Nat])'
       /\ (skewed \in BOOLEAN)'
       /\ FillFits'
  BY <1>2 DEF Did, FillFits, HeapCore, A!Ops
<1> QED
  BY <1>15, <1>16 DEF HeapCore

(* realloc into a new block: the old block stays used until the copy is    *)
(* made, so malloc cannot hand it out, and the copy fits the new block.    *)
LEMMA ReallocMoveStep ==
  ASSUME NEW T, NEW tight, HeapCore(T, tight),
         NEW p \in Live, NEW n \in Nat, RoundUp(n) + HDR <= PAGE_SIZE,
         ReallocMove(p, n), tight \/ MergesNext(Malloc(heap, next_free_page, n).heap, p)
  PROVE  HeapCore(T, tight)'
<1>1. PICK i \in 1 .. Len(heap) :
         /\ heap[i] \in UsedBlocks(heap)
         /\ heap[i].addr \in Nat /\ heap[i].size \in Nat
         /\ Payload(heap[i]) = p
         /\ IndexOf(heap, p) = i
  BY LiveBlock
<1> DEFINE old == heap[i]
           U == UsedBlocks(heap)
           r == Malloc(heap, next_free_page, n)
           g == Free(r.heap, p)
           f == [q \in DOMAIN asked \ {p} |-> asked[q]]
<1>2. /\ old.size < n /\ heap' = g /\ next_free_page' = r.brk
      /\ asked' = Owned(f, r.ptr, n)
      /\ last' = Did("resize", r.ptr, old.size)
      /\ skewed' = skewed
  BY <1>1 DEF ReallocMove, Without, Live
<1>3. Laid(heap, next_free_page, T, tight) /\ Owns(U, asked) /\ Apart(U)
  BY UsedApart DEF HeapCore
<1>4. n # 0
  BY <1>1, <1>2
<1>5. Laid(r.heap, r.brk, T, tight)
  BY <1>3, <1>4, MallocTakes
<1>6. PICK b \in Block :
        /\ Payload(b) = r.ptr
        /\ b.size >= n
        /\ UsedBlocks(r.heap) = U \cup {b}
        /\ \A c \in U : c.addr # b.addr
  BY <1>3, <1>4, MallocTakes
<1>7. b.addr \in Nat /\ b.size \in Nat
  BY DEF Block
<1> HIDE DEF r
<1>8. old \in UsedBlocks(r.heap) /\ old # b
  BY <1>1, <1>6
<1>9. /\ Laid(g, r.brk, T, tight)
      /\ UsedBlocks(g) = UsedBlocks(r.heap) \ {old}
  <2>1. tight \/ MergesNext(r.heap, Payload(old))
    BY <1>1 DEF r
  <2> QED
    BY <1>1, <1>5, <1>8, <2>1, FreeReleases
<1> HIDE DEF g
<1>10. UsedBlocks(g) = (U \ {old}) \cup {b}
  BY <1>6, <1>8, <1>9
<1>11. Apart(U \ {old}) /\ Owns(U \ {old}, f)
  BY <1>1, <1>3, LoseOwner
<1> HIDE DEF f
<1>12. Wrap(n) <= b.size
  <2>1. b.size >= n
    BY <1>6, Zenon
  <2>2. Wrap(n) \in Nat /\ Wrap(n) <= n
    BY WrapBounds
  <2> QED
    BY <1>7, <2>1, <2>2
<1>13. Owns((U \ {old}) \cup {b}, Owned(f, Payload(b), n))
  BY <1>6, <1>7, <1>11, <1>12, GainOwner
<1>14. Laid(heap', next_free_page', T, tight) /\ Owns(UsedBlocks(heap'), asked')
  BY <1>2, <1>6, <1>9, <1>10, <1>13
<1>15. r.ptr \in Nat
  BY <1>6, <1>7, PayloadsDiffer
<1>16. (last \in [op: A!Ops, ptr: Nat, len: Nat])' /\ (skewed \in BOOLEAN)'
  BY <1>1, <1>2, <1>15 DEF Did, HeapCore, A!Ops
<1>17. FillFits'
  <2>1. last'.ptr = r.ptr /\ last'.len = old.size
    BY <1>2 DEF Did
  <2>2. old.size <= b.size
    BY <1>1, <1>2, <1>6, <1>7
  <2>3. b \in UsedBlocks(heap')
    BY <1>2, <1>10
  <2> QED
    BY <1>6, <2>1, <2>2, <2>3 DEF FillFits
<1> QED
  BY <1>14, <1>16, <1>17 DEF HeapCore

(* Every free merges adjacent blocks only. *)
MergesSound ==
  /\ \A p \in Live : FreeCall(p) => MergesNext(heap, p)
  /\ \A p \in Live, n \in Requests :
       ReallocMove(p, n) => MergesNext(Malloc(heap, next_free_page, n).heap, p)

(* Every call preserves the invariant, if every request fits a page. *)
LEMMA NextHeapCore ==
  ASSUME RequestsFitAPage, NEW T, NEW tight, HeapCore(T, tight), [Next]_vars,
         tight \/ MergesSound
  PROVE  HeapCore(T, tight)'
<1>1. CASE UNCHANGED vars
  BY <1>1 DEF vars, HeapCore, Laid, Ordered, Tiles, Owns, FillFits, Clear
<1>2. ASSUME NEW n \in Requests
      PROVE  n \in Nat /\ RoundUp(n) + HDR <= PAGE_SIZE
  BY RequestsAssumption DEF RequestsFitAPage
<1>3. ASSUME NEW n \in Requests, MallocCall(n) PROVE HeapCore(T, tight)'
  BY <1>2, <1>3, MallocCallStep
<1>4. ASSUME NEW a \in CallocArgs, CallocCall(a[1], a[2]) PROVE HeapCore(T, tight)'
  <2>1. a[1] \in Nat /\ a[2] \in Nat
    BY RequestsAssumption
  <2>2. RoundUp(Wrap(a[1] * a[2])) + HDR <= PAGE_SIZE
    BY DEF RequestsFitAPage
  <2> QED
    BY <1>4, <2>1, <2>2, CallocCallStep
<1>5. ASSUME NEW p \in Live, FreeCall(p) PROVE HeapCore(T, tight)'
  BY <1>5, FreeStep DEF MergesSound
<1>6. ASSUME NEW p \in Live \cup {NULL}, NEW n \in Requests, ReallocCall(p, n)
      PROVE  HeapCore(T, tight)'
  <2>1. CASE p = NULL /\ MallocCall(n)
    BY <1>3, <2>1
  <2>2. CASE p # NULL /\ n = 0 /\ FreeCall(p)
    BY <1>5, <2>2
  <2>3. CASE p # NULL /\ ReallocInPlace(p, n)
    BY <1>2, <2>3, ReallocInPlaceStep
  <2>4. CASE p # NULL /\ ReallocMove(p, n)
    BY <1>2, <2>4, ReallocMoveStep DEF MergesSound
  <2> QED
    BY <1>6, <2>1, <2>2, <2>3, <2>4 DEF ReallocCall
<1> QED
  BY <1>1, <1>3, <1>4, <1>5, <1>6 DEF Next

(* The heap by itself. *)
LEMMA NextHeapInv ==
  ASSUME RequestsFitAPage, HeapInv, [Next]_vars
  PROVE  HeapInv'
<1>1. HeapCore({}, TRUE)'
  BY NextHeapCore DEF HeapInv
<1> QED
  BY <1>1 DEF HeapInv

(* The invariant holds the properties that callers and the allocator's own *)
(* steps rely on.                                                          *)
LEMMA HeapCoreImplies ==
  ASSUME NEW T, NEW tight, HeapCore(T, tight)
  PROVE  /\ TypeOK /\ BlocksOrdered /\ (tight => Tiling)
         /\ UsedIsLive /\ EnoughBytes /\ FillFits
<1>1. /\ heap \in Seq(Block) /\ next_free_page \in Nat
      /\ BlocksOrdered /\ FillFits /\ (tight => Tiling)
  BY DEF HeapCore, Laid, BlocksOrdered, Tiling
<1>2. /\ asked \in [{Payload(b) : b \in UsedBlocks(heap)} -> Nat]
      /\ \A b \in UsedBlocks(heap) : Wrap(asked[Payload(b)]) <= b.size
  BY DEF HeapCore, Owns
<1>3. UsedIsLive /\ asked \in [Live -> Nat]
  BY <1>2 DEF UsedIsLive, Live
<1>4. EnoughBytes
  <2>1. ASSUME NEW b \in UsedBlocks(heap)
        PROVE  Promised[Payload(b)] = Wrap(asked[Payload(b)])
    BY <1>3 DEF Promised, UsedIsLive
  <2> QED
    BY <1>2, <2>1 DEF EnoughBytes
<1>5. Live \subseteq Nat \ {NULL}
  <2> SUFFICES ASSUME NEW p \in Live PROVE p \in Nat \ {NULL}
    OBVIOUS
  <2>1. PICK i \in 1 .. Len(heap) : heap[i].addr \in Nat /\ Payload(heap[i]) = p
    BY LiveBlock
  <2> QED
    BY <2>1, PayloadsDiffer
<1> QED
  BY <1>1, <1>3, <1>4, <1>5 DEF TypeOK, HeapCore

(* The same for the heap by itself. *)
LEMMA HeapInvImplies ==
  ASSUME HeapInv
  PROVE  /\ TypeOK /\ BlocksOrdered /\ Tiling
         /\ UsedIsLive /\ EnoughBytes /\ FillFits
BY HeapCoreImplies DEF HeapInv

(* stdlib.c: whatever the callers do, the block list is well typed, tiles  *)
(* the heap's pages, holds exactly the blocks that callers own, and each   *)
(* of these holds the bytes it was asked for, provided every request fits  *)
(* a page together with its header.                                        *)
THEOREM HeapInvariant ==
  ASSUME RequestsFitAPage
  PROVE  Spec => []HeapInv
<1>1. Init => HeapInv
  BY InitHeapInv
<1>2. HeapInv /\ [Next]_vars => HeapInv'
  BY NextHeapInv
<1> QED
  BY <1>1, <1>2, PTL DEF Spec

(* The heap's variables keep their types (stdlib.c's block list and        *)
(* next_free_page): no split or merge makes a size negative.               *)
THEOREM TypeCorrect ==
  ASSUME RequestsFitAPage
  PROVE  Spec => []TypeOK
<1>1. HeapInv => TypeOK
  BY HeapInvImplies
<1> QED
  BY <1>1, HeapInvariant, PTL

(* free's merge with block->next is sound: list neighbours are memory      *)
(* neighbours, and no block reaches past next_free_page.                   *)
THEOREM BlocksTileTheHeap ==
  ASSUME RequestsFitAPage
  PROVE  Spec => [](BlocksOrdered /\ Tiling)
<1>1. HeapInv => BlocksOrdered /\ Tiling
  BY HeapInvImplies
<1> QED
  BY <1>1, HeapInvariant, PTL

(* malloc, calloc, realloc and free keep owners and used blocks in step,   *)
(* and every owner has the bytes it was promised.                          *)
THEOREM OwnersHoldTheirBlocks ==
  ASSUME RequestsFitAPage
  PROVE  Spec => []OwnersServed
<1>1. HeapInv => OwnersServed
  BY HeapInvImplies DEF OwnersServed
<1> QED
  BY <1>1, HeapInvariant, PTL

(* Regions inside blocks that do not overlap have no byte in common. *)
LEMMA RegionsApart ==
  ASSUME NEW b, b.addr \in Nat, b.size \in Nat, NEW n \in Nat, n <= b.size,
         NEW c, c.addr \in Nat, c.size \in Nat, NEW m \in Nat, m <= c.size,
         End(b) <= c.addr \/ End(c) <= b.addr
  PROVE  (Payload(b) .. Payload(b) + n - 1) \cap (Payload(c) .. Payload(c) + m - 1) = {}
BY SizesAssumption DEF End, Payload

(* Owners of different blocks have no byte in common. *)
LEMMA CoreDisjoint ==
  ASSUME NEW T, NEW tight, HeapCore(T, tight)
  PROVE  LiveDisjoint
<1>1. /\ heap \in Seq(Block) /\ Ordered(heap) /\ EnoughBytes
      /\ asked \in [Live -> Nat]
  BY HeapCoreImplies DEF HeapCore, Laid, TypeOK
<1>2. ASSUME NEW p \in Live
      PROVE  \E i \in 1 .. Len(heap) :
               /\ heap[i].addr \in Nat /\ heap[i].size \in Nat
               /\ p = Payload(heap[i])
               /\ Promised[p] \in Nat /\ Promised[p] <= heap[i].size
  <2>1. PICK i \in 1 .. Len(heap) :
           /\ heap[i] \in UsedBlocks(heap)
           /\ heap[i].addr \in Nat /\ heap[i].size \in Nat
           /\ Payload(heap[i]) = p
    BY LiveBlock
  <2>2. Promised[p] <= heap[i].size
    BY <1>1, <2>1 DEF EnoughBytes
  <2>3. Promised[p] \in Nat
    BY <1>1, WrapBounds DEF Promised
  <2> QED
    BY <2>1, <2>2, <2>3
<1> SUFFICES ASSUME NEW p \in Live, NEW q \in Live, p # q
             PROVE  (p .. p + Promised[p] - 1) \cap (q .. q + Promised[q] - 1) = {}
  BY DEF LiveDisjoint
<1>3. PICK i \in 1 .. Len(heap) :
             /\ heap[i].addr \in Nat /\ heap[i].size \in Nat
             /\ p = Payload(heap[i])
             /\ Promised[p] \in Nat /\ Promised[p] <= heap[i].size
  BY <1>2
<1>4. PICK j \in 1 .. Len(heap) :
             /\ heap[j].addr \in Nat /\ heap[j].size \in Nat
             /\ q = Payload(heap[j])
             /\ Promised[q] \in Nat /\ Promised[q] <= heap[j].size
  BY <1>2
<1>5. i # j
  BY <1>3, <1>4, Zenon
<1>6. End(heap[i]) <= heap[j].addr \/ End(heap[j]) <= heap[i].addr
  <2>1. i < j \/ j < i
    BY <1>1, <1>5
  <2> QED
    BY <1>1, <2>1 DEF Ordered
<1> QED
  BY <1>3, <1>4, <1>6, RegionsApart, ZenonT(40)

(* No byte ever belongs to two callers of malloc, calloc or realloc. *)
THEOREM LiveRegionsDisjoint ==
  ASSUME RequestsFitAPage
  PROVE  Spec => []LiveDisjoint
<1>1. HeapInv => LiveDisjoint
  BY CoreDisjoint DEF HeapInv
<1> QED
  BY <1>1, HeapInvariant, PTL

-----------------------------------------------------------------------------
(* Alignment.                                                              *)

(* Division with remainder. *)
LEMMA DivMod ==
  ASSUME NEW w \in Nat, w > 0, NEW n \in Nat
  PROVE  n = w * (n \div w) + (n % w) /\ n % w \in 0 .. w - 1 /\ n \div w \in Nat
OBVIOUS

(* A multiple of w leaves no remainder. *)
LEMMA DivUnique ==
  ASSUME NEW w \in Nat, w > 0, NEW q \in Nat
  PROVE  (w * q) % w = 0
OBVIOUS

(* Multiples of ALIGN add up to multiples. *)
LEMMA SumAligned ==
  ASSUME NEW a \in Nat, NEW b \in Nat, a % ALIGN = 0, b % ALIGN = 0
  PROVE  (a + b) % ALIGN = 0
<1>1. ALIGN \in Nat /\ ALIGN > 0
  BY SizesAssumption
<1> DEFINE x == a \div ALIGN
           y == b \div ALIGN
<1>2. a = ALIGN * x + (a % ALIGN) /\ x \in Nat /\ b = ALIGN * y + (b % ALIGN) /\ y \in Nat
  BY <1>1, DivMod
<1> HIDE DEF x, y
<1>3. a = ALIGN * x /\ b = ALIGN * y
  <2>1. ALIGN * x \in Nat /\ ALIGN * y \in Nat
    BY <1>1, <1>2
  <2> QED
    BY <1>2, <2>1
<1>4. a + b = ALIGN * (x + y) /\ x + y \in Nat
  BY <1>1, <1>2, <1>3
<1> QED
  BY <1>1, <1>4, DivUnique

(* malloc's rounded sizes are multiples of ALIGN. *)
LEMMA RoundUpAligned ==
  ASSUME NEW n \in Nat
  PROVE  RoundUp(n) % ALIGN = 0
<1> DEFINE m == n + (ALIGN - 1)
           q == m \div ALIGN
<1>1. m \in Nat /\ ALIGN \in Nat /\ ALIGN > 0
  BY SizesAssumption
<1> HIDE DEF m
<1>2. m = ALIGN * q + (m % ALIGN) /\ q \in Nat /\ m % ALIGN \in 0 .. ALIGN - 1
  BY <1>1, DivMod
<1> HIDE DEF q
<1>3. ALIGN * q \in Nat
  BY <1>1, <1>2
<1>4. m - (m % ALIGN) = ALIGN * q
  BY <1>1, <1>2, <1>3
<1>5. RoundUp(n) = ALIGN * q
  BY <1>4 DEF RoundUp, m
<1> QED
  BY <1>1, <1>2, <1>5, DivUnique

(* Every block lies at a multiple of ALIGN. *)
AddressesAligned(h) == \A j \in 1 .. Len(h) : h[j].addr % ALIGN = 0

(* Putting an aligned block into a list of aligned blocks. *)
LEMMA InsertAligned ==
  ASSUME NEW s \in Seq(Block), NEW i \in 1 .. Len(s) + 1, NEW e \in Block
  PROVE  AddressesAligned(s) /\ e.addr % ALIGN = 0 => AddressesAligned(InsertAt(s, i, e))
<1> DEFINE g == InsertAt(s, i, e)
<1>1. Len(s) \in Nat
  OBVIOUS
<1>2. Len(g) = Len(s) + 1
  BY InsertAtShape
<1>3. \A j \in 1 .. Len(s) + 1 : g[j] = Inserted(s, i, e, j)
  BY InsertAtShape, Zenon
<1> HIDE DEF g
<1>4. ASSUME AddressesAligned(s), e.addr % ALIGN = 0, NEW j \in 1 .. Len(s) + 1
      PROVE  g[j].addr % ALIGN = 0
  <2>1. CASE j < i
    <3>1. g[j] = s[j] /\ j \in 1 .. Len(s)
      BY <1>1, <1>3, <2>1 DEF Inserted
    <3> QED
      BY <1>4, <3>1 DEF AddressesAligned
  <2>2. CASE j = i
    <3>1. g[j] = e
      BY <1>1, <1>3, <2>2 DEF Inserted
    <3> QED
      BY <1>4, <3>1
  <2>3. CASE j > i
    <3>1. g[j] = s[j - 1] /\ j - 1 \in 1 .. Len(s)
      BY <1>1, <1>3, <2>3 DEF Inserted
    <3> QED
      BY <1>4, <3>1 DEF AddressesAligned
  <2> QED
    BY <1>1, <2>1, <2>2, <2>3
<1> QED
  BY <1>2, <1>4 DEF AddressesAligned, g

(* A split at a multiple of ALIGN. *)
LEMMA SplitAligned ==
  ASSUME NEW h, NEW brk, NEW T, NEW tight, Laid(h, brk, T, tight), AddressesAligned(h),
         NEW i \in 1 .. Len(h), NEW n \in Nat, n % ALIGN = 0
  PROVE  AddressesAligned(SplitBlock(h, i, n))
<1> DEFINE f == [addr |-> h[i].addr + HDR + n, size |-> h[i].size - n - HDR,
                 is_free |-> TRUE]
           e == [h[i] EXCEPT !.size = n]
           h1 == [h EXCEPT ![i] = e]
           g == InsertAt(h1, i + 1, f)
<1>1. /\ h \in Seq(Block) /\ h[i] \in Block /\ Len(h) \in Nat
      /\ h[i].addr \in Nat /\ h[i].size \in Nat /\ HDR \in Nat /\ SLACK \in Nat
  BY ElementsAreBlocks, SizesAssumption DEF Laid
<1>2. CASE ~(h[i].size >= n + HDR + SLACK)
  BY <1>2 DEF SplitBlock
<1>3. CASE h[i].size >= n + HDR + SLACK
  <2>1. SplitBlock(h, i, n) = g
    BY <1>3 DEF SplitBlock
  <2>2. f \in Block /\ e \in Block /\ e.addr = h[i].addr
    <3>1. h[i].addr + HDR + n \in Nat /\ h[i].size - n - HDR \in Nat
      BY <1>1, <1>3, SMTT(30)
    <3> QED
      BY <1>1, <3>1 DEF Block
  <2>3. f.addr % ALIGN = 0
    <3>1. (h[i].addr + HDR) % ALIGN = 0 /\ h[i].addr + HDR \in Nat
      <4>1. h[i].addr % ALIGN = 0 /\ HDR % ALIGN = 0
        BY AlignmentAssumption, Zenon DEF AddressesAligned
      <4>2. (h[i].addr + HDR) % ALIGN = 0
        BY <1>1, <4>1, SumAligned, Zenon
      <4>3. \A a, b \in Nat : a + b \in Nat
        OBVIOUS
      <4> QED
        BY <1>1, <4>2, <4>3, Zenon
    <3>2. ASSUME NEW a \in Nat, a % ALIGN = 0
          PROVE  (a + n) % ALIGN = 0
      BY <3>2, SumAligned
    <3> QED
      BY <3>1, <3>2
  <2> HIDE DEF e, f
  <2>4. /\ h1 \in Seq(Block) /\ Len(h1) = Len(h)
        /\ \A j \in 1 .. Len(h) : h1[j] = IF j = i THEN e ELSE h[j]
    BY <1>1, <2>2, ExceptSeq
  <2>5. \A j \in 1 .. Len(h) : h1[j].addr % ALIGN = 0
    BY <2>2, <2>4 DEF AddressesAligned
  <2> HIDE DEF h1
  <2>6. i + 1 \in 1 .. Len(h1) + 1 /\ AddressesAligned(h1)
    BY <1>1, <2>4, <2>5 DEF AddressesAligned
  <2>7. AddressesAligned(g)
    BY <2>2, <2>3, <2>4, <2>6, InsertAligned
  <2> QED
    BY <2>1, <2>7
<1> QED
  BY <1>2, <1>3

(* malloc keeps the blocks and the bump pointer aligned. *)
LEMMA MallocAligned ==
  ASSUME NEW h, NEW brk, NEW T, NEW tight, Laid(h, brk, T, tight), AddressesAligned(h),
         brk % ALIGN = 0, NEW n \in Nat, RoundUp(n) + HDR <= PAGE_SIZE
  PROVE  AddressesAligned(Malloc(h, brk, n).heap) /\ Malloc(h, brk, n).brk % ALIGN = 0
<1>1. CASE n = 0
  BY <1>1 DEF Malloc
<1>2. CASE n # 0
  <2> DEFINE b == Malloc(h, brk, n).brk
             size == RoundUp(n)
  <2>1. PICK g, i : Laid(g, b, T, tight) /\ Chosen(h, brk, n, g, i)
    BY <1>2, MallocChooses
  <2>2. brk \in Nat /\ PAGE_SIZE \in Nat /\ PAGE_SIZE % ALIGN = 0 /\ Len(h) \in Nat
    BY SizesAssumption, AlignmentAssumption DEF Laid
  <2>3. SameOrNewPage(h, brk, g, b, i) /\ i \in 1 .. Len(g)
    BY <2>1 DEF Chosen
  <2> HIDE DEF b
  <2>4. b % ALIGN = 0
    BY <2>2, <2>3, SumAligned DEF SameOrNewPage
  <2>5. AddressesAligned(g)
    <3>1. CASE g = h
      BY <3>1
    <3>2. CASE g # h
      <4>1. /\ Len(g) = Len(h) + 1 /\ \A j \in 1 .. Len(h) : g[j] = h[j]
            /\ i = Len(g) /\ g[i].addr = brk
        BY <2>3, <3>2 DEF SameOrNewPage
      <4>2. ASSUME NEW j \in 1 .. Len(g) PROVE g[j].addr % ALIGN = 0
        <5>1. CASE j = i
          BY <4>1, <5>1
        <5>2. CASE j # i
          <6>1. j \in 1 .. Len(h)
            BY <2>2, <4>1, <5>2
          <6> QED
            BY <4>1, <6>1 DEF AddressesAligned
        <5> QED
          BY <5>1, <5>2
      <4> QED
        BY <4>2 DEF AddressesAligned
    <3> QED
      BY <3>1, <3>2
  <2>6. size \in Nat /\ size % ALIGN = 0
    BY RoundUpBounds, RoundUpAligned
  <2> HIDE DEF size
  <2> DEFINE k == SplitBlock(g, i, size)
             m == [k EXCEPT ![i].is_free = FALSE]
  <2>7. AddressesAligned(k)
    BY <2>1, <2>3, <2>5, <2>6, SplitAligned
  <2>8. k \in Seq(Block)
    <3>1. g[i].size >= size
      BY <2>1 DEF Chosen, size
    <3>2. Laid(k, b, T, tight)
      BY <2>1, <2>3, <2>6, <3>1, SplitUsed
    <3> QED
      BY <3>2 DEF Laid
  <2> HIDE DEF k
  <2>9. Len(m) = Len(k) /\ \A j \in 1 .. Len(k) : m[j].addr = k[j].addr
    <3>1. k \in [1 .. Len(k) -> Block] /\ Len(k) \in Nat
      BY <2>8
    <3>2. m = [j \in 1 .. Len(k) |-> IF j = i THEN [k[i] EXCEPT !.is_free = FALSE] ELSE k[j]]
      BY <3>1
    <3>3. \A j \in 1 .. Len(k) : m[j].addr = k[j].addr
      BY <3>1, <3>2 DEF Block
    <3>4. Len(m) = Len(k)
      BY <3>1, <3>2
    <3> QED
      BY <3>3, <3>4
  <2>10. Malloc(h, brk, n).heap = m
    BY <2>1 DEF Chosen, m, k, size
  <2> HIDE DEF m
  <2> QED
    BY <2>4, <2>7, <2>9, <2>10 DEF AddressesAligned, b
<1> QED
  BY <1>1, <1>2

(* free moves no block. *)
LEMMA FreeAligned ==
  ASSUME NEW h \in Seq(Block), AddressesAligned(h), NEW p, IndexOf(h, p) \in 1 .. Len(h)
  PROVE  AddressesAligned(Free(h, p))
<1> DEFINE i == IndexOf(h, p)
           h1 == [h EXCEPT ![i].is_free = TRUE]
           h2 == [h1 EXCEPT ![i].size = @ + HDR + h[i + 1].size]
<1>1. h \in [1 .. Len(h) -> Block] /\ Len(h) \in Nat /\ i \in 1 .. Len(h)
  OBVIOUS
<1>2. Free(h, p) = IF i < Len(h) /\ h[i + 1].is_free THEN RemoveAt(h2, i + 1) ELSE h1
  BY DEF Free
<1> HIDE DEF i
<1>3. /\ h1 = [j \in 1 .. Len(h) |-> IF j = i THEN [h[i] EXCEPT !.is_free = TRUE] ELSE h[j]]
      /\ h1 \in Seq(Block) /\ Len(h1) = Len(h)
      /\ \A j \in 1 .. Len(h) : h1[j].addr = h[j].addr
  <2>1. h1 = [j \in 1 .. Len(h) |-> IF j = i THEN [h[i] EXCEPT !.is_free = TRUE] ELSE h[j]]
    BY <1>1
  <2>2. [h[i] EXCEPT !.is_free = TRUE] \in Block
    BY <1>1 DEF Block
  <2>3. h1 \in [1 .. Len(h) -> Block]
    BY <1>1, <2>1, <2>2
  <2>4. h1 \in Seq(Block) /\ Len(h1) = Len(h)
    BY <1>1, <2>3, SeqDef
  <2>5. \A j \in 1 .. Len(h) : h1[j].addr = h[j].addr
    BY <1>1, <2>1 DEF Block
  <2> QED
    BY <2>1, <2>4, <2>5
<1>4. CASE ~(i < Len(h) /\ h[i + 1].is_free)
  BY <1>2, <1>3, <1>4 DEF AddressesAligned
<1>5. CASE i < Len(h) /\ h[i + 1].is_free
  <2> HIDE DEF h1
  <2> DEFINE e == [h1[i] EXCEPT !.size = h1[i].size + HDR + h[i + 1].size]
  <2>1. i + 1 \in 1 .. Len(h) /\ h[i + 1].size \in Nat /\ HDR \in Nat
        /\ h1[i] \in Block /\ h1[i].size \in Nat
    <3>1. i + 1 \in 1 .. Len(h) /\ i \in 1 .. Len(h1) /\ HDR \in Nat
      BY <1>1, <1>3, <1>5, SizesAssumption
    <3>2. h[i + 1].size \in Nat
      BY <3>1, ElementsAreBlocks
    <3>3. h1[i] \in Block /\ h1[i].size \in Nat
      BY <1>3, <3>1, ElementsAreBlocks
    <3> QED
      BY <3>1, <3>2, <3>3
  <2>2. e \in Block /\ e.addr = h1[i].addr
    <3>1. h1[i].size + HDR + h[i + 1].size \in Nat
      BY <2>1, SMTT(30)
    <3> QED
      BY <2>1, <3>1 DEF Block
  <2>3. h2 = [h1 EXCEPT ![i] = e]
    OBVIOUS
  <2> HIDE DEF e
  <2>4. /\ h2 \in Seq(Block) /\ Len(h2) = Len(h1)
        /\ \A j \in 1 .. Len(h1) : h2[j] = IF j = i THEN e ELSE h1[j]
    <3>1. i \in 1 .. Len(h1) /\ h1 \in Seq(Block) /\ e \in Block
      BY <1>1, <1>3, <2>2
    <3> QED
      BY <2>3, <3>1, ExceptSeq, SMTT(30)
  <2> HIDE DEF h2
  <2>5. \A j \in 1 .. Len(h) : h2[j].addr = h[j].addr
    BY <1>1, <1>3, <2>2, <2>4
  <2> DEFINE g == RemoveAt(h2, i + 1)
  <2>6. Len(g) = Len(h) - 1
    BY <1>3, <2>1, <2>4, RemoveAtShape
  <2>7. ASSUME NEW j \in 1 .. Len(h) - 1
        PROVE  g[j] = IF j < i + 1 THEN h2[j] ELSE h2[j + 1]
    <3>1. i + 1 \in 1 .. Len(h2) /\ h2 \in Seq(Block) /\ j \in 1 .. Len(h2) - 1
      BY <1>3, <2>1, <2>4
    <3> QED
      BY <3>1, RemoveAtShape
  <2> HIDE DEF g
  <2>8. ASSUME NEW j \in 1 .. Len(g) PROVE g[j].addr % ALIGN = 0
    <3>1. j \in 1 .. Len(h) /\ j + 1 \in 1 .. Len(h) /\ j \in 1 .. Len(h) - 1
      BY <1>1, <2>6
    <3>2. g[j].addr = h[j].addr \/ g[j].addr = h[j + 1].addr
      BY <2>5, <2>7, <3>1
    <3> QED
      BY <3>1, <3>2 DEF AddressesAligned
  <2> QED
    BY <1>2, <1>5, <2>8 DEF AddressesAligned, g
<1> QED
  BY <1>4, <1>5

(* Until a realloc cuts a block at an unrounded size, every block and the  *)
(* next page lie at multiples of ALIGN.                                    *)
Straight == ~skewed => AddressesAligned(heap) /\ next_free_page % ALIGN = 0

(* A malloc inside a call leaves the list and the bump pointer aligned.    *)
LEMMA MallocStraight ==
  ASSUME HeapInv, AddressesAligned(heap), next_free_page % ALIGN = 0,
         NEW n \in Nat, RoundUp(n) + HDR <= PAGE_SIZE,
         NEW r, r = Malloc(heap, next_free_page, n)
  PROVE  AddressesAligned(r.heap) /\ r.brk % ALIGN = 0
<1>1. Laid(heap, next_free_page, {}, TRUE)
  BY DEF HeapInv, HeapCore
<1> QED
  BY <1>1, MallocAligned

(* malloc takes no block away from its owner. *)
LEMMA MallocKeepsUsed ==
  ASSUME NEW h, NEW brk, NEW T, NEW tight, Laid(h, brk, T, tight), NEW n \in Nat, n # 0,
         RoundUp(n) + HDR <= PAGE_SIZE
  PROVE  UsedBlocks(h) \subseteq UsedBlocks(Malloc(h, brk, n).heap)
<1>1. PICK b \in Block :
        /\ Payload(b) = Malloc(h, brk, n).ptr
        /\ b.size >= n
        /\ UsedBlocks(Malloc(h, brk, n).heap) = UsedBlocks(h) \cup {b}
        /\ \A c \in UsedBlocks(h) : c.addr # b.addr
  BY MallocTakes
<1> QED
  BY <1>1

(* Every call keeps the blocks aligned or sets skewed. *)
LEMMA NextStraight ==
  ASSUME RequestsFitAPage, HeapInv, Straight, [Next]_vars
  PROVE  Straight'
<1> SUFFICES ASSUME ~skewed' PROVE AddressesAligned(heap') /\ next_free_page' % ALIGN = 0
  BY DEF Straight, AddressesAligned
<1>1. Laid(heap, next_free_page, {}, TRUE) /\ heap \in Seq(Block)
  BY DEF HeapInv, HeapCore, Laid
<1>2. ASSUME ~skewed PROVE AddressesAligned(heap) /\ next_free_page % ALIGN = 0
  BY <1>2 DEF Straight
<1>3. ASSUME NEW n \in Requests
      PROVE  n \in Nat /\ RoundUp(n) + HDR <= PAGE_SIZE
  BY RequestsAssumption DEF RequestsFitAPage
<1>4. CASE UNCHANGED vars
  BY <1>2, <1>4 DEF vars, AddressesAligned
<1>5. ASSUME NEW n \in Requests, MallocCall(n)
      PROVE  AddressesAligned(heap') /\ next_free_page' % ALIGN = 0
  <2> DEFINE r == Malloc(heap, next_free_page, n)
  <2>1. heap' = r.heap /\ next_free_page' = r.brk /\ ~skewed
    BY <1>5 DEF MallocCall, TakeResult
  <2>2. AddressesAligned(r.heap) /\ r.brk % ALIGN = 0
    BY <1>2, <1>3, <2>1, MallocStraight
  <2> HIDE DEF r
  <2> QED
    BY <2>1, <2>2 DEF AddressesAligned
<1>6. ASSUME NEW a \in CallocArgs, CallocCall(a[1], a[2])
      PROVE  AddressesAligned(heap') /\ next_free_page' % ALIGN = 0
  <2> DEFINE total == Wrap(a[1] * a[2])
             r == Malloc(heap, next_free_page, total)
  <2>1. heap' = r.heap /\ next_free_page' = r.brk /\ ~skewed
    BY <1>6 DEF CallocCall, TakeResult
  <2>2. total \in Nat /\ RoundUp(total) + HDR <= PAGE_SIZE
    <3>1. a[1] \in Nat /\ a[2] \in Nat
      BY RequestsAssumption
    <3>2. a[1] * a[2] \in Nat
      BY <3>1
    <3> QED
      BY <3>2, WrapBounds DEF RequestsFitAPage
  <2> HIDE DEF total
  <2>3. AddressesAligned(r.heap) /\ r.brk % ALIGN = 0
    BY <1>2, <2>1, <2>2, MallocStraight
  <2> HIDE DEF r
  <2> QED
    BY <2>1, <2>3 DEF AddressesAligned
<1>7. ASSUME NEW p \in Live, FreeCall(p)
      PROVE  AddressesAligned(heap') /\ next_free_page' % ALIGN = 0
  <2>1. heap' = Free(heap, p) /\ next_free_page' = next_free_page /\ ~skewed
    BY <1>7 DEF FreeCall
  <2>2. IndexOf(heap, p) \in 1 .. Len(heap)
    BY LiveBlock DEF HeapInv
  <2>3. AddressesAligned(Free(heap, p))
    BY <1>1, <1>2, <2>1, <2>2, FreeAligned
  <2> QED
    BY <1>2, <2>1, <2>3 DEF AddressesAligned
<1>8. ASSUME NEW p \in Live, NEW n \in Requests, ReallocInPlace(p, n)
      PROVE  AddressesAligned(heap') /\ next_free_page' % ALIGN = 0
  <2> DEFINE i == IndexOf(heap, p)
  <2>1. heap' = SplitBlock(heap, i, n) /\ next_free_page' = next_free_page
    BY <1>8 DEF ReallocInPlace
  <2>2. ~skewed /\ n % ALIGN = 0
    BY <1>8 DEF ReallocInPlace
  <2>3. i \in 1 .. Len(heap)
    BY LiveBlock DEF HeapInv
  <2>4. AddressesAligned(SplitBlock(heap, i, n))
    BY <1>1, <1>2, <1>3, <2>2, <2>3, SplitAligned
  <2> QED
    BY <1>2, <2>1, <2>2, <2>4 DEF AddressesAligned
<1>9. ASSUME NEW p \in Live, NEW n \in Requests, ReallocMove(p, n)
      PROVE  AddressesAligned(heap') /\ next_free_page' % ALIGN = 0
  <2> DEFINE r == Malloc(heap, next_free_page, n)
  <2>1. heap' = Free(r.heap, p) /\ next_free_page' = r.brk /\ ~skewed
        /\ heap[IndexOf(heap, p)].size < n
    BY <1>9 DEF ReallocMove
  <2>2. AddressesAligned(r.heap) /\ r.brk % ALIGN = 0
    BY <1>2, <1>3, <2>1, MallocStraight
  <2>3. PICK j \in 1 .. Len(heap) :
          /\ heap[j] \in UsedBlocks(heap) /\ Payload(heap[j]) = p
          /\ IndexOf(heap, p) = j /\ heap[j].size \in Nat
    BY LiveBlock DEF HeapInv
  <2>4. n \in Nat /\ n # 0 /\ RoundUp(n) + HDR <= PAGE_SIZE
    BY <1>3, <2>1, <2>3
  <2>5. Laid(r.heap, r.brk, {}, TRUE) /\ UsedBlocks(heap) \subseteq UsedBlocks(r.heap)
    <3>1. Laid(r.heap, r.brk, {}, TRUE)
      BY <1>1, <2>4, MallocTakes
    <3>2. UsedBlocks(heap) \subseteq UsedBlocks(r.heap)
      BY <1>1, <2>4, MallocKeepsUsed
    <3> QED
      BY <3>1, <3>2
  <2> HIDE DEF r
  <2>6. r.heap \in Seq(Block) /\ IndexOf(r.heap, p) \in 1 .. Len(r.heap)
    <3>1. r.heap \in Seq(Block) /\ Ordered(r.heap)
      BY <2>5 DEF Laid
    <3> DEFINE c == heap[j]
    <3>2. c \in UsedBlocks(r.heap)
      BY <2>3, <2>5
    <3> HIDE DEF c
    <3>3. PICK k \in 1 .. Len(r.heap) : ~r.heap[k].is_free /\ c = r.heap[k]
      BY <3>2, UsedMember, Zenon
    <3>4. IndexOf(r.heap, Payload(r.heap[k])) = k
      BY <3>1, <3>3, IndexOfFinds
    <3>5. Payload(r.heap[k]) = p
      BY <2>3, <3>3, Zenon DEF c
    <3> QED
      BY <3>1, <3>4, <3>5
  <2>7. AddressesAligned(Free(r.heap, p))
    BY <2>2, <2>6, FreeAligned
  <2> QED
    BY <2>1, <2>2, <2>7 DEF AddressesAligned
<1>10. ASSUME NEW p \in Live \cup {NULL}, NEW n \in Requests, ReallocCall(p, n)
       PROVE  AddressesAligned(heap') /\ next_free_page' % ALIGN = 0
  <2>1. CASE p = NULL /\ MallocCall(n)
    BY <1>5, <2>1
  <2>2. CASE p # NULL /\ n = 0 /\ FreeCall(p)
    BY <1>7, <2>2
  <2>3. CASE p # NULL /\ ReallocInPlace(p, n)
    BY <1>8, <2>3
  <2>4. CASE p # NULL /\ ReallocMove(p, n)
    BY <1>9, <2>4
  <2> QED
    BY <1>10, <2>1, <2>2, <2>3, <2>4 DEF ReallocCall
<1> QED
  BY <1>4, <1>5, <1>6, <1>7, <1>10 DEF Next

(* malloc's rounding works: as long as no realloc has cut a block at an    *)
(* unrounded size, every pointer that the heap can hand out is aligned.    *)
THEOREM PointersAligned ==
  ASSUME RequestsFitAPage
  PROVE  Spec => []Aligned
<1>1. Init => Straight
  <2> SUFFICES ASSUME Init PROVE AddressesAligned(heap) /\ next_free_page % ALIGN = 0
    BY DEF Straight
  <2>1. heap = << >> /\ next_free_page = BASE
    BY DEF Init
  <2>2. Len(heap) = 0
    BY <2>1
  <2> QED
    BY <2>1, <2>2, AlignmentAssumption DEF AddressesAligned
<1>2. HeapInv /\ Straight /\ [Next]_vars => Straight'
  BY NextStraight
<1>3. HeapInv /\ Straight => Aligned
  <2> SUFFICES ASSUME HeapInv, Straight, ~skewed, NEW i \in 1 .. Len(heap)
               PROVE  Payload(heap[i]) % ALIGN = 0
    BY DEF Aligned
  <2>1. heap[i].addr \in Nat
    BY ElementsAreBlocks DEF HeapInv, HeapCore, Laid
  <2>2. heap[i].addr % ALIGN = 0 /\ HDR \in Nat /\ HDR % ALIGN = 0
    BY SizesAssumption, AlignmentAssumption DEF Straight, AddressesAligned
  <2> QED
    BY <2>1, <2>2, SumAligned DEF Payload
<1> QED
  BY <1>1, <1>2, <1>3, HeapInvariant, PTL DEF Spec

-----------------------------------------------------------------------------
(* The heap implements the allocator.                                      *)

(* A call that leaves the regions of S alone and gives its caller the      *)
(* region of q: what it does to the allocator's state.                     *)
LEMMA RegionsChange ==
  ASSUME LiveDisjoint', NEW S, S \subseteq Live, NEW q, q \notin S, Live' = S \cup {q},
         \A r \in S : asked'[r] = asked[r]
  PROVE  /\ A!Fresh(q, Promised'[q], S)
         /\ q \in DOMAIN Promised'
         /\ Promised' = [r \in S \cup {q} |->
                           IF r = q THEN Promised'[q] ELSE Promised[r]]
<1>1. Promised' = [r \in Live' |-> Wrap(asked'[r])] /\ q \in Live'
  BY DEF Promised
<1>2. ASSUME NEW r \in S PROVE Promised'[r] = Promised[r] /\ r # q /\ r \in Live'
  BY <1>1, <1>2 DEF Promised
<1>3. Promised' = [r \in S \cup {q} |-> IF r = q THEN Promised'[q] ELSE Promised[r]]
  BY <1>1, <1>2
<1>4. ASSUME NEW r \in S
      PROVE  (q .. q + Promised'[q] - 1) \cap (r .. r + Promised[r] - 1) = {}
  <2>1. (q .. q + Promised'[q] - 1) \cap (r .. r + Promised'[r] - 1) = {}
    BY <1>1, <1>2 DEF LiveDisjoint
  <2> QED
    BY <1>2, <2>1
<1>5. A!Fresh(q, Promised'[q], S)
  BY <1>4 DEF A!Fresh, A!Bytes
<1> QED
  BY <1>1, <1>3, <1>5

(* The allocator sees the owners' pointers as its live regions. *)
LEMMA SameLive == A!Live = Live
BY DEF A!Live, Promised

(* malloc(n), calloc(c, n): q's region comes to the others. *)
LEMMA AllocateImplements ==
  ASSUME LiveDisjoint', NEW q, q # NULL, q \notin Live,
         Live' = Live \cup {q}, \A r \in Live : asked'[r] = asked[r],
         last'.op = "allocate"
  PROVE  A!Allocate
<1>1. PICK S : S = Live
  OBVIOUS
<1>2. /\ S \subseteq Live /\ q \notin S /\ Live' = S \cup {q}
      /\ \A r \in S : asked'[r] = asked[r]
  BY <1>1
<1>3. /\ A!Fresh(q, Promised'[q], S)
      /\ q \in DOMAIN Promised'
      /\ Promised' = [r \in S \cup {q} |-> IF r = q THEN Promised'[q] ELSE Promised[r]]
  <2>1. A!Fresh(q, Promised'[q], S)
    BY <1>2, RegionsChange
  <2>2. q \in DOMAIN Promised'
    BY <1>2, RegionsChange
  <2>3. Promised' = [r \in S \cup {q} |-> IF r = q THEN Promised'[q] ELSE Promised[r]]
    <3>1. Promised' = [r \in Live' |-> Wrap(asked'[r])]
      BY DEF Promised
    <3>2. ASSUME NEW r \in S PROVE Promised'[r] = Promised[r] /\ r # q
      BY <1>2, <3>1 DEF Promised
    <3> QED
      BY <1>2, <3>1, <3>2
  <2> QED
    BY <2>1, <2>2, <2>3
<1>4. /\ A!Fresh(q, Promised'[q], A!Live)
      /\ q \in DOMAIN Promised' \ A!Live
      /\ Promised' = [r \in A!Live \cup {q} |-> IF r = q THEN Promised'[q] ELSE Promised[r]]
  <2>1. S = A!Live
    BY <1>1, SameLive
  <2> QED
    BY <1>2, <1>3, <2>1
<1> QED
  BY <1>4 DEF A!Allocate

(* malloc never returns a pointer that somebody owns, nor NULL for n > 0. *)
LEMMA MallocNewPointer ==
  ASSUME NEW h, NEW brk, NEW T, NEW tight, Laid(h, brk, T, tight), NEW n \in Nat, n # 0,
         RoundUp(n) + HDR <= PAGE_SIZE
  PROVE  /\ Malloc(h, brk, n).ptr # NULL
         /\ \A c \in UsedBlocks(h) : Payload(c) # Malloc(h, brk, n).ptr
<1>1. PICK b \in Block :
        /\ Payload(b) = Malloc(h, brk, n).ptr
        /\ b.size >= n
        /\ UsedBlocks(Malloc(h, brk, n).heap) = UsedBlocks(h) \cup {b}
        /\ \A c \in UsedBlocks(h) : c.addr # b.addr
  BY MallocTakes
<1>2. b.addr \in Nat
  BY DEF Block
<1>3. Malloc(h, brk, n).ptr # NULL
  BY <1>1, <1>2, PayloadsDiffer
<1>4. ASSUME NEW c \in UsedBlocks(h) PROVE Payload(c) # Malloc(h, brk, n).ptr
  <2>1. c.addr \in Nat /\ c.addr # b.addr
    BY <1>1, UsedAreBlocks
  <2> QED
    BY <1>1, <1>2, <2>1, PayloadsDiffer
<1> QED
  BY <1>3, <1>4

(* malloc and calloc, with the owner's request t: a region, or NULL. *)
LEMMA MallocImplements ==
  ASSUME HeapInv, LiveDisjoint', NEW n \in Nat, RoundUp(n) + HDR <= PAGE_SIZE, NEW t,
         NEW r, r = Malloc(heap, next_free_page, n),
         asked' = Owned(asked, r.ptr, t), last'.op = Allocated(r)
  PROVE  A!Refuse \/ A!Allocate
<1>1. CASE r.ptr = NULL
  <2>1. asked' = asked /\ last'.op = "none"
    BY <1>1 DEF Owned, Allocated
  <2> QED
    BY <2>1 DEF A!Refuse, Promised, Live
<1>2. CASE r.ptr # NULL
  <2>1. n # 0
    BY <1>2 DEF Malloc
  <2>2. r.ptr \notin Live
    <3>1. Laid(heap, next_free_page, {}, TRUE) /\ Live = {Payload(c) : c \in UsedBlocks(heap)}
      BY HeapInvImplies DEF HeapInv, HeapCore, UsedIsLive
    <3>2. \A c \in UsedBlocks(heap) : Payload(c) # r.ptr
      BY <2>1, <3>1, MallocNewPointer
    <3> QED
      BY <3>1, <3>2
  <2>3. asked' = [q \in Live \cup {r.ptr} |-> IF q = r.ptr THEN t ELSE asked[q]]
    BY <1>2 DEF Owned, Live
  <2>4. Live' = Live \cup {r.ptr} /\ \A q \in Live : asked'[q] = asked[q]
    <3>1. Live' = Live \cup {r.ptr}
      BY <2>3 DEF Live
    <3> QED
      BY <2>2, <2>3, <3>1
  <2>5. last'.op = "allocate"
    BY <1>2 DEF Allocated
  <2> QED
    BY <1>2, <2>2, <2>4, <2>5, AllocateImplements
<1> QED
  BY <1>1, <1>2

(* realloc(p, n): p's region becomes the region of q. *)
LEMMA ResizeImplements ==
  ASSUME LiveDisjoint', NEW p \in Live, NEW q, q # NULL, q \notin Live \ {p},
         Live' = (Live \ {p}) \cup {q}, \A r \in Live \ {p} : asked'[r] = asked[r],
         last'.op = "resize"
  PROVE  A!Resize
<1>1. /\ A!Fresh(q, Promised'[q], Live \ {p})
      /\ q \in DOMAIN Promised'
      /\ Promised' = [r \in (Live \ {p}) \cup {q} |->
                        IF r = q THEN Promised'[q] ELSE Promised[r]]
  BY RegionsChange
<1> QED
  BY <1>1, SameLive DEF A!Resize

(* Every call of the heap is a step of the allocator. *)
LEMMA NextImplements ==
  ASSUME RequestsFitAPage, HeapInv, LiveDisjoint', [Next]_vars
  PROVE  A!Next \/ UNCHANGED <<Promised, last.op>>
<1>1. CASE UNCHANGED vars
  BY <1>1 DEF vars, Promised, Live
<1>2. ASSUME NEW n \in Requests
      PROVE  n \in Nat /\ RoundUp(n) + HDR <= PAGE_SIZE
  BY RequestsAssumption DEF RequestsFitAPage
<1>3. ASSUME NEW n \in Requests, MallocCall(n) PROVE A!Next
  <2> DEFINE r == Malloc(heap, next_free_page, n)
  <2>1. asked' = Owned(asked, r.ptr, n) /\ last' = Did(Allocated(r), NULL, 0)
    BY <1>3 DEF MallocCall
  <2>2. last'.op = Allocated(r)
    BY <2>1 DEF Did
  <2> QED
    BY <1>2, <2>1, <2>2, MallocImplements DEF A!Next
<1>4. ASSUME NEW a \in CallocArgs, CallocCall(a[1], a[2]) PROVE A!Next
  <2> DEFINE total == Wrap(a[1] * a[2])
             r == Malloc(heap, next_free_page, total)
  <2>1. asked' = Owned(asked, r.ptr, a[1] * a[2]) /\ last' = Did(Allocated(r), r.ptr, total)
    BY <1>4 DEF CallocCall
  <2>2. last'.op = Allocated(r)
    BY <2>1 DEF Did
  <2>3. total \in Nat /\ RoundUp(total) + HDR <= PAGE_SIZE
    <3>1. a[1] \in Nat /\ a[2] \in Nat
      BY RequestsAssumption
    <3>2. a[1] * a[2] \in Nat
      BY <3>1
    <3> QED
      BY <3>2, WrapBounds DEF RequestsFitAPage
  <2> HIDE DEF total
  <2> QED
    BY <2>1, <2>2, <2>3, MallocImplements DEF A!Next
<1>5. ASSUME NEW p \in Live, FreeCall(p) PROVE A!Next
  <2>1. asked' = [q \in Live \ {p} |-> asked[q]] /\ last'.op = "release"
    BY <1>5 DEF FreeCall, Without, Did
  <2>2. Live' = Live \ {p}
    BY <2>1 DEF Live
  <2>3. Promised' = [q \in Live \ {p} |-> Promised[q]]
    BY <2>1, <2>2 DEF Promised
  <2> QED
    BY <2>1, <2>3, SameLive DEF A!Release, A!Next
<1>6. ASSUME NEW p \in Live, NEW n \in Requests, ReallocInPlace(p, n) PROVE A!Next
  <2>1. p # NULL
    BY HeapInvImplies DEF TypeOK
  <2>2. asked' = [q \in Live \cup {p} |-> IF q = p THEN n ELSE asked[q]] /\ last'.op = "resize"
    BY <1>6, <2>1 DEF ReallocInPlace, Owned, Live, Did
  <2>3. Live' = (Live \ {p}) \cup {p}
    BY <2>2 DEF Live
  <2>4. \A r \in Live \ {p} : asked'[r] = asked[r]
    BY <2>2
  <2> QED
    BY <2>1, <2>2, <2>3, <2>4, ResizeImplements DEF A!Next
<1>7. ASSUME NEW p \in Live, NEW n \in Requests, ReallocMove(p, n) PROVE A!Next
  <2> DEFINE r == Malloc(heap, next_free_page, n)
             q == r.ptr
  <2>1. heap[IndexOf(heap, p)].size < n /\ asked' = Owned(Without(p), q, n)
        /\ last'.op = "resize"
    BY <1>7 DEF ReallocMove, Did
  <2>2. n \in Nat /\ n # 0 /\ RoundUp(n) + HDR <= PAGE_SIZE
    <3>1. heap[IndexOf(heap, p)].size \in Nat
      BY LiveBlock DEF HeapInv
    <3> QED
      BY <1>2, <2>1, <3>1
  <2>3. Laid(heap, next_free_page, {}, TRUE) /\ Live = {Payload(c) : c \in UsedBlocks(heap)}
    BY HeapInvImplies DEF HeapInv, HeapCore, UsedIsLive
  <2>4. q # NULL /\ \A c \in UsedBlocks(heap) : Payload(c) # q
    BY <2>2, <2>3, MallocNewPointer
  <2>5. q \notin Live
    BY <2>3, <2>4
  <2> HIDE DEF r, q
  <2>6. asked' = [x \in (Live \ {p}) \cup {q} |-> IF x = q THEN n ELSE Without(p)[x]]
        /\ \A x \in Live \ {p} : Without(p)[x] = asked[x]
    BY <2>1, <2>4 DEF Owned, Without
  <2>7. Live' = (Live \ {p}) \cup {q}
    BY <2>6 DEF Live
  <2>8. \A x \in Live \ {p} : asked'[x] = asked[x]
    BY <2>5, <2>6
  <2> QED
    BY <2>1, <2>4, <2>5, <2>7, <2>8, ResizeImplements DEF A!Next
<1>8. ASSUME NEW p \in Live \cup {NULL}, NEW n \in Requests, ReallocCall(p, n)
      PROVE  A!Next
  <2>1. CASE p = NULL /\ MallocCall(n)
    BY <1>3, <2>1
  <2>2. CASE p # NULL /\ n = 0 /\ FreeCall(p)
    BY <1>5, <2>2
  <2>3. CASE p # NULL /\ ReallocInPlace(p, n)
    BY <1>6, <2>3
  <2>4. CASE p # NULL /\ ReallocMove(p, n)
    BY <1>7, <2>4
  <2> QED
    BY <1>8, <2>1, <2>2, <2>3, <2>4 DEF ReallocCall
<1> QED
  BY <1>1, <1>3, <1>4, <1>5, <1>8 DEF Next

(* The heap implements what stdlib.h promises: every malloc, calloc,       *)
(* realloc and free of the block list is an allocation, a refusal, a       *)
(* release or a resizing of one region, clear of all the others.           *)
THEOREM HeapImplementsAllocator ==
  ASSUME RequestsFitAPage
  PROVE  Spec => AllocatorSpec
<1>1. Init => A!Init
  <2> SUFFICES ASSUME Init PROVE A!Init
    OBVIOUS
  <2>1. asked = [p \in {} |-> 0] /\ last.op = "none"
    BY DEF Init, Did
  <2>2. Live = {}
    BY <2>1 DEF Live
  <2>3. Promised = [p \in {} |-> 0]
    BY <2>2 DEF Promised
  <2> QED
    BY <2>1, <2>3 DEF A!Init
<1>2. HeapInv /\ LiveDisjoint' /\ [Next]_vars => [A!Next]_<<Promised, last.op>>
  BY NextImplements
<1> QED
  BY <1>1, <1>2, HeapInvariant, LiveRegionsDisjoint, PTL
     DEF Spec, AllocatorSpec, A!Spec

-----------------------------------------------------------------------------
(* The memory that heap and page tables share.                             *)

(* What an entry can point to that is no page of the bump pointer. *)
Elsewhere == Frames \cup 0 .. BASE - 1

(* The pages that tables t made from the bump pointer, as TablePages. *)
PagesOf(t) == {t[k].to : k \in DOMAIN t} \ Elsewhere

(* Every page that became a table hangs on one entry. *)
HangsOnce(t) ==
  \A j, k \in DOMAIN t : t[j].to \in PagesOf(t) /\ t[j].to = t[k].to => j = k

(* Tables t and a bump pointer under which the block list h is sound. *)
Sound(h, t, brk) == Laid(h, brk, PagesOf(t), FALSE) /\ HangsOnce(t)

-----------------------------------------------------------------------------
(* The page tables.                                                        *)

(* A layout is a layout for fewer pages too. *)
LEMMA FewerPages ==
  ASSUME NEW h, NEW brk, NEW T, NEW U, U \subseteq T, Laid(h, brk, T, FALSE)
  PROVE  Laid(h, brk, U, FALSE)
BY DEF Laid

(* The page at the bump pointer is clear of all the blocks. *)
LEMMA NextPageClear ==
  ASSUME NEW h, NEW brk, NEW T, Laid(h, brk, T, FALSE)
  PROVE  Laid(h, brk + PAGE_SIZE, T \cup {brk}, FALSE)
<1>1. /\ h \in Seq(Block) /\ brk \in Nat /\ PAGE_SIZE \in Nat /\ Ordered(h)
      /\ \A j \in 1 .. Len(h) : End(h[j]) <= brk
      /\ \A t \in T : t \in Nat /\ t + PAGE_SIZE <= brk
      /\ \A j \in 1 .. Len(h), t \in T : Clear(h[j], t)
  BY SizesAssumption DEF Laid
<1>2. ASSUME NEW j \in 1 .. Len(h) PROVE End(h[j]) <= brk + PAGE_SIZE /\ Clear(h[j], brk)
  <2>1. End(h[j]) \in Nat
    BY <1>1, ElementsAreBlocks, SizesAssumption DEF End
  <2> QED
    BY <1>1, <2>1 DEF Clear
<1>3. ASSUME NEW t \in T \cup {brk} PROVE t \in Nat /\ t + PAGE_SIZE <= brk + PAGE_SIZE
  BY <1>1
<1> QED
  BY <1>1, <1>2, <1>3 DEF Laid

(* What an entry that is stored does to the pages that hang on entries. *)
LEMMA StoreEntries ==
  ASSUME NEW t, NEW table, NEW i, NEW e, NEW j \in DOMAIN Store(t, table, i, e)
  PROVE  \/ j = <<table, i>> /\ Store(t, table, i, e)[j] = e
         \/ j # <<table, i>> /\ j \in DOMAIN t /\ Store(t, table, i, e)[j] = t[j]
BY DEF Store

(* An entry that points elsewhere: a mapped frame, or nothing. *)
LEMMA StoreElsewhere ==
  ASSUME NEW h, NEW t, NEW brk, Sound(h, t, brk),
         NEW table, NEW i, NEW e, e.to \in Elsewhere
  PROVE  Sound(h, Store(t, table, i, e), brk)
<1> DEFINE s == Store(t, table, i, e)
<1>1. ASSUME NEW j \in DOMAIN s
      PROVE  \/ s[j].to = e.to
             \/ j \in DOMAIN t /\ s[j] = t[j]
  BY StoreEntries
<1> HIDE DEF s
<1>2. PagesOf(s) \subseteq PagesOf(t)
  BY <1>1 DEF PagesOf
<1>3. HangsOnce(s)
  <2> SUFFICES ASSUME NEW j \in DOMAIN s, NEW k \in DOMAIN s,
                      s[j].to \in PagesOf(s), s[j].to = s[k].to
               PROVE  j = k
    BY DEF HangsOnce
  <2>1. s[j].to \notin Elsewhere /\ s[k].to \notin Elsewhere
    BY DEF PagesOf
  <2>2. j \in DOMAIN t /\ s[j] = t[j] /\ k \in DOMAIN t /\ s[k] = t[k]
    BY <1>1, <2>1
  <2> QED
    BY <1>2, <2>2 DEF HangsOnce, Sound
<1> QED
  BY <1>2, <1>3, FewerPages DEF Sound, s

(* The entry of a new table: its page is the one at the bump pointer. *)
LEMMA StoreTable ==
  ASSUME NEW h, NEW t, NEW brk, Sound(h, t, brk),
         NEW table, NEW i, NEW e, e.to = brk
  PROVE  Sound(h, Store(t, table, i, e), brk + PAGE_SIZE)
<1> DEFINE s == Store(t, table, i, e)
           new == <<table, i>>
<1>1. ASSUME NEW j \in DOMAIN s
      PROVE  \/ j = new /\ s[j].to = brk
             \/ j \in DOMAIN t /\ s[j] = t[j]
  BY StoreEntries
<1> HIDE DEF s, new
<1>2. PagesOf(s) \subseteq PagesOf(t) \cup {brk}
  BY <1>1 DEF PagesOf
<1>3. \A x \in PagesOf(t) : x # brk
  <2>1. brk \in Nat /\ \A x \in PagesOf(t) : x \in Nat /\ x + PAGE_SIZE <= brk
    BY DEF Sound, Laid
  <2>2. PAGE_SIZE \in Nat /\ PAGE_SIZE > 0
    BY SizesAssumption
  <2> QED
    BY <2>1, <2>2
<1>4. HangsOnce(s)
  <2> SUFFICES ASSUME NEW j \in DOMAIN s, NEW k \in DOMAIN s,
                      s[j].to \in PagesOf(s), s[j].to = s[k].to
               PROVE  j = k
    BY DEF HangsOnce
  <2>1. s[j].to \notin Elsewhere /\ s[k].to \notin Elsewhere
    BY DEF PagesOf
  <2>2. CASE s[j].to = brk
    <3>1. ASSUME NEW x \in DOMAIN s, s[x].to = brk, brk \notin Elsewhere PROVE x = new
      <4>1. ASSUME x \in DOMAIN t, s[x] = t[x] PROVE FALSE
        <5>1. t[x].to \in PagesOf(t)
          BY <3>1, <4>1 DEF PagesOf
        <5> QED
          BY <1>3, <3>1, <4>1, <5>1
      <4> QED
        BY <1>1, <4>1
    <3> QED
      BY <2>1, <2>2, <3>1
  <2>3. CASE s[j].to # brk
    <3>1. j \in DOMAIN t /\ s[j] = t[j] /\ k \in DOMAIN t /\ s[k] = t[k]
      BY <1>1, <2>3
    <3>2. t[j].to \in PagesOf(t)
      BY <2>1, <3>1 DEF PagesOf
    <3> QED
      BY <3>1, <3>2 DEF HangsOnce, Sound
  <2> QED
    BY <2>2, <2>3
<1>5. Laid(h, brk + PAGE_SIZE, PagesOf(t) \cup {brk}, FALSE)
  BY NextPageClear DEF Sound
<1>6. Laid(h, brk + PAGE_SIZE, PagesOf(s), FALSE)
  BY <1>2, <1>5, FewerPages
<1> QED
  BY <1>4, <1>6 DEF Sound, s

(* A memory of a running call. *)
SoundMemory(h, m) == Sound(h, m.tables, m.brk)

(* "Ensure ... exists". *)
LEMMA EnsureSound ==
  ASSUME NEW h, NEW m, SoundMemory(h, m), NEW table, NEW i, NEW present
  PROVE  SoundMemory(h, Ensure(m, table, i, present))
<1> DEFINE e == Entry(m.brk, present, FALSE)
<1>1. e.to = m.brk
  BY DEF Entry
<1> HIDE DEF e
<1>2. Sound(h, Store(m.tables, table, i, e), m.brk + PAGE_SIZE)
  BY <1>1, StoreTable DEF SoundMemory
<1>3. SoundMemory(h, Memory(Store(m.tables, table, i, e), m.brk + PAGE_SIZE))
  BY <1>2 DEF SoundMemory, Memory
<1> QED
  BY <1>3 DEF Ensure, e

(* mmu_map_page's last table and its entry. *)
LEMMA MapLeafSound ==
  ASSUME NEW h, NEW m, SoundMemory(h, m), NEW pd, NEW phys \in Frames, NEW v, NEW present
  PROVE  SoundMemory(h, MapLeaf(m, pd, phys, v, present))
<1> DEFINE m3 == Ensure(m, pd, v[3], present)
           pt == EntryOf(m3.tables, pd, v[3]).to
           e == Entry(phys, present, FALSE)
<1>1. SoundMemory(h, m3)
  BY EnsureSound
<1>2. e.to \in Elsewhere
  BY DEF Entry, Elsewhere
<1> HIDE DEF m3, pt, e
<1>3. Sound(h, Store(m3.tables, pt, v[4], e), m3.brk)
  BY <1>1, <1>2, StoreElsewhere DEF SoundMemory
<1>4. SoundMemory(h, Memory(Store(m3.tables, pt, v[4], e), m3.brk))
  BY <1>3 DEF SoundMemory, Memory
<1> QED
  BY <1>4 DEF MapLeaf, m3, pt, e

(* mmu_map_page takes the pages of up to three new tables. *)
LEMMA MapSound ==
  ASSUME NEW h, NEW m, SoundMemory(h, m), NEW phys \in Frames, NEW v, NEW present
  PROVE  SoundMemory(h, Map(m, phys, v, present))
<1> DEFINE m1 == Ensure(m, cr3, v[1], present)
           pdp == EntryOf(m1.tables, cr3, v[1]).to
           m2 == Ensure(m1, pdp, v[2], present)
           pd == EntryOf(m2.tables, pdp, v[2]).to
<1>1. SoundMemory(h, m1)
  BY EnsureSound
<1> HIDE DEF m1, pdp
<1>2. SoundMemory(h, m2)
  BY <1>1, EnsureSound
<1> HIDE DEF m2, pd
<1>3. SoundMemory(h, MapLeaf(m2, pd, phys, v, present))
  BY <1>2, MapLeafSound
<1>4. Map(m, phys, v, present) = IF EntryOf(m2.tables, pd, v[3]).huge THEN m2
                                 ELSE MapLeaf(m2, pd, phys, v, present)
  BY DEF Map, m1, pdp, m2, pd
<1> QED
  BY <1>2, <1>3, <1>4

-----------------------------------------------------------------------------
(* free's merges.                                                          *)

(* free swallows a free successor: the block grows. *)
LEMMA FreeGrows ==
  ASSUME NEW h \in Seq(Block), NEW p, NEW k \in 1 .. Len(h), IndexOf(h, p) = k,
         k < Len(h), h[k + 1].is_free
  PROVE  /\ k \in 1 .. Len(Free(h, p))
         /\ Free(h, p)[k].addr = h[k].addr
         /\ Free(h, p)[k].size > h[k].size
<1> DEFINE e1 == [h[k] EXCEPT !.is_free = TRUE]
           h1 == [h EXCEPT ![k] = e1]
           e2 == [h1[k] EXCEPT !.size = h1[k].size + HDR + h[k + 1].size]
           h2 == [h1 EXCEPT ![k] = e2]
<1>1. Free(h, p) = RemoveAt(h2, k + 1)
  BY DEF Free
<1>2. /\ h[k] \in Block /\ h[k].addr \in Nat /\ h[k].size \in Nat
      /\ h[k + 1].size \in Nat /\ HDR \in Nat /\ HDR > 0 /\ Len(h) \in Nat
      /\ k + 1 \in 1 .. Len(h)
  <2>1. k + 1 \in 1 .. Len(h) /\ Len(h) \in Nat
    OBVIOUS
  <2> QED
    BY <2>1, ElementsAreBlocks, SizesAssumption
<1>3. e1 \in Block /\ e1.addr = h[k].addr /\ e1.size = h[k].size
  BY <1>2 DEF Block
<1> HIDE DEF e1
<1>4. h1 \in Seq(Block) /\ Len(h1) = Len(h) /\ h1[k] = e1
  BY <1>3, ExceptSeq
<1> HIDE DEF h1
<1>5. e2 \in Block /\ e2.addr = h[k].addr /\ e2.size = h[k].size + HDR + h[k + 1].size
  <2>1. h1[k].size + HDR + h[k + 1].size \in Nat
    BY <1>2, <1>3, <1>4
  <2> QED
    BY <1>2, <1>3, <1>4, <2>1 DEF Block
<1> HIDE DEF e2
<1>6. h2 \in Seq(Block) /\ Len(h2) = Len(h) /\ h2[k] = e2
  BY <1>4, <1>5, ExceptSeq
<1> HIDE DEF h2
<1>7. Len(RemoveAt(h2, k + 1)) = Len(h) - 1 /\ RemoveAt(h2, k + 1)[k] = h2[k]
  <2>1. k + 1 \in 1 .. Len(h2) /\ k \in 1 .. Len(h2) - 1 /\ k < k + 1
    BY <1>2, <1>6
  <2>2. Len(RemoveAt(h2, k + 1)) = Len(h2) - 1
    BY <1>6, <2>1, RemoveAtShape
  <2>3. RemoveAt(h2, k + 1)[k] = IF k < k + 1 THEN h2[k] ELSE h2[k + 1]
    BY <1>6, <2>1, RemoveAtShape
  <2> QED
    BY <1>6, <2>1, <2>2, <2>3
<1> QED
  BY <1>1, <1>2, <1>5, <1>6, <1>7, SMTT(30)

(* Marking the block that malloc chose changes no other. *)
LEMMA MarkUsed ==
  ASSUME NEW s \in Seq(Block), NEW c \in 1 .. Len(s),
         NEW m, m = [s EXCEPT ![c].is_free = FALSE]
  PROVE  /\ Len(m) = Len(s) /\ ~m[c].is_free
         /\ \A j \in 1 .. Len(s) : j # c => m[j] = s[j]
<1> DEFINE e == [s[c] EXCEPT !.is_free = FALSE]
<1>1. s[c] \in Block
  BY ElementsAreBlocks
<1>2. e \in Block
  BY <1>1 DEF Block
<1>3. ~e.is_free
  BY <1>1 DEF Block
<1>4. m = [s EXCEPT ![c] = e]
  OBVIOUS
<1> HIDE DEF e
<1>5. /\ Len([s EXCEPT ![c] = e]) = Len(s)
      /\ \A j \in 1 .. Len(s) : [s EXCEPT ![c] = e][j] = IF j = c THEN e ELSE s[j]
  BY <1>2, ExceptSeq
<1> QED
  BY <1>3, <1>4, <1>5

(* After a malloc, a used block that has a free successor in the list has  *)
(* the successor it had before: what malloc puts behind a block it either  *)
(* marks as used or cuts from that block.                                  *)
LEMMA MallocKeepsSuccessor ==
  ASSUME NEW h, NEW brk, NEW T, NEW tight, Laid(h, brk, T, tight),
         NEW n \in Nat, n # 0, RoundUp(n) + HDR <= PAGE_SIZE,
         NEW i \in 1 .. Len(h), ~h[i].is_free,
         NEW m, m = Malloc(h, brk, n).heap,
         NEW k, k = IndexOf(m, Payload(h[i]))
  PROVE  /\ m \in Seq(Block) /\ k \in 1 .. Len(m) /\ m[k] = h[i]
         /\ k < Len(m) /\ m[k + 1].is_free => i < Len(h) /\ m[k + 1] = h[i + 1]
<1> DEFINE b == Malloc(h, brk, n).brk
           size == RoundUp(n)
<1>1. PICK g, c : Laid(g, b, T, tight) /\ Chosen(h, brk, n, g, c)
  BY MallocChooses
<1> DEFINE s == SplitBlock(g, c, size)
<1>2. /\ c \in 1 .. Len(g) /\ g[c].size >= size /\ g[c].is_free
      /\ SameOrNewPage(h, brk, g, b, c) /\ size \in Nat
      /\ m = [s EXCEPT ![c].is_free = FALSE]
  BY <1>1, RoundUpBounds DEF Chosen
<1>3. Laid(m, b, T, tight) /\ m \in Seq(Block) /\ Ordered(m)
  BY MallocTakes, ZenonT(60) DEF Laid
<1> HIDE DEF b, size
<1>4. /\ h \in Seq(Block) /\ Len(h) \in Nat /\ g \in Seq(Block) /\ Len(g) \in Nat
  BY <1>1 DEF Laid
<1>5. /\ i \in 1 .. Len(g) /\ g[i] = h[i] /\ i # c
      /\ \A j \in 1 .. Len(g) : j # c => j \in 1 .. Len(h) /\ g[j] = h[j]
  <2>1. CASE g = h
    BY <1>2, <2>1
  <2>2. CASE g # h
    <3>1. Len(g) = Len(h) + 1 /\ (\A j \in 1 .. Len(h) : g[j] = h[j]) /\ c = Len(g)
      BY <1>2, <2>2 DEF SameOrNewPage
    <3> QED
      BY <1>4, <3>1
  <2> QED
    BY <2>1, <2>2
<1>6. s \in Seq(Block) /\ c \in 1 .. Len(s)
  <2>1. /\ Laid(s, b, T, tight)
        /\ c \in 1 .. Len(s)
        /\ s[c].addr = g[c].addr
        /\ s[c].size >= size
        /\ UsedExcept(s, c) = UsedExcept(g, c)
    BY <1>1, <1>2, SplitUsed
  <2> QED
    BY <2>1 DEF Laid
<1> DEFINE cut == g[c].size >= size + HDR + SLACK
<1>7. CASE ~cut
  <2>1. s = g
    BY <1>7 DEF SplitBlock
  <2> HIDE DEF s
  <2>2. /\ Len(m) = Len(g) /\ ~m[c].is_free
        /\ \A j \in 1 .. Len(g) : j # c => m[j] = g[j]
    BY <1>2, <1>4, <2>1, MarkUsed
  <2>3. m[i] = h[i] /\ i \in 1 .. Len(m)
    BY <1>5, <2>2
  <2>4. k = i
    BY <1>3, <2>3, IndexOfFinds
  <2>5. ASSUME k < Len(m), m[k + 1].is_free PROVE i < Len(h) /\ m[k + 1] = h[i + 1]
    <3>1. i + 1 \in 1 .. Len(g) /\ i + 1 # c
      BY <1>4, <2>2, <2>4, <2>5
    <3> QED
      BY <1>4, <1>5, <2>2, <2>4, <3>1
  <2> QED
    BY <1>3, <2>3, <2>4, <2>5
<1>8. CASE cut
  <2>1. /\ Laid(s, b, T, tight)
        /\ Len(s) = Len(g) + 1
        /\ s[c] = [g[c] EXCEPT !.size = size]
        /\ s[c + 1].is_free
        /\ \A j \in 1 .. Len(g) + 1 :
             /\ j < c => s[j] = g[j]
             /\ j > c + 1 => s[j] = g[j - 1]
    BY <1>1, <1>2, <1>8, SplitLaid, SMTT(30)
  <2> HIDE DEF s
  <2>2. /\ Len(m) = Len(s) /\ ~m[c].is_free
        /\ \A j \in 1 .. Len(s) : j # c => m[j] = s[j]
    BY <1>2, <1>6, MarkUsed
  <2>3. CASE i < c
    <3>1. m[i] = h[i] /\ i \in 1 .. Len(m)
      BY <1>4, <1>5, <2>1, <2>2, <2>3
    <3>2. k = i
      BY <1>3, <3>1, IndexOfFinds
    <3>3. ASSUME k < Len(m), m[k + 1].is_free PROVE i < Len(h) /\ m[k + 1] = h[i + 1]
      <4>1. i + 1 \in 1 .. Len(g) /\ i + 1 < c
        BY <1>2, <1>4, <2>2, <2>3, <3>2, <3>3
      <4>2. m[i + 1] = g[i + 1]
        BY <1>4, <2>1, <2>2, <4>1
      <4> QED
        BY <1>4, <1>5, <3>2, <4>1, <4>2
    <3> QED
      BY <1>3, <3>1, <3>2, <3>3
  <2>4. CASE i > c
    <3>1. m[i + 1] = h[i] /\ i + 1 \in 1 .. Len(m)
      <4>1. i + 1 \in 1 .. Len(g) + 1 /\ i + 1 > c + 1 /\ (i + 1) - 1 = i /\ i + 1 # c
        BY <1>2, <1>4, <1>5, <2>4
      <4> QED
        BY <1>5, <2>1, <2>2, <4>1
    <3>2. k = i + 1
      BY <1>3, <3>1, IndexOfFinds
    <3>3. ASSUME k < Len(m), m[k + 1].is_free PROVE i < Len(h) /\ m[k + 1] = h[i + 1]
      <4>1. /\ i + 2 \in 1 .. Len(g) + 1 /\ i + 2 > c + 1 /\ (i + 2) - 1 = i + 1
            /\ i + 2 # c /\ i + 1 \in 1 .. Len(g) /\ i + 1 # c /\ k + 1 = i + 2
        BY <1>2, <1>4, <1>5, <2>1, <2>2, <2>4, <3>2, <3>3, SMTT(30)
      <4>2. m[i + 2] = g[i + 1]
        BY <2>1, <2>2, <4>1
      <4> QED
        BY <1>4, <1>5, <4>1, <4>2
    <3> QED
      BY <1>3, <3>1, <3>2, <3>3
  <2> QED
    BY <1>2, <1>4, <1>5, <2>3, <2>4
<1> QED
  BY <1>7, <1>8

(* A heap step that does not merge across a gap merges neighbours only. *)
LEMMA MergesAreSound ==
  ASSUME RequestsFitAPage, NEW T, NEW tight, HeapCore(T, tight), ~MergesAcrossGap
  PROVE  MergesSound
<1>1. heap \in Seq(Block) /\ Len(heap) \in Nat /\ Laid(heap, next_free_page, T, tight)
  BY DEF HeapCore, Laid
<1>2. ASSUME NEW i \in 1 .. Len(heap), i < Len(heap), ~Adjoins(heap, i),
             NEW j \in 1 .. Len(heap'), heap'[j].addr = heap[i].addr
      PROVE  ~(heap'[j].size > heap[i].size)
  <2>1. i \in 1 .. Len(heap) - 1
    BY <1>1, <1>2
  <2> QED
    BY <1>2, <2>1 DEF MergesAcrossGap, Adjoins
<1>3. ASSUME NEW p \in Live, FreeCall(p) PROVE MergesNext(heap, p)
  <2>1. PICK i \in 1 .. Len(heap) : IndexOf(heap, p) = i
    BY LiveBlock
  <2> SUFFICES ASSUME i < Len(heap), heap[i + 1].is_free PROVE Adjoins(heap, i)
    BY <2>1 DEF MergesNext
  <2>2. heap' = Free(heap, p)
    BY <1>3 DEF FreeCall
  <2>3. /\ i \in 1 .. Len(heap') /\ heap'[i].addr = heap[i].addr
        /\ heap'[i].size > heap[i].size
    BY <1>1, <2>1, <2>2, FreeGrows
  <2> QED
    BY <1>2, <2>3
<1>4. ASSUME NEW p \in Live, NEW n \in Requests, ReallocMove(p, n)
      PROVE  MergesNext(Malloc(heap, next_free_page, n).heap, p)
  <2>1. PICK i \in 1 .. Len(heap) :
          /\ IndexOf(heap, p) = i /\ Payload(heap[i]) = p /\ ~heap[i].is_free
          /\ heap[i].size \in Nat
    BY LiveBlock
  <2>2. n \in Nat /\ RoundUp(n) + HDR <= PAGE_SIZE
    BY RequestsAssumption DEF RequestsFitAPage
  <2>3. n # 0 /\ heap' = Free(Malloc(heap, next_free_page, n).heap, p)
    BY <1>4, <2>1, <2>2 DEF ReallocMove
  <2>4. PICK m : m = Malloc(heap, next_free_page, n).heap
    OBVIOUS
  <2>5. PICK k : k = IndexOf(m, p)
    OBVIOUS
  <2>6. /\ m \in Seq(Block) /\ k \in 1 .. Len(m) /\ m[k] = heap[i]
        /\ k < Len(m) /\ m[k + 1].is_free => i < Len(heap) /\ m[k + 1] = heap[i + 1]
    BY <1>1, <2>1, <2>2, <2>3, <2>4, <2>5, MallocKeepsSuccessor
  <2> SUFFICES ASSUME k < Len(m), m[k + 1].is_free PROVE Adjoins(m, k)
    BY <2>4, <2>5 DEF MergesNext
  <2>7. /\ k \in 1 .. Len(heap') /\ heap'[k].addr = heap[i].addr
        /\ heap'[k].size > heap[i].size
    BY <2>3, <2>4, <2>5, <2>6, FreeGrows
  <2>8. Adjoins(heap, i)
    BY <1>2, <2>6, <2>7
  <2> QED
    BY <2>6, <2>8 DEF Adjoins
<1> QED
  BY <1>3, <1>4 DEF MergesSound

-----------------------------------------------------------------------------
(* The inductive invariant.                                                *)

(* Until a free merges across a gap, the heap is sound around the pages    *)
(* that became tables; it need not tile them any more.                     *)
MemoryInv == ~jumped => HeapCore(TablePages, FALSE) /\ HangsOnce(tables)

(* The table pages, by either name. *)
LEMMA SamePages == TablePages = PagesOf(tables)
BY DEF TablePages, PagesOf, Elsewhere

(* At boot no page of the bump pointer is a table. *)
LEMMA InitMemoryInv == MemoryInit => MemoryInv
<1> SUFFICES ASSUME MemoryInit PROVE HeapCore(TablePages, FALSE) /\ HangsOnce(tables)
  BY DEF MemoryInv
<1>1. ASSUME NEW k \in DOMAIN tables PROVE tables[k].to \in 0 .. BASE - 1
  <2>1. tables = BootTables /\ BASE \in Nat /\ BASE > 5
    BY SizesAssumption, PagesAssumption DEF MemoryInit
  <2>2. BootTables[k].to \in {0, page_table_l3, page_table_l2, page_table_l2_2}
    BY <1>1, <2>1 DEF BootTables, Entry
  <2> QED
    BY <2>1, <2>2 DEF page_table_l3, page_table_l2, page_table_l2_2
<1>2. PagesOf(tables) = {}
  BY <1>1 DEF PagesOf, Elsewhere
<1>3. HeapCore({}, TRUE)
  BY InitHeapInv DEF MemoryInit, HeapInv
<1>4. HeapCore({}, FALSE)
  BY <1>3 DEF HeapCore, Laid
<1>5. HangsOnce(tables)
  BY <1>2 DEF HangsOnce
<1> QED
  BY <1>2, <1>4, <1>5, SamePages

(* The heap does not see a change of the tables and the bump pointer that  *)
(* keeps the layout.                                                       *)
LEMMA OtherStep ==
  ASSUME MemoryInv, ~jumped, UNCHANGED <<heap, asked, last, skewed>>,
         Sound(heap, tables', next_free_page')
  PROVE  MemoryInv'
<1>1. HeapCore(TablePages, FALSE)
  BY DEF MemoryInv
<1>2. TablePages' = PagesOf(tables')
  BY DEF TablePages, PagesOf, Elsewhere
<1>3. Laid(heap', next_free_page', TablePages', FALSE) /\ HangsOnce(tables')
  BY <1>2 DEF Sound
<1>4. Owns(UsedBlocks(heap'), asked') /\ FillFits'
      /\ last' \in [op: A!Ops, ptr: Nat, len: Nat] /\ skewed' \in BOOLEAN
  BY <1>1 DEF HeapCore, FillFits
<1>5. HeapCore(TablePages, FALSE)'
  BY <1>3, <1>4 DEF HeapCore
<1> QED
  BY <1>3, <1>5 DEF MemoryInv, HangsOnce, PagesOf

(* Every step of the heap or of the page tables preserves the invariant. *)
LEMMA NextMemoryInv ==
  ASSUME RequestsFitAPage, MemoryInv, [MemoryNext]_memoryVars
  PROVE  MemoryInv'
<1>1. CASE UNCHANGED memoryVars
  BY <1>1 DEF MemoryInv, memoryVars, vars, HeapCore, Laid, Ordered, Tiles, Owns, FillFits,
              Clear, HangsOnce, PagesOf, TablePages
<1> SUFFICES ASSUME MemoryNext PROVE MemoryInv'
  BY <1>1
<1>2. ~jumped /\ HeapCore(TablePages, FALSE) /\ HangsOnce(tables)
  BY DEF MemoryNext, MemoryInv
<1>3. Sound(heap, tables, next_free_page) /\ next_free_page \in Nat
  BY <1>2, SamePages DEF Sound, HeapCore, Laid
<1>4. CASE HeapStep
  <2> SUFFICES ASSUME ~jumped' PROVE (HeapCore(TablePages, FALSE) /\ HangsOnce(tables))'
    BY DEF MemoryInv
  <2>1. Next /\ tables' = tables /\ ~MergesAcrossGap
    BY <1>4 DEF HeapStep
  <2>2. PICK T : T = TablePages
    OBVIOUS
  <2>3. HeapCore(T, FALSE)
    BY <1>2, <2>2
  <2>4. MergesSound
    BY <2>1, <2>3, MergesAreSound
  <2>5. HeapCore(T, FALSE)'
    BY <2>1, <2>3, <2>4, NextHeapCore
  <2>6. T = TablePages'
    BY <2>1, <2>2 DEF TablePages
  <2>7. HeapCore(TablePages, FALSE)'
    BY <2>5, <2>6 DEF HeapCore
  <2>8. HangsOnce(tables)'
    BY <1>2, <2>1 DEF HangsOnce, PagesOf
  <2> QED
    BY <2>7, <2>8
<1>5. CASE mmu_alloc_page
  <2>1. /\ next_free_page' = next_free_page + PAGE_SIZE /\ tables' = tables
        /\ UNCHANGED <<heap, asked, last, skewed>>
    BY <1>5 DEF mmu_alloc_page
  <2>2. Laid(heap, next_free_page + PAGE_SIZE, PagesOf(tables) \cup {next_free_page}, FALSE)
    BY <1>3, NextPageClear DEF Sound
  <2>3. Laid(heap, next_free_page + PAGE_SIZE, PagesOf(tables), FALSE)
    BY <2>2, FewerPages
  <2>4. Sound(heap, tables', next_free_page')
    BY <1>3, <2>1, <2>3 DEF Sound
  <2> QED
    BY <1>2, <2>1, <2>4, OtherStep
<1>6. ASSUME NEW v \in Pages, mmu_unmap_page(v) PROVE MemoryInv'
  <2>1. tables' = Unmap(tables, v) /\ UNCHANGED <<heap, asked, last, skewed, next_free_page>>
    BY <1>6 DEF mmu_unmap_page, vars
  <2>2. Cleared.to \in Elsewhere
    BY SizesAssumption, PagesAssumption DEF Cleared, Entry, Elsewhere
  <2> DEFINE e2 == DirectoryEntry(tables, LOW_PAGE, v)
  <2>3. Unmap(tables, v) = IF e2.present THEN Store(tables, e2.to, v[4], Cleared) ELSE tables
    BY DEF Unmap
  <2> HIDE DEF e2
  <2>4. Sound(heap, Store(tables, e2.to, v[4], Cleared), next_free_page)
    BY <1>3, <2>2, StoreElsewhere
  <2>5. Sound(heap, tables', next_free_page')
    BY <1>3, <2>1, <2>3, <2>4
  <2> QED
    BY <1>2, <2>1, <2>5, OtherStep
<1>7. ASSUME NEW phys \in Frames, NEW v \in Pages, NEW present \in BOOLEAN,
             mmu_map_page(phys, v, present)
      PROVE  MemoryInv'
  <2> DEFINE m0 == Memory(tables, next_free_page)
             m == IF MappedByBootLoader(v) THEN m0 ELSE Map(m0, phys, v, present)
  <2>1. /\ tables' = m.tables /\ next_free_page' = m.brk
        /\ UNCHANGED <<heap, asked, last, skewed>>
    BY <1>7 DEF mmu_map_page
  <2>2. SoundMemory(heap, m0)
    BY <1>3 DEF SoundMemory, Memory
  <2> HIDE DEF m0
  <2>3. SoundMemory(heap, Map(m0, phys, v, present))
    BY <2>2, MapSound
  <2>4. SoundMemory(heap, m)
    BY <2>2, <2>3
  <2> HIDE DEF m
  <2>5. Sound(heap, tables', next_free_page')
    BY <2>1, <2>4 DEF SoundMemory
  <2> QED
    BY <1>2, <2>1, <2>5, OtherStep
<1> QED
  BY <1>4, <1>5, <1>6, <1>7 DEF MemoryNext

(* stdlib.c and mmu.c draw on one bump pointer: whatever order they do it  *)
(* in, and until a free merges two blocks that are not adjacent, no byte   *)
(* has two owners, no block reaches into a page that became a table, and   *)
(* every such page hangs on one entry.                                     *)
THEOREM MemoryKeptApart ==
  ASSUME RequestsFitAPage
  PROVE  MemorySpec => []MemoryApart
<1>1. MemoryInit => MemoryInv
  BY InitMemoryInv
<1>2. MemoryInv /\ [MemoryNext]_memoryVars => MemoryInv'
  BY NextMemoryInv
<1>3. MemoryInv => MemoryApart
  <2> SUFFICES ASSUME HeapCore(TablePages, FALSE), HangsOnce(tables)
               PROVE  /\ LiveDisjoint
                      /\ \A i \in 1 .. Len(heap), t \in TablePages :
                           End(heap[i]) <= t \/ t + PAGE_SIZE <= heap[i].addr
                      /\ \A j, k \in DOMAIN tables :
                           tables[j].to \in TablePages /\ tables[j].to = tables[k].to => j = k
    BY DEF MemoryInv, MemoryApart
  <2>1. LiveDisjoint
    BY CoreDisjoint
  <2>2. \A i \in 1 .. Len(heap), t \in TablePages : Clear(heap[i], t)
    BY DEF HeapCore, Laid
  <2> QED
    BY <2>1, <2>2, SamePages DEF Clear, HangsOnce
<1> QED
  BY <1>1, <1>2, <1>3, PTL DEF MemorySpec

-----------------------------------------------------------------------------
(* The tree of tables.                                                     *)

(* Entry k of tables t points to a table: it is neither an entry of a page *)
(* table, which points to a frame, nor that of a huge page.                *)
Branch(t, level, k) == level[k[1]] > 1 /\ ~t[k].huge

(* The level of a page: how many tables a walk from the page to a frame    *)
(* goes through, 0 for a page that is no table.                            *)
Levels(level) ==
  /\ level \in [Nat -> 0 .. 4] /\ level[cr3] = 4 /\ level[page_table_l3] = 3
  /\ level[page_table_l2] = 2 /\ level[page_table_l2_2] = 2 /\ level[LOW_PAGE] = 0

(* An entry lies in a table, and a branch leads to one of the next level;  *)
(* both are pages below the bump pointer.                                  *)
EntryInTree(t, brk, level, k) ==
  /\ k \in Nat \X Nat /\ k[1] < brk /\ level[k[1]] > 0
  /\ t[k].present \in BOOLEAN /\ t[k].huge \in BOOLEAN
  /\ t[k].huge => t[k].present /\ k[1] \in {page_table_l2, page_table_l2_2}
  /\ Branch(t, level, k) =>
       t[k].to \in Nat /\ t[k].to < brk /\ level[t[k].to] = level[k[1]] - 1

(* No two branches lead to the same table. *)
BranchesApart(t, level) ==
  \A j, k \in DOMAIN t :
    Branch(t, level, j) /\ Branch(t, level, k) /\ t[j].to = t[k].to => j = k

(* The entries of the boot loader stay. *)
BootKept(t) == \A k \in DOMAIN BootTables : k \in DOMAIN t /\ t[k] = BootTables[k]

Tree(t, brk, level) ==
  /\ brk \in Nat /\ brk > LOW_PAGE
  /\ Levels(level)
  /\ \A k \in DOMAIN t : EntryInTree(t, brk, level, k)
  /\ BranchesApart(t, level)
  /\ BootKept(t)

VirtualPage == Nat \X Nat \X Nat \X Nat

(* Translation in tables t. *)
Shown(t, v) ==
  LET e == Walk(t, v) IN IF e.present THEN <<e.to, e.huge>> ELSE <<>>

(* What an entry is after a store. *)
LEMMA StoreLookup ==
  ASSUME NEW t, NEW a, NEW i, NEW e, NEW b, NEW j
  PROVE  EntryOf(Store(t, a, i, e), b, j)
           = IF a = b /\ i = j THEN e ELSE EntryOf(t, b, j)
<1>1. DOMAIN Store(t, a, i, e) = DOMAIN t \cup {<<a, i>>}
  BY DEF Store
<1>2. <<b, j>> = <<a, i>> <=> a = b /\ i = j
  OBVIOUS
<1>3. CASE a = b /\ i = j
  BY <1>1, <1>3 DEF EntryOf, Store
<1>4. CASE ~(a = b /\ i = j)
  BY <1>1, <1>2, <1>4 DEF EntryOf, Store
<1> QED
  BY <1>3, <1>4

(* An entry that is not set is neither present nor huge. *)
LEMMA EntrySet ==
  ASSUME NEW t, NEW table, NEW i,
         EntryOf(t, table, i).present \/ EntryOf(t, table, i).huge
  PROVE  <<table, i>> \in DOMAIN t /\ EntryOf(t, table, i) = t[<<table, i>>]
BY DEF EntryOf, Cleared, Entry

(* Entry i of table is present and leads from a directory to a table. *)
LeadsOn(t, level, table, i) ==
  EntryOf(t, table, i).present /\ ~EntryOf(t, table, i).huge /\ level[table] > 1

(* Entry i of table is set and leads to a table of the next level. *)
LeadsDown(t, brk, level, table, i) ==
  /\ <<table, i>> \in DOMAIN t /\ Branch(t, level, <<table, i>>)
  /\ t[<<table, i>>] = EntryOf(t, table, i)
  /\ EntryOf(t, table, i).to \in Nat /\ EntryOf(t, table, i).to < brk
  /\ level[EntryOf(t, table, i).to] = level[table] - 1

(* A present entry of a directory leads one level down. *)
LEMMA Descend ==
  ASSUME NEW t, NEW brk, NEW level, Tree(t, brk, level), NEW table, NEW i,
         LeadsOn(t, level, table, i)
  PROVE  LeadsDown(t, brk, level, table, i)
<1>1. <<table, i>> \in DOMAIN t /\ EntryOf(t, table, i) = t[<<table, i>>]
  BY EntrySet DEF LeadsOn
<1>2. Branch(t, level, <<table, i>>)
  BY <1>1 DEF Branch, LeadsOn
<1> QED
  BY <1>1, <1>2 DEF Tree, EntryInTree, LeadsDown

(* Only entries of page directories are those of huge pages. *)
LEMMA HugeLevel ==
  ASSUME NEW t, NEW brk, NEW level, Tree(t, brk, level), NEW table, NEW i,
         EntryOf(t, table, i).huge
  PROVE  level[table] = 2 /\ table \in {page_table_l2, page_table_l2_2}
<1>1. <<table, i>> \in DOMAIN t /\ t[<<table, i>>].huge
  BY EntrySet
<1>2. table \in {page_table_l2, page_table_l2_2}
  BY <1>1 DEF Tree, EntryInTree
<1> QED
  BY <1>2 DEF Tree, Levels

(* What a walk shows that meets these four entries, root first. *)
WalkEnds(e4, e3, e2, e1) ==
  IF e4.present /\ e3.present /\ e2.present /\ (e2.huge \/ e1.present)
    THEN IF e2.huge THEN <<e2.to, e2.huge>> ELSE <<e1.to, e1.huge>>
    ELSE <<>>

(* A walk meets the entries that lead to each other. *)
LEMMA ShownSteps ==
  ASSUME NEW t, NEW w
  PROVE  LET e4 == EntryOf(t, cr3, w[1])
             e3 == EntryOf(t, e4.to, w[2])
             e2 == EntryOf(t, e3.to, w[3])
         IN Shown(t, w) = WalkEnds(e4, e3, e2, EntryOf(t, e2.to, w[4]))
<1> DEFINE e4 == EntryOf(t, cr3, w[1])
           e3 == EntryOf(t, e4.to, w[2])
           e2 == EntryOf(t, e3.to, w[3])
           e1 == EntryOf(t, e2.to, w[4])
<1>1. ~Cleared.present
  BY DEF Cleared, Entry
<1>2. DirectoryEntry(t, cr3, w) = IF e4.present /\ e3.present THEN e2 ELSE Cleared
  BY <1>1 DEF DirectoryEntry
<1>3. Walk(t, w) = LET d == DirectoryEntry(t, cr3, w)
                   IN IF d.present /\ ~d.huge THEN EntryOf(t, d.to, w[4]) ELSE d
  BY DEF Walk
<1>4. CASE e4.present /\ e3.present
  <2>1. Walk(t, w) = IF e2.present /\ ~e2.huge THEN e1 ELSE e2
    BY <1>2, <1>3, <1>4
  <2> HIDE DEF e1, e2, e3, e4
  <2> QED
    BY <1>4, <2>1 DEF Shown, WalkEnds, e1, e2, e3, e4
<1>5. CASE ~(e4.present /\ e3.present)
  <2>1. Walk(t, w) = Cleared
    BY <1>1, <1>2, <1>3, <1>5
  <2> HIDE DEF e1, e2, e3, e4
  <2> QED
    BY <1>1, <1>5, <2>1 DEF Shown, WalkEnds, e1, e2, e3, e4
<1> QED
  BY <1>4, <1>5

(* An entry of a directory that was not present comes to lead to an empty  *)
(* table: a walk through it ended before and still ends, a walk past it    *)
(* finds what it found.                                                    *)
LEMMA NewTableShows ==
  ASSUME NEW t, NEW brk, NEW level, Tree(t, brk, level),
         NEW table \in Nat, table < brk, level[table] > 1, NEW i \in Nat,
         ~EntryOf(t, table, i).present, NEW present \in BOOLEAN,
         NEW w \in VirtualPage
  PROVE  Shown(Store(t, table, i, Entry(brk, present, FALSE)), w) = Shown(t, w)
<1> DEFINE new == Entry(brk, present, FALSE)
           s == Store(t, table, i, new)
           e4 == EntryOf(t, cr3, w[1])
           e3 == EntryOf(t, e4.to, w[2])
           e2 == EntryOf(t, e3.to, w[3])
           e1 == EntryOf(t, e2.to, w[4])
           f4 == EntryOf(s, cr3, w[1])
           f3 == EntryOf(s, f4.to, w[2])
           f2 == EntryOf(s, f3.to, w[3])
           f1 == EntryOf(s, f2.to, w[4])
<1>1. /\ new.to = brk /\ new.present = present /\ ~new.huge
      /\ ~Cleared.present /\ ~Cleared.huge
  BY DEF Entry, Cleared
<1>2. brk \in Nat /\ level[cr3] = 4
  BY DEF Tree, Levels
<1>3. Shown(t, w) = WalkEnds(e4, e3, e2, e1)
  BY ShownSteps
<1>4. Shown(s, w) = WalkEnds(f4, f3, f2, f1)
  BY ShownSteps
<1> HIDE DEF new
<1>5. ASSUME NEW a, NEW j
      PROVE  EntryOf(s, a, j) = IF table = a /\ i = j THEN new ELSE EntryOf(t, a, j)
  BY StoreLookup
<1>6. ASSUME NEW j PROVE EntryOf(s, brk, j) = Cleared
  <2>1. <<brk, j>> \notin DOMAIN t /\ table # brk
    BY <1>2 DEF Tree, EntryInTree
  <2>2. EntryOf(t, brk, j) = Cleared
    BY <2>1 DEF EntryOf
  <2> QED
    BY <1>5, <2>1, <2>2, Zenon
<1> HIDE DEF s
<1> DEFINE Down(a, j) == LET e == EntryOf(t, a, j)
                         IN e.present /\ ~e.huge /\ level[a] > 1 => level[e.to] = level[a] - 1
<1>down. ASSUME NEW a, NEW j PROVE Down(a, j)
  <2>1. LeadsOn(t, level, a, j) => LeadsDown(t, brk, level, a, j)
    BY Descend
  <2> QED
    BY <2>1 DEF LeadsOn, LeadsDown
<1>7. e4.present => ~e4.huge /\ level[e4.to] = 3
  <2>1. ~e4.huge
    BY <1>2, HugeLevel
  <2>2. level[cr3] > 1
    BY <1>2
  <2> SUFFICES ASSUME e4.present PROVE level[e4.to] = 3
    BY <2>1
  <2>3. level[e4.to] = level[cr3] - 1
    BY <1>down, <2>1, <2>2
  <2> QED
    BY <1>2, <2>3
<1> SUFFICES WalkEnds(f4, f3, f2, f1) = WalkEnds(e4, e3, e2, e1)
  BY <1>3, <1>4 DEF s, new
<1>8. f4 = e4 \/ (~e4.present /\ f4 = new)
  BY <1>5, Zenon
<1>9. f4 = new => f3 = Cleared
  BY <1>1, <1>6, Zenon
<1>10. CASE f4 # e4 \/ ~e4.present
  BY <1>1, <1>8, <1>9, <1>10, Zenon DEF WalkEnds
<1>11. CASE f4 = e4 /\ e4.present
  <2>1. e3.present => ~e3.huge /\ level[e3.to] = 2
    <3>1. ~e3.huge
      BY <1>7, <1>11, HugeLevel
    <3>2. level[e4.to] > 1
      BY <1>7, <1>11
    <3> SUFFICES ASSUME e3.present PROVE level[e3.to] = 2
      BY <3>1
    <3>3. level[e3.to] = level[e4.to] - 1
      BY <1>down, <3>1, <3>2
    <3> QED
      BY <1>7, <1>11, <3>3
  <2>2. f3 = e3 \/ (~e3.present /\ f3 = new)
    BY <1>5, <1>11, Zenon
  <2>3. f3 = new => f2 = Cleared
    BY <1>1, <1>6, Zenon
  <2> HIDE DEF e4, f4
  <2>4. CASE f3 # e3 \/ ~e3.present
    BY <1>1, <2>2, <2>3, <2>4, Zenon DEF WalkEnds
  <2>5. CASE f3 = e3 /\ e3.present
    <3>1. e2.present /\ ~e2.huge => level[e2.to] = 1
      <4>1. level[e3.to] > 1
        BY <2>1, <2>5
      <4> SUFFICES ASSUME e2.present, ~e2.huge PROVE level[e2.to] = 1
        OBVIOUS
      <4>2. level[e2.to] = level[e3.to] - 1
        BY <1>down, <4>1
      <4> QED
        BY <2>1, <2>5, <4>2
    <3>2. f2 = e2 \/ (~e2.present /\ f2 = new)
      BY <1>5, <2>5, Zenon
    <3>3. f2 = new => f1 = Cleared
      BY <1>1, <1>6, Zenon
    <3> HIDE DEF e3, f3
    <3>4. CASE f2 # e2 \/ ~e2.present
      BY <1>1, <3>2, <3>3, <3>4, Zenon DEF WalkEnds
    <3>5. CASE f2 = e2 /\ e2.present
      <4>1. ~e2.huge => f1 = e1
        <5>1. ~e2.huge => e2.to # table
          BY <3>1, <3>5
        <5> QED
          BY <1>5, <3>5, <5>1, Zenon
      <4> HIDE DEF e2, f2, e1, f1
      <4> QED
        BY <1>11, <2>5, <3>5, <4>1, Zenon DEF WalkEnds
    <3> QED
      BY <3>4, <3>5, Zenon
  <2> QED
    BY <2>4, <2>5, Zenon
<1> QED
  BY <1>10, <1>11, Zenon

(* What a table made at the bump pointer does to the levels. *)
NewLevel(level, brk, table) == [level EXCEPT ![brk] = level[table] - 1]

(* A new table hangs on one branch, which was not present before: the tree *)
(* stays a tree.                                                           *)
LEMMA NewTableTree ==
  ASSUME NEW t, NEW brk, NEW level, Tree(t, brk, level),
         NEW table \in Nat, table < brk, level[table] > 1, NEW i \in Nat,
         ~EntryOf(t, table, i).present, NEW present \in BOOLEAN
  PROVE  Tree(Store(t, table, i, Entry(brk, present, FALSE)), brk + PAGE_SIZE,
              NewLevel(level, brk, table))
<1> DEFINE new == Entry(brk, present, FALSE)
           k0 == <<table, i>>
           s == Store(t, table, i, new)
           lv == NewLevel(level, brk, table)
<1>1. /\ brk \in Nat /\ brk > LOW_PAGE /\ level \in [Nat -> 0 .. 4]
      /\ PAGE_SIZE \in Nat /\ PAGE_SIZE > 0
  BY SizesAssumption DEF Tree, Levels
<1>2. /\ lv \in [Nat -> 0 .. 4] /\ lv[brk] = level[table] - 1
      /\ \A p \in Nat : p < brk => lv[p] = level[p]
  <2>1. level[table] - 1 \in 0 .. 4
    BY <1>1
  <2> QED
    BY <1>1, <2>1 DEF NewLevel
<1>3. Levels(lv)
  BY <1>1, <1>2 DEF Levels, Tree, cr3, page_table_l4, page_table_l3, page_table_l2,
                    page_table_l2_2, LOW_PAGE
<1>4. new.to = brk /\ new.present = present /\ ~new.huge /\ new.huge \in BOOLEAN
  BY DEF Entry
<1>5. k0 \in Nat \X Nat /\ k0[1] = table
  OBVIOUS
<1> HIDE DEF lv, new, k0
<1>6. ASSUME NEW k \in DOMAIN s
      PROVE  \/ k = k0 /\ s[k] = new
             \/ k # k0 /\ k \in DOMAIN t /\ s[k] = t[k]
  BY StoreEntries, Zenon DEF k0
<1>7. k0 \in DOMAIN s /\ \A k \in DOMAIN t : k \in DOMAIN s
  BY DEF Store, k0
<1> HIDE DEF s
<1>8. ASSUME NEW k \in DOMAIN t
      PROVE  /\ k[1] \in Nat /\ k[1] < brk /\ lv[k[1]] = level[k[1]]
             /\ EntryInTree(t, brk, level, k)
             /\ Branch(t, level, k) => t[k].to \in Nat /\ t[k].to < brk
                                       /\ lv[t[k].to] = level[t[k].to]
  <2>1. EntryInTree(t, brk, level, k)
    BY DEF Tree
  <2>2. k[1] \in Nat /\ k[1] < brk
    BY <2>1 DEF EntryInTree
  <2> QED
    BY <1>2, <2>1, <2>2 DEF EntryInTree
<1>9. ASSUME NEW k \in DOMAIN s, k # k0
      PROVE  k \in DOMAIN t /\ s[k] = t[k] /\ (Branch(s, lv, k) <=> Branch(t, level, k))
  <2>1. k \in DOMAIN t /\ s[k] = t[k]
    BY <1>6, <1>9
  <2> QED
    BY <1>8, <2>1 DEF Branch
<1>10. s[k0] = new
  BY <1>6, <1>7
<1>11. ASSUME NEW k \in DOMAIN s PROVE EntryInTree(s, brk + PAGE_SIZE, lv, k)
  <2>1. CASE k = k0
    BY <1>1, <1>2, <1>4, <1>5, <1>10, <2>1 DEF EntryInTree
  <2>2. CASE k # k0
    <3>1. k \in DOMAIN t /\ s[k] = t[k] /\ (Branch(s, lv, k) <=> Branch(t, level, k))
      BY <1>9, <2>2
    <3>2. /\ k[1] \in Nat /\ k[1] < brk + PAGE_SIZE /\ lv[k[1]] = level[k[1]]
          /\ Branch(t, level, k) => t[k].to \in Nat /\ t[k].to < brk + PAGE_SIZE
                                    /\ lv[t[k].to] = level[t[k].to]
      BY <1>1, <1>8, <3>1
    <3>3. EntryInTree(t, brk, level, k)
      BY <1>8, <3>1
    <3> QED
      BY <3>1, <3>2, <3>3 DEF EntryInTree
  <2> QED
    BY <2>1, <2>2
<1>12. ASSUME NEW k \in DOMAIN s, Branch(s, lv, k), k # k0
       PROVE  s[k].to # brk
  BY <1>1, <1>8, <1>9, <1>12
<1>13. BranchesApart(s, lv)
  <2> SUFFICES ASSUME NEW j \in DOMAIN s, NEW k \in DOMAIN s,
                      Branch(s, lv, j), Branch(s, lv, k), s[j].to = s[k].to
               PROVE  j = k
    BY DEF BranchesApart
  <2>1. CASE j = k0 \/ k = k0
    BY <1>4, <1>10, <1>12, <2>1
  <2>2. CASE j # k0 /\ k # k0
    BY <1>9, <2>2 DEF Tree, BranchesApart
  <2> QED
    BY <2>1, <2>2
<1>14. BootKept(s)
  <2> SUFFICES ASSUME NEW k \in DOMAIN BootTables
               PROVE  k \in DOMAIN s /\ s[k] = BootTables[k]
    BY DEF BootKept
  <2>1. k \in DOMAIN t /\ t[k] = BootTables[k]
    BY DEF Tree, BootKept
  <2>2. t[k].present
    BY <2>1 DEF BootTables, Entry
  <2>3. k # k0
    BY <2>1, <2>2 DEF EntryOf, k0
  <2> QED
    BY <1>7, <1>9, <2>1, <2>3
<1>15. brk + PAGE_SIZE \in Nat /\ brk + PAGE_SIZE > LOW_PAGE
  BY <1>1 DEF LOW_PAGE
<1> QED
  BY <1>3, <1>11, <1>13, <1>14, <1>15 DEF Tree, s, new, lv

(* An entry of a page table is no branch of the tree. *)
LEMMA LeafTree ==
  ASSUME NEW t, NEW brk, NEW level, Tree(t, brk, level),
         NEW pt \in Nat, pt < brk, level[pt] = 1, NEW i \in Nat,
         NEW phys, NEW present \in BOOLEAN
  PROVE  Tree(Store(t, pt, i, Entry(phys, present, FALSE)), brk, level)
<1> DEFINE leaf == Entry(phys, present, FALSE)
           k0 == <<pt, i>>
           s == Store(t, pt, i, leaf)
<1>1. leaf.present \in BOOLEAN /\ leaf.huge \in BOOLEAN /\ ~leaf.huge
  BY DEF Entry
<1>2. k0 \in Nat \X Nat /\ k0[1] = pt
  OBVIOUS
<1> HIDE DEF leaf, k0
<1>3. ASSUME NEW k \in DOMAIN s
      PROVE  \/ k = k0 /\ s[k] = leaf
             \/ k # k0 /\ k \in DOMAIN t /\ s[k] = t[k]
  BY StoreEntries, Zenon DEF k0
<1>4. \A k \in DOMAIN t : k \in DOMAIN s
  BY DEF Store
<1> HIDE DEF s
<1>5. ASSUME NEW k \in DOMAIN s, Branch(s, level, k)
      PROVE  k \in DOMAIN t /\ s[k] = t[k] /\ Branch(t, level, k)
  <2>1. k # k0
    BY <1>2, <1>5 DEF Branch
  <2> QED
    BY <1>3, <1>5, <2>1 DEF Branch
<1>6. ASSUME NEW k \in DOMAIN s PROVE EntryInTree(s, brk, level, k)
  <2>1. CASE k = k0
    <3>1. s[k] = leaf /\ ~Branch(s, level, k)
      BY <1>2, <1>3, <2>1 DEF Branch
    <3> QED
      BY <1>1, <1>2, <2>1, <3>1, SMTT(30) DEF EntryInTree
  <2>2. CASE k # k0
    <3>1. k \in DOMAIN t /\ s[k] = t[k] /\ (Branch(s, level, k) => Branch(t, level, k))
      BY <1>3, <1>5, <2>2
    <3> QED
      BY <3>1 DEF Tree, EntryInTree
  <2> QED
    BY <2>1, <2>2
<1>7. BranchesApart(s, level)
  BY <1>5 DEF BranchesApart, Tree
<1>8. BootKept(s)
  <2> SUFFICES ASSUME NEW k \in DOMAIN BootTables
               PROVE  k \in DOMAIN s /\ s[k] = BootTables[k]
    BY DEF BootKept
  <2>1. k \in DOMAIN t /\ t[k] = BootTables[k]
    BY DEF Tree, BootKept
  <2>2. k[1] \in {page_table_l4, page_table_l3, page_table_l2, page_table_l2_2}
    BY DEF BootTables
  <2>3. k # k0
    BY <1>2, <2>2 DEF Tree, Levels, cr3
  <2> QED
    BY <1>3, <1>4, <2>1, <2>3
<1> QED
  BY <1>6, <1>7, <1>8 DEF Tree, s, leaf

(* Entry <<table, i>> is a branch that leads to page to. *)
Leads(t, level, table, i, to) ==
  /\ <<table, i>> \in DOMAIN t /\ Branch(t, level, <<table, i>>)
  /\ t[<<table, i>>].to = to

(* There is one way to a table. *)
LEMMA OneWay ==
  ASSUME NEW t, NEW brk, NEW level, Tree(t, brk, level),
         NEW a, NEW i, NEW b, NEW j, NEW to,
         Leads(t, level, a, i, to), Leads(t, level, b, j, to)
  PROVE  a = b /\ i = j
<1>1. <<a, i>> = <<b, j>>
  BY DEF Tree, BranchesApart, Leads
<1> QED
  BY <1>1

(* What tables s show: v as phys or not at all, every other page as t. *)
LeafShown(t, s, phys, v, present) ==
  /\ \A w \in VirtualPage : w # v => Shown(s, w) = Shown(t, w)
  /\ Shown(s, v) = IF present THEN <<phys, FALSE>> ELSE <<>>

(* The entry of a page table shows in the one page whose walk leads to it. *)
LEMMA LeafShows ==
  ASSUME NEW t, NEW brk, NEW level, Tree(t, brk, level), NEW v \in VirtualPage,
         NEW pdp, NEW pd, NEW pt, level[pdp] = 3, level[pd] = 2, level[pt] = 1,
         Leads(t, level, cr3, v[1], pdp), Leads(t, level, pdp, v[2], pd),
         Leads(t, level, pd, v[3], pt), NEW phys, NEW present \in BOOLEAN,
         present => /\ EntryOf(t, cr3, v[1]).present /\ EntryOf(t, pdp, v[2]).present
                    /\ EntryOf(t, pd, v[3]).present
  PROVE  LeafShown(t, Store(t, pt, v[4], Entry(phys, present, FALSE)), phys, v, present)
<1> DEFINE leaf == Entry(phys, present, FALSE)
           s == Store(t, pt, v[4], leaf)
<1>1. leaf.to = phys /\ leaf.present = present /\ leaf.huge = FALSE
  BY DEF Entry
<1>2. level[cr3] = 4
  BY DEF Tree, Levels
<1> HIDE DEF leaf
<1>3. ASSUME NEW a, NEW j
      PROVE  EntryOf(s, a, j) = IF pt = a /\ v[4] = j THEN leaf ELSE EntryOf(t, a, j)
  BY StoreLookup
<1>4. ASSUME NEW a, NEW j, level[a] # 1
      PROVE  EntryOf(s, a, j) = EntryOf(t, a, j)
  BY <1>3, <1>4
(* The other pages. *)
<1>5. ASSUME NEW w \in VirtualPage, w # v PROVE Shown(s, w) = Shown(t, w)
  <2> DEFINE e4 == EntryOf(t, cr3, w[1])
             e3 == EntryOf(t, e4.to, w[2])
             e2 == EntryOf(t, e3.to, w[3])
             e1 == EntryOf(t, e2.to, w[4])
             f4 == EntryOf(s, cr3, w[1])
             f3 == EntryOf(s, f4.to, w[2])
             f2 == EntryOf(s, f3.to, w[3])
             f1 == EntryOf(s, f2.to, w[4])
  <2>1. Shown(t, w) = WalkEnds(e4, e3, e2, e1) /\ Shown(s, w) = WalkEnds(f4, f3, f2, f1)
    BY ShownSteps
  <2> HIDE DEF s
  <2>2. f4 = e4
    BY <1>2, <1>4
  <2>3. CASE ~e4.present
    BY <2>1, <2>2, <2>3, Zenon DEF WalkEnds
  <2>4. CASE e4.present
    <3>1. ~e4.huge
      BY <1>2, HugeLevel
    <3>2. LeadsDown(t, brk, level, cr3, w[1])
      <4>1. LeadsOn(t, level, cr3, w[1])
        BY <1>2, <2>4, <3>1 DEF LeadsOn
      <4> QED
        BY <4>1, Descend
    <3>3. Leads(t, level, cr3, w[1], e4.to) /\ level[e4.to] = 3
      BY <1>2, <3>2 DEF LeadsDown, Leads
    <3>4. f3 = e3
      BY <1>4, <2>2, <3>3
    <3>5. CASE ~e3.present
      BY <2>1, <3>4, <3>5, Zenon DEF WalkEnds
    <3>6. CASE e3.present
      <4>1. ~e3.huge
        BY <3>3, HugeLevel
      <4>2. LeadsDown(t, brk, level, e4.to, w[2])
        <5>1. LeadsOn(t, level, e4.to, w[2])
          BY <3>3, <3>6, <4>1 DEF LeadsOn
        <5> QED
          BY <5>1, Descend
      <4>3. Leads(t, level, e4.to, w[2], e3.to) /\ level[e3.to] = 2
        BY <3>3, <4>2 DEF LeadsDown, Leads
      <4>4. f2 = e2
        BY <1>4, <3>4, <4>3
      <4>5. CASE ~e2.present \/ e2.huge
        <5> HIDE DEF e4, e3, e2, e1, f4, f3, f2, f1
        <5> QED
          BY <2>1, <2>2, <3>4, <4>4, <4>5 DEF WalkEnds
      <4>6. CASE e2.present /\ ~e2.huge
        <5>1. LeadsDown(t, brk, level, e3.to, w[3])
          <6>1. LeadsOn(t, level, e3.to, w[3])
            BY <4>3, <4>6 DEF LeadsOn
          <6> QED
            BY <6>1, Descend
        <5>2. Leads(t, level, e3.to, w[3], e2.to)
          BY <5>1 DEF LeadsDown, Leads
        <5> HIDE DEF e4, e3, e2
        <5>3. ~(pt = e2.to /\ v[4] = w[4])
          <6> SUFFICES ASSUME pt = e2.to, v[4] = w[4] PROVE FALSE
            OBVIOUS
          <6>1. pd = e3.to /\ v[3] = w[3]
            BY <5>2, OneWay
          <6>2. pdp = e4.to /\ v[2] = w[2]
            BY <4>3, <6>1, OneWay
          <6>3. v[1] = w[1]
            BY <3>3, <6>2, OneWay
          <6> QED
            BY <1>5, <6>1, <6>2, <6>3 DEF VirtualPage
        <5>4. f1 = e1
          BY <1>3, <4>4, <5>3, Zenon
        <5> HIDE DEF e1, f4, f3, f2, f1
        <5> QED
          BY <2>1, <2>2, <3>4, <4>4, <5>4
      <4> QED
        BY <4>5, <4>6, Zenon
    <3> QED
      BY <3>5, <3>6, Zenon
  <2> QED
    BY <2>3, <2>4, Zenon
(* The page itself. *)
<1>6. /\ EntryOf(s, cr3, v[1]) = EntryOf(t, cr3, v[1])
      /\ EntryOf(s, pdp, v[2]) = EntryOf(t, pdp, v[2])
      /\ EntryOf(s, pd, v[3]) = EntryOf(t, pd, v[3])
      /\ EntryOf(s, pt, v[4]) = leaf
  <2> HIDE DEF s
  <2> QED
    BY <1>2, <1>3, <1>4
<1>7. /\ EntryOf(t, cr3, v[1]).to = pdp /\ EntryOf(t, pdp, v[2]).to = pd
      /\ EntryOf(t, pd, v[3]).to = pt /\ ~EntryOf(t, pd, v[3]).huge
  BY DEF Leads, Branch, EntryOf
<1>8. Shown(s, v) = WalkEnds(EntryOf(t, cr3, v[1]), EntryOf(t, pdp, v[2]),
                             EntryOf(t, pd, v[3]), leaf)
  BY <1>6, <1>7, ShownSteps
<1>9. Shown(s, v) = IF present THEN <<phys, FALSE>> ELSE <<>>
  BY <1>1, <1>7, <1>8 DEF WalkEnds
<1> QED
  BY <1>5, <1>9 DEF LeafShown, s, leaf

(* n, with levels lv, is m after an Ensure of entry i of table: a tree with *)
(* the same translations, in which the entry leads to a table.             *)
Ensured(m, level, n, lv, table, i, present) ==
  /\ Tree(n.tables, n.brk, lv) /\ m.brk <= n.brk
  /\ \A p \in Nat : p < m.brk => lv[p] = level[p]
  /\ \A w \in VirtualPage : Shown(n.tables, w) = Shown(m.tables, w)
  /\ \A a, j : a # table \/ j # i => EntryOf(n.tables, a, j) = EntryOf(m.tables, a, j)
  /\ \A a, j, b : Leads(m.tables, level, a, j, b) /\ (a # table \/ j # i)
                    => Leads(n.tables, lv, a, j, b)
  /\ LET e == EntryOf(n.tables, table, i)
     IN /\ Leads(n.tables, lv, table, i, e.to) /\ (present => e.present)
        /\ e.to \in Nat /\ e.to < n.brk /\ lv[e.to] = level[table] - 1
  /\ EntryOf(m.tables, table, i).present => n = m

(* "Ensure ... exists" makes a table where there is none. *)
LEMMA EnsureTree ==
  ASSUME NEW m, NEW level, Tree(m.tables, m.brk, level),
         NEW table \in Nat, table < m.brk, level[table] > 1, NEW i \in Nat,
         ~EntryOf(m.tables, table, i).huge, NEW present \in BOOLEAN
  PROVE  \E lv : Ensured(m, level, Ensure(m, table, i, present), lv, table, i, present)
<1> DEFINE t == m.tables
           brk == m.brk
           n == Ensure(m, table, i, present)
<1>1. CASE EntryOf(t, table, i).present
  <2>1. n = m
    BY <1>1 DEF Ensure
  <2>2. LeadsDown(t, brk, level, table, i)
    <3>1. LeadsOn(t, level, table, i)
      BY <1>1 DEF LeadsOn
    <3> QED
      BY <3>1, Descend
  <2>3. /\ Leads(t, level, table, i, EntryOf(t, table, i).to)
        /\ EntryOf(t, table, i).to \in Nat /\ EntryOf(t, table, i).to < brk
        /\ level[EntryOf(t, table, i).to] = level[table] - 1
    BY <2>2 DEF LeadsDown, Leads
  <2>4. brk <= brk
    BY DEF Tree
  <2> HIDE DEF n
  <2>5. Ensured(m, level, n, level, table, i, present)
    BY <1>1, <2>1, <2>3, <2>4 DEF Ensured
  <2> QED
    BY <2>5 DEF n
<1>2. CASE ~EntryOf(t, table, i).present
  <2> DEFINE new == Entry(brk, present, FALSE)
             s == Store(t, table, i, new)
             lv == NewLevel(level, brk, table)
  <2>1. n = Memory(s, brk + PAGE_SIZE)
    BY <1>2 DEF Ensure
  <2>2. n.tables = s /\ n.brk = brk + PAGE_SIZE
    BY <2>1 DEF Memory
  <2>3. Tree(s, brk + PAGE_SIZE, lv)
    BY <1>2, NewTableTree
  <2>4. \A w \in VirtualPage : Shown(s, w) = Shown(t, w)
    BY <1>2, NewTableShows, ZenonT(40)
  <2>5. /\ brk \in Nat /\ level \in [Nat -> 0 .. 4] /\ PAGE_SIZE \in Nat /\ PAGE_SIZE > 0
    BY SizesAssumption DEF Tree, Levels
  <2>6. \A p \in Nat : p < brk => lv[p] = level[p]
    BY <2>5 DEF NewLevel
  <2>7. lv[brk] = level[table] - 1
    BY <2>5 DEF NewLevel
  <2>8. new.to = brk /\ new.present = present /\ ~new.huge
    BY DEF Entry
  <2> HIDE DEF new, lv, n
  <2>lookup. ASSUME NEW a, NEW j
        PROVE  EntryOf(s, a, j) = IF table = a /\ i = j THEN new ELSE EntryOf(t, a, j)
    BY StoreLookup
  <2>9. EntryOf(s, table, i) = new
    BY <2>lookup, Zenon
  <2>10. ASSUME NEW a, NEW j, a # table \/ j # i
         PROVE  /\ EntryOf(s, a, j) = EntryOf(t, a, j)
                /\ <<a, j>> \in DOMAIN t => <<a, j>> \in DOMAIN s /\ s[<<a, j>>] = t[<<a, j>>]
    <3>1. EntryOf(s, a, j) = EntryOf(t, a, j)
      BY <2>lookup, <2>10, Zenon
    <3>2. <<a, j>> # <<table, i>>
      BY <2>10
    <3> QED
      BY <3>1, <3>2 DEF Store
  <2>11. <<table, i>> \in DOMAIN s /\ s[<<table, i>>] = new
    BY DEF Store
  <2> HIDE DEF s
  <2>12. ASSUME NEW a, NEW j, NEW b, Leads(t, level, a, j, b), a # table \/ j # i
         PROVE  Leads(s, lv, a, j, b)
    <3>1. <<a, j>> \in DOMAIN t /\ <<a, j>>[1] = a
      BY <2>12 DEF Leads
    <3>2. EntryInTree(t, brk, level, <<a, j>>)
      BY <3>1 DEF Tree
    <3>3. a \in Nat /\ a < brk
      BY <3>2 DEF EntryInTree
    <3> QED
      BY <2>6, <2>10, <2>12, <3>1, <3>3 DEF Leads, Branch
  <2>13. Leads(s, lv, table, i, brk)
    BY <2>6, <2>8, <2>11 DEF Leads, Branch
  <2>14. Ensured(m, level, n, lv, table, i, present)
    <3>1. brk <= brk + PAGE_SIZE /\ brk < brk + PAGE_SIZE
      BY <2>5
    <3>2. LET e == EntryOf(s, table, i)
          IN /\ Leads(s, lv, table, i, e.to) /\ (present => e.present)
             /\ e.to \in Nat /\ e.to < brk + PAGE_SIZE /\ lv[e.to] = level[table] - 1
      BY <2>5, <2>7, <2>8, <2>9, <2>13, <3>1
    <3>3. \A a, j : a # table \/ j # i => EntryOf(s, a, j) = EntryOf(t, a, j)
      BY <2>10
    <3>4. \A a, j, b : Leads(t, level, a, j, b) /\ (a # table \/ j # i)
                         => Leads(s, lv, a, j, b)
      BY <2>12
    <3> QED
      BY <1>2, <2>2, <2>3, <2>4, <2>6, <3>1, <3>2, <3>3, <3>4, Zenon DEF Ensured
  <2> QED
    BY <2>14 DEF n
<1> QED
  BY <1>1, <1>2

(* The boot loader's tables, in any tree. *)
LEMMA BootLeads ==
  ASSUME NEW t, NEW brk, NEW level, Tree(t, brk, level)
  PROVE  /\ Leads(t, level, cr3, 0, page_table_l3)
         /\ Leads(t, level, page_table_l3, 0, page_table_l2)
         /\ Leads(t, level, page_table_l3, 1, page_table_l2_2)
         /\ EntryOf(t, cr3, 0) = Entry(page_table_l3, TRUE, FALSE)
         /\ EntryOf(t, page_table_l3, 0) = Entry(page_table_l2, TRUE, FALSE)
         /\ EntryOf(t, page_table_l3, 1) = Entry(page_table_l2_2, TRUE, FALSE)
         /\ \A i \in Indices : /\ EntryOf(t, page_table_l2, i) = Entry(0, TRUE, TRUE)
                               /\ EntryOf(t, page_table_l2_2, i) = Entry(0, TRUE, TRUE)
<1> USE DEF cr3, page_table_l4, page_table_l3, page_table_l2, page_table_l2_2
<1>1. /\ <<1, 0>> \in DOMAIN BootTables /\ BootTables[<<1, 0>>] = Entry(2, TRUE, FALSE)
      /\ <<2, 0>> \in DOMAIN BootTables /\ BootTables[<<2, 0>>] = Entry(3, TRUE, FALSE)
      /\ <<2, 1>> \in DOMAIN BootTables /\ BootTables[<<2, 1>>] = Entry(4, TRUE, FALSE)
  BY DEF BootTables
<1>2. ASSUME NEW i \in Indices
      PROVE  /\ <<3, i>> \in DOMAIN BootTables /\ BootTables[<<3, i>>] = Entry(0, TRUE, TRUE)
             /\ <<4, i>> \in DOMAIN BootTables /\ BootTables[<<4, i>>] = Entry(0, TRUE, TRUE)
  <2>1. ASSUME NEW k \in {<<3, i>>, <<4, i>>}
        PROVE  k \in {3, 4} \X Indices /\ k[1] # 1 /\ k # <<2, 0>> /\ k # <<2, 1>>
    OBVIOUS
  <2>2. ASSUME NEW k \in {<<3, i>>, <<4, i>>}
        PROVE  k \in DOMAIN BootTables /\ BootTables[k] = Entry(0, TRUE, TRUE)
    BY <2>1 DEF BootTables
  <2> QED
    BY <2>2
<1>3. ASSUME NEW k \in DOMAIN BootTables PROVE k \in DOMAIN t /\ t[k] = BootTables[k]
  BY DEF Tree, BootKept
<1>4. level[1] = 4 /\ level[2] = 3
  BY DEF Tree, Levels
<1>5. /\ <<1, 0>> \in DOMAIN t /\ t[<<1, 0>>] = Entry(2, TRUE, FALSE)
      /\ <<2, 0>> \in DOMAIN t /\ t[<<2, 0>>] = Entry(3, TRUE, FALSE)
      /\ <<2, 1>> \in DOMAIN t /\ t[<<2, 1>>] = Entry(4, TRUE, FALSE)
  BY <1>1, <1>3
<1>6. \A i \in Indices : /\ EntryOf(t, 3, i) = Entry(0, TRUE, TRUE)
                         /\ EntryOf(t, 4, i) = Entry(0, TRUE, TRUE)
  BY <1>2, <1>3 DEF EntryOf
<1>7. /\ Leads(t, level, 1, 0, 2) /\ Leads(t, level, 2, 0, 3) /\ Leads(t, level, 2, 1, 4)
  BY <1>4, <1>5 DEF Leads, Branch, Entry
<1>8. /\ EntryOf(t, 1, 0) = Entry(2, TRUE, FALSE) /\ EntryOf(t, 2, 0) = Entry(3, TRUE, FALSE)
      /\ EntryOf(t, 2, 1) = Entry(4, TRUE, FALSE)
  BY <1>5 DEF EntryOf
<1> QED
  BY <1>6, <1>7, <1>8

(* m is a tree that shows v as mmu_map_page should, and every other page   *)
(* as m0.                                                                  *)
Mapped(m0, m, phys, v, present) ==
  /\ \E lv : Tree(m.tables, m.brk, lv)
  /\ \A w \in VirtualPage : w # v => Shown(m.tables, w) = Shown(m0.tables, w)
  /\ Shown(m.tables, v) = IF v[1] = 0 /\ v[2] < 2 THEN Shown(m0.tables, v)
                          ELSE IF present THEN <<phys, FALSE>> ELSE <<>>

(* Map maps the one page, if it does not lie in a huge page. *)
LEMMA MapShows ==
  ASSUME NEW m0, NEW level, Tree(m0.tables, m0.brk, level), NEW v \in VirtualPage,
         v[3] \in Indices, NEW phys, NEW present \in BOOLEAN
  PROVE  Mapped(m0, Map(m0, phys, v, present), phys, v, present)
<1> DEFINE m == Map(m0, phys, v, present)
           m1 == Ensure(m0, cr3, v[1], present)
           pdp == EntryOf(m1.tables, cr3, v[1]).to
           m2 == Ensure(m1, pdp, v[2], present)
           pd == EntryOf(m2.tables, pdp, v[2]).to
           m3 == Ensure(m2, pd, v[3], present)
           pt == EntryOf(m3.tables, pd, v[3]).to
<1>1. m = IF EntryOf(m2.tables, pd, v[3]).huge THEN m2
          ELSE Memory(Store(m3.tables, pt, v[4], Entry(phys, present, FALSE)), m3.brk)
  BY DEF Map, MapLeaf
<1> HIDE DEF m
<1>2. /\ v[1] \in Nat /\ v[2] \in Nat /\ v[3] \in Nat /\ v[4] \in Nat
  BY DEF VirtualPage
<1>3. cr3 \in Nat /\ cr3 < m0.brk /\ level[cr3] = 4 /\ m0.brk \in Nat
  BY DEF Tree, Levels, cr3, page_table_l4, LOW_PAGE
(* The root. *)
<1>4. PICK lv1 : Ensured(m0, level, m1, lv1, cr3, v[1], present)
  <2>1. ~EntryOf(m0.tables, cr3, v[1]).huge
    BY <1>3, HugeLevel
  <2> QED
    BY <1>2, <1>3, <2>1, EnsureTree
<1> HIDE DEF m1
<1>5. /\ Tree(m1.tables, m1.brk, lv1) /\ m0.brk <= m1.brk
      /\ pdp \in Nat /\ pdp < m1.brk /\ lv1[pdp] = 3
      /\ Leads(m1.tables, lv1, cr3, v[1], pdp)
      /\ present => EntryOf(m1.tables, cr3, v[1]).present
      /\ EntryOf(m0.tables, cr3, v[1]).present => m1 = m0
      /\ \A w \in VirtualPage : Shown(m1.tables, w) = Shown(m0.tables, w)
  BY <1>3, <1>4 DEF Ensured
<1>6. lv1[cr3] = 4 /\ pdp # cr3
  BY <1>5 DEF Tree, Levels
(* The page directory pointers. *)
<1>7. PICK lv2 : Ensured(m1, lv1, m2, lv2, pdp, v[2], present)
  <2>1. ~EntryOf(m1.tables, pdp, v[2]).huge
    BY <1>5, HugeLevel
  <2>2. lv1[pdp] > 1
    BY <1>5
  <2> HIDE DEF pdp
  <2> QED
    BY <1>2, <1>5, <2>1, <2>2, EnsureTree
<1> HIDE DEF pdp, m2
<1>8. /\ Tree(m2.tables, m2.brk, lv2) /\ pd \in Nat /\ pd < m2.brk /\ lv2[pd] = 2
      /\ lv2[pdp] = 3 /\ pdp \in Nat /\ pdp < m2.brk
      /\ Leads(m2.tables, lv2, pdp, v[2], pd) /\ Leads(m2.tables, lv2, cr3, v[1], pdp)
      /\ present => EntryOf(m2.tables, pdp, v[2]).present
                    /\ EntryOf(m2.tables, cr3, v[1]).present
      /\ EntryOf(m1.tables, pdp, v[2]).present => m2 = m1
      /\ \A w \in VirtualPage : Shown(m2.tables, w) = Shown(m0.tables, w)
  <2>1. m1.brk \in Nat /\ m2.brk \in Nat /\ m1.brk <= m2.brk
    BY <1>5, <1>7 DEF Ensured, Tree
  <2>2. pdp \in Nat /\ pdp < m2.brk
    BY <1>5, <2>1
  <2> QED
    BY <1>5, <1>6, <1>7, <2>2 DEF Ensured
<1> DEFINE huge == EntryOf(m2.tables, pd, v[3]).huge
(* The pages in a huge page are those of the boot loader. *)
<1>9. ASSUME huge PROVE v[1] = 0 /\ v[2] < 2
  <2>1. pd \in {page_table_l2, page_table_l2_2}
    BY <1>8, <1>9, HugeLevel
  <2> HIDE DEF pd
  <2>2. pdp = page_table_l3 /\ v[2] \in {0, 1}
    <3>1. /\ Leads(m2.tables, lv2, page_table_l3, 0, page_table_l2)
          /\ Leads(m2.tables, lv2, page_table_l3, 1, page_table_l2_2)
      BY <1>8, BootLeads
    <3>2. CASE pd = page_table_l2
      BY <1>8, <3>1, <3>2, OneWay
    <3>3. CASE pd = page_table_l2_2
      BY <1>8, <3>1, <3>3, OneWay
    <3> QED
      BY <2>1, <3>2, <3>3
  <2>3. v[1] = 0
    <3>1. Leads(m2.tables, lv2, cr3, 0, page_table_l3)
      BY <1>8, BootLeads
    <3> QED
      BY <1>8, <2>2, <3>1, OneWay
  <2> QED
    BY <2>2, <2>3
<1>10. ASSUME v[1] = 0, v[2] < 2 PROVE huge
  <2>1. EntryOf(m0.tables, cr3, v[1]) = Entry(page_table_l3, TRUE, FALSE)
    BY <1>10, BootLeads
  <2>2. m1 = m0
    BY <1>5, <2>1 DEF Entry
  <2>3. pdp = page_table_l3
    BY <2>1, <2>2 DEF pdp, Entry
  <2>4. v[2] \in {0, 1}
    BY <1>2, <1>10
  <2>5. \/ EntryOf(m0.tables, pdp, v[2]) = Entry(page_table_l2, TRUE, FALSE)
        \/ EntryOf(m0.tables, pdp, v[2]) = Entry(page_table_l2_2, TRUE, FALSE)
    BY <2>3, <2>4, BootLeads
  <2>6. EntryOf(m1.tables, pdp, v[2]).present
    BY <2>2, <2>5 DEF Entry
  <2>7. m2 = m0
    BY <1>8, <2>2, <2>6
  <2>8. pd \in {page_table_l2, page_table_l2_2}
    BY <2>5, <2>7 DEF Entry
  <2>9. EntryOf(m0.tables, pd, v[3]) = Entry(0, TRUE, TRUE)
    BY <2>8, BootLeads
  <2> QED
    BY <2>7, <2>9 DEF Entry
<1>11. CASE huge
  <2>1. m = m2
    BY <1>1, <1>11
  <2> QED
    BY <1>8, <1>9, <1>11, <2>1 DEF Mapped, m
<1>12. CASE ~huge
  (* The page directory. *)
  <2>1. PICK lv3 : Ensured(m2, lv2, m3, lv3, pd, v[3], present)
    <3>1. lv2[pd] > 1 /\ ~EntryOf(m2.tables, pd, v[3]).huge
      BY <1>8, <1>12
    <3> HIDE DEF pd
    <3> QED
      BY <1>2, <1>8, <3>1, EnsureTree
  <2> HIDE DEF pd, m3
  <2>2. pd # pdp /\ pd # cr3 /\ lv2[cr3] = 4
    BY <1>8 DEF Tree, Levels
  <2>3. /\ Tree(m3.tables, m3.brk, lv3) /\ pt \in Nat /\ pt < m3.brk /\ lv3[pt] = 1
        /\ Leads(m3.tables, lv3, pd, v[3], pt) /\ Leads(m3.tables, lv3, pdp, v[2], pd)
        /\ Leads(m3.tables, lv3, cr3, v[1], pdp)
        /\ present => EntryOf(m3.tables, pd, v[3]).present
                      /\ EntryOf(m3.tables, pdp, v[2]).present
                      /\ EntryOf(m3.tables, cr3, v[1]).present
        /\ \A w \in VirtualPage : Shown(m3.tables, w) = Shown(m0.tables, w)
    BY <1>8, <2>1, <2>2 DEF Ensured
  <2>4. lv3[pd] = 2 /\ lv3[pdp] = 3
    BY <1>8, <2>1 DEF Ensured
  <2> HIDE DEF pt
  (* The page table. *)
  <2> DEFINE s == Store(m3.tables, pt, v[4], Entry(phys, present, FALSE))
  <2>5. m = Memory(s, m3.brk)
    BY <1>1, <1>12
  <2>6. m.tables = s /\ m.brk = m3.brk
    BY <2>5 DEF Memory
  <2>7. Tree(s, m3.brk, lv3)
    BY <1>2, <2>3, LeafTree
  <2>8. LeafShown(m3.tables, s, phys, v, present)
    <3>1. /\ Tree(m3.tables, m3.brk, lv3)
          /\ lv3[pdp] = 3 /\ lv3[pd] = 2 /\ lv3[pt] = 1
          /\ Leads(m3.tables, lv3, cr3, v[1], pdp) /\ Leads(m3.tables, lv3, pdp, v[2], pd)
          /\ Leads(m3.tables, lv3, pd, v[3], pt)
      BY <2>3, <2>4
    <3>2. present => /\ EntryOf(m3.tables, cr3, v[1]).present
                     /\ EntryOf(m3.tables, pdp, v[2]).present
                     /\ EntryOf(m3.tables, pd, v[3]).present
      BY <2>3
    <3> QED
      BY <3>1, <3>2, LeafShows, ZenonT(60)
  <2> HIDE DEF s
  <2>9. ~(v[1] = 0 /\ v[2] < 2)
    BY <1>10, <1>12
  <2> QED
    BY <2>3, <2>6, <2>7, <2>8, <2>9 DEF LeafShown, Mapped, m
<1> QED
  BY <1>11, <1>12

(* A tree stays one when the bump pointer moves on. *)
LEMMA TreeGrows ==
  ASSUME NEW t, NEW brk, NEW level, Tree(t, brk, level), NEW b \in Nat, brk <= b
  PROVE  Tree(t, b, level)
<1>1. brk \in Nat /\ b > LOW_PAGE
  BY DEF Tree, LOW_PAGE
<1>2. ASSUME NEW k \in DOMAIN t PROVE EntryInTree(t, b, level, k)
  <2>1. EntryInTree(t, brk, level, k)
    BY DEF Tree
  <2>2. k[1] \in Nat /\ k[1] < b
    BY <1>1, <2>1 DEF EntryInTree
  <2>3. Branch(t, level, k) => t[k].to \in Nat /\ t[k].to < b
    BY <1>1, <2>1 DEF EntryInTree
  <2> QED
    BY <2>1, <2>2, <2>3 DEF EntryInTree
<1> QED
  BY <1>1, <1>2 DEF Tree

(* set_up_page_tables builds a tree. *)
LEMMA BootTree == \E level : Tree(BootTables, BASE, level)
<1> USE DEF cr3, page_table_l4, page_table_l3, page_table_l2, page_table_l2_2, LOW_PAGE
<1> DEFINE t == BootTables
           level == [p \in Nat |-> CASE p = 1 -> 4 [] p = 2 -> 3 [] p \in {3, 4} -> 2
                                     [] OTHER -> 0]
<1>1. BASE \in Nat /\ BASE > 5 /\ Indices \subseteq Nat
  BY SizesAssumption, PagesAssumption
<1>2. level[1] = 4 /\ level[2] = 3 /\ level[3] = 2 /\ level[4] = 2 /\ level[5] = 0
  OBVIOUS
<1>3. level \in [Nat -> 0 .. 4]
  OBVIOUS
<1> HIDE DEF level
<1>4. ASSUME NEW k \in DOMAIN t
      PROVE  \/ k = <<1, 0>> /\ t[k] = Entry(2, TRUE, FALSE)
             \/ k = <<2, 0>> /\ t[k] = Entry(3, TRUE, FALSE)
             \/ k = <<2, 1>> /\ t[k] = Entry(4, TRUE, FALSE)
             \/ k \in {3, 4} \X Indices /\ t[k] = Entry(0, TRUE, TRUE)
  <2>1. DOMAIN t = {<<1, 0>>, <<2, 0>>, <<2, 1>>} \cup ({3, 4} \X Indices)
    BY DEF BootTables
  <2>2. ASSUME k \in {<<1, 0>>, <<2, 0>>, <<2, 1>>}
        PROVE  \/ k = <<1, 0>> /\ t[k] = Entry(2, TRUE, FALSE)
               \/ k = <<2, 0>> /\ t[k] = Entry(3, TRUE, FALSE)
               \/ k = <<2, 1>> /\ t[k] = Entry(4, TRUE, FALSE)
    <3>1. CASE k = <<1, 0>>
      BY <3>1 DEF BootTables
    <3>2. CASE k = <<2, 0>>
      BY <3>2 DEF BootTables
    <3>3. CASE k = <<2, 1>>
      BY <3>3 DEF BootTables
    <3> QED
      BY <2>2, <3>1, <3>2, <3>3
  <2>3. CASE k \in {3, 4} \X Indices
    <3>1. k[1] # 1 /\ k # <<2, 0>> /\ k # <<2, 1>>
      BY <2>3
    <3> QED
      BY <2>3, <3>1 DEF BootTables
  <2> QED
    BY <2>1, <2>2, <2>3
<1>5. BootKept(t)
  BY DEF BootKept
<1> HIDE DEF t
<1>6. ASSUME NEW k \in DOMAIN t PROVE EntryInTree(t, BASE, level, k)
  <2>1. CASE k \in {3, 4} \X Indices /\ t[k] = Entry(0, TRUE, TRUE)
    <3>1. ~Branch(t, level, k)
      BY <2>1 DEF Branch, Entry
    <3>2. k \in Nat \X Nat /\ k[1] \in {3, 4}
      <4>1. PICK a \in {3, 4}, i \in Indices : k = <<a, i>>
        BY <2>1
      <4>2. a \in Nat /\ i \in Nat
        BY <1>1
      <4> QED
        BY <4>1, <4>2
    <3> QED
      BY <1>1, <1>2, <2>1, <3>1, <3>2 DEF EntryInTree, Entry
  <2>2. ASSUME NEW a \in {1, 2}, NEW i \in {0, 1}, NEW to \in 2 .. 4, k = <<a, i>>,
               t[k] = Entry(to, TRUE, FALSE), level[to] = level[a] - 1
        PROVE  EntryInTree(t, BASE, level, k)
    <3>1. /\ k \in Nat \X Nat /\ k[1] = a /\ t[k].to = to /\ ~t[k].huge
          /\ t[k].present \in BOOLEAN /\ t[k].huge \in BOOLEAN
      BY <2>2 DEF Entry
    <3>2. a < BASE /\ level[a] > 0 /\ to \in Nat /\ to < BASE
      BY <1>1, <1>2
    <3> QED
      BY <2>2, <3>1, <3>2 DEF EntryInTree
  <2>3. CASE k = <<1, 0>> /\ t[k] = Entry(2, TRUE, FALSE)
    BY <1>2, <2>2, <2>3
  <2>4. CASE k = <<2, 0>> /\ t[k] = Entry(3, TRUE, FALSE)
    BY <1>2, <2>2, <2>4
  <2>5. CASE k = <<2, 1>> /\ t[k] = Entry(4, TRUE, FALSE)
    BY <1>2, <2>2, <2>5
  <2> QED
    BY <1>4, <2>1, <2>3, <2>4, <2>5
<1>7. ASSUME NEW k \in DOMAIN t, Branch(t, level, k)
      PROVE  \/ k = <<1, 0>> /\ t[k].to = 2
             \/ k = <<2, 0>> /\ t[k].to = 3
             \/ k = <<2, 1>> /\ t[k].to = 4
  BY <1>4, <1>7 DEF Branch, Entry
<1>8. BranchesApart(t, level)
  BY <1>7 DEF BranchesApart
<1>9. Levels(level)
  BY <1>2, <1>3 DEF Levels
<1> QED
  BY <1>1, <1>5, <1>6, <1>8, <1>9 DEF Tree, t

(* The tables that the kernel runs on are a tree. *)
TreeInv == \E level : Tree(tables, next_free_page, level)

(* malloc moves the bump pointer by a page or not at all. *)
LEMMA MallocBump ==
  ASSUME NEW h, NEW brk, NEW n
  PROVE  Malloc(h, brk, n).brk \in {brk, brk + PAGE_SIZE}
BY DEF Malloc

(* No step of the heap moves the bump pointer down. *)
LEMMA HeapBump ==
  ASSUME Next
  PROVE  next_free_page' \in {next_free_page, next_free_page + PAGE_SIZE}
<1> DEFINE B == {next_free_page, next_free_page + PAGE_SIZE}
<1>1. ASSUME NEW n, MallocCall(n) PROVE next_free_page' \in B
  BY <1>1, MallocBump DEF MallocCall, TakeResult
<1>2. ASSUME NEW c, NEW n, CallocCall(c, n) PROVE next_free_page' \in B
  BY <1>2, MallocBump DEF CallocCall, TakeResult
<1>3. ASSUME NEW p, FreeCall(p) PROVE next_free_page' \in B
  BY <1>3 DEF FreeCall
<1>4. ASSUME NEW p, NEW n, ReallocInPlace(p, n) PROVE next_free_page' \in B
  BY <1>4 DEF ReallocInPlace
<1>5. ASSUME NEW p, NEW n, ReallocMove(p, n) PROVE next_free_page' \in B
  BY <1>5, MallocBump DEF ReallocMove
<1> HIDE DEF B
<1>6. next_free_page' \in B
  BY <1>1, <1>2, <1>3, <1>4, <1>5 DEF Next, ReallocCall
<1> QED
  BY <1>6 DEF B

(* The virtual pages of the model. *)
LEMMA PagesTyped ==
  ASSUME NEW v \in Pages
  PROVE  v \in VirtualPage /\ v[3] \in Indices
<1>1. v \in Indices \X Indices \X Indices \X Indices /\ Indices \subseteq Nat
  BY PagesAssumption
<1> QED
  BY <1>1 DEF VirtualPage

(* What mmu_map_page does to a tree. *)
LEMMA MapStep ==
  ASSUME TreeInv, NEW phys \in Frames, NEW v \in Pages, NEW present \in BOOLEAN,
         mmu_map_page(phys, v, present)
  PROVE  /\ TreeInv'
         /\ \A w \in Pages \ {v} : Shown(tables', w) = Shown(tables, w)
         /\ Shown(tables', v) = IF v[1] = 0 /\ v[2] < 2 THEN Shown(tables, v)
                                ELSE IF present THEN <<phys, FALSE>> ELSE <<>>
<1> DEFINE m0 == Memory(tables, next_free_page)
           m == Map(m0, phys, v, present)
<1>1. PICK level : Tree(m0.tables, m0.brk, level)
  BY DEF TreeInv, Memory
<1>2. m0.tables = tables /\ m0.brk = next_free_page
  BY DEF Memory
<1>3. v \in VirtualPage /\ v[3] \in Indices /\ \A w \in Pages : w \in VirtualPage
  BY PagesTyped
<1>4. IF MappedByBootLoader(v) THEN tables' = m0.tables /\ next_free_page' = m0.brk
      ELSE tables' = m.tables /\ next_free_page' = m.brk
  BY DEF mmu_map_page
<1> HIDE DEF m0
<1>5. CASE MappedByBootLoader(v)
  <2>1. v[1] = 0 /\ v[2] < 2
    BY <1>5 DEF MappedByBootLoader
  <2>2. tables' = tables /\ next_free_page' = next_free_page
    BY <1>2, <1>4, <1>5
  <2> QED
    BY <2>1, <2>2 DEF TreeInv
<1>6. CASE ~MappedByBootLoader(v)
  <2>1. tables' = m.tables /\ next_free_page' = m.brk
    BY <1>4, <1>6
  <2>2. Mapped(m0, m, phys, v, present)
    BY <1>1, <1>3, MapShows
  <2> HIDE DEF m
  <2> QED
    BY <1>2, <1>3, <2>1, <2>2 DEF TreeInv, Mapped
<1> QED
  BY <1>5, <1>6

(* mmu_unmap_page walks from a page that is no table and finds nothing. *)
LEMMA UnmapIdle ==
  ASSUME TreeInv, NEW v
  PROVE  Unmap(tables, v) = tables
<1>1. PICK level : Tree(tables, next_free_page, level)
  BY DEF TreeInv
<1>2. <<LOW_PAGE, v[1]>> \notin DOMAIN tables
  BY <1>1 DEF Tree, Levels, EntryInTree
<1>3. EntryOf(tables, LOW_PAGE, v[1]) = Cleared /\ ~Cleared.present
  BY <1>2 DEF EntryOf, Cleared, Entry
<1> QED
  BY <1>3 DEF Unmap, DirectoryEntry

(* Every step keeps the tables a tree. *)
LEMMA NextTreeInv ==
  ASSUME TreeInv, [MemoryNext]_memoryVars
  PROVE  TreeInv'
<1>1. PICK level : Tree(tables, next_free_page, level)
  BY DEF TreeInv
<1>2. next_free_page \in Nat /\ PAGE_SIZE \in Nat
  BY <1>1, SizesAssumption DEF Tree
<1>3. ASSUME tables' = tables, next_free_page' \in {next_free_page, next_free_page + PAGE_SIZE}
      PROVE  TreeInv'
  <2>1. next_free_page' \in Nat /\ next_free_page <= next_free_page'
    BY <1>2, <1>3
  <2>2. Tree(tables, next_free_page', level)
    BY <1>1, <2>1, TreeGrows
  <2> QED
    BY <1>3, <2>2 DEF TreeInv
<1>4. CASE UNCHANGED memoryVars
  BY <1>3, <1>4 DEF memoryVars, vars
<1>5. CASE HeapStep
  BY <1>3, <1>5, HeapBump DEF HeapStep
<1>6. CASE mmu_alloc_page
  BY <1>3, <1>6 DEF mmu_alloc_page
<1>7. ASSUME NEW v \in Pages, mmu_unmap_page(v) PROVE TreeInv'
  BY <1>3, <1>7, UnmapIdle DEF mmu_unmap_page, vars
<1>8. ASSUME NEW phys \in Frames, NEW v \in Pages, NEW present \in BOOLEAN,
             mmu_map_page(phys, v, present)
      PROVE  TreeInv'
  BY <1>8, MapStep
<1> QED
  BY <1>4, <1>5, <1>6, <1>7, <1>8 DEF MemoryNext

(* mmu_map_page maps just the page it is given, as the flags say, and      *)
(* leaves the pages of the boot loader as they are: whichever tables it    *)
(* has to make, whatever entries that are not present earlier calls left   *)
(* behind, and also where a frame is the page of a table.                  *)
THEOREM MapsTheOnePage == MemorySpec => MapsJustThat
<1>1. MemoryInit => TreeInv
  BY BootTree DEF MemoryInit, Init, TreeInv
<1>2. TreeInv /\ [MemoryNext]_memoryVars => TreeInv'
  BY NextTreeInv
<1>3. ASSUME NEW w PROVE Translation(w) = Shown(tables, w)
  BY DEF Translation, mmu_is_mapped, Shown
<1>4. ASSUME NEW w PROVE Translation(w)' = Shown(tables', w)
  BY DEF Translation, mmu_is_mapped, Shown
<1>5. TreeInv /\ [MemoryNext]_memoryVars =>
        (memoryVars' # memoryVars =>
           \A phys \in Frames, v \in Pages, present \in BOOLEAN :
             mmu_map_page(phys, v, present) =>
               /\ \A w \in Pages \ {v} : Translation(w)' = Translation(w)
               /\ Translation(v)' = IF v[1] = 0 /\ v[2] < 2 THEN Translation(v)
                                    ELSE IF present THEN <<phys, FALSE>>
                                    ELSE <<>>)
  BY <1>3, <1>4, MapStep
<1> QED
  BY <1>1, <1>2, <1>5, PTL DEF MemorySpec, MapsJustThat

=============================================================================
