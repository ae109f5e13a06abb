--------------------------- MODULE RamdiskProofs ---------------------------
(***************************************************************************)
(* Proofs about Ramdisk, for every size of the disk, of its blocks and of  *)
(* the table of files.                                                     *)
(***************************************************************************)
EXTENDS Ramdisk, TLAPS, SequenceTheorems, WellFoundedInduction

(* The first byte of a block, without the cut to uint32_t of Base. *)
At(block) == block * BLOCK_SIZE

(* Every file's blocks are in Addresses. *)
BlocksInReach == \A i \in Slots : files[i].block_start <= MaxBlocks

(* No file has had to move and the counter is still on the disk. *)
Sound == ~regrown /\ free_block_start <= TOTAL_BLOCKS

(* What was not written is zero: the blocks not handed out yet, and the    *)
(* files' blocks behind the end of the files.                              *)
RestIsZero ==
  Sound =>
    /\ \A a \in At(free_block_start) .. At(TOTAL_BLOCKS) - 1 : data[a] = 0
    /\ \A i \in Slots :
         \A a \in At(files[i].block_start) + files[i].size
                    .. At(files[i].block_start) + At(files[i].block_count) - 1 : data[a] = 0

(* Every file holds what was written. *)
ContentsHeld ==
  Sound =>
    \A i \in Slots : InUse(i) =>
      /\ files[i].name \in DOMAIN contents
      /\ contents[files[i].name] \in Seq(Int)
      /\ Len(contents[files[i].name]) = files[i].size
      /\ \A k \in 1 .. files[i].size :
           contents[files[i].name][k] = data[At(files[i].block_start) + k - 1]

(* An unused entry has no blocks. *)
FreeIsEmpty == \A i \in Slots : ~InUse(i) => files[i] = EmptyEntry

Inv ==
  /\ TypeOK /\ FreeIsEmpty /\ BlocksInReach /\ TableConsistent
  /\ DisjointUntilRegrown /\ RestIsZero /\ ContentsHeld

-----------------------------------------------------------------------------
(* Blocks and bytes.                                                       *)

(* At is linear. *)
LEMMA AtFacts ==
  ASSUME NEW b \in Nat, NEW c \in Nat
  PROVE  /\ At(b) \in Nat /\ At(0) = 0
         /\ At(b + c) = At(b) + At(c)
         /\ b <= c => At(b) <= At(c)
<1>1. BLOCK_SIZE \in Nat
  BY DiskAssumption
<1>2. At(b) \in Nat /\ At(0) = 0
  BY <1>1 DEF At
<1>3. At(b + c) = At(b) + At(c)
  BY <1>1 DEF At
<1>4. ASSUME b <= c PROVE At(b) <= At(c)
  <2>1. PICK d \in Nat : c = b + d
    <3>1. c - b \in Nat /\ c = b + (c - b)
      BY <1>4
    <3> QED
      BY <3>1
  <2>2. c * BLOCK_SIZE = b * BLOCK_SIZE + d * BLOCK_SIZE /\ d * BLOCK_SIZE \in Nat
    BY <1>1, <2>1
  <2> QED
    BY <1>1, <2>2 DEF At
<1> QED
  BY <1>2, <1>3, <1>4

(* The byte addresses. *)
LEMMA Reach ==
  /\ At(MaxBlocks + TOTAL_BLOCKS) \in Nat
  /\ Addresses = 0 .. At(MaxBlocks + TOTAL_BLOCKS) - 1
  /\ At(MaxBlocks + TOTAL_BLOCKS) < WIDTH32
  /\ At(MaxBlocks + TOTAL_BLOCKS) = At(MaxBlocks) + At(TOTAL_BLOCKS)
<1>1. MaxBlocks \in Nat /\ TOTAL_BLOCKS \in Nat /\ MaxBlocks + TOTAL_BLOCKS \in Nat
  BY DiskAssumption
<1>2. At(MaxBlocks + TOTAL_BLOCKS) \in Nat
  BY <1>1, AtFacts
<1>3. At(MaxBlocks + TOTAL_BLOCKS) = At(MaxBlocks) + At(TOTAL_BLOCKS)
  BY <1>1, AtFacts
<1> QED
  BY <1>2, <1>3, DiskAssumption DEF At, Addresses

(* The cut to uint32_t does not bite on the disk. *)
LEMMA BaseIsAt ==
  ASSUME NEW file \in Entry, file.block_start <= MaxBlocks
  PROVE  Base(file) = At(file.block_start) /\ At(file.block_start) \in Nat
         /\ At(file.block_start) <= At(MaxBlocks) /\ At(MaxBlocks) \in Nat
<1>1. file.block_start \in Nat /\ MaxBlocks \in Nat /\ TOTAL_BLOCKS \in Nat /\ WIDTH32 \in Nat
  BY DiskAssumption DEF Entry
<1>2. /\ At(file.block_start) \in Nat /\ At(file.block_start) <= At(MaxBlocks)
      /\ At(MaxBlocks) \in Nat /\ At(TOTAL_BLOCKS) \in Nat
  BY <1>1, AtFacts
<1>3. At(file.block_start) < WIDTH32
  BY <1>1, <1>2, Reach
<1>4. \A w \in Nat, m \in Nat : m < w => m % w = m
  OBVIOUS
<1>5. At(file.block_start) % WIDTH32 = At(file.block_start)
  BY <1>1, <1>2, <1>3, <1>4
<1> QED
  BY <1>2, <1>5 DEF Base, At

(* required_blocks covers the bytes up to the end of the write. *)
LEMMA BlocksForCovers ==
  ASSUME NEW n \in Nat, n <= (WIDTH32 - 1) * BLOCK_SIZE
  PROVE  BlocksFor(n) \in Nat /\ n <= At(BlocksFor(n))
<1> DEFINE z == BLOCK_SIZE
           m == n + z - 1
           q == m \div z
           r == m % z
<1>1. z \in Nat /\ z > 0 /\ WIDTH32 \in Nat /\ m \in Nat
  BY DiskAssumption
<1>2. m = z * q + r /\ r \in 0 .. z - 1 /\ q \in Nat
  <2>1. \A w \in Nat, l \in Nat :
          w > 0 => l = w * (l \div w) + (l % w) /\ l % w \in 0 .. w - 1 /\ l \div w \in Nat
    OBVIOUS
  <2> HIDE DEF m, z
  <2> QED
    BY <1>1, <2>1
<1>3. BlocksFor(n) = q % WIDTH32
  BY DEF BlocksFor
<1>4. m = n + z - 1
  OBVIOUS
<1>5. n <= (WIDTH32 - 1) * z
  OBVIOUS
<1> HIDE DEF z, m, q, r
<1>6. q < WIDTH32
  <2> SUFFICES ASSUME q >= WIDTH32 PROVE FALSE
    BY <1>1, <1>2
  <2>1. z * q >= z * WIDTH32
    BY <1>1, <1>2
  <2>2. (WIDTH32 - 1) * z = z * WIDTH32 - z /\ z * WIDTH32 \in Nat
    BY <1>1
  <2>3. z * q \in Nat
    BY <1>1, <1>2
  <2> QED
    BY <1>1, <1>2, <1>4, <1>5, <2>1, <2>2, <2>3
<1>7. q % WIDTH32 = q
  BY <1>1, <1>2, <1>6
<1>8. n <= z * q /\ z * q = q * z
  BY <1>1, <1>2, <1>4
<1> QED
  BY <1>2, <1>3, <1>7, <1>8 DEF At, z

(* The first entry that the loops of find_file_by_name and find_free_file  *)
(* stop at.                                                                *)
LEMMA FirstEntry ==
  ASSUME NEW S \in SUBSET Slots, S # {}
  PROVE  Min(S) \in S
<1>1. S \subseteq Nat
  BY DEF Slots
<1>2. PICK k \in S : \A j \in S : <<j, k>> \notin OpToRel(<, Nat)
  BY <1>1, NatLessThanWellFounded, WFMin, Zenon
<1>3. \A j, l \in Nat : <<j, l>> \in OpToRel(<, Nat) <=> j < l
  BY DEF OpToRel
<1>4. \A j \in S : ~(j < k)
  BY <1>1, <1>2, <1>3, Zenon
<1>5. \A j \in S : k <= j
  BY <1>1, <1>4
<1> QED
  BY <1>2, <1>5 DEF Min

-----------------------------------------------------------------------------
(* Sums.                                                                   *)

(* g[k] is the sum of the first k of the n numbers c. *)
Sums(n, c, g) ==
  /\ g \in [0 .. n -> Int]
  /\ g[0] = 0
  /\ \A k \in 1 .. n : g[k] = g[k - 1] + c[k]

(* A set of natural numbers that misses one misses a least one. *)
LEMMA LeastMissing ==
  ASSUME NEW T \in SUBSET Nat, NEW m \in Nat, m \notin T
  PROVE  \E n \in Nat : n \notin T /\ \A k \in Nat : k < n => k \in T
<1> DEFINE S == Nat \ T
<1>1. S \subseteq Nat /\ S # {}
  OBVIOUS
<1>2. PICK n \in S : \A j \in S : <<j, n>> \notin OpToRel(<, Nat)
  BY <1>1, NatLessThanWellFounded, WFMin, Zenon
<1>3. \A k \in Nat : k < n => k \in T
  BY <1>2 DEF OpToRel
<1> QED
  BY <1>2, <1>3

(* The partial sums exist. *)
LEMMA SumsExist ==
  ASSUME NEW N \in Nat, NEW c \in [1 .. N -> Nat]
  PROVE  \E g : Sums(N, c, g)
<1> DEFINE T == {n \in Nat : n <= N => \E g : Sums(n, c, g)}
<1> SUFFICES ASSUME N \notin T PROVE FALSE
  OBVIOUS
<1>1. PICK n \in Nat : n \notin T /\ \A k \in Nat : k < n => k \in T
  BY LeastMissing
<1>2. n <= N /\ ~\E g : Sums(n, c, g)
  BY <1>1
<1>3. n # 0
  <2>1. Sums(0, c, [k \in 0 .. 0 |-> 0])
    BY DEF Sums
  <2> QED
    BY <1>2, <2>1
<1>4. PICK g : Sums(n - 1, c, g)
  BY <1>1, <1>2, <1>3
<1> DEFINE h == [k \in 0 .. n |-> IF k = n THEN g[n - 1] + c[n] ELSE g[k]]
<1>5. Sums(n, c, h)
  <2>1. g \in [0 .. n - 1 -> Int] /\ g[0] = 0 /\ \A k \in 1 .. n - 1 : g[k] = g[k - 1] + c[k]
    BY <1>4 DEF Sums
  <2>2. c[n] \in Nat /\ g[n - 1] \in Int
    BY <1>2, <1>3, <2>1
  <2>3. h \in [0 .. n -> Int] /\ h[0] = 0
    BY <1>3, <2>1, <2>2
  <2>4. \A k \in 1 .. n : h[k] = h[k - 1] + c[k]
    BY <1>3, <2>1, <2>2
  <2> HIDE DEF h
  <2> QED
    BY <2>3, <2>4 DEF Sums
<1> QED
  BY <1>2, <1>5

(* Of n numbers, only the i-th differs. *)
SameBut(n, c, d, i) == \A k \in 1 .. n : k # i => d[k] = c[k]

(* The sum of all n numbers follows the i-th. *)
SumFollows(n, c, d, g, h, i) == h[n] = g[n] - c[i] + d[i]

(* Changing one number changes the sum by the difference. *)
LEMMA SumChanges ==
  ASSUME NEW N \in Nat, NEW c \in [1 .. N -> Nat], NEW d \in [1 .. N -> Nat],
         NEW g, NEW h, NEW i \in 1 .. N,
         Sums(N, c, g), Sums(N, d, h), SameBut(N, c, d, i)
  PROVE  SumFollows(N, c, d, g, h, i)
<1> DEFINE T == {n \in Nat : n <= N => h[n] = IF n < i THEN g[n] ELSE g[n] - c[i] + d[i]}
<1>1. N \in T
  <2> SUFFICES ASSUME N \notin T PROVE FALSE
    OBVIOUS
  <2>1. PICK n \in Nat : n \notin T /\ \A k \in Nat : k < n => k \in T
    BY LeastMissing
  <2>2. n <= N /\ h[n] # IF n < i THEN g[n] ELSE g[n] - c[i] + d[i]
    BY <2>1
  <2> HIDE DEF T
  <2>3. n # 0 /\ n \in 1 .. N /\ n - 1 \in 0 .. N /\ n \in 0 .. N
    <3>1. n # 0
      BY <2>2 DEF Sums
    <3> QED
      BY <2>2, <3>1
  <2>4. h[n - 1] = IF n - 1 < i THEN g[n - 1] ELSE g[n - 1] - c[i] + d[i]
    BY <2>1, <2>2, <2>3 DEF T
  <2>5. h[n] = h[n - 1] + d[n] /\ g[n] = g[n - 1] + c[n]
    BY <2>2, <2>3 DEF Sums
  <2>6. /\ g[n] \in Int /\ g[n - 1] \in Int /\ h[n] \in Int /\ h[n - 1] \in Int /\ c[n] \in Nat /\ d[n] \in Nat
        /\ c[i] \in Nat /\ d[i] \in Nat
    BY <2>3 DEF Sums
  <2>7. CASE n < i
    <3>1. d[n] = c[n] /\ n - 1 < i /\ n # i
      BY <2>3, <2>7 DEF SameBut
    <3> QED
      BY <2>2, <2>4, <2>5, <2>6, <2>7, <3>1
  <2>8. CASE n = i
    <3>1. n - 1 < i
      BY <2>8
    <3> QED
      BY <2>2, <2>4, <2>5, <2>6, <2>8, <3>1, SMTT(30)
  <2>9. CASE n > i
    <3>1. d[n] = c[n] /\ ~(n - 1 < i) /\ ~(n < i)
      BY <2>3, <2>9 DEF SameBut
    <3>2. h[n - 1] = g[n - 1] - c[i] + d[i] /\ h[n] # g[n] - c[i] + d[i]
      BY <2>2, <2>4, <3>1
    <3>3. \A u, v, w, x \in Int : (u - v + w) + x = (u + x) - v + w
      OBVIOUS
    <3>4. h[n] = (g[n - 1] - c[i] + d[i]) + c[n]
      BY <2>5, <3>1, <3>2
    <3>5. h[n] = (g[n - 1] + c[n]) - c[i] + d[i]
      BY <2>6, <3>3, <3>4, SMTT(30)
    <3> QED
      BY <2>5, <3>2, <3>5
  <2> QED
    BY <2>3, <2>7, <2>8, <2>9
<1>2. ~(N < i)
  OBVIOUS
<1> QED
  BY <1>1, <1>2 DEF SumFollows

(* The sum of natural numbers is at least each of them. *)
LEMMA SumCovers ==
  ASSUME NEW N \in Nat, NEW c \in [1 .. N -> Nat], NEW g, Sums(N, c, g)
  PROVE  g[N] \in Nat /\ \A i \in 1 .. N : c[i] <= g[N]
<1> DEFINE T == {n \in Nat : n <= N => g[n] >= 0 /\ \A i \in 1 .. n : c[i] <= g[n]}
<1>1. N \in T
  <2> SUFFICES ASSUME N \notin T PROVE FALSE
    OBVIOUS
  <2>1. PICK n \in Nat : n \notin T /\ \A k \in Nat : k < n => k \in T
    BY LeastMissing
  <2>2. n <= N /\ ~(g[n] >= 0 /\ \A i \in 1 .. n : c[i] <= g[n])
    BY <2>1
  <2>3. n # 0
    BY <2>2 DEF Sums
  <2>4. g[n - 1] >= 0 /\ \A i \in 1 .. n - 1 : c[i] <= g[n - 1]
    BY <2>1, <2>2, <2>3
  <2>5. g[n] = g[n - 1] + c[n] /\ g[n - 1] \in Int /\ c[n] \in Nat
    BY <2>2, <2>3 DEF Sums
  <2>6. \A i \in 1 .. n : c[i] \in Nat /\ (i = n \/ i \in 1 .. n - 1)
    BY <2>2
  <2> QED
    BY <2>2, <2>3, <2>4, <2>5, <2>6
<1>2. g[N] \in Int
  BY DEF Sums
<1> QED
  BY <1>1, <1>2

(* The blocks of the files. *)
Counts == [i \in 1 .. MAX_FILES |-> files[i].block_count]

(* BlocksOfFirst computes the partial sums. *)
LEMMA BlocksAreSums ==
  ASSUME files \in [Slots -> Entry]
  PROVE  Counts \in [1 .. MAX_FILES -> Nat] /\ Sums(MAX_FILES, Counts, BlocksOfFirst)
<1>1. MAX_FILES \in Nat
  BY DiskAssumption
<1>2. Counts \in [1 .. MAX_FILES -> Nat]
  BY DEF Counts, Slots, Entry
<1>3. PICK g : Sums(MAX_FILES, Counts, g)
  BY <1>1, <1>2, SumsExist
<1> DEFINE F(f) == [k \in 0 .. MAX_FILES |-> IF k = 0 THEN 0 ELSE f[k - 1] + files[k].block_count]
<1>4. g = F(g)
  <2>1. /\ g \in [0 .. MAX_FILES -> Int] /\ g[0] = 0
        /\ \A k \in 1 .. MAX_FILES : g[k] = g[k - 1] + files[k].block_count
    BY <1>3 DEF Sums, Counts
  <2>2. \A k \in 0 .. MAX_FILES : k = 0 \/ k \in 1 .. MAX_FILES
    BY <1>1
  <2> QED
    BY <1>1, <2>1, <2>2
<1>5. BlocksOfFirst = F(BlocksOfFirst)
  BY <1>4 DEF BlocksOfFirst
<1>6. ASSUME NEW k \in 1 .. MAX_FILES
      PROVE  BlocksOfFirst[k] = BlocksOfFirst[k - 1] + files[k].block_count
  BY <1>1, <1>5
<1>7. BlocksOfFirst[0] = 0
  BY <1>1, <1>5
<1>8. \A k \in 0 .. MAX_FILES : BlocksOfFirst[k] \in Int
  <2> DEFINE T == {n \in Nat : n <= MAX_FILES => BlocksOfFirst[n] \in Int}
  <2> SUFFICES ASSUME NEW m \in 0 .. MAX_FILES, m \notin T PROVE FALSE
    BY <1>1
  <2>1. PICK n \in Nat : n \notin T /\ \A k \in Nat : k < n => k \in T
    <3>1. T \in SUBSET Nat /\ m \in Nat
      BY <1>1
    <3> HIDE DEF T
    <3> QED
      BY <3>1, LeastMissing
  <2>2. n <= MAX_FILES /\ BlocksOfFirst[n] \notin Int
    BY <2>1
  <2>3. n # 0
    BY <1>7, <2>2
  <2>4. BlocksOfFirst[n - 1] \in Int /\ files[n].block_count \in Int
    BY <1>1, <1>2, <2>1, <2>2, <2>3 DEF Counts
  <2> QED
    BY <1>1, <1>6, <2>2, <2>3, <2>4
<1>9. BlocksOfFirst \in [0 .. MAX_FILES -> Int]
  BY <1>5, <1>8
<1> QED
  BY <1>2, <1>6, <1>7, <1>9 DEF Sums, Counts

-----------------------------------------------------------------------------
(* The table.                                                              *)

(* No file has more blocks than the disk. *)
LEMMA CountsBounded ==
  ASSUME TypeOK, TableConsistent
  PROVE  \A i \in Slots : files[i].block_count \in 0 .. TOTAL_BLOCKS - free_blocks
<1>1. Counts \in [1 .. MAX_FILES -> Nat] /\ Sums(MAX_FILES, Counts, BlocksOfFirst)
  BY BlocksAreSums DEF TypeOK
<1>2. \A i \in 1 .. MAX_FILES : Counts[i] <= BlocksOfFirst[MAX_FILES] /\ Counts[i] \in Nat
  BY <1>1, SumCovers, DiskAssumption
<1>3. BlocksOfFirst[MAX_FILES] \in Nat
  BY <1>1, SumCovers, DiskAssumption
<1>4. BlocksOfFirst[MAX_FILES] = TOTAL_BLOCKS - free_blocks
  BY <1>3, DiskAssumption DEF TypeOK, TableConsistent, BlocksAccounted
<1>5. \A i \in Slots : Counts[i] = files[i].block_count /\ i \in 1 .. MAX_FILES
  BY DEF Counts, Slots
<1> QED
  BY <1>2, <1>4, <1>5

(* What the entries and the budget satisfy. *)
TableInv == 
  /\ files \in [Slots -> Entry] /\ free_blocks \in 0 .. TOTAL_BLOCKS
  /\ FreeIsEmpty /\ BlocksInReach /\ TableConsistent

(* One entry changes, and the budget by the difference. *)
LEMMA EntryChanges ==
  ASSUME TableInv, NEW i \in Slots, NEW e \in Entry,
         files' = [files EXCEPT ![i] = e],
         e.name = NONE => e = EmptyEntry,
         e.name # NONE => \A j \in Slots : j # i => files[j].name # e.name,
         e.size <= e.block_count * BLOCK_SIZE, e.block_start <= MaxBlocks,
         free_blocks' \in Nat,
         free_blocks' = free_blocks + files[i].block_count - e.block_count
  PROVE  TableInv'
<1>1. /\ files' \in [Slots -> Entry] /\ files'[i] = e
      /\ \A j \in Slots : j # i => files'[j] = files[j]
  BY DEF TableInv
<1>2. FreeIsEmpty'
  BY <1>1 DEF TableInv, FreeIsEmpty, InUse
<1>3. BlocksInReach'
  BY <1>1 DEF TableInv, BlocksInReach
<1>4. NamesUnique'
  <2> SUFFICES ASSUME NEW j \in Slots, NEW k \in Slots, files'[j].name # NONE,
                      files'[j].name = files'[k].name, j # k
               PROVE  FALSE
    BY DEF NamesUnique, InUse
  <2>1. CASE j # i /\ k # i
    BY <1>1, <2>1 DEF TableInv, TableConsistent, NamesUnique, InUse
  <2>2. CASE j = i
    BY <1>1, <2>2
  <2>3. CASE k = i
    BY <1>1, <2>3
  <2> QED
    BY <2>1, <2>2, <2>3
<1>5. SizeCovered'
  BY <1>1 DEF TableInv, TableConsistent, SizeCovered
<1>6. BlocksOfFirst'[MAX_FILES] = BlocksOfFirst[MAX_FILES] - files[i].block_count + e.block_count
      /\ BlocksOfFirst'[MAX_FILES] \in Nat /\ BlocksOfFirst[MAX_FILES] \in Nat
  <2>1. Counts \in [1 .. MAX_FILES -> Nat] /\ Sums(MAX_FILES, Counts, BlocksOfFirst)
    BY BlocksAreSums DEF TableInv
  <2>2. (files \in [Slots -> Entry] => Counts \in [1 .. MAX_FILES -> Nat]
                                       /\ Sums(MAX_FILES, Counts, BlocksOfFirst))'
    BY BlocksAreSums, PTL
  <2>3. Counts' \in [1 .. MAX_FILES -> Nat] /\ Sums(MAX_FILES, Counts', BlocksOfFirst')
    BY <1>1, <2>2 DEF Sums
  <2>4. /\ Counts[i] = files[i].block_count /\ Counts'[i] = e.block_count /\ i \in 1 .. MAX_FILES
        /\ SameBut(MAX_FILES, Counts, Counts', i)
    BY <1>1 DEF Counts, Slots, SameBut
  <2>5. MAX_FILES \in Nat
    BY DiskAssumption
  <2>6. BlocksOfFirst'[MAX_FILES] \in Nat /\ BlocksOfFirst[MAX_FILES] \in Nat
    BY <2>1, <2>3, <2>5, SumCovers
  <2>7. BlocksOfFirst'[MAX_FILES] = BlocksOfFirst[MAX_FILES] - Counts[i] + Counts'[i]
    <3>1. SumFollows(MAX_FILES, Counts, Counts', BlocksOfFirst, BlocksOfFirst', i)
      BY <2>1, <2>3, <2>4, <2>5, SumChanges
    <3> QED
      BY <3>1 DEF SumFollows
  <2> QED
    BY <2>4, <2>6, <2>7
<1>7. files[i].block_count \in Nat /\ e.block_count \in Nat
  BY DEF TableInv, Entry
<1>8. BlocksAccounted' /\ free_blocks' \in 0 .. TOTAL_BLOCKS
  <2>1. BlocksOfFirst[MAX_FILES] + free_blocks = TOTAL_BLOCKS /\ free_blocks \in Int
        /\ TOTAL_BLOCKS \in Nat
    BY DiskAssumption DEF TableInv, TableConsistent, BlocksAccounted
  <2>2. BlocksOfFirst'[MAX_FILES] + free_blocks' = TOTAL_BLOCKS
    BY <1>6, <1>7, <2>1
  <2> QED
    BY <1>6, <2>1, <2>2 DEF BlocksAccounted
<1> QED
  BY <1>1, <1>2, <1>3, <1>4, <1>5, <1>8 DEF TableInv, TableConsistent

(* Nothing of the table changes. *)
LEMMA TableUnchanged ==
  ASSUME TableInv, files' = files, free_blocks' = free_blocks
  PROVE  TableInv'
<1>1. BlocksOfFirst' = BlocksOfFirst
  BY DEF BlocksOfFirst
<1> QED
  BY <1>1 DEF TableInv, FreeIsEmpty, InUse, BlocksInReach, TableConsistent, NamesUnique,
              SizeCovered, BlocksAccounted

(* The disk that ramdisk_create sets up. *)
FreshDisk ==
  /\ files = [i \in Slots |-> EmptyEntry]
  /\ free_block_start = 0 /\ free_blocks = TOTAL_BLOCKS
  /\ data = Cleared
  /\ contents = [n \in {} |-> <<>>]
  /\ regrown = FALSE

(* The entry of a file that has no blocks. *)
LEMMA EntryTypes ==
  /\ EmptyEntry \in Entry /\ EmptyEntry.name = NONE
  /\ EmptyEntry.size = 0 /\ EmptyEntry.block_start = 0 /\ EmptyEntry.block_count = 0
  /\ \A n \in Names : LET e == [EmptyEntry EXCEPT !.name = n]
                      IN e \in Entry /\ e.name = n /\ e.size = 0 /\ e.block_start = 0
                         /\ e.block_count = 0
BY DEF EmptyEntry, Entry

(* A new disk has an empty table and a clear array. *)
LEMMA FreshDiskInv ==
  ASSUME FreshDisk, mounted \in BOOLEAN
  PROVE  Inv
<1>1. /\ files \in [Slots -> Entry]
      /\ \A i \in Slots : files[i] = EmptyEntry /\ ~InUse(i) /\ files[i].name = NONE
                          /\ files[i].size = 0 /\ files[i].block_start = 0
                          /\ files[i].block_count = 0
  BY EntryTypes DEF FreshDisk, InUse
<1>2. TOTAL_BLOCKS \in Nat /\ MaxBlocks \in Nat /\ BLOCK_SIZE \in Nat /\ MAX_FILES \in Nat
  BY DiskAssumption
<1>3. \A a \in Addresses : data[a] = IF a < TOTAL_BLOCKS * BLOCK_SIZE THEN 0 ELSE JUNK
  BY DEF FreshDisk, Cleared
<1>4. regrown \in BOOLEAN /\ DOMAIN contents \subseteq Names
  BY DEF FreshDisk
<1>5. TypeOK
  BY <1>1, <1>2, <1>3, <1>4 DEF TypeOK, FreshDisk
<1>6. BlocksAccounted
  <2> DEFINE T == {n \in Nat : n <= MAX_FILES => BlocksOfFirst[n] = 0}
  <2>1. Sums(MAX_FILES, Counts, BlocksOfFirst)
    BY <1>1, BlocksAreSums
  <2>2. MAX_FILES \in T
    <3> SUFFICES ASSUME MAX_FILES \notin T PROVE FALSE
      OBVIOUS
    <3>1. PICK n \in Nat : n \notin T /\ \A k \in Nat : k < n => k \in T
      <4>1. T \in SUBSET Nat
        OBVIOUS
      <4> HIDE DEF T
      <4> QED
        BY <1>2, <4>1, LeastMissing
    <3>2. n <= MAX_FILES /\ BlocksOfFirst[n] # 0
      BY <3>1
    <3>3. n # 0 /\ n \in 1 .. MAX_FILES
      <4>1. n # 0
        BY <2>1, <3>2 DEF Sums
      <4> QED
        BY <1>2, <3>2, <4>1
    <3>4. BlocksOfFirst[n - 1] = 0 /\ BlocksOfFirst[n] = BlocksOfFirst[n - 1] + Counts[n]
      BY <1>2, <2>1, <3>1, <3>2, <3>3 DEF Sums
    <3>5. Counts[n] = 0
      BY <1>1, <3>3 DEF Counts, Slots
    <3> QED
      BY <3>2, <3>4, <3>5
  <2> QED
    BY <1>2, <2>2 DEF BlocksAccounted, FreshDisk
<1>7. TableConsistent
  <2>1. NamesUnique
    BY <1>1 DEF NamesUnique
  <2>2. SizeCovered
    BY <1>1, <1>2 DEF SizeCovered
  <2> QED
    BY <1>6, <2>1, <2>2 DEF TableConsistent
<1>8. FreeIsEmpty /\ BlocksInReach
  BY <1>1, <1>2 DEF FreeIsEmpty, BlocksInReach
<1>9. DisjointUntilRegrown
  <2>1. Disjoint
    BY <1>1 DEF Disjoint
  <2>2. \A i \in Slots : files[i].block_start + files[i].block_count <= free_block_start
    BY <1>1 DEF FreshDisk
  <2> QED
    BY <2>1, <2>2 DEF DisjointUntilRegrown
<1>10. RestIsZero
  <2>1. ASSUME NEW a \in At(0) .. At(TOTAL_BLOCKS) - 1 PROVE data[a] = 0
    <3>1. At(0) = 0 /\ At(TOTAL_BLOCKS) \in Nat /\ At(MaxBlocks) \in Nat
      BY <1>2, AtFacts
    <3>2. a \in Addresses /\ a < At(TOTAL_BLOCKS)
      BY <3>1, Reach
    <3> QED
      BY <1>3, <3>2 DEF At
  <2>2. ASSUME NEW i \in Slots, NEW a \in At(files[i].block_start) + files[i].size
                    .. At(files[i].block_start) + At(files[i].block_count) - 1
        PROVE  FALSE
    <3>1. At(0) = 0
      BY AtFacts
    <3> QED
      BY <1>1, <3>1, <2>2
  <2> QED
    BY <2>1, <2>2 DEF RestIsZero, FreshDisk
<1>11. ContentsHeld
  BY <1>1 DEF ContentsHeld
<1> QED
  BY <1>5, <1>7, <1>8, <1>9, <1>10, <1>11 DEF Inv

(* Init and ramdisk_destroy. *)
LEMMA InitInv == Init => Inv
<1> SUFFICES ASSUME Init PROVE Inv
  OBVIOUS
<1>1. FreshDisk /\ mounted \in BOOLEAN
  BY DEF Init, FreshDisk
<1> QED
  BY <1>1, FreshDiskInv

(* ramdisk_destroy leaves the state of a disk that is not there. *)
LEMMA DestroyStep == Destroy => Inv'
<1> SUFFICES ASSUME Destroy PROVE Inv'
  OBVIOUS
<1>1. FreshDisk' /\ mounted' \in BOOLEAN
  BY DEF Destroy, FreshDisk, Cleared, EmptyEntry, Slots, Addresses
<1>2. (FreshDisk /\ mounted \in BOOLEAN => Inv)'
  BY FreshDiskInv, PTL
<1> QED
  BY <1>1, <1>2

-----------------------------------------------------------------------------
(* Creating and deleting files.                                            *)

(* The numbers of an entry, and the bytes of its blocks. *)
LEMMA Extent ==
  ASSUME Inv, NEW i \in Slots
  PROVE  /\ files[i] \in Entry /\ files[i].block_start \in Nat /\ files[i].block_count \in Nat
         /\ files[i].size \in Nat
         /\ At(files[i].block_start) \in Nat /\ At(files[i].block_count) \in Nat
         /\ files[i].size <= At(files[i].block_count)
         /\ At(files[i].block_start) <= At(MaxBlocks)
         /\ At(files[i].block_start) + At(files[i].block_count)
              <= At(MaxBlocks + TOTAL_BLOCKS)
         /\ Base(files[i]) = At(files[i].block_start)
<1>1. /\ files[i] \in Entry /\ files[i].block_start \in Nat /\ files[i].block_count \in Nat
      /\ files[i].size \in Nat /\ files[i].block_start <= MaxBlocks
      /\ MaxBlocks \in Nat /\ TOTAL_BLOCKS \in Nat /\ free_blocks \in Nat
  BY DiskAssumption DEF Inv, TypeOK, Entry, BlocksInReach
<1>2. files[i].block_count <= TOTAL_BLOCKS
  BY <1>1, CountsBounded DEF Inv
<1>3. /\ At(files[i].block_start) \in Nat /\ At(files[i].block_count) \in Nat
      /\ At(files[i].block_start) <= At(MaxBlocks)
      /\ At(files[i].block_count) <= At(TOTAL_BLOCKS)
      /\ At(MaxBlocks) \in Nat /\ At(TOTAL_BLOCKS) \in Nat
  BY <1>1, <1>2, AtFacts
<1>4. files[i].size <= At(files[i].block_count)
  BY DEF Inv, TableConsistent, SizeCovered, At
<1>5. Base(files[i]) = At(files[i].block_start)
  BY <1>1, BaseIsAt
<1> QED
  BY <1>1, <1>3, <1>4, <1>5, Reach

(* The invariant is the table's and the data's. *)
LEMMA InvParts ==
  ASSUME TableInv, mounted \in BOOLEAN, free_block_start \in 0 .. MaxBlocks,
         \A a \in Addresses : data[a] \in Bytes \cup {0, JUNK},
         DOMAIN contents \subseteq Names, regrown \in BOOLEAN,
         DisjointUntilRegrown, RestIsZero, ContentsHeld
  PROVE  Inv
BY DEF TableInv, Inv, TypeOK

(* The part of the invariant that the file table needs. *)
LEMMA PartsOfInv ==
  ASSUME Inv
  PROVE  TableInv
BY DEF TableInv, Inv, TypeOK

(* An entry without blocks is apart from all others. *)
LEMMA EmptyFile ==
  ASSUME Inv, NEW i \in Slots, NEW e \in Entry, files' = [files EXCEPT ![i] = e],
         e.size = 0, e.block_start = 0, e.block_count = 0,
         free_block_start' = free_block_start, data' = data, regrown' = regrown
  PROVE  DisjointUntilRegrown' /\ RestIsZero'
<1>1. /\ files'[i] = e /\ \A j \in Slots : j # i => files'[j] = files[j]
      /\ free_block_start \in Nat
  BY DEF Inv, TypeOK
<1>2. At(0) = 0
  BY AtFacts
<1>3. DisjointUntilRegrown'
  <2> SUFFICES ASSUME ~regrown
               PROVE  Disjoint' /\ \A j \in Slots : files'[j].block_start + files'[j].block_count
                                                      <= free_block_start'
    BY DEF DisjointUntilRegrown
  <2>1. Disjoint /\ \A j \in Slots : files[j].block_start + files[j].block_count
                                       <= free_block_start
    BY DEF Inv, DisjointUntilRegrown
  <2>2. Disjoint'
    BY <1>1, <2>1 DEF Disjoint
  <2> QED
    BY <1>1, <2>1, <2>2
<1>4. RestIsZero'
  <2> SUFFICES ASSUME Sound
               PROVE  RestIsZero'
    BY DEF RestIsZero, Sound
  <2>1. \A a \in At(free_block_start') .. At(TOTAL_BLOCKS) - 1 : data'[a] = 0
    BY DEF Inv, RestIsZero
  <2>2. ASSUME NEW j \in Slots,
               NEW a \in At(files'[j].block_start) + files'[j].size
                    .. At(files'[j].block_start) + At(files'[j].block_count) - 1
        PROVE  data'[a] = 0
    <3>1. CASE j # i
      BY <1>1, <2>2, <3>1 DEF Inv, RestIsZero
    <3>2. CASE j = i
      BY <1>1, <1>2, <2>2, <3>2
    <3> QED
      BY <3>1, <3>2
  <2> QED
    BY <2>1, <2>2 DEF RestIsZero
<1> QED
  BY <1>3, <1>4

(* ramdisk_create_file *)
LEMMA CreateFileStep ==
  ASSUME Inv, NEW n \in Names, CreateFile(n)
  PROVE  Inv'
<1> DEFINE i == Min(FreeSlots)
           e == [EmptyEntry EXCEPT !.name = n]
<1>1. i \in Slots /\ ~InUse(i)
  <2>1. FreeSlots \in SUBSET Slots /\ FreeSlots # {}
    BY DEF CreateFile, FreeSlots
  <2>2. i \in FreeSlots
    BY <2>1, FirstEntry
  <2> QED
    BY <2>2 DEF FreeSlots
<1>2. /\ files' = [files EXCEPT ![i] = e] /\ Named(n) = {}
      /\ contents' = [m \in DOMAIN contents \cup {n} |-> IF m = n THEN <<>> ELSE contents[m]]
      /\ mounted' = mounted /\ free_block_start' = free_block_start
      /\ free_blocks' = free_blocks /\ data' = data /\ regrown' = regrown
  BY DEF CreateFile
<1>3. e \in Entry /\ e.name = n /\ e.size = 0 /\ e.block_start = 0 /\ e.block_count = 0
  BY EntryTypes
<1> HIDE DEF i, e
<1>4. files[i].block_count = 0 /\ files[i].name = NONE
  BY <1>1, EntryTypes DEF Inv, FreeIsEmpty
<1>5. \A j \in Slots : files[j].name # n
  BY <1>2 DEF Named
<1>6. TableInv'
  <2>1. n # NONE /\ MaxBlocks \in Nat /\ 0 * BLOCK_SIZE = 0 /\ free_blocks \in Nat
    BY DiskAssumption DEF Inv, TypeOK
  <2>2. e.size <= e.block_count * BLOCK_SIZE /\ e.block_start <= MaxBlocks
    BY <1>3, <2>1
  <2>3. free_blocks' \in Nat /\ free_blocks' = free_blocks + files[i].block_count - e.block_count
    BY <1>2, <1>3, <1>4, <2>1
  <2> QED
    BY <1>1, <1>2, <1>3, <1>5, <2>1, <2>2, <2>3, EntryChanges, PartsOfInv
<1>7. DisjointUntilRegrown' /\ RestIsZero'
  BY <1>1, <1>2, <1>3, EmptyFile
<1>8. files'[i] = e /\ \A j \in Slots : j # i => files'[j] = files[j]
  BY <1>1, <1>2 DEF Inv, TypeOK
<1>9. ContentsHeld'
  <2> SUFFICES ASSUME Sound, NEW j \in Slots, files'[j].name # NONE
               PROVE  /\ files'[j].name \in DOMAIN contents'
                      /\ contents'[files'[j].name] \in Seq(Int)
                      /\ Len(contents'[files'[j].name]) = files'[j].size
                      /\ \A k \in 1 .. files'[j].size :
                           contents'[files'[j].name][k] = data'[At(files'[j].block_start) + k - 1]
    BY <1>2 DEF ContentsHeld, Sound, InUse
  <2>1. CASE j = i
    <3>1. contents'[n] = <<>> /\ n \in DOMAIN contents'
      BY <1>2
    <3>2. <<>> \in Seq(Int) /\ Len(<<>>) = 0
      BY EmptySeq
    <3>3. files'[j].name = n /\ files'[j].size = 0 /\ 1 .. 0 = {}
      BY <1>3, <1>8, <2>1
    <3>4. contents'[files'[j].name] = <<>>
      BY <3>1, <3>3
    <3> QED
      BY <3>1, <3>2, <3>3, <3>4, Zenon
  <2>2. CASE j # i
    <3>1. files'[j] = files[j] /\ files[j].name # n
      BY <1>5, <1>8, <2>2
    <3>2. files[j].name \in DOMAIN contents
      BY <3>1 DEF Inv, ContentsHeld, InUse
    <3>3. files[j].name \in DOMAIN contents' /\ contents'[files[j].name] = contents[files[j].name]
      BY <1>2, <3>1, <3>2
    <3> QED
      BY <1>2, <3>1, <3>3 DEF Inv, ContentsHeld, InUse
  <2> QED
    BY <2>1, <2>2
<1>10. DOMAIN contents' \subseteq Names
  BY <1>2 DEF Inv, TypeOK
<1>11. mounted' \in BOOLEAN /\ regrown' \in BOOLEAN
  BY <1>2, Zenon DEF Inv, TypeOK
<1>12. free_block_start' \in 0 .. MaxBlocks /\ \A a \in Addresses : data'[a] \in Bytes \cup {0, JUNK}
  BY <1>2 DEF Inv, TypeOK
<1> QED
  BY <1>6, <1>7, <1>9, <1>10, <1>11, <1>12 DEF TableInv, Inv, TypeOK

(* ramdisk_delete_file *)
LEMMA DeleteFileStep ==
  ASSUME Inv, NEW n \in Names, DeleteFile(n)
  PROVE  Inv'
<1> DEFINE i == Min(Named(n))
<1>1. i \in Slots /\ files[i].name = n
  <2>1. Named(n) \in SUBSET Slots /\ Named(n) # {}
    BY DEF DeleteFile, Named
  <2>2. i \in Named(n)
    BY <2>1, FirstEntry
  <2> QED
    BY <2>2 DEF Named
<1>2. /\ files' = [files EXCEPT ![i] = EmptyEntry]
      /\ contents' = [m \in DOMAIN contents \ {n} |-> contents[m]]
      /\ mounted' = mounted /\ free_block_start' = free_block_start
      /\ free_blocks' = free_blocks + files[i].block_count /\ data' = data /\ regrown' = regrown
  BY DEF DeleteFile
<1> HIDE DEF i
<1>3. TableInv'
  <2>1. MaxBlocks \in Nat /\ 0 * BLOCK_SIZE = 0 /\ free_blocks \in Nat /\ files[i].block_count \in Nat
    BY <1>1, Extent, DiskAssumption DEF Inv, TypeOK
  <2>2. EmptyEntry.size <= EmptyEntry.block_count * BLOCK_SIZE
        /\ EmptyEntry.block_start <= MaxBlocks
    BY <2>1, EntryTypes
  <2>3. free_blocks' \in Nat
        /\ free_blocks' = free_blocks + files[i].block_count - EmptyEntry.block_count
    BY <1>2, <2>1, EntryTypes
  <2> QED
    BY <1>1, <1>2, <2>2, <2>3, EntryTypes, EntryChanges, PartsOfInv
<1>4. DisjointUntilRegrown' /\ RestIsZero'
  BY <1>1, <1>2, EntryTypes, EmptyFile
<1>5. files'[i] = EmptyEntry /\ \A j \in Slots : j # i => files'[j] = files[j]
  BY <1>1, <1>2 DEF Inv, TypeOK
<1>6. ContentsHeld'
  <2> SUFFICES ASSUME Sound, NEW j \in Slots, files'[j].name # NONE
               PROVE  /\ files'[j].name \in DOMAIN contents'
                      /\ contents'[files'[j].name] \in Seq(Int)
                      /\ Len(contents'[files'[j].name]) = files'[j].size
                      /\ \A k \in 1 .. files'[j].size :
                           contents'[files'[j].name][k] = data'[At(files'[j].block_start) + k - 1]
    BY <1>2 DEF ContentsHeld, Sound, InUse
  <2>1. j # i /\ files'[j] = files[j]
    BY <1>5, EntryTypes
  <2>2. files[j].name # n
    BY <1>1, <2>1 DEF Inv, TableConsistent, NamesUnique, InUse
  <2>3. files[j].name \in DOMAIN contents
    BY <2>1 DEF Inv, ContentsHeld, InUse
  <2>4. files[j].name \in DOMAIN contents' /\ contents'[files[j].name] = contents[files[j].name]
    BY <1>2, <2>2, <2>3
  <2> QED
    BY <1>2, <2>1, <2>4 DEF Inv, ContentsHeld, InUse
<1>7. DOMAIN contents' \subseteq Names
  BY <1>2 DEF Inv, TypeOK
<1>8. mounted' \in BOOLEAN /\ regrown' \in BOOLEAN
  BY <1>2, Zenon DEF Inv, TypeOK
<1>9. free_block_start' \in 0 .. MaxBlocks /\ \A a \in Addresses : data'[a] \in Bytes \cup {0, JUNK}
  BY <1>2 DEF Inv, TypeOK
<1> QED
  BY <1>3, <1>4, <1>6, <1>7, <1>8, <1>9 DEF TableInv, Inv, TypeOK

-----------------------------------------------------------------------------
(* Writing.                                                                *)

(* The larger of two numbers. *)
LEMMA MaxOfTwo ==
  ASSUME NEW a \in Nat, NEW b \in Nat
  PROVE  Max({a, b}) \in Nat /\ Max({a, b}) = IF a >= b THEN a ELSE b
<1>1. PICK y \in {a, b} : \A x \in {a, b} : y >= x
  <2>1. CASE a >= b
    BY <2>1
  <2>2. CASE b >= a
    BY <2>2
  <2> QED
    BY <2>1, <2>2
<1>2. Max({a, b}) \in {a, b} /\ \A x \in {a, b} : Max({a, b}) >= x
  BY <1>1 DEF Max
<1> DEFINE m == Max({a, b})
<1>3. m \in {a, b} /\ m >= a /\ m >= b
  BY <1>2
<1> HIDE DEF m
<1> QED
  BY <1>3 DEF m

(* A byte outside of the copied range keeps its value. *)
LEMMA FillBytes ==
  ASSUME NEW d, NEW dest \in Nat, NEW n \in Nat, NEW b, NEW a \in Addresses
  PROVE  Fill(d, dest, n, b)[a] = IF dest <= a /\ a < dest + n THEN b ELSE d[a]
<1>1. a \in Int
  BY Reach
<1>2. a \in dest .. dest + n - 1 <=> dest <= a /\ a < dest + n
  BY <1>1
<1> QED
  BY <1>2 DEF Fill

(* A write into blocks that are zero behind the end of the file, and apart *)
(* from the other files' blocks and from the blocks not handed out.        *)
LEMMA WriteData ==
  ASSUME Inv, Sound, Sound', DisjointUntilRegrown',
         NEW i \in Slots, NEW n \in Names, files[i].name = n,
         NEW e \in Entry, files' = [files EXCEPT ![i] = e], e.name = n,
         e.block_start <= MaxBlocks, e.block_count <= TOTAL_BLOCKS,
         files[i].size <= At(e.block_count),
         NEW offset \in Nat, NEW size \in Nat, NEW b \in Bytes,
         offset + size <= At(e.block_count),
         e.size = NewSize(files[i].size, offset, size),
         data' = Fill(data, At(e.block_start) + offset, size, b),
         contents' = [contents EXCEPT ![n] = Overwrite(@, offset, size, b)],
         free_block_start <= free_block_start', free_block_start' \in Nat,
         \A a \in At(e.block_start) + files[i].size
                    .. At(e.block_start) + At(e.block_count) - 1 : data[a] = 0,
         \A k \in 1 .. files[i].size : contents[n][k] = data[At(e.block_start) + k - 1]
  PROVE  RestIsZero' /\ ContentsHeld'
<1> DEFINE x == At(e.block_start)
           y == At(e.block_count)
           s == files[i].size
           m == e.size
           old == contents[n]
<1>1. /\ e.block_start \in Nat /\ e.block_count \in Nat /\ s \in Nat /\ m \in Nat
      /\ x \in Nat /\ y \in Nat /\ x + y <= At(MaxBlocks + TOTAL_BLOCKS)
      /\ MaxBlocks \in Nat /\ TOTAL_BLOCKS \in Nat /\ free_block_start \in Nat
      /\ At(TOTAL_BLOCKS) \in Nat /\ At(MaxBlocks) \in Nat
  <2>1. /\ e.block_start \in Nat /\ e.block_count \in Nat /\ s \in Nat /\ m \in Nat
        /\ MaxBlocks \in Nat /\ TOTAL_BLOCKS \in Nat /\ free_block_start \in Nat
    BY DiskAssumption DEF Inv, TypeOK, Entry
  <2>2. /\ x \in Nat /\ y \in Nat /\ x <= At(MaxBlocks) /\ y <= At(TOTAL_BLOCKS)
        /\ At(TOTAL_BLOCKS) \in Nat /\ At(MaxBlocks) \in Nat
    BY <2>1, AtFacts
  <2> QED
    BY <2>1, <2>2, Reach, SMTT(30)
<1>2. m = IF s >= offset + size THEN s ELSE offset + size
  BY <1>1, MaxOfTwo DEF NewSize
<1>3. s <= y /\ offset + size <= y
  OBVIOUS
<1>4. /\ files'[i] = e /\ \A j \in Slots : j # i => files'[j] = files[j]
      /\ files' \in [Slots -> Entry]
  BY DEF Inv, TypeOK
<1>5. ASSUME NEW a \in Addresses
      PROVE  data'[a] = IF x + offset <= a /\ a < x + offset + size THEN b ELSE data[a]
  BY <1>1, FillBytes, SMTT(30)
<1>7. ASSUME NEW a \in x + s .. x + y - 1
      PROVE  data[a] = 0
  OBVIOUS
<1>8. ASSUME NEW k \in 1 .. s
      PROVE  old[k] = data[x + k - 1]
  OBVIOUS
<1>9. /\ n \in DOMAIN contents /\ old \in Seq(Int) /\ Len(old) = s /\ n # NONE
  BY DiskAssumption DEF Inv, ContentsHeld, InUse
<1> HIDE DEF x, y, s, m, old
<1>6. ASSUME NEW a \in x .. x + y - 1
      PROVE  a \in Addresses
  BY <1>1, Reach, SMTT(30)
(* The rest of the written file. *)
<1>10. ASSUME NEW a \in x + m .. x + y - 1
       PROVE  data'[a] = 0
  <2>1. a \in x .. x + y - 1 /\ a \in x + s .. x + y - 1 /\ ~(a < x + offset + size)
    BY <1>1, <1>2
  <2> QED
    BY <1>5, <1>6, <1>7, <2>1
(* The other files, and the blocks not handed out, stay as they are. *)
<1>11. ASSUME NEW j \in Slots, j # i,
              NEW a \in At(files[j].block_start)
                          .. At(files[j].block_start) + At(files[j].block_count) - 1
       PROVE  data'[a] = data[a]
  <2> DEFINE u == files[j].block_start
             v == files[j].block_count
  <2>1. u \in Nat /\ v \in Nat /\ At(u) \in Nat /\ At(v) \in Nat /\ a \in Nat
        /\ At(u) + At(v) <= At(MaxBlocks + TOTAL_BLOCKS)
    BY Extent
  <2>2. a \in Addresses
    BY <2>1, <1>11, Reach
  <2>3. CASE v = 0
    BY <2>1, <2>3, <1>11, AtFacts
  <2>4. CASE e.block_count = 0
    <3>1. y = 0
      BY <2>4, AtFacts DEF y
    <3> QED
      BY <1>1, <1>3, <1>5, <2>1, <2>2, <3>1
  <2>5. CASE v > 0 /\ e.block_count > 0
    <3>1. u + v <= e.block_start \/ e.block_start + e.block_count <= u
      BY <1>4, <1>11, <2>5 DEF DisjointUntilRegrown, Disjoint, Sound
    <3>2. At(u) + At(v) <= x \/ x + y <= At(u)
      <4>1. At(u + v) = At(u) + At(v) /\ At(e.block_start + e.block_count) = x + y
        BY <1>1, <2>1, AtFacts DEF x, y
      <4>2. u + v \in Nat /\ e.block_start + e.block_count \in Nat
        BY <1>1, <2>1
      <4>3. At(u + v) <= x \/ At(e.block_start + e.block_count) <= At(u)
        BY <1>1, <2>1, <3>1, <4>2, AtFacts DEF x
      <4> QED
        BY <4>1, <4>3
    <3>3. ~(x + offset <= a /\ a < x + offset + size)
      <4> HIDE DEF u, v
      <4>1. At(u) <= a /\ a < At(u) + At(v)
        BY <1>11, <2>1 DEF u, v
      <4> QED
        BY <1>1, <1>3, <2>1, <3>2, <4>1
    <3> QED
      BY <1>5, <2>2, <3>3
  <2> QED
    BY <1>1, <2>1, <2>3, <2>4, <2>5
<1>12. ASSUME NEW a \in At(free_block_start') .. At(TOTAL_BLOCKS) - 1
       PROVE  data'[a] = 0
  <2>1. e.block_start + e.block_count <= free_block_start'
    BY <1>4 DEF DisjointUntilRegrown, Sound
  <2>2. At(free_block_start) <= At(free_block_start') /\ x + y <= At(free_block_start')
        /\ At(free_block_start) \in Nat /\ At(free_block_start') \in Nat
    <3>1. At(e.block_start + e.block_count) = x + y
      BY <1>1, AtFacts DEF x, y
    <3>2. e.block_start + e.block_count \in Nat
      BY <1>1
    <3>3. free_block_start \in Nat /\ free_block_start' \in Nat
          /\ free_block_start <= free_block_start'
      BY <1>1
    <3>4. At(free_block_start) <= At(free_block_start')
          /\ At(free_block_start) \in Nat /\ At(free_block_start') \in Nat
      BY <3>3, AtFacts
    <3>5. At(e.block_start + e.block_count) <= At(free_block_start')
      BY <2>1, <3>2, <3>3, AtFacts
    <3> QED
      BY <3>1, <3>4, <3>5
  <2>3. a \in Addresses /\ a \in At(free_block_start) .. At(TOTAL_BLOCKS) - 1 /\ a >= x + y
    <3>1. a \in Int /\ At(free_block_start') <= a /\ a < At(TOTAL_BLOCKS)
      BY <1>1, <1>12, <2>2
    <3>2. x + y <= a /\ At(free_block_start) <= a /\ 0 <= a
      BY <1>1, <2>2, <3>1
    <3>3. a < At(MaxBlocks + TOTAL_BLOCKS)
      BY <1>1, <3>1, Reach, SMTT(30)
    <3>4. a \in Addresses
      BY <3>1, <3>2, <3>3, Reach
    <3> QED
      BY <1>1, <2>2, <3>1, <3>2, <3>4
  <2>4. data[a] = 0
    BY <2>3 DEF Inv, RestIsZero
  <2> QED
    BY <1>1, <1>3, <1>5, <2>3, <2>4
<1>13. RestIsZero'
  <2>1. ASSUME NEW j \in Slots,
               NEW a \in At(files'[j].block_start) + files'[j].size
                    .. At(files'[j].block_start) + At(files'[j].block_count) - 1
        PROVE  data'[a] = 0
    <3>1. CASE j = i
      BY <1>4, <1>10, <2>1, <3>1 DEF x, y, m
    <3>2. CASE j # i
      <4>1. a \in At(files[j].block_start) + files[j].size
                    .. At(files[j].block_start) + At(files[j].block_count) - 1
        BY <1>4, <2>1, <3>2
      <4>2. a \in At(files[j].block_start)
                    .. At(files[j].block_start) + At(files[j].block_count) - 1
        BY <4>1, Extent
      <4>3. data[a] = 0
        BY <4>1 DEF Inv, RestIsZero
      <4> QED
        BY <1>11, <3>2, <4>2, <4>3
    <3> QED
      BY <3>1, <3>2
  <2> QED
    BY <1>12, <2>1 DEF RestIsZero
<1>14. /\ n \in DOMAIN contents' /\ contents'[n] \in Seq(Int) /\ Len(contents'[n]) = m
       /\ \A k \in 1 .. m : contents'[n][k] = data'[x + k - 1]
  <2> DEFINE Byte(k) == IF k \in offset + 1 .. offset + size THEN b
                        ELSE IF k <= s THEN old[k] ELSE 0
  <2>1. n \in DOMAIN contents' /\ contents'[n] = [k \in 1 .. m |-> Byte(k)]
    <3>1. Max({s, offset + size}) = m
      BY DEF m, s, NewSize
    <3>2. contents'[n] = Overwrite(old, offset, size, b) /\ n \in DOMAIN contents'
      BY <1>9 DEF old
    <3> QED
      BY <1>9, <3>1, <3>2 DEF Overwrite
  <2>2. ASSUME NEW k \in 1 .. m PROVE Byte(k) \in Int
    <3>1. b \in Int
      BY DiskAssumption
    <3>2. k <= s => old[k] \in Int
      BY <1>1, <1>9, ElementOfSeq
    <3> QED
      BY <3>1, <3>2
  <2>3. contents'[n] \in [1 .. m -> Int]
    BY <2>1, <2>2
  <2>4. contents'[n] \in Seq(Int)
    BY <1>1, <2>3, SeqDef
  <2>5. Len(contents'[n]) = m
    <3>1. DOMAIN contents'[n] = 1 .. m
      BY <2>1
    <3> QED
      BY <1>1, <2>4, <3>1, LenProperties
  <2>6. ASSUME NEW k \in 1 .. m PROVE Byte(k) = data'[x + k - 1]
    <3>1. x + k - 1 \in x .. x + y - 1 /\ x + k - 1 \in Addresses
      <4>1. x + k - 1 \in x .. x + y - 1
        BY <1>1, <1>2, <1>3
      <4> QED
        BY <1>6, <4>1
    <3>2. k \in offset + 1 .. offset + size
            <=> (x + offset <= x + k - 1 /\ x + k - 1 < x + offset + size)
      BY <1>1
    <3>3. CASE k \in offset + 1 .. offset + size
      BY <1>5, <3>1, <3>2, <3>3
    <3>4. CASE k \notin offset + 1 .. offset + size /\ k <= s
      <4>1. k \in 1 .. s
        BY <1>1, <3>4
      <4> QED
        BY <1>5, <1>8, <3>1, <3>2, <3>4, <4>1
    <3>5. CASE k \notin offset + 1 .. offset + size /\ ~(k <= s)
      <4>1. x + k - 1 \in x + s .. x + y - 1
        BY <1>1, <1>2, <1>3, <3>5
      <4> QED
        BY <1>5, <1>7, <3>1, <3>2, <3>5, <4>1
    <3> QED
      BY <3>3, <3>4, <3>5
  <2> HIDE DEF Byte
  <2> QED
    BY <2>1, <2>4, <2>5, <2>6
<1>15. ContentsHeld'
  <2> SUFFICES ASSUME NEW j \in Slots, files'[j].name # NONE
               PROVE  /\ files'[j].name \in DOMAIN contents'
                      /\ contents'[files'[j].name] \in Seq(Int)
                      /\ Len(contents'[files'[j].name]) = files'[j].size
                      /\ \A k \in 1 .. files'[j].size :
                           contents'[files'[j].name][k] = data'[At(files'[j].block_start) + k - 1]
    BY DEF ContentsHeld, InUse
  <2>1. CASE j = i
    BY <1>4, <1>14, <2>1 DEF x, m
  <2>2. CASE j # i
    <3>1. files'[j] = files[j] /\ files[j].name # NONE
      BY <1>4, <2>2
    <3>2. files[j].name # n
      BY <1>9, <2>2, <3>1 DEF Inv, TableConsistent, NamesUnique, InUse
    <3>3. /\ files[j].name \in DOMAIN contents
          /\ contents[files[j].name] \in Seq(Int)
          /\ Len(contents[files[j].name]) = files[j].size
          /\ \A k \in 1 .. files[j].size :
               contents[files[j].name][k] = data[At(files[j].block_start) + k - 1]
      BY <3>1 DEF Inv, ContentsHeld, InUse
    <3>4. files[j].name \in DOMAIN contents' /\ contents'[files[j].name] = contents[files[j].name]
      BY <3>2, <3>3
    <3>5. ASSUME NEW k \in 1 .. files[j].size
          PROVE  data'[At(files[j].block_start) + k - 1] = data[At(files[j].block_start) + k - 1]
      <4>1. At(files[j].block_start) + k - 1 \in At(files[j].block_start)
              .. At(files[j].block_start) + At(files[j].block_count) - 1
        BY Extent
      <4> QED
        BY <1>11, <2>2, <4>1
    <3> QED
      BY <3>1, <3>3, <3>4, <3>5
  <2> QED
    BY <2>1, <2>2
<1> QED
  BY <1>13, <1>15

(* ramdisk_write in the blocks that a file has. *)
LEMMA InPlaceStep ==
  ASSUME Inv, NEW n \in Names, NEW offset \in Nat, NEW size \in Nat, NEW b \in Bytes,
         offset + size <= (WIDTH32 - 1) * BLOCK_SIZE, WriteInPlace(n, offset, size, b)
  PROVE  Inv'
<1> DEFINE i == Min(Named(n))
<1>1. i \in Slots /\ files[i].name = n
  <2>1. Named(n) \in SUBSET Slots /\ Named(n) # {}
    BY DEF WriteInPlace, Named
  <2>2. i \in Named(n)
    BY <2>1, FirstEntry
  <2> QED
    BY <2>2 DEF Named
<1>2. /\ files' = [files EXCEPT ![i].size = NewSize(@, offset, size)]
      /\ BlocksFor(offset + size) <= files[i].block_count
      /\ data' = Fill(data, Base(files[i]) + offset, size, b)
      /\ contents' = [contents EXCEPT ![n] = Overwrite(@, offset, size, b)]
      /\ mounted' = mounted /\ free_block_start' = free_block_start
      /\ free_blocks' = free_blocks /\ regrown' = regrown
  BY DEF WriteInPlace
<1> HIDE DEF i
<1> DEFINE s == NewSize(files[i].size, offset, size)
           e == [files[i] EXCEPT !.size = s]
<1>3. /\ files[i] \in Entry /\ files[i].size \in Nat /\ files[i].block_start \in Nat
      /\ files[i].block_count \in Nat /\ files[i].block_start <= MaxBlocks
      /\ files[i].block_count <= TOTAL_BLOCKS /\ free_blocks \in Nat
      /\ free_block_start \in 0 .. MaxBlocks
  <2>1. /\ files[i] \in Entry /\ files[i].size \in Nat /\ files[i].block_start \in Nat
        /\ files[i].block_count \in Nat
    BY <1>1, Extent
  <2>2. files[i].block_count \in 0 .. TOTAL_BLOCKS - free_blocks /\ free_blocks \in Nat
        /\ TOTAL_BLOCKS \in Nat
    BY <1>1, CountsBounded, DiskAssumption DEF Inv, TypeOK
  <2> QED
    BY <1>1, <2>1, <2>2 DEF Inv, TypeOK, BlocksInReach
<1>4. s \in Nat /\ s = IF files[i].size >= offset + size THEN files[i].size ELSE offset + size
  BY <1>3, MaxOfTwo DEF NewSize
<1>5. offset + size <= At(files[i].block_count) /\ files[i].size <= At(files[i].block_count)
      /\ At(files[i].block_count) \in Nat /\ Base(files[i]) = At(files[i].block_start)
  <2>1. BlocksFor(offset + size) \in Nat /\ offset + size <= At(BlocksFor(offset + size))
    BY BlocksForCovers
  <2>2. At(BlocksFor(offset + size)) <= At(files[i].block_count)
        /\ At(BlocksFor(offset + size)) \in Nat
    BY <1>2, <1>3, <2>1, AtFacts
  <2>3. files[i].size <= At(files[i].block_count) /\ At(files[i].block_count) \in Nat
        /\ Base(files[i]) = At(files[i].block_start)
    BY <1>1, Extent
  <2> QED
    BY <2>1, <2>2, <2>3
<1>6. files' = [files EXCEPT ![i] = e]
  BY <1>2
<1> HIDE DEF s
<1>7. /\ e \in Entry /\ e.name = n /\ e.size = s /\ e.block_start = files[i].block_start
      /\ e.block_count = files[i].block_count
  BY <1>1, <1>3, <1>4 DEF Entry
<1> HIDE DEF e
<1>8. files'[i] = e /\ \A j \in Slots : j # i => files'[j] = files[j]
  BY <1>1, <1>6 DEF Inv, TypeOK
<1>9. TableInv'
  <2>1. n # NONE /\ \A j \in Slots : j # i => files[j].name # n
    BY <1>1, DiskAssumption DEF Inv, TableConsistent, NamesUnique, InUse
  <2>2. e.size <= At(e.block_count)
    BY <1>3, <1>4, <1>5, <1>7
  <2>3. free_blocks' \in Nat /\ free_blocks' = free_blocks + files[i].block_count - e.block_count
    BY <1>2, <1>3, <1>7
  <2> QED
    BY <1>1, <1>3, <1>6, <1>7, <2>1, <2>2, <2>3, EntryChanges, PartsOfInv DEF At
<1>10. DisjointUntilRegrown'
  <2>1. \A j \in Slots : files'[j].block_start = files[j].block_start
                         /\ files'[j].block_count = files[j].block_count
    BY <1>7, <1>8
  <2> QED
    BY <1>2, <2>1 DEF Inv, DisjointUntilRegrown, Disjoint
<1>11. RestIsZero' /\ ContentsHeld'
  <2> SUFFICES ASSUME Sound PROVE RestIsZero' /\ ContentsHeld'
    BY <1>2 DEF RestIsZero, ContentsHeld, Sound
  <2>1. Sound'
    BY <1>2 DEF Sound
  <2>2. \A a \in At(e.block_start) + files[i].size
                    .. At(e.block_start) + At(e.block_count) - 1 : data[a] = 0
    BY <1>1, <1>7 DEF Inv, RestIsZero
  <2>3. \A k \in 1 .. files[i].size : contents[n][k] = data[At(e.block_start) + k - 1]
    <3>1. n # NONE
      BY DiskAssumption
    <3> QED
      BY <1>1, <1>7, <3>1 DEF Inv, ContentsHeld, InUse
  <2>4. data' = Fill(data, At(e.block_start) + offset, size, b)
    BY <1>2, <1>5, <1>7
  <2>5. free_block_start <= free_block_start' /\ free_block_start' \in Nat
    BY <1>2, <1>3
  <2>6. /\ e.block_start <= MaxBlocks /\ e.block_count <= TOTAL_BLOCKS
        /\ files[i].size <= At(e.block_count) /\ offset + size <= At(e.block_count)
        /\ e.size = NewSize(files[i].size, offset, size)
    BY <1>3, <1>5, <1>7 DEF s
  <2> QED
    BY <1>1, <1>2, <1>6, <1>7, <1>10, <2>1, <2>2, <2>3, <2>4, <2>5, <2>6, WriteData
<1>12. mounted' \in BOOLEAN /\ regrown' \in BOOLEAN
  BY <1>2, Zenon DEF Inv, TypeOK
<1>13. DOMAIN contents' \subseteq Names /\ free_block_start' \in 0 .. MaxBlocks
  BY <1>2 DEF Inv, TypeOK
<1>14. \A a \in Addresses : data'[a] \in Bytes \cup {0, JUNK}
  <2>1. Base(files[i]) + offset \in Nat
    BY <1>1, <1>5, Extent
  <2> QED
    BY <1>2, <2>1, FillBytes DEF Inv, TypeOK
<1> QED
  BY <1>9, <1>10, <1>11, <1>12, <1>13, <1>14 DEF TableInv, Inv, TypeOK

(* memcpy moves bytes of the disk. *)
LEMMA MemcpyType ==
  ASSUME Inv, NEW dest \in Nat, NEW src \in Nat, NEW n \in Nat,
         src + n <= At(MaxBlocks + TOTAL_BLOCKS), NEW a \in Addresses
  PROVE  Memcpy(data, dest, src, n)[a] \in Bytes \cup {0, JUNK}
<1>1. a \in Nat /\ At(MaxBlocks + TOTAL_BLOCKS) \in Nat
  BY Reach
<1>2. \A x \in Addresses : data[x] \in Bytes \cup {0, JUNK}
  BY DEF Inv, TypeOK
<1>3. CASE a \notin dest .. dest + n - 1
  BY <1>2, <1>3 DEF Memcpy
<1>4. CASE a \in dest .. dest + n - 1
  <2> DEFINE r == IF dest > src THEN src + ((a - dest) % (dest - src)) ELSE src + (a - dest)
  <2>1. Memcpy(data, dest, src, n)[a] = data[r]
    BY <1>4 DEF Memcpy
  <2>2. a - dest \in Nat /\ a - dest < n
    BY <1>1, <1>4
  <2>3. \A x, w \in Nat : w > 0 => x % w \in Nat /\ x % w <= x
    OBVIOUS
  <2>4. dest > src => dest - src \in Nat /\ dest - src > 0
    OBVIOUS
  <2>5. dest > src => (a - dest) % (dest - src) \in Nat /\ (a - dest) % (dest - src) <= a - dest
    BY <2>2, <2>3, <2>4
  <2>6. r \in Nat /\ r < src + n
    BY <2>2, <2>5
  <2> HIDE DEF r
  <2>7. r \in Addresses
    BY <1>1, <2>6, Reach
  <2> QED
    BY <1>2, <2>1, <2>7
<1> QED
  BY <1>3, <1>4

(* ramdisk_write that takes blocks. *)
LEMMA GrowsStep ==
  ASSUME Inv, NEW n \in Names, NEW offset \in Nat, NEW size \in Nat, NEW b \in Bytes,
         offset + size <= (WIDTH32 - 1) * BLOCK_SIZE, WriteGrows(n, offset, size, b)
  PROVE  Inv'
<1> DEFINE i == Min(Named(n))
           required == BlocksFor(offset + size)
           count == required - files[i].block_count
           s == NewSize(files[i].size, offset, size)
           e == [files[i] EXCEPT !.block_start = free_block_start,
                                 !.block_count = required, !.size = s]
           copied == IF files[i].block_count > 0
                       THEN Memcpy(data, free_block_start * BLOCK_SIZE, Base(files[i]),
                                   files[i].size)
                       ELSE data
<1>1. i \in Slots /\ files[i].name = n
  <2>1. Named(n) \in SUBSET Slots /\ Named(n) # {}
    BY DEF WriteGrows, Named
  <2>2. i \in Named(n)
    BY <2>1, FirstEntry
  <2> QED
    BY <2>2 DEF Named
<1>2. /\ files' = [files EXCEPT ![i] = e]
      /\ required > files[i].block_count /\ count <= free_blocks
      /\ free_block_start + count <= MaxBlocks
      /\ data' = Fill(copied, Base(e) + offset, size, b)
      /\ contents' = [contents EXCEPT ![n] = Overwrite(@, offset, size, b)]
      /\ mounted' = mounted /\ free_block_start' = free_block_start + count
      /\ free_blocks' = free_blocks - count
  BY DEF WriteGrows, CanAllocate
<1>3. regrown' \in BOOLEAN /\ (~regrown' => ~regrown /\ ~(files[i].block_count > 0))
  BY Zenon DEF WriteGrows
<1> HIDE DEF i
<1>4. /\ files[i] \in Entry /\ files[i].size \in Nat /\ files[i].block_start \in Nat
      /\ files[i].block_count \in Nat /\ free_blocks \in Nat
      /\ files[i].block_count <= TOTAL_BLOCKS - free_blocks
      /\ free_block_start \in 0 .. MaxBlocks /\ MaxBlocks \in Nat /\ TOTAL_BLOCKS \in Nat
  <2>1. /\ files[i] \in Entry /\ files[i].size \in Nat /\ files[i].block_start \in Nat
        /\ files[i].block_count \in Nat
    BY <1>1, Extent
  <2>2. files[i].block_count \in 0 .. TOTAL_BLOCKS - free_blocks /\ free_blocks \in Nat
        /\ TOTAL_BLOCKS \in Nat /\ MaxBlocks \in Nat
    BY <1>1, CountsBounded, DiskAssumption DEF Inv, TypeOK
  <2> QED
    BY <2>1, <2>2 DEF Inv, TypeOK
<1>5. required \in Nat /\ offset + size <= At(required)
  BY BlocksForCovers
<1>6. s \in Nat /\ s = IF files[i].size >= offset + size THEN files[i].size ELSE offset + size
  BY <1>4, MaxOfTwo DEF NewSize
<1> HIDE DEF s, required, copied
<1>7. /\ e \in Entry /\ e.name = n /\ e.size = s /\ e.block_start = free_block_start
      /\ e.block_count = required
  <2>1. free_block_start \in Nat
    BY <1>4
  <2> QED
    BY <1>1, <1>4, <1>5, <1>6, <2>1 DEF Entry
<1> HIDE DEF e
<1>8. /\ required <= TOTAL_BLOCKS /\ count \in Nat /\ count > 0
      /\ free_block_start' \in 0 .. MaxBlocks /\ free_block_start <= free_block_start'
      /\ free_blocks' \in Nat /\ free_blocks' = free_blocks + files[i].block_count - e.block_count
  BY <1>2, <1>4, <1>5, <1>7
<1>9. /\ files[i].size <= At(required) /\ At(required) \in Nat
      /\ Base(e) = At(e.block_start) /\ At(e.block_start) \in Nat
  <2>1. At(files[i].block_count) <= At(required) /\ At(required) \in Nat
        /\ At(files[i].block_count) \in Nat
    <3>1. files[i].block_count <= required
      BY <1>2, <1>4, <1>5
    <3> QED
      BY <1>4, <1>5, <3>1, AtFacts
  <2>2. files[i].size <= At(files[i].block_count)
    BY <1>1, Extent
  <2>3. e.block_start <= MaxBlocks
    BY <1>4, <1>7
  <2> QED
    BY <1>4, <1>7, <2>1, <2>2, <2>3, BaseIsAt
<1>10. files'[i] = e /\ \A j \in Slots : j # i => files'[j] = files[j]
  BY <1>1, <1>2 DEF Inv, TypeOK
<1>11. TableInv'
  <2>1. n # NONE /\ \A j \in Slots : j # i => files[j].name # n
    BY <1>1, DiskAssumption DEF Inv, TableConsistent, NamesUnique, InUse
  <2>2. e.size <= At(e.block_count)
    BY <1>4, <1>5, <1>6, <1>7, <1>9
  <2>3. e.block_start <= MaxBlocks
    BY <1>4, <1>7
  <2> QED
    BY <1>1, <1>2, <1>7, <1>8, <2>1, <2>2, <2>3, EntryChanges, PartsOfInv DEF At
<1>12. DisjointUntilRegrown'
  <2> SUFFICES ASSUME ~regrown'
               PROVE  Disjoint' /\ \A j \in Slots : files'[j].block_start + files'[j].block_count
                                                      <= free_block_start'
    BY DEF DisjointUntilRegrown
  <2>1. files[i].block_count = 0 /\ ~regrown /\ free_block_start' = free_block_start + required
    BY <1>2, <1>3, <1>4, <1>5
  <2>2. Disjoint /\ \A j \in Slots : files[j].block_start + files[j].block_count
                                       <= free_block_start
    BY <2>1 DEF Inv, DisjointUntilRegrown
  <2>3. Disjoint'
    <3> SUFFICES ASSUME NEW j \in Slots, NEW k \in Slots, j # k,
                        files'[j].block_count > 0, files'[k].block_count > 0
                 PROVE  \/ files'[j].block_start + files'[j].block_count <= files'[k].block_start
                        \/ files'[k].block_start + files'[k].block_count <= files'[j].block_start
      BY DEF Disjoint
    <3>1. CASE j = i
      BY <1>7, <1>10, <2>2, <3>1
    <3>2. CASE k = i
      BY <1>7, <1>10, <2>2, <3>2
    <3>3. CASE j # i /\ k # i
      BY <1>10, <2>2, <3>3 DEF Disjoint
    <3> QED
      BY <3>1, <3>2, <3>3
  <2>4. ASSUME NEW j \in Slots
        PROVE  files'[j].block_start + files'[j].block_count <= free_block_start'
    <3>1. CASE j = i
      BY <1>4, <1>5, <1>7, <1>10, <2>1, <3>1
    <3>2. CASE j # i
      <4>1. files[j].block_start \in Nat /\ files[j].block_count \in Nat
        BY Extent
      <4> QED
        BY <1>4, <1>8, <1>10, <2>2, <3>2, <4>1
    <3> QED
      BY <3>1, <3>2
  <2> QED
    BY <2>3, <2>4
<1>13. RestIsZero' /\ ContentsHeld'
  <2> SUFFICES ASSUME Sound' PROVE RestIsZero' /\ ContentsHeld'
    BY DEF RestIsZero, ContentsHeld
  <2>1. files[i].block_count = 0 /\ ~regrown /\ free_block_start' = free_block_start + required
        /\ free_block_start' <= TOTAL_BLOCKS
    BY <1>2, <1>3, <1>4, <1>5 DEF Sound
  <2>2. Sound
    BY <1>4, <1>8, <2>1 DEF Sound
  <2>3. files[i].size = 0
    <3>1. files[i].size <= At(0) /\ At(0) = 0
      BY <1>1, <2>1, Extent, AtFacts
    <3> QED
      BY <1>4, <3>1
  <2>4. \A a \in At(e.block_start) + files[i].size
                    .. At(e.block_start) + At(e.block_count) - 1 : data[a] = 0
    <3>1. At(free_block_start) + At(required) = At(free_block_start')
          /\ At(free_block_start') <= At(TOTAL_BLOCKS)
          /\ At(free_block_start) \in Nat /\ At(required) \in Nat
          /\ At(free_block_start') \in Nat /\ At(TOTAL_BLOCKS) \in Nat
      <4>1. free_block_start \in Nat /\ free_block_start' \in Nat
        BY <1>4, <1>8
      <4> QED
        BY <1>4, <1>5, <2>1, <4>1, AtFacts
    <3>2. \A a \in At(free_block_start) .. At(TOTAL_BLOCKS) - 1 : data[a] = 0
      BY <2>2 DEF Inv, RestIsZero
    <3> SUFFICES ASSUME NEW a \in At(free_block_start) + 0
                                    .. At(free_block_start) + At(required) - 1
                 PROVE  a \in At(free_block_start) .. At(TOTAL_BLOCKS) - 1
      BY <1>7, <2>3, <3>2
    <3> QED
      BY <3>1
  <2>5. \A k \in 1 .. files[i].size : contents[n][k] = data[At(e.block_start) + k - 1]
    BY <2>3
  <2>6. data' = Fill(data, At(e.block_start) + offset, size, b)
    BY <1>2, <1>9, <2>1 DEF copied
  <2>7. /\ e.block_start <= MaxBlocks /\ e.block_count <= TOTAL_BLOCKS
        /\ files[i].size <= At(e.block_count) /\ offset + size <= At(e.block_count)
        /\ e.size = NewSize(files[i].size, offset, size) /\ free_block_start' \in Nat
    BY <1>4, <1>5, <1>7, <1>8, <1>9 DEF s
  <2> QED
    BY <1>1, <1>2, <1>7, <1>8, <1>12, <2>2, <2>4, <2>5, <2>6, <2>7, WriteData
<1>14. DOMAIN contents' \subseteq Names
  BY <1>2 DEF Inv, TypeOK
<1>15. mounted' \in BOOLEAN
  BY <1>2, Zenon DEF Inv, TypeOK
<1>16. \A a \in Addresses : data'[a] \in Bytes \cup {0, JUNK}
  <2>1. ASSUME NEW a \in Addresses PROVE copied[a] \in Bytes \cup {0, JUNK}
    <3>1. CASE files[i].block_count > 0
      <4>1. copied = Memcpy(data, At(free_block_start), Base(files[i]), files[i].size)
        BY <3>1 DEF copied, At
      <4>2. Base(files[i]) + files[i].size <= At(MaxBlocks + TOTAL_BLOCKS)
            /\ Base(files[i]) \in Nat
        BY <1>1, Extent, Reach
      <4>3. At(free_block_start) \in Nat
        BY <1>7, <1>9
      <4> QED
        BY <1>4, <4>1, <4>2, <4>3, MemcpyType
    <3>2. CASE ~(files[i].block_count > 0)
      BY <3>2 DEF copied, Inv, TypeOK
    <3> QED
      BY <3>1, <3>2
  <2>2. Base(e) + offset \in Nat
    BY <1>9
  <2> QED
    BY <1>2, <2>1, <2>2, FillBytes
<1> QED
  BY <1>3, <1>8, <1>11, <1>12, <1>13, <1>14, <1>15, <1>16 DEF TableInv, Inv, TypeOK

-----------------------------------------------------------------------------
(* The specification.                                                      *)

(* Every operation preserves the invariant. *)
LEMMA NextInv == Inv /\ [Next]_vars => Inv'
<1> SUFFICES ASSUME Inv, [Next]_vars PROVE Inv'
  OBVIOUS
<1>1. ASSUME mounted' \in BOOLEAN, files' = files, free_block_start' = free_block_start,
             free_blocks' = free_blocks, data' = data, contents' = contents, regrown' = regrown
      PROVE  Inv'
  <2>1. TableInv'
    BY <1>1, PartsOfInv, TableUnchanged
  <2>2. DisjointUntilRegrown' /\ RestIsZero' /\ ContentsHeld'
    BY <1>1 DEF Inv, DisjointUntilRegrown, Disjoint, RestIsZero, ContentsHeld, Sound, InUse
  <2>3. regrown' \in BOOLEAN
    BY <1>1, Zenon DEF Inv, TypeOK
  <2>4. /\ free_block_start' \in 0 .. MaxBlocks /\ DOMAIN contents' \subseteq Names
        /\ \A a \in Addresses : data'[a] \in Bytes \cup {0, JUNK}
    BY <1>1 DEF Inv, TypeOK
  <2> QED
    BY <1>1, <2>1, <2>2, <2>3, <2>4 DEF TableInv, Inv, TypeOK
<1>2. CASE UNCHANGED vars
  <2>1. mounted' \in BOOLEAN
    BY <1>2, Zenon DEF vars, Inv, TypeOK
  <2> QED
    BY <1>1, <1>2, <2>1 DEF vars
<1>3. CASE Create
  <2>1. mounted' \in BOOLEAN
    BY <1>3 DEF Create
  <2> QED
    BY <1>1, <1>3, <2>1 DEF Create
<1>4. CASE Destroy
  BY <1>4, DestroyStep
<1>5. CASE \E n \in Names : CreateFile(n) \/ DeleteFile(n)
  BY <1>5, CreateFileStep, DeleteFileStep
<1>6. CASE \E n \in Names, w \in Writes, b \in Bytes :
             WriteInPlace(n, w[1], w[2], b) \/ WriteGrows(n, w[1], w[2], b)
  <2>1. PICK n \in Names, w \in Writes, b \in Bytes :
          WriteInPlace(n, w[1], w[2], b) \/ WriteGrows(n, w[1], w[2], b)
    BY <1>6
  <2>2. w[1] \in Nat /\ w[2] \in Nat /\ w[1] + w[2] <= (WIDTH32 - 1) * BLOCK_SIZE
    BY DiskAssumption, WritesAssumption
  <2> QED
    BY <2>1, <2>2, InPlaceStep, GrowsStep
<1> QED
  BY <1>2, <1>3, <1>4, <1>5, <1>6 DEF Next

(* The inductive invariant: beside the properties themselves, an unused    *)
(* entry has no blocks, every file starts below the bound of the counter,  *)
(* everything that was not written is zero, and every file holds what was  *)
(* written to it.                                                          *)
THEOREM RamdiskInvariant == Spec => []Inv
BY InitInv, NextInv, PTL DEF Spec

(* Every variable of ramdisk.c keeps its type: in particular free_blocks   *)
(* never exceeds the disk, and no copy reads outside of the modelled bytes.*)
THEOREM TypeCorrect == Spec => []TypeOK
<1>1. Inv => TypeOK
  BY DEF Inv
<1> QED
  BY <1>1, RamdiskInvariant, PTL

(* ramdisk_create_file, ramdisk_write and ramdisk_delete_file keep the     *)
(* table consistent, for any number of entries and blocks.                 *)
THEOREM TableStaysConsistent == Spec => []TableConsistent
<1>1. Inv => TableConsistent
  BY DEF Inv
<1> QED
  BY <1>1, RamdiskInvariant, PTL

(* Until a file with blocks grows, no two files share a block.             *)
THEOREM FilesKeptApart == Spec => []DisjointUntilRegrown
<1>1. Inv => DisjointUntilRegrown
  BY DEF Inv
<1> QED
  BY <1>1, RamdiskInvariant, PTL

(* Until a file with blocks grows or the counter leaves the disk,          *)
(* ramdisk_read returns what ramdisk_write wrote.                          *)
THEOREM FilesReadBack == Spec => []ReadsBackUntilRegrown
<1>1. Inv => ReadsBackUntilRegrown
  <2> SUFFICES ASSUME Inv, Sound, NEW i \in Slots, InUse(i)
               PROVE  /\ files[i].name \in DOMAIN contents
                      /\ ReadFile(files[i].name, 0, WIDTH32) = contents[files[i].name]
    BY DEF ReadsBackUntilRegrown, ReadsBack, Sound
  <2> DEFINE c == contents[files[i].name]
             file == files[Min(Named(files[i].name))]
  <2>1. /\ files[i].name \in DOMAIN contents /\ c \in Seq(Int) /\ Len(c) = files[i].size
        /\ \A k \in 1 .. files[i].size : c[k] = data[At(files[i].block_start) + k - 1]
    BY DEF Inv, ContentsHeld
  <2>2. file = files[i]
    <3>1. Named(files[i].name) = {i}
      BY DEF Named, Inv, TableConsistent, NamesUnique
    <3>2. Min({i}) \in {i}
      BY FirstEntry
    <3> QED
      BY <3>1, <3>2
  <2>3. /\ files[i].size \in Nat /\ files[i].size < WIDTH32 /\ WIDTH32 \in Nat
        /\ Base(files[i]) = At(files[i].block_start) /\ At(files[i].block_start) \in Nat
    BY Extent, Reach, DiskAssumption
  <2>4. ReadFile(files[i].name, 0, WIDTH32)
          = [k \in 1 .. files[i].size |-> data[At(files[i].block_start) + 0 + k - 1]]
    <3> DEFINE len == IF 0 >= file.size THEN 0
                      ELSE IF 0 + WIDTH32 > file.size THEN file.size - 0 ELSE WIDTH32
    <3>1. len = files[i].size
      BY <2>2, <2>3
    <3>2. ReadFile(files[i].name, 0, WIDTH32) = [k \in 1 .. len |-> data[Base(file) + 0 + k - 1]]
      BY DEF ReadFile
    <3> HIDE DEF len, file
    <3> QED
      BY <2>2, <2>3, <3>1, <3>2
  <2>5. c = [k \in 1 .. files[i].size |-> c[k]]
    BY <2>1, LenProperties
  <2>6. \A k \in 1 .. files[i].size : c[k] = data[At(files[i].block_start) + 0 + k - 1]
    BY <2>1, <2>3
  <2> HIDE DEF c
  <2>7. ReadFile(files[i].name, 0, WIDTH32) = c
    BY <2>4, <2>5, <2>6
  <2> QED
    BY <2>1, <2>7 DEF c
<1> QED
  BY <1>1, RamdiskInvariant, PTL

=============================================================================
