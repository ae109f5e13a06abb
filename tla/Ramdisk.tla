------------------------------ MODULE Ramdisk ------------------------------
(***************************************************************************)
(* The RAM disk file system of kernel/ramdisk.c: a table of file entries   *)
(* over one byte array, with blocks handed out by a counter that only      *)
(* grows (free_block_start) against a budget (free_blocks) that also       *)
(* shrinks and grows back.                                                 *)
(*                                                                         *)
(* Files are named by their callers (struct FSNode carries the name, and   *)
(* every operation looks it up again), so an operation takes a name.  The  *)
(* byte array is extended beyond the disk, with JUNK, because block        *)
(* numbers can run past its end.                                           *)
(***************************************************************************)
EXTENDS Integers, Sequences, FiniteSetsExt

CONSTANTS
  BLOCK_SIZE,    (* RAMDISK_BLOCK_SIZE (512)                               *)
  TOTAL_BLOCKS,  (* RAMDISK_SIZE / RAMDISK_BLOCK_SIZE (2048)               *)
  MAX_FILES,     (* RAMDISK_MAX_FILES (64)                                 *)
  WIDTH32,       (* block numbers, counts and sizes are modulo this (2^32) *)
  Names,         (* file names                                             *)
  LongNames,     (* the names of RAMDISK_MAX_NAME_LEN characters or more   *)
  Writes,        (* the <<offset, size>> of the writes callers make        *)
  Bytes,         (* the bytes callers write                                *)
  MaxBlocks      (* bound: free_block_start stays at most this             *)

NONE == "none"  (* the name of an unused entry                             *)

ASSUME DiskAssumption ==
  /\ BLOCK_SIZE \in Nat \ {0} /\ TOTAL_BLOCKS \in Nat
  /\ MAX_FILES \in Nat /\ MaxBlocks \in Nat
  /\ WIDTH32 \in Nat /\ WIDTH32 > (MaxBlocks + TOTAL_BLOCKS) * BLOCK_SIZE
  /\ LongNames \subseteq Names /\ NONE \notin Names
  /\ Writes \subseteq Nat \X Nat
  /\ Bytes \subseteq Nat \ {0}

(* Writes end where their number of blocks still fits uint32_t, below 2 TB: *)
(* ramdisk_write does not check, and gives a longer one too few blocks.     *)
ASSUME WritesAssumption == \A w \in Writes : w[1] + w[2] <= (WIDTH32 - 1) * BLOCK_SIZE

VARIABLES
  mounted,           (* between ramdisk_create and ramdisk_destroy         *)
  files,             (* the entries; name NONE where in_use is 0           *)
  free_block_start,
  free_blocks,
  data,              (* address -> byte                                    *)
  contents,          (* ghost: name -> the bytes a reader should get       *)
  regrown            (* ghost: a file that had blocks was given more       *)

vars == <<mounted, files, free_block_start, free_blocks, data, contents, regrown>>

JUNK == -1
Slots == 1 .. MAX_FILES
Addresses == 0 .. (MaxBlocks + TOTAL_BLOCKS) * BLOCK_SIZE - 1
EmptyEntry == [name |-> NONE, size |-> 0, block_start |-> 0, block_count |-> 0]
Entry == [name: Names \cup {NONE}, size: Nat, block_start: Nat, block_count: Nat]

(* memset of the data area: zeros on the disk. *)
Cleared ==
  [a \in Addresses |-> IF a < TOTAL_BLOCKS * BLOCK_SIZE THEN 0 ELSE JUNK]

(* The disk that ramdisk_create sets up; nothing is mounted before it. *)
Init ==
  /\ mounted = FALSE
  /\ files = [i \in Slots |-> EmptyEntry]
  /\ free_block_start = 0 /\ free_blocks = TOTAL_BLOCKS
  /\ data = Cleared
  /\ contents = [n \in {} |-> <<>>]
  /\ regrown = FALSE

-----------------------------------------------------------------------------
InUse(i) == files[i].name # NONE

(* find_file_by_name: the slots where the loop would stop. *)
Named(n) == {i \in Slots : files[i].name = n}

(* find_free_file *)
FreeSlots == {i \in Slots : ~InUse(i)}

(* required_blocks of ramdisk_write, truncated to uint32_t. *)
BlocksFor(bytes) == ((bytes + BLOCK_SIZE - 1) \div BLOCK_SIZE) % WIDTH32

(* The first byte of a file's data. *)
Base(file) == (file.block_start * BLOCK_SIZE) % WIDTH32

(* memcpy copies upwards one byte at a time, so a destination that starts   *)
(* inside the source repeats what lies between the two starts.              *)
Memcpy(d, dest, src, n) ==
  [a \in Addresses |->
     IF a \in dest .. dest + n - 1
       THEN d[IF dest > src THEN src + ((a - dest) % (dest - src))
                            ELSE src + (a - dest)]
       ELSE d[a]]

(* memcpy from a caller's buffer of n bytes b. *)
Fill(d, dest, n, b) ==
  [a \in Addresses |-> IF a \in dest .. dest + n - 1 THEN b ELSE d[a]]

-----------------------------------------------------------------------------
(* ramdisk_create: mount the empty disk. *)
Create ==
  /\ ~mounted
  /\ mounted' = TRUE
  /\ UNCHANGED <<files, free_block_start, free_blocks, data, contents, regrown>>

(* ramdisk_destroy frees the memory: what the next ramdisk_create sets up   *)
(* does not depend on it.                                                   *)
Destroy ==
  /\ mounted
  /\ mounted' = FALSE
  /\ files' = [i \in Slots |-> EmptyEntry]
  /\ free_block_start' = 0 /\ free_blocks' = TOTAL_BLOCKS
  /\ data' = Cleared
  /\ contents' = [n \in {} |-> <<>>]
  /\ regrown' = FALSE

(* ramdisk_create_file; the three errors change nothing. *)
CreateFile(n) ==
  /\ mounted
  /\ n \notin LongNames /\ Named(n) = {} /\ FreeSlots # {}
  /\ files' = [files EXCEPT ![Min(FreeSlots)] = [EmptyEntry EXCEPT !.name = n]]
  /\ contents' = [m \in DOMAIN contents \cup {n} |->
                    IF m = n THEN <<>> ELSE contents[m]]
  /\ UNCHANGED <<mounted, free_block_start, free_blocks, data, regrown>>

(* Mutant of DeleteFile: the counter goes back too, as if the file's blocks *)
(* were the last ones handed out.                                           *)
DeleteFileRewinds(n) ==
  /\ mounted /\ Named(n) # {}
  /\ LET i == Min(Named(n))
     IN /\ free_blocks' = free_blocks + files[i].block_count
        /\ free_block_start' = free_block_start - files[i].block_count
        /\ files' = [files EXCEPT ![i] = EmptyEntry]
  /\ contents' = [m \in DOMAIN contents \ {n} |-> contents[m]]
  /\ UNCHANGED <<mounted, data, regrown>>

(* Mutant of DeleteFile: the blocks are not given back. *)
DeleteFileLeaks(n) ==
  /\ mounted /\ Named(n) # {}
  /\ files' = [files EXCEPT ![Min(Named(n))] = EmptyEntry]
  /\ contents' = [m \in DOMAIN contents \ {n} |-> contents[m]]
  /\ UNCHANGED <<mounted, free_block_start, free_blocks, data, regrown>>

(* ramdisk_delete_file: the blocks return to the budget, the counter stays. *)
DeleteFile(n) ==
  /\ mounted /\ Named(n) # {}
  /\ LET i == Min(Named(n))
     IN /\ free_blocks' = free_blocks + files[i].block_count
        /\ files' = [files EXCEPT ![i] = EmptyEntry]
  /\ contents' = [m \in DOMAIN contents \ {n} |-> contents[m]]
  /\ UNCHANGED <<mounted, free_block_start, data, regrown>>

(* Mutant of CanAllocate: the budget is not consulted. *)
CanAlwaysAllocate(count) == TRUE

(* allocate_blocks(count): the budget alone decides. *)
CanAllocate(count) == count <= free_blocks

(* What a reader should get after a write of size bytes b at offset: holes  *)
(* read as zero.                                                            *)
Overwrite(old, offset, size, b) ==
  [k \in 1 .. Max({Len(old), offset + size}) |->
     IF k \in offset + 1 .. offset + size THEN b
     ELSE IF k <= Len(old) THEN old[k] ELSE 0]

(* Mutant of NewSize: the end of the hole is counted twice. *)
NewSizePastEnd(old, offset, size) == Max({old, 2 * offset + size})

(* file->size after a write. *)
NewSize(old, offset, size) == Max({old, offset + size})

(* ramdisk_write when the file has blocks enough. *)
WriteInPlace(n, offset, size, b) ==
  /\ mounted /\ Named(n) # {}
  /\ LET i == Min(Named(n)) IN
       /\ BlocksFor(offset + size) <= files[i].block_count
       /\ data' = Fill(data, Base(files[i]) + offset, size, b)
       /\ files' = [files EXCEPT ![i].size = NewSize(@, offset, size)]
  /\ contents' = [contents EXCEPT ![n] = Overwrite(@, offset, size, b)]
  /\ UNCHANGED <<mounted, free_block_start, free_blocks, regrown>>

(* ramdisk_write when it has not: the missing blocks are taken at the       *)
(* counter, and the whole file moves there.                                 *)
WriteGrows(n, offset, size, b) ==
  /\ mounted /\ Named(n) # {}
  /\ LET i        == Min(Named(n))
         required == BlocksFor(offset + size)
         count    == required - files[i].block_count
         start    == free_block_start
         moved    == [files[i] EXCEPT !.block_start = start,
                                      !.block_count = required,
                                      !.size = NewSize(@, offset, size)]
         copied   == IF files[i].block_count > 0
                       THEN Memcpy(data, start * BLOCK_SIZE, Base(files[i]),
                                   files[i].size)
                       ELSE data
     IN /\ required > files[i].block_count
        /\ CanAllocate(count)
        /\ free_block_start + count <= MaxBlocks
        /\ free_block_start' = free_block_start + count
        /\ free_blocks' = free_blocks - count
        /\ data' = Fill(copied, Base(moved) + offset, size, b)
        /\ files' = [files EXCEPT ![i] = moved]
        /\ regrown' = (regrown \/ files[i].block_count > 0)
  /\ contents' = [contents EXCEPT ![n] = Overwrite(@, offset, size, b)]
  /\ UNCHANGED mounted

Next ==
  \/ Create \/ Destroy
  \/ \E n \in Names : CreateFile(n) \/ DeleteFile(n)
  \/ \E n \in Names, w \in Writes, b \in Bytes :
        WriteInPlace(n, w[1], w[2], b) \/ WriteGrows(n, w[1], w[2], b)

Spec == Init /\ [][Next]_vars

(* ramdisk_read(offset, size): the bytes copied to the caller. *)
ReadFile(n, offset, size) ==
  LET file == files[Min(Named(n))]
      len  == IF offset >= file.size THEN 0
              ELSE IF offset + size > file.size THEN file.size - offset ELSE size
  IN [k \in 1 .. len |-> data[Base(file) + offset + k - 1]]

-----------------------------------------------------------------------------
(* Properties.                                                             *)

(* The counter of blocks and the budget stay within their bounds, and every *)
(* byte of the disk is one that was written, zero or junk behind its end.   *)
TypeOK ==
  /\ mounted \in BOOLEAN
  /\ files \in [Slots -> Entry]
  /\ free_block_start \in 0 .. MaxBlocks /\ free_blocks \in 0 .. TOTAL_BLOCKS
  /\ \A a \in Addresses : data[a] \in Bytes \cup {0, JUNK}
  /\ DOMAIN contents \subseteq Names /\ regrown \in BOOLEAN

(* The blocks of the first k entries. *)
BlocksOfFirst[k \in 0 .. MAX_FILES] ==
  IF k = 0 THEN 0 ELSE BlocksOfFirst[k - 1] + files[k].block_count

BlocksAccounted == BlocksOfFirst[MAX_FILES] + free_blocks = TOTAL_BLOCKS
NamesUnique == \A i, j \in Slots : InUse(i) /\ files[i].name = files[j].name => i = j
SizeCovered == \A i \in Slots : files[i].size <= files[i].block_count * BLOCK_SIZE

(* The file table is consistent through growth, failed allocations and      *)
(* deletions: the blocks of the files and the budget add up to the disk,    *)
(* every call for a name concerns the same file, and a read that is bounded *)
(* by a file's size stays in the file's blocks.                             *)
TableConsistent == BlocksAccounted /\ NamesUnique /\ SizeCovered

(* The blocks of different files do not overlap. *)
Disjoint ==
  \A i, j \in Slots :
    i # j /\ files[i].block_count > 0 /\ files[j].block_count > 0 =>
      \/ files[i].block_start + files[i].block_count <= files[j].block_start
      \/ files[j].block_start + files[j].block_count <= files[i].block_start

(* As long as no file that already had blocks has grown, files are kept     *)
(* apart, and below the counter, even when others are deleted.              *)
DisjointUntilRegrown ==
  ~regrown =>
    /\ Disjoint
    /\ \A i \in Slots :
         files[i].block_start + files[i].block_count <= free_block_start

(* Every read of a file gets what was last written there, and zero where    *)
(* nothing was.                                                             *)
ReadsBack ==
  mounted =>
    \A i \in Slots : InUse(i) =>
      /\ files[i].name \in DOMAIN contents
      /\ ReadFile(files[i].name, 0, WIDTH32) = contents[files[i].name]

(* ReadsBack, as long as no file with blocks has grown and the counter has  *)
(* not run past the end of the disk.                                        *)
ReadsBackUntilRegrown ==
  ~regrown /\ free_block_start <= TOTAL_BLOCKS => ReadsBack

=============================================================================
