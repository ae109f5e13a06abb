# NansOS: a TLA+ verification project

NansOS is a small x86-64 kernel: one processor, no scheduler, interrupt
handlers that preempt the boot code and the main loop.  This directory models
the parts of it that keep state, checks them with TLC on small instances and
proves their invariants with TLAPS for every value of their parameters.
File names below are relative to `src/src/impl/`.

## The system and its parts

| Part | State | Operations | Interacts with | What makes it correct |
|---|---|---|---|---|
| Heap (`kernel/stdlib.c`) | block list `heap_start` | malloc, calloc, realloc, free | takes pages from the MMU; used by windows, RAM disk, VFS | no byte has two owners; owners get what they asked for; blocks tile the heap |
| Pages (`kernel/mmu.c`) | `next_free_page`, page tables | alloc, map, unmap, is_mapped | shares the bump pointer with the heap | mapped means mapped; table pages never end up in the heap |
| IDT and ISRs (`kernel/idt.c`, `isr.c`) | gates | idt_init, one routine per vector | PIC, PIT, keyboard, mouse | every interrupt is acknowledged and the interrupted code goes on |
| PIC (`drivers/pic`) | masks, requests, services of two 8259s | init, EOI, mask | every driver | no line dies; the cascade is open |
| PIT (`drivers/pit`) | `tick_count`, callback | init, handler | main's `timer_tick` | the driver and the kernel count the same ticks |
| RTC (`drivers/rtc`) | mode bits, `current_time` | init, read, handler | PIC | time is read in the mode that was set |
| Keyboard, keymap (`drivers/keyboard`) | modifier state, callbacks | init, handler, decoding | controller shared with the mouse; calls main | modifiers follow the keys; keys reach the callback |
| Mouse (`drivers/mouse`) | packet cycle, position | init, handler | controller shared with the keyboard | packets stay aligned; the position stays on screen |
| Boot and main loop (`kernel/main.c`) | setup wizard state | init_system, loop, key callbacks | everything | interrupts come when their handlers are ready; the loop wakes |
| Window manager (`drivers/video/window.c`) | window list, active and dragged window, terminal buffers | create ... restore, mouse, key | heap; called from the keyboard handler and the main loop | the list holds the windows, the topmost is active, nothing freed is used |
| RAM disk (`kernel/ramdisk.c`) | file table, block counter and budget, bytes | create/delete/read/write | heap, VFS | files read back what was written |
| VFS (`kernel/fs.c`) | mounts, descriptors, the static buffer of a normalised path | normalise, mkdir; open, close, read, write, seek (unreachable: nothing can be mounted) | strings | a path keeps its meaning when it is normalised |
| Storage, IDE (`drivers/storage`) | device registry; the drives' progress | register, unregister, probe, sector I/O | heap, ports | a registered device exists; sectors come from where they were asked for; every call returns |
| Console (`x86_64/print.c`) | text buffer, cursor | print, clear | everybody prints | it shows the end of what was printed; writes stay on the screen |
| Strings (`kernel/string.c`) | none | copy, move, format | everybody | buffers are filled as far as they reach |
| VGA, serial, ports, sysinfo | output only | | | |

What is hard here: an interrupt can fall between any two instructions as soon
as somebody executes `sti`, and three drivers do; the service routines are
plain C functions that end with `ret`; pointers (the dragged window, the block
after this one, a file's blocks) are kept across operations that can invalidate
them; sizes are unsigned and wrap; drives hang in the middle of a command that
the driver has given up on.  `PROJECT.json` lists each such hazard at
its line.

## Modules

| Module | Models |
|---|---|
| `Allocator` | abstract specification: what the callers of `stdlib.h` rely on |
| `Heap` | `stdlib.c` over `mmu_alloc_page`; implements `Allocator` |
| `KernelMemory` | `mmu.c` over the boot loader's tables, composed with `Heap` on their one bump pointer |
| `Interrupts` | `init_system`, the main loop, IDT, ISRs, PICs, PIT, and the interrupt side of RTC, keyboard and mouse |
| `Keyboard` | `keymap.c`, what `keyboard_handler` does with a byte, the key callbacks of `main.c` and the setup wizard |
| `Ps2` | the controller the two input drivers share, their polling dialogues with it, the mouse's packet decoder |
| `Ramdisk` | `ramdisk.c` |
| `WindowManager` | `window.c` |
| `Ide` | the sector transfers of `ide.c` against two drives |
| `Storage` | `storage.c` and the lifetimes of its devices, composed with `Ide` |
| `Paths` | `vfs_normalize_path` and what `vfs_mkdir` does with its buffer, with the meaning of a path |
| `Strings` | memcpy, memmove, vsnprintf of `string.c`, with what they should compute |
| `Console` | `print.c`, and the properties of `Paths` and `Strings` on every printed text |
| `MC*` | constants for TLC |
| `*Proofs` | theorems about the module of that name (`KernelMemoryProofs` also about `Heap`, `StorageProofs` about `Ide`, `ConsoleProofs` about `Paths` and `Strings`) |

**Heap.** The linked list is the sequence `heap`; `Malloc`, `Free` and
`SplitBlock` are operators on it that follow the functions of the same names,
and each call is one action (the heap has no locks and the model gives it none:
the kernel calls it from one context at a time).  `asked` is a ghost that
remembers what each owner asked for, `last` the fill (memset, memcpy) the last
call made.  realloc splits at the size as given, so `skewed` records when that
has misaligned the list.

**KernelMemory.** A virtual page is the tuple of its four table indices; `tables`
holds the entries that were set, starting with those of `set_up_page_tables`
(two tables of huge pages).  `Ensure` is the three times repeated "ensure ...
exists" of `mmu_map_page`, `Walk` the walk of the processor and of
`mmu_is_mapped`.  Every page, for a table or for the heap, comes from
`next_free_page`.  `Heap` assumes contiguous pages, which `mmu_map_page` and
`mmu_alloc_page` break: when `free` merges two blocks with a page table between
them the ghost `jumped` is set and the model ends, since every later write into
that block may change the tables.  Of the page 0x1000, which `mmu_unmap_page`
takes for the root, the model assumes that it is clear.  Of the flags it keeps
PRESENT and HUGE; callers never pass HUGE.

**Interrupts.** `pc` is the next call of `init_system`; `iflag`, `frames` and
the PIC registers say what may interrupt it. A driver's `init` is one action (it
runs with interrupts disabled up to its last instruction), cut in parts where it
contains a loop without a time-out: the wait for the end of an RTC update
(`rtc.c:46`) and the loops that empty the PS/2 controller's buffer
(`keyboard.c:49`, `mouse.c:37`), which take a step per byte (`FlushByte`). What
these loops look at is `device`, and it changes under them: the RTC begins and
ends updates, and an enabled device fills the buffer again. A computer without a
PS/2 controller reads 0xFF from its ports, so that the buffer never gets empty.
Each callback registration is an action of its own, because interrupts can come
between them. A handler is
entered (`Deliver`, `DeliverSpurious`), runs its body with the flag clear
(`Isr...`), and returns (`Return`). The routines return with `ret`: the flag is
not restored, and code that was interrupted inside a called function has lost
its return address. That is undefined behaviour, so `Return` chooses between
going on and `cpu = "wild"`, a state after which nothing is claimed
(`test_output/serial.log` ends in one). An NMI ignores the flag and can come
inside any handler, once (no `iretq` ends its blocking); a fatal exception halts
the processor. The exceptions that the code itself would have to cause are left
out. The main loop halts in `kernel_main` itself, which never returns, and goes
on. The 8259, the timer, the RTC chip and the PS/2 controller are external:
modelled from how the drivers program them.  `isr_rtc` never reads status register
C, so the RTC requests one interrupt and no more (`RaiseRtc`).

**Keyboard.** The keyboard sends one byte per interrupt, so `wire` holds the
bytes of a key that are still to be read and a prefixed key takes two runs of
the handler, with the decoder's `keyboard_state` kept in between.  The tables
and the decoding are those of `keymap.c`, in ASCII codes.  `registered` counts
the callbacks that `init_system` has set, with interrupts already enabled.  The
wizard's pages and choices are `main.c`'s variables; `desktops` counts the
initialisations of the window system; `source` and `delivered` are ghosts: which
key the bytes come from and which callback the last byte reached.  The wire is
lossless: every byte sent is handled.  The real one loses bytes (`mouse_init`
throws away what it finds in the controller's buffer, `mouse.c:37`, and the polls
of both drivers take key bytes for answers); what that does to the modifiers is
claimed nowhere.  `Ps2` has those losses, but its properties are about the buffer
and the mouse's packets.

**Ps2.** `out` is the controller's one-byte output buffer, `irq` the requested
lines and `config` the lines that the controller's configuration byte makes it
request.  The model starts where `init_system` calls `keyboard_init`: `pic_init`
has unmasked the keyboard's line by then, the firmware may have left any
configuration, and a byte with or without a request.  The drivers also poll the
buffer, and a byte that was polled may leave its request behind (`Poll`); an
answer may come when the driver has stopped polling for it (`PollInVain`); the
commands of `mouse_init` may leave answers that the handler then takes for
movements (`MouseAnswers`).  Each init is one action, with its early returns as
actions of their own.  Every byte carries, as a ghost, the motion and the place in
the packet it belongs to, which is what the decoder cannot see.  Motions have the
nine bits of the protocol; the code never reads the sign bits in the first byte
and casts the other eight to `int8_t` (`mouse.c:158` and `164`), so that a motion
of more than 127 moves the pointer the wrong way, as `Carried` says in
`MovesAsSent`.  `keyboard_enable`, `keyboard_disable` and their mouse counterparts
are public but have no caller in the kernel outside the tests; they are actions
all the same (`mouse_enable` and `mouse_disable` only once the mouse was
initialised).  `packet.y_movement` is used where it is set and is left out.

**Ramdisk.** The byte array is modelled byte by byte, with `memcpy` in the order
`string.c` copies, because the defect is in which bytes move where.  The array is
longer than the disk, filled with `JUNK`, since block numbers can pass its end.
`contents` is the ghost that says what each file should read.

**WindowManager.** `mem` says what lies at each heap address, so that an address
can be freed and used again while somebody still points to it.  Titles, painting
and text are left out; the terminal keeps its cursor.  `window_resize` needs a
flag that no code sets and `on_click` is never set, so neither has an action.
`window_handle_mouse` has no caller in this version (`main.c:344` has a TODO); the
run `windows_drag` says what it does once it is called.

**Ide, Storage.** The driver polls; what it races with are the drives.  A drive
is idle, busy or offering/expecting data (`drq`); it answers, fails or hangs in
its own time, and a busy one ignores commands.  It shows busy as soon as it has
a command (the driver's port accesses are slower than that).  A call goes
through `EnterCall`, `SendCommand`, a `TransferSector` per sector, for a write
`AwaitFlush`, and may end in `WaitTimesOut` at every wait, which leaves the
drive where it is for the next call to find.  A sector is the pair of drive and
address that crossed the data port, or `Garbage` when the port was read while no
data was offered.  The ghosts `clean` and `trouble` say whether the call found
the drives idle and met a time-out or an error.  The registry's operations run
between calls; `live` holds the allocated devices.  A drive that takes 48-bit
commands gets the address bytes in the wrong order and transfers from
elsewhere (`Command48`), and nothing is claimed for its calls.  Through the
operations table (`ide.c:19`) the functions would get a `StorageDevice*` for an
`IDEDevice*`; nothing calls them that way and the model does not.  At its end
`storage_unregister_device` prints the name of the device that the cleanup has
freed (`storage.c:85`): a read of freed memory, on which no state depends.

**Paths, Strings, Console.** `Paths` and `Strings` follow the loops of the C
functions and set beside them what the result means (`Resolved`, `Moved`,
`Expanded`, `IsNumeral`), independently of the loops.  A loop is a recursive
function of the number of rounds (`Copying`, `FormatRounds`, `DigitRounds`,
`Rounds`), so that it can be reasoned about.  `vsnprintf` has `%s`, `%d` and `%x`
with their own digit buffers and copying loops, the terminator and the value
returned; every directive of a kind gets the same argument, and `INT_MIN`, whose
negation overflows, is outside.  `vfs_normalize_path` writes to a static buffer of
`MAX_PATH_LEN` bytes and checks nothing against its end (`fs.c:66`): the
properties are about paths that are shorter than the buffer, and say that these
stay in it.  `Console` keeps the text buffer with
one cell more than the screen.  Its `text` is everything printed so far, which
makes the run go through all short texts; each of them is also taken as a path,
as memory and as a format.  `print_char` is one step; in the code `special_key`
prints in the keyboard's interrupt (`main.c:333`) while `run_setup_wizard` prints
with interrupts enabled (`main.c:474`), and the two could interleave within a
character.

## Runs

| Run | Checks | Shows |
|---|---|---|
| `heap` | `TypeOK`, `Tiling`, `OwnersServed`, `Aligned`, `LiveDisjoint`, `AllocatorSpec` | with requests that fit a page the heap is sound and implements `Allocator` |
| `kernel_memory` | `MemoryApart`, `MapsJustThat` | heap and page tables share the bump pointer and still keep apart; mapping a page maps that page and no other |
| `kernel_unmap` | `UnmapTakesEffect`, violated | `mmu_unmap_page` looks for the page under another root and leaves it mapped |
| `interrupts` | `TypeOK`, `AllAcknowledged`, `VectorsReady`, `TicksAgree`, `BootCompletes` | wherever interrupts and NMIs fall, they are acknowledged in time, find their tables, the two tick counters agree; boot ends, or, without a PS/2 controller, hangs in `mouse_init` |
| `interrupts_halt` | `HaltWakes`, violated | after a timer, mouse or RTC interrupt the loop halts with interrupts off for ever |
| `keyboard` | `TypeOK`, `NoStuckModifier`, `PrefixConsumed`, `SetupInOrder`, `ChoicesFinal` | in any mix of presses, repeats and releases no modifier sticks and no prefix is misapplied; the wizard is walked in order, once |
| `ps2` | `TypeOK`, `NoStuckByte`, `AlignmentKept`, `MovesAsSent` | once an initialisation has configured the controller, its buffer is never left full with no interrupt to empty it; whole packets move the pointer by what their bytes carry |
| `ramdisk` | `TypeOK`, `TableConsistent`, `DisjointUntilRegrown`, `ReadsBackUntilRegrown` | the accounting is right always, the data as long as no file with blocks grows and the counter stays on the disk |
| `windows` | `TypeOK`, `ActiveIsTopmost`, `ListHoldsWindows`, `BuffersOwned`, `StackingKept` | the list, the active window, the buffers and the stacking order survive any calls |
| `windows_drag` | `DragsExistingWindow`, violated | a click on the close button drags a window that it destroys |
| `storage` | `TransfersAsAsked`, `RegistryKept`, `OnlyFreedLeave`, `CallsReturn` | a transfer without trouble moves what was asked and leaves the channel clean, although the driver never looks for DRQ; no call waits for ever; nothing dangles in the registry |
| `console` | `ShowsText`, `NormalisesAbsolute`, `NormalisesInPlace`, `MovesOverlapping`, `FormatsWithinSize` | the screen shows the end of the text; paths, moves and formats come out as they should, with the exceptions the properties name |

Every property of a passing run has a mutant in `PROJECT.json`: a plausible bug
under which TLC finds the property violated.

**Disagreements without a run.** Where the code is known to break what it says,
the properties above say up to where it holds:

- `malloc` ("No free block found, allocate new memory", `stdlib.c:79`) takes one
  page whatever the size.  A request larger than a page in `Requests` of
  `MCHeap.cfg` makes TLC refute `LiveDisjoint`; `ramdisk_create` asks for 1 MiB.
- `kernel_main` says "Disable interrupts during initialization" (`main.c:454`),
  but `mouse_init`, called by `keyboard_init`, executes `sti`.  `VectorsReady` and
  `TicksAgree` say what holds all the same.
- `ramdisk_write` ("Copy existing data to new location", `ramdisk.c:231`) gives a
  file that grows again only the additional blocks: hence `...UntilRegrown`.
- `scancode_to_ascii` ("Ignore key releases and extended keys", `keymap.c:207`)
  runs after the prefix has been forgotten, so prefixed keys produce characters.
- `vfs_normalize_path` ("remove .., ., and multiple slashes", `fs.c:26`) turns
  `/a/b/../..` into `/a/` and a relative path that steps up into an absolute one;
  it keeps a double slash of `//a`, `/./a` and `/a/../b` and leaves one at the end
  of `/a/.`, since each round looks only at what it reads and not at the slash
  written last.  `NormalisesAbsolute` says which paths come out without.
  `vfs_mkdir` loses the name when the parent is the root.
- `vsnprintf` returns the number of characters it has written; the test of the
  truncated case (`tests/test_stdio.c:81`, "Incorrect total length returned")
  asserts more than 9 where it returns 9.  `FormatsWithinSize` says what is
  returned.  (`test_stdio.c:68` expects 15 for "Test string 42", which has 14
  characters.)
- `keyboard_init` gives up when there is no controller ("Initial controller
  timeout", `keyboard.c:39`), but `mouse_init`, which `init_system` calls next,
  has no such test and hangs: the second part of `BootCompletes`.
- `print_char` writes a line's 81st character into the next row's first cell.
- `rtc_init` sets binary mode and `rtc_read_time` converts from BCD.

**Bounds.** `heap`: pages of 10 bytes with headers of 2 and a `size_t` of 64, so
that splits with and without room, merges, moves, and a product that wraps
around all happen within the two pages that `HeapLimit` allows.  `kernel_memory`:
four pages, enough for three levels of tables with a heap page before or
between them; six virtual pages that share all, some or none of their tables
or lie in the boot loader's.  `interrupts`:
counters of 8 and 4 values, so both wrap; `MaxDepth` 3 lets a handler nest in a
nested one, and nothing but the bound distinguishes deeper nesting.  `keyboard`:
twelve keys, with both sides of shift and control, a prefixed modifier, both
Enter keys, and a letter that control turns into Enter; two are down at a time,
which is what it takes to mix a left and a right key.  `ps2`: a screen of 6 by
2 that one motion crosses, three motions whose bytes do and do not look like first
bytes and one of which is too long for `int8_t`, and three unread answers, a whole
packet of them.  `ramdisk`:
`MaxBlocks` is one more than the disk has, so the counter runs past its end; four
names for two entries fill the table and one name is too long; the writes
overwrite, leave holes and need from one to three blocks.  `windows`: three
windows (fewer do not tell a rotation of the list from a swap) and four
addresses, interchangeable (`SYMMETRY`, sound because no liveness is checked and
addresses are only compared), so that the window limit and the memory limit are
both met; two mouse positions, one on the close button of a new window.
`storage`: registers of three values, so that an address fills all four of them,
the next one carries, and a count can be a whole register; two drives and two
slots.  `console`: a screen of two by two and texts of up to six of seven
characters, enough to wrap, to scroll several times, for `/s/../`, for a path that
fills its buffer and for three directives, with numbers of one to three digits and
both signs in buffers that end before, in and behind them.

**Deadlock** is checked in `windows`, `keyboard`, `ps2` and `storage`.
`heap`, `kernel_memory`, `ramdisk` and `console` may stop at their
bounds; `interrupts` does stop: halted with interrupts disabled.

**Fairness** (`FairSpec` of `Interrupts`): the processor executes the code it is
in (weak fairness of handlers and returns), takes an interrupt that stays
presented, and the timer keeps ticking (the PIT is in periodic mode).  The boot
code is strongly fair: an interrupt storm interrupts it, but human input and a
100 Hz timer leave it time, and the loop that polls the RTC meets it between two
updates (one takes 2 ms of every second).  An update of the RTC ends (weak
fairness).  Of the PS/2 controller nothing is assumed: that the flush loops end is
shown from the devices being disabled first, and the mutant of `BootCompletes`
leaves them enabled.  The waits with counted time-outs are part of the steps they
stand in.  `StorageSpec` assumes only that the driver's own
steps happen (its polling loops count down from 100000); drives may hang for
ever.  The other specifications state no fairness; in
particular `Ps2` claims nothing about when its handlers run, because
`interrupts_halt` shows that interrupts can stay disabled.

## Proofs

TLC checks small instances; the theorems hold for every value of the constants
that satisfies the modules' assumptions, which restate what the C types and the
sizes in the headers say.  Five assumptions deserve a word.  `RequestsFitAPage`
is a hypothesis of the theorems about the heap and not an assumption of the
module: every request, rounded up, fits a page together with its header.  It
cannot be dropped (see above).  `AlignmentAssumption`: the first page, the page
size and the header size are multiples of 8, as 0x400000, 4096 and 24 are.
`WritesAssumption`: a write to the RAM disk ends where its number of blocks still
fits the `uint32_t` that `ramdisk.c:219` keeps it in; a longer one would wrap, be
given too few blocks and be copied all the same.
`CharactersAssumption`: the terminator is not printed; `print_str` and the string
functions stop at it.  `NumbersAssumption`: the numbers that are formatted are
`int`s that can be negated.

The theorems about the heap stand in `KernelMemoryProofs` before those about the
memory it shares, which need its lemmas; they use no assumption of `KernelMemory`.

| Module | Theorems (the property) |
|---|---|
| `KernelMemoryProofs` (heap) | `HeapInvariant`, `TypeCorrect` (`TypeOK`), `BlocksTileTheHeap` (`Tiling`), `OwnersHoldTheirBlocks` (`OwnersServed`), `LiveRegionsDisjoint` (`LiveDisjoint`), `PointersAligned` (`Aligned`), `HeapImplementsAllocator` (`AllocatorSpec`) |
| `KernelMemoryProofs` (tables) | `MemoryKeptApart` (`MemoryApart`), `MapsTheOnePage` (`MapsJustThat`) |
| `InterruptsProofs` | `InterruptsInvariant`, `TypeCorrect` (`TypeOK`), `InterruptsAcknowledged` (`AllAcknowledged`), `InterruptsFindTheirVectors` (`VectorsReady`), `TickCountersAgree` (`TicksAgree`) |
| `KeyboardProofs` | `KeyboardInvariant`, `TypeCorrect` (`TypeOK`), `PrefixRemembered` (`PrefixConsumed`), `ModifiersReleased` (`NoStuckModifier`), `WizardInOrder` (`SetupInOrder`), `ChoicesNeverChange` (`ChoicesFinal`) |
| `Ps2Proofs` | `Ps2Invariant`, `TypeCorrect` (`TypeOK`), `BytesAreTaken` (`NoStuckByte`), `DecoderStaysAligned` (`AlignmentKept`), `PointerMovesAsSent` (`MovesAsSent`) |
| `StorageProofs` | `StorageInvariant`, `CallsTransferAsAsked` (`TransfersAsAsked`), `RegistryConsistent` (`RegistryKept`), `RemovalSparesOthers` (`OnlyFreedLeave`) |
| `RamdiskProofs` | `RamdiskInvariant`, `TypeCorrect` (`TypeOK`), `TableStaysConsistent` (`TableConsistent`), `FilesKeptApart` (`DisjointUntilRegrown`), `FilesReadBack` (`ReadsBackUntilRegrown`) |
| `WindowManagerProofs` | `WindowsInvariant`, `TypeCorrect` (`TypeOK`), `ListHoldsEachWindow` (`ListHoldsWindows`), `KeysGoToTopmost` (`ActiveIsTopmost`), `BuffersHaveOneOwner` (`BuffersOwned`), `StackingChangesOnTop` (`StackingKept`) |
| `ConsoleProofs` | `ConsoleInvariant`, `ScreenShowsTheText` (`ShowsText`), `MovesBytesAsTheyWere` (`MovesOverlapping`), `FormatsFillTheBuffer` (`FormatsWithinSize`) with `FormatsAll`, `NormalisesWithinThePath` (`NormalisesInPlace`), `NormalisesAbsolutePaths` (`NormalisesAbsolute`) |

Each argument rests on an inductive invariant; what it adds to the properties is
what makes them inductive.

**Heap.** `Tiling` alone is not inductive: free may only merge two list
neighbours because they are adjacent, and releasing a block keeps the owners
right because payloads identify blocks and headers are not empty.  So `HeapInv`
joins the layout (`Laid`), the correspondence of used blocks and owners with
their sizes (`Owns`), the types, and `FillFits`.  The proof goes operator by
operator: what `InsertAt`, `RemoveAt` and `Append` do to a laid-out list, then
`SplitBlock`, `Malloc` and `Free` as lemmas, then one step per call.  `Aligned`
needs the bump pointer aligned too (`Straight`), and that multiples of the
alignment add up to multiples.  The refinement maps every call to one step of
`Allocator`; that a new region is fresh is `LiveDisjoint` in the next state and
that `malloc` never returns a pointer somebody owns.

**KernelMemory.** `Laid` has two parameters: the pages that others took from the
bump pointer, which blocks must keep out of, and whether the list tiles what lies
below it.  The heap by itself has none of the one and all of the other; beside
page tables the pages are `TablePages` and the list no longer tiles.  Every lemma
about the block list holds for both, except that a merge must be of adjacent
blocks, which a tight list gives and which here is what `jumped` records.  For a
realloc that moves, this takes `MallocKeepsSuccessor`: the malloc inside it puts
no free block behind a used one.  `MemoryInv` adds that every table page hangs on
one entry; an `Ensure` keeps it because the page at the bump pointer is new.
`MapsJustThat` rests on `TreeInv`: there are levels for the pages such that every
entry of a directory leads one level down, no two lead to the same table, and the
boot loader's entries are as they were.  The levels tell the entries that lead to
tables from those of page tables, whose frames may be any pages, tables too; an
entry that is not present may be replaced, and the table it led to is then kept by
none.  An `Ensure` shows no page differently, since a new table is empty, and the
last entry shows in one page only, since one walk leads to its table.  This needs
nothing of the heap but that it never moves the bump pointer down.

**Interrupts.** Beside the types and the order of the boot steps (`BootOrder`),
at most one handler on the stack has not acknowledged yet (`OneUndone`), and
whatever is in service belongs to a handler on the stack (`InService`): that is
why an acknowledgement clears the level it was meant for.

**Keyboard.** The bytes on the wire are the rest of one key (`WireHolds`,
`SourceHeld`), and a modifier that is set is justified by a key that is down or
by its byte still on the wire (`ModifiersJustified`).

**Ps2.** The queue of the mouse and the buffer hold bytes in packet order
(`QueueHolds`, `BufferHolds`), the mouse's line is unmasked only when the
controller requests it and before the mouse sends (`LinesUnmasked`), and a partly decoded packet holds what its motion put into the bytes
read so far (`DecodedSoFar`).  The movement's sign extension and clamping are
shown by arithmetic, for all motions of nine bits.

**Storage.** In a call that found the drives idle and met no trouble the drive is
as far in its command as the driver in its loop (`SmoothCall`).  That the
registers carry the address is an arithmetic lemma about the digits of a number
in base `BYTE`.

**Ramdisk.** The sum of the blocks in use is a recursive function over the table;
that changing one entry changes it by the difference is proved by a least
counterexample, not by induction over data.  `ReadsBackUntilRegrown` needs
`RestIsZero` (what was not written is zero, so holes read as zeros) and
`ContentsHeld`.

**WindowManager.** Every action is classified by what it does to the list (nothing,
append, remove, move to the end: `ListChange`); the invariants are shown for these
four and for what the actions do to memory.

**Console, Strings, Paths.** Texts have any length here, so these theorems are
about what loops compute.  A loop is the history of its rounds, a recursive
function on `0 .. n`.  That such a function exists and has the values its equation
gives (`HistoryExists`, `HistoriesAgree`), and that what the first round has and
every round keeps holds after each (`UpTo`), are shown from the least number of
rounds for which they would fail (`LeastMissing`): plain facts about sets of
numbers, for which no induction scheme has to be instantiated.  Each loop then has
an invariant of its own:

- memmove and memcpy: the bytes copied so far are what the source held before the
  loop, and those still to be read have not been written; the direction decides
  which of the two ends of the overlap is safe.
- vsnprintf (`FormatSoFar`): the output is the expansion of the format up to the
  place reached, clipped to the room, and that place is no character after a `%`.
  Once the room is used up, what follows no longer counts.
- its digits (`DigitsSoFar`): the digits taken so far and what is left of the number
  make up the number, and the highest digit is not zero; eight or ten rounds
  are enough for 32 bits, so that the bound of 31 is never met.
- vfs_normalize_path, in place (`Scans`): less is written than was read; and the
  terminator that the second normalisation writes falls before the name, unless
  the parent is the root.
- vfs_normalize_path, meaning (`ScanMeans`): the components of what was written
  are the names read so far with their dots followed.  Between two rounds the scan
  stands before a name, with a slash written last, or before the slash behind a
  name, with no slash written last if that name is a plain one (`BeforeName`,
  `BeforeSlash`): a `..` steps back over the right name only behind a plain one,
  which is where the condition about `..` after a dot name comes in.
- vfs_normalize_path, slashes (`TidyScan`): no slash was written behind another, and
  where a slash is read next the last character written is none, which takes a path
  without dot names.
- the console (`Displays`): every cell of the screen holds what the text has in
  that line and column, and the cursor is behind the last line.  The invariant says
  this only of lines that fit; a character never makes a line shorter, so that
  lines that fit now fitted before.  `print_clear` keeps every line's length.

**Only model-checked.** `BootCompletes` and `CallsReturn`: liveness under fairness
is out of the prover's reach.  Every other property of a passing run is stated by
a theorem.

## Plan

Done: `Heap` with `Allocator`, `KernelMemory`, `Interrupts`, `Ramdisk`,
`WindowManager`, `Keyboard` (with the setup wizard), `Ps2`, `Ide` with `Storage`,
`Paths`, `Strings` and `Console`; proofs of every invariant, of the refinement and
of all the action properties.

What could come next depends on the code: file system drivers that make the rest
of `fs.c` reachable, an implementation of `scheduler.h`, interrupt routines that
end with `iretq` (which would turn `HaltWakes` into a property to prove).

## Not modelled

VGA drawing, serial and port I/O, CPUID queries (output or single instructions,
no state to get wrong); the scheduler (declarations without an implementation);
the VFS beyond its paths, since `vfs_mount` cannot succeed and no node or
descriptor ever exists; the RTC's time, which nothing but the clock's text
reads (the wait for it is modelled); the unbounded string functions; the boot assembly
but for its page tables.
