# A verification project for SnekOS

SnekOS is a small 64-bit kernel: it boots from GRUB, sets up memory, a keyboard,
a screen and disk drivers, and then runs a terminal or a game of snake.  It has
no processes and no threads.  What makes it hard is that one loop
(`kernel_main`) and the interrupt handlers share everything (the heap, the text
buffer, the game) without a single lock, that memory is managed by three layers
that trust one another, and that little of it is tested.

The modules here are written from the C sources (`src/src/kernel/`), one per
component.  Names of actions and variables are the names of the functions and
variables they model.

## The system

| Component | State | Operations | Interacts with |
|---|---|---|---|
| Physical memory (`memory/pmm.c`) | `bitmap`, `next_block`, `entry` | `init_pmm`, `allocate_size`, `allocate_block`, `free_block`, `free_multi` | called by virtual memory; reads the memory map that multiboot built |
| Virtual memory (`memory/memory.c`) | the page table up to `table_end` | `request_page`, `request_memory`, `request_memory_addr`, `get_phys_mapping` | takes blocks from physical memory; called by multiboot (the framebuffer), the heap and AHCI |
| Heap (`memory/kmalloc.c`) | the list of blocks from `heap_start` to `heap_end` | `kmalloc`, `kfree`, internally `split_block`, `merge_blocks`, `expand_heap` | called by everything, from the main loop and from the keyboard interrupt |
| Console (`console/console.c`) | text and colors, input line, `input_mode`, `update_console`, one pending command, the grid and what is drawn on it | `kprintf`, `enable_input`, `console_loop`, `handle_commands`, `run_pending_command`, `console_keyboard` | main loop and keyboard interrupt; fills the screen through graphics and font |
| Commands (`console/commands.c`) | none of its own | 26 functions, with `atoi` and `itoa` of `stdlib/stdlib.c` | run by the console; change its grid, call the disks, PCI and the game |
| Keyboard (`drivers/keyboard.c`) | shift flags, callback table | `init_keyboard`, `attach_keyboard`, `handle_key` | interrupt 1; calls the console's and the game's callbacks |
| Interrupts (`interrupts/`) | `handlers[256]`, the registers of the two interrupt controllers | `init_idt`, `init_pic`, `pic_mask_irq`, `pic_unmask_irq`, `irq_handler`, `isr_handler`, `add_handler` | calls the keyboard and the timer |
| Timer (`drivers/timer.c`) | a tick counter | `init_timer`, `inc_time`, `wait_ticks` | interrupt 0; the main loop spins on it |
| PCI (`drivers/pci.c`) | `device_list` | `pci_check_all_busses`, `pci_check_bus`, `pci_check_device` | scanned once at boot; AHCI and ATA search its list |
| Kernel main (`kernel.c`) | none of its own | the order of the boot, the endless loop | calls everything |
| Snake (`console/apps/snake.c`) | the game behind `game_bd` | `init_game`, `update`, `handle_key_input`, `main` | main loop and keyboard interrupt |
| Disks (`drivers/ahci.c`, `ata.c`, `disk.c`) | port and device tables, controller registers | `init_*`, `ahci_read/write`, `ide_ata_access`, `disk_read/write` | polls the hardware |
| Multiboot, graphics, font, serial, stdlib, boot code | set up once or stateless | | |

Interrupt gates keep interrupts disabled while a handler runs (`idt.c`), so a
handler is atomic as the main loop sees it; the main loop can be interrupted
between any two instructions.

### What is hard, and what correct means

* **Physical memory**: the hint from which searches start must follow every
  free; runs at the end of the memory; memory that the boot loader and the kernel
  occupy must never be handed out.
* **Virtual memory**: a region starts somewhere in its first two pages, so the
  number of pages mapped is a matter of one page; the table fills up and then
  requests fail half way; two regions must not share memory.
* **Heap**: three pointer-patching operations that must leave one chain in the
  order of the addresses; allocations must never overlap or be lost, and calls
  must end.
* **Console**: a hand-made mutual exclusion (`input_mode`), a one-command slot
  and a dirty flag between loop and interrupt; a drawing loop that walks the text
  with four counters and two pointers, starts again when the text wraps, and reads
  the end of the text while the interrupt moves it.
* **Commands**: two passes over a line that must agree about its words; arithmetic
  in `int`; sizes of the grid read from text, on which the drawing loop relies.
* **Interrupts**: the firmware's vectors are those of exceptions and must be moved
  before the first interrupt; every interrupt, also a spurious one, must be
  acknowledged at the controllers that wait for it.
* **PCI and boot**: nested loops over buses, devices and functions with early
  exits; waits for a timer that only interrupts move.
* **Keyboard**: state spread over interrupts (shift), a callback table that
  grows while interrupts come, interrupts enabled before the handler is set.
* **Snake**: keys between two moves, the move that ends the game.
* **Disks**: hardware that answers late, with an error, or not as expected, and
  is watched by polling; three ways of writing a sector number into registers.
  A drive must touch only the sectors asked for, and what a call returns must be
  what happened.

The file `PROJECT.json` lists each hazard at its line with the properties that
would catch it.

## Modules

| Module | Models | Role |
|---|---|---|
| `BlockPool` | nothing in the code | the abstract promise of a block allocator |
| `Pmm` | `memory/pmm.c` | detailed; implements `BlockPool` under `taken <- bitmap` |
| `MCPmm` | | a small memory map for TLC |
| `Memory` | `memory/memory.c`, `map_framebuffer` | extends `Pmm`; each of its steps that allocates contains a step of `Pmm` |
| `MCMemory` | | a small memory map for TLC |
| `MemoryProofs` | | theorems about `Pmm` and `Memory` |
| `Allocator` | nothing in the code | the abstract promise of `kmalloc` and `kfree` |
| `Heap` | `memory/kmalloc.c` | one list step per action; implements `Allocator` under `owned <- held` |
| `HeapProofs` | | theorems about `Heap` |
| `Console` | `console/console.c` | main loop and interrupt |
| `ConsoleProofs` | | theorems about `Console` |
| `Redraw` | the drawing loop of `console_loop`, `draw_char`, `fill_screen` | with keys struck while it draws |
| `MCRedraw` | | short texts and grids for TLC |
| `RedrawProofs` | | theorems about `Redraw` |
| `Commands` | `console/commands.c`, splitting of a line, `atoi`, `itoa`, `isr_handler` | one action per command |
| `MCCommands` | | lines for TLC |
| `Interrupts` | `interrupts/idt.c`, `interrupts/handlers.c`, `drivers/timer.c` | with the interrupt controllers and devices as environment |
| `Pci` | `drivers/pci.c`, the searches of its list in `ahci.c` and `ata.c` | one function per step |
| `Boot` | `kernel.c` from `init_idt` on | composes `Interrupts` and `Pci` |
| `MCBoot` | | small machines for TLC |
| `BootProofs` | | theorems about `Boot` |
| `Keyboard` | `drivers/keyboard.c`, `interrupts/handlers.c` | with the controller as environment |
| `KeyboardProofs` | | theorems about `Keyboard` |
| `Snake` | `console/apps/snake.c` | game and interrupt |
| `SnakeProofs` | | theorems about `Snake` |
| `DiskCall` | | what the two drivers share: the processor, the call, the machine |
| `Ata` | `drivers/ata.c` | IDE driver, with the drives as environment |
| `Ahci` | `drivers/ahci.c` | AHCI driver, with the controller as environment |
| `Disk` | `drivers/disk.c`, the disk commands | composes `Ata` and `Ahci` |
| `MCDisk` | | small drives and machines for TLC |
| `DiskProofs` | | theorems about `Disk` |

How the state corresponds to the code:

* `Pmm.bitmap` is the set of block numbers whose bit is set; addresses are block
  numbers, and `last` records what the last call asked for and the block whose
  address it returned.  A call is one step: nothing interrupts it (see Console).
  The boot computations (`entry`, `total_blocks`, the marking loops) are constant
  operators, including the extra byte that the bitmap always has and the bitmap
  being marked with a byte, not a bit, per block.
* `Memory.table` is the sequence of entries below `table_end`; `regions` is a
  history of what was mapped (owner, virtual address, physical address, size).  The
  boot's order is kept: `init_multiboot` maps the framebuffer first, `init_heap` the
  first chunk, and only then the heap grows and AHCI asks for its registers.  The
  `int` arithmetic of `request_page` is kept: past `INT_LIMIT` an address is
  either the 64-bit value or the wrapped, sign-extended one.
* `Heap.blk` maps header addresses to headers; absorbing a block removes it from
  the domain.  `held` is what callers own.  `Top + gap` stands for the address
  that `request_memory` returns: above all earlier regions, which is `Memory`'s
  `RegionsAscend`.
* In `Console` the main loop has a program counter; `kprintch`'s two
  post-increments are a load and a store each, so an interrupt may come in
  between.  Text is counted, not stored.  `prompt_end` is a history variable.
* In `Redraw` pointers are indices into `con_memory`; `screen` maps a cell to the
  index of the character drawn in it, so that a property can say which character
  is where.  Characters are of four kinds: a glyph, a newline, a tab, and the zero
  beyond the text.
* In `Commands` a line is a sequence of tokens (a blank, a digit, a sign, another
  word), an `int` has `INT_BITS` bits; `blocks` counts the heap blocks a line or a
  command holds.  A fault of the processor leads to `isr_handler` and stops.
* `Interrupts.pic` has the registers of both controllers: vector offset, mask,
  requests, what is in service, and how far an initialisation has come.  `to_go` is
  `stop - time`.  `kernel_main` goes on only while no handler runs.
* `Pci.config` is the machine: it maps (bus, device, function) to a class and to
  the multi-function bit.  It is chosen when the scan begins, so that the boot
  before it is explored once.
* In `Keyboard` each scan code carries (as history) whether a shift key was down
  when it was sent, so the decoded case can be compared with what the user meant.
* `Snake.food` is a set of tile indices, so an index computed from a head beside
  the board hits another row exactly as it does in the C array.
* `Disk`: one processor (`pc`) runs both drivers; the drives and the controller
  take their own steps in between.  `machine` is the hardware, constant in a
  behaviour.  Registers hold digits (`Byte` stands for 256, `Nibble` for 16 values),
  so a sector number is taken apart by the driver and put together by the
  drive.  `moved` is the history of what the drive read or stored in this call.
  Where hardware differs, or the standards leave it open, it is a choice: a
  controller may or may not go by the direction in a command's header
  (`machine.heeds`; if it does, it completes without moving data or fails), a drive
  with data pending may or may not take a command (`deaf`), a port may or may not
  halt at an error, the field `pmport`, which the driver never sets, holds
  anything.  Allocations of command tables and entry lists are left out.

## Runs

Each run answers one question.  Bounds are the constants of the `.cfg` files.

| Run | Result | What it shows |
|---|---|---|
| `Pmm` | holds, 1 270 states | hint sound (`NextBlockHint`), boot memory never granted (`BootMemoryKept`), refinement of `BlockPool` (`IsBlockPool`) |
| `Memory` | holds, 2 506 states | every byte of a region that its owner uses is mapped to its own physical byte, but for the end of the last region of a full table (`RegionsMapped`), regions ascend (`RegionsAscend`), chunks of equal or growing lengths share no physical memory (`ChunksApart`) |
| `MemoryOverlap` | violated | `RegionsDisjoint`: see findings |
| `Heap` | holds, 235 804 states | list shape, allocations intact, no byte lost, no NULL without a reason (`NullHasReason`), refinement of `Allocator` (`IsAllocator`), every call returns |
| `Console` | holds, 5 126 states | mutual exclusion, no lost character, prompt safe from backspace, one command in the slot, prompt returns |
| `ConsoleLost` | violated | `CommandRuns`: see findings |
| `Redraw` | holds, 448 753 states | the screen is the end of the text (`ScreenIsTail`), only tabs leave the grid, how far past the end the drawing loop may be (`NeverLost`), every drawing ends |
| `Commands` | holds, 100 826 states | a command gets the words of its line, answers are exact and the grid keeps a row and a column (`AnswerIsExact`) |
| `Boot` | holds, 711 632 states | no interrupt arrives as an exception, none stays in service, the PCI scan is complete, the boot reaches its loop |
| `Keyboard` | holds, 146 888 states | shift flags and case, order of callbacks, the dead keyboard after an early key and only then |
| `Snake` | holds, 360 511 states | one apple, the snake in one piece on the board, array bound, score, no reversal |
| `Disk` | holds, 211 176 states | only the sectors asked for are moved, success and errors are real, the primary channel's drives are found, calls return |

The type invariant of a module is a conjunct of the property named with it:
`NextBlockHint` (Pmm), `ListWellFormed` (Heap), `SnakeInOnePiece`, `LastAttachedFirst` (Keyboard),
`RegionsAscend` (Memory) and `OnlyAskedMoves` (Disk); `Console`'s is part of the
inductive invariant that is proved.  That no byte of the heap is lost
(`SizesAddUp`) is a conjunct of `NullHasReason`, and that the grid keeps
a row and a column (`GridHasCells`) one of `AnswerIsExact`.

Why the bounds are enough:

* `Pmm`: 14 blocks of memory, 16 bits, requests of 1, 2 and 3 blocks.  The kernel
  ends in the middle of a block, boot information splits the free blocks in two
  areas, and the memory fills up completely, so runs that wrap around used
  blocks, end at the last block or do not fit all occur.
* `Memory`: chunks of two sizes (a page or two and a header, as `init_heap` and
  `expand_heap` ask for) at every alignment within two
  pages, a table of 14 entries that ends in the middle of a request, exactly
  with it, and with only the spare page missing; addresses wrap from entry 10 on.
  The AHCI registers lie in the second of their two pages and what `init_ahci` asks
  for runs past it.
* `Heap`: size 0, as for a command without arguments, and sizes that fit exactly,
  leave too little, and leave enough for a split;
  three chunks with gaps between them, up to a full heap; expansion may fail at any
  time.
* `Console`: two commands, outputs of 0 and 2 characters, six keys at any moment:
  enough for a line, a command, its output and the next line.
* `Redraw`: all texts of up to 6 glyphs and newlines, and up to 3 with tabs, on grids
  of 1 to 3 rows and 1 to 3 columns: lines that fill a row exactly, wrap several
  times and do not fit, so that `start` moves more than once.  Two keys at any
  moment take one character away behind `c` or add a line.
* `Commands`: ints of 4 bits, so that three digits overflow; every
  arithmetic command followed by every sequence of up to 6 tokens (the others by up
  to 3, 4 or 5), after a first line that may have set the grid.
* `Boot`: the two lines of the first controller that have a handler (timer and
  keyboard), the first and the last line of the second controller,
  two interrupts of devices and a spurious one, late or during the set-up; two
  devices with up to 3 functions on bus 0 and one on bus 1, on hosts of one or of
  several functions.
* `Keyboard`: both shift keys, a letter and F1, four codes in any order of
  presses, repeats and releases, two callbacks attached at any moment (`MaxAttached`
  bounds the exploration; nothing in the code checks the size of the table).
* `Snake`: a 3x3 board is filled by a snake in every way; the snake reaches the
  largest possible length, so the bound on its length is met with equality.
* `Disk`: thirteen machines: no disk, IDE drives of every kind as master and slave,
  a packet device alone (whose late answer makes the selection of the slave fail),
  AHCI with the drive on the first or a later port and 1 to 3 command slots, one of
  them with a controller that goes by the direction in the header.  With
  registers of three values LBA28 ends at 54 sectors and the largest drive has 56,
  so that wiping it crosses the boundary between the modes; the CHS drive ends one
  sector before its geometry.  Users also name sectors past the end of every
  drive, and the last that a `uint32_t` can name (80), after which it wraps.
  All callers move one sector at a time; so do the runs.

`Keyboard.cfg`, `Redraw.cfg` and `Commands.cfg` switch the deadlock check off: the
number of keys or lines is bounded, and when all are served nothing is left to do
(in `Commands` the machine may also have stopped at an exception).  In all other
runs a deadlock would be an error.

### Fairness

* `Heap`: `WF_vars(Continue)`.  A call that was made runs on; nothing in it waits.
  Nothing is assumed about whether new calls are made.
* `Console`: `WF_vars(MainStep)`.  `kernel_main` loops forever and interrupts
  return.  Nobody has to strike keys.  That a command ends is part of the model
  (one step): the command `call` could in fact run forever.
* `Redraw`: `WF_vars(MainStep)`, for the same reason; keys are bounded.
* `Boot`: weak fairness of the timer's ticks, of the delivery of an interrupt that the
  processor may take, and of a handler's steps; strong fairness of `kernel_main`,
  which is interrupted again and again but goes on between two interrupts: a
  handler takes microseconds and the timer ticks once in a millisecond (`Tick`
  waits until the handler before it is done).  No fairness of other devices.
* `Keyboard`: weak fairness of the controller (`Offer`), of the interrupt and of
  the boot (`init_keyboard`).
* `Disk`: `WF_vars(DriverStep)` (a polling driver runs on), and weak fairness of each
  drive and of the controller: hardware that never answers hangs the kernel, as
  nothing limits the waits.  `CallsReturn` claims nothing for calls that begin
  after a port has halted, because nothing restarts the port: they never return.

`Pmm`, `Memory`, `Commands` and `Snake` state safety only.

## Findings

1. `MemoryOverlap`: `allocate_size` returns the address of the *last* block of its
   run (`memory/pmm.c:155`), although `pmm.h:16` says the first.  Callers map
   `size` bytes from there on, over blocks that are still free.  A long request
   followed by a shorter one yields two heap chunks that share physical memory.
   `ChunksApart`, which holds and is proved, bounds the harm: nothing else makes
   chunks overlap.  `init_heap` and an `expand_heap` for less than a page ask for the
   same size, so the heap is safe until `kmalloc` is asked for a page or more.
2. `ConsoleLost`: an Enter that arrives while `console_loop` is drawing is lost
   (`console/console.c:469` clears the flag that its `kprintf` had set), and as
   input stays closed until the command has run, the terminal is dead.

### Known departures

Where the code departs from what one would expect, the models have what the code
does, and the properties say where they stop:

* `merge_blocks` (`memory/kmalloc.c:216`) joins a block with a right neighbour of
  another chunk; the result is as large as the two sizes but does not lie in one
  piece, and what is then allocated from it reaches into memory nobody obtained.
* Function keys and Caps Lock make `handle_key` read outside its tables
  (`drivers/keyboard.c:76`).
* An IDE write returns success whatever the drive answers (`drivers/ata.c:369`).
* When the drawing loop moves `start` ("skip start by 1 line", `console.c:451`), its
  own `c++` still follows, so the first character of the new top row is not drawn
  (`First` in `ScreenIsTail`).
* A backspace while the screen is drawn moves `mem_end` behind `c`: the loop then
  runs on until it scrolls back.  `NeverLost` says how far behind the text it can be
  while it still comes back: less than a screenful, unless the line that it skips
  next begins behind the text too.  Undisturbed drawings stay within the text
  except on grids of one row or of two rows and one column, where scrolling itself
  may step over the end.  Texts with a tab are excepted.
* `pci_check_all_busses` stops at the first host function that *is* present
  (`pci.c:132`), so behind a host controller with several functions nothing is
  listed.
* `write` compares with `strcmp` as if it returned true for equal strings: `byte` writes a
  word, anything else a byte, and its error message is out of reach
  (`commands.c:210`).
* `setrow` and `setcol` read their first argument also when there is none: `argv` is
  NULL then, as `kmalloc(0)` returns NULL, and address 0 is read (`commands.c:94`).
* `setrow -1` and `setcol -1` are taken for a huge size, as the size is unsigned, although
  the message at `commands.c:106` asks for "a number greater than 0".
  `AnswerIsExact` says only that the grid keeps a row and a column.
* `request_memory_addr` maps the pages that the size alone counts, from an address
  aligned to 4 MiB on, and one more, "just in case the memory is out of bounds of the
  mapping" (`memory/memory.c:89`).  `init_ahci` asks for 2 MiB (`drivers/ahci.c:46`); from
  the base address that `ahci.c:48` names, `0xfebf1000`, only the first 60 KiB of these
  are mapped, and the next region begins inside them.  The driver uses at
  most `0x1100` bytes (`HBA_SIZE`), which are mapped: for the `"ahci"` region
  `RegionsMapped` and `RegionsAscend` are about these (`Extent`).
* `request_memory` ignores that the spare page was refused (`memory/memory.c:72`, with
  the same comment) and grants a region whose end is not mapped.  `RegionsMapped`
  bounds it: only the region that took the last entry of the table, and no
  more bytes than lie before it in its first two pages.
* `send_command` clears the header's direction bit for every command
  (`drivers/ahci.c:211`, "Read from device"), also for writes, although `ahci.h:245` says
  "Write, 1: H2D, 0: D2H".  A controller that heeds it stores nothing and may still
  complete the command, so `SuccessIsReal` excepts these writes by name
  (`Misdirected`); without the exception TLC finds such a write returning
  success.  Emulated controllers ignore the bit.  That a heeding controller may never
  end such a command is not modelled.
* When the table is full, `request_memory_addr` does not notice and returns an
  address in no page (`memory/memory.c:86`); no region is recorded then.
* Each game attaches a callback and none is ever removed, so the table of 256 overflows
  after enough games (`drivers/keyboard.c:36`, `snake.c:145`); what it would
  write over is not modelled.

In the disk drivers the properties exclude, by name, what goes wrong in other
ways: numbers beyond a CHS drive's geometry wrap to another sector (`Addressable`);
`insl` leaves a word of the identification unread, so a drive that is then deaf
shows up a second time as the slave, or misses its first command (`taken`);
a packet device gets one tick to answer, and when it is still busy then, the
selection of the slave is ignored and the packet device is listed a second time,
as the slave (`regs.sel = 1` in `AllFound`);
a first AHCI drive that is not on port 0 ends in a NULL port (`lost`); a controller
with 1 or 17 slots seems to have none (`cmdslots`), and so every command fails.  The
secondary IDE channel is never probed, and the flush that follows a write is sent
while the drive is busy, so it is ignored.

Two more were met while modelling and are recorded as hazards: a request that
fails half way keeps what it took, and from page 512 on addresses may wrap.

## Proofs

`tlapm` checks these for every value of the constants that satisfies the stated
assumptions.  Each module proves one inductive invariant (`IInv`, in `MemoryProofs`
`MInv` on top of it), with lemmas for its actions; the theorems follow from it.  Every
invariant was an invariant of the component's run before it was proved.

* `MemoryProofs`, of the blocks (from `LayoutAssumption`: the boot information describes
  memory and what is marked lies in it).  The inductive invariant is
  `TypeOK /\ HintSound /\ BootBlocks \subseteq bitmap`.  `HintSound` alone is what
  the refinement needs: a request is refused when no run ends at or after the hint,
  and that no run starts *before* the hint is the hint's contract.
  `BootBlocks \subseteq bitmap` is needed for
  `Release`, which must not give up a boot block.  Theorems: `HintCorrect`,
  `ImplementsBlockPool`, and
  `BootMemoryStays == StridesMeetAll => (Spec => []BootMemoryKept)`.  Its hypothesis
  is what the marking loops need to meet the block of each region's last byte: a
  loop that starts late in a block misses a last byte that lies early in one.
  `linker.ld` aligns the kernel, and the bitmap is marked as if it had a byte per
  block, which makes up for its start from some 18 MiB of memory on.  For the
  multiboot information nothing in the code ensures it (hazard at `pmm.c:48`).
  `MCPmm` has an ASSUME that its memory map satisfies the hypothesis.
* `MemoryProofs`, of the pages (from `MemoryAssumption` too).  The invariant is
  that of the blocks and that each region ends below the pages
  still to come (the last one of a full table excepted) and is backed by the
  consecutive entries it was given (`AllBacked`), above the regions before it (`Ascending`).  The arithmetic is the heart: a
  region begins up to two pages less a block into its mapping, and
  `PagesFor(size) + 1` pages reach over its end only because the heap asks for whole
  pages and a header that is smaller than a block (`ChunkLeavesRoom`).
  `MemoryAssumption` says so of `Sizes`; further that GRUB and the graphics card report
  whole pages, that the registers the AHCI driver uses end within their first two
  pages (a base address register is aligned to the size of what it points to), that
  the table has room for the screen and the first chunk, and that a page address
  fits an unsigned `int`.  Nothing is assumed of the size that `init_ahci` asks for, nor
  that the table keeps room.  Theorems: `RegionsAlwaysAscend`,
  `RegionsAlwaysMapped`.  `ChunksStayApart` needs first fit: a chunk begins at the end
  of the first run that was free, so every run of its length that ends earlier has
  a block in use (`Placed`), and as `Memory` frees nothing it stays so.  The run of a
  later request that is no shorter therefore begins above the block where the earlier
  chunk begins, and its last block, the address returned, is at least that chunk's
  length above (`FirstFit`, `LaterIsAbove`).
  `MemoryImplementsPmm == MemorySpec => Spec` carries the theorems about the blocks over.
* `HeapProofs` (from `HeapAssumption`: sizes are natural numbers, 0 included, and gaps
  positive).  `Linked`
  describes a list by *neighbourhood*: `next` and `prev` are inverse, and a block's
  `next` is above it with none in between.  So no induction over the list is needed, and splitting, merging and
  expanding are lemmas about any list (`SplitLinked`, `MergeLinked`,
  `ExtendLinked`).  The invariant adds that calls and callers refer to blocks that
  exist (`CallOk`, `HeldOk`), that the last block ends within the highest chunk
  (`Room`), so that a new chunk lies above it, and that the blocks are all the memory
  supplied (`Whole`).  Its sum over a set is a fold, which the library defines
  with a CHOOSE of a function; the lemmas about it (adding, removing and
  replacing a member) are proved by induction over the subsets of a finite set,
  stated with a set of sets instead of a predicate (`SetInduction`).
  Theorems: `ListAlwaysWellFormed`, `HeldAlwaysIntact`, `NullAlwaysHasReason`,
  `HeldNeverOverlaps`, and `ImplementsAllocator`: each step of the heap is a step of
  `Allocator` under `owned <- held` or a stutter; a `kmalloc` that walks, splits and
  expands in many steps answers in one.
* `ConsoleProofs` (from `ConsoleAssumption`, which gives the constants their
  types).  The properties are not inductive: that the interrupt finds the main
  loop outside `kprintf` when it opens input depends on where `kprintf` will
  return to (`Stage`), on the slot being occupied exactly while a command
  is on its way (`SlotInv`), and on the line being empty while input is closed
  (`LineInv`).  Theorems: `MutualExclusion`, `PrintingIsAtomic`,
  `BackspaceSparesPrompt`, `OneCommandAtATime`.
* `KeyboardProofs` (from `KeyboardAssumption`, whose last conjunct only says that the
  absence of a code is no code; the number of callbacks attached is any `MaxAttached`).  `ShiftFlagsAgree` speaks of the moment when every
  code is handled; the invariant says at every moment which keys are held once the
  code in the port and any first part of the wire are decoded (`ShiftsTracked`), and
  that is what makes the case of a character that of the moment its key was struck.
  Theorems: `ShiftFlagsAlwaysAgree`, `CaseIsAsStruck`, `LastIsFirst`,
  `EarlyKeyIsLast`.
* `BootProofs` (from `InterruptsAssumption`, `BootAssumption`, `PciAssumption`).  The invariant tells how
  far the initialisation of each controller has come at each of the ten writes
  (`SetUp`), what the vectors are from then on (`Vectors`), that interrupts are off
  before (`Disabled`), and that what is in service is just what the running
  handler will acknowledge (`Service`).  Theorems: `NoIrqsAreExceptions`,
  `Acknowledged`.  A second invariant, `ScanInv`, is about the PCI scan: where its
  three counters can be (`Counters`), that the list has just the functions behind them,
  in order (`Listed`), and what each driver has taken from it (`Found`).  The loops
  stop early in three places, and each is right only because of what a machine
  conforms to (`Conforms`).  Theorem: `ScansAreComplete`.
* `SnakeProofs` (from `BoardAssumption`).  The invariant relates the neck to the
  direction (`NeckBehind`): `NoReversal` follows because the interrupt only notes a
  key and `snake_change_dir` compares with the direction of the last move.  That
  the snake fits its array is the pigeonhole principle for tiles (`Pigeonhole`).
  Theorems: `AlwaysOneApple`, `AlwaysInOnePiece`, `ScoreIsAlwaysGrowth`,
  `NeverReverses`.
* `DiskProofs` (from `DiskAssumption`, `AhciAssumption`, `SectorsAssumption`: the machine
  is one that the standards allow, and users name sectors that a `uint32_t` can
  hold).  For the sector asked for to be the one moved, the driver's digits,
  `Params(mode, d)`, and what the drive makes of its registers, `Address`, must
  agree, in LBA48, LBA28 and CHS: this is arithmetic (`DivMod`, `DivDiv` and what
  follows), for every size of the registers and every geometry.  For what a
  call returns, the invariant says what state a polled command can be in: on a
  port (`OnPort`) it is `Pending`, `Served_`, `Failed`, or `Stuck` behind an earlier
  error; the drive selected (`OnDrive`) is giving or taking its one sector
  (`Transfer`), storing it, or has failed (`Storing`).  A result is real because
  these exclude each other by the bits that the driver looks at, whatever the
  order in which it and the hardware move.  Theorems: `OnlyAskedAlwaysMoves`,
  `SuccessIsAlwaysReal`, `ErrorIsAlwaysReal`.  All calls are for one sector, as all
  callers' are.  For the probe a second invariant is added, `PInv`: nothing was asked
  of the drives before it (`Untouched`), the words of an answer are all there or
  none (`Whole`), and once the master has been probed it is listed or has failed and,
  unless it is a packet device, is not busy (`MasterProbed`), so that the slave's
  selection is heard.  Theorem: `ProbeAlwaysFindsDrives`, an action property.
* `RedrawProofs` (from `RedrawAssumption`: grids have cells, and the memory holds the text and what keys may add).  The loop counts
  rows and columns as it goes and the property counts them from the text, so the
  lemmas first relate the cell of a character to the next one's (`NextCell`) and
  compare layouts that begin at different places (`EarlierTextMoreRows`).  The
  invariant has the shape of the text (`TextInv`), what is true of any drawing, also
  a disturbed one (`LoopType`, `TabsOnly`, `Near`), and of an undisturbed one that it is
  a drawing of the text up to `c` (`Drawn`).  Scrolling is the hard
  step: what follows the skipped line must be a layout that the screen had no
  room for.  The library's induction theorems cannot be used; `Induct` says the
  same of a set of numbers.  Theorems: `ScreenIsAlwaysTail`, `OnlyTabsEverLeaveGrid`,
  `LoopNeverLost`.

Only model-checked:

* all liveness: it rests on fairness and `ENABLED`, which the prover does not have;
* `CommandIsLine` and `AnswerIsExact` of `Commands`: the words of a line and the value of
  a numeral are folds over sequences and nested ones, and `Decimal` recurses on a
  number, so what they compute takes induction over data for each of them.  Its
  conjunct `GridHasCells` needs none of this: a size is taken only if it is positive.

No module of this project declares a RECURSIVE operator.

## Not modelled

* `free_memory`, `map_address`, `goto_line_start`, `console_end` and the expansion of the
  text, which nothing calls.
* `call`, which jumps anywhere, and what the commands that only print information
  print; they are one command, `hello`.
* Pixels, fonts and the two buffers of `graphics.c`: no part reads them back.
* Serial output, the copying routines of the library and `rand`: no state, or pure
  I/O.  `text/print.c` is not compiled.
* The parsing of multiboot tags: its results are constants of `Pmm` and `Memory`.
* The boot code and the linker script: they run once, before anything else; the
  layout they fix is in the constants.

The bounds that the code does not enforce (length of the input line, size of the
text, number of callbacks) are bounds of the models and are listed as hazards.

## Plan

What was planned is done: every safety property of the runs that is not a fold over
text is proved, and the abstract specifications of the two allocators are
implemented.  One composition is left: `Heap`'s chunks as regions of `Memory`, so
that the gaps `Heap` takes as a choice become the addresses that `request_memory`
returns.
