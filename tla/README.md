# custom-os: TLA+ models, checks and proofs

custom-os is a 32-bit x86 kernel that boots through GRUB (Multiboot2), brings
up its memory management in stages and then idles with two interrupt handlers.
This directory holds TLA+ models of its parts, TLC instances that check them,
and TLAPS proofs that every safety property of the parts, and of the memory
parts together, holds for all values of the constants.

## The system

The kernel is one thread. `stage0_main` (kernel/init/stage0_main.c) parses the
memory map, builds the allocators, runs a series of self-checks, installs the
IDT, enables interrupts and returns to the idle loop of stage0_entry.S. After
`sti` the only code that runs is the idle loop and the handlers, which share no
data with the memory code. So inside the memory code what is hard is not
threads but long sequences of calls, limits, rounding, partial failure, and the
processor that walks the page tables next to the code that edits them; in the
runtime it is the interleaving of kernel, interrupt controller and devices.

| Part | State | Operations | Calls / is called by | What makes it correct |
|---|---|---|---|---|
| Multiboot2 parser (5A) | cursor, totals | `stage5a_parse_mmap` | reads loader memory; calls 5B | reads inside the structure and ends as long as its 32-bit sums fit, panics on a bad tag |
| Memory policy (5B, 5C) | region table, range table, totals | `stage5b_account_entry`, `stage5c_prepare_frame_bookkeeping` | called by the boot; feeds the PMM | ranges = usable frames above 1 MiB outside the kernel |
| Frame allocator (5D, 6A-6D) | cursor, budget, FIFO of freed frames | alloc, free, seed | called by the heap and self-checks | one owner per frame, exact free, honest budget |
| Boot paging (7A-7C) | page directory, identity table | setup, load CR3, set CR0.PG | before the mapper | identity map of 4 MiB |
| Layout policy (8A) | constants | address predicates, validation | mapper, heap | windows ordered, aligned, disjoint |
| Page mapper (8B) | three page tables | map, unmap, resolve | heap; the processor walks the tables | a partial function from pages to frames; no stale TLB entry |
| Heap (8C-9D), kmalloc (10A-B) | window, `current`, mapped limit, headers | init, alloc, free | PMM, mapper; called by objects | disjoint aligned blocks, first fit, every call returns |
| Byte primitives (10C) | none | set, copy, move, compare | self-checks | right for every overlap, writes confined |
| Kernel objects (11A-D) | list of heap nodes | create, destroy, init, append, find, count, remove | heap | a sequence; walks end |
| Runtime (2-4) | IDT, PIC masks, tick counter | idt/pic/pit set-up, IRQ0, IRQ1, exceptions, idle | devices, processor | every interrupt handled and ended, ticks for ever |
| Self-checks (5D-11E, 6D) | none of their own; the heap, lists and frames they leave behind | scripts of calls, panic on failure | all of the above, in one fixed order | each passes on what the earlier ones left, given enough low frames; the boot ends |
| Serial/VGA output, build files | - | - | - | - |

PROJECT.json lists every component with its sources, and every hazard (what a
test would hardly reach) at its line with the properties that cover it.

## Modules

Names follow the source. In every module "Faulty variant" operators are
plausible bugs next to the definition they would replace; no specification uses
them. They document what each property is able to detect.

- **Arith64**: the clamped and the checked 64-bit addition. The width is a
  constant, so that small instances overflow.
- **FrameTable**, **HeapWindow**: the range table that Stage 5C writes and the
  frame allocator reads, and the numbers that paging and heap share.
- **MemoryMap**, **BootInfo**: Stages 5A to 5C. BootInfo is a state machine that
  reads one tag or one entry per step from arbitrary memory (`TagSet`,
  `EntrySet`), books it with the operators of MemoryMap, and then prepares one
  region per step. A failed check goes to `"panic"`. Cursors and sizes are 32
  bits wide and their sums wrap as in the code. History: `seen` (the entries
  read), `outside` (a byte outside the structure was read) and `wrapped` (a
  cursor plus a size did not fit). Memory that is read twice may answer
  differently, which only adds behaviours. Counters that are only printed, `highest_eligible_addr` (the highest
  frame times the frame size) and the length and raw flag of a stored region
  (never read back) are left out.
- **Pmm**: `frames` is the range table that Stage 5C left, `pmm` is
  `g_stage6a_pmm`, `pending` the FIFO. `held` and `last_alloc` are history: the
  frames that callers own, and what the last call returned. One action per call
  outcome. The loop of `stage6a_pmm_advance_to_next_eligible` is given by where
  it stops. The module is about any range table that is valid (`ValidTable`);
  `FrameMaps` are the tables an instance starts from.
- **BringUp**: extends BootInfo and Pmm. The table is the one that Stages 5A to
  5C make of the loader's structure, and the allocator starts once they are
  done, as in `stage0_main`.
- **PagingLayout**, **Vmm**, **PageMap**: addresses and entries as numbers; one
  action per store and per `invlpg`, between which the processor (external) may
  cache a directory entry, fill its TLB through a cached or present directory
  entry, or evict. `invlpg` drops the page and the directory-entry cache.
  PageMap is the abstract interface.
- **KHeap**, **HeapContract**: one action per loop iteration of the walks and of
  the growth loop; `hdr` holds the headers in memory. The frame allocator and
  the page mapper appear as the outcome of a growth step (four cases). The
  contract knows live blocks only.
- **KMemory**: one action per byte.
- **KObject**, **ObjectList**: node memory with ids and links, reused after
  `kfree` with its old contents; one action per step of a walk. `value` is never
  read and left out. Callers destroy only nodes that are not in the list. The
  abstract list is a sequence plus the nodes left behind by re-initialising a
  non-empty list.
- **Interrupts**: set-up, `sti` with its one-instruction shadow, the idle loop,
  handlers, and the external 8259 (mask, request, in-service), PIT and keyboard
  controller. Handlers are split where the devices can intervene.
- **MemoryStack**: extends Pmm, Vmm and KHeap (hence names such as `PmmNext`,
  `v_pc` and `h_pc`) as they call each other. A growth step of the heap is here
  what the code does: take a frame from Pmm (`GrowTakeFrame`), refuse it above 4
  GiB, call `map_page` and run it store by store, then move the mapped limit
  (`GrowMapped`). Between heap calls other callers take and return frames and
  map pages of the mapping window (`CallerPages`, `CallerFrames`). `growing` is
  the frame a running growth step holds; `owned` is history. No two calls
  overlap: the kernel is one thread, and the handlers use none of this.
- **SelfChecks**, **BootSequence**: `stage0_main` from Stage 5D to `sti`. A
  stage is a sequence of calls whose arguments depend on the results so far
  (`stage9c_calls`) and a verdict (`stage9c_passed`), as in the code: a stage
  goes on after a failed check and decides at its end. BootSequence executes the
  calls one after the other with the steps of the component modules (KObject and
  KMemory included, whose nodes and bytes now lie in the real heap and in the
  stage's buffers), and goes to the next stage or panics. Stages 5D, 7A, 7B and
  6D only print their verdict. `kobject_node_create` and `_destroy` are kmalloc
  and kfree steps followed by their own effect. Left out: the `value` of a node,
  which no function reads (Stage 11A compares it once with what it stored); the
  probe reads of Stage 7D, whose results are only printed; and that a lookup
  behind a failed `&&` is skipped (it changes nothing).
- **MC\*** modules give the constants; KMemory and Interrupts need none.
- **PmmProofs**, **BootInfoProofs**, **VmmProofs**, **KHeapProofs**,
  **KMemoryProofs**, **KObjectProofs**, **InterruptsProofs**,
  **MemoryStackProofs**: theorems about the module of the same name.

## Runs

| Run | Instance | Shows |
|---|---|---|
| `pmm` | 8 frames, FIFO of 2; ascending maps (empty, one frame, adjacent ranges, gaps) and unsorted, overlapping, truncated ones | one owner per frame and no double issue whatever the map; with ascending ranges exact frees, an honest budget, FIFO then lowest first |
| `pmm_neverissued` (violation) | the same | skipped frames are accepted by free |
| `bringup` | words 0..31, frames of 4, kernel at 13..17, tables of 2, FIFO of 1; well-formed, bad and wrapping tags, up to three entries | the parser leaves the structure only after a sum that wrapped and goes back only over a tag whose size wraps; ranges exactly the usable frames (`RangesExact`); only usable frames are handed out; with a map in address order allocation fails only when all are held, and the budget counts the others |
| `vmm` | small tables; pages of both windows, two of them in one table, an identity page, an unaligned one, one outside; an aligned and an unaligned frame | TLB and walk coherence, tables of different windows do not disturb each other, refinement of PageMap |
| `kheap` | three pages of 8, headers of 4, alignment 2, sizes up to the 6-bit maximum | block chain with every walk on it (`HeapIntact`), first fit, progress and termination, refinement of HeapContract |
| `kmemory` | 5 bytes, two byte values | all buffers and overlaps |
| `kobject` | 3 nodes, 2 ids | list well formed under every walk (`ListIntact`), progress and termination, refinement of ObjectList |
| `kobject_reappend` (violation) | the same, callers may append a linked node | self-link of the tail |
| `interrupts` | ticks modulo 8, report every 3, one unused line; the normal build and the one that raises `int3` | set-up order, EOI, keyboard, ticks for ever; the exception halt is final; no ungated vector |
| `memorystack` | pages of 4 bytes, heap and mapping windows of three pages, frames 0..11 below "4 GiB" and 12..15 above, FIFO of 1 | heap pages on frames of their own; no two blocks share a physical byte; no usable frame lost by growth; kmalloc fails only without a low frame; every call ends |
| `boot` | the kernel's own constants and sizes; seven memory maps, with and without `STAGE6D_FORCE_REUSE_TEST` | each verdict is what the map allows, no freed node is used, the boot ends |
| `interrupts_earlykey` (violation) | keys before `pic_remap` | a lost keyboard edge |

Bounds. The PMM instance exhausts the budget, fills the FIFO and wraps the
allocation counter's clamp (`UINT64_MAX` = 15). The `bringup` instance overflows
`base + length`, overfills both tables, and cuts regions on each side of the
minimum and the kernel at aligned and unaligned bounds. The heap
instance has room for three blocks, so splits with and without a rest, an
exhausted window and a growth over two pages all occur; 62 and 63 are the sizes
at which rounding is last possible and first refused. The tick word 8 is no
multiple of 3, as 2^32 is none of 100.

In `bringup` three entries are more than the tables hold, and two frees fill the
FIFO. The address space there ends at 127. The structures are one too short for
a header, two in the lower half, one that ends at 120, so that even `cursor + 8`
wraps, and one that passes the end. Tags of size 112 and 121 go back 16 bytes
and round up to 0, and an entry size of 112 walks back 16 bytes. A parser that
goes back may read entries for ever; a behaviour is followed for `MAX_READS` = 3
of them.

In `memorystack` the heap can grow to its window's end or run out of frames
before; one map has a low frame next to high ones, so high frames are issued,
lost by a growth step, returned by other callers and found at the front of the
FIFO. Other callers stop taking frames at `MaxTaken` = 4 allocations, all the
frames there are. In `boot` the only cut is the word size (TLC's integers have
32 bits): "4 GiB" lies at 512 MiB and the 64-bit word ends at 2^30; no address
or size of the boot comes near either but the high frames of the maps. The
scripts are deterministic, so the memory map is the only input. The maps lie on
both sides of what is needed: the heap grows to four pages (`HeapPagesNeeded`),
on top of the four frames Stage 5D keeps, so 8 low frames bring the kernel up
and 7 do not; Stage 6D wants three more. `SelfChecksPass` states exactly this,
so it fails when a stage asks for more, or for less. Deadlock is checked in
every run: halted states (a panic, the exception's `cli; hlt` loop) step to
themselves, as the code does.

Fairness. The kernel is one thread that never blocks inside a call, so heap and
object calls that were entered continue (`WF` on their steps), as does the boot
code, whose self-checks run with interrupts off (`BootSpec`). For the runtime:
the processor executes and accepts interrupts, and the PIT, once programmed as a
rate generator, keeps raising its line (`WF_vars(pit_on /\ TimerEdge)`). No
fairness for keys or other devices, and none in Pmm, Vmm and KMemory, whose
properties are safety.

## Findings

1. With ranges out of address order the cursor skips frames, and
   `stage6d_pmm_was_frame_issued` then takes them for issued. With ascending
   ranges this is proved impossible (`FreeIsExact`), and an ascending memory map
   gives ascending ranges (`RangesAreExact`).
2. `kobject_list_append` accepts the tail a second time and links it to itself.
   With callers that append only nodes outside the list, a removed node is
   proved unreachable (`RemovalMeetsContract`).
3. A key pressed before `pic_remap` leaves an unread byte without an interrupt;
   the keyboard then stays silent. Without such a key this is proved impossible
   (`KeyboardKeepsItsInterrupt`).

Three observations without a run. First, `stage5a_parse_mmap` does not check
that a cursor plus a size field fits 32 bits (lines 3209, 3238, 3257, 3261,
3265), although stage-5a.md:13 has it "walk Multiboot2 tags safely". One
corrupted field is enough:

- A tag of size 0xFFFFFFF0 passes the checks of 3209 and 3261, and 3265 moves
  the cursor back by 16: to a tag before it, from which it comes back again for
  ever, or below the structure.
- A memory-map tag of normal size with an entry size of 0xFFFFFFE8 passes 3231
  and 3238, and 3257 moves the entry cursor down by 24 bytes per entry, out of
  the structure and on to address 0, booking whatever it finds.

The model does both: `~ outside` has a counterexample of five states in the
`bringup` instance, and `ParseMakesProgress` without `~ AdvanceWraps` one of
four. `ParseInBounds` and `ParseMakesProgress` therefore say what is true: these
wraps are the only way out of the structure and the only way back, the tables
are never overrun even then, and the walk over entries ends even then. A check
that `end_addr - cursor` holds the size, instead of the sum, would remove the
conditions.

Second, the comment at stage0_main.c:146 says that `remaining_frame_count` never
increases; since Stage 6C an accepted free increases it (line 904), as
`BudgetExact` requires. Third, a frame above 4 GiB that a growth step takes is
never returned (kheap.c:148); `LostFramesAreHigh` shows that no other frame is
lost, and `FailsOnlyWithoutLowFrame` that each failed kmalloc costs at most such
a frame.

## Proofs

All theorems are about the modules that TLC runs, for every value of the
constants that satisfies the named assumptions. TLC evaluates the assumptions on
every instance. What they say of the code:

- `WordAssumption`, `MemoryMapAssumption`, `KMemoryAssumption`,
  `KObjectAssumption`, `InterruptsAssumption`: constants are numbers or sets of
  the right kind, and the kernel image and the frame size fit the word.
- `BootInfoAssumption`: the structure's address leaves room for its header, and
  size fields are any 32-bit numbers.
- `PmmAssumption`: the FIFO bound is a word and the frame size a number.
  `FrameMapsAssumption`: in the tables an instance starts from, every range has
  frames, ends at or below the last frame number and was counted in the total.
  The theorems of PmmProofs rest on it; those about BringUp do not, because
  there it is concluded of what Stage 5C makes.
- `LayoutAssumption`: what `stage8a_vmm_layout_validate_policy` checks, and a
  directory that reaches the end of the mapping window. `VmmAssumption`: tables
  are page aligned and distinct, and callers pass 32-bit addresses.
- `KHeapAssumption`: header and page sizes are multiples of the alignment and
  the window holds a header.
- `StackAssumption`: the components agree on the page size, the addresses that
  the heap passes on are among those of `VmmAssumption`, and no frame of the map
  holds a page table (they are in the kernel image).

Each module proves one inductive invariant, and the properties from it.

- **PmmProofs**. Ownership alone is not inductive: a fresh allocation could
  return a frame that waits or is held. `PmmInv` adds that every frame that is
  held or waits is behind the cursor, and the cursor only grows. `StateWellFormed`,
  `OwnershipIsUnique` and `NoDoubleIssue` follow for all
  range tables, sorted or not. For ascending tables `ExactInv` adds the
  converse, that every eligible frame behind the cursor is held or waits, and
  counts them; from it `FreeIsExact`, `BudgetIsExact` and
  `AllocationOrder`. `Served` says that the budget covers the FIFO on every
  table, so a waiting frame is always issued.
- **BootInfoProofs**. `IInv` has three parts: where the parser's cursors are;
  the region table holds the entries read so far, in order; the
  range table holds frames of the regions prepared so far, all of them unless a
  range was dropped. Frames of a region are described without rounding
  (`Span`), and the lemmas about
  `stage5c_record_eligible_span` show that rounding records exactly them.
  The first part has two layers. `Walk` holds whether or not a sum wrapped: the
  tag cursor and the wrapped end of the tag are not past the end of the
  structure, and in the lower half of the address space the entry cursor and
  that end together stay below twice the structure's end; so an entry size that
  is at most the tag's end cannot wrap (the cursor goes up), and a larger one
  passes the check only by wrapping (the cursor goes down). `Inside` adds what
  holds while nothing wrapped: both cursors are in the structure.
  `ParserStaysInBounds` and `RangesAreExact` follow, and in BringUp they go on
  holding while frames are handed out (`BringUpKeepsRanges`).
  The module extends PmmProofs too. `BringUpInvariant` joins `IInv` with the
  invariants of the allocator: the table that Stage 5C leaves is valid, so the
  allocator's steps keep `PmmInv`, and `ExactInv` when the map was in address
  order. Together they speak of the machine's memory: `IssuedFramesAreUsable`
  (for every map whatever), `OutOfFramesIsReal` and `RemainingCountsUsable`.
- **VmmProofs**. `VmmInv` says that a directory index leads to one table only,
  whether read from memory or from the processor's cache, and that a table that
  is not installed is empty; so a page's translation depends on its entry alone.
  The second part is what makes a directory entry that outlives its table
  harmless. `TablesStayIntact`, `TranslationsAreFresh`, and
  the refinement `PagingMeetsContract`: a call takes effect in PageMap when it
  returns, all other steps leave the map alone.
- **KHeapProofs**. `BlocksTile` is not inductive without what a running call has
  found out: that no block behind its cursor matches (`AllocOK`, `FreeOK`), and
  that the block about to be bumped fits the window. `HeapStaysIntact`,
  `ReuseIsFirstFit`, and the refinement `HeapMeetsContract`.
- **KObjectProofs**, for callers that append only nodes outside the list
  (`~ CallersReappend`, as `MCKObject.cfg` sets it). The chain from the head is a
  recursive function; the invariant names its nodes by a sequence, and
  `HopIsChain` shows, by induction along the chain, that following the links
  visits that sequence. Induction goes through `LeastNatural` (a set of numbers
  has a least member), because the induction rules with an operator parameter
  cannot be used. `ListStaysIntact`, `RemovalMeetsContract`, and the refinement
  `ListMeetsContract`.
- **InterruptsProofs**. `IInv` says for each place of the code what is set up,
  whether interrupts are on and which line is in service. `RuntimeStaysIntact`,
  `HandlersDoNotNest`, `ExceptionPathHalts`; with `~ EARLY_KEYS` also
  `KeyboardKeepsItsInterrupt`, whose invariant adds that a byte that is not
  being read has its request pending.
- **KMemoryProofs**. `LoopInv` says for each loop which part of the destination
  is written and that the unread part of the source still holds its original
  bytes; for `kmemmove` this is where the direction matters. `TypeCorrect`,
  `CopiesCorrect`, `WritesConfined`, `CompareCorrect`.
- **MemoryStackProofs** extends PmmProofs, VmmProofs and KHeapProofs. `StackInv`
  keeps their invariants and adds what ties them: `Backed` matches the frames
  issued to the heap with the entries of its pages, both ways; `Growth` says
  what a growth step has done so far; `HeapState` that the wanted block ends
  inside the window. Without `Growth` the step after `map_page` could not know
  that the entry at the limit is that of the frame it took. `HeapStaysBacked`,
  `OnlyHighFramesAreLost` and `KmallocFailsOnlyWithoutFrames` follow.
  `ComponentsBehave` shows that the composition implements PmmSpec, VmmSpec and
  the safety part of KHeap's specification (`HeapBehaviour`), so the theorems
  about them hold in it: `StackKeepsPromises` states those of the frames and
  pages, `StackMeetsHeapContract` that kmalloc and kfree keep their contract on
  the real allocators. `BlocksNeverShareMemory` needs all three parts: blocks
  tile the heap (KHeap), each lies below the mapped limit, whose pages have
  entries (Vmm) of different frames that nobody else has (Pmm); so two bytes of
  blocks have the same physical address only if they are the same byte.

Termination. The provers cannot reason about fairness, but the part of
termination that is about the code is an action property: each step of a running
call lowers a measure that cannot be lowered for ever. `HeapLoopsEnd` and
`StackCallsEnd` give a natural number (the distance of the walk to `current`,
then of the mapped limit to the end of the window, then the stores of
`map_page`), `ListWalksEnd` a finite set of nodes, `ParserLoopsEnd` a
lexicographic order of part, tag and entry for structures in the lower half of
the address space, lowered by every step but the advance over a tag whose size
wraps; with a structure above 2 GiB an entry size of 2^31 could go round as
well. What is left to fairness is only that the kernel goes on executing.

Only model-checked: liveness itself (`CallReturns`, `WalkEnds`,
`TickOutputRecurs`, `BootEnds`), which is out of the prover's reach; and
`SelfChecksPass` and `NoFreedNodeUsed` of BootSequence. These two speak of one
fixed script of calls with the kernel's own numbers, whose
intermediate addresses decide each verdict: an inductive invariant would have to
list the heap after each call, and running the script is the better argument.

## Not modelled

- Serial and VGA output and formatting, which no other part reads, and the build
  and link files.
- Spurious interrupts: they come from noise or a withdrawn request, and the
  lines of the model are never withdrawn.
- The running time of handlers (their serial output is synchronous).
- What lies outside the Multiboot2 structure: a parser that left it reads
  arbitrary tags and entries.
- Build options that only panic or fault on purpose (`STAGE1_FORCE_PANIC`).
  `STAGE2_FORCE_EXCEPTION` and `STAGE6D_FORCE_REUSE_TEST` are modelled.

## Plan

Every component with state is modelled, every safety property of a passing run
outside BootSequence is proved, and so are the measures behind the liveness
properties of the calls. What could be added:

1. A boot structure whose bytes are fixed at the start, so that a parser that
   goes back meets the same tags again and its endless loop becomes a lasso.
2. A FIFO of more than one frame in `memorystack`, where a high frame in front
   of low ones makes kmalloc fail (kheap.c:148).
3. A withdrawn interrupt request, and with it the spurious IRQ7 of the 8259.
