# A TLA+ model of doom-os

doom-os is a unikernel for x86_64 in C++: an application is linked with the
kernel and runs on one address space. This directory holds TLA+ modules that
model its boot, its memory management, its locks and guards, its drivers, its
exceptions, the POSIX functions that keep state and the algorithms below them;
the TLC configurations that check them on small instances; and proofs checked by
TLAPS.
`PROJECT.json` lists components, runs, mutants, the source lines behind every
definition, hazards, findings and theorems.

## The system

A Multiboot2 loader enters `boot32.S`, which switches to long mode and calls the
kernel. The kernel initializes its components in an order computed at compile
time (`kernel/init`): boot information, frame allocator, page tables, virtual
memory, heap, runtime, ACPI, local APIC, and the tables of the processor. Then
the application runs. Interrupts stay disabled and only the boot processor runs,
but the memory managers take spin locks in case more cores are started.

| part | source | what it does | modules |
|---|---|---|---|
| frame allocator | `kernel/mm/pmm.cpp` | frames of 4K, 2M, 1G from a bitmap and two lists of 2M blocks | `Pmm`, `FrameAllocator` |
| page tables | `arch/common/mmu/radix_tree.hpp`, `arch/x86_64/mmu` | maps, protects and unmaps ranges, splits and prunes | `RadixTree`, `AddressSpace` |
| virtual memory | `kernel/mm/vmm.cpp` | ranges of kernel addresses, backed page by page | `Vmm` |
| locks | `kernel/sync/spinlock.hpp` | one lock each for heap, virtual memory, frames | `Locks` |
| heap | `kernel/mm/kheap.cpp` | dlmalloc on top of virtual memory | its lock, in `Locks` |
| drivers | `kernel/device/lifecycle.cpp` | orders drivers by dependency, registers capabilities | `DriverLifecycle` |
| boot order | `kernel/init`, `kernel/kernel.cpp`, `platform/pc/boot_plan.hpp`, `arch/x86_64/core_init.cpp` | order of the components, what a failure does | `InitGraph`, `Boot` |
| boot information | `kernel/boot` | checks and copies the loader's tags | `Multiboot` |
| ACPI, local APIC | `kernel/acpi`, `arch/x86_64/lapic` | finds the MADT, maps and enables the APIC | `Acpi`, `Boot` |
| kernel address space | `arch/x86_64/mmu/mmu.cpp` | direct map, protection of the image | `KernelSpace` |
| exceptions | `arch/x86_64/{exceptions,trap,tss}` | stubs, frames, stacks, handlers | `Traps` |
| POSIX layer | `posix`, `kernel/*/posix` | the functions a C library needs | `PosixMemory`, `Descriptors`, `Entropy` |
| C++ runtime | `kernel/runtime` | guards of static objects, memory functions | `OnceGuard`, `OnceInit`, `Strings` |
| atomics, containers | `kernel/sync/atomic.hpp`, `kernel/core/utils` | orders, arithmetic, bitmaps, strings | `Atomic`, `Bitmap`, `Strings` |
| formatting | `kernel/debug` | format strings, numbers | `Format` |

The heap calls virtual memory, which calls the page tables and the frame
allocator; the page tables take their tables from the frame allocator. `Locks`
models the nesting, `Vmm` uses the page tables as `AddressSpace` describes them,
and `RadixTree` is shown to implement `AddressSpace`. `PosixMemory` puts mmap on
top of `Vmm`; `Runtime` puts the guards of static objects beside the locks that
their constructors take; `Boot` drives `Multiboot` and `Acpi` as the boot does.

## The modules

**Pmm.** `m_frames` is the bitmap, `m_free` and `m_links` the blocks, `held` (a
history variable) what callers hold. `populate`, `alloc` and `free` are the
operations; the loops over the blocks of a large page (`take_whole`, the end of
`populate`, `free`) go one block per step, `SetFreeLoop`. `free` is called as its
contract demands for frames that are held or free (a double free is in the
model and panics); the code cannot tell a frame that was never handed out.
`FrameAllocator` is the abstract pool: a grant is an aligned run of free frames.

**RadixTree.** `mem` maps tables to entries. Every write to a table is a step,
and the processor (`Access`, external) may use an address between any two of
them: it caches the leaf and the tables on the way and sets the accessed bit.
Addresses are page numbers modulo `Space`, with the hole between the canonical
halves. `AddressSpace` knows a function from pages to frames only.

**Vmm.** The table `m_allocations` with its insertions and removals, unsigned
differences included. Each page of `back` and `release` is a step; the frames
that page tables take or give back are nondeterministic. `map_mmio` fills its
own window leaf by leaf and may fail at any of them.

**PosixMemory.** One core is in `mmap`, which takes the lock twice, once to
allocate and once to drop the write access; other cores use virtual memory in
between, but not the range whose address mmap has not returned yet. A request is a
set of PROT_ bits; `page_prot` and `dropped` are what mprotect and mmap make of it.

**Locks.** Cores take the three locks in the order of the calls. The
compare-and-exchange and the relaxed load that `lock` spins on are steps.

**OnceGuard, OnceInit, Runtime.** The guard of a static object: the load of the
fast path, the compare-and-exchange, the constructor that may fail, release and
abort. `sees` says which cores are ordered after the construction; it only grows
along acquire loads of what a release stored (`Observe`, external), so a weaker
order in the code shows. `OnceInit` is what the compiler expects of a guard.
`Runtime` runs locks and guards on the same cores (`Processors`).

**DriverLifecycle.** The linker-collected records are the variable `registry`.
`build_registry` is a function of it. The recursion of `visit` is an explicit
stack: a dependency that is visited, a driver's entry point, and the resolver of one
capability are a step each, and entry points and resolvers may fail. `exit_all` goes
driver by driver. `Restart` says whether `init_all` is called again after `exit_all`.

**Multiboot.** The check of the block (`well_formed`) and the translation
(`translate`) are two walks, one tag per step. The headers of the tags are chosen
when the check first reads them and remembered for the second walk (`Found`), what
a tag holds when it is translated (`Contents`); both stand for the loader's memory
and are external. Strings are lengths, memory regions their kinds.

**Acpi.** RSDP, root table, the search for the MADT and its entries, one entry per
step, with checksums and lengths chosen by the firmware. `Multiboot` and `Acpi` are also
specifications by themselves (`MultibootSpec`, `AcpiSpec`), which the proofs are about;
there a finished walk is forgotten, so that another block or table can follow.

**Boot.** `graphs` is the stack of init graphs in progress: `kernel_main` runs
three, `core_init` and the local APIC component run a graph of the core inside.
The orders are computed by the operators of `InitGraph` from the dependencies
that the components declare. Any component whose code can answer Err may fail.
The DRIVERS component is in no list of roots, so `Boot` does not run it. The properties
that compare `m_info` and `madt_info` with the block and the table (`BootInfoSound`,
`MadtSound`) are stated here.

**InitGraph.** The recursive templates of `init_graph.hpp` as recursive operators.

**KernelSpace.** `fill_direct_map` as a set of large pages, and `protect_image` as
five range operations on the pages of the window. The range operations are used
as `AddressSpace` specifies them.

**Traps.** The processor, its stacks as sequences of words, and where it is. The
delivery of an exception and `iretq` are external; stub, common entry, dispatch,
handler and return are steps, with NMIs and machine checks between any two of them.
Handlers of the kernel panic; those that an application may define, for any vector,
return. A frame that comes onto a stack of the TSS which is in use (`overrun`) ends the
behaviour: what was there is lost.

**Descriptors.** The descriptor table over the boot modules; `readv` and `writev`
go vector by vector; null pointers and counts they refuse are arguments. **Entropy.** `getrandom` over a sequence of successes and
failures of the instruction.

**Bitmap, Atomic, Strings, Format.** The algorithms as operators over words of a few
bits, sequences of bytes and sequences of characters, each with a reference
definition over sets, integers or texts. A long double is a significand of as many bits
as an integer has (both 64 in the code) and an exponent; every operation rounds to
nearest even. **Library** calls them, one kind of
argument per behaviour, and holds the properties of the `library` run.

## The runs

| run | bounds | shows |
|---|---|---|
| `pmm` | 4 blocks of 3 frames, 2 per large page | counts, lists and bitmap agree; every usable frame is free or held; only usable memory is handed out; `Pmm` implements `FrameAllocator`: grants are free aligned runs, refusals are true |
| `radix_tree` | 4 levels of 2 entries, 3 frames for tables | the tables are a tree, empty ones are pruned, `AddressSpace` is implemented |
| `radix_tree_processor` | the same, 5 calls, 2 addresses in use | no stale leaf or table in the processor's caches; every call returns |
| `mmio_twice` | map_mmio of 2 pages | violation, see findings |
| `vmm` | 8 pages, 4 frames, 3 ranges, 1 MMIO page | ranges are apart, mapped pages are those of the table, `release` cannot panic, `protect` is all or nothing |
| `posix_memory` | 3 pages of 3 bytes, 3 frames, 2 ranges, 2 MMIO pages, 4 requests | mmap neither faults nor panics between its two calls and leaves what was asked for; mprotect changes exactly the pages of its range, to what was asked for; no frame is lost; map_mmio can be repeated after a failure; operations return |
| `runtime` | 3 cores, 3 locks, 1 object | exclusion, no deadlock, a free lock that is wanted is taken; one core constructs, users see the object, an aborted construction is taken up; `OnceInit` is implemented |
| `driver_lifecycle` | 528 registries of 3 drivers | order of start and stop, the answer of `init_all`, only real cycles are reported, calls return |
| `driver_restart` | 3 registries | violation, see findings |
| `library` | bitmaps of 3 words of 3 bits, integers of 3 and 8 bits, all graphs of 3 components, formats of up to 6 characters, 2 descriptors, 3 exceptions in progress | each algorithm agrees with its reference definition; see below |
| `direct_map_aliases` | memory maps of up to 2 regions | violation, see findings |
| `boot` | blocks of up to 120 bytes and 3 tags, 2 memory regions, 2 modules, MADTs of a few entries | the walks of the block and of the MADT stay inside, both walks agree, `m_info` is what the tags say, the RSDP is not given away; components in order, addresses reachable, nothing after a failure, the boot ends |

Properties that are parts of one promise are checked as one, and keep their names
as its conjuncts:

- `Inv` of `Pmm`: `CountsMatchBitmap`, `ListsHoldTheirBlocks`,
  `EveryFrameAccountedFor`, `ListedBlocksHoldFrames`. `Inv` of `Locks`:
  `MutualExclusion`, `LockOrder`. `GuardInv`: `OneConstructs`, `UserSeesObject`. These
  are the invariants of the proofs.
- `TablesSound`: `TablesFormTree`, `NoEmptyTables`. `NoStaleTranslation`:
  `NoStaleLeaf`, `NoStaleTable`. `WindowSound`: `MappedExactly`, `ReleaseNeverPanics`.
- `MmapSound`: `MmapNeverStops`, `MmapGrants`. `SpinnersProceed`:
  `FreeLockIsTaken`, `WaitersProceed`.
- `OrderSound`: `OrderListsInitialized`. `AnswersAreTrue`: `OkMeansAllUp`,
  `CycleIsReal`.
- `WalksInBlock`: `ReadsInBlock`, `WalksAgree`. `BootInfoSound`: `InfoOfBlock`,
  `RsdpStays`. `MadtSound`: `MadtReadInside`, `MadtOfTable`. `ComponentsReady`:
  `DependenciesFirst`, `AddressesMapped`, `ResourcesReady`. `FailureStopsBoot`:
  `NothingAfterFailure`, `ApplicationOnWholeKernel`.
- `FilesAnswer`: `VectorsAreOneRead`, `OpenAnswers`. `TrapsTransparent`: `TrapFrames`,
  `TrapReturns`, `OverrunsExplained`.

The type invariants of `RadixTree`, `Vmm`, `DriverLifecycle` and `Boot` are conjuncts
of `TablesSound`, `WindowSound`, `OrderSound` and `ComponentsReady`. A mutant in
`PROJECT.json` breaks each checked property through one of its conjuncts.

The `library` run asks: do bitmaps behave as sets and shift in place correctly
(`BitmapsAreSets`); do atomics wrap, keep their orders and ignore padding
(`AtomicsExact`); are strings terminated and compared as texts, is overlapping memory
moved as through a buffer (`StringsAreTexts`); are components ordered, cycles refused
and graphs continued (`GraphsInOrder`); does the direct map reach all memory, does the
image stay usable while it is protected and end without a writable and executable
page (`KernelSpaceSound`); do fields, formats and integers read back as what was asked
for, and floating-point numbers to within half of their last digit and one unit in the
last place of the value (`OutputReadsBack`); is entropy all or an error
(`EntropyFilled`); do descriptors stay in their module (`OffsetsInFile`), vectors
amount to one read and open answer rightly (`FilesAnswer`); does a handler find the
interrupted context in its frame, does the interrupted code get it back, and when can a
stack of the TSS be overrun (`TrapsTransparent`).

Why the bounds are enough: three frames per block give a block all of its
states (whole, broken, empty) and a frame that is neither first nor last; of the two
large pages, one holds low memory and the image and is never whole, and the other can be. Four levels are those of the
hardware, with leaves of three sizes and a split over two levels; three frames
are fewer than two walks need, so walks fail at every level. Eight pages hold
three ranges with their guards, so the table fills up before the window does;
four frames are fewer than the pages. In `posix_memory` a page has three
bytes, so that an address or a length can be neither at the start nor at the end of a
page; the lengths include zero, one page, a part of a second page, and one that is more
than the window and makes the end of the range wrap; the requests are one each for
reading, executing, everything, and a bit that is not supported. Three drivers are enough for chains,
diamonds and cycles of all lengths up to three. Three words per bitmap give a first,
a last and a middle one. In `boot`, 120 bytes hold two framebuffers, so one can leave
its palette to the next, two memory maps with three regions, and three modules; tag sizes include zero, less than a header, less than the
type needs, and more than the block; with room for two regions and two modules, their
order shows and the third is too many. Significands of eight bits lose bits in
every operation of the conversion, and exponents reach from whole numbers to below 1/4. Three cores are one that constructs and two that wait. Three exceptions in progress
are a handler, one inside it and an NMI inside that; vectors that return include all
that have a stack of their own.

Fairness: weak fairness of the steps of a call in progress. The code runs a call
to its end with interrupts disabled. `runtime` assumes only that a core in `lock`
or in `__cxa_guard_acquire` keeps executing; the lock promises nothing to a
particular core, and nothing of the kind is stated. `boot` assumes that the boot
processor goes on.

Deadlock is not checked in `boot`, which ends.

## What is proved

The theorems hold for every value of the constants that the named assumptions of the
modules allow; TLC evaluates these assumptions in the runs. Each proof of an invariant
has the same outline: an inductive invariant, one lemma per operation that says that
the operation preserves it, and the property as a consequence. TLC finds the
inductive invariants to hold on the instances of the runs as well.

**Frames** (`PmmProofs`). For every number of blocks and frames and every boot
information, the counts, the lists and the frames are right and `alloc` never meets an
empty listed block. The invariant `Inv` is the conjunction of the type invariant with
these properties. None of them is inductive alone: the lists are chosen by the counts,
the counts follow the bitmap, and in the middle of a loop the blocks ahead still differ
from `held`, which `Pending` describes. The list lemmas say what `push` and `unlink` do
to a sequence that spells a list. Two results follow from `Inv`: `Pmm` implements
`FrameAllocator` (`Implements`: initial states and steps map to initial states and
steps or stutters), and only usable memory is handed out (`OnlyUsable`). The latter
rests on what `mark` makes of a range: a frame of a usable range lies inside it
(`UsableFrame`), a frame that a reserved range leaves alone lies outside
(`ReservedFrame`), by the rounding of both ends and the clamping to the physical memory.

**Page tables** (`RadixPaths`, `RadixTables`, `RadixTreeProofs`, `RadixTreeRefinement`).
For every number of levels and entries, every set of page sizes, any frames and any
calls: the tables are a tree without dead branches (`PageTablesSound`), the processor's
caches never disagree with them (`CachesCoherent`), and they implement `AddressSpace`
(`PageTablesImplement`). `RadixPaths` has the arithmetic of the page sizes and writes the
walk as a function of the contents of the tables, so that the walks before and after a
step can be compared: two addresses walk together down to the level where their indexes
differ. `RadixTables` says what the three changes a step can make do to every walk: a
leaf written, a table linked (empty, or filled by a split), a table unlinked.
`TablesFormTree` alone is not inductive, for a table that two levels could reach has no
size; `RadixInv` says that there is an assignment of levels to the tables that all links
go down by one (`TreeAt`), which table may be empty in the middle of a call
(`Unfinished`), that prune stands at the end of the walk to the leaf it removed
(`OpPlace`), and that a cached leaf is where the walk to its page ends (`Cached`), which
is stronger than that it translates the same. For the refinement, `Progress` adds how far
a call has come: the checks it made, that every page behind it is as asked, and that
`split_at` has left no leaf across the ends of the range. The assumptions are those of
`RadixTree`: an even number of entries, a space of whole roots, distinct static tables
(`FormatAssumption`, `ImageAssumption`) and unsigned arguments (`CallsAssumption`). The
page sizes and the walk are recursive functions; that their equations have a solution is
shown for one level more at a time, by a least level for which it fails (`WFMin`).

**Virtual memory** (`VmmProofs`). For every window, page size, number of
ranges and of frames: the table is sorted with a guard page behind every range, a page
is mapped exactly when a range has it, `release` never panics, `protect` changes all or
nothing, no frame is lost wherever `back` fails, and `map_mmio` answers truly.
`SortedWithGuards` compares neighbours; the invariant `IInv` compares any two ranges
(`Table`) and keeps what an operation knows of its own range while it goes page by page:
that it has room in the gap that `find_gap` found (`Backing`), that it is the entry it is
about to erase (`Freeing`), that the MMIO pages behind it are mapped (`MappingMmio`).
`FramesApart`, inductive together with `IInv`, says that no frame has two places and
every frame has one; `FramesConserved` counts them. The proofs use that the window does
not begin at address 0, that it ends below the end of the address space and that all
bounds are multiples of the page size (`WindowAssumption`); `config/layout.h` fixes
them so.

**mmap, munmap, mprotect** (`VmmProofs`). The same invariants hold for these
callers with any lengths and addresses. `CallerInv` is what `mmap` may rely on between
its two calls, when the lock is not its own: its range is in the table, can be written
and is not being given back; and it drops the write access only if the request has no
PROT_WRITE. From it, `mmap` neither faults nor panics, keeps the frames and leaves pages
that are writable exactly if PROT_WRITE was asked for and executable exactly if PROT_EXEC
was asked for without it; `mprotect` changes exactly the pages that overlap its range,
to exactly the access asked for. `DataAssumption` says that the four protections that a
request can become are protections of `Vmm`.

**Locks and guards** (`KernelProofs`). For any set of cores: exclusion, and the cores
never all wait for locks. The invariant `Inv` adds `LockOrder`: a core waits only for
locks below those it holds, so whoever holds the lowest contended lock goes on. For the
guard of a static object: one core at a time constructs, every user is ordered after the
construction, and the guard implements `OnceInit`. `GuardInv` ties the word of the guard
to the places of the cores: the one that constructed sees the object, the word of an
initialized guard carries that on to whoever reads it with acquire, and nobody uses the
object before. For both together, `RuntimeInv` adds that a core inside the functions of
the guard has no lock (`GuardOutsideLocks`) and that a guard in use has a core that will
give it back (`GuardHasBuilder`). Then no circle of waits goes through a lock and a
guard (`RuntimeNeverStuck`): the holder of the lowest lock is not waiting for the guard,
and without locks in use the core that constructs goes on. That a core reaches the
declaration of the object without a lock is part of the model, not proved.

**Drivers** (`DriverLifecycleProofs`). For every registry, any number of
drivers and any failures of entry points and resolvers: `init_order` lists exactly the
drivers that are up, each once; a driver is up only while its dependencies are;
`init_all` succeeds only with every driver up and every needed capability found; a cycle
is reported only if there is one. `IInv` says that the array is in topological order
(`OrderInv`), which is what makes stopping in reverse safe; what each call of `visit` on
the stack has done already, and that it waits for the next one (`StackInv`), which is
what makes a reported cycle real; and that the marks of `visit` tell which drivers are
up (`UpInv`). The marks are not reset by `exit_all`, so the theorems assume
`~Restart`; the finding below is what happens otherwise. That `run_driver` may append to
the array without a check comes from the count of the drivers that `build_registry`
makes before, and from the array having each of them at most once (`FewEnough`).

**Files** (`KernelProofs`). For any boot modules and arguments, an open descriptor
is a boot module and its offset stays inside, through reads, vectors and seeks.

**The boot block** (`KernelProofs`). For every Multiboot2 block, with any number of tags
of any size: neither walk reads outside it (`BlockReadInside`); the RSDP stays in
reserved memory, a refused block leaves nothing in `m_info` and an accepted one no more
than fits (`BootInfoKept`). The second walk checks nothing, so its safety is a fact about
what the first one saw: `WalkInv` holds the `Chain` of tags without a gap from the first
to the one in hand, each inside the block, and closed under following a tag once the
first walk has met the end. `InfoInv` adds that the block is the one reserved range and
that the RSDP lies in it. The theorems are about `MultibootSpec`, the reader by itself.
`Boot` takes the actions of the reader as they are, so each of its steps on the reader's
variables is a step of the reader or leaves them alone.

**The MADT** (`KernelProofs`). For every table, `parse_madt` reads nothing behind its
length and overruns none of the arrays of `madt_info` (`MadtWalkInside`), about
`AcpiSpec`. `MadtInv` is those two facts and the types.

**The kernel's address space** (`KernelProofs`). For every memory map, with regions that
overlap, are empty or pass the end of the direct map: what is described and translatable
is mapped, and no large page without a described address is (`DirectMapSound`); that
nothing else is mapped is not so, see the findings. For every image that the linker script
can lay out (`LaidOut`): the code stays executable and the data writable after each of
the five steps of `protect_image`, and in the end nothing is both (`ImageProtected`).
The argument is a closed form of the rights of every page after every step
(`Protected`); it rests on each section starting on a page of its own, which the linker
script gives and which `Library` evaluates for the images of the run.

Only model-checked:

- all liveness properties (`CallsReturn`, `OperationsReturn`, `SpinnersProceed`, that
  the boot ends): fairness is out of the prover's reach;
- that `m_info` and `madt_info` are what the tags and the entries say (`InfoOfBlock`,
  `MadtOfTable`): the reference definitions filter and fold sequences, which takes
  induction over data;
- `Boot`, which uses the recursive operators of `InitGraph`;
- the algorithms of `Library` other than `KernelSpace`, where the reference definitions
  are recursive, and `FilesAnswer` and `TrapsTransparent`, which compare whole sequences.

## Findings

- `mmio_twice`: mapping a device aperture again after it was used fails with
  CONFLICT, because the accessed bit makes the entry differ
  (`radix_tree.hpp:130`); `config/layout.h:35` says that mapping one twice yields
  the same address.
- `driver_restart`: `exit_all` does not reset the marks of `visit`, so a second
  `init_all` after a failed one starts drivers whose dependencies are down
  (`lifecycle.cpp:573`).
- `direct_map_aliases`: the direct map rounds every region out to 2 MiB
  (`mmu.cpp:105-106`), so addresses beside described memory are mapped with it, cached;
  `config/layout.h:31-33` says that it covers described memory only, so that an aperture
  never gains a cached alias.

Observations that contradict no comment or test; the properties state these cases as the
code has them:

- The sum of address and length in `mprotect` (`mm/posix/stub_impl.cpp:87`) wraps. A range
  that runs over the end of the address space is refused, unless it comes back to the page
  it starts in; then that page alone changes (`MprotectExact`).
- `mmap` with PROT_WRITE and PROT_EXEC returns memory that is not executable
  (`mm/posix/stub_impl.cpp:46-47`), without an error; `mprotect` with the same request
  makes it both (`MmapGrants`).
- An exception that returns inside the handler of an NMI lets NMIs in again, and the next
  one overwrites the frame of the first on IST2. The kernel's own handlers do not return;
  an application that defines returning ones has to keep exceptions out of its NMI
  handler (`OverrunsExplained`).
- A floating-point value of 2^64 - 1 passes the test for `ovf`, and with precision 0 the
  rounding makes it 2^64, which the conversion to `u64` (`emit.hpp:305`) cannot represent;
  an odd value from 2^63 on comes out one too high there, for the sum is a tie
  (`FloatsAreRounded`). A tie in decimal, such as two digits of 0.125, goes the way the
  rounding error of the sum takes it.

## Not modelled

- The early boot assembly is straight-line code up to long mode; what it leaves
  behind is where `Boot` begins.
- The bit layouts of GDT, IDT, TSS and the control registers; the FPU.
- Devices: the registers of the local APIC after its initialization, the serial
  port, port I/O. Their busy waits depend on the device.
- dlmalloc is not part of the repository; the driver services and the rest of the
  POSIX stubs forward or answer an errno value.
- That `alloc` breaks whole blocks last (`pmm.cpp:151`) is in the model of `alloc` and
  in no property: it is a policy, not a promise to the caller.
- Exhaustion of a stack: the boot stack has no guard page, so the code gives no
  answer to model.
- The locks are sequentially consistent in `Locks`; only `OnceGuard` models which
  writes a core sees.
- The memory behind the lengths that the firmware writes into the RSDP and into the
  headers of the ACPI tables: the checksums (`acpi.cpp:61,87,110`) go over as many bytes
  as these say, and nothing in the code bounds them. A checksum is good or bad here.

## Plan

1. Compose `Vmm` with `Pmm`, so that running out of frames and the lists of the
   frame allocator are seen together.
2. The capabilities of a driver whose registration fails half way.
3. A proof of `TrapsTransparent`.
4. The byte layouts of the processor's tables, read back as the processor reads
   them.
