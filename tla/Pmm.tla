-------------------------------- MODULE Pmm --------------------------------
(***************************************************************************)
(* The physical frame allocator, kernel/mm/pmm.cpp.                        *)
(*                                                                         *)
(* Physical memory is cut into blocks of FramesPerBlock frames (2 MiB) and *)
(* runs of BlocksPerGiga blocks (1 GiB).  A bitmap has a bit for every     *)
(* frame, set when the frame is free.  Every block also carries the number *)
(* of its free frames and two links: a block with all its frames free is   *)
(* on the doubly linked list "whole", one with some free on "broken", one  *)
(* with none on neither.                                                   *)
(*                                                                         *)
(* m_lock is held from the first access of an operation to its return, so  *)
(* at most one operation is in progress: op is that operation, "idle" when *)
(* the lock is free.  An operation is one step, except that the three      *)
(* loops that call set_free for one block after the other take one step    *)
(* per iteration (SetFreeLoop).                                            *)
(***************************************************************************)
EXTENDS Integers, FiniteSets

CONSTANTS
    FramesPerBlock,  \* FRAMES_PER_BLOCK, 512 in the kernel
    BlocksPerGiga,   \* blocks in a 1 GiB run, 512 in the kernel
    Gigas,           \* MAX_PHYSICAL_MEMORY in GiB, 16 in the kernel
    FrameSize,       \* FRAME_SIZE, in the model's units of address
    LowMemory,       \* the first MiB, in units of address
    Image,           \* the range [boot_start, kernel_physical_end)
    BootInfos        \* the memory descriptions a boot protocol may deliver

Ranges == [base : Nat, length : Nat]

ASSUME SizesAssumption ==
    /\ FramesPerBlock \in Nat /\ FramesPerBlock > 1
    /\ BlocksPerGiga \in Nat /\ BlocksPerGiga > 1
    /\ Gigas \in Nat \ {0}

ASSUME BootAssumption ==
    /\ FrameSize \in Nat \ {0} /\ LowMemory \in Nat /\ Image \in Ranges
    /\ \A b \in BootInfos : /\ \A r \in b.usable : r \in Ranges
                            /\ \A r \in b.reserved : r \in Ranges

BlockCount == Gigas * BlocksPerGiga
Blocks == 0 .. BlockCount - 1
Slots == 0 .. FramesPerBlock - 1
NIL == -1

Lists == {"whole", "broken"}
PageSizes == {"4K", "2M", "1G"}

\* blocks_in is frames_in(size) / FRAMES_PER_BLOCK, for the two large sizes.
BlocksIn(size) == IF size = "1G" THEN BlocksPerGiga ELSE 1

VARIABLES
    m_frames,  \* the bitmap: for each block, the slots of its free frames
    m_free,    \* m_blocks[i].free
    m_links,   \* m_whole and m_broken, and m_blocks[i].next and .prev
    boot,      \* boot_info::current(), empty before it is read
    op,        \* the operation that holds m_lock
    answer,    \* what the last alloc returned
    held       \* ghost: the frames handed out and not yet released

vars == <<m_frames, m_free, m_links, boot, op, answer, held>>

Idle == [kind |-> "idle", index |-> 0, last |-> 0]
Halt(why) == [kind |-> why, index |-> 0, last |-> 0]
NoBoot == [usable |-> {}, reserved |-> {}]
NoAnswer == [status |-> "none", size |-> "4K"]

Loops == {"populate", "take", "give"}
Panics == {"panic_listed", "panic_double_free", "panic_invalid"}
-----------------------------------------------------------------------------
(***************************************************************************)
(* The lists.  L is a value of m_links, l a list.                          *)
(***************************************************************************)
list_of(free) ==
    IF free = 0 THEN "none" ELSE IF free = FramesPerBlock THEN "whole" ELSE "broken"

push(L, l, i) ==
    LET h == L.head[l] IN
    [head |-> [L.head EXCEPT ![l] = i],
     next |-> [L.next EXCEPT ![i] = h],
     prev |-> [j \in Blocks |-> IF j = h THEN i ELSE IF j = i THEN NIL ELSE L.prev[j]]]

\* Faulty: the successor keeps pointing back at the block that left.
unlink_OneWay(L, l, i) ==
    LET n == L.next[i]
        p == L.prev[i]
    IN  [head |-> IF p = NIL THEN [L.head EXCEPT ![l] = n] ELSE L.head,
         next |-> [j \in Blocks |-> IF j = p THEN n ELSE L.next[j]],
         prev |-> L.prev]

unlink(L, l, i) ==
    LET n == L.next[i]
        p == L.prev[i]
    IN  [head |-> IF p = NIL THEN [L.head EXCEPT ![l] = n] ELSE L.head,
         next |-> [j \in Blocks |-> IF j = p THEN n ELSE L.next[j]],
         prev |-> [j \in Blocks |-> IF j = n THEN p ELSE L.prev[j]]]

relink(L, from, to, i) ==
    LET U == IF from = "none" THEN L ELSE unlink(L, from, i)
    IN  IF to = "none" THEN U ELSE push(U, to, i)

set_free(i, free) ==
    /\ LET from == list_of(m_free[i])
           to == list_of(free)
       IN  m_links' = IF from = to THEN m_links ELSE relink(m_links, from, to, i)
    /\ m_free' = [m_free EXCEPT ![i] = free]
-----------------------------------------------------------------------------
(***************************************************************************)
(* Filling the bitmap from the boot information.  Addresses are counted in *)
(* units of which a frame has FrameSize, so that a range may start or end  *)
(* inside a frame.                                                         *)
(***************************************************************************)
MaxPhysicalMemory == BlockCount * FramesPerBlock * FrameSize

frame_number(i, s) == i * FramesPerBlock + s

\* Faulty: a reserved range, too, loses the frames it only touches.
mark_Inward(r, usable) ==
    LET end == IF r.length > MaxPhysicalMemory - r.base
               THEN MaxPhysicalMemory ELSE r.base + r.length
        first == (r.base + FrameSize - 1) \div FrameSize
        last == end \div FrameSize
    IN  [i \in Blocks |-> {s \in Slots : first <= frame_number(i, s) /\ frame_number(i, s) < last}]

\* mark: a usable range loses the frames it only touches, a reserved one gains them.
mark(r, usable) ==
    LET end == IF r.length > MaxPhysicalMemory - r.base
               THEN MaxPhysicalMemory ELSE r.base + r.length
        down(a) == a \div FrameSize
        up(a) == (a + FrameSize - 1) \div FrameSize
        first == IF usable THEN up(r.base) ELSE down(r.base)
        last == IF usable THEN down(end) ELSE up(end)
    IN  IF r.length = 0 \/ r.base >= MaxPhysicalMemory
        THEN [i \in Blocks |-> {}]
        ELSE [i \in Blocks |-> {s \in Slots : /\ first <= frame_number(i, s)
                                              /\ frame_number(i, s) < last}]

\* claim(boot, FREE), the first MiB, the image, claim(boot, RESERVE).
populated(b) ==
    LET reserved == b.reserved \cup {Image, [base |-> 0, length |-> LowMemory]}
    IN  [i \in Blocks |-> (UNION {mark(r, TRUE)[i] : r \in b.usable})
                          \ (UNION {mark(r, FALSE)[i] : r \in reserved})]
-----------------------------------------------------------------------------
\* .bss: a block's links are zero, not NIL, until it is first put on a list.
Init ==
    /\ m_frames = [i \in Blocks |-> {}]
    /\ m_free = [i \in Blocks |-> 0]
    /\ m_links = [head |-> [l \in Lists |-> NIL],
                  next |-> [i \in Blocks |-> 0],
                  prev |-> [i \in Blocks |-> 0]]
    /\ boot = NoBoot
    /\ op = Halt("off")
    /\ answer = NoAnswer
    /\ held = [i \in Blocks |-> {}]

populate(b) ==
    /\ op.kind = "off"
    /\ boot' = b
    /\ m_frames' = populated(b)
    /\ op' = [kind |-> "populate", index |-> 0, last |-> BlockCount - 1]
    /\ UNCHANGED <<m_free, m_links, answer, held>>

\* init_allocator after populate: with both lists empty the boot is given up.
after_loop == IF op.kind = "populate" /\ \A l \in Lists : m_links'.head[l] = NIL
              THEN Halt("no_usable_memory")
              ELSE Idle

loop_target(i) ==
    CASE op.kind = "populate" -> Cardinality(m_frames[i])
      [] op.kind = "take" -> 0
      [] op.kind = "give" -> FramesPerBlock

\* One iteration of the loop of populate, take_whole or free.
SetFreeLoop ==
    /\ op.kind \in Loops
    /\ set_free(op.index, loop_target(op.index))
    /\ op' = IF op.index = op.last THEN after_loop ELSE [op EXCEPT !.index = @ + 1]
    /\ UNCHANGED <<m_frames, boot, answer, held>>

Panic(why) ==
    /\ op' = Halt(why)
    /\ UNCHANGED <<m_frames, m_free, m_links, boot, answer, held>>

OutOfMemory(size) ==
    /\ answer' = [status |-> "oom", size |-> size]
    /\ UNCHANGED <<m_frames, m_free, m_links, boot, op, held>>

find_set(bits) == CHOOSE s \in bits : \A t \in bits : s <= t

\* The block a single frame is taken from: a broken one, so that whole ones stay whole.
pick_block == IF m_links.head["broken"] # NIL
              THEN m_links.head["broken"] ELSE m_links.head["whole"]

\* take<SIZE_4K>
take_4K ==
    LET index == pick_block
        s == find_set(m_frames[index])
    IN  IF index = NIL THEN OutOfMemory("4K")
        ELSE IF m_frames[index] = {} THEN Panic("panic_listed")
        ELSE /\ m_frames' = [m_frames EXCEPT ![index] = @ \ {s}]
             /\ set_free(index, m_free[index] - 1)
             /\ held' = [held EXCEPT ![index] = @ \cup {s}]
             /\ answer' = [status |-> "ok", size |-> "4K"]
             /\ UNCHANGED <<boot, op>>

\* Faulty: only the first block of a run is looked at.
whole_runs_FirstOnly(size) ==
    {first \in Blocks : first % BlocksIn(size) = 0 /\ m_free[first] = FramesPerBlock}

\* The aligned runs of whole blocks that find_whole_run scans.
whole_runs(size) ==
    {first \in Blocks : /\ first % BlocksIn(size) = 0
                        /\ \A k \in 0 .. BlocksIn(size) - 1 :
                              m_free[first + k] = FramesPerBlock}

find_whole_run(size) ==
    IF size = "2M" THEN m_links.head["whole"]
    ELSE IF whole_runs(size) = {} THEN NIL
    ELSE find_set(whole_runs(size))

\* take<SIZE_2M> and take<SIZE_1G>: take_whole clears the bits, then loops.
take_large(size) ==
    LET first == find_whole_run(size)
        run == first .. first + BlocksIn(size) - 1
    IN  IF first = NIL THEN OutOfMemory(size)
        ELSE /\ m_frames' = [i \in Blocks |-> IF i \in run THEN {} ELSE m_frames[i]]
             /\ op' = [kind |-> "take", index |-> first, last |-> first + BlocksIn(size) - 1]
             /\ held' = [i \in Blocks |-> IF i \in run THEN Slots ELSE held[i]]
             /\ answer' = [status |-> "ok", size |-> size]
             /\ UNCHANGED <<m_free, m_links, boot>>

alloc(size) ==
    /\ op = Idle
    /\ IF size = "4K" THEN take_4K ELSE take_large(size)

(***************************************************************************)
(* free(size, base): base is frame s of block i, plus an offset inside the *)
(* frame.  The frames are checked against the bitmap and not against what  *)
(* was handed out, so the release of a frame that was never free is        *)
(* accepted: callers never release one (CallerContract).                   *)
(***************************************************************************)
CallerContract(run, slots) ==
    \A j \in run : slots \subseteq m_frames[j] \cup held[j]

free(size, i, s, offset) ==
    LET last == i + BlocksIn(size) - 1
        run == i .. last
        slots == IF size = "4K" THEN {s} ELSE Slots
        aligned == /\ offset = 0
                   /\ size # "4K" => s = 0 /\ i % BlocksIn(size) = 0
    IN  /\ op = Idle
        /\ IF ~aligned \/ last >= BlockCount THEN Panic("panic_invalid")
           ELSE /\ CallerContract(run, slots)
                /\ IF \E j \in run : slots \cap m_frames[j] # {}
                   THEN Panic("panic_double_free")
                   ELSE /\ m_frames' = [j \in Blocks |-> IF j \in run THEN m_frames[j] \cup slots
                                                         ELSE m_frames[j]]
                        /\ held' = [j \in Blocks |-> IF j \in run THEN held[j] \ slots ELSE held[j]]
                        /\ answer' = NoAnswer
                        /\ UNCHANGED boot
                        /\ IF size = "4K"
                           THEN set_free(i, m_free[i] + 1) /\ UNCHANGED op
                           ELSE /\ op' = [kind |-> "give", index |-> i, last |-> last]
                                /\ UNCHANGED <<m_free, m_links>>

\* KPANIC and a boot that is given up end in a loop of hlt.
Halted ==
    /\ op.kind \in Panics \cup {"no_usable_memory"}
    /\ UNCHANGED vars

Next ==
    \/ \E b \in BootInfos : populate(b)
    \/ SetFreeLoop
    \/ \E size \in PageSizes : alloc(size)
    \/ \E size \in PageSizes, i \in 0 .. BlockCount, s \in Slots, offset \in {0, 1} :
          free(size, i, s, offset)
    \/ Halted

Spec == Init /\ [][Next]_vars
-----------------------------------------------------------------------------
Links == [head : [Lists -> Blocks \cup {NIL}],
          next : [Blocks -> Blocks \cup {NIL}],
          prev : [Blocks -> Blocks \cup {NIL}]]

\* Every variable keeps its type: counts stay within a block, a loop within the blocks.
TypeOK ==
    /\ m_frames \in [Blocks -> SUBSET Slots]
    /\ m_free \in [Blocks -> 0 .. FramesPerBlock]
    /\ m_links \in Links
    /\ boot \in BootInfos \cup {NoBoot}
    /\ op \in [kind : Loops \cup Panics \cup {"off", "idle", "no_usable_memory"},
               index : Blocks, last : Blocks]
    /\ op.index <= op.last
    /\ op.kind = "off" => boot = NoBoot
    /\ answer \in [status : {"none", "ok", "oom"}, size : PageSizes]
    /\ held \in [Blocks -> SUBSET Slots]

\* The blocks that a loop in progress has yet to visit.
Pending == IF op.kind \in Loops THEN op.index .. op.last ELSE {}

\* The free count of a block (pmm.cpp, m_blocks[i].free) is the number of its set
\* bits, except in the blocks a loop has still to visit, which hold the old count.
CountsMatchBitmap ==
    \A i \in Blocks :
       IF i \in Pending
       THEN CASE op.kind = "populate" -> m_free[i] = 0
              [] op.kind = "take" -> m_free[i] = FramesPerBlock /\ m_frames[i] = {}
              [] op.kind = "give" -> m_free[i] = 0 /\ m_frames[i] = Slots
       ELSE m_free[i] = Cardinality(m_frames[i])

Class(l) == {i \in Blocks : list_of(m_free[i]) = l}

\* ws spells list l: following next from the head visits ws in order, prev is its inverse.
Spells(L, l, ws, n) ==
    /\ L.head[l] = IF n = 0 THEN NIL ELSE ws[1]
    /\ \A k \in 1 .. n : /\ L.next[ws[k]] = IF k = n THEN NIL ELSE ws[k + 1]
                         /\ L.prev[ws[k]] = IF k = 1 THEN NIL ELSE ws[k - 1]

IsListOf(L, l, C) ==
    \E ws \in [1 .. Cardinality(C) -> C] :
       /\ \A j, k \in 1 .. Cardinality(C) : ws[j] = ws[k] => j = k
       /\ \A c \in C : \E k \in 1 .. Cardinality(C) : ws[k] = c
       /\ Spells(L, l, ws, Cardinality(C))

\* push, unlink and set_free keep each list a proper doubly linked list of exactly
\* the blocks whose count puts them there: no block is lost, listed twice or on a cycle.
ListsHoldTheirBlocks == \A l \in Lists : IsListOf(m_links, l, Class(l))

\* Every usable frame is either free or handed out, never both, and no other frame is
\* either: alloc and free lose no frame and bring in none that populate left out.
EveryFrameAccountedFor ==
    \A i \in Blocks :
       /\ m_frames[i] \cap held[i] = {}
       /\ m_frames[i] \cup held[i] = populated(boot)[i]

\* KPANIC "block is listed as free but holds nothing" (pmm.cpp:159) is unreachable.
ListedBlocksHoldFrames == op.kind # "panic_listed"

\* The four structures of the allocator agree between any two steps of alloc, free and
\* populate: bitmap, counts, lists and what the callers hold.  The inductive invariant.
Inv ==
    /\ TypeOK
    /\ CountsMatchBitmap
    /\ ListsHoldTheirBlocks
    /\ EveryFrameAccountedFor
    /\ ListedBlocksHoldFrames

InRange(a, r) == r.base <= a /\ a < r.base + r.length

\* No frame that touches a reserved range, the first MiB or the kernel image, or that
\* reaches past the usable ranges, is ever free or handed out (rounding and clamping in mark).
OnlyUsableMemory ==
    \A i \in Blocks : \A s \in m_frames[i] \cup held[i] :
       \A a \in frame_number(i, s) * FrameSize .. (frame_number(i, s) + 1) * FrameSize - 1 :
          /\ a >= LowMemory
          /\ ~InRange(a, Image)
          /\ \A r \in boot.reserved : ~InRange(a, r)
          /\ \E r \in boot.usable : InRange(a, r)
-----------------------------------------------------------------------------
\* The abstract allocator's step is the bitmap's: the loops that follow it stutter.
phase == CASE op.kind = "off" -> "off"
           [] op.kind = "populate" -> "booting"
           [] op.kind \in {"idle", "take", "give"} -> "up"
           [] OTHER -> "halted"

Abstract == INSTANCE FrameAllocator
            WITH pool <- m_frames, Populations <- {populated(b) : b \in BootInfos}

\* pmm::alloc and pmm::free implement FrameAllocator: an alloc grants an aligned run of
\* frames that were all free, or is refused when there is none, and a free returns
\* frames that were held.
ImplementsFrameAllocator == Abstract!Spec
=============================================================================
