--------------------------- MODULE FrameAllocator ---------------------------
(***************************************************************************)
(* What kernel/mm/pmm.hpp promises its callers: a pool of frames, grants   *)
(* of aligned runs that were free as a whole, and releases that put them   *)
(* back.  Which run is granted, how free frames are found and which lists  *)
(* record them is left open.  Pmm implements this specification.           *)
(***************************************************************************)
EXTENDS Integers

CONSTANTS FramesPerBlock, BlocksPerGiga, Gigas,
          Populations  \* the free frames a boot memory map may leave

VARIABLES
    pool,    \* for each block, the slots of its free frames
    held,    \* for each block, the slots handed out
    answer,  \* what the last request was told
    phase    \* "off", "booting", "up" or "halted"

vars == <<pool, held, answer, phase>>

Blocks == 0 .. Gigas * BlocksPerGiga - 1
Slots == 0 .. FramesPerBlock - 1
PageSizes == {"4K", "2M", "1G"}
BlocksIn(size) == IF size = "1G" THEN BlocksPerGiga ELSE 1

\* The frames of block j in a run of the given size that starts at frame s of block i.
Footprint(size, i, s, j) ==
    IF j \notin i .. i + BlocksIn(size) - 1 THEN {}
    ELSE IF size = "4K" THEN {s} ELSE Slots

Aligned(size, i, s) == size # "4K" => s = 0 /\ i % BlocksIn(size) = 0

RunIn(frames, size, i, s) ==
    /\ Aligned(size, i, s)
    /\ i + BlocksIn(size) - 1 \in Blocks
    /\ \A j \in Blocks : Footprint(size, i, s, j) \subseteq frames[j]

Nothing == [j \in Blocks |-> {}]
-----------------------------------------------------------------------------
Init ==
    /\ pool = Nothing
    /\ held = Nothing
    /\ answer = [status |-> "none", size |-> "4K"]
    /\ phase = "off"

Populate ==
    /\ phase = "off"
    /\ phase' = "booting"
    /\ pool' \in Populations
    /\ UNCHANGED <<held, answer>>

\* A machine without a usable frame does not come up.
Start ==
    /\ phase = "booting"
    /\ phase' = IF pool = Nothing THEN "halted" ELSE "up"
    /\ UNCHANGED <<pool, held, answer>>

\* A granted run is aligned to its size and every frame of it was free.
Grant(size, i, s) ==
    /\ phase = "up"
    /\ RunIn(pool, size, i, s)
    /\ pool' = [j \in Blocks |-> pool[j] \ Footprint(size, i, s, j)]
    /\ held' = [j \in Blocks |-> held[j] \cup Footprint(size, i, s, j)]
    /\ answer' = [status |-> "ok", size |-> size]
    /\ UNCHANGED phase

\* A request is refused only when no run could be granted.
Refuse(size) ==
    /\ phase = "up"
    /\ \A i \in Blocks, s \in Slots : ~RunIn(pool, size, i, s)
    /\ answer' = [status |-> "oom", size |-> size]
    /\ UNCHANGED <<pool, held, phase>>

Release(size, i, s) ==
    /\ phase = "up"
    /\ RunIn(held, size, i, s)
    /\ pool' = [j \in Blocks |-> pool[j] \cup Footprint(size, i, s, j)]
    /\ held' = [j \in Blocks |-> held[j] \ Footprint(size, i, s, j)]
    /\ answer' = [status |-> "none", size |-> "4K"]
    /\ UNCHANGED phase

\* A release that is misaligned, outside memory or of a free frame stops the machine.
Die ==
    /\ phase = "up"
    /\ phase' = "halted"
    /\ UNCHANGED <<pool, held, answer>>

Next ==
    \/ Populate
    \/ Start
    \/ \E size \in PageSizes, i \in Blocks, s \in Slots : Grant(size, i, s) \/ Release(size, i, s)
    \/ \E size \in PageSizes : Refuse(size)
    \/ Die

Spec == Init /\ [][Next]_vars
=============================================================================
