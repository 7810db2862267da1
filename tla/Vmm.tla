-------------------------------- MODULE Vmm --------------------------------
(***************************************************************************)
(* Kernel virtual memory, kernel/mm/vmm.cpp: a window of virtual addresses *)
(* from which alloc hands out ranges, each backed page by page with frames *)
(* of the frame allocator, and a sorted table of the ranges handed out.    *)
(*                                                                         *)
(* m_lock is held during a whole operation; op is the operation that holds *)
(* it.  A step is what happens to one page.  The page tables are used as   *)
(* AddressSpace describes them; the frames they take and give back are     *)
(* nondeterministic (map_range may link up to TablesPerPage new tables and *)
(* keeps those it linked when the next one is refused).  Addresses are     *)
(* counted in units of which a frame has FrameSize, modulo Space.          *)
(*                                                                         *)
(* map_mmio maps device registers at a fixed place in a window of their    *)
(* own and never unmaps them.  A page whose owner may have used it differs *)
(* from a fresh one if the processor has set the accessed bit.             *)
(***************************************************************************)
EXTENDS Integers, FiniteSets

CONSTANTS
    FrameSize,          \* FRAME_SIZE
    VmallocBase,        \* VMALLOC_BASE
    VmallocSize,        \* VMALLOC_SIZE
    MmioSize,           \* MMIO_MAP_SIZE
    Space,              \* 2^64
    MaxAllocations,     \* MAX_ALLOCATIONS, 1024 in the kernel
    TablesPerPage,      \* levels below the root, 3 in the kernel
    Frames,             \* the frames of the frame allocator
    Sizes,              \* the byte counts that callers pass
    Prots               \* the protections that callers pass

\* The window starts above address 0: in one that starts there and ends a page below Space,
\* the room that fits asks for could wrap to nothing.
ASSUME WindowAssumption ==
    /\ FrameSize \in Nat \ {0} /\ MaxAllocations \in Nat \ {0}
    /\ VmallocBase \in Nat \ {0} /\ VmallocSize \in Nat /\ Space \in Nat
    /\ VmallocBase % FrameSize = 0 /\ VmallocSize % FrameSize = 0 /\ Space % FrameSize = 0
    /\ VmallocBase + VmallocSize < Space
    /\ MmioSize \in Nat /\ MmioSize % FrameSize = 0 /\ MmioSize < Space

VmallocEnd == VmallocBase + VmallocSize
Addresses == 0 .. Space - 1

\* The frames are finitely many, a byte count is a size_t, and "none" is no protection.
ASSUME CallerAssumption ==
    /\ IsFiniteSet(Frames)
    /\ Sizes \subseteq Addresses
    /\ "none" \notin Prots

PagesOf(base, bytes) == {a \in base .. base + bytes - 1 : a % FrameSize = 0}
Window == PagesOf(VmallocBase, VmallocSize)
MmioPages == PagesOf(0, MmioSize)

align_down(a) == (a \div FrameSize) * FrameSize
align_up(a) == ((((a + FrameSize - 1) % Space) \div FrameSize) * FrameSize) % Space

NotMapped == [frame |-> "none", prot |-> "none"]

VARIABLES
    m_allocations,  \* the array, indexed from 0
    m_count,
    mapping,        \* the kernel's address space, in the window
    pool,           \* the frames the frame allocator has free
    tables,         \* the frames that are page tables of the window
    mmio,           \* the pages of the MMIO window: unmapped, mapped or granted
    mmio_tables,    \* the frames that are page tables of the MMIO window
    op,             \* the operation that holds m_lock
    answer          \* what the last operation returned

window_vars == <<m_allocations, m_count, mapping, tables>>
mmio_vars == <<mmio, mmio_tables>>
vars == <<window_vars, pool, mmio_vars, op, answer>>

Index == 0 .. MaxAllocations - 1
Live == 0 .. m_count - 1
Idle == [kind |-> "idle", base |-> 0, bytes |-> 0, offset |-> 0, index |-> 0, prot |-> "none",
         result |-> "ok"]

gap_start(index) ==
    IF index = 0 THEN VmallocBase
    ELSE (m_allocations[index - 1].base + m_allocations[index - 1].bytes + FrameSize) % Space

gap_end(index) == IF index = m_count THEN VmallocEnd ELSE m_allocations[index].base

\* Faulty: room for the pages, none for the guard page behind them.
fits_NoGuard(index, bytes) == (gap_end(index) - gap_start(index)) % Space >= bytes

\* The unsigned difference: it wraps if a gap ends before it starts.
fits(index, bytes) == (gap_end(index) - gap_start(index)) % Space >= (bytes + FrameSize) % Space

\* find_gap: the indexes at which a range fits; alloc takes the first.
gaps(bytes) ==
    IF m_count = MaxAllocations THEN {} ELSE {index \in 0 .. m_count : fits(index, bytes)}
find_gap(bytes) == CHOOSE index \in gaps(bytes) : \A other \in gaps(bytes) : index <= other

insert(index, entry) ==
    /\ m_allocations' = [i \in Index |-> IF i = index THEN entry
                                         ELSE IF index < i /\ i <= m_count THEN m_allocations[i - 1]
                                         ELSE m_allocations[i]]
    /\ m_count' = m_count + 1

erase(index) ==
    /\ m_allocations' = [i \in Index |-> IF index <= i /\ i + 1 < m_count THEN m_allocations[i + 1]
                                         ELSE m_allocations[i]]
    /\ m_count' = m_count - 1

Init ==
    /\ m_allocations = [i \in Index |-> [base |-> 0, bytes |-> 0]]
    /\ m_count = 0
    /\ mapping = [va \in Window |-> NotMapped]
    /\ pool = Frames
    /\ tables = {}
    /\ mmio = [page \in MmioPages |-> "unmapped"] /\ mmio_tables = {}
    /\ op = Idle
    /\ answer = "none"

Return(result) ==
    /\ op' = Idle
    /\ answer' = result

Refuse(result) ==
    /\ Return(result)
    /\ UNCHANGED <<window_vars, pool>>
-----------------------------------------------------------------------------
\* alloc up to the call of back
alloc(bytes, prot) ==
    LET size == align_up(bytes)
    IN  /\ op = Idle
        /\ IF bytes = 0 \/ bytes > VmallocSize THEN Refuse("INVALID_ADDRESS")
           ELSE IF gaps(size) = {} THEN Refuse("OUT_OF_MEMORY")
           ELSE /\ op' = [Idle EXCEPT !.kind = "back", !.base = gap_start(find_gap(size)),
                                      !.bytes = size, !.index = find_gap(size), !.prot = prot]
                /\ UNCHANGED <<m_allocations, m_count, mapping, pool, tables, answer>>

\* Faulty: a failure returns without releasing what is mapped so far.
rollback_None(result) == Return(result)

\* Faulty: a failure is retried for as long as it lasts.
rollback_Retry(result) == UNCHANGED <<op, answer>>

\* A failure in back: the pages mapped so far are released, if there are any.
rollback(result) ==
    IF op.offset = 0 THEN Return(result)
    ELSE /\ op' = [op EXCEPT !.kind = "release", !.bytes = op.offset, !.offset = 0, !.result = result]
         /\ UNCHANGED answer

\* Faulty: the frame that could not be mapped is forgotten.
map_failed_Leak(frame, linked) ==
    /\ rollback("OUT_OF_MEMORY")
    /\ pool' = {}
    /\ tables' = tables \cup linked
    /\ UNCHANGED <<m_allocations, m_count, mapping>>

\* map_range runs out of frames for tables: the frame goes back, the tables stay linked.
map_failed(frame, linked) ==
    /\ rollback("OUT_OF_MEMORY")
    /\ pool' = {frame}
    /\ tables' = tables \cup linked
    /\ UNCHANGED <<m_allocations, m_count, mapping>>

\* The page is mapped; the last one is followed by the insertion into the table.
map_succeeded(va, frame, linked) ==
    /\ mapping' = [mapping EXCEPT ![va] = [frame |-> frame, prot |-> op.prot]]
    /\ pool' = pool \ ({frame} \cup linked)
    /\ tables' = tables \cup linked
    /\ IF op.offset + FrameSize < op.bytes
       THEN /\ op' = [op EXCEPT !.offset = @ + FrameSize]
            /\ UNCHANGED <<m_allocations, m_count, answer>>
       ELSE /\ insert(op.index, [base |-> op.base, bytes |-> op.bytes])
            /\ Return("ok")

\* One round of the loop of back.
back ==
    LET va == op.base + op.offset
    IN  /\ op.kind = "back"
        /\ \/ /\ pool = {}
              /\ rollback("OUT_OF_MEMORY")
              /\ UNCHANGED <<m_allocations, m_count, mapping, pool, tables>>
           \/ \E frame \in pool :
                 IF mapping[va] # NotMapped
                 THEN /\ rollback("CONFLICT")
                      /\ UNCHANGED <<m_allocations, m_count, mapping, pool, tables>>
                 ELSE \E linked \in SUBSET (pool \ {frame}) :
                        /\ Cardinality(linked) <= TablesPerPage
                        /\ \/ map_succeeded(va, frame, linked)
                           \/ /\ linked = pool \ {frame} /\ Cardinality(linked) < TablesPerPage
                              /\ map_failed(frame, linked)

\* One round of release: a page is unmapped, its frame and the pruned tables go back.
\* At the end alloc reports its failure, or free erases its entry.
release ==
    LET va == op.base + op.offset
        done == op.offset + FrameSize >= op.bytes
    IN  /\ op.kind \in {"release", "free"}
        /\ IF mapping[va] = NotMapped
           THEN /\ op' = [Idle EXCEPT !.kind = "panic"]
                /\ UNCHANGED <<m_allocations, m_count, mapping, pool, tables, answer>>
           ELSE /\ mapping' = [mapping EXCEPT ![va] = NotMapped]
                /\ \E pruned \in SUBSET tables :
                      /\ Cardinality(pruned) <= TablesPerPage
                      /\ pool' = pool \cup {mapping[va].frame} \cup pruned
                      /\ tables' = tables \ pruned
                /\ IF done THEN Return(op.result)
                   ELSE op' = [op EXCEPT !.offset = @ + FrameSize] /\ UNCHANGED answer
                /\ IF done /\ op.kind = "free" THEN erase(op.index)
                   ELSE UNCHANGED <<m_allocations, m_count>>

\* free up to the call of release
free(ptr, bytes) ==
    LET found == {i \in Live : m_allocations[i].base = ptr}
        index == CHOOSE i \in found : \A j \in found : i <= j
        entry == m_allocations[index]
    IN  /\ op = Idle
        /\ IF found = {} THEN Refuse("INVALID_ADDRESS")
           ELSE IF entry.bytes # align_up(bytes) THEN Refuse("INVALID_ADDRESS")
           ELSE /\ op' = [Idle EXCEPT !.kind = "free", !.base = entry.base, !.bytes = entry.bytes,
                                      !.index = index]
                /\ UNCHANGED <<m_allocations, m_count, mapping, pool, tables, answer>>

\* Faulty: it is enough that a range starts inside an allocation.
covers_Start(entry, first, last) == first >= entry.base /\ first < entry.base + entry.bytes

covers(entry, first, last) == first >= entry.base /\ last <= entry.base + entry.bytes

\* protect: protect_range goes page by page and stops at one that is not mapped.
protect(ptr, bytes, prot) ==
    LET last == align_up((ptr + bytes) % Space)
        pages == PagesOf(ptr, last - ptr)
        holes == {va \in pages : va \notin Window \/ mapping[va] = NotMapped}
    IN  /\ op = Idle
        /\ IF bytes = 0 \/ ptr % FrameSize # 0 \/ last <= ptr
              \/ \A i \in Live : ~covers(m_allocations[i], ptr, last)
           THEN Refuse("INVALID_ADDRESS")
           ELSE /\ mapping' = [va \in Window |->
                                 IF va \in pages /\ \A hole \in holes : va < hole
                                 THEN [mapping[va] EXCEPT !.prot = prot] ELSE mapping[va]]
                /\ Return(IF holes = {} THEN "ok" ELSE "NOT_MAPPED")
                /\ UNCHANGED <<m_allocations, m_count, pool, tables>>

-----------------------------------------------------------------------------
\* map_mmio up to the call of map_range
map_mmio(pa, bytes) ==
    /\ op = Idle
    /\ IF bytes = 0 \/ pa >= MmioSize \/ bytes > MmioSize - pa THEN Refuse("INVALID_ADDRESS")
       ELSE /\ op' = [Idle EXCEPT !.kind = "mmio", !.base = align_down(pa),
                                  !.bytes = align_up(pa + bytes) - align_down(pa)]
            /\ UNCHANGED <<window_vars, pool, answer>>
    /\ UNCHANGED mmio_vars

MmioRange == PagesOf(op.base, op.bytes)

\* The page at hand is in place; behind the last one the caller gets its pointer.
mmio_next(mapped) ==
    IF op.offset + FrameSize < op.bytes
    THEN op' = [op EXCEPT !.offset = @ + FrameSize] /\ mmio' = mapped /\ UNCHANGED answer
    ELSE /\ Return("ok")
         /\ mmio' = [page \in MmioPages |->
                       IF page \in MmioRange /\ mapped[page] = "mapped" THEN "granted" ELSE mapped[page]]

\* Faulty: an error of map_range is not reported.
mmio_step_Unchecked ==
    LET page == op.base + op.offset
    IN  /\ op.kind = "mmio"
        /\ mmio_next(IF pool = {} THEN mmio ELSE [mmio EXCEPT ![page] = "mapped"])
        /\ UNCHANGED <<pool, mmio_tables, window_vars>>

\* One page of map_range.  A page that is mapped is passed over while its entry is still
\* the one map_range would write, which a page in use may no longer have; what was mapped
\* and linked before a failure stays.
mmio_step ==
    LET page == op.base + op.offset
    IN  /\ op.kind = "mmio"
        /\ \/ /\ mmio[page] = "granted"
              /\ Return("CONFLICT")
              /\ UNCHANGED <<mmio_vars, pool>>
           \/ /\ mmio[page] \in {"mapped", "granted"}
              /\ mmio_next(mmio)
              /\ UNCHANGED <<pool, mmio_tables>>
           \/ /\ mmio[page] = "unmapped"
              /\ \E linked \in SUBSET pool :
                    /\ Cardinality(linked) <= TablesPerPage
                    /\ pool' = pool \ linked /\ mmio_tables' = mmio_tables \cup linked
                    /\ \/ mmio_next([mmio EXCEPT ![page] = "mapped"])
                       \/ /\ linked = pool /\ Cardinality(linked) < TablesPerPage
                          /\ Return("OUT_OF_MEMORY")
                          /\ UNCHANGED mmio
        /\ UNCHANGED window_vars

Step == ((back \/ release) /\ UNCHANGED mmio_vars) \/ mmio_step

Next ==
    \/ /\ UNCHANGED mmio_vars
       /\ \/ \E bytes \in Sizes, prot \in Prots : alloc(bytes, prot)
          \/ \E ptr \in Window, bytes \in Sizes : free(ptr, bytes)
          \/ \E ptr \in Window, bytes \in Sizes, prot \in Prots : protect(ptr, bytes, prot)
    \/ Step
    \/ \E pa \in 0 .. MmioSize, bytes \in Sizes : map_mmio(pa, bytes)

Spec == Init /\ [][Next]_vars

\* An operation that holds the lock is executed to its return.
FairSpec == Spec /\ WF_vars(Step)
-----------------------------------------------------------------------------
\* Every variable keeps its type and the operation in progress its place in the window.
TypeOK ==
    /\ m_allocations \in [Index -> [base : Addresses, bytes : Addresses]]
    /\ m_count \in 0 .. MaxAllocations
    /\ mapping \in [Window -> [frame : Frames, prot : Prots] \cup {NotMapped}]
    /\ pool \subseteq Frames /\ tables \subseteq Frames
    /\ mmio \in [MmioPages -> {"unmapped", "mapped", "granted"}]
    /\ mmio_tables \subseteq Frames
    /\ op \in [kind : {"idle", "back", "release", "free", "mmio", "panic"}, base : Addresses,
               bytes : Addresses, offset : Addresses, index : 0 .. MaxAllocations,
               prot : Prots \cup {"none"}, result : {"ok", "OUT_OF_MEMORY", "CONFLICT"}]
    /\ op.kind \in {"back", "release", "free"} => op.base + op.offset \in Window
    /\ op.kind = "mmio" => op.base + op.offset \in MmioPages
    /\ answer \in {"none", "ok", "OUT_OF_MEMORY", "INVALID_ADDRESS", "NOT_MAPPED", "CONFLICT"}

\* The table is sorted and a guard page follows every range, inside the window; so the
\* unsigned subtraction of find_gap (vmm.cpp:55) never wraps and ranges never overlap.
SortedWithGuards ==
    /\ \A i \in Live : /\ m_allocations[i].bytes > 0
                       /\ gap_start(i) <= m_allocations[i].base
    /\ gap_start(m_count) <= VmallocEnd

Backed(i) == PagesOf(m_allocations[i].base, m_allocations[i].bytes)

\* The pages of the operation in progress that are mapped but in no finished range, and
\* those of a range being freed that are unmapped already.
Arriving == CASE op.kind = "back" -> PagesOf(op.base, op.offset)
              [] op.kind = "release" -> PagesOf(op.base + op.offset, op.bytes - op.offset)
              [] OTHER -> {}
Leaving == IF op.kind = "free" THEN PagesOf(op.base, op.offset) ELSE {}

\* A page of the window is mapped exactly when it belongs to a range of the table, up to
\* the operation in progress: a failed alloc leaves no page behind, free unmaps all of
\* its range and nothing else, and guard pages stay unmapped.
MappedExactly ==
    op.kind # "panic" =>
       {va \in Window : mapping[va] # NotMapped} = ((UNION {Backed(i) : i \in Live}) \cup Arriving) \ Leaving

\* Every frame is free, a page table, or behind exactly one page: none is lost when back
\* fails half way, and none is mapped twice.
FramesConserved ==
    LET used == {va \in Window : mapping[va] # NotMapped}
        behind == {mapping[va].frame : va \in used}
    IN  /\ Cardinality(used) = Cardinality(behind)
        /\ pool \cup tables \cup mmio_tables \cup behind = Frames
        /\ Cardinality(pool) + Cardinality(tables) + Cardinality(mmio_tables)
              + Cardinality(behind) = Cardinality(Frames)

\* KPANIC "allocation at ... is not fully mapped" (vmm.cpp:91) is unreachable.
ReleaseNeverPanics == op.kind # "panic"

\* The table of ranges and the page tables never drift apart: so release and free always
\* find what they are to unmap, after any failure of back.
WindowSound == TypeOK /\ MappedExactly /\ ReleaseNeverPanics

\* protect is all or nothing: a range that passes the check of the table (vmm.cpp:174) has
\* no hole, so protect_range never stops half way with part of it changed, and no page
\* gets another frame.
ProtectAllOrNothing ==
    [][op = Idle /\ op' = Idle =>
         /\ answer' # "NOT_MAPPED"
         /\ mapping' # mapping => answer' = "ok"
         /\ \A va \in Window : mapping'[va].frame = mapping[va].frame]_vars

\* Every operation returns and gives the lock back.
OperationsReturn == (op.kind \in {"back", "release", "free", "mmio"}) ~> (op = Idle)

\* A pointer into the MMIO window is handed out only when every page of the range is mapped,
\* those left behind by a call that failed half way included; such a call is never in the
\* way of a later one (vmm.cpp:199): CONFLICT needs a page that was handed out.
MmioAnswers ==
    [][op.kind = "mmio" /\ op' = Idle =>
         /\ answer' = "ok" => \A page \in MmioRange : mmio'[page] = "granted"
         /\ answer' = "CONFLICT" => \E page \in MmioRange : mmio[page] = "granted"
         /\ answer' = "OUT_OF_MEMORY" => pool' = {} /\ \E page \in MmioRange : mmio'[page] = "unmapped"]_vars
=============================================================================
