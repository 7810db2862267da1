----------------------------- MODULE RadixTree -----------------------------
(***************************************************************************)
(* The page tables: arch/common/mmu/radix_tree.hpp with the x86_64 page    *)
(* format (mmu/paging.hpp) and environment (kernel_env in mmu/mmu.hpp).    *)
(*                                                                         *)
(* Addresses are page numbers.  A virtual address is a number below Space, *)
(* computed modulo Space; the middle of the space is not canonical.  A     *)
(* leaf at level l covers Entries^(l-1) pages.                             *)
(*                                                                         *)
(* A range operation runs under the VMM's lock, one leaf after the other.  *)
(* Its steps are the writes to the tables: an iteration of walk that links *)
(* a new table (grow), the write of a leaf, its removal, an iteration of   *)
(* prune.  The walks in between only read, so where an operation stands is *)
(* found again from the root.  The processor runs beside them: it caches   *)
(* leaves and tables and sets the accessed bit when it uses an address.    *)
(***************************************************************************)
EXTENDS Integers

CONSTANTS
    Levels, Entries,        \* LEVELS and ENTRIES, 4 and 512 in the kernel
    Space,                  \* 2^64 in pages
    LeafLevels,             \* the levels whose page size the processor supports
    NxEnabled, GlobalPagesEnabled,
    ImageTables,            \* the static tables: a table for each level from 2 up
    KernelBase,             \* KERNEL_BASE
    KernelWindow,           \* kernel_window_size(), in pages
    Frames,                 \* the frames the allocator has for tables
    Calls,                  \* the calls of map_range, protect_range and unmap_range
    Probes                  \* the addresses the processor uses

\* A leaf of one level covers as many pages as a table of the level below has room for.
pages_at[level \in 1 .. Levels] == IF level = 1 THEN 1 ELSE Entries * pages_at[level - 1]
PagesAt(level) == pages_at[level]
Half == (Entries * PagesAt(Levels)) \div 2
Indexes == 0 .. Entries - 1
Root == ImageTables[Levels]
Image == {ImageTables[l] : l \in 2 .. Levels}
Tables == Image \cup Frames
None == "none"

index(level, va) == (va \div PagesAt(level)) % Entries
valid(va) == va < Half \/ va >= Space - Half
aligned(a, level) == a % PagesAt(level) = 0

\* The tree has a level of directories, its canonical addresses are two halves of whole root
\* entries, and the smallest page is always supported.
ASSUME FormatAssumption ==
    /\ Levels \in Nat /\ Levels > 1
    /\ Entries \in Nat /\ Entries > 0 /\ Entries % 2 = 0
    /\ Space \in Nat /\ Space > 0 /\ Space % (Entries * PagesAt(Levels)) = 0
    /\ LeafLevels \subseteq 1 .. Levels /\ 1 \in LeafLevels

\* The static tables are distinct and not the allocator's, and the kernel's window ends
\* inside the one directory that maps it.
ASSUME ImageAssumption ==
    /\ \A k, l \in 2 .. Levels : ImageTables[k] = ImageTables[l] => k = l
    /\ Image \cap Frames = {} /\ None \notin Tables
    /\ KernelBase \in 0 .. Space - 1 /\ KernelWindow \in Nat \ {0}
    /\ \A o \in 0 .. KernelWindow - 1 : index(2, KernelBase) <= index(2, KernelBase + o)

\* Addresses, lengths and frames are unsigned; the processor uses any address.
ASSUME CallsAssumption ==
    /\ \A c \in Calls : /\ c.kind \in {"map", "protect", "unmap"} /\ c.level \in 1 .. Levels
                        /\ c.va \in 0 .. Space - 1 /\ c.length \in 0 .. Space - 1
                        /\ c.frame \in Nat
    /\ Probes \subseteq 0 .. Space - 1

\* A page of a size the processor lacks is mapped with the next smaller one.
leaf_size(level) == CHOOSE l \in LeafLevels : /\ l <= level
                                              /\ \A k \in LeafLevels : k <= level => k <= l

\* leaf_entry: the protection becomes the bits of an entry.
leaf_flags(prot) ==
    {f \in {"WRITABLE", "USER", "CACHE_DISABLE", "WRITE_THROUGH", "GLOBAL", "NO_EXECUTE"} :
       \/ f = "WRITABLE" /\ "WRITE" \in prot
       \/ f = "USER" /\ "USER" \in prot
       \/ f \in {"CACHE_DISABLE", "WRITE_THROUGH"} /\ "UNCACHED" \in prot
       \/ f = "GLOBAL" /\ "GLOBAL" \in prot /\ GlobalPagesEnabled
       \/ f = "NO_EXECUTE" /\ "EXEC" \notin prot /\ NxEnabled}

NoEntry == [kind |-> "none", to |-> 0, flags |-> {}, accessed |-> FALSE]
table_entry(t) == [kind |-> "table", to |-> t, flags |-> {}, accessed |-> FALSE]
leaf_entry(frame, flags) == [kind |-> "leaf", to |-> frame, flags |-> flags, accessed |-> FALSE]
present(e) == e.kind # "none"

EmptyTable == [i \in Indexes |-> NoEntry]

\* split: the entries of a child that translate as the large leaf e did.
split(e, level) == [i \in Indexes |-> leaf_entry(e.to + i * PagesAt(level - 1), e.flags)]
-----------------------------------------------------------------------------
VARIABLES
    mem,       \* the contents of the tables
    pool,      \* the frames of Frames that the frame allocator has free
    op,        \* the operation in progress
    answer,    \* what the last operation returned, and what was last unmapped
    starved,   \* whether alloc_table has ever failed
    tlb, psc   \* the processor's cached leaves, and tables it remembers

vars == <<mem, pool, op, answer, starved, tlb, psc>>

Idle == [kind |-> "idle", va |-> 0, length |-> 0, level |-> 1, frame |-> 0, flags |-> {},
         offset |-> 0, stage |-> "leaf", prune |-> 1]
Answer(status) == [status |-> status, frame |-> 0, pages |-> 0]

\* For each level, the table that a walk to va passes, or None below where it ends.
path(va) ==
    LET table[l \in 1 .. Levels] ==
          IF l = Levels THEN Root
          ELSE LET above == table[l + 1]
                   e == mem[above][index(l + 1, va)]
               IN  IF above = None \/ e.kind # "table" THEN None ELSE e.to
    IN  table

\* reached_level of walk(va, 1, false), and the slot there.
reached_level(va) ==
    CHOOSE l \in 1 .. Levels : /\ path(va)[l] # None
                               /\ l > 1 => path(va)[l - 1] = None
slot(va, level) == mem[path(va)[level]][index(level, va)]

NotMapped == [frame |-> -1, flags |-> {}]
Leaf(va) == slot(va, reached_level(va))
translate(va) ==
    IF ~valid(va) \/ ~present(Leaf(va)) THEN NotMapped
    ELSE [frame |-> Leaf(va).to + (va % PagesAt(reached_level(va))), flags |-> Leaf(va).flags]

\* Faulty: only the first entry is looked at.
is_table_empty_First(t) == mem[t][0] = NoEntry

is_table_empty(t) == mem[t] = EmptyTable

\* invlpg: drops the cached leaf that covers va and every remembered table.
flush(va) ==
    /\ tlb' = {c \in tlb : va \notin c.page .. c.page + PagesAt(c.level) - 1}
    /\ psc' = {}

\* Faulty: the old entry stays cached.
replace_NoFlush(va, level, e) ==
    /\ mem' = [mem EXCEPT ![path(va)[level]][index(level, va)] = e]
    /\ UNCHANGED <<tlb, psc>>

\* replace: the slot for va at the given level; the old entry is flushed if present.
replace(va, level, e) ==
    /\ mem' = [mem EXCEPT ![path(va)[level]][index(level, va)] = e]
    /\ IF present(slot(va, level)) THEN flush(va) ELSE UNCHANGED <<tlb, psc>>
-----------------------------------------------------------------------------
(***************************************************************************)
(* link_tables and fill_2m: the kernel's window, with pages of level 2.    *)
(***************************************************************************)
KernelFlags == leaf_flags({"WRITE", "EXEC", "GLOBAL"})

BootTable(l) ==
    [i \in Indexes |->
       IF l > 2 THEN IF i = index(l, KernelBase) THEN table_entry(ImageTables[l - 1]) ELSE NoEntry
       ELSE IF \E o \in 0 .. KernelWindow - 1 : i = index(2, KernelBase + o)
            THEN leaf_entry((i - index(2, KernelBase)) * PagesAt(2), KernelFlags)
            ELSE NoEntry]

Init ==
    /\ mem = [t \in Tables |-> IF t \in Image THEN BootTable(CHOOSE l \in 2 .. Levels : ImageTables[l] = t)
                               ELSE EmptyTable]
    /\ pool = Frames
    /\ op = Idle
    /\ answer = Answer("none")
    /\ starved = FALSE
    /\ tlb = {}
    /\ psc = {}

Finish(status) ==
    /\ op' = Idle
    /\ answer' = Answer(status)

Fail(status) ==
    /\ Finish(status)
    /\ UNCHANGED <<mem, pool, starved, tlb, psc>>

\* The address of the leaf an operation is at.
here == (op.va + op.offset) % Space

\* Faulty: the offset is left as it is.
Advance_NoProgress(pages) ==
    IF op.offset + pages >= op.length THEN Finish("ok")
    ELSE /\ op' = [op EXCEPT !.stage = "leaf", !.prune = 1]
         /\ UNCHANGED answer

\* for_each_leaf and the loop of unmap_range: on to the next leaf, or done.
Advance(pages) ==
    IF op.offset + pages >= op.length THEN Finish("ok")
    ELSE /\ op' = [op EXCEPT !.offset = @ + pages, !.stage = "leaf", !.prune = 1]
         /\ UNCHANGED answer
-----------------------------------------------------------------------------
\* An iteration of walk(va, target, true) that finds no table below a slot: a new one
\* is linked, empty or with the split of a large leaf.
grow(va, after) ==
    LET level == reached_level(va)
        e == slot(va, level)
    IN  IF pool = {}
        THEN /\ Finish("OUT_OF_MEMORY")
             /\ starved' = TRUE
             /\ UNCHANGED <<mem, pool, tlb, psc>>
        ELSE /\ \E child \in pool :
                  /\ pool' = pool \ {child}
                  /\ mem' = [mem EXCEPT ![path(va)[level]][index(level, va)] = table_entry(child),
                                        ![child] = IF present(e) THEN split(e, level) ELSE EmptyTable]
             /\ IF present(e) THEN flush(va) ELSE UNCHANGED <<tlb, psc>>
             /\ op' = after
             /\ UNCHANGED <<answer, starved>>

\* The call of an operation: the checks before its first leaf.
Call(c) ==
    LET level == leaf_size(c.level)
        end == (c.va + c.length) % Space
        refused == \/ c.length = 0 \/ ~aligned(c.length, level)
                   \/ c.kind = "unmap" /\ \/ ~valid(c.va) \/ ~aligned(c.va, level)
                                          \/ (end - 1) % Space < c.va
                                          \/ ~valid((end - 1) % Space)
    IN  /\ op = Idle
        /\ IF refused THEN Fail("INVALID_ADDRESS")
           ELSE /\ op' = [kind |-> c.kind, va |-> c.va, length |-> c.length, level |-> level,
                          frame |-> c.frame, flags |-> leaf_flags(c.prot), offset |-> 0,
                          stage |-> IF c.kind = "unmap" THEN "split_first" ELSE "leaf",
                          prune |-> 1]
                /\ UNCHANGED <<mem, pool, answer, starved, tlb, psc>>

\* map_leaf
map_leaf ==
    LET va == here
        e == leaf_entry(op.frame + op.offset, op.flags)
    IN  /\ op.kind = "map"
        /\ IF ~valid(va) \/ ~aligned(va, op.level) \/ ~aligned(op.frame + op.offset, op.level)
           THEN Fail("INVALID_ADDRESS")
           ELSE IF reached_level(va) > op.level
           THEN grow(va, op)
           ELSE IF present(slot(va, op.level)) /\ slot(va, op.level) # e THEN Fail("CONFLICT")
           ELSE /\ IF present(slot(va, op.level)) THEN UNCHANGED <<mem, tlb, psc>>
                   ELSE replace(va, op.level, e)
                /\ Advance(PagesAt(op.level))
                /\ UNCHANGED <<pool, starved>>

\* protect_leaf and walk_to_leaf
protect_leaf ==
    LET va == here
        level == reached_level(va)
    IN  /\ op.kind = "protect"
        /\ IF ~valid(va) \/ ~aligned(va, op.level) THEN Fail("INVALID_ADDRESS")
           ELSE IF level > op.level
           THEN IF present(slot(va, level)) THEN grow(va, op)
                ELSE Fail("NOT_MAPPED")
           ELSE IF ~present(slot(va, op.level)) THEN Fail("NOT_MAPPED")
           ELSE IF slot(va, op.level).kind # "leaf" THEN Fail("CONFLICT")
           ELSE /\ replace(va, op.level, leaf_entry(slot(va, op.level).to, op.flags))
                /\ Advance(PagesAt(op.level))
                /\ UNCHANGED <<pool, starved>>

\* split_at(boundary, target): a large leaf is split down to the target only when the
\* boundary lies inside it; grown says that the splitting has begun.
must_split(boundary, grown) ==
    LET level == reached_level(boundary)
    IN  /\ level > op.level
        /\ present(slot(boundary, level))
        /\ grown \/ ~aligned(boundary, level)

split_boundary ==
    LET first == op.stage \in {"split_first", "grow_first"}
        end == (op.va + op.length) % Space
        boundary == IF first THEN op.va ELSE end
        skipped == ~first /\ ~(end > op.va /\ valid(end))
        grown == op.stage \in {"grow_first", "grow_end"}
    IN  /\ op.kind = "unmap" /\ op.stage \in {"split_first", "grow_first", "split_end", "grow_end"}
        /\ IF ~skipped /\ must_split(boundary, grown)
           THEN grow(boundary, [op EXCEPT !.stage = IF first THEN "grow_first" ELSE "grow_end"])
           ELSE /\ op' = [op EXCEPT !.stage = IF first THEN "split_end" ELSE "leaf"]
                /\ UNCHANGED <<mem, pool, answer, starved, tlb, psc>>

\* remove_leaf up to its call of prune; what it removed goes to on_removed.
remove_leaf ==
    LET va == here
        level == reached_level(va)
    IN  /\ op.kind = "unmap" /\ op.stage = "leaf"
        /\ IF ~valid(va) THEN Fail("INVALID_ADDRESS")
           ELSE IF ~present(slot(va, level)) THEN Fail("NOT_MAPPED")
           ELSE /\ replace(va, level, NoEntry)
                /\ answer' = [status |-> "removed", frame |-> slot(va, level).to,
                              pages |-> PagesAt(level)]
                /\ op' = [op EXCEPT !.stage = "prune", !.prune = level]
                /\ UNCHANGED <<pool, starved>>

\* The condition under which prune goes on.
prunable(level, t) == level < Levels /\ is_table_empty(t)

\* Faulty: the table is freed and the slot still points to it.
prune_KeepSlot ==
    LET t == path(here)[op.prune]
    IN  /\ op.kind = "unmap" /\ op.stage = "prune"
        /\ UNCHANGED <<mem, starved, tlb, psc>>
        /\ IF prunable(op.prune, t)
           THEN /\ pool' = IF t \in Image THEN pool ELSE pool \cup {t}
                /\ op' = [op EXCEPT !.prune = @ + 1]
                /\ UNCHANGED answer
           ELSE Advance(answer.pages) /\ UNCHANGED pool

\* An iteration of prune: an empty table is unlinked, and freed unless it is static.
prune ==
    LET t == path(here)[op.prune]
    IN  /\ op.kind = "unmap" /\ op.stage = "prune"
        /\ UNCHANGED starved
        /\ IF prunable(op.prune, t)
           THEN /\ replace(here, op.prune + 1, NoEntry)
                /\ pool' = IF t \in Image THEN pool ELSE pool \cup {t}
                /\ op' = [op EXCEPT !.prune = @ + 1]
                /\ UNCHANGED answer
           ELSE Advance(answer.pages) /\ UNCHANGED <<mem, pool, tlb, psc>>

\* The processor uses an address: it caches the leaf and the tables on the way and
\* sets the leaf's accessed bit, at any time.
Access(va) ==
    /\ translate(va) # NotMapped
    /\ LET level == reached_level(va)
           c == [page |-> va - (va % PagesAt(level)), level |-> level,
                 frame |-> Leaf(va).to, flags |-> Leaf(va).flags]
       IN  /\ mem' = [mem EXCEPT ![path(va)[level]][index(level, va)].accessed = TRUE]
           /\ tlb' = tlb \cup {c}
           /\ psc' = psc \cup {path(va)[l] : l \in level .. Levels}
    /\ UNCHANGED <<pool, op, answer, starved>>

Step == map_leaf \/ protect_leaf \/ split_boundary \/ remove_leaf \/ prune

Next ==
    \/ \E c \in Calls : Call(c)
    \/ Step
    \/ \E va \in Probes : Access(va)

Spec == Init /\ [][Next]_vars

\* A call is never left half done: the processor executes it to its return.
FairSpec == Spec /\ WF_vars(Step)
-----------------------------------------------------------------------------
Pages == {va \in 0 .. Space - 1 : valid(va)}
\* Every variable keeps its type; an operation in progress stays inside its range.
TypeOK ==
    /\ \A t \in Tables : DOMAIN mem[t] = Indexes
    /\ \A t \in Tables, i \in Indexes :
          LET e == mem[t][i]
          IN  \/ e = NoEntry
              \/ \E u \in Tables : e = table_entry(u)
              \/ e.kind = "leaf" /\ e.to \in Nat /\ e.accessed \in BOOLEAN
    /\ pool \subseteq Frames
    /\ op.kind \in {"idle", "map", "protect", "unmap"}
    /\ op.stage \in {"leaf", "split_first", "grow_first", "split_end", "grow_end", "prune"}
    /\ op.offset \in Nat /\ (op.kind # "idle" => op.offset < op.length) /\ op.prune \in 1 .. Levels
    /\ answer.status \in {"none", "ok", "removed", "OUT_OF_MEMORY", "INVALID_ADDRESS",
                          "NOT_MAPPED", "CONFLICT"}
    /\ starved \in BOOLEAN
    /\ psc \subseteq Tables

\* The tables a walk to some address passes at the given level.
TablesAt(l) == {path(va)[l] : va \in Pages} \ {None}

References(t) == {k \in Tables \X Indexes : mem[k[1]][k[2]] = table_entry(t)}

\* walk, prune, alloc_table and free_table keep the tables a tree: every frame taken from
\* the allocator is in it, linked once; no frame that was given back is linked any more.
TablesFormTree ==
    /\ \A t \in Tables : \/ (\E k \in References(t) : References(t) = {k}) /\ t \notin pool \cup {Root}
                         \/ References(t) = {} /\ t \in pool \cup Image
    /\ Frames \ pool \subseteq UNION {TablesAt(l) : l \in 1 .. Levels}

\* prune leaves no empty table behind: the only empty ones are those of a walk that ran
\* out of frames half way.
NoEmptyTables ==
    op = Idle /\ ~starved =>
       \A l \in 1 .. Levels - 1 : \A t \in TablesAt(l) : ~is_table_empty(t)

\* Between any two steps of the range operations the tables are a tree without dead
\* branches, and every variable has its type.
TablesSound == TypeOK /\ TablesFormTree /\ NoEmptyTables

\* replace flushes whatever the processor may have cached, so a cached leaf always
\* agrees with the tables, also after a split and in the middle of a range.
NoStaleLeaf ==
    \A c \in tlb : \A k \in 0 .. PagesAt(c.level) - 1 :
       translate(c.page + k) = [frame |-> c.frame + k, flags |-> c.flags]

\* A table goes back to the frame allocator only when the processor has forgotten it.
NoStaleTable == psc \cap pool = {}

\* No translation is made from what is no longer there: neither from a leaf that replace has
\* changed nor through a table that prune has given back.
NoStaleTranslation == NoStaleLeaf /\ NoStaleTable

\* Every call of a range operation returns: the walks end and each round of a loop
\* moves on, whatever the processor caches meanwhile.
CallsReturn == (op # Idle) ~> (op = Idle)

\* config/layout.h:35: "two devices cannot collide and mapping one twice yields the same
\* address": a page that is already mapped to the same frame with the same flags is
\* mapped again without a conflict.
MappingTwiceYieldsTheSame ==
    [][(op.kind = "map" /\ op.level = 1 /\ op' = Idle /\ answer'.status = "CONFLICT")
       => translate(here) # [frame |-> op.frame + op.offset, flags |-> op.flags]]_vars
-----------------------------------------------------------------------------
\* The address space that callers see: the translation of every page.
NoCall == [kind |-> "idle"]
Abstract == INSTANCE AddressSpace
            WITH mapping <- [va \in Pages |-> translate(va)],
                 call <- IF op.kind = "idle" THEN NoCall
                         ELSE [kind |-> op.kind, va |-> op.va, length |-> op.length,
                               frame |-> op.frame, flags |-> op.flags]

\* The tables implement an address space: mapping never changes an existing translation,
\* no operation touches a page outside its range, unmapping reports exactly the frames it
\* removes, and "ok" means that the whole range is as asked.
ImplementsAddressSpace == Abstract!Spec
=============================================================================
