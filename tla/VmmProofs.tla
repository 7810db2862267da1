----------------------------- MODULE VmmProofs -----------------------------
(***************************************************************************)
(* The proofs about Vmm: the arithmetic of pages, the inductive invariant, *)
(* the gaps of the region table and that the table keeps the invariant     *)
(* when regions enter and leave it; then the operations that release, find *)
(* and protect regions and map MMIO; and what follows from the invariant.  *)
(* At the end, the proofs about the callers in PosixMemory.                *)
(***************************************************************************)
EXTENDS PosixMemory, FiniteSetTheorems, WellFoundedInduction, TLAPS

Aligned(a) == a % FrameSize = 0
-----------------------------------------------------------------------------
(***************************************************************************)
(* Multiples of the frame size.  The later proofs keep Aligned folded and  *)
(* cite these lemmas.                                                      *)
(***************************************************************************)

LEMMA Multiples ==
    ASSUME NEW a \in Int
    PROVE  Aligned(a) <=> \E q \in Int : a = FrameSize * q
<1>1. FrameSize \in Int /\ FrameSize > 0
  BY WindowAssumption
<1>2. ASSUME Aligned(a) PROVE \E q \in Int : a = FrameSize * q
  BY <1>1, <1>2 DEF Aligned
<1>3. ASSUME NEW q \in Int, a = FrameSize * q PROVE Aligned(a)
  BY <1>1, <1>3 DEF Aligned
<1> QED
  BY <1>2, <1>3, Zenon

\* Sums and differences of multiples are multiples.
LEMMA AlignedSum ==
    ASSUME NEW a \in Int, NEW b \in Int, Aligned(a), Aligned(b)
    PROVE  Aligned(a + b) /\ Aligned(a - b)
<1>1. FrameSize \in Int /\ FrameSize > 0
  BY WindowAssumption
<1>2. PICK p \in Int : a = FrameSize * p
  BY Multiples, Zenon
<1>3. PICK q \in Int : b = FrameSize * q
  BY Multiples, Zenon
<1>4. a + b = FrameSize * (p + q) /\ a - b = FrameSize * (p - q)
  BY <1>1, <1>2, <1>3
<1>5. p + q \in Int /\ p - q \in Int /\ a + b \in Int /\ a - b \in Int
  OBVIOUS
<1>6. (\E r \in Int : a + b = FrameSize * r) /\ (\E r \in Int : a - b = FrameSize * r)
  BY <1>4, <1>5, Zenon
<1>7. Aligned(a + b)
  BY <1>5, <1>6, Multiples, Zenon
<1>8. Aligned(a - b)
  BY <1>5, <1>6, Multiples, Zenon
<1> QED
  BY <1>7, <1>8, Zenon

\* Between two multiples there is room for a frame.
LEMMA AlignedStep ==
    ASSUME NEW a \in Int, NEW b \in Int, Aligned(a), Aligned(b), a < b
    PROVE  a + FrameSize <= b
<1>1. FrameSize \in Int /\ FrameSize > 0
  BY WindowAssumption
<1>2. PICK p \in Int : a = FrameSize * p
  BY Multiples, Zenon
<1>3. PICK q \in Int : b = FrameSize * q
  BY Multiples, Zenon
<1>4. q >= p + 1
  BY <1>1, <1>2, <1>3
<1>5. FrameSize * q >= FrameSize * (p + 1)
  BY <1>1, <1>4
<1> QED
  BY <1>1, <1>2, <1>3, <1>5

\* What the constants give: the window and the MMIO window end a page below Space or earlier.
LEMMA Layout ==
    /\ FrameSize \in Nat /\ FrameSize > 0 /\ Space \in Nat /\ Space > 0
    /\ MaxAllocations \in Nat /\ MaxAllocations > 0
    /\ VmallocBase \in Nat /\ VmallocBase > 0 /\ VmallocSize \in Nat /\ VmallocEnd \in Nat
    /\ VmallocEnd = VmallocBase + VmallocSize /\ MmioSize \in Nat
    /\ Aligned(0) /\ Aligned(FrameSize) /\ Aligned(VmallocBase) /\ Aligned(VmallocSize)
    /\ Aligned(VmallocEnd) /\ Aligned(Space) /\ Aligned(MmioSize)
    /\ VmallocEnd + FrameSize <= Space /\ MmioSize + FrameSize <= Space
<1>1. /\ FrameSize \in Nat /\ FrameSize > 0 /\ Space \in Nat /\ Space > 0
      /\ MaxAllocations \in Nat /\ MaxAllocations > 0
      /\ VmallocBase \in Nat /\ VmallocBase > 0 /\ VmallocSize \in Nat /\ VmallocEnd \in Nat
      /\ VmallocEnd = VmallocBase + VmallocSize /\ MmioSize \in Nat
      /\ VmallocEnd < Space /\ MmioSize < Space
  BY WindowAssumption DEF VmallocEnd
<1>2. /\ Aligned(VmallocBase) /\ Aligned(VmallocSize) /\ Aligned(Space) /\ Aligned(MmioSize)
  BY WindowAssumption, Zenon DEF Aligned
<1>3. Aligned(0)
  BY <1>1, Multiples
<1>4. Aligned(FrameSize)
  BY <1>1, Multiples
<1>5. Aligned(VmallocEnd)
  BY <1>1, <1>2, AlignedSum
<1>6. VmallocEnd + FrameSize <= Space /\ MmioSize + FrameSize <= Space
  BY <1>1, <1>2, <1>5, AlignedStep
<1> QED
  BY <1>1, <1>2, <1>3, <1>4, <1>5, <1>6, Zenon

LEMMA AlignedNext ==
    ASSUME NEW a \in Nat, Aligned(a)
    PROVE  a + FrameSize \in Nat /\ Aligned(a + FrameSize)
  BY Layout, AlignedSum

\* align_down gives the multiple at or below.
LEMMA AlignDown ==
    ASSUME NEW a \in Nat
    PROVE  /\ align_down(a) \in Nat /\ Aligned(align_down(a))
           /\ align_down(a) <= a /\ a < align_down(a) + FrameSize
<1>1. FrameSize \in Nat /\ FrameSize > 0
  BY Layout, Zenon
<1>2. /\ a \div FrameSize \in Nat /\ a % FrameSize \in 0 .. FrameSize - 1
      /\ a = FrameSize * (a \div FrameSize) + (a % FrameSize)
  BY <1>1
<1>3. align_down(a) = FrameSize * (a \div FrameSize)
  BY <1>1, <1>2 DEF align_down
<1>4. align_down(a) \in Nat
  BY <1>1, <1>2, <1>3
<1> QED
  BY <1>1, <1>2, <1>3, <1>4, Multiples

\* align_up stays an address whatever it is given.
LEMMA AlignUpType ==
    ASSUME NEW a \in Int
    PROVE  align_up(a) \in Addresses
  BY Layout DEF align_up, Addresses

\* Below the last page, align_up gives the multiple at or above, and never passes one.
LEMMA AlignUp ==
    ASSUME NEW a \in Nat, a + FrameSize <= Space
    PROVE  /\ align_up(a) \in Nat /\ Aligned(align_up(a))
           /\ a <= align_up(a) /\ align_up(a) < a + FrameSize
           /\ \A b \in Int : Aligned(b) /\ a <= b => align_up(a) <= b
<1> DEFINE c == a + FrameSize - 1
<1>1. FrameSize \in Nat /\ FrameSize > 0 /\ Space \in Nat /\ c \in Nat /\ c < Space
  BY Layout
<1>2. c % Space = c
  BY <1>1
<1>3. align_up(a) = align_down(c) % Space
  BY <1>2, Zenon DEF align_up, align_down
<1>4. /\ align_down(c) \in Nat /\ Aligned(align_down(c))
      /\ align_down(c) <= c /\ c < align_down(c) + FrameSize
  BY <1>1, AlignDown, Zenon
<1>5. align_up(a) = align_down(c)
  BY <1>1, <1>3, <1>4
<1>6. a <= align_up(a) /\ align_up(a) < a + FrameSize
  BY <1>1, <1>4, <1>5
<1>7. ASSUME NEW b \in Int, Aligned(b), a <= b, b < align_up(a) PROVE FALSE
  <2>1. b + FrameSize <= align_up(a)
    BY <1>4, <1>5, <1>7, AlignedStep
  <2> QED
    BY <1>1, <1>4, <1>5, <1>6, <1>7, <2>1
<1> QED
  BY <1>4, <1>5, <1>6, <1>7

LEMMA Pages ==
    ASSUME NEW base \in Int, NEW bytes \in Int, NEW a
    PROVE  a \in PagesOf(base, bytes) <=> a \in Int /\ base <= a /\ a < base + bytes /\ Aligned(a)
  BY DEF PagesOf, Aligned

\* The pages of a range are those of its part plus the page behind it.
LEMMA PagesStep ==
    ASSUME NEW base \in Int, NEW bytes \in Int, Aligned(base), Aligned(bytes), bytes >= 0
    PROVE  /\ PagesOf(base, bytes + FrameSize) = PagesOf(base, bytes) \cup {base + bytes}
           /\ base + bytes \notin PagesOf(base, bytes)
<1>1. FrameSize \in Nat /\ FrameSize > 0 /\ base + bytes \in Int /\ Aligned(base + bytes)
  BY Layout, AlignedSum
<1>2. ASSUME NEW a \in Int, Aligned(a), a < base + bytes + FrameSize, a > base + bytes PROVE FALSE
  BY <1>1, <1>2, AlignedStep
<1>3. ASSUME NEW a PROVE a \in PagesOf(base, bytes + FrameSize) <=> a \in PagesOf(base, bytes) \cup {base + bytes}
  <2>1. a \in PagesOf(base, bytes + FrameSize)
           <=> a \in Int /\ base <= a /\ a < base + (bytes + FrameSize) /\ Aligned(a)
    BY <1>1, Pages
  <2>2. a \in PagesOf(base, bytes) <=> a \in Int /\ base <= a /\ a < base + bytes /\ Aligned(a)
    BY Pages, Zenon
  <2> QED
    BY <1>1, <1>2, <2>1, <2>2
<1> QED
  BY <1>1, <1>3, Pages
-----------------------------------------------------------------------------
(***************************************************************************)
(* The inductive invariant.                                                *)
(***************************************************************************)

\* A range of whole pages that lies in the window with a guard page behind it.
Placed(base, bytes) ==
    /\ base \in Int /\ bytes \in Int /\ Aligned(base) /\ Aligned(bytes)
    /\ VmallocBase <= base /\ 0 < bytes /\ base + bytes + FrameSize <= VmallocEnd

\* A guard page lies between the range and the next one at or behind address there.
Before(base, bytes, there) == base + bytes + FrameSize <= there

\* The table is sorted, whichever two of its entries are compared.
Table ==
    /\ \A i \in Live : Placed(m_allocations[i].base, m_allocations[i].bytes)
    /\ \A i, j \in Live :
         i < j => Before(m_allocations[i].base, m_allocations[i].bytes, m_allocations[j].base)

\* The range has room in front of entry index and behind the one before it.
InGap(index, base, bytes) ==
    /\ index \in 0 .. m_count
    /\ \A i \in Live : i < index => Before(m_allocations[i].base, m_allocations[i].bytes, base)
    /\ \A i \in Live : i >= index => Before(base, bytes, m_allocations[i].base)

AtPage == op.offset \in Nat /\ Aligned(op.offset) /\ op.offset < op.bytes

\* What back and release know of the range that is not in the table yet.
Backing ==
    op.kind \in {"back", "release"} =>
      /\ AtPage /\ m_count < MaxAllocations
      /\ Placed(op.base, op.bytes) /\ InGap(op.index, op.base, op.bytes)
      /\ op.prot \in Prots

\* What release knows of the entry that free is about to erase.
Freeing ==
    op.kind = "free" =>
      /\ AtPage /\ op.index \in Live
      /\ m_allocations[op.index] = [base |-> op.base, bytes |-> op.bytes]

\* What map_range knows of the MMIO range: the pages behind it are mapped.
MappingMmio ==
    op.kind = "mmio" =>
      /\ AtPage /\ Aligned(op.base) /\ Aligned(op.bytes) /\ op.base + op.bytes <= MmioSize
      /\ \A page \in PagesOf(op.base, op.offset) : mmio[page] # "unmapped"

IInv == WindowSound /\ Table /\ Backing /\ Freeing /\ MappingMmio

\* The page belongs to a range of the table, or to the operation in progress.
Owned(va) == \E i \in Live : va \in Backed(i)
-----------------------------------------------------------------------------
(***************************************************************************)
(* Facts about states.                                                     *)
(***************************************************************************)

LEMMA PlacedInWindow ==
    ASSUME NEW base, NEW bytes, Placed(base, bytes)
    PROVE  /\ base \in Addresses /\ bytes \in Addresses
           /\ PagesOf(base, bytes) \subseteq Window
           /\ \A offset \in Nat : Aligned(offset) /\ offset < bytes =>
                 /\ base + offset \in PagesOf(base, bytes) /\ base + offset \in Window
                 /\ offset + FrameSize <= bytes
                 /\ Placed(base, offset + FrameSize)
<1>1. /\ base \in Int /\ bytes \in Int /\ Aligned(base) /\ Aligned(bytes)
      /\ VmallocBase <= base /\ 0 < bytes /\ base + bytes + FrameSize <= VmallocEnd
  BY Zenon DEF Placed
<1>2. base \in Addresses /\ bytes \in Addresses
  BY <1>1, Layout DEF Addresses
<1>3. ASSUME NEW va PROVE va \in Window <=> va \in Int /\ VmallocBase <= va /\ va < VmallocEnd /\ Aligned(va)
  BY Layout, Pages DEF Window
<1>4. ASSUME NEW va PROVE va \in PagesOf(base, bytes) <=> va \in Int /\ base <= va /\ va < base + bytes /\ Aligned(va)
  BY <1>1, Pages, Zenon
<1>5. PagesOf(base, bytes) \subseteq Window
  BY <1>1, <1>3, <1>4, Layout
<1>6. ASSUME NEW offset \in Nat, Aligned(offset), offset < bytes
      PROVE  /\ base + offset \in PagesOf(base, bytes) /\ base + offset \in Window
             /\ offset + FrameSize <= bytes
             /\ Placed(base, offset + FrameSize)
  <2>1. base + offset \in Int /\ Aligned(base + offset) /\ offset + FrameSize \in Int
        /\ Aligned(offset + FrameSize)
    BY <1>1, <1>6, Layout, AlignedSum
  <2>2. offset + FrameSize <= bytes
    BY <1>1, <1>6, AlignedStep
  <2>3. base + offset \in PagesOf(base, bytes)
    BY <1>1, <1>4, <1>6, <2>1
  <2>4. Placed(base, offset + FrameSize)
    BY <1>1, <1>6, <2>1, <2>2, Layout DEF Placed
  <2> QED
    BY <1>5, <2>2, <2>3, <2>4, Zenon
<1> QED
  BY <1>2, <1>5, <1>6, Zenon

\* The ranges of the table and of the operation in progress lie in the window.
LEMMA RangesInWindow ==
    TypeOK /\ Table /\ Backing =>
      /\ \A i \in Live : Backed(i) \subseteq Window
      /\ Arriving \subseteq Window
<1> SUFFICES ASSUME TypeOK, Table, Backing
             PROVE  (\A i \in Live : Backed(i) \subseteq Window) /\ Arriving \subseteq Window
  BY Zenon
<1>1. \A i \in Live : Backed(i) \subseteq Window
  BY PlacedInWindow, Zenon DEF Table, Backed
<1>2. CASE op.kind \in {"back", "release"}
  <2>1. /\ Placed(op.base, op.bytes) /\ op.offset \in Nat /\ op.offset < op.bytes
        /\ op.base \in Int /\ op.bytes \in Int
    BY <1>2, Zenon DEF Backing, AtPage, Placed
  <2>2. PagesOf(op.base, op.offset) \subseteq PagesOf(op.base, op.bytes)
    BY <2>1 DEF PagesOf
  <2>3. PagesOf(op.base + op.offset, op.bytes - op.offset) \subseteq PagesOf(op.base, op.bytes)
    BY <2>1 DEF PagesOf
  <2>4. Arriving \in {PagesOf(op.base, op.offset), PagesOf(op.base + op.offset, op.bytes - op.offset)}
    BY <1>2, Zenon DEF Arriving
  <2> QED
    BY <1>1, <2>1, <2>2, <2>3, <2>4, PlacedInWindow, Zenon
<1>3. CASE op.kind \notin {"back", "release"}
  <2>1. Arriving = {}
    BY <1>3, Zenon DEF Arriving
  <2> QED
    BY <1>1, <2>1, Zenon
<1> QED
  BY <1>2, <1>3, Zenon

\* MappedExactly, page by page.
LEMMA PageByPage ==
    TypeOK /\ Table /\ Backing /\ op.kind # "panic" =>
      (MappedExactly <=>
         \A va \in Window : mapping[va] # NotMapped <=> (Owned(va) \/ va \in Arriving) /\ va \notin Leaving)
<1> SUFFICES ASSUME TypeOK, Table, Backing, op.kind # "panic"
             PROVE  MappedExactly <=>
                      \A va \in Window :
                         mapping[va] # NotMapped <=> (Owned(va) \/ va \in Arriving) /\ va \notin Leaving
  BY Zenon
<1> DEFINE mapped == {va \in Window : mapping[va] # NotMapped}
           owned == UNION {Backed(i) : i \in Live}
<1>1. \A va : va \in owned <=> Owned(va)
  BY Zenon DEF Owned
<1>2. owned \subseteq Window /\ Arriving \subseteq Window
  BY <1>1, RangesInWindow, Zenon DEF Owned
<1>3. MappedExactly = (op.kind # "panic" => mapped = (owned \cup Arriving) \ Leaving)
  BY Zenon DEF MappedExactly
<1>4. \A va : va \in mapped <=> va \in Window /\ mapping[va] # NotMapped
  BY Zenon
<1> HIDE DEF mapped, owned
<1> QED
  BY <1>1, <1>2, <1>3, <1>4, Zenon

\* The first index at which a range fits exists when there is any.
LEMMA FindGap ==
    ASSUME NEW bytes, m_count \in Nat, gaps(bytes) # {}
    PROVE  find_gap(bytes) \in gaps(bytes)
<1>1. gaps(bytes) \subseteq Nat
  BY DEF gaps
<1>2. PICK x \in gaps(bytes) : \A y \in gaps(bytes) : ~ (<<y, x>> \in OpToRel(<, Nat))
  BY <1>1, NatLessThanWellFounded, WFMin, Zenon
<1>3. ASSUME NEW y \in gaps(bytes) PROVE ~ (y < x)
  <2>1. y \in Nat /\ x \in Nat
    BY <1>1, Zenon
  <2>2. y < x => <<y, x>> \in OpToRel(<, Nat)
    BY <2>1, ZenonT(30) DEF OpToRel
  <2> QED
    BY <1>2, <2>2, Zenon
<1>4. \A y \in gaps(bytes) : x <= y
  BY <1>1, <1>3
<1> QED
  BY <1>4, Zenon DEF find_gap

\* A gap starts behind the guard page of the entry before it and ends at the next entry: the
\* arithmetic of gap_start never wraps.
LEMMA GapBounds ==
    ASSUME TypeOK, Table, NEW index \in 0 .. m_count
    PROVE  /\ gap_start(index) \in Int /\ Aligned(gap_start(index))
           /\ VmallocBase <= gap_start(index) /\ gap_start(index) <= gap_end(index)
           /\ gap_end(index) \in Int /\ gap_end(index) <= VmallocEnd
           /\ \A i \in Live : i < index => Before(m_allocations[i].base, m_allocations[i].bytes, gap_start(index))
           /\ \A i \in Live : i >= index => gap_end(index) <= m_allocations[i].base
<1>0. m_count \in Nat
  BY DEF TypeOK
<1>1. \A i \in Live : Placed(m_allocations[i].base, m_allocations[i].bytes)
  BY Zenon DEF Table
<1>2. \A i \in Live : i < m_count => m_allocations[i].base \in Int /\ m_allocations[i].bytes \in Int
  BY <1>1, Zenon DEF Placed
<1>3. gap_end(index) \in Int /\ gap_end(index) <= VmallocEnd /\ VmallocBase <= gap_end(index)
  <2>1. CASE index = m_count
    BY <2>1, Layout DEF gap_end
  <2>2. CASE index # m_count
    <3>1. index \in Live
      BY <1>0, <2>2 DEF Live
    <3> QED
      BY <1>1, <2>2, <3>1, Layout DEF gap_end, Placed
  <2> QED
    BY <2>1, <2>2, Zenon
<1>4. \A i \in Live : i >= index => gap_end(index) <= m_allocations[i].base
  <2> SUFFICES ASSUME NEW i \in Live, i >= index
               PROVE  gap_end(index) <= m_allocations[i].base
    BY Zenon
  <2>1. index \in Live /\ index # m_count
    BY <1>0 DEF Live
  <2>2. gap_end(index) = m_allocations[index].base
    BY <2>1, Zenon DEF gap_end
  <2>3. CASE i = index
    BY <1>3, <2>2, <2>3
  <2>4. CASE i > index
    BY <1>1, <2>1, <2>2, <2>4, Layout DEF Table, Before, Placed
  <2> QED
    BY <1>0, <2>3, <2>4 DEF Live
<1>5. CASE index = 0
  <2>1. gap_start(index) = VmallocBase
    BY <1>5, Zenon DEF gap_start
  <2>2. \A i \in Live : ~ (i < index)
    BY <1>0, <1>5 DEF Live
  <2> QED
    BY <1>3, <1>4, <2>1, <2>2, Layout
<1>6. CASE index # 0
  <2> DEFINE k == index - 1
  <2>1. k \in Live /\ k < index
    BY <1>0, <1>6 DEF Live
  <2>2. Placed(m_allocations[k].base, m_allocations[k].bytes)
    BY <1>1, <2>1, Zenon
  <2> DEFINE start == m_allocations[k].base + m_allocations[k].bytes + FrameSize
  <2>3. start \in Nat /\ start < Space
    BY <2>2, Layout DEF Placed
  <2>4. gap_start(index) = start
    <3>1. gap_start(index) = start % Space
      BY <1>6, Zenon DEF gap_start
    <3> QED
      BY <2>3, <3>1, Layout
  <2>5. Aligned(start)
    <3> DEFINE b == m_allocations[k].base
               n == m_allocations[k].bytes
    <3>1. b \in Int /\ n \in Int /\ Aligned(b) /\ Aligned(n)
      BY <2>2, Zenon DEF Placed
    <3>2. start = b + n + FrameSize
      BY Zenon
    <3> HIDE DEF b, n, start
    <3>3. PICK past \in Int : past = b + n /\ Aligned(past)
      BY <3>1, AlignedSum
    <3>4. Aligned(past + FrameSize)
      BY <3>3, Layout, AlignedSum
    <3> QED
      BY <3>2, <3>3, <3>4, Zenon
  <2>6. VmallocBase <= start /\ start <= gap_end(index)
    <3>1. CASE index = m_count
      BY <2>2, <3>1, Layout DEF Placed, gap_end
    <3>2. CASE index # m_count
      <4>1. index \in Live
        BY <1>0, <3>2 DEF Live
      <4>2. Before(m_allocations[k].base, m_allocations[k].bytes, m_allocations[index].base)
        BY <2>1, <4>1, Zenon DEF Table
      <4> QED
        BY <2>2, <3>2, <4>2, Layout DEF Placed, gap_end, Before
    <3> QED
      BY <3>1, <3>2, Zenon
  <2>7. ASSUME NEW i \in Live, i < index PROVE Before(m_allocations[i].base, m_allocations[i].bytes, start)
    <3>1. CASE i = k
      BY <2>2, <3>1, Layout DEF Before, Placed
    <3>2. CASE i < k
      <4>1. Before(m_allocations[i].base, m_allocations[i].bytes, m_allocations[k].base)
        BY <2>1, <3>2, Zenon DEF Table
      <4>2. Placed(m_allocations[i].base, m_allocations[i].bytes)
        BY <1>1, Zenon
      <4> QED
        BY <2>2, <4>1, <4>2, Layout DEF Before, Placed
    <3>3. i = k \/ i < k
      BY <1>0, <2>7 DEF Live
    <3> QED
      BY <3>1, <3>2, <3>3, Zenon
  <2> QED
    BY <1>3, <1>4, <2>3, <2>4, <2>5, <2>6, <2>7
<1> QED
  BY <1>5, <1>6, Zenon

\* Where fits says a range fits, it does: neither subtraction nor sum wraps.
LEMMA FitsInGap ==
    ASSUME TypeOK, Table, NEW bytes \in Nat, Aligned(bytes), 0 < bytes, bytes <= VmallocSize,
           NEW index \in gaps(bytes)
    PROVE  /\ m_count < MaxAllocations
           /\ Placed(gap_start(index), bytes)
           /\ InGap(index, gap_start(index), bytes)
<1>1. m_count # MaxAllocations /\ index \in 0 .. m_count /\ fits(index, bytes)
  BY Zenon DEF gaps
<1>2. m_count < MaxAllocations
  BY <1>1, Layout DEF TypeOK
<1>3. /\ gap_start(index) \in Int /\ Aligned(gap_start(index))
      /\ VmallocBase <= gap_start(index) /\ gap_start(index) <= gap_end(index)
      /\ gap_end(index) \in Int /\ gap_end(index) <= VmallocEnd
      /\ \A i \in Live : i < index => Before(m_allocations[i].base, m_allocations[i].bytes, gap_start(index))
      /\ \A i \in Live : i >= index => gap_end(index) <= m_allocations[i].base
  BY <1>1, GapBounds, Zenon
<1>4. (gap_end(index) - gap_start(index)) % Space = gap_end(index) - gap_start(index)
  BY <1>3, Layout
<1>5. (bytes + FrameSize) % Space = bytes + FrameSize
  BY Layout
<1>6. gap_start(index) + bytes + FrameSize <= gap_end(index)
  BY <1>1, <1>3, <1>4, <1>5, Layout DEF fits
<1>7. Placed(gap_start(index), bytes)
  BY <1>3, <1>6, Layout DEF Placed
<1>8. ASSUME NEW i \in Live, i >= index PROVE Before(gap_start(index), bytes, m_allocations[i].base)
  <2>1. m_allocations[i].base \in Int
    BY Zenon DEF Table, Placed
  <2> QED
    BY <1>3, <1>6, <1>8, <2>1, Layout DEF Before
<1> QED
  BY <1>1, <1>2, <1>3, <1>7, <1>8, Zenon DEF InGap
(***************************************************************************)
(* The same facts about the state after a step.                            *)
(***************************************************************************)

LEMMA InProgress ==
    /\ op.kind = "back" => Arriving = PagesOf(op.base, op.offset) /\ Leaving = {}
    /\ op.kind = "release" => /\ Arriving = PagesOf(op.base + op.offset, op.bytes - op.offset)
                              /\ Leaving = {}
    /\ op.kind = "free" => Arriving = {} /\ Leaving = PagesOf(op.base, op.offset)
    /\ op.kind \notin {"back", "release", "free"} => Arriving = {} /\ Leaving = {}
<1>1. op.kind = "back" => Arriving = PagesOf(op.base, op.offset)
  BY Zenon DEF Arriving
<1>2. op.kind = "release" => Arriving = PagesOf(op.base + op.offset, op.bytes - op.offset)
  BY Zenon DEF Arriving
<1>3. op.kind \notin {"back", "release"} => Arriving = {}
  BY Zenon DEF Arriving
<1> QED
  BY <1>1, <1>2, <1>3, Zenon DEF Leaving

LEMMA InProgressNext ==
    /\ op'.kind = "back" => Arriving' = PagesOf(op'.base, op'.offset) /\ Leaving' = {}
    /\ op'.kind = "release" => /\ Arriving' = PagesOf(op'.base + op'.offset, op'.bytes - op'.offset)
                               /\ Leaving' = {}
    /\ op'.kind = "free" => Arriving' = {} /\ Leaving' = PagesOf(op'.base, op'.offset)
    /\ op'.kind \notin {"back", "release", "free"} => Arriving' = {} /\ Leaving' = {}
<1>1. op'.kind = "back" => Arriving' = PagesOf(op'.base, op'.offset)
  BY Zenon DEF Arriving
<1>2. op'.kind = "release" => Arriving' = PagesOf(op'.base + op'.offset, op'.bytes - op'.offset)
  BY Zenon DEF Arriving
<1>3. op'.kind \notin {"back", "release"} => Arriving' = {}
  BY Zenon DEF Arriving
<1> QED
  BY <1>1, <1>2, <1>3, Zenon DEF Leaving

LEMMA PageByPageNext ==
    (TypeOK /\ Table /\ Backing /\ op.kind # "panic" =>
      (MappedExactly <=>
         \A va \in Window :
            mapping[va] # NotMapped <=> (Owned(va) \/ va \in Arriving) /\ va \notin Leaving))'
  BY PageByPage, PTL

\* A step that leaves the table alone leaves the ranges and the gaps alone.
LEMMA TableKept ==
    ASSUME UNCHANGED <<m_allocations, m_count>>
    PROVE  /\ Table => Table'
           /\ \A va : Owned(va)' <=> Owned(va)
           /\ \A index, base, bytes : InGap(index, base, bytes) <=> InGap(index, base, bytes)'
           /\ Live' = Live
  BY Zenon DEF Table, Owned, Backed, InGap, Live

-----------------------------------------------------------------------------
(***************************************************************************)
(* Every operation preserves the invariant, whatever its arguments.        *)
(***************************************************************************)

\* The callers' operations do not touch the MMIO window, those of map_mmio not the other.
LEMMA Elsewhere ==
    ASSUME IInv, UNCHANGED window_vars,
           op.kind \in {"idle", "mmio"}, op'.kind \in {"idle", "mmio"}, TypeOK', MappingMmio'
    PROVE  IInv'
<1>1. UNCHANGED <<m_allocations, m_count, mapping>>
  BY Zenon DEF window_vars
<1>2. Table'
  BY <1>1, TableKept, Zenon DEF IInv
<1>3. Backing' /\ Freeing'
  BY Zenon DEF Backing, Freeing
<1>4. \A va \in Window : mapping[va] # NotMapped <=> Owned(va)
  BY PageByPage, InProgress, Zenon DEF IInv, WindowSound
<1>5. \A va \in Window : mapping'[va] # NotMapped <=> (Owned(va)' \/ va \in Arriving') /\ va \notin Leaving'
  BY <1>1, <1>4, TableKept, InProgressNext, Zenon
<1>6. MappedExactly'
  BY <1>2, <1>3, <1>5, PageByPageNext, Zenon
<1> QED
  BY <1>2, <1>3, <1>6, Zenon DEF IInv, WindowSound, ReleaseNeverPanics

LEMMA IdleType ==
    /\ Idle \in [kind : {"idle", "back", "release", "free", "mmio", "panic"}, base : Addresses,
                  bytes : Addresses, offset : Addresses, index : 0 .. MaxAllocations,
                  prot : Prots \cup {"none"}, result : {"ok", "OUT_OF_MEMORY", "CONFLICT"}]
    /\ Idle.kind = "idle" /\ Idle.base = 0 /\ Idle.bytes = 0 /\ Idle.offset = 0
    /\ Idle.index = 0 /\ Idle.prot = "none" /\ Idle.result = "ok"
  BY Layout DEF Idle, Addresses

Answers == {"none", "ok", "OUT_OF_MEMORY", "INVALID_ADDRESS", "NOT_MAPPED", "CONFLICT"}

LEMMA RefuseKeeps ==
    ASSUME IInv, op.kind = "idle", NEW result \in Answers, Refuse(result), UNCHANGED mmio_vars
    PROVE  IInv'
<1>1. op' = Idle /\ answer' = result /\ UNCHANGED <<window_vars, pool, mmio_vars>>
  BY Zenon DEF Refuse, Return
<1>2. TypeOK'
  BY <1>1, IdleType, Zenon DEF IInv, WindowSound, TypeOK, window_vars, mmio_vars, Answers
<1>3. MappingMmio'
  BY <1>1, IdleType, Zenon DEF MappingMmio
<1> QED
  BY <1>1, <1>2, <1>3, IdleType, Elsewhere, Zenon

LEMMA AllocKeeps ==
    ASSUME IInv, NEW bytes \in Addresses, NEW prot \in Prots, alloc(bytes, prot), UNCHANGED mmio_vars
    PROVE  IInv'
<1> DEFINE size == align_up(bytes)
           index == find_gap(size)
           start == gap_start(index)
<1>0. op = Idle /\ op.kind = "idle"
  BY IdleType, Zenon DEF alloc
<1>1. CASE Refuse("INVALID_ADDRESS")
  BY <1>0, <1>1, RefuseKeeps, Zenon DEF Answers
<1>2. CASE Refuse("OUT_OF_MEMORY")
  BY <1>0, <1>2, RefuseKeeps, Zenon DEF Answers
<1>3. CASE /\ bytes # 0 /\ ~ (bytes > VmallocSize) /\ gaps(size) # {}
           /\ op' = [Idle EXCEPT !.kind = "back", !.base = start,
                                 !.bytes = size, !.index = index, !.prot = prot]
           /\ UNCHANGED <<m_allocations, m_count, mapping, pool, tables, answer>>
  <2>1. /\ size \in Nat /\ Aligned(size) /\ 0 < size /\ size <= VmallocSize
    <3>1. bytes \in Nat /\ 0 < bytes /\ bytes <= VmallocSize
      BY <1>3, Layout DEF Addresses
    <3> QED
      BY <3>1, Layout, AlignUp
  <2>2. index \in gaps(size)
    BY <1>3, FindGap DEF IInv, WindowSound, TypeOK
  <2>3. /\ m_count < MaxAllocations /\ Placed(start, size) /\ InGap(index, start, size)
    BY <2>1, <2>2, FitsInGap, Zenon DEF IInv, WindowSound
  <2> HIDE DEF size, index, start
  <2>4. /\ op'.kind = "back" /\ op'.base = start /\ op'.bytes = size /\ op'.offset = 0
        /\ op'.index = index /\ op'.prot = prot
    BY <1>3, Zenon DEF Idle
  <2>5. Table'
    BY <1>3, TableKept, Zenon DEF IInv
  <2>6. Backing'
    <3>1. AtPage'
      BY <2>1, <2>4, Layout DEF AtPage
    <3>2. InGap(op.index, op.base, op.bytes)'
      BY <1>3, <2>3, <2>4, Zenon DEF InGap, Live, Before
    <3>3. Placed(op.base, op.bytes)' /\ m_count' < MaxAllocations /\ op'.prot \in Prots
      BY <1>3, <2>3, <2>4, Zenon DEF Placed
    <3> QED
      BY <3>1, <3>2, <3>3, Zenon DEF Backing
  <2>7. Freeing' /\ MappingMmio' /\ ReleaseNeverPanics'
    BY <2>4, Zenon DEF Freeing, MappingMmio, ReleaseNeverPanics
  <2>8. TypeOK'
    <3>1. start \in Addresses /\ size \in Addresses /\ start + 0 \in Window
      BY <2>1, <2>3, Layout, PlacedInWindow, Zenon
    <3>2. index \in 0 .. MaxAllocations /\ 0 \in Addresses
      BY <2>3, Layout DEF InGap, Addresses, IInv, WindowSound, TypeOK
    <3>3. op' \in [kind : {"idle", "back", "release", "free", "mmio", "panic"}, base : Addresses,
                   bytes : Addresses, offset : Addresses, index : 0 .. MaxAllocations,
                   prot : Prots \cup {"none"}, result : {"ok", "OUT_OF_MEMORY", "CONFLICT"}]
      BY <1>3, <3>1, <3>2, Zenon DEF Idle
    <3> QED
      BY <1>3, <2>4, <3>1, <3>3, Zenon DEF IInv, WindowSound, TypeOK, mmio_vars
  <2>9. MappedExactly'
    <3>1. \A va \in Window : mapping[va] # NotMapped <=> Owned(va)
      BY <1>0, PageByPage, InProgress, Zenon DEF IInv, WindowSound
    <3>2. Arriving' = {} /\ Leaving' = {}
      <4>1. PagesOf(start, 0) = {}
        BY <2>3 DEF PagesOf, Placed
      <4> QED
        BY <2>4, <4>1, InProgressNext, Zenon
    <3>3. \A va \in Window : mapping'[va] # NotMapped <=> (Owned(va)' \/ va \in Arriving') /\ va \notin Leaving'
      BY <1>3, <3>1, <3>2, TableKept, Zenon
    <3> QED
      BY <2>4, <2>5, <2>6, <2>8, <3>3, PageByPageNext, Zenon
  <2> QED
    BY <2>5, <2>6, <2>7, <2>8, <2>9, Zenon DEF IInv, WindowSound
<1> QED
  BY <1>1, <1>2, <1>3, Zenon DEF alloc
\* A failure in back, at the first page or behind it.
LEMMA RollbackKeeps ==
    ASSUME IInv, op.kind = "back", NEW result \in {"OUT_OF_MEMORY", "CONFLICT"}, rollback(result),
           UNCHANGED <<m_allocations, m_count, mapping, mmio_vars>>,
           pool' \subseteq Frames, tables' \subseteq Frames
    PROVE  IInv'
<1>1. /\ AtPage /\ m_count < MaxAllocations
      /\ Placed(op.base, op.bytes) /\ InGap(op.index, op.base, op.bytes) /\ op.prot \in Prots
  BY Zenon DEF IInv, Backing
<1>2. op.base \in Int /\ op.bytes \in Int /\ op.offset \in Nat /\ Aligned(op.offset) /\ op.offset < op.bytes
  BY <1>1, Zenon DEF AtPage, Placed
<1>3. Table'
  BY TableKept, Zenon DEF IInv
<1>4. \A va \in Window : mapping[va] # NotMapped <=> Owned(va) \/ va \in PagesOf(op.base, op.offset)
  BY PageByPage, InProgress, Zenon DEF IInv, WindowSound
<1>5. CASE op.offset = 0
  <2>1. op' = Idle /\ answer' = result
    BY <1>5, Zenon DEF rollback, Return
  <2>2. TypeOK'
    BY <2>1, IdleType, Zenon DEF IInv, WindowSound, TypeOK, mmio_vars
  <2>3. Backing' /\ Freeing' /\ MappingMmio' /\ ReleaseNeverPanics'
    BY <2>1, IdleType, Zenon DEF Backing, Freeing, MappingMmio, ReleaseNeverPanics
  <2>4. PagesOf(op.base, op.offset) = {}
    BY <1>2, <1>5 DEF PagesOf
  <2>5. Arriving' = {} /\ Leaving' = {} /\ op'.kind # "panic"
    BY <2>1, IdleType, InProgressNext, Zenon
  <2>6. MappedExactly'
    BY <1>3, <1>4, <2>2, <2>3, <2>4, <2>5, TableKept, PageByPageNext, Zenon
  <2> QED
    BY <1>3, <2>2, <2>3, <2>6, Zenon DEF IInv, WindowSound
<1>6. CASE op.offset # 0
  <2>1. /\ op' = [op EXCEPT !.kind = "release", !.bytes = op.offset, !.offset = 0, !.result = result]
        /\ UNCHANGED answer
    BY <1>6, Zenon DEF rollback
  <2>2. /\ op'.kind = "release" /\ op'.base = op.base /\ op'.bytes = op.offset /\ op'.offset = 0
        /\ op'.index = op.index /\ op'.prot = op.prot
    BY <2>1, Zenon DEF IInv, WindowSound, TypeOK
  <2>3. Placed(op.base, op.offset)
    BY <1>1, <1>2, <1>6, Layout DEF Placed
  <2>4. InGap(op.index, op.base, op.offset)
    <3>1. \A i \in Live : m_allocations[i].base \in Int
      BY Zenon DEF IInv, Table, Placed
    <3> QED
      BY <1>1, <1>2, <3>1, Layout DEF InGap, Before
  <2>5. Backing'
    <3>1. AtPage'
      BY <1>2, <1>6, <2>2, Layout DEF AtPage
    <3> QED
      BY <1>1, <2>2, <2>3, <2>4, <3>1, Zenon DEF Backing, Placed, InGap, Live
  <2>6. Freeing' /\ MappingMmio' /\ ReleaseNeverPanics' /\ op'.kind # "panic"
    BY <2>2, Zenon DEF Freeing, MappingMmio, ReleaseNeverPanics
  <2>7. TypeOK'
    <3>1. op.base + 0 \in Window /\ 0 \in Addresses
      BY <1>2, <2>3, Layout, PlacedInWindow DEF Addresses, Placed
    <3> QED
      BY <2>1, <2>2, <3>1, Zenon DEF IInv, WindowSound, TypeOK, mmio_vars
  <2>8. Arriving' = PagesOf(op.base, op.offset) /\ Leaving' = {}
    <3>1. op.base + 0 = op.base /\ op.offset - 0 = op.offset
      BY <1>2
    <3> QED
      BY <2>2, <3>1, InProgressNext, Zenon
  <2>9. MappedExactly'
    BY <1>3, <1>4, <2>5, <2>6, <2>7, <2>8, TableKept, PageByPageNext, Zenon
  <2> QED
    BY <1>3, <2>5, <2>6, <2>7, <2>9, Zenon DEF IInv, WindowSound
<1> QED
  BY <1>5, <1>6, Zenon
\* Inserting a range into its gap keeps the table sorted and adds exactly its pages.
LEMMA InsertKeeps ==
    ASSUME TypeOK, Table, m_count < MaxAllocations,
           NEW index, NEW base, NEW bytes, Placed(base, bytes), InGap(index, base, bytes),
           insert(index, [base |-> base, bytes |-> bytes])
    PROVE  /\ Table'
           /\ \A va : Owned(va)' <=> Owned(va) \/ va \in PagesOf(base, bytes)
           /\ m_allocations' \in [Index -> [base : Addresses, bytes : Addresses]]
           /\ m_count' \in 0 .. MaxAllocations
<1> DEFINE entry == [base |-> base, bytes |-> bytes]
<1>1. /\ m_count \in Nat /\ m_count' = m_count + 1 /\ index \in 0 .. m_count /\ MaxAllocations \in Nat
      /\ Live = 0 .. m_count - 1 /\ Live' = 0 .. m_count /\ Live' \subseteq Index /\ Live \subseteq Index
  BY Layout DEF insert, InGap, TypeOK, Live, Index
<1>2. ASSUME NEW i \in Index
      PROVE  m_allocations'[i] = IF i = index THEN entry
                                 ELSE IF index < i /\ i <= m_count THEN m_allocations[i - 1]
                                 ELSE m_allocations[i]
  BY Zenon DEF insert
<1>3. ASSUME NEW i \in Live'
      PROVE  /\ i < index => i \in Live /\ m_allocations'[i] = m_allocations[i]
             /\ i = index => m_allocations'[i] = entry
             /\ i > index => i - 1 \in Live /\ i - 1 >= index /\ m_allocations'[i] = m_allocations[i - 1]
             /\ i < index \/ i = index \/ i > index
             /\ i \in Int
  BY <1>1, <1>2
<1>4. \A i \in Live : Placed(m_allocations[i].base, m_allocations[i].bytes)
  BY Zenon DEF Table
<1>5. /\ \A i \in Live : i < index => Before(m_allocations[i].base, m_allocations[i].bytes, base)
      /\ \A i \in Live : i >= index => Before(base, bytes, m_allocations[i].base)
      /\ \A i, j \in Live :
           i < j => Before(m_allocations[i].base, m_allocations[i].bytes, m_allocations[j].base)
  BY Zenon DEF InGap, Table
<1>6. ASSUME NEW i \in Live' PROVE Placed(m_allocations'[i].base, m_allocations'[i].bytes)
  BY <1>3, <1>4
<1>7. ASSUME NEW i \in Live', NEW j \in Live', i < j
      PROVE  Before(m_allocations'[i].base, m_allocations'[i].bytes, m_allocations'[j].base)
  <2>1. CASE j < index
    BY <1>1, <1>3, <1>5, <1>7, <2>1
  <2>2. CASE j = index
    BY <1>1, <1>3, <1>5, <1>7, <2>2
  <2>3. CASE j > index /\ i = index
    BY <1>1, <1>3, <1>5, <1>7, <2>3
  <2>4. CASE j > index /\ i < index
    BY <1>1, <1>3, <1>5, <1>7, <2>4, SMTT(40)
  <2>5. CASE j > index /\ i > index
    BY <1>1, <1>3, <1>5, <1>7, <2>5
  <2> QED
    BY <1>1, <2>1, <2>2, <2>3, <2>4, <2>5
<1>8. Table'
  BY <1>6, <1>7, Zenon DEF Table, Placed, Before
<1>9. ASSUME NEW va PROVE Owned(va)' <=> Owned(va) \/ va \in PagesOf(base, bytes)
  <2>1. Owned(va)' <=> \E i \in Live' : va \in PagesOf(m_allocations'[i].base, m_allocations'[i].bytes)
    BY Zenon DEF Owned, Backed, PagesOf
  <2>2. Owned(va) <=> \E i \in Live : va \in PagesOf(m_allocations[i].base, m_allocations[i].bytes)
    BY Zenon DEF Owned, Backed, PagesOf
  <2>3. ASSUME Owned(va)' PROVE Owned(va) \/ va \in PagesOf(base, bytes)
    BY <1>3, <2>1, <2>2, <2>3, SMTT(40)
  <2>4. ASSUME Owned(va) PROVE Owned(va)'
    <3>1. PICK i \in Live : va \in PagesOf(m_allocations[i].base, m_allocations[i].bytes)
      BY <2>2, <2>4, Zenon
    <3>2. CASE i < index
      <4>1. i \in Live' /\ m_allocations'[i] = m_allocations[i]
        BY <1>1, <1>3, <3>2
      <4> QED
        BY <2>1, <3>1, <4>1, Zenon
    <3>3. CASE i >= index
      <4>1. /\ i + 1 \in Live' /\ i + 1 > index /\ (i + 1) - 1 = i
        BY <1>1, <3>3
      <4>2. m_allocations'[i + 1] = m_allocations[i]
        BY <1>3, <4>1, Zenon
      <4> QED
        BY <2>1, <3>1, <4>1, <4>2, Zenon
    <3> QED
      BY <1>1, <3>2, <3>3
  <2>5. ASSUME va \in PagesOf(base, bytes) PROVE Owned(va)'
    <3>1. index \in Live' /\ m_allocations'[index] = entry
      BY <1>1, <1>3, Zenon
    <3> QED
      BY <2>1, <2>5, <3>1
  <2> QED
    BY <2>3, <2>4, <2>5, Zenon
<1>10. m_allocations' \in [Index -> [base : Addresses, bytes : Addresses]]
  <2>1. entry \in [base : Addresses, bytes : Addresses]
    BY PlacedInWindow, Zenon
  <2>2. ASSUME NEW i \in Index PROVE m_allocations'[i] \in [base : Addresses, bytes : Addresses]
    <3>1. index < i => i - 1 \in Index
      BY <1>1 DEF Index
    <3> HIDE DEF entry
    <3> QED
      BY <1>2, <2>1, <3>1, SMTT(40) DEF TypeOK
  <2>3. m_allocations' = [i \in Index |-> m_allocations'[i]]
    BY Zenon DEF insert
  <2> QED
    BY <2>2, <2>3, Zenon
<1> QED
  BY <1>1, <1>8, <1>9, <1>10

\* A page is mapped; behind the last one the range enters the table.
LEMMA MappedKeeps ==
    ASSUME IInv, op.kind = "back", NEW frame \in pool, NEW linked \in SUBSET pool,
           map_succeeded(op.base + op.offset, frame, linked), UNCHANGED mmio_vars
    PROVE  IInv'
<1> DEFINE va0 == op.base + op.offset
<1>1. /\ AtPage /\ m_count < MaxAllocations
      /\ Placed(op.base, op.bytes) /\ InGap(op.index, op.base, op.bytes) /\ op.prot \in Prots
  BY Zenon DEF IInv, Backing
<1>2. /\ op.base \in Int /\ op.bytes \in Int /\ op.offset \in Nat /\ Aligned(op.offset)
      /\ op.offset < op.bytes /\ Aligned(op.base) /\ Aligned(op.bytes)
  BY <1>1, Zenon DEF AtPage, Placed
<1>3. TypeOK /\ Table
  BY Zenon DEF IInv, WindowSound
<1>4. va0 \in Window /\ op.offset + FrameSize <= op.bytes
  BY <1>1, <1>2, PlacedInWindow, Zenon
<1>5. \A va \in Window : mapping[va] # NotMapped <=> Owned(va) \/ va \in PagesOf(op.base, op.offset)
  BY PageByPage, InProgress, Zenon DEF IInv, WindowSound
<1>6. PagesOf(op.base, op.offset + FrameSize) = PagesOf(op.base, op.offset) \cup {va0}
  BY <1>2, PagesStep
<1>7. \A va \in Window : mapping'[va] # NotMapped <=> Owned(va) \/ va \in PagesOf(op.base, op.offset + FrameSize)
  <2>1. mapping' = [mapping EXCEPT ![va0] = [frame |-> frame, prot |-> op.prot]]
    BY Zenon DEF map_succeeded
  <2>2. [frame |-> frame, prot |-> op.prot] # NotMapped
    BY <1>1, CallerAssumption, Zenon DEF NotMapped
  <2>3. \A va \in Window : mapping'[va] = IF va = va0 THEN [frame |-> frame, prot |-> op.prot] ELSE mapping[va]
    BY <1>3, <2>1, Zenon DEF TypeOK
  <2> HIDE DEF va0
  <2> QED
    BY <1>5, <1>6, <2>2, <2>3, Zenon
<1>8. /\ mapping' \in [Window -> [frame : Frames, prot : Prots] \cup {NotMapped}]
      /\ pool' \subseteq Frames /\ tables' \subseteq Frames
  <2>1. [frame |-> frame, prot |-> op.prot] \in [frame : Frames, prot : Prots]
    BY <1>1, <1>3, Zenon DEF TypeOK
  <2> QED
    BY <1>3, <2>1, Zenon DEF map_succeeded, TypeOK
<1>9. CASE op.offset + FrameSize < op.bytes
  <2>1. op' = [op EXCEPT !.offset = @ + FrameSize] /\ UNCHANGED <<m_allocations, m_count, answer>>
    BY <1>9, Zenon DEF map_succeeded
  <2>2. /\ op'.kind = "back" /\ op'.base = op.base /\ op'.bytes = op.bytes
        /\ op'.offset = op.offset + FrameSize /\ op'.index = op.index /\ op'.prot = op.prot
    BY <1>3, <2>1, Zenon DEF TypeOK
  <2>3. AtPage'
    <3>1. op.offset \in Nat /\ Aligned(op.offset) /\ FrameSize \in Nat /\ Aligned(FrameSize)
      BY <1>2, Layout, Zenon DEF AtPage
    <3>2. op.offset \in Int /\ FrameSize \in Int /\ op.offset + FrameSize \in Nat
      BY <3>1
    <3>3. Aligned(op.offset + FrameSize)
      BY <3>1, <3>2, AlignedSum, Zenon
    <3> QED
      BY <1>9, <2>2, <3>2, <3>3, Zenon DEF AtPage
  <2>4. Table' /\ Backing'
    BY <1>1, <1>3, <2>1, <2>2, <2>3, TableKept, Zenon DEF Backing, Placed, InGap, Live
  <2>5. Freeing' /\ MappingMmio' /\ ReleaseNeverPanics' /\ op'.kind # "panic"
    BY <2>2, Zenon DEF Freeing, MappingMmio, ReleaseNeverPanics
  <2>6. TypeOK'
    <3>1. op.offset + FrameSize \in Addresses
      BY <1>2, <1>3, <1>9, Layout DEF TypeOK, Addresses
    <3>2. op'.base + op'.offset \in Window
      BY <1>1, <1>9, <2>2, <2>3, PlacedInWindow, Zenon DEF AtPage
    <3> QED
      BY <1>3, <1>8, <2>1, <2>2, <3>1, <3>2, Zenon DEF TypeOK, mmio_vars
  <2>7. MappedExactly'
    BY <1>7, <2>1, <2>2, <2>4, <2>5, <2>6, InProgressNext, TableKept, PageByPageNext, Zenon
  <2> QED
    BY <2>4, <2>5, <2>6, <2>7, Zenon DEF IInv, WindowSound
<1>10. CASE ~ (op.offset + FrameSize < op.bytes)
  <2>1. insert(op.index, [base |-> op.base, bytes |-> op.bytes]) /\ op' = Idle /\ answer' = "ok"
    BY <1>10, Zenon DEF map_succeeded, Return
  <2>2. op.offset + FrameSize = op.bytes
    BY <1>2, <1>4, <1>10, Layout
  <2>3. /\ Table' /\ \A va : Owned(va)' <=> Owned(va) \/ va \in PagesOf(op.base, op.bytes)
        /\ m_allocations' \in [Index -> [base : Addresses, bytes : Addresses]]
        /\ m_count' \in 0 .. MaxAllocations
    BY <1>1, <1>3, <2>1, InsertKeeps, Zenon
  <2>4. TypeOK'
    BY <1>3, <1>8, <2>1, <2>3, IdleType, Zenon DEF TypeOK, mmio_vars
  <2>5. Backing' /\ Freeing' /\ MappingMmio' /\ ReleaseNeverPanics' /\ op'.kind # "panic"
    BY <2>1, IdleType, Zenon DEF Backing, Freeing, MappingMmio, ReleaseNeverPanics
  <2>6. MappedExactly'
    BY <1>7, <2>1, <2>2, <2>3, <2>4, <2>5, IdleType, InProgressNext, PageByPageNext, Zenon
  <2> QED
    BY <2>3, <2>4, <2>5, <2>6, Zenon DEF IInv, WindowSound
<1> QED
  BY <1>9, <1>10, Zenon

LEMMA BackKeeps ==
    ASSUME IInv, back, UNCHANGED mmio_vars
    PROVE  IInv'
<1>1. op.kind = "back" /\ pool \subseteq Frames /\ tables \subseteq Frames
  BY Zenon DEF back, IInv, WindowSound, TypeOK
<1>2. CASE /\ rollback("OUT_OF_MEMORY") \/ rollback("CONFLICT")
           /\ UNCHANGED <<m_allocations, m_count, mapping, pool, tables>>
  BY <1>1, <1>2, RollbackKeeps, Zenon
<1>3. ASSUME NEW frame \in pool, NEW linked \in SUBSET (pool \ {frame}),
             map_succeeded(op.base + op.offset, frame, linked)
      PROVE  IInv'
  BY <1>1, <1>3, MappedKeeps, Zenon
<1>4. ASSUME NEW frame \in pool, NEW linked \in SUBSET (pool \ {frame}), map_failed(frame, linked)
      PROVE  IInv'
  <2>1. /\ rollback("OUT_OF_MEMORY") /\ UNCHANGED <<m_allocations, m_count, mapping>>
        /\ pool' \subseteq Frames /\ tables' \subseteq Frames
    BY <1>1, <1>4, Zenon DEF map_failed
  <2> QED
    BY <1>1, <2>1, RollbackKeeps, Zenon
<1> QED
  BY <1>2, <1>3, <1>4, Zenon DEF back

\* Erasing an entry keeps the table sorted and takes away exactly its pages.
LEMMA EraseKeeps ==
    ASSUME TypeOK, Table, NEW index \in Live, erase(index)
    PROVE  /\ Table'
           /\ \A va : Owned(va)' <=> Owned(va) /\ va \notin Backed(index)
           /\ m_allocations' \in [Index -> [base : Addresses, bytes : Addresses]]
           /\ m_count' \in 0 .. MaxAllocations
<1>1. /\ m_count \in Nat /\ m_count' = m_count - 1 /\ index \in 0 .. m_count - 1 /\ MaxAllocations \in Nat
      /\ Live = 0 .. m_count - 1 /\ Live' = 0 .. m_count - 2 /\ Live' \subseteq Index /\ Live \subseteq Index
      /\ m_count <= MaxAllocations
  BY Layout DEF erase, TypeOK, Live, Index
<1>2. ASSUME NEW i \in Index
      PROVE  m_allocations'[i] = IF index <= i /\ i + 1 < m_count THEN m_allocations[i + 1]
                                 ELSE m_allocations[i]
  BY Zenon DEF erase
<1>3. ASSUME NEW i \in Live'
      PROVE  /\ i < index => i \in Live /\ m_allocations'[i] = m_allocations[i]
             /\ i >= index => i + 1 \in Live /\ m_allocations'[i] = m_allocations[i + 1]
             /\ i < index \/ i >= index
             /\ i \in Int
  BY <1>1, <1>2
<1>4. \A i \in Live : Placed(m_allocations[i].base, m_allocations[i].bytes)
  BY Zenon DEF Table
<1>5. \A i, j \in Live :
         i < j => Before(m_allocations[i].base, m_allocations[i].bytes, m_allocations[j].base)
  BY Zenon DEF Table
<1>6. ASSUME NEW i \in Live' PROVE Placed(m_allocations'[i].base, m_allocations'[i].bytes)
  BY <1>3, <1>4, Zenon
<1>7. ASSUME NEW i \in Live', NEW j \in Live', i < j
      PROVE  Before(m_allocations'[i].base, m_allocations'[i].bytes, m_allocations'[j].base)
  <2>1. CASE j < index
    BY <1>1, <1>3, <1>5, <1>7, <2>1
  <2>2. CASE j >= index /\ i < index
    BY <1>1, <1>3, <1>5, <1>7, <2>2
  <2>3. CASE j >= index /\ i >= index
    BY <1>1, <1>3, <1>5, <1>7, <2>3
  <2> QED
    BY <1>1, <2>1, <2>2, <2>3
<1>8. Table'
  BY <1>6, <1>7, Zenon DEF Table, Placed, Before
<1>9. ASSUME NEW va PROVE Owned(va)' <=> Owned(va) /\ va \notin Backed(index)
  <2>1. Owned(va)' <=> \E i \in Live' : va \in PagesOf(m_allocations'[i].base, m_allocations'[i].bytes)
    BY Zenon DEF Owned, Backed, PagesOf
  <2>2. Owned(va) <=> \E i \in Live : va \in PagesOf(m_allocations[i].base, m_allocations[i].bytes)
    BY Zenon DEF Owned, Backed, PagesOf
  <2>3. ASSUME NEW i \in Live, i # index, va \in PagesOf(m_allocations[i].base, m_allocations[i].bytes)
        PROVE  va \notin Backed(index)
    <3>1. /\ Placed(m_allocations[i].base, m_allocations[i].bytes)
          /\ Placed(m_allocations[index].base, m_allocations[index].bytes)
      BY <1>4, Zenon
    <3>2. \/ Before(m_allocations[i].base, m_allocations[i].bytes, m_allocations[index].base)
          \/ Before(m_allocations[index].base, m_allocations[index].bytes, m_allocations[i].base)
      BY <1>1, <1>5, <2>3
    <3>3. va \in Int /\ m_allocations[i].base <= va /\ va < m_allocations[i].base + m_allocations[i].bytes
      BY <2>3, <3>1, Pages, Zenon DEF Placed
    <3>4. va \in Backed(index) =>
             m_allocations[index].base <= va /\ va < m_allocations[index].base + m_allocations[index].bytes
      BY <3>1, Pages, Zenon DEF Placed, Backed
    <3> QED
      BY <3>1, <3>2, <3>3, <3>4, Layout, SMTT(40) DEF Placed, Before
  <2>4. ASSUME Owned(va)' PROVE Owned(va) /\ va \notin Backed(index)
    <3>1. PICK i \in Live' : va \in PagesOf(m_allocations'[i].base, m_allocations'[i].bytes)
      BY <2>1, <2>4, Zenon
    <3>2. PICK j \in Live : j # index /\ va \in PagesOf(m_allocations[j].base, m_allocations[j].bytes)
      <4>1. CASE i < index
        BY <1>1, <1>3, <3>1, <4>1
      <4>2. CASE i >= index
        <5>1. i + 1 \in Live /\ i + 1 # index /\ m_allocations'[i] = m_allocations[i + 1]
          BY <1>1, <1>3, <4>2
        <5> QED
          BY <3>1, <5>1, Zenon
      <4> QED
        BY <1>3, <4>1, <4>2, Zenon
    <3> QED
      BY <2>2, <2>3, <3>2, Zenon
  <2>5. ASSUME Owned(va), va \notin Backed(index) PROVE Owned(va)'
    <3>1. PICK i \in Live : va \in PagesOf(m_allocations[i].base, m_allocations[i].bytes)
      BY <2>2, <2>5, Zenon
    <3>2. i # index
      BY <2>5, <3>1, Zenon DEF Backed
    <3>3. CASE i < index
      <4>1. i \in Live' /\ m_allocations'[i] = m_allocations[i]
        BY <1>1, <1>3, <3>3
      <4> QED
        BY <2>1, <3>1, <4>1, Zenon
    <3>4. CASE i > index
      <4>1. i - 1 \in Live' /\ i - 1 >= index /\ (i - 1) + 1 = i
        BY <1>1, <3>4
      <4>2. m_allocations'[i - 1] = m_allocations[i]
        BY <1>3, <4>1, Zenon
      <4> QED
        BY <2>1, <3>1, <4>1, <4>2, Zenon
    <3> QED
      BY <1>1, <3>2, <3>3, <3>4
  <2> QED
    BY <2>4, <2>5, Zenon
<1>10. m_allocations' \in [Index -> [base : Addresses, bytes : Addresses]]
  <2>1. ASSUME NEW i \in Index PROVE m_allocations'[i] \in [base : Addresses, bytes : Addresses]
    <3>1. i + 1 < m_count => i + 1 \in Index
      BY <1>1 DEF Index
    <3> QED
      BY <1>2, <3>1 DEF TypeOK
  <2>2. m_allocations' = [i \in Index |-> m_allocations'[i]]
    BY Zenon DEF erase
  <2> QED
    BY <2>1, <2>2, Zenon
<1> QED
  BY <1>1, <1>8, <1>9, <1>10

\* The ranges in front of the page at hand and behind it.
LEMMA Halves ==
    ASSUME NEW base \in Int, NEW bytes \in Int, NEW offset \in Nat,
           Aligned(base), Aligned(bytes), Aligned(offset), offset < bytes
    PROVE  /\ PagesOf(base + offset, bytes - offset)
                = PagesOf(base + (offset + FrameSize), bytes - (offset + FrameSize)) \cup {base + offset}
           /\ base + offset \notin PagesOf(base + (offset + FrameSize), bytes - (offset + FrameSize))
           /\ offset + FrameSize = bytes =>
                PagesOf(base + (offset + FrameSize), bytes - (offset + FrameSize)) = {}
<1> DEFINE here == base + offset
           next == here + FrameSize
<1>1. /\ FrameSize \in Nat /\ FrameSize > 0 /\ here \in Int /\ Aligned(here) /\ next \in Int
      /\ offset + FrameSize <= bytes
  BY Layout, AlignedSum, AlignedStep
<1>2. base + (offset + FrameSize) = next
  BY <1>1
<1>3. ASSUME NEW a
      PROVE  /\ a \in PagesOf(here, bytes - offset)
                  <=> a \in Int /\ here <= a /\ a < base + bytes /\ Aligned(a)
             /\ a \in PagesOf(next, bytes - (offset + FrameSize))
                  <=> a \in Int /\ next <= a /\ a < base + bytes /\ Aligned(a)
  <2>1. here + (bytes - offset) = base + bytes /\ next + (bytes - (offset + FrameSize)) = base + bytes
    BY <1>1
  <2>2. bytes - offset \in Int /\ bytes - (offset + FrameSize) \in Int
    BY <1>1
  <2> HIDE DEF here, next
  <2> QED
    BY <1>1, <2>1, <2>2, Pages, Zenon
<1>4. ASSUME NEW a \in Int, Aligned(a), here < a PROVE next <= a
  BY <1>1, <1>4, AlignedStep, Zenon
<1> HIDE DEF next
<1>5. PagesOf(here, bytes - offset) = PagesOf(next, bytes - (offset + FrameSize)) \cup {here}
  <2>1. here < base + bytes /\ here < next
    BY <1>1 DEF next
  <2>2. \A a \in Int : a < here \/ a = here \/ here < a
    BY <1>1
  <2>3. \A a \in Int : next <= a => here <= a
    BY <1>1, <2>1
  <2> HIDE DEF here
  <2> QED
    BY <1>1, <1>3, <1>4, <2>1, <2>2, <2>3
<1>6. here \notin PagesOf(next, bytes - (offset + FrameSize))
  BY <1>1, <1>3 DEF next
<1>7. ASSUME offset + FrameSize = bytes PROVE PagesOf(next, bytes - (offset + FrameSize)) = {}
  BY <1>1, <1>3, <1>7 DEF next
<1> QED
  BY <1>2, <1>5, <1>6, <1>7, Zenon

\* A range in a gap shares no page with a range of the table.
LEMMA GapIsFree ==
    ASSUME Table, m_count \in Nat, NEW index, NEW base, NEW bytes, Placed(base, bytes),
           InGap(index, base, bytes), NEW va \in PagesOf(base, bytes)
    PROVE  ~ Owned(va)
<1> SUFFICES ASSUME NEW i \in Live, va \in Backed(i) PROVE FALSE
  BY Zenon DEF Owned
<1>1. Placed(m_allocations[i].base, m_allocations[i].bytes)
  BY Zenon DEF Table
<1>2. \/ Before(m_allocations[i].base, m_allocations[i].bytes, base)
      \/ Before(base, bytes, m_allocations[i].base)
  BY DEF InGap, Live
<1>3. va \in Int /\ base <= va /\ va < base + bytes
  BY Pages, Zenon DEF Placed
<1>4. m_allocations[i].base <= va /\ va < m_allocations[i].base + m_allocations[i].bytes
  BY <1>1, Pages, Zenon DEF Placed, Backed
<1> QED
  BY <1>1, <1>2, <1>3, <1>4, Layout DEF Placed, Before
-----------------------------------------------------------------------------
(***************************************************************************)
(* The operations that release, find and protect regions and map MMIO.     *)
(***************************************************************************)

\* What release works on, for both of its callers.
LEMMA Releasing ==
    ASSUME IInv, op.kind \in {"release", "free"}
    PROVE  /\ Placed(op.base, op.bytes) /\ AtPage
           /\ op.base \in Int /\ op.bytes \in Int /\ op.offset \in Nat /\ op.offset < op.bytes
           /\ Aligned(op.base) /\ Aligned(op.bytes) /\ Aligned(op.offset)
           /\ op.base + op.offset \in Window /\ op.offset + FrameSize <= op.bytes
           /\ op.base + op.offset \in PagesOf(op.base, op.bytes)
<1>1. Placed(op.base, op.bytes) /\ AtPage
  <2>1. CASE op.kind = "release"
    BY <2>1, Zenon DEF IInv, Backing
  <2>2. CASE op.kind = "free"
    BY <2>2 DEF IInv, Freeing, Table
  <2> QED
    BY <2>1, <2>2, Zenon
<1>2. /\ op.base \in Int /\ op.bytes \in Int /\ op.offset \in Nat /\ op.offset < op.bytes
      /\ Aligned(op.base) /\ Aligned(op.bytes) /\ Aligned(op.offset)
  BY <1>1, Zenon DEF AtPage, Placed
<1> QED
  BY <1>1, <1>2, PlacedInWindow, Zenon

\* The page that release comes to is mapped, so it does not panic.
LEMMA ReleaseFindsPage ==
    ASSUME IInv, op.kind \in {"release", "free"}
    PROVE  mapping[op.base + op.offset] # NotMapped
<1>1. CASE op.kind = "release"
  <2>1. op.base + op.offset \in Arriving /\ Leaving = {}
    BY <1>1, Releasing, Halves, InProgress
  <2> QED
    BY <1>1, <2>1, Releasing, PageByPage, Zenon DEF IInv, WindowSound
<1>2. CASE op.kind = "free"
  <2>1. op.base + op.offset \notin Leaving
    BY <1>2, Releasing, PagesStep, InProgress
  <2>2. op.index \in Live /\ Backed(op.index) = PagesOf(op.base, op.bytes)
    BY <1>2 DEF IInv, Freeing, Backed
  <2>3. Owned(op.base + op.offset)
    BY <2>2, Releasing, Zenon DEF Owned
  <2> QED
    BY <1>2, <2>1, <2>3, Releasing, PageByPage, Zenon DEF IInv, WindowSound
<1> QED
  BY <1>1, <1>2, Zenon

\* The types after a round of release, whatever happens to the table and the operation.
LEMMA ReleaseTypes ==
    ASSUME IInv, release
    PROVE  /\ mapping' = [mapping EXCEPT ![op.base + op.offset] = NotMapped]
           /\ mapping' \in [Window -> [frame : Frames, prot : Prots] \cup {NotMapped}]
           /\ \A va \in Window : mapping'[va] # NotMapped <=> mapping[va] # NotMapped /\ va # op.base + op.offset
           /\ pool' \subseteq Frames /\ tables' \subseteq Frames
<1>1. op.kind \in {"release", "free"}
  BY Zenon DEF release
<1>2. mapping[op.base + op.offset] # NotMapped /\ op.base + op.offset \in Window
  BY <1>1, ReleaseFindsPage, Releasing, Zenon
<1>3. mapping' = [mapping EXCEPT ![op.base + op.offset] = NotMapped]
  BY <1>2, Zenon DEF release
<1>4. PICK pruned \in SUBSET tables : /\ pool' = pool \cup {mapping[op.base + op.offset].frame} \cup pruned
                                      /\ tables' = tables \ pruned
  BY <1>2, Zenon DEF release
<1>5. mapping \in [Window -> [frame : Frames, prot : Prots] \cup {NotMapped}] /\ pool \subseteq Frames /\ tables \subseteq Frames
  BY Zenon DEF IInv, WindowSound, TypeOK
<1>6. mapping[op.base + op.offset].frame \in Frames
  BY <1>2, <1>5, Zenon
<1>7. \A va \in Window : mapping'[va] = IF va = op.base + op.offset THEN NotMapped ELSE mapping[va]
  BY <1>3, <1>5, Zenon
<1>8. mapping' \in [Window -> [frame : Frames, prot : Prots] \cup {NotMapped}]
  BY <1>3, <1>5, Zenon
<1>9. pool' \subseteq Frames /\ tables' \subseteq Frames
  BY <1>4, <1>5, <1>6, Zenon
<1> QED
  BY <1>3, <1>7, <1>8, <1>9, Zenon

LEMMA ReleaseKeeps ==
    ASSUME IInv, release, UNCHANGED mmio_vars
    PROVE  IInv'
<1> DEFINE va0 == op.base + op.offset
<1>1. op.kind \in {"release", "free"}
  BY Zenon DEF release
<1>2. mapping[va0] # NotMapped
  BY <1>1, ReleaseFindsPage, Zenon
<1>3. /\ Placed(op.base, op.bytes) /\ AtPage
      /\ op.base \in Int /\ op.bytes \in Int /\ op.offset \in Nat /\ op.offset < op.bytes
      /\ Aligned(op.base) /\ Aligned(op.bytes) /\ Aligned(op.offset)
      /\ va0 \in Window /\ op.offset + FrameSize <= op.bytes
      /\ va0 \in PagesOf(op.base, op.bytes)
  BY <1>1, Releasing, Zenon
<1>4. /\ mapping' \in [Window -> [frame : Frames, prot : Prots] \cup {NotMapped}]
      /\ \A va \in Window : mapping'[va] # NotMapped <=> mapping[va] # NotMapped /\ va # va0
      /\ pool' \subseteq Frames /\ tables' \subseteq Frames
  BY ReleaseTypes, Zenon
<1>5. TypeOK /\ Table /\ m_count \in Nat
  BY DEF IInv, WindowSound, TypeOK
<1>6. \A va \in Window : mapping[va] # NotMapped <=> (Owned(va) \/ va \in Arriving) /\ va \notin Leaving
  BY <1>1, PageByPage, Zenon DEF IInv, WindowSound
<1>7. CASE op.offset + FrameSize < op.bytes
  <2>1. op' = [op EXCEPT !.offset = @ + FrameSize] /\ UNCHANGED <<m_allocations, m_count, answer>>
    <3>1. ~ (op.offset + FrameSize >= op.bytes)
      BY <1>3, <1>7, Layout
    <3> QED
      BY <1>2, <3>1, Zenon DEF release
  <2>2. /\ op'.kind = op.kind /\ op'.base = op.base /\ op'.bytes = op.bytes
        /\ op'.offset = op.offset + FrameSize /\ op'.index = op.index /\ op'.prot = op.prot
    BY <1>5, <2>1, Zenon DEF TypeOK
  <2>3. AtPage'
    <3>1. op.offset + FrameSize \in Nat /\ Aligned(op.offset + FrameSize)
      BY <1>3, AlignedNext, Zenon
    <3> QED
      BY <1>3, <1>7, <2>2, <3>1, Zenon DEF AtPage
  <2>4. Table' /\ Backing' /\ Freeing'
    BY <1>5, <2>1, <2>2, <2>3, TableKept, Zenon DEF IInv, Backing, Freeing, Placed, InGap, Live
  <2>5. MappingMmio' /\ ReleaseNeverPanics' /\ op'.kind # "panic"
    BY <1>1, <2>2, Zenon DEF MappingMmio, ReleaseNeverPanics
  <2>6. TypeOK'
    <3>1. op.offset + FrameSize \in Addresses
      BY <1>3, <1>5, <1>7, Layout DEF TypeOK, Addresses
    <3>2. op'.base + op'.offset \in Window
      BY <1>3, <1>7, <2>2, <2>3, PlacedInWindow, Zenon DEF AtPage
    <3>3. op'.kind # "mmio"
      BY <1>1, <2>2, Zenon
    <3> QED
      BY <1>4, <1>5, <2>1, <2>2, <3>1, <3>2, <3>3, Zenon DEF TypeOK, mmio_vars
  <2>7. MappedExactly'
    <3>1. CASE op.kind = "release"
      <4>1. /\ Arriving = Arriving' \cup {va0} /\ va0 \notin Arriving' /\ Leaving = {} /\ Leaving' = {}
        BY <1>3, <2>2, <3>1, InProgress, InProgressNext, Halves, SMTT(40)
      <4>2. ~ Owned(va0)
        BY <1>3, <1>5, <3>1, GapIsFree, Zenon DEF IInv, Backing
      <4>3. \A va \in Window : mapping'[va] # NotMapped <=> Owned(va) \/ va \in Arriving'
        BY <1>4, <1>6, <4>1, <4>2, Zenon
      <4> QED
        BY <2>1, <2>4, <2>5, <2>6, <4>1, <4>3, TableKept, PageByPageNext, Zenon
    <3>2. CASE op.kind = "free"
      <4>1. Leaving' = Leaving \cup {va0} /\ Arriving = {} /\ Arriving' = {}
        BY <1>3, <2>2, <3>2, InProgress, InProgressNext, PagesStep, SMTT(40)
      <4>2. \A va \in Window : mapping'[va] # NotMapped <=> Owned(va) /\ va \notin Leaving'
        BY <1>4, <1>6, <4>1, Zenon
      <4> QED
        BY <2>1, <2>4, <2>5, <2>6, <4>1, <4>2, TableKept, PageByPageNext, Zenon
    <3> QED
      BY <1>1, <3>1, <3>2, Zenon
  <2> QED
    BY <2>4, <2>5, <2>6, <2>7, Zenon DEF IInv, WindowSound
<1>8. CASE ~ (op.offset + FrameSize < op.bytes)
  <2>1. /\ op' = Idle /\ answer' = op.result /\ op.offset + FrameSize = op.bytes
        /\ op.kind = "free" => erase(op.index)
        /\ op.kind = "release" => UNCHANGED <<m_allocations, m_count>>
    <3>1. op.offset + FrameSize >= op.bytes /\ op.offset + FrameSize = op.bytes
      BY <1>3, <1>8, Layout
    <3> QED
      BY <1>2, <3>1, Zenon DEF release, Return
  <2>2. Backing' /\ Freeing' /\ MappingMmio' /\ ReleaseNeverPanics' /\ op'.kind # "panic"
    BY <2>1, IdleType, Zenon DEF Backing, Freeing, MappingMmio, ReleaseNeverPanics
  <2>3. Arriving' = {} /\ Leaving' = {}
    BY <2>1, IdleType, InProgressNext, Zenon
  <2>4. CASE op.kind = "release"
    <3>1. Arriving = {va0} /\ Leaving = {}
      <4>1. Arriving = PagesOf(va0, op.bytes - op.offset) /\ Leaving = {}
        BY <2>4, InProgress, Zenon
      <4>2. /\ PagesOf(va0, op.bytes - op.offset)
                 = PagesOf(op.base + (op.offset + FrameSize), op.bytes - (op.offset + FrameSize)) \cup {va0}
            /\ PagesOf(op.base + (op.offset + FrameSize), op.bytes - (op.offset + FrameSize)) = {}
        BY <1>3, <2>1, Halves
      <4> QED
        BY <4>1, <4>2, Zenon
    <3>2. ~ Owned(va0)
      BY <1>3, <1>5, <2>4, GapIsFree, Zenon DEF IInv, Backing
    <3>3. \A va \in Window : mapping'[va] # NotMapped <=> Owned(va)
      BY <1>4, <1>6, <3>1, <3>2, Zenon
    <3>4. Table' /\ TypeOK'
      BY <1>4, <1>5, <2>1, <2>4, TableKept, IdleType, Zenon DEF TypeOK, mmio_vars
    <3>5. MappedExactly'
      BY <2>1, <2>2, <2>3, <2>4, <3>3, <3>4, TableKept, PageByPageNext, Zenon
    <3> QED
      BY <2>2, <3>4, <3>5, Zenon DEF IInv, WindowSound
  <2>5. CASE op.kind = "free"
    <3>1. op.index \in Live /\ Backed(op.index) = PagesOf(op.base, op.bytes)
      BY <2>5, SMTT(40) DEF IInv, Freeing, Backed
    <3>2. /\ Table' /\ \A va : Owned(va)' <=> Owned(va) /\ va \notin Backed(op.index)
          /\ m_allocations' \in [Index -> [base : Addresses, bytes : Addresses]]
          /\ m_count' \in 0 .. MaxAllocations
      BY <1>5, <2>1, <2>5, <3>1, EraseKeeps, Zenon
    <3>3. TypeOK'
      BY <1>4, <1>5, <2>1, <3>2, IdleType, Zenon DEF TypeOK, mmio_vars
    <3>4. Leaving \cup {va0} = PagesOf(op.base, op.bytes) /\ Arriving = {}
      BY <1>3, <2>1, <2>5, InProgress, PagesStep
    <3>5. \A va \in Window : mapping'[va] # NotMapped <=> Owned(va)'
      BY <1>4, <1>6, <3>1, <3>2, <3>4, SMTT(40)
    <3>6. MappedExactly'
      BY <2>2, <2>3, <3>2, <3>3, <3>5, PageByPageNext, Zenon
    <3> QED
      BY <2>2, <3>2, <3>3, <3>6, Zenon DEF IInv, WindowSound
  <2> QED
    BY <1>1, <2>4, <2>5, Zenon
<1> QED
  BY <1>7, <1>8, Zenon

\* Two entries with the same base are the same.
LEMMA SameBase ==
    ASSUME Table, m_count \in Nat, NEW i \in Live, NEW j \in Live, m_allocations[i].base = m_allocations[j].base
    PROVE  i = j
<1>1. /\ Placed(m_allocations[i].base, m_allocations[i].bytes)
      /\ Placed(m_allocations[j].base, m_allocations[j].bytes)
      /\ i < j => Before(m_allocations[i].base, m_allocations[i].bytes, m_allocations[j].base)
      /\ j < i => Before(m_allocations[j].base, m_allocations[j].bytes, m_allocations[i].base)
  BY Zenon DEF Table
<1>2. i \in Int /\ j \in Int
  BY DEF Live
<1> QED
  BY <1>1, <1>2, Layout, SMTT(40) DEF Placed, Before

\* Two entries never have the same base, so any of those that free finds is the lowest.
LEMMA FoundFirst ==
    ASSUME Table, m_count \in 0 .. MaxAllocations, NEW ptr, {i \in Live : m_allocations[i].base = ptr} # {}
    PROVE  LET found == {i \in Live : m_allocations[i].base = ptr}
           IN  (CHOOSE i \in found : \A j \in found : i <= j) \in found
<1> DEFINE found == {i \in Live : m_allocations[i].base = ptr}
<1>1. PICK i \in found : TRUE
  BY Zenon
<1>2. ASSUME NEW j \in found PROVE i = j
  BY SameBase
<1>3. i \in Int
  BY DEF Live
<1>4. \A j \in found : i <= j
  BY <1>2, <1>3
<1> QED
  BY <1>1, <1>4, Zenon

LEMMA FreeKeeps ==
    ASSUME IInv, NEW ptr \in Window, NEW bytes \in Addresses, free(ptr, bytes), UNCHANGED mmio_vars
    PROVE  IInv'
<1> DEFINE found == {i \in Live : m_allocations[i].base = ptr}
           index == CHOOSE i \in found : \A j \in found : i <= j
           entry == m_allocations[index]
<1>0. op = Idle /\ op.kind = "idle" /\ TypeOK /\ Table /\ m_count \in 0 .. MaxAllocations
  BY IdleType, Zenon DEF free, IInv, WindowSound, TypeOK
<1>1. CASE Refuse("INVALID_ADDRESS")
  BY <1>0, <1>1, RefuseKeeps, Zenon DEF Answers
<1>2. CASE /\ found # {}
           /\ op' = [Idle EXCEPT !.kind = "free", !.base = entry.base, !.bytes = entry.bytes,
                                 !.index = index]
           /\ UNCHANGED <<m_allocations, m_count, mapping, pool, tables, answer>>
  <2>1. index \in found
    BY <1>0, <1>2, FoundFirst, Zenon
  <2> HIDE DEF index
  <2>2. index \in Live /\ index \in 0 .. MaxAllocations
    BY <1>0, <2>1, Layout DEF Live
  <2>3. Placed(entry.base, entry.bytes)
    BY <1>0, <2>2, Zenon DEF Table
  <2>4. entry = [base |-> entry.base, bytes |-> entry.bytes]
    BY <1>0, <2>2, Layout, SMTT(40) DEF TypeOK, Live, Index
  <2> HIDE DEF entry
  <2>5. /\ op'.kind = "free" /\ op'.base = entry.base /\ op'.bytes = entry.bytes /\ op'.offset = 0
        /\ op'.index = index
    BY <1>2, Zenon DEF Idle
  <2>6. entry.base \in Addresses /\ entry.bytes \in Addresses /\ entry.base + 0 \in Window /\ 0 \in Addresses
    <3>1. 0 \in Nat /\ Aligned(0) /\ 0 < entry.bytes
      BY <2>3, Layout, Zenon DEF Placed
    <3> QED
      BY <2>3, <3>1, Layout, PlacedInWindow, SMTT(40) DEF Addresses
  <2>7. TypeOK'
    <3>1. op' \in [kind : {"idle", "back", "release", "free", "mmio", "panic"}, base : Addresses,
                   bytes : Addresses, offset : Addresses, index : 0 .. MaxAllocations,
                   prot : Prots \cup {"none"}, result : {"ok", "OUT_OF_MEMORY", "CONFLICT"}]
      BY <1>2, <2>2, <2>6, Zenon DEF Idle
    <3> QED
      BY <1>0, <1>2, <2>5, <2>6, <3>1, Zenon DEF TypeOK, mmio_vars
  <2>8. Freeing'
    <3>1. AtPage'
      BY <2>3, <2>5, Layout DEF AtPage, Placed
    <3>2. op'.index \in Live' /\ m_allocations'[op'.index] = [base |-> op'.base, bytes |-> op'.bytes]
      BY <1>2, <2>2, <2>4, <2>5, Zenon DEF Live, entry
    <3> QED
      BY <3>1, <3>2, Zenon DEF Freeing
  <2>9. Table' /\ Backing' /\ MappingMmio' /\ ReleaseNeverPanics' /\ op'.kind # "panic"
    BY <1>0, <1>2, <2>5, TableKept, Zenon DEF Backing, MappingMmio, ReleaseNeverPanics
  <2>10. MappedExactly'
    <3>1. \A va \in Window : mapping[va] # NotMapped <=> Owned(va)
      BY <1>0, PageByPage, InProgress, Zenon DEF IInv, WindowSound
    <3>2. PagesOf(entry.base, 0) = {}
      BY <2>3 DEF PagesOf, Placed
    <3>3. Arriving' = {} /\ Leaving' = {}
      BY <2>5, <3>2, InProgressNext, Zenon
    <3> QED
      BY <1>2, <2>7, <2>9, <3>1, <3>3, TableKept, PageByPageNext, Zenon
  <2> QED
    BY <2>7, <2>8, <2>9, <2>10, Zenon DEF IInv, WindowSound
<1> QED
  BY <1>1, <1>2, Zenon DEF free

\* A range that passes the check of the table has no hole: all of it changes, and only its
\* protection.
LEMMA ProtectNoHole ==
    ASSUME IInv, op = Idle, NEW ptr \in Int, NEW last \in Int, NEW i \in Live,
           covers(m_allocations[i], ptr, last)
    PROVE  \A va \in PagesOf(ptr, last - ptr) : va \in Window /\ mapping[va] # NotMapped
<1>1. Placed(m_allocations[i].base, m_allocations[i].bytes)
  BY Zenon DEF IInv, Table
<1>2. ASSUME NEW va \in PagesOf(ptr, last - ptr) PROVE va \in Backed(i)
  <2>1. va \in Int /\ ptr <= va /\ va < ptr + (last - ptr) /\ Aligned(va)
    BY Pages
  <2>2. m_allocations[i].base <= va /\ va < m_allocations[i].base + m_allocations[i].bytes
    BY <1>1, <2>1, SMTT(40) DEF covers, Placed
  <2> QED
    BY <1>1, <2>1, <2>2, Pages, Zenon DEF Backed, Placed
<1>3. Backed(i) \subseteq Window
  BY <1>1, PlacedInWindow, Zenon DEF Backed
<1>4. \A va \in Window : mapping[va] # NotMapped <=> Owned(va)
  BY IdleType, PageByPage, InProgress, Zenon DEF IInv, WindowSound
<1> QED
  BY <1>2, <1>3, <1>4, Zenon DEF Owned

\* What protect does to the mapping when it is not refused.
LEMMA ProtectEffect ==
    ASSUME IInv, NEW ptr \in Int, NEW bytes \in Int, NEW prot \in Prots, protect(ptr, bytes, prot)
    PROVE  LET last == align_up((ptr + bytes) % Space)
               pages == PagesOf(ptr, last - ptr)
           IN  \/ Refuse("INVALID_ADDRESS")
               \/ /\ mapping' = [va \in Window |-> IF va \in pages THEN [mapping[va] EXCEPT !.prot = prot]
                                                   ELSE mapping[va]]
                  /\ pages \subseteq {va \in Window : mapping[va] # NotMapped}
                  /\ op' = Idle /\ answer' = "ok" /\ ptr < last
                  /\ \E i \in Live : covers(m_allocations[i], ptr, last)
                  /\ UNCHANGED <<m_allocations, m_count, pool, tables>>
<1> DEFINE last == align_up((ptr + bytes) % Space)
           pages == PagesOf(ptr, last - ptr)
           holes == {va \in pages : va \notin Window \/ mapping[va] = NotMapped}
<1>1. op = Idle
  BY Zenon DEF protect
<1>2. CASE Refuse("INVALID_ADDRESS")
  BY <1>2, Zenon
<1>3. CASE /\ ~ (last <= ptr) /\ \E i \in Live : covers(m_allocations[i], ptr, last)
           /\ mapping' = [va \in Window |->
                            IF va \in pages /\ \A hole \in holes : va < hole
                            THEN [mapping[va] EXCEPT !.prot = prot] ELSE mapping[va]]
           /\ Return(IF holes = {} THEN "ok" ELSE "NOT_MAPPED")
           /\ UNCHANGED <<m_allocations, m_count, pool, tables>>
  <2>1. (ptr + bytes) % Space \in Int
    BY Layout
  <2>2. last \in Int
    BY <2>1, AlignUpType, Layout DEF Addresses
  <2>3. \A va \in pages : va \in Window /\ mapping[va] # NotMapped
    BY <1>1, <1>3, <2>2, ProtectNoHole, Zenon
  <2>4. holes = {}
    BY <2>3, Zenon
  <2>5. ptr < last
    BY <1>3, <2>2
  <2> HIDE DEF pages, holes, last
  <2>6. mapping' = [va \in Window |-> IF va \in pages THEN [mapping[va] EXCEPT !.prot = prot] ELSE mapping[va]]
    BY <1>3, <2>4, Zenon
  <2>7. op' = Idle /\ answer' = "ok"
    BY <1>3, <2>4, Zenon DEF Return
  <2>8. pages \subseteq {va \in Window : mapping[va] # NotMapped}
    BY <2>3, Zenon
  <2> QED
    BY <1>3, <2>5, <2>6, <2>7, <2>8, Zenon DEF last, pages
<1> QED
  BY <1>2, <1>3, Zenon DEF protect

LEMMA ProtectKeeps ==
    ASSUME IInv, NEW ptr \in Int, NEW bytes \in Int, NEW prot \in Prots, protect(ptr, bytes, prot),
           UNCHANGED mmio_vars
    PROVE  IInv'
<1> DEFINE pages == PagesOf(ptr, align_up((ptr + bytes) % Space) - ptr)
<1>1. op = Idle /\ op.kind = "idle" /\ TypeOK /\ Table
  BY IdleType, Zenon DEF protect, IInv, WindowSound
<1>2. CASE Refuse("INVALID_ADDRESS")
  BY <1>1, <1>2, RefuseKeeps, Zenon DEF Answers
<1>3. CASE /\ mapping' = [va \in Window |-> IF va \in pages THEN [mapping[va] EXCEPT !.prot = prot]
                                            ELSE mapping[va]]
           /\ pages \subseteq {va \in Window : mapping[va] # NotMapped}
           /\ op' = Idle /\ answer' = "ok"
           /\ UNCHANGED <<m_allocations, m_count, pool, tables>>
  <2> HIDE DEF pages
  <2>1. ASSUME NEW va \in Window
        PROVE  /\ mapping'[va] \in [frame : Frames, prot : Prots] \cup {NotMapped}
               /\ mapping'[va] # NotMapped <=> mapping[va] # NotMapped
    <3>1. mapping[va] \in [frame : Frames, prot : Prots] \cup {NotMapped}
      BY <1>1, Zenon DEF TypeOK
    <3>2. CASE va \in pages
      <4>1. mapping[va] # NotMapped /\ mapping'[va] = [mapping[va] EXCEPT !.prot = prot]
        BY <1>3, <3>2, Zenon
      <4>2. mapping'[va] \in [frame : Frames, prot : Prots]
        BY <3>1, <4>1, Zenon
      <4>3. mapping'[va] # NotMapped
        BY <4>2, CallerAssumption, SMTT(40) DEF NotMapped
      <4> QED
        BY <4>1, <4>2, <4>3, Zenon
    <3>3. CASE va \notin pages
      BY <1>3, <3>1, <3>3, Zenon
    <3> QED
      BY <3>2, <3>3, Zenon
  <2>2. mapping' \in [Window -> [frame : Frames, prot : Prots] \cup {NotMapped}]
    BY <1>3, <2>1, Zenon
  <2>3. TypeOK'
    BY <1>1, <1>3, <2>2, IdleType, Zenon DEF TypeOK, mmio_vars
  <2>4. Backing' /\ Freeing' /\ MappingMmio' /\ ReleaseNeverPanics' /\ op'.kind # "panic"
    BY <1>3, IdleType, Zenon DEF Backing, Freeing, MappingMmio, ReleaseNeverPanics
  <2>5. Table'
    BY <1>1, <1>3, TableKept, Zenon
  <2>6. \A va \in Window : mapping[va] # NotMapped <=> Owned(va)
    BY <1>1, PageByPage, InProgress, Zenon DEF IInv, WindowSound
  <2>7. Arriving' = {} /\ Leaving' = {}
    BY <1>3, IdleType, InProgressNext, Zenon
  <2>8. MappedExactly'
    BY <1>3, <2>1, <2>3, <2>4, <2>5, <2>6, <2>7, TableKept, PageByPageNext, Zenon
  <2> QED
    BY <2>3, <2>4, <2>5, <2>8, Zenon DEF IInv, WindowSound
<1> QED
  BY <1>2, <1>3, ProtectEffect

LEMMA MapMmioKeeps ==
    ASSUME IInv, NEW pa \in 0 .. MmioSize, NEW bytes \in Addresses, map_mmio(pa, bytes)
    PROVE  IInv'
<1> DEFINE first == align_down(pa)
           size == align_up(pa + bytes) - align_down(pa)
<1>0. op = Idle /\ op.kind = "idle" /\ TypeOK /\ UNCHANGED mmio_vars
  BY IdleType, Zenon DEF map_mmio, IInv, WindowSound
<1>1. CASE Refuse("INVALID_ADDRESS")
  BY <1>0, <1>1, RefuseKeeps, Zenon DEF Answers
<1>2. CASE /\ ~ (bytes = 0 \/ pa >= MmioSize \/ bytes > MmioSize - pa)
           /\ op' = [Idle EXCEPT !.kind = "mmio", !.base = first, !.bytes = size]
           /\ UNCHANGED <<window_vars, pool, answer>>
  <2>1. pa \in Nat /\ bytes \in Nat /\ 0 < bytes /\ pa + bytes \in Nat /\ pa + bytes <= MmioSize
    BY <1>2, Layout DEF Addresses
  <2>2. first \in Nat /\ Aligned(first) /\ first <= pa
    BY <2>1, AlignDown, Zenon
  <2>3. PICK past \in Nat : /\ past = align_up(pa + bytes) /\ Aligned(past)
                            /\ pa + bytes <= past /\ past <= MmioSize
    BY <2>1, Layout, AlignUp
  <2>4. size = past - first
    BY <2>3, Zenon
  <2> HIDE DEF first, size
  <2>5. /\ size \in Nat /\ Aligned(size) /\ 0 < size /\ first + size = past
    <3>1. past - first \in Nat /\ 0 < past - first /\ first + (past - first) = past
      BY <2>1, <2>2, <2>3
    <3>2. Aligned(past - first)
      BY <2>2, <2>3, AlignedSum
    <3> QED
      BY <2>4, <3>1, <3>2, Zenon
  <2>6. op'.kind = "mmio" /\ op'.base = first /\ op'.bytes = size /\ op'.offset = 0
    BY <1>2, Zenon DEF Idle
  <2>7. TypeOK'
    <3>1. first \in Addresses /\ size \in Addresses /\ 0 \in Addresses
      BY <2>2, <2>3, <2>5, Layout DEF Addresses
    <3>2. first + 0 \in MmioPages
      BY <2>1, <2>2, <2>3, <2>5, Layout, Pages DEF MmioPages
    <3>3. op' \in [kind : {"idle", "back", "release", "free", "mmio", "panic"}, base : Addresses,
                   bytes : Addresses, offset : Addresses, index : 0 .. MaxAllocations,
                   prot : Prots \cup {"none"}, result : {"ok", "OUT_OF_MEMORY", "CONFLICT"}]
      BY <1>2, <3>1, IdleType, Zenon
    <3> QED
      BY <1>0, <1>2, <2>6, <3>2, <3>3, Zenon DEF TypeOK, mmio_vars, window_vars
  <2>8. MappingMmio'
    <3>1. PagesOf(first, 0) = {}
      BY <2>2 DEF PagesOf
    <3>2. AtPage'
      BY <2>5, <2>6, Layout DEF AtPage
    <3> QED
      BY <2>2, <2>3, <2>5, <2>6, <3>1, <3>2, Zenon DEF MappingMmio
  <2> QED
    BY <1>0, <1>2, <2>6, <2>7, <2>8, Elsewhere, Zenon
<1> QED
  BY <1>1, <1>2, Zenon DEF map_mmio

\* What map_range knows at a page of the MMIO window.
LEMMA AtMmioPage ==
    ASSUME IInv, op.kind = "mmio"
    PROVE  /\ op.base \in Int /\ op.bytes \in Int /\ op.offset \in Nat /\ op.offset < op.bytes
           /\ Aligned(op.base) /\ Aligned(op.bytes) /\ Aligned(op.offset)
           /\ op.base >= 0 /\ op.base + op.bytes <= MmioSize /\ op.offset + FrameSize <= op.bytes
           /\ op.base + op.offset \in MmioPages /\ op.base + op.offset \in MmioRange
           /\ MmioRange \subseteq MmioPages
           /\ PagesOf(op.base, op.offset + FrameSize) = PagesOf(op.base, op.offset) \cup {op.base + op.offset}
           /\ \A page \in PagesOf(op.base, op.offset) : mmio[page] # "unmapped"
<1>1. /\ op.base \in Int /\ op.bytes \in Int /\ op.offset \in Nat /\ op.offset < op.bytes
      /\ Aligned(op.base) /\ Aligned(op.bytes) /\ Aligned(op.offset)
      /\ op.base >= 0 /\ op.base + op.bytes <= MmioSize /\ op.base + op.offset \in MmioPages
      /\ \A page \in PagesOf(op.base, op.offset) : mmio[page] # "unmapped"
  BY DEF IInv, MappingMmio, AtPage, WindowSound, TypeOK, Addresses
<1>2. op.offset + FrameSize <= op.bytes
  BY <1>1, AlignedStep
<1>3. op.base + op.offset \in Int /\ Aligned(op.base + op.offset)
  <2>1. PICK base, offset \in Int : base = op.base /\ offset = op.offset /\ Aligned(base) /\ Aligned(offset)
    BY <1>1
  <2>2. Aligned(base + offset)
    BY <2>1, AlignedSum, Zenon
  <2> QED
    BY <2>1, <2>2
<1>4. op.base + op.offset \in MmioRange
  BY <1>1, <1>3, Pages DEF MmioRange
<1>5. MmioRange \subseteq MmioPages
  BY <1>1, Layout, Pages DEF MmioRange, MmioPages
<1>6. PagesOf(op.base, op.offset + FrameSize) = PagesOf(op.base, op.offset) \cup {op.base + op.offset}
  BY <1>1, PagesStep
<1> QED
  BY <1>1, <1>2, <1>4, <1>5, <1>6, Zenon

\* Going on behind a page that is in place.
LEMMA MmioNextKeeps ==
    ASSUME IInv, op.kind = "mmio", NEW mapped \in [MmioPages -> {"unmapped", "mapped", "granted"}],
           \A page \in PagesOf(op.base, op.offset + FrameSize) : mapped[page] # "unmapped",
           mmio_next(mapped), UNCHANGED window_vars,
           pool' \subseteq Frames, mmio_tables' \subseteq Frames
    PROVE  IInv'
<1>1. TypeOK
  BY Zenon DEF IInv, WindowSound
<1>2. CASE op.offset + FrameSize < op.bytes
  <2>1. op' = [op EXCEPT !.offset = @ + FrameSize] /\ mmio' = mapped /\ UNCHANGED answer
    BY <1>2, Zenon DEF mmio_next
  <2>2. /\ op'.kind = "mmio" /\ op'.base = op.base /\ op'.bytes = op.bytes
        /\ op'.offset = op.offset + FrameSize
    BY <1>1, <2>1, Zenon DEF TypeOK
  <2>3. AtPage'
    <3>1. op.offset + FrameSize \in Nat /\ Aligned(op.offset + FrameSize)
      BY AtMmioPage, AlignedNext, Zenon
    <3> QED
      BY <1>2, <2>2, <3>1, Zenon DEF AtPage
  <2>4. MappingMmio'
    BY <2>1, <2>2, <2>3, AtMmioPage, Zenon DEF MappingMmio
  <2>5. TypeOK'
    <3>1. op.offset + FrameSize \in Addresses
      BY <1>1, <1>2, AtMmioPage, Layout, SMTT(40) DEF TypeOK, Addresses
    <3>2. op.base + (op.offset + FrameSize) \in MmioPages
      <4>1. op.offset + FrameSize \in Nat /\ Aligned(op.offset + FrameSize)
        BY AtMmioPage, AlignedNext, Zenon
      <4>2. PICK offset \in Nat : offset = op.offset + FrameSize /\ Aligned(offset) /\ offset < op.bytes
        BY <1>2, <4>1, Zenon
      <4>3. op.base + offset \in Int /\ Aligned(op.base + offset)
        <5>1. PICK base \in Int : base = op.base /\ Aligned(base)
          BY AtMmioPage, Zenon
        <5>2. offset \in Int /\ Aligned(offset)
          BY <4>2
        <5>3. Aligned(base + offset)
          BY <5>1, <5>2, AlignedSum, Zenon
        <5> QED
          BY <5>1, <5>3
      <4> QED
        BY <4>2, <4>3, AtMmioPage, Layout, Pages, SMTT(40) DEF MmioPages
    <3> QED
      BY <1>1, <2>1, <2>2, <3>1, <3>2, Zenon DEF TypeOK, window_vars
  <2> QED
    BY <2>2, <2>4, <2>5, Elsewhere, Zenon
<1>3. CASE ~ (op.offset + FrameSize < op.bytes)
  <2>1. /\ op' = Idle /\ answer' = "ok"
        /\ mmio' = [page \in MmioPages |->
                      IF page \in MmioRange /\ mapped[page] = "mapped" THEN "granted" ELSE mapped[page]]
    BY <1>3, Zenon DEF mmio_next, Return
  <2>2. mmio' \in [MmioPages -> {"unmapped", "mapped", "granted"}]
    BY <2>1, Zenon
  <2>3. TypeOK'
    BY <1>1, <2>1, <2>2, IdleType, Zenon DEF TypeOK, window_vars
  <2>4. MappingMmio'
    BY <2>1, IdleType, Zenon DEF MappingMmio
  <2> QED
    BY <2>1, <2>3, <2>4, IdleType, Elsewhere, Zenon
<1> QED
  BY <1>2, <1>3, Zenon

LEMMA MmioStepKeeps ==
    ASSUME IInv, mmio_step
    PROVE  IInv'
<1> DEFINE page0 == op.base + op.offset
<1>1. op.kind = "mmio" /\ UNCHANGED window_vars /\ TypeOK
  BY Zenon DEF mmio_step, IInv, WindowSound
<1>2. mmio \in [MmioPages -> {"unmapped", "mapped", "granted"}] /\ pool \subseteq Frames /\ mmio_tables \subseteq Frames
  BY <1>1, Zenon DEF TypeOK
<1>3. ASSUME NEW result \in {"CONFLICT", "OUT_OF_MEMORY"}, Return(result), UNCHANGED mmio,
             pool' \subseteq Frames, mmio_tables' \subseteq Frames
      PROVE  IInv'
  <2>1. op' = Idle /\ answer' = result
    BY <1>3, Zenon DEF Return
  <2>2. TypeOK'
    BY <1>1, <1>3, <2>1, IdleType, Zenon DEF TypeOK, window_vars
  <2>3. MappingMmio'
    BY <2>1, IdleType, Zenon DEF MappingMmio
  <2> QED
    BY <1>1, <2>1, <2>2, <2>3, IdleType, Elsewhere, Zenon
<1>4. CASE /\ mmio[page0] = "granted" /\ Return("CONFLICT") /\ UNCHANGED <<mmio_vars, pool>>
  BY <1>2, <1>3, <1>4, Zenon DEF mmio_vars
<1>5. CASE /\ mmio[page0] \in {"mapped", "granted"} /\ mmio_next(mmio) /\ UNCHANGED <<pool, mmio_tables>>
  <2>1. \A page \in PagesOf(op.base, op.offset + FrameSize) : mmio[page] # "unmapped"
    BY <1>1, <1>5, AtMmioPage, Zenon
  <2> QED
    BY <1>1, <1>2, <1>5, <2>1, MmioNextKeeps, Zenon
<1>6. ASSUME NEW linked \in SUBSET pool, pool' = pool \ linked, mmio_tables' = mmio_tables \cup linked,
             \/ mmio_next([mmio EXCEPT ![page0] = "mapped"])
             \/ Return("OUT_OF_MEMORY") /\ UNCHANGED mmio
      PROVE  IInv'
  <2>1. pool' \subseteq Frames /\ mmio_tables' \subseteq Frames
    BY <1>2, <1>6, Zenon
  <2>2. CASE Return("OUT_OF_MEMORY") /\ UNCHANGED mmio
    BY <1>3, <2>1, <2>2, Zenon
  <2>3. CASE mmio_next([mmio EXCEPT ![page0] = "mapped"])
    <3> DEFINE mapped == [mmio EXCEPT ![page0] = "mapped"]
    <3>1. mapped \in [MmioPages -> {"unmapped", "mapped", "granted"}]
      BY <1>2, Zenon
    <3>2. ASSUME NEW page \in PagesOf(op.base, op.offset + FrameSize) PROVE mapped[page] # "unmapped"
      <4>1. page \in PagesOf(op.base, op.offset) \/ page = page0
        BY <1>1, AtMmioPage, Zenon
      <4>2. page0 \in MmioPages
        BY <1>1, AtMmioPage, Zenon
      <4> QED
        BY <1>1, <1>2, <4>1, <4>2, AtMmioPage, SMTT(40)
    <3> HIDE DEF mapped
    <3>3. mmio_next(mapped)
      BY <2>3, Zenon DEF mapped
    <3> QED
      BY <1>1, <2>1, <3>1, <3>2, <3>3, MmioNextKeeps, Zenon
  <2> QED
    BY <1>6, <2>2, <2>3, Zenon
<1> QED
  BY <1>4, <1>5, <1>6, Zenon DEF mmio_step
-----------------------------------------------------------------------------
(***************************************************************************)
(* The theorems.                                                           *)
(***************************************************************************)

LEMMA InitIInv == Init => IInv
<1> SUFFICES ASSUME Init PROVE IInv
  BY Zenon
<1>1. op.kind = "idle" /\ op = Idle /\ m_count = 0 /\ Live = {}
  BY IdleType, SMTT(40) DEF Init, Live
<1>2. TypeOK
  BY <1>1, IdleType, Layout, Zenon DEF Init, TypeOK, Addresses
<1>3. Table /\ Backing /\ Freeing /\ MappingMmio
  BY <1>1, Zenon DEF Table, Backing, Freeing, MappingMmio
<1>4. \A va \in Window : mapping[va] = NotMapped /\ ~ Owned(va)
  BY <1>1, Zenon DEF Init, Owned
<1>5. MappedExactly
  BY <1>1, <1>2, <1>3, <1>4, PageByPage, InProgress, Zenon
<1> QED
  BY <1>1, <1>2, <1>3, <1>5, Zenon DEF IInv, WindowSound, ReleaseNeverPanics

LEMMA StutterKeeps == IInv /\ UNCHANGED vars => IInv'
<1> SUFFICES ASSUME IInv, UNCHANGED vars PROVE IInv'
  BY Zenon
<1>1. UNCHANGED <<m_allocations, m_count, mapping, pool, tables, mmio, mmio_tables, op, answer>>
  BY Zenon DEF vars, window_vars, mmio_vars
<1>2. WindowSound'
  BY <1>1 DEF IInv, WindowSound, TypeOK, MappedExactly, ReleaseNeverPanics, Backed, Live, Arriving, Leaving
<1>3. Table' /\ Backing' /\ Freeing' /\ MappingMmio'
  BY <1>1, Zenon DEF IInv, Table, Backing, Freeing, MappingMmio, AtPage, InGap, Live
<1> QED
  BY <1>2, <1>3, Zenon DEF IInv

LEMMA StepKeeps == IInv /\ Step => IInv'
  BY BackKeeps, ReleaseKeeps, MmioStepKeeps, Zenon DEF Step

LEMMA NextKeeps == IInv /\ [Next]_vars => IInv'
<1> SUFFICES ASSUME IInv, [Next]_vars PROVE IInv'
  BY Zenon
<1>1. CASE UNCHANGED mmio_vars /\ \E bytes \in Sizes, prot \in Prots : alloc(bytes, prot)
  BY <1>1, AllocKeeps, CallerAssumption, Zenon
<1>2. CASE UNCHANGED mmio_vars /\ \E ptr \in Window, bytes \in Sizes : free(ptr, bytes)
  BY <1>2, FreeKeeps, CallerAssumption, Zenon
<1>3. CASE UNCHANGED mmio_vars /\ \E ptr \in Window, bytes \in Sizes, prot \in Prots : protect(ptr, bytes, prot)
  <2>1. \A ptr \in Window : ptr \in Int
    BY DEF Window, PagesOf
  <2>2. \A bytes \in Sizes : bytes \in Int
    BY CallerAssumption DEF Addresses
  <2> QED
    BY <1>3, <2>1, <2>2, ProtectKeeps, Zenon
<1>4. CASE Step
  BY <1>4, StepKeeps, Zenon
<1>5. CASE \E pa \in 0 .. MmioSize, bytes \in Sizes : map_mmio(pa, bytes)
  BY <1>5, MapMmioKeeps, CallerAssumption, Zenon
<1>6. CASE UNCHANGED vars
  BY <1>6, StutterKeeps, Zenon
<1> QED
  BY <1>1, <1>2, <1>3, <1>4, <1>5, <1>6, Zenon DEF Next

\* The inductive invariant of the virtual memory manager (vmm.cpp): what each loop of an
\* operation that holds m_lock knows of the table and of the pages it has passed.
THEOREM Inductive == Spec => []IInv
  BY InitIInv, NextKeeps, PTL DEF Spec

\* The table of ranges and the page tables never drift apart, for any window, any number of
\* ranges and frames and any failures of back (vmm.cpp:64-101): a page is mapped exactly when a
\* range of the table has it, up to the operation in progress, and release (vmm.cpp:91) finds
\* what it is to unmap.
THEOREM WindowAlwaysSound == Spec => []WindowSound
  BY Inductive, PTL DEF IInv

\* The table stays sorted with a guard page behind every range, so the unsigned arithmetic of
\* find_gap (vmm.cpp:40-62) never wraps, for any window that starts above 0.
THEOREM TableSorted == Spec => []SortedWithGuards
<1>1. IInv => SortedWithGuards
  <2> SUFFICES ASSUME IInv PROVE SortedWithGuards
    BY Zenon
  <2>1. TypeOK /\ Table /\ m_count \in Nat
    BY DEF IInv, WindowSound, TypeOK
  <2>2. ASSUME NEW i \in Live PROVE m_allocations[i].bytes > 0 /\ gap_start(i) <= m_allocations[i].base
    <3>1. i \in 0 .. m_count /\ i # m_count
      BY <2>1 DEF Live
    <3>2. gap_start(i) <= gap_end(i) /\ gap_end(i) = m_allocations[i].base
      BY <2>1, <3>1, GapBounds, Zenon DEF gap_end
    <3> QED
      BY <2>1, <3>2, Zenon DEF Table, Placed
  <2>3. gap_start(m_count) <= VmallocEnd
    <3>1. gap_start(m_count) <= gap_end(m_count) /\ gap_end(m_count) = VmallocEnd
      BY <2>1, GapBounds, SMTT(40) DEF gap_end
    <3> QED
      BY <3>1, Zenon
  <2> QED
    BY <2>2, <2>3, Zenon DEF SortedWithGuards
<1> QED
  BY <1>1, Inductive, PTL

\* No operation other than back and release, which hold the lock for more than a step, changes
\* a mapping but protect, and protect (vmm.cpp:160-181) changes all of its range or nothing.
THEOREM ProtectWhole == Spec => ProtectAllOrNothing
<1> DEFINE Whole == op = Idle /\ op' = Idle =>
                      /\ answer' # "NOT_MAPPED"
                      /\ mapping' # mapping => answer' = "ok"
                      /\ \A va \in Window : mapping'[va].frame = mapping[va].frame
<1>1. ASSUME IInv, Next, op = Idle, op' = Idle
      PROVE  /\ answer' # "NOT_MAPPED"
             /\ mapping' # mapping => answer' = "ok"
             /\ \A va \in Window : mapping'[va].frame = mapping[va].frame
  <2>1. ASSUME NEW result \in {"INVALID_ADDRESS", "OUT_OF_MEMORY"}, Refuse(result)
        PROVE  UNCHANGED mapping /\ answer' # "NOT_MAPPED"
    BY <2>1, Zenon DEF Refuse, Return, window_vars
  <2>2. ASSUME NEW bytes, NEW prot, alloc(bytes, prot)
        PROVE  UNCHANGED mapping /\ answer' # "NOT_MAPPED"
    <3>1. \A b, n, i : op' # [Idle EXCEPT !.kind = "back", !.base = b, !.bytes = n, !.index = i, !.prot = prot]
      BY <1>1, Zenon DEF Idle
    <3>2. Refuse("INVALID_ADDRESS") \/ Refuse("OUT_OF_MEMORY")
      <4>1. \/ Refuse("INVALID_ADDRESS") \/ Refuse("OUT_OF_MEMORY")
            \/ op' = [Idle EXCEPT !.kind = "back", !.base = gap_start(find_gap(align_up(bytes))),
                                  !.bytes = align_up(bytes), !.index = find_gap(align_up(bytes)), !.prot = prot]
        BY <2>2, Zenon DEF alloc
      <4> QED
        BY <3>1, <4>1, Zenon
    <3> QED
      BY <3>2, Zenon DEF Refuse, Return, window_vars
  <2>3. ASSUME NEW ptr, NEW bytes, free(ptr, bytes)
        PROVE  UNCHANGED mapping /\ answer' # "NOT_MAPPED"
    <3>1. \A b, n, i : op' # [Idle EXCEPT !.kind = "free", !.base = b, !.bytes = n, !.index = i]
      BY <1>1, Zenon DEF Idle
    <3> DEFINE found == {i \in Live : m_allocations[i].base = ptr}
               index == CHOOSE i \in found : \A j \in found : i <= j
               entry == m_allocations[index]
    <3>2. \/ Refuse("INVALID_ADDRESS")
          \/ op' = [Idle EXCEPT !.kind = "free", !.base = entry.base, !.bytes = entry.bytes, !.index = index]
      BY <2>3, Zenon DEF free
    <3> HIDE DEF found, index, entry
    <3>3. Refuse("INVALID_ADDRESS")
      BY <3>1, <3>2, Zenon
    <3> QED
      BY <3>3, Zenon DEF Refuse, Return, window_vars
  <2>4. ASSUME NEW pa, NEW bytes, map_mmio(pa, bytes)
        PROVE  UNCHANGED mapping /\ answer' # "NOT_MAPPED"
    <3>1. \A b, n : op' # [Idle EXCEPT !.kind = "mmio", !.base = b, !.bytes = n]
      BY <1>1, Zenon DEF Idle
    <3>2. \/ Refuse("INVALID_ADDRESS")
          \/ \E b, n : op' = [Idle EXCEPT !.kind = "mmio", !.base = b, !.bytes = n]
      BY <2>4, Zenon DEF map_mmio
    <3>3. Refuse("INVALID_ADDRESS")
      BY <3>1, <3>2, Zenon
    <3> QED
      BY <3>3, Zenon DEF Refuse, Return, window_vars
  <2>5. ASSUME NEW ptr \in Window, NEW bytes \in Sizes, NEW prot \in Prots, protect(ptr, bytes, prot)
        PROVE  /\ answer' # "NOT_MAPPED"
               /\ mapping' # mapping => answer' = "ok"
               /\ \A va \in Window : mapping'[va].frame = mapping[va].frame
    <3>1. ptr \in Int /\ bytes \in Int
      BY CallerAssumption DEF Window, PagesOf, Addresses
    <3>2. CASE Refuse("INVALID_ADDRESS")
      BY <2>1, <3>2, Zenon
    <3>3. CASE ~ Refuse("INVALID_ADDRESS")
      <4> DEFINE pages == PagesOf(ptr, align_up((ptr + bytes) % Space) - ptr)
      <4>1. /\ mapping' = [va \in Window |-> IF va \in pages THEN [mapping[va] EXCEPT !.prot = prot]
                                             ELSE mapping[va]]
            /\ answer' = "ok"
            /\ pages \subseteq {va \in Window : mapping[va] # NotMapped}
        BY <1>1, <2>5, <3>1, <3>3, ProtectEffect, Zenon
      <4> HIDE DEF pages
      <4>2. ASSUME NEW va \in Window PROVE mapping'[va].frame = mapping[va].frame
        <5>1. mapping[va] \in [frame : Frames, prot : Prots] \cup {NotMapped}
          BY <1>1, Zenon DEF IInv, WindowSound, TypeOK
        <5>2. CASE va \in pages
          <6>1. mapping[va] \in [frame : Frames, prot : Prots]
            BY <4>1, <5>1, <5>2, Zenon
          <6> QED
            BY <4>1, <5>2, <6>1, Zenon
        <5>3. CASE va \notin pages
          BY <4>1, <5>3, Zenon
        <5> QED
          BY <5>2, <5>3, Zenon
      <4> QED
        BY <4>1, <4>2, Zenon
    <3> QED
      BY <3>2, <3>3, Zenon
  <2>6. ~ Step
    BY <1>1, IdleType, Zenon DEF Step, back, release, mmio_step
  <2> QED
    BY <1>1, <2>2, <2>3, <2>4, <2>5, <2>6, Zenon DEF Next
<1>2. IInv /\ [Next]_vars => [Whole]_vars
  BY <1>1, Zenon
<1> QED
  BY <1>2, Inductive, PTL DEF Spec, ProtectAllOrNothing
-----------------------------------------------------------------------------
(***************************************************************************)
(* The frames.                                                             *)
(***************************************************************************)

Used == {va \in Window : mapping[va] # NotMapped}

\* No frame has two places, and every frame has one.
FramesApart ==
    /\ \A va, other \in Used : mapping[va].frame = mapping[other].frame => va = other
    /\ \A va \in Used : mapping[va].frame \notin pool \cup tables \cup mmio_tables
    /\ pool \cap tables = {} /\ pool \cap mmio_tables = {} /\ tables \cap mmio_tables = {}
    /\ \A frame \in Frames : \/ frame \in pool \cup tables \cup mmio_tables
                             \/ \E va \in Used : mapping[va].frame = frame

LEMMA FramesKept ==
    ASSUME FramesApart, UNCHANGED <<mapping, pool, tables, mmio_tables>>
    PROVE  FramesApart'
  BY Zenon DEF FramesApart, Used

\* Page tables are linked and unlinked with frames of the pool; the mapping stays.
LEMMA TablesMove ==
    ASSUME FramesApart, UNCHANGED mapping,
           pool' \cup tables' \cup mmio_tables' = pool \cup tables \cup mmio_tables,
           pool' \cap tables' = {}, pool' \cap mmio_tables' = {}, tables' \cap mmio_tables' = {}
    PROVE  FramesApart'
  BY Zenon DEF FramesApart, Used

LEMMA BackFrames ==
    ASSUME IInv, FramesApart, back, UNCHANGED mmio_vars
    PROVE  FramesApart'
<1> DEFINE va0 == op.base + op.offset
<1>1. op.kind = "back" /\ TypeOK /\ mmio_tables' = mmio_tables
  BY Zenon DEF back, IInv, WindowSound, mmio_vars
<1>2. CASE UNCHANGED <<m_allocations, m_count, mapping, pool, tables>>
  BY <1>1, <1>2, FramesKept, Zenon
<1>3. ASSUME NEW frame \in pool, NEW linked \in SUBSET (pool \ {frame}), linked = pool \ {frame},
             map_failed(frame, linked)
      PROVE  FramesApart'
  <2>1. UNCHANGED mapping /\ pool' = {frame} /\ tables' = tables \cup linked
    BY <1>3, Zenon DEF map_failed
  <2>2. pool' \cup tables' \cup mmio_tables' = pool \cup tables \cup mmio_tables
    BY <1>1, <1>3, <2>1, Zenon
  <2>3. pool \cap tables = {} /\ pool \cap mmio_tables = {} /\ tables \cap mmio_tables = {}
    BY Zenon DEF FramesApart
  <2>4. pool' \cap tables' = {} /\ pool' \cap mmio_tables' = {} /\ tables' \cap mmio_tables' = {}
    BY <1>1, <1>3, <2>1, <2>3, Zenon
  <2> QED
    BY <2>1, <2>2, <2>4, TablesMove, Zenon
<1>4. ASSUME NEW frame \in pool, NEW linked \in SUBSET (pool \ {frame}), mapping[va0] = NotMapped,
             map_succeeded(va0, frame, linked)
      PROVE  FramesApart'
  <2>1. /\ mapping' = [mapping EXCEPT ![va0] = [frame |-> frame, prot |-> op.prot]]
        /\ pool' = pool \ ({frame} \cup linked) /\ tables' = tables \cup linked
    BY <1>4, Zenon DEF map_succeeded
  <2>2. va0 \in Window /\ op.prot \in Prots
    BY <1>1, Zenon DEF IInv, Backing, TypeOK
  <2>3. va0 \notin Used /\ Used' = Used \cup {va0}
    <3>1. [frame |-> frame, prot |-> op.prot] # NotMapped
      BY <2>2, CallerAssumption, Zenon DEF NotMapped
    <3> HIDE DEF va0
    <3> QED
      BY <1>1, <1>4, <2>1, <2>2, <3>1, SMTT(40) DEF Used, TypeOK
  <2>4. \A va \in Used : mapping'[va] = mapping[va]
    BY <1>1, <2>1, <2>3, Zenon DEF Used, TypeOK
  <2>5. mapping'[va0].frame = frame
    BY <1>1, <2>1, <2>2, Zenon DEF TypeOK
  <2> HIDE DEF va0
  <2>6. ASSUME NEW va \in Used', NEW other \in Used', mapping'[va].frame = mapping'[other].frame
        PROVE  va = other
    BY <2>3, <2>4, <2>5, <2>6, Zenon DEF FramesApart
  <2>7. \A va \in Used' : mapping'[va].frame \notin pool' \cup tables' \cup mmio_tables'
    BY <1>1, <2>1, <2>3, <2>4, <2>5, SMTT(40) DEF FramesApart
  <2>8. pool' \cap tables' = {} /\ pool' \cap mmio_tables' = {} /\ tables' \cap mmio_tables' = {}
    BY <1>1, <2>1, Zenon DEF FramesApart
  <2>9. ASSUME NEW f \in Frames
        PROVE  \/ f \in pool' \cup tables' \cup mmio_tables'
               \/ \E va \in Used' : mapping'[va].frame = f
    BY <1>1, <2>1, <2>3, <2>4, <2>5, SMTT(40) DEF FramesApart
  <2> QED
    BY <2>6, <2>7, <2>8, <2>9, Zenon DEF FramesApart
<1> QED
  BY <1>2, <1>3, <1>4, Zenon DEF back

LEMMA ReleaseFrames ==
    ASSUME IInv, FramesApart, release, UNCHANGED mmio_vars
    PROVE  FramesApart'
<1> DEFINE va0 == op.base + op.offset
<1>1. /\ op.kind \in {"release", "free"} /\ mapping[va0] # NotMapped /\ va0 \in Window
      /\ mmio_tables' = mmio_tables /\ TypeOK
  BY ReleaseFindsPage, Releasing, Zenon DEF release, mmio_vars, IInv, WindowSound
<1>2. mapping' = [mapping EXCEPT ![va0] = NotMapped]
  BY ReleaseTypes, Zenon
<1>3. PICK pruned \in SUBSET tables : /\ pool' = pool \cup {mapping[va0].frame} \cup pruned
                                      /\ tables' = tables \ pruned
  BY <1>1, Zenon DEF release
<1> HIDE DEF va0
<1>4. va0 \in Used /\ Used' = Used \ {va0} /\ \A va \in Used' : mapping'[va] = mapping[va]
  BY <1>1, <1>2, Zenon DEF Used, TypeOK
<1>5. \A va, other \in Used' : mapping'[va].frame = mapping'[other].frame => va = other
  BY <1>4 DEF FramesApart
<1>6. \A va \in Used' : mapping'[va].frame \notin pool' \cup tables' \cup mmio_tables'
  BY <1>1, <1>3, <1>4, Zenon DEF FramesApart
<1>7. pool' \cap tables' = {} /\ pool' \cap mmio_tables' = {} /\ tables' \cap mmio_tables' = {}
  BY <1>1, <1>3, <1>4 DEF FramesApart
<1>8. \A f \in Frames : \/ f \in pool' \cup tables' \cup mmio_tables'
                        \/ \E va \in Used' : mapping'[va].frame = f
  BY <1>1, <1>3, <1>4, Zenon DEF FramesApart
<1> QED
  BY <1>5, <1>6, <1>7, <1>8, Zenon DEF FramesApart

LEMMA MmioFrames ==
    ASSUME FramesApart, mmio_step
    PROVE  FramesApart'
<1>1. UNCHANGED <<mapping, tables>>
  BY Zenon DEF mmio_step, window_vars
<1>2. CASE UNCHANGED <<pool, mmio_tables>>
  BY <1>1, <1>2, FramesKept, Zenon
<1>3. CASE \E linked \in SUBSET pool : pool' = pool \ linked /\ mmio_tables' = mmio_tables \cup linked
  BY <1>1, <1>3, TablesMove, Zenon DEF FramesApart
<1> QED
  BY <1>2, <1>3, Zenon DEF mmio_step, mmio_vars

LEMMA ProtectFrames ==
    ASSUME IInv, FramesApart, NEW ptr \in Int, NEW bytes \in Int, NEW prot \in Prots,
           protect(ptr, bytes, prot), UNCHANGED mmio_vars
    PROVE  FramesApart'
<1> DEFINE pages == PagesOf(ptr, align_up((ptr + bytes) % Space) - ptr)
<1>1. CASE Refuse("INVALID_ADDRESS")
  BY <1>1, FramesKept, Zenon DEF Refuse, window_vars, mmio_vars
<1>2. CASE /\ mapping' = [va \in Window |-> IF va \in pages THEN [mapping[va] EXCEPT !.prot = prot]
                                            ELSE mapping[va]]
           /\ pages \subseteq {va \in Window : mapping[va] # NotMapped}
           /\ UNCHANGED <<pool, tables>>
  <2> HIDE DEF pages
  <2>1. ASSUME NEW va \in Window
        PROVE  /\ mapping'[va] # NotMapped <=> mapping[va] # NotMapped
               /\ mapping[va] # NotMapped => mapping'[va].frame = mapping[va].frame
    <3>1. mapping[va] \in [frame : Frames, prot : Prots] \cup {NotMapped}
      BY Zenon DEF IInv, WindowSound, TypeOK
    <3>2. CASE va \in pages
      <4>1. mapping[va] # NotMapped /\ mapping'[va] = [mapping[va] EXCEPT !.prot = prot]
        BY <1>2, <3>2, Zenon
      <4>2. mapping'[va] \in [frame : Frames, prot : Prots] /\ mapping'[va].frame = mapping[va].frame
        BY <3>1, <4>1, Zenon
      <4>3. mapping'[va] # NotMapped
        BY <4>2, CallerAssumption, SMTT(40) DEF NotMapped
      <4> QED
        BY <4>1, <4>2, <4>3, Zenon
    <3>3. CASE va \notin pages
      BY <1>2, <3>3, Zenon
    <3> QED
      BY <3>2, <3>3, Zenon
  <2>2. Used' = Used
    BY <2>1, Zenon DEF Used
  <2>3. \A va \in Used : mapping'[va].frame = mapping[va].frame
    BY <2>1, Zenon DEF Used
  <2> QED
    BY <1>2, <2>2, <2>3 DEF FramesApart, mmio_vars
<1> QED
  BY <1>1, <1>2, ProtectEffect

\* alloc, free and map_mmio only begin; they leave all frames where they are.
LEMMA BeginFrames ==
    ASSUME FramesApart,
           \/ UNCHANGED mmio_vars /\ \E bytes, prot : alloc(bytes, prot)
           \/ UNCHANGED mmio_vars /\ \E ptr, bytes : free(ptr, bytes)
           \/ \E pa, bytes : map_mmio(pa, bytes)
    PROVE  FramesApart'
<1>1. UNCHANGED <<mapping, pool, tables, mmio_tables>>
  <2>1. \A result : Refuse(result) => UNCHANGED <<mapping, pool, tables>>
    BY Zenon DEF Refuse, window_vars
  <2>2. ASSUME NEW bytes, NEW prot, alloc(bytes, prot) PROVE UNCHANGED <<mapping, pool, tables>>
    BY <2>1, <2>2, Zenon DEF alloc
  <2>3. ASSUME NEW ptr, NEW bytes, free(ptr, bytes) PROVE UNCHANGED <<mapping, pool, tables>>
    BY <2>1, <2>3, Zenon DEF free
  <2>4. ASSUME NEW pa, NEW bytes, map_mmio(pa, bytes) PROVE UNCHANGED <<mapping, pool, tables, mmio_tables>>
    BY <2>1, <2>4, Zenon DEF map_mmio, window_vars, mmio_vars
  <2> QED
    BY <2>2, <2>3, <2>4, Zenon DEF mmio_vars
<1> QED
  BY <1>1, FramesKept, Zenon

LEMMA NextFrames == IInv /\ FramesApart /\ [Next]_vars => FramesApart'
<1> SUFFICES ASSUME IInv, FramesApart, [Next]_vars PROVE FramesApart'
  BY Zenon
<1>1. CASE UNCHANGED mmio_vars /\ \E bytes \in Sizes, prot \in Prots : alloc(bytes, prot)
  BY <1>1, BeginFrames, Zenon
<1>2. CASE UNCHANGED mmio_vars /\ \E ptr \in Window, bytes \in Sizes : free(ptr, bytes)
  BY <1>2, BeginFrames, Zenon
<1>3. CASE UNCHANGED mmio_vars /\ \E ptr \in Window, bytes \in Sizes, prot \in Prots : protect(ptr, bytes, prot)
  <2>1. \A ptr \in Window : ptr \in Int
    BY DEF Window, PagesOf
  <2>2. \A bytes \in Sizes : bytes \in Int
    BY CallerAssumption DEF Addresses
  <2> QED
    BY <1>3, <2>1, <2>2, ProtectFrames, Zenon
<1>4. CASE Step
  BY <1>4, BackFrames, ReleaseFrames, MmioFrames, Zenon DEF Step
<1>5. CASE \E pa \in 0 .. MmioSize, bytes \in Sizes : map_mmio(pa, bytes)
  BY <1>5, BeginFrames, Zenon
<1>6. CASE UNCHANGED vars
  BY <1>6, FramesKept, Zenon DEF vars, window_vars, mmio_vars
<1> QED
  BY <1>1, <1>2, <1>3, <1>4, <1>5, <1>6, Zenon DEF Next

\* Frames that have one place each are counted by the sizes of the places.
LEMMA FramesCounted == TypeOK /\ FramesApart => FramesConserved
<1> SUFFICES ASSUME TypeOK, FramesApart PROVE FramesConserved
  BY Zenon
<1> DEFINE behind == {mapping[va].frame : va \in Used}
           where == [va \in Used |-> mapping[va].frame]
<1>1. \A va \in Used : va \in Window /\ mapping[va].frame \in Frames
  BY Zenon DEF Used, TypeOK
<1>2. /\ pool \subseteq Frames /\ tables \subseteq Frames /\ mmio_tables \subseteq Frames
      /\ behind \subseteq Frames
  BY <1>1 DEF TypeOK
<1>3. pool \cup tables \cup mmio_tables \cup behind = Frames
  BY <1>2, SMTT(40) DEF FramesApart
<1>4. /\ pool \cap tables = {} /\ (pool \cup tables) \cap mmio_tables = {}
      /\ (pool \cup tables \cup mmio_tables) \cap behind = {}
  BY DEF FramesApart
<1>5. IsFiniteSet(Used)
  <2>1. IsFiniteSet(VmallocBase .. VmallocBase + VmallocSize - 1)
    BY Layout, FS_Interval
  <2>2. Used \subseteq VmallocBase .. VmallocBase + VmallocSize - 1
    BY Zenon DEF Used, Window, PagesOf
  <2> QED
    BY <2>1, <2>2, FS_Subset, Zenon
<1>6. where \in Bijection(Used, behind)
  <2>1. where \in [Used -> behind]
    BY Zenon
  <2>2. \A va, other \in Used : where[va] = where[other] => va = other
    BY Zenon DEF FramesApart
  <2>3. \A f \in behind : \E va \in Used : where[va] = f
    BY Zenon
  <2> HIDE DEF where, behind
  <2> QED
    BY <2>1, <2>2, <2>3, Zenon DEF Bijection, Injection, Surjection, IsInjective
<1> HIDE DEF behind
<1>7. Cardinality(Used) = Cardinality(behind)
  <2>1. ExistsBijection(Used, behind)
    BY <1>6, Zenon DEF ExistsBijection
  <2> QED
    BY <1>5, <2>1, FS_Bijection, Zenon
<1>8. IsFiniteSet(Frames) /\ IsFiniteSet(pool) /\ IsFiniteSet(tables) /\ IsFiniteSet(mmio_tables) /\ IsFiniteSet(behind)
  BY <1>2, CallerAssumption, FS_Subset, Zenon
<1>9. /\ IsFiniteSet(pool \cup tables)
      /\ Cardinality(pool \cup tables) = Cardinality(pool) + Cardinality(tables)
  <2>1. IsFiniteSet(pool \cup tables) /\ Cardinality(pool \cup tables) = Cardinality(pool) + Cardinality(tables) - 0
    BY <1>4, <1>8, FS_Union, FS_EmptySet, SMTT(40)
  <2> QED
    BY <1>8, <2>1, FS_CardinalityType
<1>10. /\ IsFiniteSet(pool \cup tables \cup mmio_tables)
       /\ Cardinality(pool \cup tables \cup mmio_tables) = Cardinality(pool \cup tables) + Cardinality(mmio_tables)
  <2>1. /\ IsFiniteSet(pool \cup tables \cup mmio_tables)
        /\ Cardinality(pool \cup tables \cup mmio_tables)
             = Cardinality(pool \cup tables) + Cardinality(mmio_tables) - 0
    BY <1>4, <1>8, <1>9, FS_Union, FS_EmptySet, SMTT(40)
  <2> QED
    BY <1>8, <1>9, <2>1, FS_CardinalityType
<1>11. Cardinality(pool \cup tables \cup mmio_tables \cup behind)
         = Cardinality(pool \cup tables \cup mmio_tables) + Cardinality(behind)
  <2>1. Cardinality(pool \cup tables \cup mmio_tables \cup behind)
          = Cardinality(pool \cup tables \cup mmio_tables) + Cardinality(behind) - 0
    BY <1>4, <1>8, <1>10, FS_Union, FS_EmptySet, SMTT(40)
  <2> QED
    BY <1>8, <1>10, <2>1, FS_CardinalityType, SMTT(40)
<1>12. Cardinality(pool) + Cardinality(tables) + Cardinality(mmio_tables) + Cardinality(behind) = Cardinality(Frames)
  BY <1>3, <1>9, <1>10, <1>11, Zenon
<1> QED
  BY <1>3, <1>7, <1>12, Zenon DEF FramesConserved, Used, behind

LEMMA FramesInductive == Spec => []FramesApart
<1>1. Init => FramesApart
  BY Zenon DEF Init, FramesApart, Used
<1> QED
  BY <1>1, Inductive, NextFrames, PTL DEF Spec

\* No frame is lost or handed out twice, whatever back, release and map_range do to the page
\* tables and wherever back fails (vmm.cpp:64-101): every frame is free, a page table, or behind
\* exactly one page.
THEOREM FramesAccounted == Spec => []FramesConserved
<1>1. IInv => TypeOK
  BY Zenon DEF IInv, WindowSound
<1> QED
  BY <1>1, Inductive, FramesInductive, FramesCounted, PTL
-----------------------------------------------------------------------------
(***************************************************************************)
(* The MMIO window.                                                        *)
(***************************************************************************)

\* A step that ends map_mmio says the truth about the range.
LEMMA MmioAnswerTrue ==
    ASSUME IInv, op.kind = "mmio", mmio_step, op' = Idle
    PROVE  /\ answer' = "ok" => \A page \in MmioRange : mmio'[page] = "granted"
           /\ answer' = "CONFLICT" => \E page \in MmioRange : mmio[page] = "granted"
           /\ answer' = "OUT_OF_MEMORY" => pool' = {} /\ \E page \in MmioRange : mmio'[page] = "unmapped"
<1> DEFINE page0 == op.base + op.offset
<1>1. page0 \in MmioRange /\ MmioRange \subseteq MmioPages
  BY AtMmioPage, Zenon
<1>2. mmio \in [MmioPages -> {"unmapped", "mapped", "granted"}]
  BY Zenon DEF IInv, WindowSound, TypeOK
<1>3. CASE mmio[page0] = "granted" /\ Return("CONFLICT")
  BY <1>1, <1>3, Zenon DEF Return
<1>4. CASE \E linked \in SUBSET pool : /\ pool' = pool \ linked /\ linked = pool
                                       /\ Return("OUT_OF_MEMORY") /\ mmio[page0] = "unmapped" /\ UNCHANGED mmio
  <2>1. pool' = {} /\ answer' = "OUT_OF_MEMORY" /\ mmio'[page0] = "unmapped"
    BY <1>4, Zenon DEF Return
  <2> QED
    BY <1>1, <2>1, Zenon
<1>5. ASSUME NEW mapped \in [MmioPages -> {"unmapped", "mapped", "granted"}],
             \A page \in PagesOf(op.base, op.offset + FrameSize) : mapped[page] # "unmapped",
             mmio_next(mapped)
      PROVE  answer' = "ok" /\ \A page \in MmioRange : mmio'[page] = "granted"
  <2>1. op' # [op EXCEPT !.offset = @ + FrameSize]
    <3>1. op'.kind = "idle"
      BY IdleType, Zenon
    <3>2. [op EXCEPT !.offset = @ + FrameSize].kind = "mmio"
      BY Zenon DEF IInv, WindowSound, TypeOK
    <3> QED
      BY <3>1, <3>2, Zenon
  <2>2. /\ ~ (op.offset + FrameSize < op.bytes) /\ answer' = "ok"
        /\ mmio' = [page \in MmioPages |->
                      IF page \in MmioRange /\ mapped[page] = "mapped" THEN "granted" ELSE mapped[page]]
    BY <1>5, <2>1, Zenon DEF mmio_next, Return
  <2>3. PagesOf(op.base, op.offset + FrameSize) = MmioRange
    <3>1. op.offset + FrameSize = op.bytes
      BY <2>2, AtMmioPage, Layout, SMTT(40)
    <3> QED
      BY <3>1, Zenon DEF MmioRange
  <2> QED
    BY <1>1, <1>5, <2>2, <2>3, Zenon
<1>6. CASE mmio[page0] \in {"mapped", "granted"} /\ mmio_next(mmio)
  <2>1. \A page \in PagesOf(op.base, op.offset + FrameSize) : mmio[page] # "unmapped"
    BY <1>6, AtMmioPage, Zenon
  <2> QED
    BY <1>2, <1>5, <1>6, <2>1, Zenon
<1>7. CASE mmio_next([mmio EXCEPT ![page0] = "mapped"])
  <2> DEFINE mapped == [mmio EXCEPT ![page0] = "mapped"]
  <2>1. mapped \in [MmioPages -> {"unmapped", "mapped", "granted"}]
    BY <1>2, Zenon
  <2>2. ASSUME NEW page \in PagesOf(op.base, op.offset + FrameSize) PROVE mapped[page] # "unmapped"
    <3>1. page \in PagesOf(op.base, op.offset) \/ page = page0
      BY AtMmioPage, Zenon
    <3> QED
      BY <1>1, <1>2, <3>1, AtMmioPage, SMTT(40)
  <2> HIDE DEF mapped
  <2>3. mmio_next(mapped)
    BY <1>7, Zenon DEF mapped
  <2> QED
    BY <1>5, <2>1, <2>2, <2>3, Zenon
<1> QED
  BY <1>3, <1>4, <1>6, <1>7, Zenon DEF mmio_step

\* map_mmio (vmm.cpp:185-207) hands out a pointer only when all of the range is mapped, answers
\* CONFLICT only when a page of it was handed out before, and OUT_OF_MEMORY only when no frame
\* is left and a page is missing, after any calls that failed half way.
THEOREM MmioAnswersTrue == Spec => MmioAnswers
<1> DEFINE True == op.kind = "mmio" /\ op' = Idle =>
                     /\ answer' = "ok" => \A page \in MmioRange : mmio'[page] = "granted"
                     /\ answer' = "CONFLICT" => \E page \in MmioRange : mmio[page] = "granted"
                     /\ answer' = "OUT_OF_MEMORY" => pool' = {} /\ \E page \in MmioRange : mmio'[page] = "unmapped"
<1>1. ASSUME Next, op.kind = "mmio" PROVE mmio_step
  <2>1. op # Idle
    BY <1>1, IdleType, Zenon
  <2> QED
    BY <1>1, <2>1, Zenon DEF Next, Step, alloc, free, protect, map_mmio, back, release
<1>2. IInv /\ [Next]_vars => [True]_vars
  BY <1>1, MmioAnswerTrue, Zenon
<1> QED
  BY <1>2, Inductive, PTL DEF Spec, MmioAnswers
-----------------------------------------------------------------------------
(***************************************************************************)
(* mmap, munmap and mprotect: the invariant of Vmm holds for these callers *)
(* as well, and mmap and mprotect keep what they promise, for every        *)
(* window, page size and interleaving with the other cores.                *)
(***************************************************************************)

\* The table has the range.
Held(base, bytes) == \E i \in Live : m_allocations[i] = [base |-> base, bytes |-> bytes]

Writable(pages) == \A va \in pages : mapping[va].prot = "data"

\* The range is in the table, can be written, and is not being given back.
Hold(base, bytes) ==
    /\ Held(base, bytes)
    /\ Writable(PagesOf(base, bytes))
    /\ op.kind = "free" => op.base # base

\* The allocation of mmap is the operation in progress and what it has mapped can be written,
\* or it failed and is being undone.
Allocating ==
    \/ /\ op.kind = "back" /\ op.prot = "data"
       /\ op.base = caller.base /\ op.bytes = align_up(caller.length)
       /\ Writable(PagesOf(op.base, op.offset))
    \/ op.kind = "release" /\ op.result # "ok"

\* What mmap relies on, also while the lock of the virtual memory manager is not its own.
CallerInv ==
    \/ caller = NoCaller
    \/ /\ caller \in [phase : {"alloc", "zero", "drop"}, base : Int, length : Sizes \ {0}, request : Requests]
       /\ caller.length <= VmallocSize
       /\ caller.phase = "alloc" => Allocating
       /\ caller.phase = "drop" => "WRITE" \notin caller.request
       /\ caller.phase # "alloc" => Hold(caller.base, align_up(caller.length))
-----------------------------------------------------------------------------
(***************************************************************************)
(* The invariants of Vmm hold under these callers.                         *)
(***************************************************************************)

\* What the two conversions make of a request.
LEMMA Conversions ==
    ASSUME NEW request
    PROVE  /\ dropped(request) \in Prots /\ page_prot(request) \in Prots
           /\ ~ Writes(dropped(request)) /\ (Executes(dropped(request)) <=> "EXEC" \in request)
           /\ Writes(page_prot(request)) <=> "WRITE" \in request
           /\ Executes(page_prot(request)) <=> "EXEC" \in request
           /\ Writes("data") /\ ~ Executes("data")
  BY DataAssumption DEF dropped, page_prot, Writes, Executes

\* A page table entry keeps its frame when its protection changes.
LEMMA EntryChanged ==
    ASSUME IInv, NEW va \in Window, NEW prot
    PROVE  /\ [mapping[va] EXCEPT !.prot = prot].frame = mapping[va].frame
           /\ [mapping[va] EXCEPT !.prot = prot].prot = prot
<1>1. mapping[va] \in [frame : Frames, prot : Prots] \/ mapping[va] = [frame |-> "none", prot |-> "none"]
  BY DEF IInv, WindowSound, TypeOK, NotMapped
<1> QED
  BY <1>1

\* An address in a page of the window, and the page it is in.
LEMMA PartOfPage ==
    ASSUME NEW page \in Window, NEW part \in 0 .. FrameSize - 1
    PROVE  /\ page \in Nat /\ Aligned(page) /\ VmallocBase <= page /\ page < VmallocEnd
           /\ page + part \in Nat /\ align_down(page + part) = page
<1>1. page \in Int /\ VmallocBase <= page /\ page < VmallocEnd /\ Aligned(page)
  BY Layout, Pages DEF Window
<1>2. page \in Nat /\ page + part \in Nat /\ part \in Nat /\ part < FrameSize
  BY <1>1, Layout
<1>3. /\ align_down(page + part) \in Nat /\ Aligned(align_down(page + part))
      /\ align_down(page + part) <= page + part /\ page + part < align_down(page + part) + FrameSize
  BY <1>2, AlignDown, Zenon
<1> DEFINE down == align_down(page + part)
<1> HIDE DEF down
<1>4. down \in Nat /\ Aligned(down) /\ down <= page + part /\ page + part < down + FrameSize
  BY <1>3, Zenon DEF down
<1>5. ~ (down < page)
  BY <1>1, <1>2, <1>4, AlignedStep, Layout
<1>6. ~ (page < down)
  BY <1>1, <1>2, <1>4, AlignedStep, Layout
<1>7. down = page
  BY <1>2, <1>4, <1>5, <1>6
<1> QED
  BY <1>1, <1>2, <1>7, Zenon DEF down

\* mprotect refuses the request or passes whole pages on to protect.
LEMMA MprotectIsProtect ==
    ASSUME NEW page \in Window, NEW part \in 0 .. FrameSize - 1, NEW length \in Sizes, NEW request,
           mprotect(page + part, length, request)
    PROVE  \/ op = Idle /\ Refuse("INVALID_ADDRESS")
           \/ \E bytes \in Int, prot \in Prots :
                 /\ bytes = (align_up((page + part + length) % Space) - page) % Space
                 /\ prot = page_prot(request)
                 /\ protect(page, bytes, prot)
<1>1. align_down(page + part) = page /\ page \in Nat /\ page + part \in Nat
  BY PartOfPage, Zenon
<1>2. length \in Int /\ Space \in Nat /\ Space > 0
  BY CallerAssumption, Layout DEF Addresses
<1>3. (page + part + length) % Space \in Int
  BY <1>1, <1>2
<1>4. align_up((page + part + length) % Space) \in Int
  BY <1>3, AlignUpType DEF Addresses
<1>5. (align_up((page + part + length) % Space) - page) % Space \in Int
  BY <1>1, <1>2, <1>4
<1>6. page_prot(request) \in Prots
  BY Conversions, Zenon
<1> QED
  BY <1>1, <1>5, <1>6, Zenon DEF mprotect

LEMMA CallerTypes ==
    ASSUME CallerInv, caller.phase # "none"
    PROVE  /\ caller.base \in Int /\ caller.length \in Nat \ {0} /\ caller.length \in Addresses
           /\ caller.length <= VmallocSize /\ caller.request \in Requests
           /\ caller.phase \in {"alloc", "zero", "drop"} /\ caller # NoCaller
<1>1. NoCaller.phase = "none"
  BY Zenon DEF NoCaller
<1>2. /\ caller \in [phase : {"alloc", "zero", "drop"}, base : Int, length : Sizes \ {0}, request : Requests]
      /\ caller.length <= VmallocSize
  BY <1>1, Zenon DEF CallerInv
<1>3. /\ caller.phase \in {"alloc", "zero", "drop"} /\ caller.base \in Int
      /\ caller.length \in Sizes /\ caller.length # 0 /\ caller.request \in Requests
  BY <1>2, Zenon
<1>4. caller.length \in Addresses
  BY <1>3, CallerAssumption, Zenon
<1>6. caller.length \in Nat
  BY <1>4, Layout DEF Addresses
<1>5. caller # NoCaller
  BY <1>1, Zenon
<1> QED
  BY <1>2, <1>3, <1>4, <1>5, <1>6, Zenon

LEMMA PosixKeeps == IInv /\ CallerInv /\ [PosixNext]_posix_vars => IInv'
<1> SUFFICES ASSUME IInv, CallerInv, [PosixNext]_posix_vars PROVE IInv'
  BY Zenon
<1>1. CASE page_step
  BY <1>1, StepKeeps, Zenon DEF page_step
<1>2. ASSUME NEW valid \in BOOLEAN, NEW length \in Sizes, NEW request, mmap(valid, length, request), UNCHANGED mmio_vars
      PROVE  IInv'
  <2>1. CASE alloc(length, "data")
    <3>1. "data" \in Prots
      BY DataAssumption
    <3> QED
      BY <1>2, <2>1, <3>1, AllocKeeps, CallerAssumption, Zenon
  <2>2. CASE op = Idle /\ Refuse("INVALID_ADDRESS")
    BY <1>2, <2>2, RefuseKeeps, IdleType, Zenon DEF Answers
  <2> QED
    BY <1>2, <2>1, <2>2, Zenon DEF mmap
<1>3. CASE mmap_zero
  BY <1>3, StutterKeeps, Zenon DEF mmap_zero
<1>4. CASE mmap_drop
  <2>1. caller.base \in Int /\ caller.length \in Int /\ dropped(caller.request) \in Prots
    BY <1>4, CallerTypes, Conversions DEF mmap_drop
  <2> QED
    BY <1>4, <2>1, ProtectKeeps, Zenon DEF mmap_drop
<1>5. CASE \E pa \in 0 .. MmioSize, bytes \in Sizes : map_mmio(pa, bytes)
  BY <1>5, MapMmioKeeps, CallerAssumption, Zenon
<1>6. CASE UNCHANGED mmio_vars /\ \E length \in Sizes : alloc(length, "data")
  <2>1. "data" \in Prots
    BY DataAssumption
  <2> QED
    BY <1>6, <2>1, AllocKeeps, CallerAssumption, Zenon
<1>7. CASE UNCHANGED mmio_vars /\ \E page \in Untouched, length \in Sizes : munmap(page, length)
  <2>1. Untouched \subseteq Window
    BY Zenon DEF Untouched
  <2> QED
    BY <1>7, <2>1, FreeKeeps, CallerAssumption, Zenon DEF munmap
<1>8. ASSUME UNCHANGED mmio_vars, NEW page \in Untouched, NEW part \in 0 .. FrameSize - 1,
             NEW length \in Sizes, NEW request \in Requests, mprotect(page + part, length, request)
      PROVE  IInv'
  <2>1. page \in Window /\ page \in Int
    BY <1>8, PartOfPage DEF Untouched
  <2>2. CASE op = Idle /\ Refuse("INVALID_ADDRESS")
    BY <1>8, <2>2, RefuseKeeps, IdleType, Zenon DEF Answers
  <2>3. ASSUME NEW bytes \in Int, NEW prot \in Prots, protect(page, bytes, prot) PROVE IInv'
    BY <1>8, <2>1, <2>3, ProtectKeeps, Zenon
  <2> QED
    BY <1>8, <2>1, <2>2, <2>3, MprotectIsProtect, Zenon
<1>9. CASE UNCHANGED posix_vars
  BY <1>9, StutterKeeps, Zenon DEF posix_vars
<1> QED
  BY <1>1, <1>2, <1>3, <1>4, <1>5, <1>6, <1>7, <1>8, <1>9 DEF PosixNext
-----------------------------------------------------------------------------
(***************************************************************************)
(* The range that mmap holds is left alone by the others.                  *)
(***************************************************************************)

\* Two ranges of the table have no page in common.
LEMMA RangesApart ==
    ASSUME Table, m_count \in Nat, NEW base, NEW bytes, Held(base, bytes),
           NEW j \in Live, m_allocations[j].base # base, NEW va \in Backed(j)
    PROVE  va \notin PagesOf(base, bytes)
<1>1. PICK i \in Live : m_allocations[i] = [base |-> base, bytes |-> bytes]
  BY Zenon DEF Held
<1>2. m_allocations[i].base = base /\ m_allocations[i].bytes = bytes
  BY <1>1
<1>3. i \in Int /\ j \in Int /\ i # j
  BY <1>2 DEF Live
<1>4. /\ Placed(base, bytes) /\ Placed(m_allocations[j].base, m_allocations[j].bytes)
      /\ i < j => Before(base, bytes, m_allocations[j].base)
      /\ j < i => Before(m_allocations[j].base, m_allocations[j].bytes, base)
  BY <1>2, Zenon DEF Table
<1>5. PICK base2 \in Int, bytes2 \in Int : base2 = m_allocations[j].base /\ bytes2 = m_allocations[j].bytes
  BY <1>4, Zenon DEF Placed
<1>6. base \in Int /\ bytes \in Int
  BY <1>4, Zenon DEF Placed
<1>7. va \in Int /\ base2 <= va /\ va < base2 + bytes2
  BY <1>5, Pages, Zenon DEF Backed
<1>8. va \in PagesOf(base, bytes) => base <= va /\ va < base + bytes
  BY <1>6, Pages, Zenon
<1>9. base + bytes + FrameSize <= base2 \/ base2 + bytes2 + FrameSize <= base
  BY <1>3, <1>4, <1>5 DEF Before
<1> QED
  BY <1>5, <1>6, <1>7, <1>8, <1>9, Layout

LEMMA HeldAfterInsert ==
    ASSUME TypeOK, m_count < MaxAllocations, NEW index \in 0 .. m_count, NEW entry, insert(index, entry),
           NEW base, NEW bytes,
           Held(base, bytes) \/ entry = [base |-> base, bytes |-> bytes]
    PROVE  Held(base, bytes)'
<1>1. m_count \in Nat /\ MaxAllocations \in Nat /\ index \in Nat /\ index <= m_count /\ m_count' = m_count + 1
  BY Layout DEF TypeOK, insert
<1>2. \A i \in Nat : i <= m_count =>
         /\ i \in Index /\ i \in Live'
         /\ m_allocations'[i] = IF i = index THEN entry
                                ELSE IF index < i /\ i <= m_count THEN m_allocations[i - 1] ELSE m_allocations[i]
  BY <1>1 DEF insert, Index, Live
<1>3. CASE entry = [base |-> base, bytes |-> bytes]
  BY <1>1, <1>2, <1>3, Zenon DEF Held
<1>4. CASE Held(base, bytes)
  <2>1. PICK i \in Live : m_allocations[i] = [base |-> base, bytes |-> bytes]
    BY <1>4, Zenon DEF Held
  <2>2. i \in Nat /\ i < m_count
    BY <1>1, <2>1 DEF Live
  <2>3. CASE i < index
    <3>1. i \in Live' /\ m_allocations'[i] = m_allocations[i]
      BY <1>1, <1>2, <2>2, <2>3
    <3> QED
      BY <2>1, <3>1, Zenon DEF Held
  <2>4. CASE ~ (i < index)
    <3>1. i + 1 \in Nat /\ i + 1 <= m_count /\ index < i + 1 /\ (i + 1) - 1 = i
      BY <1>1, <2>2, <2>4
    <3>2. i + 1 \in Live' /\ m_allocations'[i + 1] = m_allocations[i]
      BY <1>1, <1>2, <3>1
    <3> QED
      BY <2>1, <3>2, Zenon DEF Held
  <2> QED
    BY <2>3, <2>4, Zenon
<1> QED
  BY <1>3, <1>4, Zenon

LEMMA HeldAfterErase ==
    ASSUME TypeOK, NEW index \in Live, erase(index), NEW base, NEW bytes, Held(base, bytes),
           m_allocations[index].base # base
    PROVE  Held(base, bytes)'
<1>1. /\ m_count \in Nat /\ m_count <= MaxAllocations /\ MaxAllocations \in Nat
      /\ index \in Nat /\ index < m_count /\ m_count' = m_count - 1
  BY Layout DEF TypeOK, erase, Live
<1>2. \A i \in Nat : i < m_count - 1 =>
         /\ i \in Live'
         /\ m_allocations'[i] = IF index <= i /\ i + 1 < m_count THEN m_allocations[i + 1] ELSE m_allocations[i]
  BY <1>1 DEF erase, Index, Live
<1>3. PICK i \in Live : m_allocations[i] = [base |-> base, bytes |-> bytes]
  BY Zenon DEF Held
<1>4. i \in Nat /\ i < m_count /\ i # index
  BY <1>1, <1>3 DEF Live
<1>5. CASE i < index
  <2>1. i \in Live' /\ m_allocations'[i] = m_allocations[i]
    BY <1>1, <1>2, <1>4, <1>5
  <2> QED
    BY <1>3, <2>1, Zenon DEF Held
<1>6. CASE index < i
  <2>1. i - 1 \in Nat /\ i - 1 < m_count - 1 /\ index <= i - 1 /\ (i - 1) + 1 = i
    BY <1>1, <1>4, <1>6
  <2>2. i - 1 \in Live' /\ m_allocations'[i - 1] = m_allocations[i]
    BY <1>1, <1>2, <1>4, <2>1, Zenon
  <2> QED
    BY <1>3, <2>2, Zenon DEF Held
<1> QED
  BY <1>1, <1>4, <1>5, <1>6

\* The page of a range being undone or given back is none of a range that is held.
LEMMA ReleaseElsewhere ==
    ASSUME IInv, op.kind \in {"release", "free"}, NEW base, NEW bytes, Hold(base, bytes)
    PROVE  op.base + op.offset \notin PagesOf(base, bytes)
<1>1. TypeOK /\ Table /\ m_count \in Nat /\ Held(base, bytes)
  BY DEF IInv, WindowSound, TypeOK, Hold
<1>2. op.base + op.offset \in PagesOf(op.base, op.bytes)
  BY Releasing, Zenon
<1>3. CASE op.kind = "release"
  <2>1. ~ Owned(op.base + op.offset)
    BY <1>1, <1>2, <1>3, GapIsFree, Zenon DEF IInv, Backing
  <2>2. PICK i \in Live : m_allocations[i] = [base |-> base, bytes |-> bytes]
    BY <1>1, Zenon DEF Held
  <2>3. Backed(i) = PagesOf(base, bytes)
    BY <2>2 DEF Backed
  <2> QED
    BY <2>1, <2>3, Zenon DEF Owned
<1>4. CASE op.kind = "free"
  <2>1. op.index \in Live /\ m_allocations[op.index] = [base |-> op.base, bytes |-> op.bytes] /\ op.base # base
    BY <1>4, Zenon DEF IInv, Freeing, Hold
  <2>2. op.base + op.offset \in Backed(op.index) /\ m_allocations[op.index].base # base
    BY <1>2, <2>1 DEF Backed
  <2> QED
    BY <1>1, <2>1, <2>2, RangesApart, Zenon
<1> QED
  BY <1>3, <1>4, Zenon

\* A range that is held keeps its pages' entries.
LEMMA HeldMapped ==
    ASSUME NEW base, NEW bytes, Writable(PagesOf(base, bytes)), NEW va \in PagesOf(base, bytes)
    PROVE  mapping[va] # NotMapped
  BY DataAssumption, CallerAssumption DEF Writable, NotMapped

LEMMA HoldBack ==
    ASSUME IInv, back, NEW base, NEW bytes, Hold(base, bytes)
    PROVE  Hold(base, bytes)'
<1> DEFINE va0 == op.base + op.offset
<1>1. op.kind = "back" /\ TypeOK /\ Held(base, bytes) /\ Writable(PagesOf(base, bytes))
  BY Zenon DEF back, IInv, WindowSound, Hold
<1>2. ASSUME NEW result, rollback(result) PROVE op'.kind # "free"
  BY <1>1, <1>2, IdleType, Zenon DEF rollback, Return, TypeOK
<1>3. CASE UNCHANGED <<m_allocations, m_count, mapping>> /\ \E result : rollback(result)
  BY <1>1, <1>2, <1>3, Zenon DEF Hold, Held, Writable, Live
<1>4. ASSUME NEW frame \in pool, NEW linked, mapping[va0] = NotMapped, map_succeeded(va0, frame, linked)
      PROVE  Hold(base, bytes)'
  <2>1. va0 \notin PagesOf(base, bytes)
    BY <1>1, <1>4, HeldMapped, Zenon
  <2>2. mapping' = [mapping EXCEPT ![va0] = [frame |-> frame, prot |-> op.prot]]
    BY <1>4, Zenon DEF map_succeeded
  <2> HIDE DEF va0
  <2>3. PagesOf(base, bytes) \subseteq Window
    <3>1. PICK i \in Live : m_allocations[i] = [base |-> base, bytes |-> bytes]
      BY <1>1, Zenon DEF Held
    <3>2. Backed(i) = PagesOf(base, bytes)
      BY <3>1 DEF Backed
    <3> QED
      BY <3>1, <3>2, RangesInWindow, Zenon DEF IInv, WindowSound
  <2>4. Writable(PagesOf(base, bytes))'
    BY <1>1, <2>1, <2>2, <2>3, Zenon DEF Writable, TypeOK
  <2>5. CASE op' = [op EXCEPT !.offset = @ + FrameSize] /\ UNCHANGED <<m_allocations, m_count>>
    <3>1. op'.kind = "back"
      BY <1>1, <2>5, Zenon DEF TypeOK
    <3>2. Held(base, bytes)'
      BY <1>1, <2>5, Zenon DEF Held, Live
    <3> QED
      BY <2>4, <3>1, <3>2, Zenon DEF Hold
  <2>6. CASE insert(op.index, [base |-> op.base, bytes |-> op.bytes]) /\ Return("ok")
    <3>1. m_count < MaxAllocations /\ op.index \in 0 .. m_count
      BY <1>1, Zenon DEF IInv, Backing, InGap
    <3>2. Held(base, bytes)'
      BY <1>1, <2>6, <3>1, HeldAfterInsert, Zenon
    <3>3. op'.kind = "idle"
      BY <2>6, IdleType, Zenon DEF Return
    <3> QED
      BY <2>4, <3>2, <3>3, Zenon DEF Hold
  <2> QED
    BY <1>4, <2>5, <2>6, Zenon DEF map_succeeded
<1>5. ASSUME NEW frame \in pool, NEW linked, map_failed(frame, linked)
      PROVE  Hold(base, bytes)'
  BY <1>3, <1>5, Zenon DEF map_failed
<1> QED
  BY <1>3, <1>4, <1>5, Zenon DEF back

LEMMA HoldRelease ==
    ASSUME IInv, release, NEW base, NEW bytes, Hold(base, bytes)
    PROVE  Hold(base, bytes)'
<1> DEFINE va0 == op.base + op.offset
<1>1. op.kind \in {"release", "free"} /\ TypeOK /\ Held(base, bytes) /\ Writable(PagesOf(base, bytes))
  BY Zenon DEF release, IInv, WindowSound, Hold
<1>2. va0 \notin PagesOf(base, bytes) /\ mapping[va0] # NotMapped
  BY <1>1, ReleaseElsewhere, ReleaseFindsPage, Zenon
<1>3. mapping' = [mapping EXCEPT ![va0] = NotMapped]
  BY ReleaseTypes, Zenon
<1>4. \/ op' = Idle
      \/ op' = [op EXCEPT !.offset = @ + FrameSize]
  BY <1>2, Zenon DEF release, Return
<1>5. \/ UNCHANGED <<m_allocations, m_count>>
      \/ op.kind = "free" /\ erase(op.index)
  BY <1>2, Zenon DEF release
<1> HIDE DEF va0
<1>6. PagesOf(base, bytes) \subseteq Window
  <2>1. PICK i \in Live : m_allocations[i] = [base |-> base, bytes |-> bytes]
    BY <1>1, Zenon DEF Held
  <2>2. Backed(i) = PagesOf(base, bytes)
    BY <2>1 DEF Backed
  <2> QED
    BY <2>1, <2>2, RangesInWindow, Zenon DEF IInv, WindowSound
<1>7. Writable(PagesOf(base, bytes))'
  BY <1>1, <1>2, <1>3, <1>6, Zenon DEF Writable, TypeOK
<1>8. op'.kind = "free" => op'.base # base
  <2>1. CASE op' = Idle
    BY <2>1, IdleType, Zenon
  <2>2. CASE op' = [op EXCEPT !.offset = @ + FrameSize]
    <3>1. op'.kind = op.kind /\ op'.base = op.base
      BY <1>1, <2>2, Zenon DEF TypeOK
    <3> QED
      BY <3>1, Zenon DEF Hold
  <2> QED
    BY <1>4, <2>1, <2>2, Zenon
<1>9. Held(base, bytes)'
  <2>1. CASE UNCHANGED <<m_allocations, m_count>>
    BY <1>1, <2>1, Zenon DEF Held, Live
  <2>2. CASE op.kind = "free" /\ erase(op.index)
    <3>1. op.index \in Live /\ m_allocations[op.index].base # base
      BY <2>2 DEF IInv, Freeing, Hold
    <3> QED
      BY <1>1, <2>2, <3>1, HeldAfterErase, Zenon
  <2> QED
    BY <1>5, <2>1, <2>2, Zenon
<1> QED
  BY <1>7, <1>8, <1>9, Zenon DEF Hold

\* alloc, map_mmio, a free of another page and a protect of another page leave the range alone.
LEMMA HoldBegin ==
    ASSUME IInv, NEW base, NEW bytes, Hold(base, bytes),
           \/ \E length, prot : alloc(length, prot)
           \/ \E pa, length : map_mmio(pa, length)
           \/ \E ptr, length : free(ptr, length) /\ ptr \notin PagesOf(base, bytes)
    PROVE  Hold(base, bytes)'
<1>1. \A result : Refuse(result) => op' = Idle /\ UNCHANGED <<m_allocations, m_count, mapping>>
  BY Zenon DEF Refuse, Return, window_vars
<1>2. ASSUME UNCHANGED <<m_allocations, m_count, mapping>>, op'.kind = "free" => op'.base # base
      PROVE  Hold(base, bytes)'
  BY <1>2, Zenon DEF Hold, Held, Live, Writable
<1>3. Idle.kind = "idle"
  BY IdleType, Zenon
<1>4. ASSUME NEW length, NEW prot, alloc(length, prot) PROVE Hold(base, bytes)'
  <2>1. UNCHANGED <<m_allocations, m_count, mapping>>
    BY <1>1, <1>4, Zenon DEF alloc
  <2>2. op' = Idle \/ \E b, n, i : op' = [Idle EXCEPT !.kind = "back", !.base = b, !.bytes = n, !.index = i, !.prot = prot]
    BY <1>1, <1>4, Zenon DEF alloc
  <2>3. op'.kind # "free"
    BY <1>3, <2>2, Zenon DEF Idle
  <2> QED
    BY <1>2, <2>1, <2>3, Zenon
<1>5. ASSUME NEW pa, NEW length, map_mmio(pa, length) PROVE Hold(base, bytes)'
  <2>1. UNCHANGED <<m_allocations, m_count, mapping>>
    BY <1>1, <1>5, Zenon DEF map_mmio, window_vars
  <2>2. op' = Idle \/ \E b, n : op' = [Idle EXCEPT !.kind = "mmio", !.base = b, !.bytes = n]
    BY <1>1, <1>5, Zenon DEF map_mmio
  <2>3. op'.kind # "free"
    BY <1>3, <2>2, Zenon DEF Idle
  <2> QED
    BY <1>2, <2>1, <2>3, Zenon
<1>6. ASSUME NEW ptr, NEW length, free(ptr, length), ptr \notin PagesOf(base, bytes) PROVE Hold(base, bytes)'
  <2> DEFINE found == {i \in Live : m_allocations[i].base = ptr}
             index == CHOOSE i \in found : \A j \in found : i <= j
             entry == m_allocations[index]
  <2>1. UNCHANGED <<m_allocations, m_count, mapping>>
    BY <1>1, <1>6, Zenon DEF free
  <2>2. \/ op' = Idle
        \/ found # {} /\ op' = [Idle EXCEPT !.kind = "free", !.base = entry.base, !.bytes = entry.bytes, !.index = index]
    BY <1>1, <1>6, Zenon DEF free
  <2>3. CASE op' = Idle
    BY <1>2, <1>3, <2>1, <2>3, Zenon
  <2>4. CASE found # {} /\ op' = [Idle EXCEPT !.kind = "free", !.base = entry.base, !.bytes = entry.bytes, !.index = index]
    <3>1. op'.base = entry.base
      BY <2>4, Zenon DEF Idle
    <3>2. index \in found
      BY <2>4, FoundFirst, Zenon DEF IInv, WindowSound, TypeOK
    <3>3. entry.base = ptr
      BY <3>2, Zenon
    <3>4. base \in PagesOf(base, bytes)
      <4>1. PICK i \in Live : m_allocations[i] = [base |-> base, bytes |-> bytes]
        BY Zenon DEF Hold, Held
      <4>2. Placed(base, bytes)
        BY <4>1 DEF IInv, Table
      <4> QED
        BY <4>2, Pages, Layout DEF Placed
    <3> QED
      BY <1>2, <1>6, <2>1, <3>1, <3>3, <3>4, Zenon
  <2> QED
    BY <2>2, <2>3, <2>4, Zenon
<1> QED
  BY <1>4, <1>5, <1>6, Zenon

\* protect changes pages of one range of the table, and not of one it does not start in.
LEMMA HoldProtect ==
    ASSUME IInv, NEW base, NEW bytes, Hold(base, bytes),
           NEW ptr \in Int, NEW length \in Int, NEW prot \in Prots, protect(ptr, length, prot),
           Aligned(ptr), ptr \notin PagesOf(base, bytes)
    PROVE  Hold(base, bytes)'
<1> DEFINE last == align_up((ptr + length) % Space)
           pages == PagesOf(ptr, last - ptr)
<1>1. TypeOK /\ Table /\ m_count \in Nat /\ Held(base, bytes) /\ Writable(PagesOf(base, bytes))
  BY DEF IInv, WindowSound, TypeOK, Hold
<1>2. CASE Refuse("INVALID_ADDRESS")
  <2>1. op' = Idle /\ UNCHANGED <<m_allocations, m_count, mapping>>
    BY <1>2, Zenon DEF Refuse, Return, window_vars
  <2> QED
    BY <1>1, <2>1, IdleType, Zenon DEF Hold, Held, Live, Writable
<1>3. CASE /\ mapping' = [va \in Window |-> IF va \in pages THEN [mapping[va] EXCEPT !.prot = prot]
                                            ELSE mapping[va]]
           /\ op' = Idle /\ ptr < last
           /\ \E i \in Live : covers(m_allocations[i], ptr, last)
           /\ UNCHANGED <<m_allocations, m_count>>
  <2>1. last \in Int
    <3>1. (ptr + length) % Space \in Int
      BY Layout
    <3> QED
      BY <3>1, AlignUpType, Layout DEF Addresses
  <2> HIDE DEF last
  <2>2. PICK j \in Live : covers(m_allocations[j], ptr, last)
    BY <1>3, Zenon
  <2>3. Placed(m_allocations[j].base, m_allocations[j].bytes)
    BY <1>1, Zenon DEF Table
  <2>4. PICK base2 \in Int, bytes2 \in Int : base2 = m_allocations[j].base /\ bytes2 = m_allocations[j].bytes
    BY <2>3, Zenon DEF Placed
  <2>5. ptr >= base2 /\ last <= base2 + bytes2 /\ Backed(j) = PagesOf(base2, bytes2)
    BY <2>2, <2>4, Zenon DEF covers, Backed
  <2>6. PICK i \in Live : m_allocations[i] = [base |-> base, bytes |-> bytes]
    BY <1>1, Zenon DEF Held
  <2>7. base2 # base
    <3>1. ASSUME base2 = base PROVE FALSE
      <4>1. bytes2 = bytes
        <5>1. m_allocations[i].base = m_allocations[j].base
          BY <2>4, <2>6, <3>1
        <5>2. i = j
          BY <1>1, <5>1, SameBase, Zenon
        <5> QED
          BY <2>4, <2>6, <5>2
      <4>2. ptr \in PagesOf(base2, bytes2)
        BY <1>3, <2>1, <2>4, <2>5, Pages
      <4> QED
        BY <3>1, <4>1, <4>2, Zenon
    <3> QED
      BY <3>1, Zenon
  <2>8. \A va \in pages : va \in Backed(j)
    BY <2>1, <2>4, <2>5, Pages
  <2>9. \A va \in pages : va \notin PagesOf(base, bytes)
    BY <1>1, <2>4, <2>7, <2>8, RangesApart, Zenon
  <2>10. PagesOf(base, bytes) \subseteq Window
    <3>1. Backed(i) = PagesOf(base, bytes)
      BY <2>6 DEF Backed
    <3> QED
      BY <3>1, RangesInWindow, Zenon DEF IInv, WindowSound
  <2> HIDE DEF pages
  <2>11. Writable(PagesOf(base, bytes))'
    BY <1>1, <1>3, <2>9, <2>10, Zenon DEF Writable
  <2> QED
    BY <1>1, <1>3, <2>11, IdleType, Zenon DEF Hold, Held, Live
<1> QED
  BY <1>2, <1>3, ProtectEffect

\* For whole pages, rounding the end up is rounding the length up.
LEMMA RoundEnd ==
    ASSUME NEW base \in Int, NEW length \in Nat, Placed(base, align_up(length)), 0 < length, length <= VmallocSize
    PROVE  align_up((base + length) % Space) = base + align_up(length)
<1> DEFINE n == align_up(length)
           m == align_up(base + length)
<1>1. length + FrameSize <= Space
  BY Layout
<1>2. /\ n \in Nat /\ Aligned(n) /\ length <= n
      /\ \A b \in Int : Aligned(b) /\ length <= b => n <= b
  BY <1>1, AlignUp, Zenon
<1>3. Aligned(base) /\ VmallocBase <= base /\ base + n + FrameSize <= VmallocEnd
  BY Zenon DEF Placed
<1> HIDE DEF n
<1>4. base + length \in Nat /\ base + length + FrameSize <= Space /\ base + length < Space
  BY <1>2, <1>3, Layout
<1>5. (base + length) % Space = base + length
  BY <1>4, Layout
<1>6. /\ m \in Nat /\ Aligned(m) /\ base + length <= m
      /\ \A b \in Int : Aligned(b) /\ base + length <= b => m <= b
  BY <1>4, AlignUp, Zenon
<1> HIDE DEF m
<1>7. m <= base + n
  <2>1. base + n \in Int /\ Aligned(base + n) /\ base + length <= base + n
    BY <1>2, <1>3, AlignedSum
  <2> QED
    BY <1>6, <2>1, Zenon
<1>8. n <= m - base
  <2>1. m - base \in Int /\ Aligned(m - base) /\ length <= m - base
    BY <1>3, <1>6, AlignedSum
  <2> QED
    BY <1>2, <2>1, Zenon
<1> QED
  BY <1>2, <1>5, <1>6, <1>7, <1>8 DEF n, m
-----------------------------------------------------------------------------
(***************************************************************************)
(* The steps of mmap.                                                      *)
(***************************************************************************)

\* mmap is refused, or its allocation starts with nothing mapped.
LEMMA MmapBegins ==
    ASSUME IInv, IInv', NEW valid \in BOOLEAN, NEW length \in Sizes, NEW request \in Requests,
           mmap(valid, length, request)
    PROVE  CallerInv'
<1>1. CASE op' = Idle
  BY <1>1, Zenon DEF mmap, CallerInv
<1>2. CASE op' # Idle
  <2>1. caller' = [phase |-> "alloc", base |-> op'.base, length |-> length, request |-> request]
    BY <1>2, Zenon DEF mmap
  <2>2. alloc(length, "data")
    BY <1>2, Zenon DEF mmap, Refuse, Return
  <2>3. /\ length # 0 /\ ~ (length > VmallocSize)
        /\ \E b, i : op' = [Idle EXCEPT !.kind = "back", !.base = b, !.bytes = align_up(length), !.index = i,
                                        !.prot = "data"]
    BY <1>2, <2>2, Zenon DEF alloc, Refuse, Return
  <2>4. op'.kind = "back" /\ op'.prot = "data" /\ op'.bytes = align_up(length) /\ op'.offset = 0
    BY <2>3, Zenon DEF Idle
  <2>5. op'.base \in Int
    BY Layout DEF IInv, WindowSound, TypeOK, Addresses
  <2>6. /\ caller'.base = op'.base /\ caller'.length = length /\ caller'.phase = "alloc"
        /\ caller' \in [phase : {"alloc", "zero", "drop"}, base : Int, length : Sizes \ {0}, request : Requests]
    BY <2>1, <2>3, <2>5, Zenon
  <2>7. length <= VmallocSize
    <3>1. length \in Addresses
      BY CallerAssumption, Zenon
    <3> QED
      BY <2>3, <3>1, Layout DEF Addresses
  <2>8. PagesOf(op'.base, op'.offset) = {}
    BY <2>4, <2>5 DEF PagesOf
  <2>9. Allocating'
    BY <2>4, <2>6, <2>8, Zenon DEF Allocating, Writable
  <2> QED
    BY <2>6, <2>7, <2>9, Zenon DEF CallerInv
<1> QED
  BY <1>1, <1>2, Zenon

\* A round of back for mmap: the page comes writable, the last one with the entry of the
\* table, or the allocation is undone.
LEMMA MmapBack ==
    ASSUME IInv, back, Allocating, op.kind = "back", NEW base, NEW bytes, base = op.base, bytes = op.bytes
    PROVE  \/ op' = Idle /\ answer' # "ok"
           \/ op' = Idle /\ answer' = "ok" /\ Hold(base, bytes)'
           \/ op' # Idle /\ op'.kind = "release" /\ op'.result # "ok"
           \/ /\ op' # Idle /\ op'.kind = "back" /\ op'.prot = "data" /\ op'.base = op.base /\ op'.bytes = op.bytes
              /\ Writable(PagesOf(op.base, op.offset))'
<1> DEFINE va0 == op.base + op.offset
<1>1. TypeOK /\ op.prot = "data" /\ Writable(PagesOf(op.base, op.offset))
  BY Zenon DEF Allocating, IInv, WindowSound
<1>2. /\ op.base \in Int /\ op.bytes \in Int /\ op.offset \in Nat /\ op.offset < op.bytes
      /\ Aligned(op.base) /\ Aligned(op.bytes) /\ Aligned(op.offset)
      /\ op.offset + FrameSize <= op.bytes /\ va0 \in Window
      /\ m_count < MaxAllocations /\ op.index \in 0 .. m_count
      /\ PagesOf(op.base, op.bytes) \subseteq Window
  BY PlacedInWindow, Zenon DEF IInv, Backing, AtPage, Placed, InGap
<1>3. ASSUME NEW result, result # "ok", rollback(result)
      PROVE  \/ op' = Idle /\ answer' # "ok"
             \/ op' # Idle /\ op'.kind = "release" /\ op'.result # "ok"
  <2>1. CASE Return(result)
    BY <1>3, <2>1, Zenon DEF Return
  <2>2. CASE op' = [op EXCEPT !.kind = "release", !.bytes = op.offset, !.offset = 0, !.result = result]
    <3>1. op'.kind = "release" /\ op'.result = result
      BY <1>1, <2>2, Zenon DEF TypeOK
    <3> QED
      BY <1>3, <3>1, IdleType, Zenon
  <2> QED
    BY <1>3, <2>1, <2>2, Zenon DEF rollback
<1>4. ASSUME NEW frame, NEW linked, map_failed(frame, linked)
      PROVE  \/ op' = Idle /\ answer' # "ok"
             \/ op' # Idle /\ op'.kind = "release" /\ op'.result # "ok"
  BY <1>3, <1>4, Zenon DEF map_failed
<1>5. ASSUME NEW frame, NEW linked, map_succeeded(va0, frame, linked)
      PROVE  \/ op' = Idle /\ answer' = "ok" /\ Hold(base, bytes)'
             \/ /\ op' # Idle /\ op'.kind = "back" /\ op'.prot = "data" /\ op'.base = op.base /\ op'.bytes = op.bytes
                /\ Writable(PagesOf(op.base, op.offset))'
  <2>1. mapping' = [mapping EXCEPT ![va0] = [frame |-> frame, prot |-> op.prot]]
    BY <1>5, Zenon DEF map_succeeded
  <2>2. PICK offset \in Nat :
           /\ base = op.base /\ bytes = op.bytes /\ offset = op.offset /\ base \in Int /\ bytes \in Int
           /\ Aligned(base) /\ Aligned(bytes) /\ Aligned(offset)
    BY <1>2, Zenon
  <2>3. PagesOf(base, offset + FrameSize) = PagesOf(base, offset) \cup {va0}
    BY <2>2, PagesStep
  <2>4. PagesOf(base, offset) \subseteq Window
    <3>1. PagesOf(base, offset) \subseteq PagesOf(base, bytes)
      BY <1>2, <2>2 DEF PagesOf
    <3> QED
      BY <1>2, <2>2, <3>1, Zenon
  <2> HIDE DEF va0
  <2>5. \A va \in PagesOf(base, offset + FrameSize) : mapping'[va].prot = "data"
    BY <1>1, <1>2, <2>1, <2>2, <2>3, <2>4, SMTT(40) DEF Writable, TypeOK
  <2>6. CASE op' = [op EXCEPT !.offset = @ + FrameSize]
    <3>1. /\ op'.kind = "back" /\ op'.prot = "data" /\ op'.base = base /\ op'.bytes = bytes
          /\ op'.offset = offset + FrameSize
      BY <1>1, <2>2, <2>6, Zenon DEF TypeOK
    <3>2. op' # Idle
      BY <3>1, IdleType, Zenon
    <3>3. Writable(PagesOf(op.base, op.offset))'
      BY <2>5, <3>1, Zenon DEF Writable
    <3> QED
      BY <2>2, <3>1, <3>2, <3>3, Zenon
  <2>7. CASE /\ insert(op.index, [base |-> op.base, bytes |-> op.bytes]) /\ Return("ok")
             /\ ~ (op.offset + FrameSize < op.bytes)
    <3>1. offset + FrameSize = bytes
      BY <1>2, <2>2, <2>7, Layout
    <3>2. Held(base, bytes)'
      BY <1>1, <1>2, <2>2, <2>7, HeldAfterInsert, Zenon
    <3>3. op' = Idle /\ answer' = "ok" /\ op'.kind = "idle"
      BY <2>7, IdleType, Zenon DEF Return
    <3>4. Hold(base, bytes)'
      BY <2>5, <3>1, <3>2, <3>3, Zenon DEF Hold, Writable
    <3> QED
      BY <2>2, <3>3, <3>4, Zenon
  <2> QED
    BY <1>5, <2>6, <2>7, Zenon DEF map_succeeded
<1> QED
  BY <1>3, <1>4, <1>5, Zenon DEF back

\* A round of release for mmap: it stays a failure until mmap reports it.
LEMMA MmapRelease ==
    ASSUME IInv, release, op.kind = "release", op.result # "ok"
    PROVE  \/ op' = Idle /\ answer' # "ok"
           \/ op' # Idle /\ op'.kind = "release" /\ op'.result # "ok"
<1>1. mapping[op.base + op.offset] # NotMapped /\ TypeOK
  BY ReleaseFindsPage, Zenon DEF IInv, WindowSound
<1>2. Return(op.result) \/ op' = [op EXCEPT !.offset = @ + FrameSize]
  BY <1>1, Zenon DEF release
<1>3. CASE Return(op.result)
  BY <1>3, Zenon DEF Return
<1>4. CASE op' = [op EXCEPT !.offset = @ + FrameSize]
  <2>1. op'.kind = "release" /\ op'.result = op.result
    BY <1>1, <1>4, Zenon DEF TypeOK
  <2> QED
    BY <2>1, IdleType, Zenon
<1> QED
  BY <1>2, <1>3, <1>4, Zenon

\* The write access can be dropped: the range is still in the table, so protect finds it.
LEMMA DropSucceeds ==
    ASSUME IInv, CallerInv, mmap_drop
    PROVE  /\ answer' = "ok" /\ caller' = NoCaller /\ Fresh \subseteq Window
           /\ \A va \in Fresh : mapping'[va] = [mapping[va] EXCEPT !.prot = dropped(caller.request)]
<1>1. /\ caller.phase = "drop" /\ protect(caller.base, caller.length, dropped(caller.request))
      /\ caller' = IF answer' = "ok" THEN NoCaller ELSE [caller EXCEPT !.phase = "panic"]
  BY Zenon DEF mmap_drop
<1>2. /\ caller.base \in Int /\ caller.length \in Nat \ {0} /\ caller.length <= VmallocSize
      /\ dropped(caller.request) \in Prots /\ caller # NoCaller
  BY <1>1, CallerTypes, Conversions, Zenon
<1>3. Hold(caller.base, align_up(caller.length))
  BY <1>1, <1>2, Zenon DEF CallerInv
<1>4. PICK base \in Int, length \in Nat \ {0}, prot \in Prots :
         base = caller.base /\ length = caller.length /\ prot = dropped(caller.request)
  BY <1>2, Zenon
<1>5. PICK i \in Live : m_allocations[i] = [base |-> base, bytes |-> align_up(length)]
  BY <1>3, <1>4, Zenon DEF Hold, Held
<1>6. Placed(base, align_up(length))
  BY <1>5 DEF IInv, Table
<1> DEFINE last == align_up((base + length) % Space)
           pages == PagesOf(base, last - base)
<1>7. last = base + align_up(length)
  BY <1>2, <1>4, <1>6, RoundEnd
<1>8. align_up(length) \in Int /\ align_up(length) > 0 /\ Aligned(base)
  BY <1>6, Zenon DEF Placed
<1>9. pages = Fresh
  <2>1. last - base = align_up(length)
    BY <1>7, <1>8
  <2> QED
    BY <1>4, <2>1, Zenon DEF Fresh
<1>10. covers(m_allocations[i], base, last)
  BY <1>5, <1>7, <1>8 DEF covers
<1>11. protect(base, length, prot)
  BY <1>1, <1>4, Zenon
<1>12. ~ Refuse("INVALID_ADDRESS")
  <2>1. length # 0 /\ ~ (base % FrameSize # 0) /\ ~ (last <= base)
    BY <1>7, <1>8 DEF Aligned
  <2>2. answer' \in {"ok", "NOT_MAPPED"}
    BY <1>10, <1>11, <2>1, Zenon DEF protect, Return
  <2> QED
    BY <2>2, Zenon DEF Refuse, Return
<1>13. /\ mapping' = [va \in Window |-> IF va \in pages THEN [mapping[va] EXCEPT !.prot = prot] ELSE mapping[va]]
       /\ pages \subseteq {va \in Window : mapping[va] # NotMapped}
       /\ answer' = "ok"
  BY <1>11, <1>12, ProtectEffect
<1> HIDE DEF pages
<1>15. Fresh \subseteq Window
  BY <1>9, <1>13, Zenon
<1>14. \A va \in Fresh : mapping'[va] = [mapping[va] EXCEPT !.prot = dropped(caller.request)]
  BY <1>4, <1>9, <1>13, Zenon
<1> QED
  BY <1>1, <1>13, <1>14, <1>15, Zenon

LEMMA CallerKeeps == IInv /\ CallerInv /\ [PosixNext]_posix_vars => CallerInv'
<1> SUFFICES ASSUME IInv, CallerInv, [PosixNext]_posix_vars PROVE CallerInv'
  BY Zenon
<1>1. IInv' /\ TypeOK
  BY PosixKeeps, Zenon DEF IInv, WindowSound
<1>2. Idle.kind = "idle" /\ NoCaller.phase = "none"
  BY IdleType, Zenon DEF NoCaller
\* A step of another core, seen from mmap.
<1>3. ASSUME UNCHANGED caller,
             ASSUME NEW b, NEW n, Hold(b, n), b = caller.base, n = align_up(caller.length), caller.phase \in {"zero", "drop"}
             PROVE  Hold(b, n)',
             caller.phase # "alloc"
      PROVE  CallerInv'
  <2>1. CASE caller = NoCaller
    BY <1>3, <2>1, Zenon DEF CallerInv
  <2>2. CASE caller # NoCaller
    <3>1. /\ caller \in [phase : {"alloc", "zero", "drop"}, base : Int, length : Sizes \ {0}, request : Requests]
          /\ caller.length <= VmallocSize /\ caller.phase \in {"zero", "drop"}
          /\ caller.phase = "drop" => "WRITE" \notin caller.request
          /\ Hold(caller.base, align_up(caller.length))
      BY <1>3, <2>2, Zenon DEF CallerInv
    <3>2. PICK b, n : b = caller.base /\ n = align_up(caller.length)
      BY Zenon
    <3>3. Hold(b, n)'
      BY <1>3, <3>1, <3>2, Zenon
    <3>4. Hold(caller.base, align_up(caller.length))'
      BY <1>3, <3>2, <3>3, Zenon
    <3> QED
      BY <1>3, <3>1, <3>4, Zenon DEF CallerInv
  <2> QED
    BY <2>1, <2>2, Zenon
<1>4. caller.phase = "alloc" => op # Idle
  BY <1>2, Zenon DEF CallerInv, Allocating
<1>5. CASE page_step
  <2>1. Step /\ caller' = IF caller.phase = "alloc" /\ op' = Idle
                          THEN IF answer' = "ok" THEN [caller EXCEPT !.phase = "zero"] ELSE NoCaller
                          ELSE caller
    BY <1>5, Zenon DEF page_step
  <2>2. CASE caller.phase # "alloc"
    <3>1. ASSUME NEW b, NEW n, Hold(b, n) PROVE Hold(b, n)'
      <4>1. CASE back
        BY <3>1, <4>1, HoldBack, Zenon
      <4>2. CASE release
        BY <3>1, <4>2, HoldRelease, Zenon
      <4>3. CASE mmio_step
        <5>1. op.kind = "mmio" /\ UNCHANGED window_vars
          BY <4>3, Zenon DEF mmio_step
        <5>2. op' = Idle \/ op' = [op EXCEPT !.offset = @ + FrameSize]
          BY <4>3, Zenon DEF mmio_step, mmio_next, Return
        <5>3. op'.kind # "free"
          BY <1>1, <1>2, <5>1, <5>2, Zenon DEF TypeOK
        <5> QED
          BY <3>1, <5>1, <5>3, Zenon DEF Hold, Held, Live, Writable, window_vars
      <4> QED
        BY <2>1, <4>1, <4>2, <4>3, Zenon DEF Step
    <3> QED
      BY <1>3, <2>1, <2>2, <3>1, Zenon
  <2>3. CASE caller.phase = "alloc"
    <3>1. /\ caller \in [phase : {"alloc", "zero", "drop"}, base : Int, length : Sizes \ {0}, request : Requests]
          /\ caller.length <= VmallocSize /\ Allocating
      BY <1>2, <2>3, Zenon DEF CallerInv
    <3>2. CASE op' = Idle /\ answer' # "ok"
      BY <2>1, <2>3, <3>2, Zenon DEF CallerInv
    <3>3. CASE op' # Idle /\ op'.kind = "release" /\ op'.result # "ok"
      <4>1. UNCHANGED caller
        BY <2>1, <3>3, Zenon
      <4> QED
        BY <2>3, <3>1, <3>3, <4>1, Zenon DEF CallerInv, Allocating
    <3>4. CASE op.kind = "back"
      <4>1. back /\ op.base = caller.base /\ op.bytes = align_up(caller.length)
        BY <2>1, <3>1, <3>4, Zenon DEF Step, release, mmio_step, Allocating
      <4>2. PICK b, n : b = op.base /\ n = op.bytes
        BY Zenon
      <4>3. CASE op' = Idle /\ answer' = "ok" /\ Hold(b, n)'
        <5>1. caller' = [caller EXCEPT !.phase = "zero"]
          BY <2>1, <2>3, <4>3, Zenon
        <5>2. /\ caller' \in [phase : {"alloc", "zero", "drop"}, base : Int, length : Sizes \ {0}, request : Requests]
              /\ caller'.phase = "zero" /\ caller'.base = b /\ caller'.length = caller.length
          BY <3>1, <4>1, <4>2, <5>1, Zenon
        <5>3. Hold(caller.base, align_up(caller.length))'
          BY <4>1, <4>2, <4>3, <5>2, Zenon DEF align_up
        <5> QED
          BY <3>1, <5>2, <5>3, Zenon DEF CallerInv
      <4>4. CASE /\ op' # Idle /\ op'.kind = "back" /\ op'.prot = "data" /\ op'.base = op.base /\ op'.bytes = op.bytes
                 /\ Writable(PagesOf(op.base, op.offset))'
        <5>1. UNCHANGED caller
          BY <2>1, <4>4, Zenon
        <5>2. Allocating'
          BY <4>1, <4>4, <5>1, Zenon DEF Allocating
        <5> QED
          BY <2>3, <3>1, <5>1, <5>2, Zenon DEF CallerInv
      <4> QED
        BY <3>1, <3>2, <3>3, <3>4, <4>1, <4>2, <4>3, <4>4, MmapBack, Zenon
    <3>5. CASE op.kind # "back"
      <4>1. op.kind = "release" /\ op.result # "ok"
        BY <3>1, <3>5, Zenon DEF Allocating
      <4>2. release
        BY <2>1, <4>1, Zenon DEF Step, back, mmio_step
      <4> QED
        BY <3>2, <3>3, <4>1, <4>2, MmapRelease, Zenon
    <3> QED
      BY <3>4, <3>5, Zenon
  <2> QED
    BY <2>2, <2>3, Zenon
<1>6. CASE \E valid \in BOOLEAN, length \in Sizes, request \in Requests : mmap(valid, length, request)
  BY <1>1, <1>6, MmapBegins, Zenon
<1>7. CASE mmap_zero
  <2>1. caller.phase = "zero" /\ UNCHANGED vars
    BY <1>7, Zenon DEF mmap_zero
  <2>2. /\ caller \in [phase : {"alloc", "zero", "drop"}, base : Int, length : Sizes \ {0}, request : Requests]
        /\ caller.length <= VmallocSize /\ Hold(caller.base, align_up(caller.length))
    BY <1>2, <2>1, Zenon DEF CallerInv
  <2>3. ~ \E va \in Fresh : ~ Writes(mapping[va].prot)
    BY <2>2, Conversions, Zenon DEF Hold, Writable, Fresh
  <2>4. \/ caller' = NoCaller
        \/ caller' = [caller EXCEPT !.phase = "drop"] /\ "WRITE" \notin caller.request
    BY <1>7, <2>3, Zenon DEF mmap_zero
  <2>5. CASE caller' = NoCaller
    BY <2>5, Zenon DEF CallerInv
  <2>6. CASE caller' = [caller EXCEPT !.phase = "drop"] /\ "WRITE" \notin caller.request
    <3>1. /\ caller' \in [phase : {"alloc", "zero", "drop"}, base : Int, length : Sizes \ {0}, request : Requests]
          /\ caller'.phase = "drop" /\ caller'.base = caller.base /\ caller'.length = caller.length
          /\ "WRITE" \notin caller'.request
      BY <2>2, <2>6, Zenon
    <3>2. Hold(caller.base, align_up(caller.length))'
      BY <2>1, <2>2, <3>1, Zenon DEF Hold, Held, Writable, Live, vars, window_vars, align_up
    <3> QED
      BY <2>2, <3>1, <3>2, Zenon DEF CallerInv
  <2> QED
    BY <2>4, <2>5, <2>6, Zenon
<1>8. CASE mmap_drop
  BY <1>8, DropSucceeds, Zenon DEF CallerInv
<1>9. CASE UNCHANGED caller /\ \/ \E pa, length : map_mmio(pa, length)
                               \/ \E length, prot : alloc(length, prot)
  <2>1. op = Idle
    BY <1>9, Zenon DEF map_mmio, alloc
  <2> QED
    BY <1>3, <1>4, <1>9, <2>1, HoldBegin, Zenon
<1>10. ASSUME UNCHANGED caller, NEW page \in Untouched, NEW length \in Sizes, munmap(page, length)
       PROVE  CallerInv'
  <2>1. free(page, length) /\ op = Idle
    BY <1>10, Zenon DEF munmap, free
  <2>2. ASSUME NEW b, NEW n, Hold(b, n), b = caller.base, n = align_up(caller.length), caller.phase \in {"zero", "drop"}
        PROVE  Hold(b, n)'
    <3>1. page \notin PagesOf(b, n)
      BY <1>2, <1>10, <2>2, Zenon DEF Untouched, Fresh
    <3> QED
      BY <2>1, <2>2, <3>1, HoldBegin, Zenon
  <2> QED
    BY <1>3, <1>4, <1>10, <2>1, <2>2, Zenon
<1>11. ASSUME UNCHANGED caller, NEW page \in Untouched, NEW part \in 0 .. FrameSize - 1, NEW length \in Sizes,
              NEW request \in Requests, mprotect(page + part, length, request)
       PROVE  CallerInv'
  <2>1. page \in Window /\ page \in Int /\ Aligned(page)
    BY <1>11, PartOfPage DEF Untouched
  <2>2. \/ op = Idle /\ Refuse("INVALID_ADDRESS")
        \/ \E size \in Int, prot \in Prots : protect(page, size, prot)
    BY <1>11, <2>1, MprotectIsProtect, Zenon
  <2>3. op = Idle
    BY <2>2, Zenon DEF protect
  <2>4. ASSUME NEW b, NEW n, Hold(b, n), b = caller.base, n = align_up(caller.length), caller.phase \in {"zero", "drop"}
        PROVE  Hold(b, n)'
    <3>1. page \notin PagesOf(b, n)
      BY <1>2, <1>11, <2>4, Zenon DEF Untouched, Fresh
    <3>2. CASE Refuse("INVALID_ADDRESS")
      BY <1>2, <2>4, <3>2, Zenon DEF Hold, Held, Live, Writable, Refuse, Return, window_vars
    <3>3. ASSUME NEW size \in Int, NEW prot \in Prots, protect(page, size, prot) PROVE Hold(b, n)'
      BY <2>1, <2>4, <3>1, <3>3, HoldProtect, Zenon
    <3> QED
      BY <2>2, <3>2, <3>3, Zenon
  <2> QED
    BY <1>3, <1>4, <1>11, <2>3, <2>4, Zenon
<1>12. CASE UNCHANGED posix_vars
  BY <1>12, Zenon DEF posix_vars, vars, window_vars, CallerInv, Allocating, Hold, Held, Live, Writable, align_up
<1> QED
  BY <1>5, <1>6, <1>7, <1>8, <1>9, <1>10, <1>11, <1>12 DEF PosixNext

LEMMA PosixInductive == PosixSpec => [](IInv /\ CallerInv)
<1>1. PosixInit => IInv /\ CallerInv
  BY InitIInv, Zenon DEF PosixInit, CallerInv
<1> QED
  BY <1>1, PosixKeeps, CallerKeeps, PTL DEF PosixSpec

\* The table of ranges and the page tables agree, as in WindowAlwaysSound, when the callers are
\* mmap, munmap and mprotect (mm/posix/stub_impl.cpp), whatever addresses and lengths they pass.
THEOREM PosixWindowSound == PosixSpec => []WindowSound
  BY PosixInductive, PTL DEF IInv

\* mmap clears the memory that it hands out and never faults or panics, and the memory is
\* writable exactly if that was asked for, and executable exactly if that was asked for without
\* write access, although mmap gives the lock of the virtual memory manager back between its
\* calls (stub_impl.cpp:35-57): the range it was given stays in the table and writable meanwhile.
THEOREM MmapAlwaysSound == PosixSpec => MmapSound
<1>1. CallerInv => MmapNeverStops
  BY DEF CallerInv, MmapNeverStops, NoCaller
<1>2. ASSUME IInv, CallerInv, PosixNext, caller.phase \in {"zero", "drop"}, caller' = NoCaller, NEW va \in Fresh
      PROVE  /\ mapping'[va].frame = mapping[va].frame
             /\ Writes(mapping'[va].prot) <=> "WRITE" \in caller.request
             /\ Executes(mapping'[va].prot) <=> "EXEC" \in caller.request /\ "WRITE" \notin caller.request
  <2>1. /\ caller # NoCaller
        /\ Writable(Fresh)
    BY <1>2, CallerTypes, Zenon DEF CallerInv, Hold, Fresh
  <2>2. mmap_zero \/ mmap_drop
    BY <1>2, <2>1, Zenon DEF PosixNext, page_step, mmap
  <2>3. CASE mmap_zero
    <3>1. mapping'[va] = mapping[va] /\ mapping[va].prot = "data"
      BY <1>2, <2>1, <2>3, Zenon DEF mmap_zero, vars, window_vars, Writable
    <3>2. "WRITE" \in caller.request
      <4>1. caller \in [phase : {"alloc", "zero", "drop"}, base : Int, length : Sizes \ {0}, request : Requests]
        BY <1>2, <2>1, Zenon DEF CallerInv
      <4>2. caller' # [caller EXCEPT !.phase = "drop"] /\ caller' # [caller EXCEPT !.phase = "fault"]
        BY <1>2, <4>1, Zenon DEF NoCaller
      <4> QED
        BY <2>3, <4>2, Zenon DEF mmap_zero
    <3> QED
      BY <3>1, <3>2, Conversions, Zenon
  <2>4. CASE mmap_drop
    <3>1. "WRITE" \notin caller.request /\ caller.phase = "drop"
      BY <1>2, <2>1, <2>4, Zenon DEF CallerInv, mmap_drop
    <3>2. mapping'[va] = [mapping[va] EXCEPT !.prot = dropped(caller.request)] /\ va \in Window
      BY <1>2, <2>4, DropSucceeds, Zenon
    <3>3. PICK prot : prot = dropped(caller.request)
      BY Zenon
    <3>4. [mapping[va] EXCEPT !.prot = prot].frame = mapping[va].frame /\ [mapping[va] EXCEPT !.prot = prot].prot = prot
      BY <1>2, <3>2, EntryChanged
    <3>5. mapping'[va].frame = mapping[va].frame /\ mapping'[va].prot = dropped(caller.request)
      BY <3>2, <3>3, <3>4, Zenon
    <3> QED
      BY <3>1, <3>5, Conversions, Zenon
  <2> QED
    BY <2>2, <2>3, <2>4, Zenon
<1>3. IInv /\ CallerInv /\ [PosixNext]_posix_vars => [MmapGrants]_posix_vars
  BY <1>2, Zenon DEF MmapGrants
<1> QED
  BY <1>1, <1>3, PosixInductive, PTL DEF PosixSpec, MmapSound
-----------------------------------------------------------------------------
(***************************************************************************)
(* mprotect.                                                               *)
(***************************************************************************)

\* Remainders of what is less than one Space outside.
LEMMA ModOnce ==
    ASSUME NEW a \in Nat, Space <= a, a < 2 * Space
    PROVE  a % Space = a - Space
<1>1. Space \in Nat /\ Space > 0 /\ a \div Space \in Nat /\ a % Space \in 0 .. Space - 1
      /\ a = Space * (a \div Space) + (a % Space)
  BY Layout
<1>2. PICK q \in Nat, r \in 0 .. Space - 1 : a = Space * q + r /\ r = a % Space
  BY <1>1, Zenon
<1>3. q = 1
  <2>1. CASE q = 0
    BY <1>1, <1>2, <2>1
  <2>2. CASE q > 1
    <3>1. PICK k \in Nat : q = k + 2
      <4>1. q - 2 \in Nat /\ q = (q - 2) + 2
        BY <1>2, <2>2
      <4> QED
        BY <4>1, Zenon
    <3>2. Space * q = Space * k + 2 * Space
      BY <1>1, <3>1
    <3>3. Space * k \in Nat
      BY <1>1, <3>1
    <3> QED
      BY <1>1, <1>2, <3>2, <3>3
  <2> QED
    BY <1>2, <2>1, <2>2
<1> QED
  BY <1>1, <1>2, <1>3

LEMMA ModBelow ==
    ASSUME NEW a \in Int, a < 0, 0 <= a + Space
    PROVE  a % Space = a + Space
<1>1. Space \in Nat /\ Space > 0 /\ a \div Space \in Int /\ a % Space \in 0 .. Space - 1
      /\ a = Space * (a \div Space) + (a % Space)
  BY Layout
<1>2. PICK q \in Int, r \in 0 .. Space - 1 : a = Space * q + r /\ r = a % Space
  BY <1>1, Zenon
<1>3. q = -1
  <2>1. CASE q >= 0
    <3>1. Space * q >= 0 /\ Space * q \in Int
      BY <1>1, <2>1
    <3> QED
      BY <1>1, <1>2, <3>1
  <2>2. CASE q < -1
    <3>1. PICK k \in Nat : q = -2 - k
      <4>1. -2 - q \in Nat /\ q = -2 - (-2 - q)
        BY <1>2, <2>2
      <4> QED
        BY <4>1, Zenon
    <3>2. Space * q = -2 * Space - Space * k
      BY <1>1, <3>1
    <3>3. Space * k \in Nat
      BY <1>1, <3>1
    <3> QED
      BY <1>1, <1>2, <3>2, <3>3
  <2> QED
    BY <1>2, <2>1, <2>2
<1> QED
  BY <1>1, <1>2, <1>3

\* align_up gives a multiple also where it wraps, and gives multiples back as they are.
LEMMA AlignUpAny ==
    ASSUME NEW a \in Nat
    PROVE  /\ align_up(a) \in Nat /\ align_up(a) < Space /\ Aligned(align_up(a))
           /\ Aligned(a) /\ a < Space => align_up(a) = a
           /\ a < Space /\ a + FrameSize > Space => align_up(a) = 0
<1> DEFINE c == (a + FrameSize - 1) % Space
<1>1. FrameSize \in Nat /\ FrameSize > 0 /\ Space \in Nat /\ Space > 0 /\ c \in Nat /\ c < Space
  BY Layout
<1>2. /\ align_down(c) \in Nat /\ Aligned(align_down(c))
      /\ align_down(c) <= c /\ c < align_down(c) + FrameSize
  BY <1>1, AlignDown, Zenon
<1>3. align_up(a) = align_down(c)
  <2>1. align_up(a) = align_down(c) % Space
    BY Zenon DEF align_up, align_down
  <2> HIDE DEF c
  <2> QED
    BY <1>1, <1>2, <2>1
<1>4. ASSUME Aligned(a), a < Space PROVE align_up(a) = a
  <2>1. a + FrameSize <= Space
    BY <1>1, <1>4, AlignedStep, Layout
  <2>2. a <= align_up(a) /\ align_up(a) <= a /\ align_up(a) \in Nat
    BY <1>4, <2>1, AlignUp
  <2> QED
    BY <2>2
<1>5. ASSUME a < Space, a + FrameSize > Space PROVE align_up(a) = 0
  <2>1. c = a + FrameSize - 1 - Space
    <3>1. a + FrameSize - 1 >= Space
      BY <1>1, <1>5
    <3>2. a + FrameSize - 1 < 2 * Space
      <4>1. FrameSize <= Space
        BY <1>1, Layout, AlignedStep
      <4> QED
        BY <1>1, <1>5, <4>1
    <3> QED
      BY <1>1, <3>1, <3>2, ModOnce
  <2>2. c < FrameSize
    BY <1>1, <1>5, <2>1
  <2> HIDE DEF c
  <2>3. ~ (0 < align_down(c))
    BY <1>1, <1>2, <2>2, Layout, AlignedStep
  <2> QED
    BY <1>2, <1>3, <2>3
<1> HIDE DEF c
<1> QED
  BY <1>1, <1>2, <1>3, <1>4, <1>5

\* The end of the pages that mprotect passes on is the one protect computes from them.
LEMMA EndAgain ==
    ASSUME NEW page \in Nat, NEW last \in Nat, page < Space, last < Space, Aligned(last)
    PROVE  align_up((page + ((last - page) % Space)) % Space) = last
<1>1. Space \in Nat /\ Space > 0
  BY Layout, Zenon
<1>2. (page + ((last - page) % Space)) % Space = last
  <2>1. CASE page <= last
    <3>1. (last - page) % Space = last - page
      BY <1>1, <2>1
    <3> QED
      BY <1>1, <3>1
  <2>2. CASE last < page
    <3>1. (last - page) % Space = last - page + Space
      BY <1>1, <2>2, ModBelow
    <3>2. page + ((last - page) % Space) = last + Space
      BY <1>1, <3>1
    <3>3. (last + Space) % Space = last
      BY <1>1, ModOnce
    <3> QED
      BY <3>2, <3>3, Zenon
  <2> QED
    BY <2>1, <2>2
<1> QED
  BY <1>2, AlignUpAny, Zenon

\* Which pages lie below the end that mprotect computes, when protect accepts it.
LEMMA MprotectRange ==
    ASSUME NEW page \in Window, NEW part \in 0 .. FrameSize - 1, NEW length \in Addresses, length # 0,
           page < align_up((page + part + length) % Space), NEW va \in Window
    PROVE  va \in PagesOf(page, align_up((page + part + length) % Space) - page)
             <=> IF page + part + length < Space
                 THEN va < page + part + length /\ page + part < va + FrameSize
                 ELSE va = page
<1> DEFINE sum == page + part + length
           last == align_up(sum % Space)
<1>1. /\ page \in Nat /\ Aligned(page) /\ VmallocBase <= page /\ page < VmallocEnd /\ page + part \in Nat
      /\ part \in Nat /\ part < FrameSize /\ length \in Nat /\ length < Space /\ FrameSize \in Nat /\ FrameSize > 0
      /\ Space \in Nat /\ Space > 0 /\ VmallocEnd \in Nat /\ VmallocEnd + FrameSize <= Space
  BY PartOfPage, Layout DEF Addresses
<1>2. va \in Nat /\ Aligned(va)
  <2>1. 0 \in 0 .. FrameSize - 1
    BY <1>1
  <2> QED
    BY <2>1, PartOfPage, Zenon
<1>3. page + FrameSize <= VmallocEnd
  BY <1>1, AlignedStep, Layout
<1>4. sum \in Nat /\ sum % Space \in Nat /\ sum % Space < Space
  BY <1>1
<1>5. last \in Nat /\ last < Space /\ Aligned(last)
  BY <1>4, AlignUpAny, Zenon
<1>6. va \in PagesOf(page, last - page) <=> page <= va /\ va < last
  BY <1>1, <1>2, <1>5, Pages
<1>7. page < last
  BY Zenon
<1>8. CASE sum < Space
  <2>1. sum % Space = sum
    BY <1>1, <1>4, <1>8
  <2>2. sum + FrameSize <= Space
    <3>1. ~ (sum + FrameSize > Space)
      BY <1>1, <1>4, <1>7, <1>8, <2>1, AlignUpAny
    <3> QED
      BY <1>1, <1>4, <3>1
  <2>3. sum <= last /\ \A b \in Int : Aligned(b) /\ sum <= b => last <= b
    BY <1>4, <2>1, <2>2, AlignUp, Zenon
  <2> HIDE DEF last, sum
  <2>4. va < last <=> va < sum
    BY <1>2, <1>4, <1>5, <2>3
  <2>5. page <= va <=> page + part < va + FrameSize
    <3>1. CASE page <= va
      BY <1>1, <1>2, <3>1
    <3>2. CASE va < page
      BY <1>1, <1>2, <3>2, AlignedStep
    <3> QED
      BY <1>1, <1>2, <3>1, <3>2
  <2>6. va \in PagesOf(page, last - page) <=> va < sum /\ page + part < va + FrameSize
    BY <1>6, <2>4, <2>5, Zenon
  <2> QED
    BY <1>8, <2>6, Zenon DEF last, sum
<1>9. CASE ~ (sum < Space)
  <2>1. Space <= sum /\ sum < 2 * Space /\ sum - Space \in Nat /\ sum - Space < page + FrameSize
    BY <1>1, <1>3, <1>4, <1>9
  <2>2. sum % Space = sum - Space
    BY <1>4, <2>1, ModOnce, Zenon
  <2>3. sum - Space + FrameSize <= Space
    BY <1>1, <1>3, <1>4, <2>1
  <2>4. page + FrameSize \in Int /\ Aligned(page + FrameSize)
    BY <1>1, AlignedNext
  <2>5. last <= page + FrameSize
    <3>1. PICK w \in Nat : w = sum - Space /\ w + FrameSize <= Space /\ w <= page + FrameSize
      BY <1>1, <1>4, <2>1, <2>3
    <3>2. align_up(w) <= page + FrameSize
      BY <2>4, <3>1, AlignUp, Zenon
    <3> QED
      BY <2>2, <3>1, <3>2, Zenon
  <2>6. page + FrameSize <= last
    BY <1>1, <1>5, <1>7, AlignedStep
  <2> HIDE DEF last, sum
  <2>7. page <= va /\ va < last <=> va = page
    <3>1. CASE va > page
      BY <1>1, <1>2, <1>5, <2>5, <3>1, AlignedStep
    <3>2. CASE va <= page
      BY <1>1, <1>2, <1>5, <1>7, <3>2
    <3> QED
      BY <1>1, <1>2, <3>1, <3>2
  <2> QED
    BY <1>6, <1>9, <2>7, Zenon DEF last, sum
<1> QED
  BY <1>8, <1>9, Zenon

\* mprotect (stub_impl.cpp:66-95) changes every page that overlaps its range and no other, for
\* every page size, address and length; of a range that wraps past the end of the address space
\* it accepts the one that ends in its own first page, and changes that page.
THEOREM MprotectAlwaysExact == PosixSpec => MprotectExact
<1> DEFINE Overlaps(page, part, length, va) ==
             IF page + part + length < Space
             THEN va < page + part + length /\ page + part < va + FrameSize
             ELSE va = page
           Granted(va, request) ==
             /\ mapping'[va].frame = mapping[va].frame
             /\ Writes(mapping'[va].prot) <=> "WRITE" \in request
             /\ Executes(mapping'[va].prot) <=> "EXEC" \in request
           Exact ==
             op = Idle /\ op' = Idle /\ answer' = "ok" /\ UNCHANGED caller =>
               \A page \in Window, part \in 0 .. FrameSize - 1, length \in Sizes \ {0}, request \in Requests :
                  mprotect(page + part, length, request) =>
                    \A va \in Window : IF Overlaps(page, part, length, va) THEN Granted(va, request)
                                       ELSE mapping'[va] = mapping[va]
<1>1. ASSUME IInv, answer' = "ok", NEW page \in Window, NEW part \in 0 .. FrameSize - 1,
             NEW length \in Sizes \ {0}, NEW request \in Requests, mprotect(page + part, length, request),
             NEW va \in Window
      PROVE  IF Overlaps(page, part, length, va) THEN Granted(va, request) ELSE mapping'[va] = mapping[va]
  <2> DEFINE last == align_up((page + part + length) % Space)
  <2>1. PICK bytes \in Int, prot \in Prots :
           bytes = (last - page) % Space /\ prot = page_prot(request) /\ protect(page, bytes, prot)
    <3>1. ~ Refuse("INVALID_ADDRESS")
      BY <1>1, Zenon DEF Refuse, Return
    <3> QED
      BY <1>1, <3>1, MprotectIsProtect, Zenon
  <2>2. page \in Nat /\ page < Space /\ length \in Addresses /\ length # 0
    BY <1>1, PartOfPage, Layout, CallerAssumption
  <2>3. last \in Nat /\ last < Space /\ Aligned(last)
    <3>1. (page + part + length) % Space \in Nat
      BY <2>2, Layout DEF Addresses
    <3> QED
      BY <3>1, AlignUpAny, Zenon
  <2> HIDE DEF last
  <2>4. align_up((page + bytes) % Space) = last
    BY <2>1, <2>2, <2>3, EndAgain, Zenon
  <2>5. ~ Refuse("INVALID_ADDRESS")
    BY <1>1, Zenon DEF Refuse, Return
  <2>6. /\ mapping' = [w \in Window |-> IF w \in PagesOf(page, last - page)
                                        THEN [mapping[w] EXCEPT !.prot = prot] ELSE mapping[w]]
        /\ page < last
    <3>1. page \in Int
      BY <2>2
    <3>2. /\ mapping' = [w \in Window |-> IF w \in PagesOf(page, align_up((page + bytes) % Space) - page)
                                          THEN [mapping[w] EXCEPT !.prot = prot] ELSE mapping[w]]
          /\ page < align_up((page + bytes) % Space)
      BY <1>1, <2>1, <2>5, <3>1, ProtectEffect
    <3> QED
      BY <2>4, <3>2, Zenon
  <2>7. va \in PagesOf(page, last - page)
             <=> IF page + part + length < Space
                 THEN va < page + part + length /\ page + part < va + FrameSize
                 ELSE va = page
    BY <1>1, <2>2, <2>6, MprotectRange, Zenon DEF last
  <2>8. mapping'[va] = IF Overlaps(page, part, length, va) THEN [mapping[va] EXCEPT !.prot = prot] ELSE mapping[va]
    BY <1>1, <2>6, <2>7, Zenon
  <2>9. [mapping[va] EXCEPT !.prot = prot].frame = mapping[va].frame /\ [mapping[va] EXCEPT !.prot = prot].prot = prot
    BY <1>1, EntryChanged, Zenon
  <2> QED
    BY <2>1, <2>8, <2>9, Conversions, Zenon
<1>2. IInv /\ [PosixNext]_posix_vars => [Exact]_posix_vars
  BY <1>1, Zenon
<1> QED
  BY <1>2, PosixInductive, PTL DEF PosixSpec, MprotectExact
-----------------------------------------------------------------------------
(***************************************************************************)
(* Frames and the MMIO window, with these callers.                         *)
(***************************************************************************)

LEMMA PosixFrames == IInv /\ CallerInv /\ FramesApart /\ [PosixNext]_posix_vars => FramesApart'
<1> SUFFICES ASSUME IInv, CallerInv, FramesApart, [PosixNext]_posix_vars PROVE FramesApart'
  BY Zenon
<1>1. CASE page_step
  BY <1>1, BackFrames, ReleaseFrames, MmioFrames, Zenon DEF page_step, Step
<1>2. ASSUME NEW valid, NEW length, NEW request, mmap(valid, length, request), UNCHANGED mmio_vars
      PROVE  FramesApart'
  <2>1. CASE alloc(length, "data")
    BY <1>2, <2>1, BeginFrames, Zenon
  <2>2. CASE Refuse("INVALID_ADDRESS")
    BY <1>2, <2>2, FramesKept, Zenon DEF Refuse, window_vars, mmio_vars
  <2> QED
    BY <1>2, <2>1, <2>2, Zenon DEF mmap
<1>3. CASE mmap_zero \/ UNCHANGED posix_vars
  BY <1>3, FramesKept, Zenon DEF mmap_zero, posix_vars, vars, window_vars, mmio_vars
<1>4. CASE mmap_drop
  <2>1. caller.base \in Int /\ caller.length \in Int /\ dropped(caller.request) \in Prots
    BY <1>4, CallerTypes, Conversions DEF mmap_drop
  <2> QED
    BY <1>4, <2>1, ProtectFrames, Zenon DEF mmap_drop
<1>5. CASE \E pa, bytes : map_mmio(pa, bytes)
  BY <1>5, BeginFrames, Zenon
<1>6. CASE UNCHANGED mmio_vars /\ \E length, prot : alloc(length, prot)
  BY <1>6, BeginFrames, Zenon
<1>7. CASE UNCHANGED mmio_vars /\ \E page, length : munmap(page, length)
  BY <1>7, BeginFrames, Zenon DEF munmap
<1>8. ASSUME UNCHANGED mmio_vars, NEW page \in Untouched, NEW part \in 0 .. FrameSize - 1,
             NEW length \in Sizes, NEW request \in Requests, mprotect(page + part, length, request)
      PROVE  FramesApart'
  <2>1. page \in Window /\ page \in Int
    BY <1>8, PartOfPage DEF Untouched
  <2>2. CASE Refuse("INVALID_ADDRESS")
    BY <1>8, <2>2, FramesKept, Zenon DEF Refuse, window_vars, mmio_vars
  <2>3. ASSUME NEW bytes \in Int, NEW prot \in Prots, protect(page, bytes, prot) PROVE FramesApart'
    BY <1>8, <2>1, <2>3, ProtectFrames, Zenon
  <2> QED
    BY <1>8, <2>1, <2>2, <2>3, MprotectIsProtect, Zenon
<1> QED
  BY <1>1, <1>2, <1>3, <1>4, <1>5, <1>6, <1>7, <1>8 DEF PosixNext

\* No frame is lost or has two places (vmm.cpp:64-101) under mmap, munmap and mprotect either.
THEOREM PosixFramesAccounted == PosixSpec => []FramesConserved
<1>1. PosixInit => FramesApart
  BY Zenon DEF PosixInit, Init, FramesApart, Used
<1>2. IInv => TypeOK
  BY Zenon DEF IInv, WindowSound
<1> QED
  BY <1>1, <1>2, PosixInductive, PosixFrames, FramesCounted, PTL DEF PosixSpec

\* map_mmio (vmm.cpp:185-207) answers truly, as in MmioAnswersTrue, beside these callers.
THEOREM PosixMmioAnswers == PosixSpec => MmioAnswers
<1> DEFINE True == op.kind = "mmio" /\ op' = Idle =>
                     /\ answer' = "ok" => \A page \in MmioRange : mmio'[page] = "granted"
                     /\ answer' = "CONFLICT" => \E page \in MmioRange : mmio[page] = "granted"
                     /\ answer' = "OUT_OF_MEMORY" => pool' = {} /\ \E page \in MmioRange : mmio'[page] = "unmapped"
<1>1. ASSUME PosixNext, op.kind = "mmio" PROVE mmio_step \/ UNCHANGED vars
  <2>1. op # Idle
    BY <1>1, IdleType, Zenon
  <2>2. ~ mmap_drop
    BY <2>1, Zenon DEF mmap_drop, protect
  <2>3. \A address, length, request : ~ mprotect(address, length, request)
    BY <2>1, Zenon DEF mprotect, protect
  <2>4. \A page, length : ~ munmap(page, length)
    BY <2>1, Zenon DEF munmap, free
  <2>5. \A length, prot : ~ alloc(length, prot) /\ ~ map_mmio(length, prot)
    BY <2>1, Zenon DEF alloc, map_mmio
  <2>6. \A valid, length, request : ~ mmap(valid, length, request)
    BY <2>1, <2>5, Zenon DEF mmap
  <2>7. ~ back /\ ~ release
    BY <1>1, Zenon DEF back, release
  <2> QED
    BY <1>1, <2>2, <2>3, <2>4, <2>5, <2>6, <2>7, Zenon DEF PosixNext, page_step, Step, mmap_zero
<1>2. IInv /\ [PosixNext]_posix_vars => [True]_vars
  BY <1>1, MmioAnswerTrue, Zenon DEF posix_vars
<1> QED
  BY <1>2, PosixInductive, PTL DEF PosixSpec, MmioAnswers
=============================================================================
