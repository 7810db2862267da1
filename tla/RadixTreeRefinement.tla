------------------------ MODULE RadixTreeRefinement -------------------------
(***************************************************************************)
(* That the page tables implement an address space: every step of          *)
(* RadixTree is a step of AddressSpace on the translations of the pages,   *)
(* for every format, every set of calls and every number of frames.        *)
(***************************************************************************)
EXTENDS RadixTreeProofs

-----------------------------------------------------------------------------
(***************************************************************************)
(* Addresses in a range, and alignment.                                    *)
(***************************************************************************)

\* Addresses are computed modulo Space, but inside a page that does not matter.
LEMMA ModuloPlus ==
    ASSUME NEW x \in Nat, NEW k \in Nat, (x % Space) + k < Space
    PROVE  (x + k) % Space = (x % Space) + k
<1> PICK d \in Nat \ {0} : d = Space
  BY FormatFacts, Zenon
<1> PICK q, r : q = x \div d /\ r = x % d
  BY Zenon
<1>1. q \in Int /\ r \in 0 .. d - 1 /\ x = d * q + r
  BY Division
<1>2. PICK a \in Int : a = x + k
  OBVIOUS
<1>3. PICK p \in Int : p = d * q
  BY <1>1
<1>4. a = p + (r + k) /\ r + k \in 0 .. d - 1
  BY <1>1, <1>2, <1>3
<1>5. PICK s \in 0 .. d - 1 : s = r + k
  BY <1>4, Zenon
<1>6. a = d * q + s
  BY <1>3, <1>4, <1>5, Zenon
<1>7. a % d = s
  BY <1>1, <1>6, Quotient, Zenon
<1> QED
  BY <1>2, <1>5, <1>7, Zenon

\* The offset of an address in a range is found again from the address.
LEMMA OffsetOf ==
    ASSUME NEW va \in Nat, NEW o \in 0 .. Space - 1, NEW v, v = (va + o) % Space
    PROVE  v \in 0 .. Space - 1 /\ (v - va) % Space = o
<1> PICK d \in Nat \ {0} : d = Space
  BY FormatFacts, Zenon
<1>0. PICK x \in Int : x = va + o /\ v = x % d
  OBVIOUS
<1> PICK q : q = x \div d
  BY Zenon
<1>1. q \in Int /\ v \in 0 .. d - 1 /\ x = d * q + v
  <2>1. x \div d \in Int /\ x % d \in 0 .. d - 1 /\ x = d * (x \div d) + (x % d)
    BY Division, Zenon
  <2> QED
    BY <1>0, <2>1, Zenon
<1>2. PICK a \in Int : a = v - va
  <2>1. v \in Int
    BY <1>1
  <2>2. v - va \in Int
    BY <2>1
  <2> QED
    BY <2>2, Zenon
<1>3. PICK p \in Int : p = d * q
  BY <1>1
<1>4. a = o - p
  BY <1>0, <1>1, <1>2, <1>3
<1>5. PICK n \in Int : n = 0 - q
  BY <1>1
<1>6. d * n = 0 - p
  BY <1>1, <1>3, <1>5
<1>7. a = d * n + o
  BY <1>3, <1>4, <1>6
<1>8. o \in 0 .. d - 1
  BY Zenon
<1>9. a % d = o
  BY <1>7, <1>8, Quotient, Zenon
<1> QED
  BY <1>1, <1>2, <1>9, Zenon

LEMMA AlignedStep ==
    ASSUME NEW a \in Nat, NEW l \in 1 .. Levels - 1, aligned(a, l + 1)
    PROVE  aligned(a, l)
<1>1. l \in 1 .. Levels /\ l + 1 \in 1 .. Levels
  BY FormatFacts
<1> PICK d \in Nat \ {0} : d = PagesAt(l)
  BY <1>1, FormatFacts, Zenon
<1> PICK e \in Nat \ {0} : e = Entries
  BY FormatFacts, Zenon
<1>2. PagesAt(l + 1) = e * d
  BY PagesAtStep, Zenon
<1>3. a % (e * d) = d * ((a \div d) % e) + (a % d)
  BY DivideTwice, Zenon
<1>4. a \in Int /\ a \div d \in Int
  OBVIOUS
<1>5. (a \div d) % e \in 0 .. e - 1 /\ a % d \in 0 .. d - 1
  BY <1>4, Division, Zenon
<1>6. PICK r \in Nat, s \in Nat : r = (a \div d) % e /\ s = a % d
  BY <1>5
<1>7. d * r \in Nat
  OBVIOUS
<1>8. d * r + s = 0
  BY <1>2, <1>3, <1>6, Zenon DEF aligned
<1>9. s = 0
  BY <1>7, <1>8
<1> QED
  BY <1>6, <1>9, Zenon DEF aligned

\* What is aligned for one size of page is aligned for every smaller one.
LEMMA AlignedBelow ==
    ASSUME NEW a \in Nat, NEW l \in 1 .. Levels, aligned(a, l), NEW k \in 1 .. l
    PROVE  aligned(a, k)
<1> DEFINE Bad == {d \in 0 .. l - 1 : ~aligned(a, l - d)}
<1>1. Levels \in Nat
  BY FormatFacts, Zenon
<1> SUFFICES ASSUME ~aligned(a, k) PROVE FALSE
  BY Zenon
<1>2. Bad \in SUBSET Nat /\ l - k \in Bad
  BY <1>1
<1>3. PICK d \in Bad : \A e \in Bad : d <= e
  <2> HIDE DEF Bad
  <2> QED
    BY <1>2, LeastElement, Zenon
<1>4. d # 0
  BY <1>1
<1>5. d - 1 \in 0 .. l - 1 /\ d - 1 \notin Bad
  BY <1>1, <1>3, <1>4
<1>6. aligned(a, l - (d - 1))
  BY <1>5, Zenon
<1>7. PICK j \in 1 .. Levels - 1 : j = l - d /\ j + 1 = l - (d - 1)
  BY <1>1, <1>4
<1>8. aligned(a, j)
  BY <1>6, <1>7, AlignedStep, Zenon
<1> QED
  BY <1>7, <1>8, Zenon

LEMMA AlignedIs ==
    ASSUME NEW a \in Nat, NEW l \in 1 .. Levels
    PROVE  aligned(a, l) <=> a = PagesAt(l) * Page(l, a)
<1>1. PICK r : r = a % PagesAt(l)
  BY Zenon
<1>2. PICK p : p = PagesAt(l) * Page(l, a)
  BY Zenon
<1>3. Page(l, a) \in Nat /\ PagesAt(l) \in Nat /\ r \in Nat /\ a = p + r
  BY <1>1, <1>2, PageParts, FormatFacts
<1>4. p \in Nat
  BY <1>2, <1>3
<1>5. r = 0 <=> a = p
  BY <1>3, <1>4
<1> QED
  BY <1>1, <1>2, <1>5, Zenon DEF aligned

LEMMA AlignedSum ==
    ASSUME NEW l \in 1 .. Levels, NEW a \in Nat, NEW b \in Nat, aligned(a, l), aligned(b, l)
    PROVE  aligned(a + b, l)
<1> PICK d \in Nat \ {0} : d = PagesAt(l)
  BY FormatFacts, Zenon
<1> PICK p \in Nat, q \in Nat : p = Page(l, a) /\ q = Page(l, b)
  BY PageParts, Zenon
<1>1. a = d * p /\ b = d * q
  BY AlignedIs, Zenon
<1>2. PICK s \in Int, c \in Int : s = p + q /\ c = a + b
  OBVIOUS
<1>3. c = d * s + 0
  <2>1. d * (p + q) = d * p + d * q
    OBVIOUS
  <2>2. d * s = d * p + d * q
    BY <1>2, <2>1, Zenon
  <2>3. PICK z \in Int : z = d * s
    BY <1>2
  <2>4. c = z
    BY <1>1, <1>2, <2>2, <2>3, Zenon
  <2> QED
    BY <2>3, <2>4
<1>4. 0 \in 0 .. d - 1
  OBVIOUS
<1>5. c % d = 0
  BY <1>3, <1>4, Quotient, Zenon
<1> QED
  BY <1>2, <1>5, Zenon DEF aligned

\* A whole page fits between two aligned addresses.
LEMMA AlignedGap ==
    ASSUME NEW l \in 1 .. Levels, NEW a \in Nat, NEW b \in Nat, aligned(a, l), aligned(b, l), a < b
    PROVE  a + PagesAt(l) <= b
<1> PICK d \in Nat \ {0} : d = PagesAt(l)
  BY FormatFacts, Zenon
<1> PICK p \in Int, q \in Int : p = Page(l, a) /\ q = Page(l, b)
  BY PageParts
<1>1. a = d * p /\ b = d * q
  BY AlignedIs, Zenon
<1>2. p < q \/ q <= p
  OBVIOUS
<1>3. CASE p < q
  <2>1. d * p + d <= d * q
    BY <1>3, ProductOrder, Zenon
  <2> QED
    BY <1>1, <2>1, Zenon
<1>4. CASE q < p
  <2>1. d * q + d <= d * p
    BY <1>4, ProductOrder, Zenon
  <2> QED
    BY <1>1, <2>1
<1>5. CASE q = p
  BY <1>1, <1>5
<1> QED
  BY <1>3, <1>4, <1>5

\* The addresses of the page that starts at an aligned address.
LEMMA AlignedPage ==
    ASSUME NEW l \in 1 .. Levels, NEW a \in Nat, aligned(a, l), NEW v \in Nat
    PROVE  /\ v \in a .. a + PagesAt(l) - 1 <=> Page(l, v) = Page(l, a)
           /\ Page(l, v) = Page(l, a) => v = a + (v % PagesAt(l)) /\ v % PagesAt(l) \in 0 .. PagesAt(l) - 1
<1>1. PICK base : base = a - (a % PagesAt(l)) /\ base = a
  BY DEF aligned
<1>2. v \in a .. a + PagesAt(l) - 1 <=> Page(l, v) = Page(l, a)
  BY <1>1, PageBase
<1>3. PICK r : r = v % PagesAt(l)
  BY Zenon
<1>4. r \in 0 .. PagesAt(l) - 1 /\ v = PagesAt(l) * Page(l, v) + r
  BY <1>3, PageParts, Zenon
<1>5. a = PagesAt(l) * Page(l, a)
  BY AlignedIs, Zenon
<1> QED
  BY <1>2, <1>3, <1>4, <1>5, Zenon

\* An address that is not aligned has its predecessor in its page.
LEMMA Predecessor ==
    ASSUME NEW l \in 1 .. Levels, NEW a \in Nat, ~aligned(a, l)
    PROVE  a - 1 \in Nat /\ Page(l, a - 1) = Page(l, a)
<1> PICK d \in Nat \ {0} : d = PagesAt(l)
  BY FormatFacts, Zenon
<1>0. PICK q, r : q = Page(l, a) /\ r = a % d
  BY Zenon
<1>1. q \in Nat /\ r \in 0 .. d - 1 /\ a = d * q + r
  BY <1>0, PageParts, Zenon
<1>2. r # 0
  BY <1>0, Zenon DEF aligned
<1>3. PICK p \in Nat : p = d * q
  BY <1>1
<1>4. a - 1 = p + (r - 1) /\ a - 1 \in Nat
  BY <1>1, <1>2, <1>3
<1>5. PICK b \in Int, s \in 0 .. d - 1 : b = a - 1 /\ s = r - 1
  BY <1>1, <1>2
<1>6. b = d * q + s /\ q \in Int
  BY <1>1, <1>3, <1>4, <1>5
<1>7. b \div d = q
  BY <1>6, Quotient, Zenon
<1> QED
  BY <1>0, <1>4, <1>5, <1>7, Zenon DEF Page
-----------------------------------------------------------------------------
(***************************************************************************)
(* What the changes of the tables do to the translations.                  *)
(***************************************************************************)

\* No leaf reaches across the address b.
Clean(m, b) == present(End(m, b)) => aligned(b, Reached(m, b))

\* The translation of va by an entry e of level l.
Translated(va, l, e) ==
    IF ~valid(va) \/ ~present(e) THEN NotMapped
    ELSE [frame |-> e.to + (va % PagesAt(l)), flags |-> e.flags]

LEMMA TranslationIs ==
    ASSUME NEW m, NEW va
    PROVE  Translation(m, va) = Translated(va, Reached(m, va), End(m, va))
BY Zenon DEF Translation, Translated, End

\* No page changes its translation, and no leaf comes to lie across an address.
Transparent(m, n) ==
    \A wa \in Pages : /\ Translation(n, wa) = Translation(m, wa)
                      /\ Clean(m, wa) => Clean(n, wa)

LEMMA KeptTransparent ==
    ASSUME NEW m, NEW n, NEW wa, EndKept(m, n, wa)
    PROVE  Translation(n, wa) = Translation(m, wa) /\ (Clean(m, wa) => Clean(n, wa))
BY TranslationIs, Zenon DEF EndKept, Clean

\* split: the pages of the large leaf are translated by the leaves of the new table.
LEMMA SplitTranslates ==
    ASSUME NEW l \in 2 .. Levels, NEW e \in {NoEntry} \cup LeafEntries, NEW va \in Nat,
           NEW x, x = NewTable(e, l)[index(l - 1, va)]
    PROVE  /\ Translated(va, l - 1, x) = Translated(va, l, e)
           /\ present(x) => present(e)
<1>1. PICK k \in 1 .. Levels - 1 : k = l - 1 /\ k + 1 = l /\ k \in 1 .. Levels
  BY FormatFacts
<1>2. PICK i \in Indexes : i = index(k, va)
  BY <1>1, PageType, Zenon
<1>3. CASE ~present(e)
  <2>1. NewTable(e, l) = EmptyTable
    BY <1>3, Zenon DEF NewTable
  <2>2. x = NoEntry
    BY <1>1, <1>2, <2>1, Zenon DEF EmptyTable
  <2>3. ~present(x)
    BY <2>2 DEF present, NoEntry
  <2> QED
    BY <1>3, <2>3, Zenon DEF Translated
<1>4. CASE present(e)
  <2>1. e \in LeafEntries /\ e.to \in Nat
    BY <1>4 DEF present, NoEntry, LeafEntries
  <2>2. NewTable(e, l) = split(e, l)
    BY <1>4, Zenon DEF NewTable
  <2>3. x = leaf_entry(e.to + i * PagesAt(k), e.flags)
    BY <1>1, <1>2, <2>2, Zenon DEF split
  <2>4. present(x) /\ x.to = e.to + i * PagesAt(k) /\ x.flags = e.flags
    BY <2>3 DEF present, leaf_entry
  <2> PICK d \in Nat \ {0} : d = PagesAt(k)
    BY <1>1, FormatFacts, Zenon
  <2> PICK s \in Nat \ {0} : s = Entries
    BY FormatFacts, Zenon
  <2>5. PagesAt(l) = s * d
    BY <1>1, PagesAtStep, Zenon
  <2>6. va % (s * d) = d * ((va \div d) % s) + (va % d)
    BY DivideTwice, Zenon
  <2>7. i = (va \div d) % s
    BY <1>2, Zenon DEF index
  <2>8. va % PagesAt(l) = d * i + (va % d)
    BY <2>5, <2>6, <2>7, Zenon
  <2>9. PICK r \in Nat : r = va % d
    OBVIOUS
  <2>10. i \in Nat /\ d * i = i * d /\ i * d \in Nat
    BY FormatFacts DEF Indexes
  <2>11. PICK w \in Nat : w = i * d
    BY <2>10, Zenon
  <2>12. (e.to + w) + r = e.to + (w + r)
    BY <2>1
  <2>13. x.to + (va % d) = e.to + (va % PagesAt(l))
    BY <2>4, <2>8, <2>9, <2>10, <2>11, <2>12, Zenon
  <2> QED
    BY <1>1, <1>4, <2>4, <2>13, Zenon DEF Translated
<1> QED
  BY <1>3, <1>4, Zenon

LEMMA LinkTransparent ==
    ASSUME NEW m, NEW pl, NEW lev, TreeAt(m, pl, lev), NEW va \in Pages, NEW l \in 2 .. Levels,
           l = Reached(m, va), NEW n, NEW c,
           TableLinked(m, n, pl, va, l, c, NewTable(End(m, va), l))
    PROVE  Transparent(m, n)
<1> SUFFICES ASSUME NEW wa \in Pages
             PROVE  Translation(n, wa) = Translation(m, wa) /\ (Clean(m, wa) => Clean(n, wa))
  BY Zenon DEF Transparent
<1>1. wa \in Nat /\ va \in Nat
  BY PagesNat, Zenon
<1>2. CASE Page(l, wa) # Page(l, va)
  <2>1. EndKept(m, n, wa)
    BY <1>2, Zenon DEF TableLinked
  <2> QED
    BY <2>1, KeptTransparent, Zenon
<1>3. CASE Page(l, wa) = Page(l, va)
  <2> PICK e : e = End(m, va)
    BY Zenon
  <2> PICK x : x = NewTable(e, l)[index(l - 1, wa)]
    BY Zenon
  <2>1. /\ Reached(m, wa) = l /\ End(m, wa) = e
        /\ Reached(n, wa) = l - 1 /\ End(n, wa) = x
    BY <1>3, Zenon DEF TableLinked
  <2>2. e \in {NoEntry} \cup LeafEntries
    BY <1>1, EndIs, Zenon
  <2>3. Translated(wa, l - 1, x) = Translated(wa, l, e) /\ (present(x) => present(e))
    BY <1>1, <2>2, SplitTranslates
  <2>4. Translation(n, wa) = Translation(m, wa)
    BY <2>1, <2>3, TranslationIs, Zenon
  <2>5. ASSUME Clean(m, wa), present(x) PROVE aligned(wa, l - 1)
    <3>1. aligned(wa, l)
      BY <2>1, <2>3, <2>5, Zenon DEF Clean
    <3>2. l \in 1 .. Levels /\ l - 1 \in 1 .. l
      BY FormatFacts
    <3> QED
      BY <1>1, <3>1, <3>2, AlignedBelow, Zenon
  <2>6. Clean(m, wa) => Clean(n, wa)
    BY <2>1, <2>5, Zenon DEF Clean
  <2> QED
    BY <2>4, <2>6, Zenon
<1> QED
  BY <1>2, <1>3, Zenon

LEMMA UnlinkTransparent ==
    ASSUME NEW m, NEW n, NEW p, NEW lev, NEW va, NEW l, NEW u,
           TableUnlinked(m, n, p, lev, va, l, u)
    PROVE  Transparent(m, n)
<1> SUFFICES ASSUME NEW wa \in Pages
             PROVE  Translation(n, wa) = Translation(m, wa) /\ (Clean(m, wa) => Clean(n, wa))
  BY Zenon DEF Transparent
<1>1. CASE Page(l + 1, wa) # Page(l + 1, va)
  <2>1. EndKept(m, n, wa)
    BY <1>1, Zenon DEF TableUnlinked
  <2> QED
    BY <2>1, KeptTransparent, Zenon
<1>2. CASE Page(l + 1, wa) = Page(l + 1, va)
  <2>1. End(m, wa) = NoEntry /\ End(n, wa) = NoEntry
    BY <1>2, Zenon DEF TableUnlinked
  <2>2. ~present(NoEntry)
    BY Zenon DEF present, NoEntry
  <2>3. Translation(m, wa) = NotMapped /\ Translation(n, wa) = NotMapped
    BY <2>1, <2>2, TranslationIs, Zenon DEF Translated
  <2> QED
    BY <2>1, <2>2, <2>3, Zenon DEF Clean
<1> QED
  BY <1>1, <1>2, Zenon

\* A leaf is written: the pages it covers get the translation it says, the others keep theirs.
LEMMA WriteTranslates ==
    ASSUME NEW m, NEW n, NEW pl, NEW lev, NEW va, NEW l, NEW e,
           LeafWritten(m, n, pl, lev, va, l, e), NEW wa \in Pages
    PROVE  /\ Page(l, wa) = Page(l, va) =>
                 /\ Translation(m, wa) = Translated(wa, l, End(m, va))
                 /\ Translation(n, wa) = Translated(wa, l, e)
           /\ Page(l, wa) # Page(l, va) => Translation(n, wa) = Translation(m, wa)
           /\ (present(e) => present(End(m, va))) /\ Clean(m, wa) => Clean(n, wa)
<1>1. CASE Page(l, wa) # Page(l, va)
  <2>1. EndKept(m, n, wa)
    BY <1>1, Zenon DEF LeafWritten
  <2> QED
    BY <1>1, <2>1, KeptTransparent, Zenon
<1>2. CASE Page(l, wa) = Page(l, va)
  <2>1. /\ Reached(m, wa) = l /\ End(m, wa) = End(m, va)
        /\ Reached(n, wa) = l /\ End(n, wa) = e
    BY <1>2, Zenon DEF LeafWritten
  <2> QED
    BY <1>2, <2>1, TranslationIs, Zenon DEF Clean
<1> QED
  BY <1>1, <1>2, Zenon

LEMMA UseTransparent ==
    ASSUME NEW m, NEW n, NEW pl, NEW lev, NEW va, NEW l, End(m, va) \in LeafEntries,
           LeafWritten(m, n, pl, lev, va, l, Used(End(m, va)))
    PROVE  Transparent(m, n)
<1> PICK e : e = End(m, va)
  BY Zenon
<1>1. /\ Used(e).kind = e.kind /\ Used(e).to = e.to /\ Used(e).flags = e.flags
  BY Zenon DEF Used, LeafEntries
<1>2. present(Used(e)) <=> present(e)
  BY <1>1, Zenon DEF present
<1>3. ASSUME NEW wa PROVE Translated(wa, l, Used(e)) = Translated(wa, l, e)
  BY <1>1, <1>2, Zenon DEF Translated
<1> SUFFICES ASSUME NEW wa \in Pages
             PROVE  Translation(n, wa) = Translation(m, wa) /\ (Clean(m, wa) => Clean(n, wa))
  BY Zenon DEF Transparent
<1>4. /\ Page(l, wa) = Page(l, va) => /\ Translation(m, wa) = Translated(wa, l, e)
                                      /\ Translation(n, wa) = Translated(wa, l, Used(e))
      /\ Page(l, wa) # Page(l, va) => Translation(n, wa) = Translation(m, wa)
      /\ (present(Used(e)) => present(e)) /\ Clean(m, wa) => Clean(n, wa)
  BY WriteTranslates
<1> QED
  BY <1>2, <1>3, <1>4, Zenon
-----------------------------------------------------------------------------
(***************************************************************************)
(* The refinement: every step is a step of AddressSpace on the             *)
(* translations of the pages.  The invariant says how far the operation in *)
(* progress has come.                                                      *)
(***************************************************************************)

\* The translation t is what the operation p wants at offset o of its range.
Wants(p, o, t) ==
    /\ p.kind = "map" => t = [frame |-> p.frame + o, flags |-> p.flags]
    /\ p.kind = "protect" => t # NotMapped /\ t.flags = p.flags
    /\ p.kind = "unmap" => t = NotMapped

\* The page at offset o of the range of p is as p wants it.
AsAsked(p, m, o) ==
    /\ (p.va + o) % Space \in Pages
    /\ Wants(p, o, Translation(m, (p.va + o) % Space))

\* The pages from the start of the range that are done.
Done == op.offset + (IF op.stage = "prune" THEN answer.pages ELSE 0)

\* The checks of the call, for every operation and for unmap_range.
RangeChecked ==
    op.kind # "idle" =>
       /\ aligned(op.length, op.level)
       /\ op.kind # "unmap" => op.stage = "leaf" /\ aligned(op.offset, op.level)
       /\ op.kind = "unmap" => /\ aligned(op.va, op.level)
                               /\ op.va + op.length <= Space /\ Done <= op.length

RangeDone == op.kind # "idle" => \A o \in 0 .. Done - 1 : AsAsked(op, mem, o)

\* split_at has left no leaf across the start, and later none across the end, of the range.
BoundariesClean ==
    op.kind = "unmap" =>
       /\ op.stage \notin {"split_first", "grow_first"} => Clean(mem, op.va)
       /\ LET end == op.va + op.length
          IN  op.stage \in {"leaf", "prune"} /\ end < Space /\ valid(end) => Clean(mem, end)

Progress == RangeChecked /\ RangeDone /\ BoundariesClean
-----------------------------------------------------------------------------
(***************************************************************************)
(* The steps of AddressSpace, in terms of the translations.                *)
(***************************************************************************)

\* The address space that the contents m of the tables make, and the call that p makes.
View(m) == [va \in Pages |-> Translation(m, va)]
CallOf(p) == IF p.kind = "idle" THEN NoCall
             ELSE [kind |-> p.kind, va |-> p.va, length |-> p.length,
                   frame |-> p.frame, flags |-> p.flags]

LEMMA ViewIs ==
    /\ [va \in Pages |-> translate(va)] = View(mem)
    /\ [va \in Pages |-> translate(va)]' = View(mem')
<1>1. ASSUME NEW va PROVE translate(va) = Translation(mem, va)
  BY TranslateIs, Zenon
<1>2. ASSUME NEW va PROVE translate(va)' = Translation(mem', va)
  BY Zenon DEF translate, Leaf, slot, reached_level, path, Translation, Slot, Reached, Walk,
               valid, Half
<1> QED
  BY <1>1, <1>2, Zenon DEF View

\* Neither a page nor the call nor the answer is seen to change.
LEMMA Unseen ==
    ASSUME \A wa \in Pages : Translation(mem', wa) = Translation(mem, wa),
           CallOf(op') = CallOf(op), answer' = answer
    PROVE  UNCHANGED Abstract!vars
<1>1. View(mem') = View(mem)
  BY Zenon DEF View
<1> QED
  BY <1>1, ViewIs, Zenon DEF Abstract!vars, CallOf

\* What a step of p does to a page v of its range: its translation was t and is s.
Touches(p, v, t, s) ==
    \E o \in 0 .. p.length - 1 :
       /\ v = (p.va + o) % Space
       /\ \/ p.kind = "map" /\ t = NotMapped /\ s = [frame |-> p.frame + o, flags |-> p.flags]
          \/ p.kind = "protect" /\ t # NotMapped /\ s = [frame |-> t.frame, flags |-> p.flags]
          \/ p.kind = "unmap" /\ t # NotMapped /\ s = NotMapped

\* The answer a reports the pages that change as one run of frames.
Reports(a, m, n) ==
    /\ a.status = "removed"
    /\ \E first \in Pages :
          /\ Translation(n, first) # Translation(m, first)
          /\ first .. first + a.pages - 1 =
               {v \in Pages : Translation(n, v) # Translation(m, v)}
          /\ \A v \in first .. first + a.pages - 1 :
                Translation(m, v).frame = a.frame + (v - first)

LEMMA CompleteIs ==
    ASSUME OpType, op.kind # "idle", NEW m, \A o \in 0 .. op.length - 1 : AsAsked(op, m, o)
    PROVE  Abstract!Complete(CallOf(op), View(m))
<1> PICK c : c = CallOf(op)
  BY Zenon
<1>1. /\ c.kind = op.kind /\ c.va = op.va /\ c.length = op.length /\ c.frame = op.frame
      /\ c.flags = op.flags
  BY Zenon DEF CallOf
<1>2. /\ op.kind \in {"map", "protect", "unmap"} /\ op.va \in Nat /\ Space \in Nat
      /\ op.length \in 0 .. Space - 1
  BY FormatFacts DEF OpType
<1>3. ASSUME NEW v \in Abstract!Range(c)
      PROVE  /\ v \in Pages
             /\ Wants(op, (v - c.va) % Space, Translation(m, v))
  <2>1. PICK o \in 0 .. op.length - 1 : v = (op.va + o) % Space
    BY <1>1, Zenon DEF Abstract!Range
  <2>2. AsAsked(op, m, o)
    BY Zenon
  <2>3. o \in 0 .. Space - 1
    BY <1>2
  <2>4. (v - op.va) % Space = o
    BY <1>2, <2>1, <2>3, OffsetOf, Zenon
  <2> QED
    BY <1>1, <2>1, <2>2, <2>4, Zenon DEF AsAsked
<1>4. Abstract!Range(c) \subseteq Pages
  BY <1>3, Zenon
<1>5. ASSUME NEW v \in Abstract!Range(c)
      PROVE  CASE c.kind = "map" -> View(m)[v] = Abstract!Wanted(c, v)
               [] c.kind = "protect" -> View(m)[v] # NotMapped /\ View(m)[v].flags = c.flags
               [] c.kind = "unmap" -> View(m)[v] = NotMapped
  <2>1. View(m)[v] = Translation(m, v) /\ Wants(op, (v - c.va) % Space, View(m)[v])
    BY <1>3, Zenon DEF View
  <2>2. CASE op.kind = "map"
    BY <1>1, <2>1, <2>2, Zenon DEF Wants, Abstract!Wanted
  <2>3. CASE op.kind = "protect"
    BY <1>1, <2>1, <2>3, Zenon DEF Wants
  <2>4. CASE op.kind = "unmap"
    BY <1>1, <2>1, <2>4, Zenon DEF Wants
  <2> QED
    BY <1>2, <2>2, <2>3, <2>4, Zenon
<1> QED
  BY <1>4, <1>5, Zenon DEF Abstract!Complete

LEMMA WorkIs ==
    ASSUME OpType, op.kind # "idle",
           \A v \in Pages : \/ Translation(mem', v) = Translation(mem, v)
                            \/ Touches(op, v, Translation(mem, v), Translation(mem', v)),
           op.kind = "unmap" => \/ \A v \in Pages : Translation(mem', v) = Translation(mem, v)
                                \/ Reports(answer', mem, mem'),
           \/ CallOf(op') = CallOf(op) /\ (op.kind # "unmap" => answer' = answer)
           \/ /\ op'.kind = "idle"
              /\ answer'.status = "ok" => \A o \in 0 .. op.length - 1 : AsAsked(op, mem', o)
    PROVE  Abstract!Next
<1> PICK c : c = CallOf(op)
  BY Zenon
<1> PICK f, g : f = View(mem) /\ g = View(mem')
  BY Zenon
<1>1. /\ c.kind = op.kind /\ c.va = op.va /\ c.length = op.length /\ c.frame = op.frame
      /\ c.flags = op.flags
  BY Zenon DEF CallOf
<1>2. /\ op.kind \in {"map", "protect", "unmap"} /\ op.va \in Nat /\ Space \in Nat
      /\ op.length \in 0 .. Space - 1
  BY FormatFacts DEF OpType
<1>3. c # NoCall
  BY <1>1 DEF NoCall
<1>4. \A v \in Pages : f[v] = Translation(mem, v) /\ g[v] = Translation(mem', v)
  BY Zenon DEF View
<1>5. Abstract!Changed = {v \in Pages : g[v] # f[v]}
  BY ViewIs, Zenon DEF Abstract!Changed
<1>6. ASSUME NEW v \in Abstract!Changed
      PROVE  /\ v \in Abstract!Range(c)
             /\ \/ c.kind = "map" /\ Abstract!MapPage(c, v, f[v], g[v])
                \/ c.kind = "protect" /\ Abstract!ProtectPage(c, f[v], g[v])
                \/ c.kind = "unmap" /\ Abstract!UnmapPage(f[v], g[v])
  <2>1. v \in Pages /\ Touches(op, v, f[v], g[v])
    BY <1>4, <1>5, Zenon
  <2>2. PICK o \in 0 .. op.length - 1 :
          /\ v = (op.va + o) % Space
          /\ \/ op.kind = "map" /\ f[v] = NotMapped /\ g[v] = [frame |-> op.frame + o, flags |-> op.flags]
             \/ op.kind = "protect" /\ f[v] # NotMapped /\ g[v] = [frame |-> f[v].frame, flags |-> op.flags]
             \/ op.kind = "unmap" /\ f[v] # NotMapped /\ g[v] = NotMapped
    BY <2>1, Zenon DEF Touches
  <2>3. v \in Abstract!Range(c)
    BY <1>1, <2>2, Zenon DEF Abstract!Range
  <2>4. (v - op.va) % Space = o
    <3>1. o \in 0 .. Space - 1
      BY <1>2
    <3> QED
      BY <1>2, <2>2, <3>1, OffsetOf, Zenon
  <2>5. Abstract!Wanted(c, v) = [frame |-> op.frame + o, flags |-> op.flags]
    BY <1>1, <2>4, Zenon DEF Abstract!Wanted
  <2> QED
    BY <1>1, <2>2, <2>3, <2>5, Zenon DEF Abstract!MapPage, Abstract!ProtectPage, Abstract!UnmapPage
<1>7. ASSUME c.kind = "unmap", Abstract!Changed # {} PROVE Abstract!Reported
  <2>1. Reports(answer', mem, mem')
    BY <1>1, <1>4, <1>5, <1>7
  <2>2. PICK first \in Pages :
          /\ Translation(mem', first) # Translation(mem, first)
          /\ first .. first + answer'.pages - 1 =
               {v \in Pages : Translation(mem', v) # Translation(mem, v)}
          /\ \A v \in first .. first + answer'.pages - 1 :
                Translation(mem, v).frame = answer'.frame + (v - first)
    BY <2>1, Zenon DEF Reports
  <2>3. Abstract!Changed = {v \in Pages : Translation(mem', v) # Translation(mem, v)}
    BY <1>4, <1>5
  <2>4. first \in Abstract!Changed /\ Abstract!Changed = first .. first + answer'.pages - 1
    BY <2>2, <2>3, Zenon
  <2>5. \A v \in Abstract!Changed : v \in Pages /\ f[v].frame = answer'.frame + (v - first)
    BY <1>4, <2>2, <2>3, <2>4, Zenon
  <2>6. answer'.status = "removed"
    BY <2>1, Zenon DEF Reports
  <2> QED
    BY <2>4, <2>5, <2>6, ViewIs, Zenon DEF Abstract!Reported
<1>8. \/ CallOf(op') = c /\ (c.kind # "unmap" => answer' = answer)
      \/ CallOf(op') = NoCall /\ (answer'.status = "ok" => Abstract!Complete(c, g))
  <2>1. CASE CallOf(op') = CallOf(op) /\ (op.kind # "unmap" => answer' = answer)
    BY <1>1, <2>1, Zenon
  <2>2. CASE /\ op'.kind = "idle"
             /\ answer'.status = "ok" => \A o \in 0 .. op.length - 1 : AsAsked(op, mem', o)
    <3>1. CallOf(op') = NoCall
      BY <2>2, Zenon DEF CallOf
    <3>2. answer'.status = "ok" => Abstract!Complete(c, g)
      BY <2>2, CompleteIs, Zenon
    <3> QED
      BY <3>1, <3>2, Zenon
  <2> QED
    BY <2>1, <2>2, Zenon
<1>9. Abstract!Work
  BY <1>3, <1>6, <1>7, <1>8, ViewIs, Zenon DEF Abstract!Work, CallOf
<1> QED
  BY <1>9, Zenon DEF Abstract!Next
-----------------------------------------------------------------------------
(***************************************************************************)
(* What the actions have in common.                                        *)
(***************************************************************************)
Implements == Abstract!Next \/ UNCHANGED Abstract!vars

LEMMA IdleProgress ==
    ASSUME op'.kind = "idle"
    PROVE  Progress'
BY Zenon DEF Progress, RangeChecked, RangeDone, BoundariesClean

\* The end of an operation that has changed nothing since the last step.
LEMMA FinishImplements ==
    ASSUME OpType, op.kind # "idle", NEW s, s # "ok", Finish(s), mem' = mem
    PROVE  Progress' /\ Implements
<1>1. op'.kind = "idle" /\ answer'.status # "ok"
  BY IdleType, Zenon DEF Finish, Answer
<1>2. Abstract!Next
  BY <1>1, WorkIs, Zenon
<1> QED
  BY <1>1, <1>2, IdleProgress, Zenon DEF Implements

\* The fields of p and q that make up the call, and where it stands.
SameCall(p, q) ==
    /\ p.kind = q.kind /\ p.va = q.va /\ p.length = q.length /\ p.level = q.level
    /\ p.frame = q.frame /\ p.flags = q.flags

LEMMA SameCallIs ==
    ASSUME NEW p, NEW q, SameCall(p, q)
    PROVE  CallOf(p) = CallOf(q) /\ \A m, o : AsAsked(p, m, o) <=> AsAsked(q, m, o)
<1>1. CallOf(p) = CallOf(q)
  BY Zenon DEF SameCall, CallOf
<1>2. ASSUME NEW m, NEW o PROVE AsAsked(p, m, o) <=> AsAsked(q, m, o)
  BY Zenon DEF SameCall, AsAsked, Wants
<1> QED
  BY <1>1, <1>2, Zenon

\* A step that callers cannot see.
LEMMA TransparentStep ==
    ASSUME OpType, Progress, Transparent(mem, mem'), answer' = answer, SameCall(op', op),
           op'.offset = op.offset, op'.stage = "prune" <=> op.stage = "prune",
           op.kind \in {"map", "protect"} => op'.stage = op.stage, BoundariesClean'
    PROVE  Progress' /\ Implements
<1>1. /\ op'.kind = op.kind /\ op'.va = op.va /\ op'.length = op.length /\ op'.level = op.level
  BY Zenon DEF SameCall
<1>2. Done' = Done
  BY Zenon DEF Done
<1>3. RangeChecked'
  BY <1>1, <1>2, Zenon DEF Progress, RangeChecked, aligned, OpType
<1>4. ASSUME NEW o, AsAsked(op, mem, o) PROVE AsAsked(op', mem', o)
  <2>1. AsAsked(op, mem', o)
    BY <1>4, Zenon DEF AsAsked, Transparent
  <2> QED
    BY <2>1, SameCallIs, Zenon
<1>5. RangeDone'
  BY <1>1, <1>2, <1>4, Zenon DEF Progress, RangeDone
<1>6. UNCHANGED Abstract!vars
  BY SameCallIs, Unseen, Zenon DEF Transparent
<1> QED
  BY <1>3, <1>5, <1>6, Zenon DEF Progress, Implements

\* The pages of the leaf at here, as offsets of the range.
LEMMA PagesHere ==
    ASSUME OpType, NEW va, va = here, NEW l \in 1 .. Levels, aligned(va, l)
    PROVE  /\ \A k \in 0 .. PagesAt(l) - 1 :
                 /\ (op.va + (op.offset + k)) % Space = va + k
                 /\ va + k \in 0 .. Space - 1 /\ Page(l, va + k) = Page(l, va)
                 /\ (va + k) % PagesAt(l) = k /\ (valid(va + k) <=> valid(va))
           /\ \A v \in Nat : Page(l, v) = Page(l, va) => \E k \in 0 .. PagesAt(l) - 1 : v = va + k
<1>1. va \in 0 .. Space - 1 /\ va \in Nat /\ Space \in Nat /\ PagesAt(l) \in Nat
      /\ op.va \in Nat /\ op.offset \in Nat
  BY HereType, FormatFacts DEF OpType
<1>2. ASSUME NEW k \in 0 .. PagesAt(l) - 1
      PROVE  /\ (op.va + (op.offset + k)) % Space = va + k
             /\ va + k \in 0 .. Space - 1 /\ Page(l, va + k) = Page(l, va)
             /\ (va + k) % PagesAt(l) = k /\ (valid(va + k) <=> valid(va))
  <2>1. Page(l, va + k) = Page(l, va) /\ (va + k) % PagesAt(l) = k
    BY <1>1, PagePlace, Zenon
  <2>2. PICK w \in Nat : w = va + k
    BY <1>1
  <2>3. w \in 0 .. Space - 1 /\ (valid(w) <=> valid(va))
    BY <1>1, <2>1, <2>2, PageValid, Zenon
  <2>4. PICK x \in Nat : x = op.va + op.offset
    BY <1>1
  <2>5. va = x % Space
    BY <2>4, Zenon DEF here
  <2>6. k \in Nat /\ (x % Space) + k < Space
    BY <1>1, <2>2, <2>3, <2>5
  <2>7. (x + k) % Space = (x % Space) + k
    BY <2>6, ModuloPlus, Zenon
  <2>8. op.va + (op.offset + k) = x + k
    BY <1>1, <2>4
  <2> QED
    BY <2>1, <2>2, <2>3, <2>5, <2>7, <2>8, Zenon
<1>3. ASSUME NEW v \in Nat, Page(l, v) = Page(l, va)
      PROVE  \E k \in 0 .. PagesAt(l) - 1 : v = va + k
  BY <1>1, <1>3, AlignedPage
<1> QED
  BY <1>2, <1>3, Zenon

\* On to the next leaf, or done, once the pages of this one are as asked.
LEMMA AdvanceImplements ==
    ASSUME OpType, RangeChecked, op.kind # "idle", NEW p \in Nat, Advance(p),
           \A o \in 0 .. op.offset + p - 1 : AsAsked(op, mem', o),
           op.kind # "unmap" => aligned(op.offset + p, op.level),
           op.kind = "unmap" =>
              /\ op.offset + p <= op.length /\ Clean(mem', op.va)
              /\ op.va + op.length < Space /\ valid(op.va + op.length) => Clean(mem', op.va + op.length)
    PROVE  /\ Progress'
           /\ \/ CallOf(op') = CallOf(op) /\ answer' = answer
              \/ /\ op'.kind = "idle"
                 /\ answer'.status = "ok" => \A o \in 0 .. op.length - 1 : AsAsked(op, mem', o)
<1>1. op.offset \in Nat /\ op.length \in Nat
  BY DEF OpType
<1>2. CASE op.offset + p >= op.length
  <2>1. op'.kind = "idle"
    BY <1>2, IdleType, Zenon DEF Advance, Finish
  <2>2. \A o \in 0 .. op.length - 1 : o \in 0 .. op.offset + p - 1
    BY <1>1, <1>2
  <2> QED
    BY <2>1, <2>2, IdleProgress, Zenon
<1>3. CASE ~(op.offset + p >= op.length)
  <2>1. op' = [op EXCEPT !.offset = @ + p, !.stage = "leaf", !.prune = 1] /\ answer' = answer
    BY <1>3, Zenon DEF Advance
  <2>2. /\ SameCall(op', op) /\ op'.offset = op.offset + p /\ op'.stage = "leaf"
    BY <2>1, Zenon DEF SameCall, OpType
  <2>3. op'.kind = op.kind /\ op'.va = op.va /\ op'.length = op.length /\ op'.level = op.level
    BY <2>2, Zenon DEF SameCall
  <2>4. Done' = op.offset + p
    BY <1>1, <2>2 DEF Done
  <2>5. RangeChecked'
    BY <2>2, <2>3, <2>4, Zenon DEF RangeChecked, aligned
  <2>6. \A o : AsAsked(op', mem', o) <=> AsAsked(op, mem', o)
    BY <2>2, SameCallIs, Zenon
  <2>7. RangeDone'
    <3>1. ASSUME NEW o \in 0 .. Done' - 1 PROVE AsAsked(op', mem', o)
      <4>1. o \in 0 .. op.offset + p - 1
        BY <1>1, <2>4
      <4>2. AsAsked(op, mem', o)
        BY <4>1, Zenon
      <4> QED
        BY <2>6, <4>2, Zenon
    <3> QED
      BY <3>1, Zenon DEF RangeDone
  <2>8. BoundariesClean'
    BY <2>2, <2>3, Zenon DEF BoundariesClean, valid, Half
  <2>9. CallOf(op') = CallOf(op)
    BY <2>2, SameCallIs, Zenon
  <2> QED
    BY <2>1, <2>5, <2>7, <2>8, <2>9 DEF Progress
<1> QED
  BY <1>2, <1>3, Zenon
-----------------------------------------------------------------------------
(***************************************************************************)
(* Every action is a step of the address space.                            *)
(***************************************************************************)

\* The walk of map_leaf, protect_leaf or split_at goes on.
LEMMA GrowTransparent ==
    ASSUME RadixInv, NEW va \in Pages, NEW l \in 1 .. Levels, Reached(mem, va) > l,
           NEW after, Grown(va, after)
    PROVE  Transparent(mem, mem') /\ op' = after /\ answer' = answer
<1> PICK lev \in [Tables -> 1 .. Levels] : TreeAt(mem, pool, lev)
  BY Zenon DEF RadixInv, Tree
<1>1. va \in Nat /\ Levels \in Nat
  BY PagesNat, FormatFacts, Zenon
<1>2. Reached(mem, va) \in 1 .. Levels
  BY <1>1, EndIs, Zenon
<1> PICK r \in 2 .. Levels : r = Reached(mem, va)
  BY <1>1, <1>2
<1>3. PICK c \in pool : TableLinked(mem, mem', pool, va, r, c, NewTable(End(mem, va), r))
  BY GrownTree, Zenon DEF RadixInv
<1>4. Transparent(mem, mem')
  BY <1>3, LinkTransparent, Zenon
<1> QED
  BY <1>4, Zenon DEF Grown

\* A leaf of the size asked for is written, or is there already: the pages it covers become
\* as asked, and those before it stay so.
LEMMA LeafImplements ==
    ASSUME RadixInv, Progress, op.kind \in {"map", "protect"}, NEW va, va = here,
           NEW l \in 1 .. Levels, l = op.level, valid(va), aligned(va, l),
           \A v \in Pages : Page(l, v) # Page(l, va) => Translation(mem', v) = Translation(mem, v),
           \A v \in Pages : Page(l, v) = Page(l, va) =>
              /\ Wants(op, op.offset + (v % PagesAt(l)), Translation(mem', v))
              /\ \/ Translation(mem', v) = Translation(mem, v)
                 \/ op.kind = "map" /\ Translation(mem, v) = NotMapped
                 \/ /\ op.kind = "protect" /\ Translation(mem, v) # NotMapped
                    /\ Translation(mem', v) = [frame |-> Translation(mem, v).frame, flags |-> op.flags],
           \A o \in 0 .. op.offset - 1 : AsAsked(op, mem', o),
           Advance(PagesAt(l))
    PROVE  Progress' /\ Implements
<1> PICK d \in Nat \ {0} : d = PagesAt(l)
  BY FormatFacts, Zenon
<1>1. /\ OpType /\ RangeChecked /\ op.offset \in Nat /\ op.length \in Nat /\ op.kind # "idle"
      /\ op.offset < op.length /\ aligned(op.length, l) /\ aligned(op.offset, l)
  BY DEF RadixInv, OpType, Progress, RangeChecked
<1>2. op.offset + d <= op.length
  BY <1>1, AlignedGap, Zenon
<1>3. aligned(op.offset + d, l)
  <2>1. aligned(d, l)
    BY DEF aligned
  <2> QED
    BY <1>1, <2>1, AlignedSum, Zenon
<1>4. ASSUME NEW k \in 0 .. d - 1
      PROVE  /\ (op.va + (op.offset + k)) % Space = va + k /\ va + k \in Pages
             /\ Page(l, va + k) = Page(l, va) /\ (va + k) % d = k
  BY <1>1, PagesHere DEF Pages
<1>5. ASSUME NEW v \in Pages, Page(l, v) = Page(l, va) PROVE \E k \in 0 .. d - 1 : v = va + k
  BY <1>1, <1>5, PagesHere, PagesNat
<1>6. ASSUME NEW k \in 0 .. d - 1 PROVE AsAsked(op, mem', op.offset + k)
  <2>1. Wants(op, op.offset + ((va + k) % d), Translation(mem', va + k))
    BY <1>4, Zenon
  <2>2. Wants(op, op.offset + k, Translation(mem', va + k))
    BY <1>4, <2>1, Zenon
  <2> QED
    BY <1>4, <2>2, Zenon DEF AsAsked
<1>7. ASSUME NEW o \in 0 .. op.offset + d - 1 PROVE AsAsked(op, mem', o)
  <2>1. CASE o \in 0 .. op.offset - 1
    BY <2>1, Zenon
  <2>2. CASE o \notin 0 .. op.offset - 1
    <3>1. o \in Int /\ o - op.offset \in 0 .. d - 1 /\ o = op.offset + (o - op.offset)
      BY <1>1, <2>2
    <3>2. PICK k \in 0 .. d - 1 : o = op.offset + k
      BY <3>1, Zenon
    <3> QED
      BY <1>6, <3>2, Zenon
  <2> QED
    BY <2>1, <2>2, Zenon
<1>8. /\ Progress'
      /\ \/ CallOf(op') = CallOf(op) /\ answer' = answer
         \/ /\ op'.kind = "idle"
            /\ answer'.status = "ok" => \A o \in 0 .. op.length - 1 : AsAsked(op, mem', o)
  BY <1>1, <1>3, <1>7, AdvanceImplements
<1>9. ASSUME NEW v \in Pages, Translation(mem', v) # Translation(mem, v)
      PROVE  Touches(op, v, Translation(mem, v), Translation(mem', v))
  <2>1. Page(l, v) = Page(l, va)
    BY <1>9, Zenon
  <2>2. PICK k \in 0 .. d - 1 : v = va + k
    BY <1>5, <2>1, Zenon
  <2>3. PICK o : o = op.offset + k
    BY Zenon
  <2>4. o \in 0 .. op.length - 1 /\ v = (op.va + o) % Space
    BY <1>1, <1>2, <1>4, <2>2, <2>3
  <2>5. AsAsked(op, mem', o)
    BY <1>6, <2>3, Zenon
  <2>6. Wants(op, o, Translation(mem', v))
    BY <2>4, <2>5, Zenon DEF AsAsked
  <2>7. CASE op.kind = "map"
    <3>1. /\ Translation(mem, v) = NotMapped
          /\ Translation(mem', v) = [frame |-> op.frame + o, flags |-> op.flags]
      BY <1>9, <2>1, <2>6, <2>7, Zenon DEF Wants
    <3> QED
      BY <2>4, <2>7, <3>1, Zenon DEF Touches
  <2>8. CASE op.kind = "protect"
    <3>1. /\ Translation(mem, v) # NotMapped
          /\ Translation(mem', v) = [frame |-> Translation(mem, v).frame, flags |-> op.flags]
      BY <1>9, <2>1, <2>8, Zenon
    <3> QED
      BY <2>4, <2>8, <3>1, Zenon DEF Touches
  <2> QED
    BY <2>7, <2>8, Zenon
<1>10. Abstract!Next
  BY <1>1, <1>8, <1>9, WorkIs, Zenon
<1> QED
  BY <1>8, <1>10, Zenon DEF Implements

\* A leaf translates an address of its page to a frame, whatever it is.
LEMMA LeafTranslates ==
    ASSUME NEW e \in LeafEntries, NEW l \in 1 .. Levels, NEW v \in Pages
    PROVE  /\ Translated(v, l, e) = [frame |-> e.to + (v % PagesAt(l)), flags |-> e.flags]
           /\ Translated(v, l, e) # NotMapped
           /\ v % PagesAt(l) \in Nat /\ e.to \in Nat
<1>1. valid(v) /\ v \in Nat
  BY PagesNat, Zenon
<1>2. present(e) /\ e.to \in Nat
  BY Zenon DEF present, LeafEntries
<1>3. Translated(v, l, e) = [frame |-> e.to + (v % PagesAt(l)), flags |-> e.flags]
  BY <1>1, <1>2, Zenon DEF Translated
<1>4. v % PagesAt(l) \in 0 .. PagesAt(l) - 1 /\ PagesAt(l) \in Nat
  BY <1>1, PageParts, FormatFacts, Zenon
<1>5. PICK r \in Nat : r = v % PagesAt(l)
  BY <1>4
<1>6. e.to + r # -1
  BY <1>2
<1> QED
  BY <1>2, <1>3, <1>5, <1>6 DEF NotMapped

LEMMA DoneBefore ==
    ASSUME Progress, op.kind # "idle", op.stage # "prune", op.offset \in Nat
    PROVE  \A o \in 0 .. op.offset - 1 : AsAsked(op, mem, o)
<1>1. Done = op.offset
  BY DEF Done
<1> QED
  BY <1>1, Zenon DEF Progress, RangeDone

\* The pages of a leaf all end their walks in it.
LEMMA LeafPages ==
    ASSUME Tree, NEW va \in Pages, NEW l \in 1 .. Levels, Walk(mem, va)[l] # None,
           Slot(mem, va, l).kind # "table", NEW v \in Pages, Page(l, v) = Page(l, va)
    PROVE  Translation(mem, v) = Translated(v, l, Slot(mem, va, l))
<1> PICK lev \in [Tables -> 1 .. Levels] : TreeAt(mem, pool, lev)
  BY Zenon DEF Tree
<1>1. v \in Nat /\ va \in Nat /\ l \in l .. Levels
  BY PagesNat, FormatFacts
<1>2. Walk(mem, v)[l] = Walk(mem, va)[l] /\ Slot(mem, v, l) = Slot(mem, va, l)
  BY <1>1, WalkSamePage, Zenon
<1>3. Reached(mem, v) = l /\ End(mem, v) = Slot(mem, v, l)
  BY <1>1, <1>2, EndUnique, Zenon
<1> QED
  BY <1>2, <1>3, TranslationIs, Zenon

LEMMA MapImplements ==
    ASSUME RadixInv, Progress, map_leaf
    PROVE  Progress' /\ Implements
<1> PICK va \in 0 .. Space - 1 : va = here
  BY HereType, Zenon DEF RadixInv
<1> PICK l \in 1 .. Levels : l = op.level
  BY Zenon DEF RadixInv, OpType
<1> PICK e : e = leaf_entry(op.frame + op.offset, op.flags)
  BY Zenon
<1>1. /\ op.kind = "map" /\ OpType /\ op.kind # "idle" /\ op.stage = "leaf" /\ op.stage # "prune"
      /\ op.frame \in Nat /\ op.offset \in Nat /\ op.flags \in SUBSET FlagNames
      /\ va \in Nat /\ Levels \in Nat
  BY FormatFacts DEF map_leaf, RadixInv, OpType, Progress, RangeChecked
<1>2. e \in LeafEntries /\ e.to = op.frame + op.offset /\ e.flags = op.flags /\ e.kind = "leaf"
  BY <1>1 DEF leaf_entry, LeafEntries
<1>3. ASSUME NEW s \in {"INVALID_ADDRESS", "CONFLICT"}, Fail(s) PROVE Progress' /\ Implements
  BY <1>1, <1>3, FinishImplements, Zenon DEF Fail
<1>4. CASE Starves
  BY <1>1, <1>4, FinishImplements, Zenon DEF Starves
<1>5. CASE valid(va) /\ Reached(mem, va) > l /\ Grown(va, op)
  <2>1. va \in Pages
    BY <1>5, Zenon DEF Pages
  <2>2. Transparent(mem, mem') /\ op' = op /\ answer' = answer
    BY <1>5, <2>1, GrowTransparent, Zenon
  <2>3. BoundariesClean' /\ SameCall(op', op)
    BY <1>1, <2>2, Zenon DEF BoundariesClean, SameCall
  <2> QED
    BY <1>1, <2>2, <2>3, TransparentStep, Zenon
<1>6. ASSUME NEW v \in Pages
      PROVE  Wants(op, op.offset + (v % PagesAt(l)), Translated(v, l, e))
  <2>1. /\ Translated(v, l, e) = [frame |-> e.to + (v % PagesAt(l)), flags |-> e.flags]
        /\ v % PagesAt(l) \in Nat
    BY <1>2, LeafTranslates, Zenon
  <2>2. PICK r \in Nat : r = v % PagesAt(l)
    BY <2>1, Zenon
  <2>3. (op.frame + op.offset) + r = op.frame + (op.offset + r)
    BY <1>1
  <2> QED
    BY <1>1, <1>2, <2>1, <2>2, <2>3, Zenon DEF Wants
<1>7. \A o \in 0 .. op.offset - 1 : AsAsked(op, mem, o)
  BY <1>1, DoneBefore, Zenon
<1> PICK lev \in [Tables -> 1 .. Levels] : TreeAt(mem, pool, lev)
  BY Zenon DEF RadixInv, Tree
<1>8. /\ Reached(mem, va) \in 1 .. Levels
      /\ \A k \in 1 .. Levels : Walk(mem, va)[k] # None <=> k >= Reached(mem, va)
  BY <1>1, EndIs, Zenon
<1>9. CASE /\ valid(va) /\ aligned(va, l) /\ ~(Reached(mem, va) > l) /\ Slot(mem, va, l) = e
           /\ UNCHANGED mem /\ Advance(PagesAt(l))
  <2>1. va \in Pages /\ Walk(mem, va)[l] # None /\ Slot(mem, va, l).kind # "table"
    BY <1>2, <1>8, <1>9 DEF Pages
  <2>2. \A v \in Pages : Page(l, v) = Page(l, va) => Translation(mem, v) = Translated(v, l, e)
    BY <1>9, <2>1, LeafPages DEF RadixInv
  <2>3. \A v \in Pages : Page(l, v) = Page(l, va) =>
           /\ Wants(op, op.offset + (v % PagesAt(l)), Translation(mem', v))
           /\ Translation(mem', v) = Translation(mem, v)
    BY <1>6, <1>9, <2>2, Zenon
  <2>4. /\ \A v \in Pages : Page(l, v) # Page(l, va) => Translation(mem', v) = Translation(mem, v)
        /\ \A o \in 0 .. op.offset - 1 : AsAsked(op, mem', o)
    BY <1>7, <1>9, Zenon
  <2> QED
    BY <1>1, <1>9, <2>3, <2>4, LeafImplements, Zenon
<1>10. CASE /\ valid(va) /\ aligned(va, l) /\ ~(Reached(mem, va) > l) /\ ~present(Slot(mem, va, l))
            /\ Replaced(va, l, e) /\ UNCHANGED pool /\ Advance(PagesAt(l))
  <2>1. va \in Pages /\ Walk(mem, va)[l] # None /\ Slot(mem, va, l).kind # "table"
    BY <1>8, <1>10 DEF Pages, present
  <2>2. End(mem, va) = Slot(mem, va, l)
    BY <1>1, <2>1, EndUnique, Zenon
  <2>3. PICK lw \in [Tables -> 1 .. Levels] : LeafWritten(mem, mem', pool, lw, va, l, e)
    BY <1>2, <1>10, <2>1, ReplacedLeaf, Zenon DEF RadixInv
  <2>4. ASSUME NEW v \in Pages, Page(l, v) = Page(l, va)
        PROVE  Translation(mem, v) = NotMapped /\ Translation(mem', v) = Translated(v, l, e)
    <3>1. /\ Translation(mem, v) = Translated(v, l, End(mem, va))
          /\ Translation(mem', v) = Translated(v, l, e)
      BY <2>3, <2>4, WriteTranslates
    <3>2. Translated(v, l, End(mem, va)) = NotMapped
      BY <1>10, <2>2, Zenon DEF Translated
    <3> QED
      BY <3>1, <3>2, Zenon
  <2>5. ASSUME NEW v \in Pages, Page(l, v) # Page(l, va)
        PROVE  Translation(mem', v) = Translation(mem, v)
    BY <2>3, <2>5, WriteTranslates
  <2>6. ASSUME NEW o \in 0 .. op.offset - 1 PROVE AsAsked(op, mem', o)
    <3>1. PICK v \in Pages : /\ v = (op.va + o) % Space
                             /\ Wants(op, o, Translation(mem, v))
      BY <1>7, Zenon DEF AsAsked
    <3>2. Translation(mem, v) = [frame |-> op.frame + o, flags |-> op.flags]
      BY <1>1, <3>1, Zenon DEF Wants
    <3>3. Translation(mem, v) # NotMapped
      <4>1. op.frame + o # -1
        BY <1>1
      <4> QED
        BY <3>2, <4>1 DEF NotMapped
    <3>4. Translation(mem', v) = Translation(mem, v)
      BY <2>4, <2>5, <3>3, Zenon
    <3> QED
      BY <3>1, <3>4, Zenon DEF AsAsked
  <2>7. \A v \in Pages : Page(l, v) = Page(l, va) =>
           /\ Wants(op, op.offset + (v % PagesAt(l)), Translation(mem', v))
           /\ Translation(mem, v) = NotMapped
    BY <1>6, <2>4, Zenon
  <2> QED
    BY <1>1, <1>10, <2>5, <2>6, <2>7, LeafImplements
<1> QED
  BY <1>3, <1>4, <1>5, <1>9, <1>10, MapCases

LEMMA ProtectImplements ==
    ASSUME RadixInv, Progress, protect_leaf
    PROVE  Progress' /\ Implements
<1> PICK va \in 0 .. Space - 1 : va = here
  BY HereType, Zenon DEF RadixInv
<1> PICK l \in 1 .. Levels : l = op.level
  BY Zenon DEF RadixInv, OpType
<1>1. /\ op.kind = "protect" /\ OpType /\ op.kind # "idle" /\ op.stage = "leaf" /\ op.stage # "prune"
      /\ op.offset \in Nat /\ op.flags \in SUBSET FlagNames /\ va \in Nat /\ Levels \in Nat
  BY FormatFacts DEF protect_leaf, RadixInv, OpType, Progress, RangeChecked
<1>2. ASSUME NEW s \in {"INVALID_ADDRESS", "CONFLICT", "NOT_MAPPED"}, Fail(s)
      PROVE  Progress' /\ Implements
  BY <1>1, <1>2, FinishImplements, Zenon DEF Fail
<1>3. CASE Starves
  BY <1>1, <1>3, FinishImplements, Zenon DEF Starves
<1>4. CASE valid(va) /\ Reached(mem, va) > l /\ Grown(va, op)
  <2>1. va \in Pages
    BY <1>4, Zenon DEF Pages
  <2>2. Transparent(mem, mem') /\ op' = op /\ answer' = answer
    BY <1>4, <2>1, GrowTransparent, Zenon
  <2>3. BoundariesClean' /\ SameCall(op', op)
    BY <1>1, <2>2, Zenon DEF BoundariesClean, SameCall
  <2> QED
    BY <1>1, <2>2, <2>3, TransparentStep, Zenon
<1> PICK s : s = Slot(mem, va, l)
  BY Zenon
<1> PICK e : e = leaf_entry(s.to, op.flags)
  BY Zenon
<1>5. CASE /\ valid(va) /\ aligned(va, l) /\ ~(Reached(mem, va) > l) /\ s.kind = "leaf"
           /\ Replaced(va, l, e) /\ UNCHANGED pool /\ Advance(PagesAt(l))
  <2> PICK lev \in [Tables -> 1 .. Levels] : TreeAt(mem, pool, lev)
    BY Zenon DEF RadixInv, Tree
  <2>1. /\ Reached(mem, va) \in 1 .. Levels
        /\ \A k \in 1 .. Levels : Walk(mem, va)[k] # None <=> k >= Reached(mem, va)
    BY <1>1, EndIs, Zenon
  <2>2. va \in Pages /\ Walk(mem, va)[l] # None /\ s.kind # "table"
    BY <1>5, <2>1 DEF Pages
  <2>3. End(mem, va) = s
    BY <1>1, <2>2, EndUnique, Zenon
  <2>4. s \in LeafEntries
    <3>1. s \in EntryType
      BY <1>1, <2>2, OnWalk
    <3> QED
      BY <1>5, <3>1, EntryKinds, Zenon
  <2>5. e \in LeafEntries /\ e.to = s.to /\ e.flags = op.flags
    <3>1. s.to \in Nat
      BY <2>4, Zenon DEF LeafEntries
    <3> QED
      BY <1>1, <3>1, Zenon DEF leaf_entry, LeafEntries
  <2>6. PICK lw \in [Tables -> 1 .. Levels] : LeafWritten(mem, mem', pool, lw, va, l, e)
    BY <1>5, <2>2, <2>5, ReplacedLeaf, Zenon DEF RadixInv
  <2>7. ASSUME NEW v \in Pages, Page(l, v) = Page(l, va)
        PROVE  /\ Translation(mem, v) # NotMapped /\ Translation(mem', v) # NotMapped
               /\ Translation(mem', v) = [frame |-> Translation(mem, v).frame, flags |-> op.flags]
    <3>1. /\ Translation(mem, v) = Translated(v, l, s)
          /\ Translation(mem', v) = Translated(v, l, e)
      BY <2>3, <2>6, <2>7, WriteTranslates
    <3>2. /\ Translated(v, l, s) = [frame |-> s.to + (v % PagesAt(l)), flags |-> s.flags]
          /\ Translated(v, l, s) # NotMapped
          /\ Translated(v, l, e) = [frame |-> e.to + (v % PagesAt(l)), flags |-> e.flags]
          /\ Translated(v, l, e) # NotMapped
      BY <2>4, <2>5, LeafTranslates
    <3> QED
      BY <2>5, <3>1, <3>2
  <2>8. ASSUME NEW v \in Pages, Page(l, v) # Page(l, va)
        PROVE  Translation(mem', v) = Translation(mem, v)
    BY <2>6, <2>8, WriteTranslates
  <2>9. ASSUME NEW o, NEW v \in Pages, Page(l, v) = Page(l, va)
        PROVE  Wants(op, o, Translation(mem', v))
    BY <1>1, <2>7, <2>9 DEF Wants
  <2>10. ASSUME NEW o \in 0 .. op.offset - 1 PROVE AsAsked(op, mem', o)
    <3>1. AsAsked(op, mem, o)
      BY <1>1, DoneBefore, Zenon
    <3>2. PICK v \in Pages : /\ v = (op.va + o) % Space
                             /\ Wants(op, o, Translation(mem, v))
      BY <3>1, Zenon DEF AsAsked
    <3>3. Wants(op, o, Translation(mem', v))
      BY <2>8, <2>9, <3>2, Zenon
    <3> QED
      BY <3>2, <3>3, Zenon DEF AsAsked
  <2> QED
    BY <1>1, <1>5, <2>7, <2>8, <2>9, <2>10, LeafImplements
<1> QED
  BY <1>2, <1>3, <1>4, <1>5, ProtectCases, Zenon

LEMMA BoundariesKept ==
    ASSUME OpType, OpPlace, BoundariesClean, Transparent(mem, mem'), SameCall(op', op),
           op'.stage \notin {"split_first", "grow_first"} => op.stage \notin {"split_first", "grow_first"},
           op'.stage \in {"leaf", "prune"} => op.stage \in {"leaf", "prune"}
    PROVE  BoundariesClean'
<1> SUFFICES ASSUME op.kind = "unmap" PROVE BoundariesClean'
  BY Zenon DEF BoundariesClean, SameCall
<1> PICK end : end = op.va + op.length
  BY Zenon
<1>1. op'.kind = op.kind /\ op'.va = op.va /\ op'.length = op.length
  BY Zenon DEF SameCall
<1>2. op.va \in Pages /\ end \in Nat
  BY DEF OpType, OpPlace, Pages
<1>3. end < Space /\ valid(end) => end \in Pages
  BY <1>2, FormatFacts DEF Pages
<1>4. op.stage \notin {"split_first", "grow_first"} => Clean(mem', op.va)
  BY <1>2, Zenon DEF BoundariesClean, Transparent
<1>5. op.stage \in {"leaf", "prune"} /\ end < Space /\ valid(end) => Clean(mem', end)
  BY <1>3, Zenon DEF BoundariesClean, Transparent
<1> QED
  BY <1>1, <1>4, <1>5, Zenon DEF BoundariesClean, valid, Half

\* When split_at has nothing to split, no leaf lies across the boundary.
LEMMA NothingToSplit ==
    ASSUME Tree, OpType, NEW b \in Nat, aligned(b, op.level), NEW g, ~ToSplit(b, g)
    PROVE  Clean(mem, b)
<1> PICK lev \in [Tables -> 1 .. Levels] : TreeAt(mem, pool, lev)
  BY Zenon DEF Tree
<1> PICK l \in 1 .. Levels : l = op.level
  BY Zenon DEF OpType
<1> PICK r \in 1 .. Levels : r = Reached(mem, b)
  BY EndIs, Zenon
<1> SUFFICES ASSUME present(End(mem, b)) PROVE aligned(b, r)
  BY Zenon DEF Clean
<1>1. CASE r > l
  BY <1>1, Zenon DEF ToSplit
<1>2. CASE ~(r > l)
  <2>1. r \in 1 .. l
    BY <1>2, FormatFacts
  <2> QED
    BY <2>1, AlignedBelow, Zenon
<1> QED
  BY <1>1, <1>2, Zenon

LEMMA SplitImplements ==
    ASSUME RadixInv, Progress, split_boundary
    PROVE  Progress' /\ Implements
<1> PICK end : end = (op.va + op.length) % Space
  BY Zenon
<1> PICK va : va = op.va
  BY Zenon
<1> PICK l \in 1 .. Levels : l = op.level
  BY Zenon DEF RadixInv, OpType
<1>1. /\ op.kind = "unmap" /\ op.kind # "idle" /\ OpType /\ OpPlace /\ Tree /\ BoundariesClean
      /\ op.stage \in {"split_first", "grow_first", "split_end", "grow_end"} /\ op.stage # "prune"
      /\ valid(va) /\ va \in 0 .. Space - 1 /\ va \in Nat /\ Space \in Nat /\ va \in Pages
      /\ op.length \in 0 .. Space - 1 /\ op.length > 0
  BY FormatFacts DEF split_boundary, RadixInv, OpPlace, OpType, Progress, Pages
<1>2. /\ aligned(va, l) /\ aligned(op.length, l) /\ va + op.length <= Space
  BY <1>1, Zenon DEF Progress, RangeChecked
<1>3. va + op.length < Space => end = va + op.length
  <2> SUFFICES ASSUME va + op.length < Space PROVE end = va + op.length
    BY Zenon
  <2>1. PICK a \in Int, d \in Nat \ {0} : a = va + op.length /\ d = Space
    BY <1>1, FormatFacts
  <2>2. a \in 0 .. d - 1 /\ a = d * 0 + a
    BY <1>1, <2>1
  <2>3. 0 \in Int
    OBVIOUS
  <2>4. a % d = a
    BY <2>2, <2>3, Quotient, Zenon
  <2> QED
    BY <2>1, <2>4, Zenon
<1>4. end \in 0 .. Space - 1
  <2>1. op.va + op.length \in Nat
    BY DEF RadixInv, OpType
  <2> QED
    BY <2>1, FormatFacts
<1>5. CASE Starves
  BY <1>1, <1>5, FinishImplements, Zenon DEF Starves
<1>6. ASSUME NEW s, op' = [op EXCEPT !.stage = s]
      PROVE  SameCall(op', op) /\ op'.offset = op.offset /\ op'.stage = s
             /\ op'.kind = "unmap" /\ op'.va = va /\ op'.length = op.length
  BY <1>1, <1>6, Zenon DEF OpType, SameCall
<1>7. CASE op.stage \in {"split_first", "grow_first"}
  <2>1. CASE ToSplit(va, op.stage = "grow_first") /\ Grown(va, [op EXCEPT !.stage = "grow_first"])
    <3>1. Reached(mem, va) > l
      BY <2>1, Zenon DEF ToSplit
    <3>2. /\ Transparent(mem, mem') /\ op' = [op EXCEPT !.stage = "grow_first"]
          /\ answer' = answer
      BY <1>1, <2>1, <3>1, GrowTransparent, Zenon
    <3>3. SameCall(op', op) /\ op'.offset = op.offset /\ op'.stage = "grow_first"
      BY <1>6, <3>2, Zenon
    <3>4. BoundariesClean'
      BY <3>3, Zenon DEF BoundariesClean
    <3> QED
      BY <1>1, <3>2, <3>3, <3>4, TransparentStep, Zenon
  <2>2. CASE ~ToSplit(va, op.stage = "grow_first") /\ op' = [op EXCEPT !.stage = "split_end"] /\ Ahead
    <3>1. mem' = mem /\ answer' = answer /\ Transparent(mem, mem')
      BY <2>2, Zenon DEF Ahead, Transparent
    <3>2. SameCall(op', op) /\ op'.offset = op.offset /\ op'.stage = "split_end" /\ op'.va = va
      BY <1>6, <2>2, Zenon
    <3>3. Clean(mem, va)
      BY <1>1, <1>2, <2>2, NothingToSplit
    <3>4. BoundariesClean'
      BY <3>1, <3>2, <3>3, Zenon DEF BoundariesClean
    <3> QED
      BY <1>1, <3>1, <3>2, <3>4, TransparentStep
  <2> QED
    BY <1>5, <1>7, <2>1, <2>2, SplitCases, Zenon
<1>8. CASE op.stage \in {"split_end", "grow_end"}
  <2>1. CASE /\ valid(end) /\ ToSplit(end, op.stage = "grow_end")
             /\ Grown(end, [op EXCEPT !.stage = "grow_end"])
    <3>1. Reached(mem, end) > l /\ end \in Pages
      BY <1>4, <2>1, Zenon DEF ToSplit, Pages
    <3>2. /\ Transparent(mem, mem') /\ op' = [op EXCEPT !.stage = "grow_end"]
          /\ answer' = answer
      BY <2>1, <3>1, GrowTransparent, Zenon
    <3>3. SameCall(op', op) /\ op'.offset = op.offset /\ op'.stage = "grow_end"
      BY <1>6, <3>2, Zenon
    <3>4. BoundariesClean'
      BY <1>1, <1>8, <3>2, <3>3, BoundariesKept, Zenon
    <3> QED
      BY <1>1, <3>2, <3>3, <3>4, TransparentStep
  <2>2. CASE /\ end > va /\ valid(end) => ~ToSplit(end, op.stage = "grow_end")
             /\ op' = [op EXCEPT !.stage = "leaf"] /\ Ahead
    <3>1. mem' = mem /\ answer' = answer /\ Transparent(mem, mem')
      BY <2>2, Zenon DEF Ahead, Transparent
    <3>2. /\ SameCall(op', op) /\ op'.offset = op.offset /\ op'.stage = "leaf" /\ op'.va = va
          /\ op'.length = op.length
      BY <1>6, <2>2, Zenon
    <3>3. Clean(mem, va)
      BY <1>1, <1>8, Zenon DEF BoundariesClean
    <3>4. ASSUME va + op.length < Space, valid(va + op.length) PROVE Clean(mem, va + op.length)
      <4>1. end = va + op.length /\ end > va /\ end \in Nat /\ valid(end)
        BY <1>1, <1>3, <3>4
      <4>2. aligned(end, l)
        BY <1>1, <1>2, <4>1, AlignedSum
      <4>3. ~ToSplit(end, op.stage = "grow_end")
        BY <2>2, <4>1, Zenon
      <4>4. Clean(mem, end)
        BY <1>1, <4>1, <4>2, <4>3, NothingToSplit
      <4> QED
        BY <4>1, <4>4, Zenon
    <3>5. BoundariesClean'
      BY <3>1, <3>2, <3>3, <3>4, Zenon DEF BoundariesClean, valid, Half
    <3> QED
      BY <1>1, <3>1, <3>2, <3>5, TransparentStep, Zenon
  <2> QED
    BY <1>5, <1>8, <2>1, <2>2, SplitCases
<1> QED
  BY <1>1, <1>7, <1>8, Zenon

\* The leaf that remove_leaf finds starts at the address it stands at and ends in the range.
LEMMA RemovedRun ==
    ASSUME RadixInv, Progress, op.kind = "unmap", op.stage = "leaf", NEW va \in Pages, va = here,
           present(End(mem, va)), NEW r \in 1 .. Levels, r = Reached(mem, va)
    PROVE  aligned(va, r) /\ op.offset + PagesAt(r) <= op.length
<1> PICK lev \in [Tables -> 1 .. Levels] : TreeAt(mem, pool, lev)
  BY Zenon DEF RadixInv, Tree
<1> PICK end : end = op.va + op.length
  BY Zenon
<1>1. /\ OpType /\ op.va \in 0 .. Space - 1 /\ op.offset \in Nat /\ op.length \in Nat /\ Space \in Nat
      /\ op.offset < op.length /\ end <= Space /\ end \in Nat /\ va \in Nat /\ va \in 0 .. Space - 1
      /\ PagesAt(r) \in Nat /\ valid(va)
  BY FormatFacts, PagesNat DEF RadixInv, OpType, Progress, RangeChecked
<1>2. va = op.va + op.offset
  <2>1. PICK a \in Int, d \in Nat \ {0} : a = op.va + op.offset /\ d = Space
    BY <1>1, FormatFacts
  <2>2. a \in 0 .. d - 1 /\ a = d * 0 + a
    BY <1>1, <2>1
  <2>3. 0 \in Int
    OBVIOUS
  <2>4. a % d = a
    BY <2>2, <2>3, Quotient, Zenon
  <2> QED
    BY <2>1, <2>4, Zenon DEF here
<1>3. ASSUME NEW v \in Pages, Page(r, v) = Page(r, va)
      PROVE  /\ Reached(mem, v) = r /\ End(mem, v) = End(mem, va)
             /\ Translation(mem, v) # NotMapped
  <2>1. v \in Nat /\ r \in r .. Levels
    BY PagesNat, FormatFacts
  <2>2. /\ Walk(mem, va)[r] # None /\ End(mem, va).kind # "table" /\ End(mem, va) = Slot(mem, va, r)
        /\ End(mem, va) \in LeafEntries
    BY <1>1, EndIs, Zenon DEF End
  <2>3. Walk(mem, v)[r] = Walk(mem, va)[r] /\ Slot(mem, v, r) = Slot(mem, va, r)
    BY <1>1, <1>3, <2>1, WalkSamePage
  <2>4. Reached(mem, v) = r /\ End(mem, v) = End(mem, va)
    BY <2>1, <2>2, <2>3, EndUnique, Zenon
  <2>5. Translation(mem, v) = Translated(v, r, End(mem, va))
    BY <2>4, TranslationIs, Zenon
  <2> QED
    BY <2>2, <2>4, <2>5, LeafTranslates
<1>4. aligned(va, r)
  <2>1. CASE op.offset = 0
    <3>1. va = op.va
      BY <1>1, <1>2, <2>1
    <3> QED
      BY <3>1, Zenon DEF Progress, BoundariesClean, Clean
  <2>2. CASE op.offset # 0
    <3> SUFFICES ASSUME ~aligned(va, r) PROVE FALSE
      BY Zenon
    <3>1. PICK v : v = va - 1
      BY Zenon
    <3>2. v \in Nat /\ Page(r, v) = Page(r, va)
      BY <1>1, <3>1, Predecessor, Zenon
    <3>3. PICK o \in 0 .. op.offset - 1 : o = op.offset - 1
      BY <1>1, <2>2
    <3>4. AsAsked(op, mem, o)
      BY <1>1, DoneBefore, Zenon
    <3>5. op.va + o = v /\ v \in 0 .. Space - 1
      BY <1>1, <1>2, <3>1, <3>2, <3>3
    <3>6. v % Space = v
      <4>1. PICK a \in Int, d \in Nat \ {0} : a = v /\ d = Space
        BY <1>1, <3>2, FormatFacts
      <4>2. a \in 0 .. d - 1 /\ a = d * 0 + a
        BY <3>5, <4>1
      <4>3. 0 \in Int
        OBVIOUS
      <4>4. a % d = a
        BY <4>2, <4>3, Quotient, Zenon
      <4> QED
        BY <4>1, <4>4, Zenon
    <3>7. v \in Pages /\ Translation(mem, v) = NotMapped
      BY <3>4, <3>5, <3>6, Zenon DEF AsAsked, Wants
    <3> QED
      BY <1>3, <3>2, <3>7, Zenon
  <2> QED
    BY <2>1, <2>2, Zenon
<1>5. va + PagesAt(r) <= end
  <2> SUFFICES ASSUME end < va + PagesAt(r) PROVE FALSE
    BY <1>1
  <2>1. va < end
    BY <1>1, <1>2
  <2>2. end \in va .. va + PagesAt(r) - 1
    BY <1>1, <2>1
  <2>3. Page(r, end) = Page(r, va)
    BY <1>1, <1>4, <2>2, AlignedPage, Zenon
  <2>4. end \in 0 .. Space - 1 /\ valid(end)
    BY <1>1, <2>3, PageValid, Zenon
  <2>5. end \in Pages
    BY <2>4, Zenon DEF Pages
  <2>6. Reached(mem, end) = r /\ present(End(mem, end))
    BY <1>3, <2>3, <2>5, Zenon
  <2>7. end < Space
    BY <1>1, <2>4
  <2>8. Clean(mem, end)
    BY <2>4, <2>7, Zenon DEF Progress, BoundariesClean
  <2>9. aligned(end, r)
    BY <2>6, <2>8, Zenon DEF Clean
  <2>10. va + PagesAt(r) <= end
    BY <1>1, <1>4, <2>1, <2>9, AlignedGap, Zenon
  <2> QED
    BY <1>1, <2>10
<1>6. op.offset + PagesAt(r) <= op.length
  BY <1>1, <1>2, <1>5
<1> QED
  BY <1>4, <1>6, Zenon

LEMMA RemoveImplements ==
    ASSUME RadixInv, Progress, remove_leaf
    PROVE  Progress' /\ Implements
<1> PICK va \in 0 .. Space - 1 : va = here
  BY HereType, Zenon DEF RadixInv
<1>1. /\ op.kind = "unmap" /\ op.kind # "idle" /\ op.stage = "leaf" /\ op.stage # "prune" /\ va \in Nat
      /\ OpType /\ op.offset \in Nat /\ op.length \in Nat
  BY DEF remove_leaf, RadixInv, OpType
<1>2. ASSUME NEW s \in {"INVALID_ADDRESS", "NOT_MAPPED"}, Fail(s) PROVE Progress' /\ Implements
  BY <1>1, <1>2, FinishImplements, Zenon DEF Fail
<1> PICK lev \in [Tables -> 1 .. Levels] : TreeAt(mem, pool, lev)
  BY Zenon DEF RadixInv, Tree
<1> PICK r \in 1 .. Levels : r = Reached(mem, va)
  BY <1>1, EndIs, Zenon
<1> PICK e : e = End(mem, va)
  BY Zenon
<1>3. CASE /\ valid(va) /\ present(e) /\ Replaced(va, r, NoEntry)
           /\ answer' = [status |-> "removed", frame |-> e.to, pages |-> PagesAt(r)]
           /\ op' = [op EXCEPT !.stage = "prune", !.prune = r]
           /\ UNCHANGED <<pool, starved>>
  <2> PICK d \in Nat \ {0} : d = PagesAt(r)
    BY FormatFacts, Zenon
  <2>1. va \in Pages
    BY <1>3, Zenon DEF Pages
  <2>2. Walk(mem, va)[r] # None /\ Slot(mem, va, r).kind # "table" /\ e \in LeafEntries
    BY <1>1, <1>3, EndIs, Zenon DEF End
  <2>3. PICK lw \in [Tables -> 1 .. Levels] : LeafWritten(mem, mem', pool, lw, va, r, NoEntry)
    BY <1>3, <2>1, <2>2, ReplacedLeaf, Zenon DEF RadixInv
  <2>4. aligned(va, r) /\ op.offset + d <= op.length
    BY <1>1, <1>3, <2>1, RemovedRun, Zenon
  <2>5. ~present(NoEntry)
    BY Zenon DEF present, NoEntry
  <2>6. ASSUME NEW v \in Pages, Page(r, v) = Page(r, va)
        PROVE  /\ Translation(mem', v) = NotMapped /\ Translation(mem, v) # NotMapped
               /\ Translation(mem, v).frame = e.to + (v % d)
    <3>1. /\ Translation(mem, v) = Translated(v, r, e)
          /\ Translation(mem', v) = Translated(v, r, NoEntry)
      BY <2>3, <2>6, WriteTranslates
    <3>2. Translated(v, r, NoEntry) = NotMapped
      BY <2>5, Zenon DEF Translated
    <3>3. /\ Translated(v, r, e) = [frame |-> e.to + (v % d), flags |-> e.flags]
          /\ Translated(v, r, e) # NotMapped
      BY <2>2, LeafTranslates
    <3> QED
      BY <3>1, <3>2, <3>3
  <2>7. ASSUME NEW v \in Pages, Page(r, v) # Page(r, va)
        PROVE  Translation(mem', v) = Translation(mem, v)
    BY <2>3, <2>7, WriteTranslates
  <2>8. ASSUME NEW v \in Pages, Clean(mem, v) PROVE Clean(mem', v)
    BY <2>3, <2>5, <2>8, WriteTranslates, Zenon
  <2>9. ASSUME NEW k \in 0 .. d - 1
        PROVE  /\ (op.va + (op.offset + k)) % Space = va + k /\ va + k \in Pages
               /\ Page(r, va + k) = Page(r, va) /\ (va + k) % d = k
    <3>1. valid(va)
      BY <1>3, Zenon
    <3> QED
      BY <1>1, <2>4, <3>1, PagesHere DEF Pages
  <2>10. ASSUME NEW v \in Pages, Page(r, v) = Page(r, va) PROVE \E k \in 0 .. d - 1 : v = va + k
    BY <1>1, <2>4, <2>10, PagesHere, PagesNat
  <2>11. ASSUME NEW o \in 0 .. op.offset + d - 1 PROVE AsAsked(op, mem', o)
    <3>1. CASE o \in 0 .. op.offset - 1
      <4>1. AsAsked(op, mem, o)
        BY <1>1, <3>1, DoneBefore, Zenon
      <4>2. PICK v \in Pages : v = (op.va + o) % Space /\ Translation(mem, v) = NotMapped
        BY <1>1, <4>1, Zenon DEF AsAsked, Wants
      <4>3. Translation(mem', v) = NotMapped
        BY <2>6, <2>7, <4>2, Zenon
      <4> QED
        BY <1>1, <4>2, <4>3, Zenon DEF AsAsked, Wants
    <3>2. CASE o \notin 0 .. op.offset - 1
      <4>1. o \in Int /\ o - op.offset \in 0 .. d - 1 /\ o = op.offset + (o - op.offset)
        BY <1>1, <3>2
      <4>2. PICK k \in 0 .. d - 1 : o = op.offset + k
        BY <4>1, Zenon
      <4>3. PICK v \in Pages : v = va + k /\ v = (op.va + o) % Space /\ Page(r, v) = Page(r, va)
        BY <2>9, <4>2, Zenon
      <4>4. Translation(mem', v) = NotMapped
        BY <2>6, <4>3, Zenon
      <4> QED
        BY <1>1, <4>3, <4>4, Zenon DEF AsAsked, Wants
    <3> QED
      BY <3>1, <3>2, Zenon
  <2>12. /\ SameCall(op', op) /\ op'.offset = op.offset /\ op'.stage = "prune"
         /\ op'.kind = "unmap" /\ op'.va = op.va /\ op'.length = op.length /\ op'.level = op.level
    BY <1>1, <1>3, Zenon DEF OpType, SameCall
  <2>13. Done' = op.offset + d
    BY <1>3, <2>12, Zenon DEF Done
  <2>14. RangeChecked'
    BY <1>1, <2>4, <2>12, <2>13, Zenon DEF Progress, RangeChecked, aligned
  <2>15. RangeDone'
    <3>1. ASSUME NEW o \in 0 .. Done' - 1 PROVE AsAsked(op', mem', o)
      <4>1. o \in 0 .. op.offset + d - 1
        BY <1>1, <2>13
      <4>2. AsAsked(op, mem', o)
        BY <2>11, <4>1, Zenon
      <4> QED
        BY <2>12, <4>2, SameCallIs, Zenon
    <3> QED
      BY <3>1, Zenon DEF RangeDone
  <2>16. BoundariesClean'
    <3> PICK end : end = op.va + op.length
      BY Zenon
    <3>1. op.va \in Pages /\ end \in Nat
      BY <1>1 DEF RadixInv, OpType, OpPlace, Pages
    <3>2. end < Space /\ valid(end) => end \in Pages
      BY <3>1, FormatFacts DEF Pages
    <3>3. Clean(mem', op.va)
      BY <1>1, <2>8, <3>1 DEF Progress, BoundariesClean
    <3>4. end < Space /\ valid(end) => Clean(mem', end)
      BY <1>1, <2>8, <3>2, Zenon DEF Progress, BoundariesClean
    <3> QED
      BY <2>12, <3>3, <3>4, Zenon DEF BoundariesClean, valid, Half
  <2>17. ASSUME NEW v \in Pages, Translation(mem', v) # Translation(mem, v)
         PROVE  Touches(op, v, Translation(mem, v), Translation(mem', v))
    <3>1. Page(r, v) = Page(r, va)
      BY <2>7, <2>17, Zenon
    <3>2. PICK k \in 0 .. d - 1 : v = va + k
      BY <2>10, <3>1, Zenon
    <3>3. PICK o : o = op.offset + k
      BY Zenon
    <3>4. o \in 0 .. op.length - 1 /\ v = (op.va + o) % Space
      BY <1>1, <2>4, <2>9, <3>2, <3>3
    <3>5. Translation(mem, v) # NotMapped /\ Translation(mem', v) = NotMapped
      BY <2>6, <3>1, Zenon
    <3> QED
      BY <1>1, <3>4, <3>5, Zenon DEF Touches
  <2>18. Reports(answer', mem, mem')
    <3>1. answer'.status = "removed" /\ answer'.frame = e.to /\ answer'.pages = d
      BY <1>3, Zenon
    <3>2. ASSUME NEW v \in va .. va + d - 1
          PROVE  /\ v \in Pages /\ Translation(mem', v) # Translation(mem, v)
                 /\ Translation(mem, v).frame = e.to + (v - va)
      <4>1. PICK k \in 0 .. d - 1 : v = va + k /\ k = v - va
        <5>1. v \in Int /\ v - va \in 0 .. d - 1 /\ v = va + (v - va)
          BY <1>1
        <5> QED
          BY <5>1, Zenon
      <4>2. v \in Pages /\ Page(r, v) = Page(r, va) /\ v % d = v - va
        BY <2>9, <4>1, Zenon
      <4> QED
        BY <2>6, <4>2, Zenon
    <3>3. ASSUME NEW v \in Pages, Translation(mem', v) # Translation(mem, v)
          PROVE  v \in va .. va + d - 1
      <4>1. Page(r, v) = Page(r, va)
        BY <2>7, <3>3, Zenon
      <4>2. PICK k \in 0 .. d - 1 : v = va + k
        BY <2>10, <4>1, Zenon
      <4> QED
        BY <1>1, <4>2
    <3>4. va .. va + d - 1 = {v \in Pages : Translation(mem', v) # Translation(mem, v)}
      BY <3>2, <3>3, Zenon
    <3>5. va \in va .. va + d - 1
      BY <1>1
    <3>6. Translation(mem', va) # Translation(mem, va)
      BY <3>2, <3>5, Zenon
    <3> QED
      BY <2>1, <3>1, <3>2, <3>4, <3>6, Zenon DEF Reports
  <2>19. CallOf(op') = CallOf(op)
    BY <2>12, SameCallIs, Zenon
  <2>20. Abstract!Next
    BY <1>1, <2>17, <2>18, <2>19, WorkIs, Zenon
  <2> QED
    BY <2>14, <2>15, <2>16, <2>20, Zenon DEF Progress, Implements
<1> QED
  BY <1>2, <1>3, RemoveCases, Zenon

LEMMA PruneImplements ==
    ASSUME RadixInv, Progress, prune
    PROVE  Progress' /\ Implements
<1> PICK va \in 0 .. Space - 1 : va = here
  BY HereType, Zenon DEF RadixInv
<1> PICK l \in 1 .. Levels : l = op.prune
  BY Zenon DEF RadixInv, OpType
<1> PICK u : u = Walk(mem, va)[l]
  BY Zenon
<1>1. /\ op.kind = "unmap" /\ op.kind # "idle" /\ op.stage = "prune" /\ OpType /\ OpPlace
      /\ va \in Pages /\ l = Reached(mem, va) /\ Levels \in Nat
      /\ RangeChecked /\ BoundariesClean /\ answer.pages \in Nat /\ op.offset \in Nat
  BY FormatFacts, Zenon DEF prune, RadixInv, OpType, OpPlace, Pages, Progress
<1>2. CASE /\ l < Levels /\ mem[u] = EmptyTable /\ Replaced(va, l + 1, NoEntry)
           /\ pool' = IF u \in Image THEN pool ELSE pool \cup {u}
           /\ op' = [op EXCEPT !.prune = l + 1] /\ UNCHANGED answer
  <2>1. l \in 1 .. Levels - 1
    BY <1>1, <1>2
  <2>2. PICK lw \in [Tables -> 1 .. Levels] : TableUnlinked(mem, mem', pool', lw, va, l, u)
    BY <1>1, <1>2, <2>1, PrunedTree, Zenon DEF RadixInv
  <2>3. Transparent(mem, mem')
    BY <2>2, UnlinkTransparent, Zenon
  <2>4. SameCall(op', op) /\ op'.offset = op.offset /\ op'.stage = op.stage
    BY <1>1, <1>2, Zenon DEF OpType, SameCall
  <2>5. BoundariesClean'
    BY <1>1, <2>3, <2>4, BoundariesKept
  <2> QED
    BY <1>1, <1>2, <2>3, <2>4, <2>5, TransparentStep
<1>3. CASE Advance(answer.pages) /\ UNCHANGED <<mem, pool, tlb, psc>>
  <2> PICK p \in Nat : p = answer.pages
    BY <1>1, Zenon
  <2>1. Done = op.offset + p /\ mem' = mem
    BY <1>1, <1>3, Zenon DEF Done
  <2>2. \A o \in 0 .. op.offset + p - 1 : AsAsked(op, mem', o)
    BY <1>1, <2>1 DEF Progress, RangeDone
  <2>3. /\ op.offset + p <= op.length /\ Clean(mem', op.va)
        /\ op.va + op.length < Space /\ valid(op.va + op.length) => Clean(mem', op.va + op.length)
    BY <1>1, <2>1, Zenon DEF RangeChecked, BoundariesClean
  <2>4. /\ Progress'
        /\ \/ CallOf(op') = CallOf(op) /\ answer' = answer
           \/ /\ op'.kind = "idle"
              /\ answer'.status = "ok" => \A o \in 0 .. op.length - 1 : AsAsked(op, mem', o)
    BY <1>1, <1>3, <2>2, <2>3, AdvanceImplements
  <2>5. Abstract!Next
    BY <1>1, <2>1, <2>4, WorkIs, Zenon
  <2> QED
    BY <2>4, <2>5, Zenon DEF Implements
<1> QED
  BY <1>2, <1>3, PruneCases

\* The checks of unmap_range leave ranges that do not pass the end of the space.
LEMMA NoWrap ==
    ASSUME NEW va \in 0 .. Space - 1, NEW n \in 0 .. Space - 1, n # 0,
           NEW end, end = (va + n) % Space, ~((end - 1) % Space < va)
    PROVE  va + n <= Space
<1> SUFFICES ASSUME va + n > Space PROVE FALSE
  BY FormatFacts
<1>1. PICK d \in Nat \ {0} : d = Space
  BY FormatFacts, Zenon
<1>2. PICK a \in Int, s \in 0 .. d - 1 : a = va + n /\ s = va + n - d /\ a = d + s /\ s # 0 /\ s - 1 < va
  BY <1>1
<1>3. a = d * 1 + s /\ 1 \in Int
  BY <1>1, <1>2
<1>4. a % d = s
  BY <1>3, Quotient, Zenon
<1>5. end = s
  BY <1>1, <1>2, <1>4, Zenon
<1>6. PICK b \in Int : b = s - 1 /\ b \in 0 .. d - 1 /\ b = d * 0 + b
  BY <1>1, <1>2
<1>7. 0 \in Int
  OBVIOUS
<1>8. b % d = b
  BY <1>6, <1>7, Quotient, Zenon
<1> QED
  BY <1>1, <1>2, <1>5, <1>6, <1>8

LEMMA CallImplements ==
    ASSUME RadixInv, Progress, NEW c \in Calls, Call(c)
    PROVE  Progress' /\ Implements
<1>1. op = Idle /\ op.kind = "idle" /\ CallOf(op) = NoCall
  BY IdleType, Zenon DEF Call, CallOf
<1>2. CASE Fail("INVALID_ADDRESS")
  <2>1. op'.kind = "idle" /\ answer'.status = "INVALID_ADDRESS" /\ mem' = mem
    BY <1>2, IdleType, Zenon DEF Fail, Finish, Answer
  <2>2. View(mem') = View(mem) /\ CallOf(op') = NoCall
    BY <2>1, Zenon DEF CallOf
  <2>3. Abstract!Refuse
    BY <1>1, <2>1, <2>2, ViewIs, Zenon DEF Abstract!Refuse, CallOf
  <2> QED
    BY <2>1, <2>3, IdleProgress, Zenon DEF Implements, Abstract!Next
<1>3. CASE ~Fail("INVALID_ADDRESS")
  <2> PICK level : level = leaf_size(c.level)
    BY Zenon
  <2> PICK end : end = (c.va + c.length) % Space
    BY Zenon
  <2>1. /\ c.kind \in {"map", "protect", "unmap"} /\ c.level \in 1 .. Levels
        /\ c.va \in 0 .. Space - 1 /\ c.length \in 0 .. Space - 1 /\ c.frame \in Nat
    BY CallsAssumption, Zenon
  <2>2. level \in 1 .. Levels
    BY <2>1, LeafSizeType, Zenon
  <2>3. /\ op' = [kind |-> c.kind, va |-> c.va, length |-> c.length, level |-> level,
                  frame |-> c.frame, flags |-> leaf_flags(c.prot), offset |-> 0,
                  stage |-> IF c.kind = "unmap" THEN "split_first" ELSE "leaf", prune |-> 1]
        /\ UNCHANGED <<mem, pool, answer, starved, tlb, psc>>
        /\ c.length # 0 /\ aligned(c.length, level)
        /\ c.kind = "unmap" => aligned(c.va, level) /\ ~((end - 1) % Space < c.va)
    BY <1>3, Zenon DEF Call
  <2>4. /\ op'.kind = c.kind /\ op'.va = c.va /\ op'.length = c.length /\ op'.level = level
        /\ op'.offset = 0 /\ op'.kind # "idle"
        /\ op'.stage = (IF c.kind = "unmap" THEN "split_first" ELSE "leaf")
    BY <2>1, <2>3, Zenon
  <2>5. Done' = 0 /\ op'.stage # "prune"
    BY <2>4 DEF Done
  <2>6. c.kind = "unmap" => c.va + c.length <= Space
    BY <2>1, <2>3, NoWrap, Zenon
  <2>7. RangeChecked'
    <3>1. aligned(0, level)
      BY <2>2, FormatFacts DEF aligned
    <3> QED
      BY <2>1, <2>3, <2>4, <2>5, <2>6, <3>1 DEF RangeChecked, aligned
  <2>8. RangeDone'
    BY <2>5 DEF RangeDone
  <2>9. BoundariesClean'
    BY <2>4, Zenon DEF BoundariesClean
  <2>10. View(mem') = View(mem) /\ answer' = answer
    BY <2>3, Zenon
  <2>11. CallOf(op') # NoCall
    <3>1. CallOf(op').kind = c.kind
      BY <2>4, Zenon DEF CallOf
    <3>2. NoCall.kind = "idle"
      BY Zenon DEF NoCall
    <3> QED
      BY <2>1, <3>1, <3>2, Zenon
  <2>12. Abstract!Begin
    BY <1>1, <2>10, <2>11, ViewIs, Zenon DEF Abstract!Begin, CallOf
  <2> QED
    BY <2>7, <2>8, <2>9, <2>12, Zenon DEF Progress, Implements, Abstract!Next
<1> QED
  BY <1>2, <1>3, Zenon

LEMMA AccessImplements ==
    ASSUME RadixInv, Progress, NEW va \in Probes, Access(va)
    PROVE  Progress' /\ Implements
<1>1. va \in 0 .. Space - 1
  BY CallsAssumption, Zenon
<1>2. PICK lev \in [Tables -> 1 .. Levels] :
         LeafWritten(mem, mem', pool, lev, va, Reached(mem, va), Used(End(mem, va)))
  BY <1>1, AccessTree, Zenon DEF RadixInv
<1>3. End(mem, va) \in LeafEntries /\ op' = op /\ answer' = answer
  BY <1>1, AccessIs, Zenon DEF RadixInv
<1>4. Transparent(mem, mem')
  BY <1>2, <1>3, UseTransparent
<1>5. SameCall(op', op) /\ op'.offset = op.offset /\ op'.stage = op.stage
  BY <1>3, Zenon DEF SameCall
<1>6. BoundariesClean'
  BY <1>4, <1>5, BoundariesKept DEF RadixInv, Progress
<1> QED
  BY <1>3, <1>4, <1>5, <1>6, TransparentStep DEF RadixInv

LEMMA NextImplements ==
    ASSUME RadixInv, Progress, [Next]_vars
    PROVE  Progress' /\ Implements
<1>1. CASE \E c \in Calls : Call(c)
  BY <1>1, CallImplements, Zenon
<1>2. CASE map_leaf
  BY <1>2, MapImplements, Zenon
<1>3. CASE protect_leaf
  BY <1>3, ProtectImplements
<1>4. CASE split_boundary
  BY <1>4, SplitImplements, Zenon
<1>5. CASE remove_leaf
  BY <1>5, RemoveImplements, Zenon
<1>6. CASE prune
  BY <1>6, PruneImplements, Zenon
<1>7. CASE \E va \in Probes : Access(va)
  BY <1>7, AccessImplements, Zenon
<1>8. CASE UNCHANGED vars
  <2>1. mem' = mem /\ op' = op /\ answer' = answer /\ SameCall(op', op) /\ Transparent(mem, mem')
    BY <1>8, Zenon DEF vars, SameCall, Transparent
  <2>2. BoundariesClean'
    BY <2>1, BoundariesKept, Zenon DEF RadixInv, Progress
  <2> QED
    BY <2>1, <2>2, TransparentStep, Zenon DEF RadixInv
<1> QED
  BY <1>1, <1>2, <1>3, <1>4, <1>5, <1>6, <1>7, <1>8 DEF Next, Step

\* The range operations on the page tables, leaf by leaf, with tables linked, split and pruned
\* in between, are page-wise changes of one function from addresses to frames: map_range only
\* maps pages that were not mapped, no operation changes a page outside its range, unmap_range
\* reports exactly the frames it removes, and "ok" means that the whole range is as asked.
THEOREM PageTablesImplement == Spec => ImplementsAddressSpace
<1>1. Init => Progress /\ Abstract!Init
  <2> SUFFICES ASSUME Init PROVE Progress /\ Abstract!Init
    BY Zenon
  <2>1. op.kind = "idle" /\ answer.status = "none"
    BY IdleType, Zenon DEF Init, Answer
  <2> QED
    BY <2>1, Zenon DEF Progress, RangeChecked, RangeDone, BoundariesClean, Abstract!Init
<1>2. RadixInv /\ Progress /\ [Next]_vars => Progress' /\ [Abstract!Next]_(Abstract!vars)
  BY NextImplements, Zenon DEF Implements
<1> QED
  BY <1>1, <1>2, InitInv, NextInv, PTL DEF Spec, ImplementsAddressSpace, Abstract!Spec
=============================================================================
