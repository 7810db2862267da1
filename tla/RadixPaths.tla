----------------------------- MODULE RadixPaths -----------------------------
(***************************************************************************)
(* What the proofs about RadixTree rest on: the arithmetic of pages of the *)
(* several sizes and the walks through the tables.  A walk is written here *)
(* as a function of the contents of the tables, so that the tables before  *)
(* and after a step can be compared.                                       *)
(***************************************************************************)
EXTENDS RadixTree, WellFoundedInduction, TLAPS

-----------------------------------------------------------------------------
(***************************************************************************)
(* The sizes of the pages.                                                 *)
(***************************************************************************)

\* A set of naturals that is not empty has a least element.
LEMMA LeastElement ==
    ASSUME NEW S \in SUBSET Nat, NEW n \in S
    PROVE  \E k \in S : \A j \in S : k <= j
<1>1. PICK k \in S : \A j \in S : <<j, k>> \notin OpToRel(<, Nat)
  BY NatLessThanWellFounded, WFMin, Zenon
<1>2. \A j \in S : ~(j < k)
  BY <1>1, Zenon DEF OpToRel
<1> QED
  BY <1>2

\* The sizes up to level n, as a function that satisfies the recursive definition.
SizesUpTo(f, n) == f = [l \in 1 .. n |-> IF l = 1 THEN 1 ELSE Entries * f[l - 1]]

LEMMA SizesExist == \A n \in 1 .. Levels : \E f : SizesUpTo(f, n)
<1> DEFINE Bad == {n \in 1 .. Levels : ~\E f : SizesUpTo(f, n)}
<1>1. SUFFICES ASSUME Bad # {} PROVE FALSE
  BY Zenon
<1>2. Levels \in Nat /\ Levels > 1
  BY FormatAssumption, Zenon
<1>3. Bad \in SUBSET Nat
  BY <1>2
<1>4. PICK n \in Bad : \A j \in Bad : n <= j
  BY <1>1, <1>3, LeastElement, Zenon
<1>5. n \in 1 .. Levels /\ ~\E f : SizesUpTo(f, n)
  BY <1>4, Zenon
<1>6. CASE n = 1
  <2>1. SizesUpTo([l \in 1 .. 1 |-> 1], 1)
    BY DEF SizesUpTo
  <2> QED
    BY <1>5, <1>6, <2>1, Zenon
<1>7. CASE n > 1
  <2>1. n - 1 \in 1 .. Levels /\ n - 1 \notin Bad
    BY <1>2, <1>4, <1>5, <1>7
  <2>2. PICK f : SizesUpTo(f, n - 1)
    BY <2>1, Zenon
  <2> DEFINE g == [l \in 1 .. n |-> IF l = n THEN Entries * f[n - 1] ELSE f[l]]
  <2>3. ASSUME NEW l \in 1 .. n PROVE g[l] = IF l = 1 THEN 1 ELSE Entries * g[l - 1]
    <3>1. CASE l = n
      <4>1. g[l] = Entries * f[n - 1] /\ g[l - 1] = f[n - 1]
        BY <1>5, <1>7, <3>1
      <4> QED
        BY <1>7, <3>1, <4>1
    <3>2. CASE l # n
      <4>1. l \in 1 .. n - 1 /\ (l # 1 => l - 1 \in 1 .. n - 1)
        BY <1>5, <3>2
      <4>2. f[l] = IF l = 1 THEN 1 ELSE Entries * f[l - 1]
        BY <2>2, <4>1, Zenon DEF SizesUpTo
      <4>3. g[l] = f[l] /\ (l # 1 => g[l - 1] = f[l - 1])
        BY <1>5, <3>2, <4>1
      <4> QED
        BY <4>2, <4>3, Zenon
    <3> QED
      BY <3>1, <3>2, Zenon
  <2>4. g = [l \in 1 .. n |-> IF l = 1 THEN 1 ELSE Entries * g[l - 1]]
    BY <2>3, Zenon
  <2>5. SizesUpTo(g, n)
    BY <2>4, Zenon DEF SizesUpTo
  <2> QED
    BY <1>5, <2>5, Zenon
<1> QED
  BY <1>2, <1>5, <1>6, <1>7

\* The definition of PagesAt means what it says.
LEMMA PagesAtIs ==
    ASSUME NEW l \in 1 .. Levels
    PROVE  PagesAt(l) = IF l = 1 THEN 1 ELSE Entries * PagesAt(l - 1)
<1>1. Levels \in Nat /\ Levels > 1
  BY FormatAssumption, Zenon
<1>2. \E f : SizesUpTo(f, Levels)
  BY <1>1, SizesExist
<1>3. SizesUpTo(pages_at, Levels)
  BY <1>2, Zenon DEF SizesUpTo, pages_at
<1>4. pages_at = [k \in 1 .. Levels |-> IF k = 1 THEN 1 ELSE Entries * pages_at[k - 1]]
  BY <1>3, Zenon DEF SizesUpTo
<1> QED
  BY <1>4, Zenon DEF PagesAt

LEMMA PagesAtStep ==
    /\ PagesAt(1) = 1
    /\ \A l \in 1 .. Levels - 1 : PagesAt(l + 1) = Entries * PagesAt(l)
<1>1. Levels \in Nat /\ Levels > 1
  BY FormatAssumption, Zenon
<1>2. ASSUME NEW l \in 1 .. Levels - 1 PROVE PagesAt(l + 1) = Entries * PagesAt(l)
  <2>1. l + 1 \in 1 .. Levels /\ l + 1 # 1 /\ (l + 1) - 1 = l
    BY <1>1
  <2> QED
    BY <2>1, PagesAtIs, Zenon
<1>3. 1 \in 1 .. Levels
  BY <1>1
<1> QED
  BY <1>2, <1>3, PagesAtIs, Zenon

LEMMA ProductPositive ==
    ASSUME NEW a \in Nat \ {0}, NEW b \in Nat \ {0}
    PROVE  a * b \in Nat \ {0}
  OBVIOUS

LEMMA PagesAtType == \A l \in 1 .. Levels : PagesAt(l) \in Nat \ {0}
<1> DEFINE Bad == {n \in 1 .. Levels : PagesAt(n) \notin Nat \ {0}}
<1>1. SUFFICES ASSUME Bad # {} PROVE FALSE
  BY Zenon
<1>2. Levels \in Nat /\ Levels > 1 /\ Entries \in Nat \ {0}
  BY FormatAssumption
<1>3. Bad \in SUBSET Nat
  BY <1>2
<1>4. PICK n \in Bad : \A j \in Bad : n <= j
  BY <1>1, <1>3, LeastElement, Zenon
<1>5. n # 1
  BY <1>4, PagesAtStep
<1>6. n - 1 \in 1 .. Levels /\ n - 1 \notin Bad /\ n \in 1 .. Levels
  BY <1>2, <1>4, <1>5
<1>7. PagesAt(n - 1) \in Nat \ {0}
  BY <1>6, Zenon
<1>8. PagesAt(n) = Entries * PagesAt(n - 1)
  BY <1>5, <1>6, PagesAtIs, Zenon
<1> HIDE DEF Bad
<1>9. PagesAt(n) \in Nat \ {0}
  BY <1>2, <1>7, <1>8, ProductPositive, Zenon
<1> QED
  BY <1>4, <1>9, Zenon DEF Bad

-----------------------------------------------------------------------------
(***************************************************************************)
(* Quotients and remainders.                                               *)
(***************************************************************************)

LEMMA Division ==
    ASSUME NEW a \in Int, NEW d \in Nat \ {0}
    PROVE  /\ a \div d \in Int /\ a % d \in 0 .. d - 1
           /\ a = d * (a \div d) + (a % d)
           /\ a \in Nat => a \div d \in Nat
<1>1. a \div d \in Int
  OBVIOUS
<1>2. a % d \in 0 .. d - 1
  OBVIOUS
<1>3. a = d * (a \div d) + (a % d)
  OBVIOUS
<1>4. a \in Nat => a \div d \in Nat
  OBVIOUS
<1> QED
  BY <1>1, <1>2, <1>3, <1>4, Zenon

\* A product with a positive number keeps the order.
LEMMA ProductOrder ==
    ASSUME NEW d \in Nat \ {0}, NEW x \in Int, NEW y \in Int
    PROVE  x < y <=> d * x + d <= d * y
<1>1. ASSUME x < y PROVE d * x + d <= d * y
  <2>1. PICK k \in Nat : y = x + 1 + k
    BY <1>1, y - x - 1 \in Nat
  <2>2. d * y = d * x + d + d * k
    BY <2>1
  <2>3. d * k \in Nat
    OBVIOUS
  <2> QED
    BY <2>2, <2>3
<1>2. ASSUME ~(x < y) PROVE ~(d * x + d <= d * y)
  <2>1. PICK k \in Nat : x = y + k
    BY <1>2, x - y \in Nat
  <2>2. d * x = d * y + d * k
    BY <2>1
  <2>3. d * k \in Nat
    OBVIOUS
  <2> QED
    BY <2>2, <2>3
<1> QED
  BY <1>1, <1>2, Zenon

\* Quotient and remainder are unique.
LEMMA Quotient ==
    ASSUME NEW a \in Int, NEW d \in Nat \ {0}, NEW q \in Int, NEW r \in 0 .. d - 1,
           a = d * q + r
    PROVE  a \div d = q /\ a % d = r
<1>1. PICK x \in Int : x = a \div d
  BY Division, Zenon
<1>2. PICK s \in 0 .. d - 1 : s = a % d
  BY Division, Zenon
<1>3. PICK dx \in Int : dx = d * x
  BY <1>1
<1>4. PICK dq \in Int : dq = d * q
  OBVIOUS
<1>5. a = dx + s /\ a = dq + r
  BY <1>1, <1>2, <1>3, <1>4, Division, Zenon
<1>6. ~(x < q)
  BY <1>3, <1>4, <1>5, ProductOrder
<1>7. ~(q < x)
  BY <1>3, <1>4, <1>5, ProductOrder
<1>8. x = q
  BY <1>6, <1>7
<1> QED
  BY <1>1, <1>2, <1>3, <1>4, <1>5, <1>8

\* Dividing by a product is dividing by one factor and then by the other.
LEMMA DivideTwice ==
    ASSUME NEW a \in Nat, NEW d \in Nat \ {0}, NEW e \in Nat \ {0}
    PROVE  /\ a \div (e * d) = (a \div d) \div e
           /\ a % (e * d) = d * ((a \div d) % e) + (a % d)
<1>1. PICK x \in Nat, r \in 0 .. d - 1 : x = a \div d /\ r = a % d /\ a = d * x + r
  BY Division
<1>2. PICK y \in Nat, s \in 0 .. e - 1 : y = x \div e /\ s = x % e /\ x = e * y + s
  BY Division
<1>3. a = (e * d) * y + (d * s + r)
  <2>1. d * x = d * (e * y) + d * s
    BY <1>2
  <2>2. d * (e * y) = (e * d) * y
    OBVIOUS
  <2> QED
    BY <1>1, <2>1, <2>2
<1>4. d * s + d <= d * e
  BY ProductOrder, <1>2
<1>5. PICK ds \in Nat : ds = d * s
  OBVIOUS
<1>6. PICK ed \in Nat \ {0} : ed = e * d /\ ed = d * e
  BY ProductPositive
<1>7. ds + r \in 0 .. ed - 1
  BY <1>4, <1>5, <1>6
<1>8. a = ed * y + (ds + r)
  BY <1>3, <1>5, <1>6, Zenon
<1>9. a \div ed = y /\ a % ed = ds + r
  <2>1. ds + r \in 0 .. ed - 1 /\ y \in Int /\ a \in Int
    BY <1>7
  <2> QED
    BY <1>8, <2>1, Quotient, Zenon
<1>10. a \div (e * d) = y /\ a % (e * d) = d * s + r
  BY <1>5, <1>6, <1>9, Zenon
<1>11. (a \div d) \div e = y /\ (a \div d) % e = s /\ a % d = r
  BY <1>1, <1>2, Zenon
<1>12. d * ((a \div d) % e) + (a % d) = d * s + r
  BY <1>11, Zenon
<1> QED
  BY <1>10, <1>11, <1>12, Zenon

\* Whether a number is below a multiple of d shows in its quotient.
LEMMA BelowMultiple ==
    ASSUME NEW a \in Nat, NEW d \in Nat \ {0}, NEW k \in Int
    PROVE  a < d * k <=> a \div d < k
<1>1. PICK x \in Nat, r \in 0 .. d - 1 : x = a \div d /\ r = a % d /\ a = d * x + r
  BY Division
<1>2. PICK dx \in Int, dk \in Int : dx = d * x /\ dk = d * k
  OBVIOUS
<1>3. x < k => dx + d <= dk
  BY <1>2, ProductOrder
<1>4. k < x => dk + d <= dx
  BY <1>2, ProductOrder
<1>5. k = x => dk = dx
  BY <1>2, Zenon
<1> QED
  BY <1>1, <1>2, <1>3, <1>4, <1>5

-----------------------------------------------------------------------------
(***************************************************************************)
(* The pages of the several sizes.  Page(l, va) is the number of the page  *)
(* of level l that va lies in.                                             *)
(***************************************************************************)
Page(l, va) == va \div PagesAt(l)

LEMMA FormatFacts ==
    /\ Levels \in Nat /\ Levels > 1 /\ Entries \in Nat \ {0} /\ Space \in Nat \ {0}
    /\ \A l \in 1 .. Levels : PagesAt(l) \in Nat \ {0}
  BY FormatAssumption, PagesAtType

LEMMA PageParts ==
    ASSUME NEW l \in 1 .. Levels, NEW va \in Nat
    PROVE  /\ Page(l, va) \in Nat /\ va % PagesAt(l) \in 0 .. PagesAt(l) - 1
           /\ va = PagesAt(l) * Page(l, va) + (va % PagesAt(l))
<1>1. PagesAt(l) \in Nat \ {0} /\ va \in Int
  BY FormatFacts
<1> QED
  BY <1>1, Division, Zenon DEF Page

LEMMA PageType ==
    ASSUME NEW l \in 1 .. Levels, NEW va \in Nat
    PROVE  Page(l, va) \in Nat /\ index(l, va) \in Indexes /\ index(l, va) = Page(l, va) % Entries
<1>1. Page(l, va) \in Nat
  BY PageParts, Zenon
<1>2. index(l, va) = Page(l, va) % Entries
  BY Zenon DEF index, Page
<1>3. Page(l, va) % Entries \in 0 .. Entries - 1
  <2>1. Page(l, va) \in Int /\ Entries \in Nat \ {0}
    BY <1>1, FormatFacts
  <2> QED
    BY <2>1, Division, Zenon
<1> QED
  BY <1>1, <1>2, <1>3, Zenon DEF Indexes

LEMMA PageAbove ==
    ASSUME NEW l \in 1 .. Levels - 1, NEW va \in Nat
    PROVE  Page(l + 1, va) = Page(l, va) \div Entries
<1>1. l \in 1 .. Levels /\ PagesAt(l) \in Nat \ {0} /\ Entries \in Nat \ {0}
  BY FormatFacts
<1>2. PagesAt(l + 1) = Entries * PagesAt(l)
  BY PagesAtStep, Zenon
<1>3. va \div (Entries * PagesAt(l)) = (va \div PagesAt(l)) \div Entries
  BY <1>1, DivideTwice, Zenon
<1> QED
  BY <1>2, <1>3, Zenon DEF Page

\* Two addresses in one page are in one page of every larger size.
LEMMA SamePageUp ==
    ASSUME NEW va \in Nat, NEW wa \in Nat, NEW l \in 1 .. Levels, Page(l, va) = Page(l, wa)
    PROVE  \A k \in l .. Levels : Page(k, va) = Page(k, wa) /\ index(k, va) = index(k, wa)
<1> DEFINE Bad == {k \in l .. Levels : Page(k, va) # Page(k, wa)}
<1>1. Levels \in Nat
  BY FormatFacts, Zenon
<1>2. Bad = {}
  <2>1. SUFFICES ASSUME Bad # {} PROVE FALSE
    BY Zenon
  <2>2. Bad \in SUBSET Nat
    BY <1>1
  <2>3. PICK k \in Bad : \A j \in Bad : k <= j
    BY <2>1, <2>2, LeastElement, Zenon
  <2>4. k # l /\ k \in l .. Levels
    BY <2>3, Zenon
  <2>5. k - 1 \in 1 .. Levels - 1 /\ k - 1 \notin Bad /\ k - 1 \in l .. Levels
    BY <1>1, <2>3, <2>4
  <2>6. Page(k - 1, va) = Page(k - 1, wa)
    BY <2>5, Zenon
  <2>7. Page((k - 1) + 1, va) = Page((k - 1) + 1, wa)
    BY <2>5, <2>6, PageAbove, Zenon
  <2>8. (k - 1) + 1 = k
    BY <2>4, <1>1
  <2> QED
    BY <2>3, <2>7, <2>8, Zenon
<1>3. ASSUME NEW k \in l .. Levels PROVE Page(k, va) = Page(k, wa) /\ index(k, va) = index(k, wa)
  <2>1. Page(k, va) = Page(k, wa)
    BY <1>2, Zenon
  <2> QED
    BY <2>1, Zenon DEF index, Page
<1> QED
  BY <1>3, Zenon

\* Two addresses in one page that have one slot below it are in one page there.
LEMMA SamePageDown ==
    ASSUME NEW va \in Nat, NEW wa \in Nat, NEW l \in 1 .. Levels - 1,
           Page(l + 1, va) = Page(l + 1, wa), index(l, va) = index(l, wa)
    PROVE  Page(l, va) = Page(l, wa)
<1>1. l \in 1 .. Levels /\ Entries \in Nat \ {0}
  BY FormatFacts
<1>2. PICK x \in Nat, y \in Nat : x = Page(l, va) /\ y = Page(l, wa)
  BY <1>1, PageType, Zenon
<1>3. x \div Entries = y \div Entries
  BY <1>2, PageAbove
<1>4. x % Entries = y % Entries
  BY <1>1, <1>2, PageType
<1>5. /\ x = Entries * (x \div Entries) + (x % Entries)
      /\ y = Entries * (y \div Entries) + (y % Entries)
  BY <1>1, x \in Int, y \in Int, Division, Zenon
<1> QED
  BY <1>2, <1>3, <1>4, <1>5, Zenon

\* An address is its page and its place in it.
LEMMA PagePlace ==
    ASSUME NEW l \in 1 .. Levels, NEW a \in Nat, aligned(a, l), NEW k \in 0 .. PagesAt(l) - 1
    PROVE  Page(l, a + k) = Page(l, a) /\ (a + k) % PagesAt(l) = k
<1>1. PICK d \in Nat \ {0} : d = PagesAt(l)
  BY FormatFacts, Zenon
<1>2. PICK x \in Nat : x = Page(l, a)
  BY PageType, Zenon
<1>3. a = d * x
  BY <1>1, <1>2, PageParts DEF aligned
<1>4. a + k = d * x + k /\ k \in 0 .. d - 1 /\ a + k \in Int
  BY <1>1, <1>3
<1>5. (a + k) \div d = x /\ (a + k) % d = k
  BY <1>4, x \in Int, Quotient, Zenon
<1> QED
  BY <1>1, <1>2, <1>5, Zenon DEF Page

\* The first address of a page, and the addresses that lie in it.
LEMMA PageBase ==
    ASSUME NEW l \in 1 .. Levels, NEW va \in Nat, NEW base, base = va - (va % PagesAt(l))
    PROVE  /\ base \in Nat /\ base <= va /\ aligned(base, l) /\ Page(l, base) = Page(l, va)
           /\ \A wa \in Nat : wa \in base .. base + PagesAt(l) - 1 <=> Page(l, wa) = Page(l, va)
<1>1. PICK d \in Nat \ {0} : d = PagesAt(l)
  BY FormatFacts, Zenon
<1>2. PICK x \in Nat : x = Page(l, va)
  BY PageType, Zenon
<1>3. PICK dx \in Nat : dx = d * x
  OBVIOUS
<1>4. va % d \in 0 .. d - 1 /\ va = dx + (va % d)
  BY <1>1, <1>2, <1>3, PageParts, Zenon
<1>5. base = dx /\ base <= va
  BY <1>1, <1>4
<1>6. dx = d * x + 0 /\ 0 \in 0 .. d - 1
  BY <1>3
<1>7. dx \div d = x /\ dx % d = 0
  BY <1>6, Quotient
<1>8. aligned(base, l) /\ Page(l, base) = Page(l, va)
  BY <1>1, <1>2, <1>5, <1>7, Zenon DEF Page, aligned
<1>9. ASSUME NEW wa \in Nat PROVE wa \in base .. base + PagesAt(l) - 1 <=> Page(l, wa) = Page(l, va)
  <2>1. PICK y \in Nat : y = Page(l, wa)
    BY PageType, Zenon
  <2>2. PICK dy \in Nat : dy = d * y
    OBVIOUS
  <2>3. wa % d \in 0 .. d - 1 /\ wa = dy + (wa % d)
    BY <1>1, <2>1, <2>2, PageParts, Zenon
  <2>4. (x < y => dx + d <= dy) /\ (y < x => dy + d <= dx)
    BY <1>3, <2>2, ProductOrder
  <2>5. x = y => dx = dy
    BY <1>3, <2>2, Zenon
  <2>6. wa \in dx .. dx + d - 1 <=> x = y
    BY <2>3, <2>4, <2>5
  <2> QED
    BY <1>1, <1>2, <1>5, <2>1, <2>6, Zenon
<1> QED
  BY <1>5, <1>8, <1>9, Zenon

-----------------------------------------------------------------------------
(***************************************************************************)
(* The canonical addresses are whole pages of every size.                  *)
(***************************************************************************)

LEMMA WholeRootPages ==
    \E h \in Nat \ {0}, q \in Nat \ {0} :
       /\ Entries = 2 * h /\ Half = PagesAt(Levels) * h
       /\ Space = PagesAt(Levels) * (Entries * q)
<1>1. PICK d \in Nat \ {0} : d = PagesAt(Levels)
  BY FormatFacts
<1>2. PICK h \in Nat \ {0} : Entries = 2 * h
  BY FormatAssumption
<1>3. PICK dh \in Nat \ {0} : dh = d * h
  BY ProductPositive, Zenon
<1>4. Entries * d = 2 * dh
  BY <1>2, <1>3
<1>5. Half = dh
  BY <1>1, <1>4 DEF Half
<1>6. PICK n \in Nat \ {0} : n = Entries * d
  BY <1>1, FormatFacts, ProductPositive, Zenon
<1>7. Space % n = 0 /\ Space \in Nat \ {0}
  BY <1>1, <1>6, FormatAssumption
<1>8. PICK q \in Nat : Space = n * q
  <2>1. Space \in Int
    BY <1>7
  <2>2. Space = n * (Space \div n) + (Space % n) /\ Space \div n \in Nat
    BY <1>7, <2>1, Division, Zenon
  <2>3. PICK q \in Nat : q = Space \div n
    BY <2>2, Zenon
  <2>4. Space = n * q + 0
    BY <1>7, <2>2, <2>3, Zenon
  <2> QED
    BY <2>4
<1>9. q # 0
  BY <1>7, <1>8
<1>10. n * q = d * (Entries * q)
  BY <1>6, FormatFacts
<1> QED
  BY <1>1, <1>2, <1>3, <1>5, <1>8, <1>9, <1>10, Zenon

LEMMA Multiple ==
    \A l \in 1 .. Levels :
       \E k \in Nat \ {0} : PagesAt(Levels) = PagesAt(l) * k
<1> DEFINE Good(l) == \E k \in Nat \ {0} : PagesAt(Levels) = PagesAt(l) * k
<1> DEFINE Bad == {n \in 0 .. Levels - 1 : ~Good(Levels - n)}
<1>1. Levels \in Nat /\ Levels > 1
  BY FormatFacts, Zenon
<1>2. Bad = {}
  <2>1. SUFFICES ASSUME Bad # {} PROVE FALSE
    BY Zenon
  <2>2. Bad \in SUBSET Nat
    BY <1>1
  <2>3. PICK n \in Bad : \A j \in Bad : n <= j
    BY <2>1, <2>2, LeastElement, Zenon
  <2>4. PagesAt(Levels) = PagesAt(Levels) * 1
    BY <1>1, FormatFacts
  <2>5. n # 0
    BY <1>1, <2>3, <2>4
  <2>6. n - 1 \in 0 .. Levels - 1 /\ n - 1 \notin Bad /\ Levels - n \in 1 .. Levels - 1
    BY <1>1, <2>3, <2>5
  <2>7. PICK k \in Nat \ {0} : PagesAt(Levels) = PagesAt(Levels - (n - 1)) * k
    BY <2>6, Zenon
  <2>8. Levels - (n - 1) = (Levels - n) + 1
    BY <1>1, <2>6
  <2>9. PagesAt(Levels - (n - 1)) = Entries * PagesAt(Levels - n)
    BY <2>6, <2>8, PagesAtStep, Zenon
  <2>10. PICK d \in Nat \ {0} : d = PagesAt(Levels - n)
    BY <1>1, <2>6, FormatFacts
  <2>11. (Entries * d) * k = d * (Entries * k) /\ Entries * k \in Nat \ {0}
    BY FormatFacts, ProductPositive
  <2>12. Good(Levels - n)
    BY <2>7, <2>9, <2>10, <2>11, Zenon
  <2> QED
    BY <2>3, <2>12, Zenon
<1>3. ASSUME NEW l \in 1 .. Levels PROVE Good(l)
  <2>1. Levels - l \in 0 .. Levels - 1 /\ Levels - (Levels - l) = l
    BY <1>1
  <2> QED
    BY <1>2, <2>1, Zenon
<1> QED
  BY <1>3, Zenon

\* The ends of the two halves are boundaries of pages of every size.
LEMMA WholePages ==
    \A l \in 1 .. Levels :
       \E h \in Nat, s \in Nat :
          Half = PagesAt(l) * h /\ Space = PagesAt(l) * s /\ Space - Half = PagesAt(l) * (s - h)
<1>1. SUFFICES ASSUME NEW l \in 1 .. Levels
               PROVE  \E h \in Nat, s \in Nat : /\ Half = PagesAt(l) * h /\ Space = PagesAt(l) * s
                                                /\ Space - Half = PagesAt(l) * (s - h)
  BY Zenon
<1>2. PICK h \in Nat \ {0}, q \in Nat \ {0} :
         /\ Entries = 2 * h /\ Half = PagesAt(Levels) * h
         /\ Space = PagesAt(Levels) * (Entries * q)
  BY WholeRootPages, Zenon
<1>3. PICK k \in Nat \ {0} : PagesAt(Levels) = PagesAt(l) * k
  BY Multiple, Zenon
<1>4. PICK d \in Nat \ {0} : d = PagesAt(l)
  BY FormatFacts, Zenon
<1>5. PICK eq \in Nat : eq = Entries * q
  BY FormatFacts
<1>6. PICK a \in Nat, b \in Nat : a = k * h /\ b = k * eq
  OBVIOUS
<1>7. Half = d * a /\ Space = d * b
  <2>1. (d * k) * h = d * (k * h) /\ (d * k) * eq = d * (k * eq)
    OBVIOUS
  <2> QED
    BY <1>2, <1>3, <1>4, <1>5, <1>6, <2>1, Zenon
<1>8. d * b - d * a = d * (b - a)
  OBVIOUS
<1> QED
  BY <1>4, <1>7, <1>8, Zenon

LEMMA HalfFits == Half \in Nat /\ Space - Half \in Nat /\ Half <= Space - Half
<1>2. PICK h \in Nat \ {0}, q \in Nat \ {0} :
         /\ Entries = 2 * h /\ Half = PagesAt(Levels) * h
         /\ Space = PagesAt(Levels) * (Entries * q)
  BY WholeRootPages, Zenon
<1>3. PICK d \in Nat \ {0} : d = PagesAt(Levels)
  BY FormatFacts
<1>4. PICK dh \in Nat : dh = d * h
  OBVIOUS
<1>5. d * (Entries * q) = 2 * (dh * q)
  BY <1>2, <1>4
<1>6. dh * q >= dh
  <2>1. PICK p \in Nat : q = p + 1
    BY q - 1 \in Nat
  <2>2. dh * q = dh * p + dh /\ dh * p \in Nat
    BY <2>1
  <2> QED
    BY <2>2
<1>7. PICK x \in Nat : x = dh * q
  OBVIOUS
<1> QED
  BY <1>2, <1>3, <1>4, <1>5, <1>6, <1>7

\* A page is canonical as a whole or not at all, and ends inside the space.
LEMMA PageValid ==
    ASSUME NEW l \in 1 .. Levels, NEW va \in 0 .. Space - 1, NEW wa \in Nat, Page(l, va) = Page(l, wa)
    PROVE  wa \in 0 .. Space - 1 /\ (valid(wa) <=> valid(va))
<1>1. PICK h \in Nat, s \in Nat :
          Half = PagesAt(l) * h /\ Space = PagesAt(l) * s /\ Space - Half = PagesAt(l) * (s - h)
  BY WholePages, Zenon
<1>2. PICK d \in Nat \ {0} : d = PagesAt(l)
  BY FormatFacts, Zenon
<1>3. va \in Nat /\ h \in Int /\ s \in Int /\ s - h \in Int /\ Space \in Nat
  BY FormatFacts
<1>4. va \div d = wa \div d
  BY <1>2, Zenon DEF Page
<1>5. (va < d * h <=> wa < d * h) /\ (va < d * s <=> wa < d * s)
  BY <1>3, <1>4, BelowMultiple, Zenon
<1>6. va < d * (s - h) <=> wa < d * (s - h)
  BY <1>3, <1>4, BelowMultiple, Zenon
<1>7. (va < Half <=> wa < Half) /\ (va < Space <=> wa < Space)
  BY <1>1, <1>2, <1>5, Zenon
<1>8. va < Space - Half <=> wa < Space - Half
  BY <1>1, <1>2, <1>6, Zenon
<1> QED
  BY <1>3, <1>7, <1>8, HalfFits DEF valid

\* Two canonical addresses with one root slot are in one page of the largest size.
LEMMA SameRootPage ==
    ASSUME NEW va \in Pages, NEW wa \in Pages, index(Levels, va) = index(Levels, wa)
    PROVE  Page(Levels, va) = Page(Levels, wa)
<1>1. PICK h \in Nat \ {0}, q \in Nat \ {0} :
         /\ Entries = 2 * h /\ Half = PagesAt(Levels) * h
         /\ Space = PagesAt(Levels) * (Entries * q)
  BY WholeRootPages, Zenon
<1>2. PICK d \in Nat \ {0} : d = PagesAt(Levels)
  BY FormatFacts
<1>3. PICK p \in Nat : p = q - 1
  BY q - 1 \in Nat, Zenon
<1>4. PICK ep \in Nat : ep = Entries * p
  BY FormatFacts
<1>5. Entries * q = ep + 2 * h
  BY <1>1, <1>3, <1>4
<1>6. ASSUME NEW a \in Pages
      PROVE  \/ Page(Levels, a) \in 0 .. h - 1 /\ index(Levels, a) = Page(Levels, a)
             \/ /\ Page(Levels, a) - ep \in h .. Entries - 1
                /\ index(Levels, a) = Page(Levels, a) - ep
  <2>0. Entries \in Nat \ {0}
    BY FormatFacts, Zenon
  <2>1. a \in Nat /\ a < Space /\ valid(a) /\ Levels \in 1 .. Levels
    BY FormatFacts DEF Pages
  <2>2. PICK x \in Nat : x = Page(Levels, a)
    BY <2>1, PageType, Zenon
  <2>3. x = a \div d
    BY <1>2, <2>2, Zenon DEF Page
  <2>4. PICK eq \in Int : eq = Entries * q
    BY FormatFacts
  <2>5. (a < d * h <=> x < h) /\ (a < d * eq <=> x < eq)
    BY <2>1, <2>3, h \in Int, BelowMultiple, Zenon
  <2>6. a < d * (eq - h) <=> x < eq - h
    BY <2>1, <2>3, eq - h \in Int, BelowMultiple, Zenon
  <2>7. d * (eq - h) = d * eq - d * h
    BY <2>4
  <2>8. x < h \/ x >= eq - h
    BY <1>1, <1>2, <2>1, <2>4, <2>5, <2>6, <2>7 DEF valid
  <2>9. x < eq
    BY <1>1, <1>2, <2>1, <2>4, <2>5, Zenon
  <2>10. index(Levels, a) = x % Entries
    BY <2>1, <2>2, PageType, Zenon
  <2>11. CASE x < h
    <3>1. x = Entries * 0 + x /\ x \in 0 .. Entries - 1
      BY <1>1, <2>11
    <3>2. x % Entries = x
      BY <3>1, x \in Int, 0 \in Int, <2>0, Quotient, Zenon
    <3> QED
      BY <2>2, <2>10, <2>11, <3>2
  <2>12. CASE x >= eq - h
    <3>1. x = Entries * p + (x - ep) /\ x - ep \in h .. Entries - 1
      BY <1>1, <1>4, <1>5, <2>4, <2>9, <2>12
    <3>2. x - ep \in 0 .. Entries - 1
      BY <1>1, <3>1
    <3>3. x % Entries = x - ep
      BY <3>1, <3>2, x \in Int, p \in Int, <2>0, Quotient, Zenon
    <3> QED
      BY <2>2, <2>10, <3>1, <3>3, Zenon
  <2> QED
    BY <2>8, <2>11, <2>12, Zenon
<1>7. Page(Levels, va) \in Nat /\ Page(Levels, wa) \in Nat
  BY FormatFacts, PageType DEF Pages
<1> QED
  BY <1>1, <1>6, <1>7

-----------------------------------------------------------------------------
(***************************************************************************)
(* Walks, as functions of the contents m of the tables.                    *)
(***************************************************************************)
Walk(m, va) ==
    LET table[l \in 1 .. Levels] ==
          IF l = Levels THEN Root
          ELSE LET above == table[l + 1]
                   e == m[above][index(l + 1, va)]
               IN  IF above = None \/ e.kind # "table" THEN None ELSE e.to
    IN  table

\* Where a slot leads.
Below(m, t, i) == IF t = None \/ m[t][i].kind # "table" THEN None ELSE m[t][i].to

\* The walk from the root down to level n, as a function that satisfies the definition.
WalkDownTo(f, m, va, n) ==
    f = [l \in n .. Levels |-> IF l = Levels THEN Root ELSE Below(m, f[l + 1], index(l + 1, va))]

LEMMA WalksExist ==
    ASSUME NEW m, NEW va
    PROVE  \A n \in 1 .. Levels : \E f : WalkDownTo(f, m, va, n)
<1> DEFINE Good(n) == \E f : WalkDownTo(f, m, va, n)
<1> DEFINE Bad == {j \in 0 .. Levels - 1 : ~Good(Levels - j)}
<1>1. Levels \in Nat /\ Levels > 1
  BY FormatFacts, Zenon
<1>2. Bad = {}
  <2>1. SUFFICES ASSUME Bad # {} PROVE FALSE
    BY Zenon
  <2>2. Bad \in SUBSET Nat
    BY <1>1
  <2>3. PICK j \in Bad : \A i \in Bad : j <= i
    BY <2>1, <2>2, LeastElement, Zenon
  <2>4. PICK n \in 1 .. Levels : n = Levels - j
    BY <1>1, <2>3
  <2>5. ~Good(n)
    BY <2>3, <2>4, Zenon
  <2>6. CASE n = Levels
    <3> DEFINE f == [l \in Levels .. Levels |-> Root]
    <3>1. f = [l \in Levels .. Levels |->
                 IF l = Levels THEN Root ELSE Below(m, f[l + 1], index(l + 1, va))]
      BY <1>1
    <3>2. WalkDownTo(f, m, va, Levels)
      BY <3>1, Zenon DEF WalkDownTo
    <3> QED
      BY <2>5, <2>6, <3>2, Zenon
  <2>7. CASE n < Levels
    <3>1. j - 1 \in 0 .. Levels - 1 /\ j - 1 \notin Bad /\ Levels - (j - 1) = n + 1
      BY <1>1, <2>3, <2>4, <2>7
    <3>2. PICK f : WalkDownTo(f, m, va, n + 1)
      BY <3>1, Zenon
    <3> DEFINE g == [l \in n .. Levels |-> IF l = n THEN Below(m, f[n + 1], index(n + 1, va)) ELSE f[l]]
    <3>3. ASSUME NEW l \in n .. Levels
          PROVE  g[l] = IF l = Levels THEN Root ELSE Below(m, g[l + 1], index(l + 1, va))
      <4>1. CASE l = n
        <5>1. l # Levels /\ n + 1 \in n .. Levels /\ n + 1 # n
          BY <1>1, <2>7, <4>1
        <5>2. g[l] = Below(m, f[n + 1], index(n + 1, va)) /\ g[n + 1] = f[n + 1]
          BY <4>1, <5>1, Zenon
        <5> QED
          BY <4>1, <5>1, <5>2, Zenon
      <4>2. CASE l # n
        <5>1. l \in n + 1 .. Levels /\ (l # Levels => l + 1 \in n .. Levels /\ l + 1 # n)
          BY <1>1, <4>2
        <5>2. f[l] = IF l = Levels THEN Root ELSE Below(m, f[l + 1], index(l + 1, va))
          BY <3>2, <5>1, Zenon DEF WalkDownTo
        <5>3. g[l] = f[l] /\ (l # Levels => g[l + 1] = f[l + 1])
          BY <4>2, <5>1, Zenon
        <5> QED
          BY <5>2, <5>3, Zenon
      <4> QED
        BY <4>1, <4>2, Zenon
    <3>4. g = [l \in n .. Levels |-> IF l = Levels THEN Root ELSE Below(m, g[l + 1], index(l + 1, va))]
      BY <3>3, Zenon
    <3>5. WalkDownTo(g, m, va, n)
      BY <3>4, Zenon DEF WalkDownTo
    <3> QED
      BY <2>5, <3>5, Zenon
  <2> QED
    BY <1>1, <2>4, <2>6, <2>7
<1>3. ASSUME NEW n \in 1 .. Levels PROVE Good(n)
  <2>1. Levels - n \in 0 .. Levels - 1 /\ Levels - (Levels - n) = n
    BY <1>1
  <2> QED
    BY <1>2, <2>1, Zenon
<1> QED
  BY <1>3, Zenon

\* The definition of a walk means what it says.
LEMMA WalkIs ==
    ASSUME NEW m, NEW va
    PROVE  /\ Walk(m, va)[Levels] = Root
           /\ \A l \in 1 .. Levels - 1 :
                 Walk(m, va)[l] = Below(m, Walk(m, va)[l + 1], index(l + 1, va))
<1>1. Levels \in Nat /\ Levels > 1
  BY FormatFacts, Zenon
<1>2. \E f : WalkDownTo(f, m, va, 1)
  BY <1>1, WalksExist
<1>3. WalkDownTo(Walk(m, va), m, va, 1)
  BY <1>2, Zenon DEF WalkDownTo, Walk, Below
<1>4. Walk(m, va) = [l \in 1 .. Levels |->
                       IF l = Levels THEN Root ELSE Below(m, Walk(m, va)[l + 1], index(l + 1, va))]
  BY <1>3, Zenon DEF WalkDownTo
<1>5. ASSUME NEW l \in 1 .. Levels
      PROVE  Walk(m, va)[l] = IF l = Levels THEN Root ELSE Below(m, Walk(m, va)[l + 1], index(l + 1, va))
  BY <1>4, Zenon
<1>6. Levels \in 1 .. Levels /\ \A l \in 1 .. Levels - 1 : l \in 1 .. Levels /\ l # Levels
  BY <1>1
<1> QED
  BY <1>5, <1>6, Zenon

LEMMA PathIsWalk ==
    ASSUME NEW va
    PROVE  path(va) = Walk(mem, va)
  BY Zenon DEF path, Walk

FlagNames == {"WRITABLE", "USER", "CACHE_DISABLE", "WRITE_THROUGH", "GLOBAL", "NO_EXECUTE"}
LeafEntries == [kind : {"leaf"}, to : Nat, flags : SUBSET FlagNames, accessed : BOOLEAN]
TableEntries == {table_entry(u) : u \in Tables}
EntryType == {NoEntry} \cup TableEntries \cup LeafEntries
Contents == [Tables -> [Indexes -> EntryType]]

\* Every linked table is one level below the table it is linked in.
LevelsOf(m, lev) ==
    /\ lev \in [Tables -> 1 .. Levels]
    /\ lev[Root] = Levels
    /\ \A t \in Tables, i \in Indexes, u \in Tables : m[t][i] = table_entry(u) => lev[t] = lev[u] + 1

Reached(m, va) ==
    CHOOSE l \in 1 .. Levels : /\ Walk(m, va)[l] # None
                               /\ l > 1 => Walk(m, va)[l - 1] = None
Slot(m, va, level) == m[Walk(m, va)[level]][index(level, va)]
Translation(m, va) ==
    LET e == Slot(m, va, Reached(m, va))
    IN  IF ~valid(va) \/ ~present(e) THEN NotMapped
        ELSE [frame |-> e.to + (va % PagesAt(Reached(m, va))), flags |-> e.flags]

LEMMA TranslateIs ==
    ASSUME NEW va
    PROVE  /\ reached_level(va) = Reached(mem, va)
           /\ \A l : slot(va, l) = Slot(mem, va, l)
           /\ translate(va) = Translation(mem, va)
<1>1. path(va) = Walk(mem, va)
  BY PathIsWalk, Zenon
<1>2. reached_level(va) = Reached(mem, va)
  BY <1>1, Zenon DEF reached_level, Reached
<1>3. \A l : slot(va, l) = Slot(mem, va, l)
  BY <1>1, Zenon DEF slot, Slot
<1>4. Leaf(va) = Slot(mem, va, Reached(mem, va))
  BY <1>2, <1>3, Zenon DEF Leaf
<1> QED
  BY <1>2, <1>3, <1>4, Zenon DEF translate, Translation

LEMMA RootFacts ==
    /\ Root \in Tables /\ Root \in Image /\ None \notin Tables /\ Root # None /\ Root \notin Frames
    /\ Frames \subseteq Tables
<1>1. Levels \in 2 .. Levels
  BY FormatFacts
<1> QED
  BY <1>1, ImageAssumption, Zenon DEF Root, Image, Tables

LEMMA EntryKinds ==
    ASSUME NEW e \in EntryType
    PROVE  /\ e.kind \in {"none", "table", "leaf"}
           /\ e.kind = "none" <=> e = NoEntry
           /\ e.kind = "table" => e.to \in Tables /\ e = table_entry(e.to)
           /\ \A u : e = table_entry(u) => e.kind = "table" /\ e.to = u /\ u \in Tables
           /\ e.kind = "leaf" <=> e \in LeafEntries
           /\ present(e) <=> e # NoEntry
  BY DEF EntryType, TableEntries, LeafEntries, table_entry, NoEntry, present

LEMMA ContentsType ==
    ASSUME NEW m \in Contents, NEW t \in Tables, NEW i \in Indexes
    PROVE  m[t][i] \in EntryType
  BY Zenon DEF Contents

LEMMA WalkTables ==
    ASSUME NEW m \in Contents, NEW lev, LevelsOf(m, lev), NEW va \in Nat
    PROVE  \A l \in 1 .. Levels : Walk(m, va)[l] # None =>
              Walk(m, va)[l] \in Tables /\ lev[Walk(m, va)[l]] = l
<1> DEFINE W == Walk(m, va)
<1> DEFINE Good(l) == W[l] # None => W[l] \in Tables /\ lev[W[l]] = l
<1> DEFINE Bad == {n \in 0 .. Levels - 1 : ~Good(Levels - n)}
<1>1. Levels \in Nat /\ Levels > 1
  BY FormatFacts, Zenon
<1>2. Bad = {}
  <2>1. SUFFICES ASSUME Bad # {} PROVE FALSE
    BY Zenon
  <2>2. Bad \in SUBSET Nat
    BY <1>1
  <2>3. PICK n \in Bad : \A j \in Bad : n <= j
    BY <2>1, <2>2, LeastElement, Zenon
  <2>4. PICK l \in 1 .. Levels : l = Levels - n
    BY <1>1, <2>3
  <2>5. ~Good(l)
    BY <2>3, <2>4, Zenon
  <2>6. l # Levels
    BY <2>5, WalkIs, RootFacts DEF LevelsOf
  <2>7. n - 1 \in 0 .. Levels - 1 /\ n - 1 \notin Bad /\ Levels - (n - 1) = l + 1
        /\ l + 1 \in 1 .. Levels /\ l \in 1 .. Levels - 1
    BY <1>1, <2>3, <2>4, <2>6
  <2>8. Good(l + 1)
    BY <2>7, Zenon
  <2>9. W[l] = Below(m, W[l + 1], index(l + 1, va))
    BY <2>7, WalkIs, Zenon
  <2>10. W[l] # None
    BY <2>5, Zenon
  <2> HIDE DEF W
  <2>11. PICK t \in Tables, i \in Indexes : t = W[l + 1] /\ i = index(l + 1, va) /\ lev[t] = l + 1
    <3>1. W[l + 1] # None
      BY <2>9, <2>10, Zenon DEF Below
    <3> QED
      BY <2>7, <2>8, <3>1, PageType, Zenon
  <2>12. m[t][i].kind = "table" /\ W[l] = m[t][i].to
    BY <2>9, <2>10, <2>11, Zenon DEF Below
  <2>13. m[t][i].to \in Tables /\ m[t][i] = table_entry(m[t][i].to)
    BY <2>12, ContentsType, EntryKinds, Zenon
  <2>14. W[l] \in Tables /\ l + 1 = lev[W[l]] + 1
    BY <2>11, <2>12, <2>13 DEF LevelsOf
  <2>15. lev[W[l]] \in Int
    BY <2>14, <1>1 DEF LevelsOf
  <2>16. Good(l)
    BY <2>14, <2>15
  <2> QED
    BY <2>5, <2>16, Zenon
<1>3. ASSUME NEW l \in 1 .. Levels PROVE Good(l)
  <2>1. Levels - l \in 0 .. Levels - 1 /\ Levels - (Levels - l) = l
    BY <1>1
  <2> QED
    BY <1>2, <2>1, Zenon
<1> QED
  BY <1>3, Zenon

\* One step of a walk, downwards and upwards.
LEMMA WalkLink ==
    ASSUME NEW m \in Contents, NEW lev, LevelsOf(m, lev), NEW va \in Nat, NEW l \in 1 .. Levels - 1
    PROVE  /\ Walk(m, va)[l] # None => /\ Walk(m, va)[l + 1] # None
                                       /\ Slot(m, va, l + 1) = table_entry(Walk(m, va)[l])
           /\ Walk(m, va)[l + 1] # None =>
                 /\ Slot(m, va, l + 1) \in EntryType
                 /\ Walk(m, va)[l] # None <=> Slot(m, va, l + 1).kind = "table"
<1>1. PICK w : w = Walk(m, va)[l + 1]
  BY Zenon
<1>2. PICK v : v = Walk(m, va)[l]
  BY Zenon
<1>3. l + 1 \in 1 .. Levels
  BY FormatFacts
<1>4. PICK i \in Indexes : i = index(l + 1, va)
  BY <1>3, PageType, Zenon
<1>5. v = Below(m, w, i)
  BY <1>1, <1>2, <1>4, WalkIs, Zenon
<1>6. w # None => w \in Tables
  BY <1>1, <1>3, WalkTables, Zenon
<1>7. ASSUME w # None
      PROVE  /\ m[w][i] \in EntryType
             /\ v # None <=> m[w][i].kind = "table"
             /\ v # None => m[w][i] = table_entry(v)
  <2>1. m[w][i] \in EntryType
    BY <1>6, <1>7, ContentsType, Zenon
  <2>2. m[w][i].kind = "table" => m[w][i].to \in Tables /\ m[w][i] = table_entry(m[w][i].to)
    BY <2>1, EntryKinds, Zenon
  <2> QED
    BY <1>5, <1>7, <2>1, <2>2, RootFacts, Zenon DEF Below
<1>8. v # None => w # None
  BY <1>5, Zenon DEF Below
<1>9. Slot(m, va, l + 1) = m[w][i]
  BY <1>1, <1>4, Zenon DEF Slot
<1> QED
  BY <1>1, <1>2, <1>7, <1>8, <1>9, Zenon

\* A walk has a table at every level above one it has reached.
LEMMA WalkAbove ==
    ASSUME NEW m \in Contents, NEW lev, LevelsOf(m, lev), NEW va \in Nat,
           NEW l \in 1 .. Levels, Walk(m, va)[l] # None
    PROVE  \A k \in l .. Levels : Walk(m, va)[k] # None
<1> DEFINE Bad == {k \in l .. Levels : Walk(m, va)[k] = None}
<1>1. Levels \in Nat
  BY FormatFacts, Zenon
<1>2. SUFFICES ASSUME Bad # {} PROVE FALSE
  BY Zenon
<1>3. Bad \in SUBSET Nat
  BY <1>1
<1>4. PICK k \in Bad : \A j \in Bad : k <= j
  BY <1>2, <1>3, LeastElement, Zenon
<1>5. k # l /\ k \in l .. Levels
  BY <1>4, Zenon
<1>6. k - 1 \in 1 .. Levels - 1 /\ k - 1 \notin Bad /\ k - 1 \in l .. Levels /\ (k - 1) + 1 = k
  BY <1>1, <1>4, <1>5
<1>7. Walk(m, va)[k - 1] # None
  BY <1>6, Zenon
<1>8. Walk(m, va)[(k - 1) + 1] # None
  BY <1>6, <1>7, WalkLink, Zenon
<1> QED
  BY <1>4, <1>6, <1>8, Zenon

\* Where a walk ends: in a slot without a table, at a level below which it has none.
LEMMA ReachedIs ==
    ASSUME NEW m \in Contents, NEW lev, LevelsOf(m, lev), NEW va \in Nat
    PROVE  /\ Reached(m, va) \in 1 .. Levels
           /\ \A k \in 1 .. Levels : Walk(m, va)[k] # None <=> k >= Reached(m, va)
           /\ Slot(m, va, Reached(m, va)) \in {NoEntry} \cup LeafEntries
<1> DEFINE W == Walk(m, va)
<1> DEFINE S == {l \in 1 .. Levels : W[l] # None}
<1>1. Levels \in Nat /\ Levels > 1
  BY FormatFacts, Zenon
<1>2. Levels \in S
  BY <1>1, WalkIs, RootFacts
<1>3. S \in SUBSET Nat
  BY <1>1
<1>4. PICK n \in S : \A j \in S : n <= j
  BY <1>2, <1>3, LeastElement, Zenon
<1>5. n \in 1 .. Levels /\ W[n] # None /\ (n > 1 => W[n - 1] = None)
  <2>1. n > 1 => n - 1 \in 1 .. Levels /\ n - 1 \notin S
    BY <1>1, <1>4
  <2> QED
    BY <1>4, <2>1, Zenon
<1> HIDE DEF W, S
<1>6. PICK r : r = Reached(m, va)
  BY Zenon
<1>7. r \in 1 .. Levels /\ W[r] # None /\ (r > 1 => W[r - 1] = None)
  BY <1>5, <1>6, Zenon DEF Reached, W
<1>8. ASSUME NEW k \in 1 .. Levels PROVE W[k] # None <=> k >= r
  <2>1. CASE k >= r
    <3>1. k \in r .. Levels
      BY <1>7, <2>1
    <3>2. W[k] # None
      BY <1>7, <3>1, WalkAbove, Zenon DEF W
    <3> QED
      BY <2>1, <3>2, Zenon
  <2>2. CASE k < r
    <3>1. r > 1 /\ r - 1 \in k .. Levels /\ r - 1 \in 1 .. Levels
      BY <1>1, <1>7, <2>2
    <3>2. W[k] = None
      BY <1>7, <3>1, WalkAbove, Zenon DEF W
    <3> QED
      BY <1>7, <2>2, <3>2
  <2> QED
    BY <1>7, <2>1, <2>2
<1>9. W[r] \in Tables /\ lev[W[r]] = r /\ index(r, va) \in Indexes
  BY <1>7, WalkTables, PageType DEF W
<1>10. PICK e \in EntryType : e = Slot(m, va, r)
  BY <1>9, ContentsType, Zenon DEF Slot, W
<1>11. e.kind # "table"
  <2>1. CASE r = 1
    <3>1. SUFFICES ASSUME e.kind = "table" PROVE FALSE
      BY Zenon
    <3>2. PICK u \in Tables : m[W[r]][index(r, va)] = table_entry(u)
      BY <1>10, <3>1, EntryKinds, Zenon DEF Slot, W
    <3>3. r = lev[u] + 1 /\ lev[u] \in 1 .. Levels
      BY <1>9, <3>2, Zenon DEF LevelsOf
    <3> QED
      BY <1>1, <2>1, <3>3
  <2>2. CASE r > 1
    <3>1. r - 1 \in 1 .. Levels - 1 /\ (r - 1) + 1 = r
      BY <1>1, <1>7, <2>2
    <3>2. Walk(m, va)[(r - 1) + 1] # None /\ Walk(m, va)[r - 1] = None
      BY <1>7, <2>2, <3>1, Zenon DEF W
    <3>3. Slot(m, va, (r - 1) + 1).kind # "table"
      BY <3>1, <3>2, WalkLink, Zenon
    <3> QED
      BY <1>10, <3>1, <3>3, Zenon
  <2> QED
    BY <1>7, <2>1, <2>2
<1>12. e \in {NoEntry} \cup LeafEntries
  BY <1>11, EntryKinds, Zenon
<1> QED
  BY <1>6, <1>7, <1>8, <1>10, <1>12, Zenon DEF W

\* A slot on a walk that holds no table is where the walk ends.
LEMMA ReachedUnique ==
    ASSUME NEW m \in Contents, NEW lev, LevelsOf(m, lev), NEW va \in Nat,
           NEW l \in 1 .. Levels, Walk(m, va)[l] # None, Slot(m, va, l).kind # "table"
    PROVE  Reached(m, va) = l
<1>1. Levels \in Nat
  BY FormatFacts, Zenon
<1>2. PICK r \in 1 .. Levels : r = Reached(m, va)
  BY ReachedIs, Zenon
<1>3. l >= r
  BY <1>2, ReachedIs, Zenon
<1>4. ASSUME l > r PROVE FALSE
  <2>1. l - 1 \in 1 .. Levels - 1 /\ (l - 1) + 1 = l /\ l - 1 >= r /\ l - 1 \in 1 .. Levels
    BY <1>1, <1>4
  <2>2. Walk(m, va)[l - 1] # None
    BY <1>2, <2>1, ReachedIs, Zenon
  <2>3. Walk(m, va)[(l - 1) + 1] # None
    BY <2>1, Zenon
  <2>4. Slot(m, va, (l - 1) + 1).kind = "table"
    BY <2>1, <2>2, <2>3, WalkLink, Zenon
  <2> QED
    BY <2>1, <2>4, Zenon
<1> QED
  BY <1>2, <1>3, <1>4

-----------------------------------------------------------------------------
(***************************************************************************)
(* Two walks, and one walk before and after a change of the tables.        *)
(***************************************************************************)

\* Addresses in one page pass the same slots down to the level of the page.
LEMMA WalkSamePage ==
    ASSUME NEW m, NEW va \in Nat, NEW wa \in Nat, NEW l \in 1 .. Levels, Page(l, va) = Page(l, wa)
    PROVE  \A k \in l .. Levels : /\ Walk(m, va)[k] = Walk(m, wa)[k]
                                  /\ Slot(m, va, k) = Slot(m, wa, k)
<1> DEFINE Good(k) == Walk(m, va)[k] = Walk(m, wa)[k]
<1> DEFINE Bad == {n \in 0 .. Levels - l : ~Good(Levels - n)}
<1>1. Levels \in Nat /\ Levels > 1
  BY FormatFacts, Zenon
<1>2. Bad = {}
  <2>1. SUFFICES ASSUME Bad # {} PROVE FALSE
    BY Zenon
  <2>2. Bad \in SUBSET Nat
    BY <1>1
  <2>3. PICK n \in Bad : \A j \in Bad : n <= j
    BY <2>1, <2>2, LeastElement, Zenon
  <2>4. PICK k \in l .. Levels : k = Levels - n
    BY <1>1, <2>3
  <2>5. ~Good(k)
    BY <2>3, <2>4, Zenon
  <2>6. k # Levels
    BY <2>5, WalkIs, Zenon
  <2>7. n - 1 \in 0 .. Levels - l /\ n - 1 \notin Bad /\ Levels - (n - 1) = k + 1
        /\ k + 1 \in l .. Levels /\ k \in 1 .. Levels - 1
    BY <1>1, <2>3, <2>4, <2>6
  <2>8. Good(k + 1)
    BY <2>7, Zenon
  <2>9. index(k + 1, va) = index(k + 1, wa)
    BY <2>7, SamePageUp, Zenon
  <2>10. Good(k)
    BY <2>7, <2>8, <2>9, WalkIs
  <2> QED
    BY <2>5, <2>10, Zenon
<1>3. ASSUME NEW k \in l .. Levels PROVE Good(k)
  <2>1. Levels - k \in 0 .. Levels - l /\ Levels - (Levels - k) = k
    BY <1>1
  <2> QED
    BY <1>2, <2>1, Zenon
<1>4. \A k \in l .. Levels : index(k, va) = index(k, wa)
  BY SamePageUp, Zenon
<1> QED
  BY <1>3, <1>4, Zenon DEF Slot

\* No table is linked twice.
Once(m) ==
    \A t \in Tables, s \in Tables, i \in Indexes, j \in Indexes, u \in Tables :
       m[t][i] = table_entry(u) /\ m[s][j] = table_entry(u) => t = s /\ i = j

\* Two canonical addresses whose walks pass one slot are in one page of its level.
LEMMA SameSlot ==
    ASSUME NEW m \in Contents, NEW lev, LevelsOf(m, lev), Once(m), NEW va \in Pages, NEW wa \in Pages,
           NEW l \in 1 .. Levels, Walk(m, va)[l] # None, Walk(m, va)[l] = Walk(m, wa)[l],
           index(l, va) = index(l, wa)
    PROVE  Page(l, va) = Page(l, wa)
<1> DEFINE Good(k) == Walk(m, va)[k] = Walk(m, wa)[k] /\ index(k, va) = index(k, wa)
<1> DEFINE Bad == {k \in l .. Levels : ~Good(k)}
<1>1. Levels \in Nat /\ Levels > 1 /\ va \in Nat /\ wa \in Nat
  BY FormatFacts DEF Pages
<1>2. \A k \in l .. Levels : Walk(m, va)[k] # None /\ k \in 1 .. Levels
  BY <1>1, WalkAbove
<1>3. Bad = {}
  <2>1. SUFFICES ASSUME Bad # {} PROVE FALSE
    BY Zenon
  <2>2. Bad \in SUBSET Nat
    BY <1>1
  <2>3. PICK k \in Bad : \A j \in Bad : k <= j
    BY <2>1, <2>2, LeastElement, Zenon
  <2>4. k # l /\ k \in l .. Levels
    BY <2>3, Zenon
  <2>5. k - 1 \in 1 .. Levels - 1 /\ k - 1 \notin Bad /\ k - 1 \in l .. Levels /\ (k - 1) + 1 = k
    BY <1>1, <2>3, <2>4
  <2>6. Walk(m, va)[k - 1] = Walk(m, wa)[k - 1] /\ Walk(m, va)[k - 1] # None
    BY <1>2, <2>5, Zenon
  <2>7. PICK u : u = Walk(m, va)[k - 1]
    BY Zenon
  <2>8. u \in Tables
    BY <1>1, <1>2, <2>5, <2>6, <2>7, WalkTables, Zenon
  <2>9. /\ Walk(m, va)[k] # None /\ Slot(m, va, k) = table_entry(u)
        /\ Walk(m, wa)[k] # None /\ Slot(m, wa, k) = table_entry(u)
    BY <1>1, <2>5, <2>6, <2>7, WalkLink
  <2>10. PICK t \in Tables, s \in Tables : t = Walk(m, va)[k] /\ s = Walk(m, wa)[k]
    BY <1>1, <1>2, <2>4, <2>9, WalkTables, Zenon
  <2>11. PICK i \in Indexes, j \in Indexes : i = index(k, va) /\ j = index(k, wa)
    BY <1>1, <1>2, <2>4, PageType, Zenon
  <2>12. m[t][i] = table_entry(u) /\ m[s][j] = table_entry(u)
    BY <2>9, <2>10, <2>11, Zenon DEF Slot
  <2>13. t = s /\ i = j
    BY <2>8, <2>12 DEF Once
  <2> QED
    BY <2>3, <2>10, <2>11, <2>13, Zenon
<1>4. \A k \in l .. Levels : index(k, va) = index(k, wa)
  BY <1>3, Zenon
<1> HIDE DEF Good, Bad
<1> DEFINE Apart == {n \in 0 .. Levels - l : Page(Levels - n, va) # Page(Levels - n, wa)}
<1>5. Apart = {}
  <2>1. SUFFICES ASSUME Apart # {} PROVE FALSE
    BY Zenon
  <2>2. Apart \in SUBSET Nat
    BY <1>1
  <2>3. PICK n \in Apart : \A j \in Apart : n <= j
    BY <2>1, <2>2, LeastElement, Zenon
  <2>4. PICK k \in l .. Levels : k = Levels - n
    BY <1>1, <2>3
  <2>5. Page(k, va) # Page(k, wa)
    BY <2>3, <2>4, Zenon
  <2>6. k # Levels
    BY <1>1, <1>4, <2>5, SameRootPage, Zenon
  <2>7. n - 1 \in 0 .. Levels - l /\ n - 1 \notin Apart /\ Levels - (n - 1) = k + 1
        /\ k + 1 \in l .. Levels /\ k \in 1 .. Levels - 1
    BY <1>1, <2>3, <2>4, <2>6
  <2>8. Page(k + 1, va) = Page(k + 1, wa)
    BY <2>7, Zenon
  <2>9. Page(k, va) = Page(k, wa)
    BY <1>1, <1>4, <2>7, <2>8, SamePageDown, Zenon
  <2> QED
    BY <2>5, <2>9, Zenon
<1>6. Levels - l \in 0 .. Levels - l /\ Levels - (Levels - l) = l
  BY <1>1
<1> QED
  BY <1>5, <1>6, Zenon

\* A walk does not change above a level when what it finds there does not.
LEMMA WalkKept ==
    ASSUME NEW m, NEW n, NEW va, NEW l \in 1 .. Levels,
           \A k \in l + 1 .. Levels :
              Below(n, Walk(m, va)[k], index(k, va)) = Below(m, Walk(m, va)[k], index(k, va))
    PROVE  \A k \in l .. Levels : Walk(n, va)[k] = Walk(m, va)[k]
<1> DEFINE Good(k) == Walk(n, va)[k] = Walk(m, va)[k]
<1> DEFINE Bad == {d \in 0 .. Levels - l : ~Good(Levels - d)}
<1>1. Levels \in Nat /\ Levels > 1
  BY FormatFacts, Zenon
<1>2. Bad = {}
  <2>1. SUFFICES ASSUME Bad # {} PROVE FALSE
    BY Zenon
  <2>2. Bad \in SUBSET Nat
    BY <1>1
  <2>3. PICK d \in Bad : \A j \in Bad : d <= j
    BY <2>1, <2>2, LeastElement, Zenon
  <2>4. PICK k \in l .. Levels : k = Levels - d
    BY <1>1, <2>3
  <2>5. ~Good(k)
    BY <2>3, <2>4, Zenon
  <2>6. k # Levels
    BY <2>5, WalkIs, Zenon
  <2>7. d - 1 \in 0 .. Levels - l /\ d - 1 \notin Bad /\ Levels - (d - 1) = k + 1
        /\ k + 1 \in l + 1 .. Levels /\ k \in 1 .. Levels - 1
    BY <1>1, <2>3, <2>4, <2>6
  <2>8. Good(k + 1)
    BY <2>7, Zenon
  <2>9. Below(n, Walk(m, va)[k + 1], index(k + 1, va)) = Below(m, Walk(m, va)[k + 1], index(k + 1, va))
    BY <2>7, Zenon
  <2>10. /\ Walk(n, va)[k] = Below(n, Walk(n, va)[k + 1], index(k + 1, va))
         /\ Walk(m, va)[k] = Below(m, Walk(m, va)[k + 1], index(k + 1, va))
    BY <2>7, WalkIs
  <2>11. Good(k)
    BY <2>8, <2>9, <2>10, Zenon
  <2> QED
    BY <2>5, <2>11, Zenon
<1>3. ASSUME NEW k \in l .. Levels PROVE Good(k)
  <2>1. Levels - k \in 0 .. Levels - l /\ Levels - (Levels - k) = k
    BY <1>1
  <2> QED
    BY <1>2, <2>1, Zenon
<1> QED
  BY <1>3, Zenon
=============================================================================
