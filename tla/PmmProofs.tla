----------------------------- MODULE PmmProofs -----------------------------
(***************************************************************************)
(* Proofs about the physical frame allocator, for every block size, run    *)
(* size, amount of memory and boot information.                            *)
(***************************************************************************)
EXTENDS Pmm, FiniteSetTheorems, TLAPS

\* The number of blocks is a positive natural number.
LEMMA BlockCountType == BlockCount \in Nat /\ BlockCount > 0
  BY SizesAssumption DEF BlockCount

\* NIL is not a block, and the list heads and links are blocks or NIL.
LEMMA BlocksFinite ==
  /\ NIL \notin Blocks
  /\ Blocks \subseteq Nat
  /\ IsFiniteSet(Blocks)
  BY BlockCountType, FS_Interval DEF Blocks, NIL

\* push puts a block that is on no list at the head of list l.
LEMMA PushList ==
  ASSUME NEW L \in Links, NEW l \in Lists, NEW C \in SUBSET Blocks,
         NEW i \in Blocks \ C, IsListOf(L, l, C)
  PROVE  IsListOf(push(L, l, i), l, C \cup {i})
  <1> DEFINE n == Cardinality(C)
             m == Cardinality(C \cup {i})
             P == push(L, l, i)
  <1>1. IsFiniteSet(C) /\ n \in Nat /\ m = n + 1
    BY BlocksFinite, FS_Subset, FS_CardinalityType, FS_AddElement, Zenon
  <1>2. PICK ws \in [1 .. n -> C] :
           /\ \A j, k \in 1 .. n : ws[j] = ws[k] => j = k
           /\ \A c \in C : \E k \in 1 .. n : ws[k] = c
           /\ Spells(L, l, ws, n)
    BY Zenon DEF IsListOf
  <1> DEFINE vs == [k \in 1 .. m |-> IF k = 1 THEN i ELSE ws[k - 1]]
  <1> HIDE DEF n, m
  <1>3. vs \in [1 .. m -> C \cup {i}]
    BY <1>1, <1>2
  <1>4. \A j, k \in 1 .. m : vs[j] = vs[k] => j = k
    BY <1>1, <1>2
  <1>5. \A c \in C \cup {i} : \E k \in 1 .. m : vs[k] = c
    <2>1. vs[1] = i /\ 1 \in 1 .. m
      BY <1>1
    <2>2. ASSUME NEW c \in C PROVE \E k \in 1 .. m : vs[k] = c
      <3>1. PICK k \in 1 .. n : ws[k] = c
        BY <1>2
      <3>2. k + 1 \in 1 .. m /\ vs[k + 1] = c
        BY <1>1, <3>1
      <3> QED BY <3>2
    <2> QED BY <2>1, <2>2
  <1>6. /\ P.head[l] = i
        /\ P.next = [L.next EXCEPT ![i] = L.head[l]]
        /\ P.prev = [j \in Blocks |-> IF j = L.head[l] THEN i
                                      ELSE IF j = i THEN NIL ELSE L.prev[j]]
    BY DEF push, Links
  <1>7. Spells(P, l, vs, m)
    <2>1. P.head[l] = vs[1] /\ m # 0
      BY <1>1, <1>6
    <2>2. ASSUME NEW k \in 1 .. m
          PROVE  /\ P.next[vs[k]] = IF k = m THEN NIL ELSE vs[k + 1]
                 /\ P.prev[vs[k]] = IF k = 1 THEN NIL ELSE vs[k - 1]
      <3>1. CASE k = 1
        BY <3>1, <1>1, <1>2, <1>6, BlocksFinite DEF Spells, Links
      <3>2. CASE k # 1
        <4>1. k - 1 \in 1 .. n /\ vs[k] = ws[k - 1] /\ ws[k - 1] \in Blocks \ {i}
          BY <3>2, <1>1, <1>2
        <4>2. L.next[ws[k - 1]] = IF k - 1 = n THEN NIL ELSE ws[k]
          BY <4>1, <1>1, <1>2 DEF Spells
        <4>3. L.prev[ws[k - 1]] = IF k - 1 = 1 THEN NIL ELSE ws[k - 2]
          BY <4>1, <1>1, <1>2 DEF Spells
        <4>4. L.head[l] = ws[1] /\ 1 \in 1 .. n
          BY <4>1, <1>1, <1>2 DEF Spells
        <4>5. P.next[vs[k]] = IF k = m THEN NIL ELSE vs[k + 1]
          BY <4>1, <4>2, <1>1, <1>6, <3>2 DEF Links
        <4>6. ws[k - 1] = L.head[l] <=> k = 2
          BY <4>1, <4>4, <1>1, <1>2
        <4>7. P.prev[vs[k]] = vs[k - 1]
          BY <4>1, <4>3, <4>6, <1>1, <1>6, <3>2
        <4> QED BY <4>5, <4>7, <3>2
      <3> QED BY <3>1, <3>2, Zenon
    <2> QED BY <2>1, <2>2 DEF Spells
  <1> QED BY <1>3, <1>4, <1>5, <1>7, Zenon DEF IsListOf, m

\* push changes no link of a block of the other list.
LEMMA PushOther ==
  ASSUME NEW L \in Links, NEW l \in Lists, NEW o \in Lists \ {l},
         NEW C \in SUBSET Blocks, NEW D \in SUBSET Blocks, C \cap D = {},
         NEW i \in Blocks \ D, IsListOf(L, l, C), IsListOf(L, o, D)
  PROVE  IsListOf(push(L, l, i), o, D)
  <1> DEFINE n == Cardinality(D)
             P == push(L, l, i)
  <1>1. IsFiniteSet(C) /\ Cardinality(C) \in Nat
    BY BlocksFinite, FS_Subset, FS_CardinalityType, Zenon
  <1>2. L.head[l] \notin D
    <2>1. PICK us \in [1 .. Cardinality(C) -> C] : Spells(L, l, us, Cardinality(C))
      BY DEF IsListOf
    <2>2. L.head[l] = IF Cardinality(C) = 0 THEN NIL ELSE us[1]
      BY <2>1 DEF Spells
    <2>3. Cardinality(C) # 0 => us[1] \in C
      BY <1>1
    <2> QED BY <2>2, <2>3, BlocksFinite, Zenon
  <1>3. PICK ws \in [1 .. n -> D] :
           /\ \A j, k \in 1 .. n : ws[j] = ws[k] => j = k
           /\ \A c \in D : \E k \in 1 .. n : ws[k] = c
           /\ Spells(L, o, ws, n)
    BY Zenon DEF IsListOf
  <1>4. \A d \in D : P.next[d] = L.next[d] /\ P.prev[d] = L.prev[d]
    BY <1>2 DEF push, Links
  <1>5. P.head[o] = L.head[o]
    BY DEF push, Links
  <1>6. Spells(P, o, ws, n)
    BY <1>3, <1>4, <1>5 DEF Spells
  <1> QED BY <1>3, <1>6, Zenon DEF IsListOf

\* unlink takes a block out of its list and joins its neighbours.
LEMMA UnlinkList ==
  ASSUME NEW L \in Links, NEW l \in Lists, NEW C \in SUBSET Blocks,
         NEW i \in C, IsListOf(L, l, C)
  PROVE  IsListOf(unlink(L, l, i), l, C \ {i})
  <1> DEFINE n == Cardinality(C)
             m == Cardinality(C \ {i})
             U == unlink(L, l, i)
  <1>1. IsFiniteSet(C) /\ n \in Nat /\ m = n - 1
    BY BlocksFinite, FS_Subset, FS_CardinalityType, FS_RemoveElement
  <1>2. PICK ws \in [1 .. n -> C] :
           /\ \A j, k \in 1 .. n : ws[j] = ws[k] => j = k
           /\ \A c \in C : \E k \in 1 .. n : ws[k] = c
           /\ Spells(L, l, ws, n)
    BY Zenon DEF IsListOf
  <1>3. PICK p \in 1 .. n : ws[p] = i
    BY <1>2
  <1> DEFINE vs == [k \in 1 .. m |-> IF k < p THEN ws[k] ELSE ws[k + 1]]
  <1> HIDE DEF n, m
  <1>4. vs \in [1 .. m -> C \ {i}]
    BY <1>1, <1>2, <1>3
  <1>5. \A j, k \in 1 .. m : vs[j] = vs[k] => j = k
    BY <1>1, <1>2
  <1>6. \A c \in C \ {i} : \E k \in 1 .. m : vs[k] = c
    <2>1. ASSUME NEW c \in C \ {i} PROVE \E k \in 1 .. m : vs[k] = c
      <3>1. PICK k \in 1 .. n : ws[k] = c
        BY <1>2
      <3>2. CASE k < p
        BY <3>1, <3>2, <1>1
      <3>3. CASE k > p
        <4>1. k - 1 \in 1 .. m /\ vs[k - 1] = c
          BY <3>1, <3>3, <1>1
        <4> QED BY <4>1
      <3> QED BY <3>1, <3>2, <3>3, <1>3
    <2> QED BY <2>1
  <1>7. /\ L.next[i] = IF p = n THEN NIL ELSE ws[p + 1]
        /\ L.prev[i] = IF p = 1 THEN NIL ELSE ws[p - 1]
        /\ L.head[l] = ws[1]
    <2>1. \A k \in 1 .. n : /\ L.next[ws[k]] = IF k = n THEN NIL ELSE ws[k + 1]
                            /\ L.prev[ws[k]] = IF k = 1 THEN NIL ELSE ws[k - 1]
      BY <1>2 DEF Spells
    <2>2. L.head[l] = ws[1]
      BY <1>1, <1>2, <1>3 DEF Spells
    <2> QED BY <2>1, <2>2, <1>3
  <1>8. /\ U.head[l] = IF p = 1 THEN L.next[i] ELSE L.head[l]
        /\ U.next = [j \in Blocks |-> IF j = L.prev[i] THEN L.next[i] ELSE L.next[j]]
        /\ U.prev = [j \in Blocks |-> IF j = L.next[i] THEN L.prev[i] ELSE L.prev[j]]
    <2>1. p # 1 => ws[p - 1] \in Blocks
      BY <1>1, <1>2
    <2>2. L.prev[i] = NIL <=> p = 1
      BY <2>1, <1>7, BlocksFinite
    <2> QED BY <2>2 DEF unlink, Links
  <1>9. Spells(U, l, vs, m)
    <2>1. U.head[l] = IF m = 0 THEN NIL ELSE vs[1]
      BY <1>1, <1>7, <1>8
    <2>2. ASSUME NEW k \in 1 .. m
          PROVE  U.next[vs[k]] = IF k = m THEN NIL ELSE vs[k + 1]
      <3>1. CASE k < p
        <4>1. vs[k] = ws[k] /\ k \in 1 .. n /\ ws[k] \in Blocks
          BY <3>1, <1>1, <1>2
        <4>2. L.next[ws[k]] = ws[k + 1]
          BY <3>1, <4>1, <1>1, <1>2 DEF Spells
        <4>3. ws[k] = L.prev[i] <=> k = p - 1
          BY <3>1, <4>1, <1>1, <1>2, <1>7, BlocksFinite
        <4> QED BY <3>1, <4>1, <4>2, <4>3, <1>1, <1>7, <1>8
      <3>2. CASE k >= p
        <4>1. vs[k] = ws[k + 1] /\ k + 1 \in 1 .. n /\ ws[k + 1] \in Blocks
          BY <3>2, <1>1, <1>2
        <4>2. L.next[ws[k + 1]] = IF k + 1 = n THEN NIL ELSE ws[k + 2]
          BY <3>2, <4>1, <1>1, <1>2 DEF Spells
        <4>3. ws[k + 1] # L.prev[i]
          BY <3>2, <4>1, <1>1, <1>2, <1>7, BlocksFinite
        <4> QED BY <3>2, <4>1, <4>2, <4>3, <1>1, <1>8
      <3> QED BY <3>1, <3>2, <1>1
    <2>3. ASSUME NEW k \in 1 .. m
          PROVE  U.prev[vs[k]] = IF k = 1 THEN NIL ELSE vs[k - 1]
      <3>1. CASE k < p
        <4>1. vs[k] = ws[k] /\ k \in 1 .. n /\ ws[k] \in Blocks
          BY <3>1, <1>1, <1>2
        <4>2. L.prev[ws[k]] = IF k = 1 THEN NIL ELSE ws[k - 1]
          BY <3>1, <4>1, <1>1, <1>2 DEF Spells
        <4>3. ws[k] # L.next[i]
          BY <3>1, <4>1, <1>1, <1>2, <1>7, BlocksFinite
        <4> QED BY <3>1, <4>1, <4>2, <4>3, <1>1, <1>8
      <3>2. CASE k >= p
        <4>1. vs[k] = ws[k + 1] /\ k + 1 \in 1 .. n /\ ws[k + 1] \in Blocks
          BY <3>2, <1>1, <1>2
        <4>2. L.prev[ws[k + 1]] = ws[k]
          BY <3>2, <4>1, <1>1, <1>2 DEF Spells
        <4>3. ws[k + 1] = L.next[i] <=> k = p
          BY <3>2, <4>1, <1>1, <1>2, <1>7, BlocksFinite
        <4> QED BY <3>2, <4>1, <4>2, <4>3, <1>1, <1>7, <1>8
      <3> QED BY <3>1, <3>2, <1>1
    <2> QED BY <2>1, <2>2, <2>3 DEF Spells
  <1> QED BY <1>4, <1>5, <1>6, <1>9, Zenon DEF IsListOf, m

\* unlink changes no link of a block of the other list.
LEMMA UnlinkOther ==
  ASSUME NEW L \in Links, NEW l \in Lists, NEW o \in Lists \ {l},
         NEW C \in SUBSET Blocks, NEW D \in SUBSET Blocks, C \cap D = {},
         NEW i \in C, IsListOf(L, l, C), IsListOf(L, o, D)
  PROVE  IsListOf(unlink(L, l, i), o, D)
  <1> DEFINE n == Cardinality(D)
             m == Cardinality(C)
             U == unlink(L, l, i)
  <1>1. IsFiniteSet(C) /\ m \in Nat
    BY BlocksFinite, FS_Subset, FS_CardinalityType, Zenon
  <1>2. L.next[i] \notin D /\ L.prev[i] \notin D
    <2>1. PICK us \in [1 .. m -> C] :
             /\ \A c \in C : \E k \in 1 .. m : us[k] = c
             /\ Spells(L, l, us, m)
      BY Zenon DEF IsListOf
    <2>2. PICK k \in 1 .. m : us[k] = i
      BY <2>1
    <2> HIDE DEF m
    <2>3. /\ L.next[i] = IF k = m THEN NIL ELSE us[k + 1]
          /\ L.prev[i] = IF k = 1 THEN NIL ELSE us[k - 1]
      BY <2>1, <2>2 DEF Spells
    <2>4. (k # m => us[k + 1] \in C) /\ (k # 1 => us[k - 1] \in C)
      BY <1>1
    <2> QED BY <2>3, <2>4, BlocksFinite, Zenon
  <1>3. PICK ws \in [1 .. n -> D] :
           /\ \A j, k \in 1 .. n : ws[j] = ws[k] => j = k
           /\ \A c \in D : \E k \in 1 .. n : ws[k] = c
           /\ Spells(L, o, ws, n)
    BY Zenon DEF IsListOf
  <1>4. \A d \in D : U.next[d] = L.next[d] /\ U.prev[d] = L.prev[d]
    BY <1>2 DEF unlink, Links
  <1>5. U.head[o] = L.head[o]
    BY DEF unlink, Links
  <1>6. Spells(U, o, ws, n)
    BY <1>3, <1>4, <1>5 DEF Spells
  <1> QED BY <1>3, <1>6, Zenon DEF IsListOf

\* push and unlink keep the heads and links blocks or NIL.
LEMMA LinksType ==
  ASSUME NEW L \in Links, NEW l \in Lists, NEW i \in Blocks
  PROVE  push(L, l, i) \in Links /\ unlink(L, l, i) \in Links
  <1>1. /\ L.head \in [Lists -> Blocks \cup {NIL}]
        /\ L.next \in [Blocks -> Blocks \cup {NIL}]
        /\ L.prev \in [Blocks -> Blocks \cup {NIL}]
    BY DEF Links
  <1>2. push(L, l, i) \in Links
    BY <1>1 DEF push, Links
  <1>3. unlink(L, l, i) \in Links
    BY <1>1 DEF unlink, Links
  <1> QED BY <1>2, <1>3

\* relink moves block i from its list to another one and leaves the rest as it was.
LEMMA RelinkLists ==
  ASSUME NEW L \in Links, NEW from \in Lists \cup {"none"}, NEW to \in Lists \cup {"none"},
         from # to, NEW i \in Blocks,
         NEW C \in [Lists -> SUBSET Blocks], C["whole"] \cap C["broken"] = {},
         \A l \in Lists : i \in C[l] <=> l = from,
         \A l \in Lists : IsListOf(L, l, C[l])
  PROVE  /\ relink(L, from, to, i) \in Links
         /\ \A l \in Lists : IsListOf(relink(L, from, to, i), l,
                                      IF l = to THEN C[l] \cup {i} ELSE C[l] \ {i})
  <1> DEFINE U == IF from = "none" THEN L ELSE unlink(L, from, i)
             D == [l \in Lists |-> C[l] \ {i}]
  <1>1. /\ U \in Links
        /\ \A l \in Lists : IsListOf(U, l, D[l])
    <2>1. CASE from = "none"
      <3>1. \A l \in Lists : D[l] = C[l]
        BY <2>1 DEF Lists
      <3> QED BY <2>1, <3>1
    <2>2. CASE from # "none"
      <3>1. from \in Lists /\ i \in C[from]
        BY <2>2
      <3>2. U \in Links
        BY <2>2, <3>1, LinksType
      <3>3. IsListOf(U, from, D[from])
        BY <2>2, <3>1, UnlinkList
      <3>4. ASSUME NEW l \in Lists, l # from PROVE IsListOf(U, l, D[l])
        <4>1. D[l] = C[l] /\ C[from] \cap C[l] = {}
          BY <3>1, <3>4 DEF Lists
        <4>2. IsListOf(unlink(L, from, i), l, C[l])
          BY <3>1, <3>4, <4>1, UnlinkOther
        <4> QED BY <2>2, <4>1, <4>2
      <3> QED BY <3>2, <3>3, <3>4, Zenon
    <2> QED BY <2>1, <2>2
  <1>2. /\ \A l \in Lists : D[l] \in SUBSET Blocks /\ i \notin D[l]
        /\ D["whole"] \cap D["broken"] = {}
    BY DEF Lists
  <1>3. relink(L, from, to, i) = IF to = "none" THEN U ELSE push(U, to, i)
    BY DEF relink
  <1>4. ASSUME NEW l \in Lists
        PROVE  (IF l = to THEN C[l] \cup {i} ELSE C[l] \ {i})
               = IF l = to THEN D[l] \cup {i} ELSE D[l]
    OBVIOUS
  <1> HIDE DEF U, D
  <1>5. CASE to = "none"
    <2>1. \A l \in Lists : l # to
      BY <1>5 DEF Lists
    <2> QED BY <1>1, <1>3, <1>4, <1>5, <2>1, Zenon
  <1>6. CASE to # "none"
    <2>1. to \in Lists
      BY <1>6
    <2>2. push(U, to, i) \in Links
      BY <2>1, <1>1, LinksType
    <2>3. IsListOf(push(U, to, i), to, D[to] \cup {i})
      BY <2>1, <1>1, <1>2, PushList
    <2>4. ASSUME NEW l \in Lists, l # to PROVE IsListOf(push(U, to, i), l, D[l])
      <3>1. D[to] \cap D[l] = {}
        BY <2>1, <2>4, <1>2 DEF Lists
      <3> QED BY <2>1, <2>4, <3>1, <1>1, <1>2, PushOther
    <2> QED BY <1>3, <1>4, <1>6, <2>2, <2>3, <2>4, Zenon
  <1> QED BY <1>5, <1>6, Zenon

\* set_free keeps every list the list of its class.
LEMMA SetFreeLists ==
  ASSUME m_links \in Links, m_free \in [Blocks -> 0 .. FramesPerBlock],
         ListsHoldTheirBlocks,
         NEW i \in Blocks, NEW c \in 0 .. FramesPerBlock, set_free(i, c)
  PROVE  /\ m_links' \in Links
         /\ m_free' \in [Blocks -> 0 .. FramesPerBlock]
         /\ ListsHoldTheirBlocks'
  <1> DEFINE from == list_of(m_free[i])
             to == list_of(c)
             C == [l \in Lists |-> Class(l)]
  <1>1. from \in Lists \cup {"none"} /\ to \in Lists \cup {"none"}
    BY DEF list_of, Lists
  <1>2. m_free' = [m_free EXCEPT ![i] = c]
    BY DEF set_free
  <1>3. m_links' = IF from = to THEN m_links ELSE relink(m_links, from, to, i)
    BY DEF set_free
  <1>4. \A l \in Lists : Class(l)' = IF l = to THEN C[l] \cup {i} ELSE C[l] \ {i}
    BY <1>2 DEF Class
  <1>5. CASE from = to
    <2>1. \A l \in Lists : Class(l)' = Class(l)
      BY <1>4, <1>5 DEF Class
    <2> QED BY <1>2, <1>3, <1>5, <2>1 DEF ListsHoldTheirBlocks
  <1>6. CASE from # to
    <2>1. /\ C \in [Lists -> SUBSET Blocks]
          /\ C["whole"] \cap C["broken"] = {}
          /\ \A l \in Lists : i \in C[l] <=> l = from
          /\ \A l \in Lists : IsListOf(m_links, l, C[l])
      BY DEF Class, Lists, ListsHoldTheirBlocks
    <2> HIDE DEF C, from, to
    <2>2. /\ relink(m_links, from, to, i) \in Links
          /\ \A l \in Lists : IsListOf(relink(m_links, from, to, i), l,
                                       IF l = to THEN C[l] \cup {i} ELSE C[l] \ {i})
      BY <1>1, <1>6, <2>1, RelinkLists, Zenon
    <2>3. \A l \in Lists : IsListOf(m_links', l, Class(l)')
      BY <1>3, <1>4, <1>6, <2>2, Zenon
    <2>4. ListsHoldTheirBlocks'
      BY <2>3 DEF ListsHoldTheirBlocks
    <2> QED BY <1>2, <1>3, <1>6, <2>2, <2>4
  <1> QED BY <1>5, <1>6
-----------------------------------------------------------------------------
\* The slots of a block: finite, FramesPerBlock of them.
LEMMA SlotsFinite ==
  /\ IsFiniteSet(Slots) /\ Cardinality(Slots) = FramesPerBlock
  /\ \A S \in SUBSET Slots : /\ IsFiniteSet(S)
                             /\ Cardinality(S) \in 0 .. FramesPerBlock
                             /\ Cardinality(S) = FramesPerBlock => S = Slots
                             /\ Cardinality(S) = 0 <=> S = {}
  <1>1. IsFiniteSet(Slots) /\ Cardinality(Slots) = FramesPerBlock
    BY SizesAssumption, FS_Interval DEF Slots
  <1>2. ASSUME NEW S \in SUBSET Slots
        PROVE  /\ IsFiniteSet(S)
               /\ Cardinality(S) \in 0 .. FramesPerBlock
               /\ Cardinality(S) = FramesPerBlock => S = Slots
               /\ Cardinality(S) = 0 <=> S = {}
    <2>1. /\ IsFiniteSet(S) /\ Cardinality(S) <= FramesPerBlock
          /\ Cardinality(S) = FramesPerBlock => S = Slots
      BY <1>1, FS_Subset
    <2>2. Cardinality(S) \in Nat /\ (Cardinality(S) = 0 <=> S = {})
      BY <2>1, FS_CardinalityType, FS_EmptySet
    <2> QED BY <2>1, <2>2, SizesAssumption
  <1> QED BY <1>1, <1>2

\* The slots of a block are numbers.
LEMMA SlotsNat == Slots \subseteq Nat
  <1>1. \A n \in Int : 0 .. n \subseteq Nat
    OBVIOUS
  <1> QED BY <1>1, SizesAssumption DEF Slots

\* find_set returns the lowest element of a non-empty set of naturals.
LEMMA FindSet ==
  ASSUME NEW S \in SUBSET Nat, S # {}
  PROVE  find_set(S) \in S /\ \A t \in S : find_set(S) <= t
  <1>1. PICK x \in S : \A y \in S : ~ (<<y, x>> \in OpToRel(<, Nat))
    BY NatLessThanWellFounded, WFMin, Zenon
  <1>2. ASSUME NEW y \in S PROVE ~ (y < x)
    <2>1. y < x => <<y, x>> \in OpToRel(<, Nat)
      BY ZenonT(30) DEF OpToRel
    <2> QED BY <1>1, <2>1, Zenon
  <1>3. \A y \in S : x <= y
    BY <1>2
  <1> QED BY <1>3, Zenon DEF find_set

\* Populating marks frames of existing blocks only, and none without boot information.
LEMMA PopulatedType ==
  /\ \A b : populated(b) \in [Blocks -> SUBSET Slots]
  /\ populated(NoBoot) = [i \in Blocks |-> {}]
  <1>1. \A r : mark(r, TRUE) \in [Blocks -> SUBSET Slots]
    BY DEF mark
  <1>2. ASSUME NEW b PROVE populated(b) \in [Blocks -> SUBSET Slots]
    <2>1. ASSUME NEW i \in Blocks, NEW x \in UNION {mark(r, TRUE)[i] : r \in b.usable}
          PROVE  x \in Slots
      <3>1. PICK r \in b.usable : x \in mark(r, TRUE)[i]
        BY <2>1, Zenon
      <3> QED BY <1>1, <3>1, Zenon
    <2> QED BY <2>1, Zenon DEF populated
  <1>3. populated(NoBoot) = [i \in Blocks |-> {}]
    BY DEF populated, NoBoot
  <1> QED BY <1>2, <1>3

\* An aligned run of 1 GiB lies within the managed memory.
LEMMA RunInBlocks ==
  ASSUME NEW i \in Blocks, i % BlocksPerGiga = 0
  PROVE  i + BlocksPerGiga - 1 \in Blocks
  <1> DEFINE q == i \div BlocksPerGiga
  <1>1. q \in Int /\ i = q * BlocksPerGiga
    BY SizesAssumption, BlockCountType DEF Blocks
  <1>2. q < Gigas
    BY <1>1, SizesAssumption DEF Blocks, BlockCount
  <1>3. (q + 1) * BlocksPerGiga <= Gigas * BlocksPerGiga
    BY <1>1, <1>2, SizesAssumption
  <1> QED BY <1>1, <1>3, SizesAssumption DEF Blocks, BlockCount

\* The head of a list is a block of its class, and NIL only when the class is empty.
LEMMA HeadInClass ==
  ASSUME m_links \in Links, ListsHoldTheirBlocks, NEW l \in Lists
  PROVE  /\ m_links.head[l] # NIL => m_links.head[l] \in Class(l)
         /\ m_links.head[l] = NIL => Class(l) = {}
  <1> DEFINE n == Cardinality(Class(l))
  <1>1. Class(l) \in SUBSET Blocks
    BY DEF Class
  <1>2. IsFiniteSet(Class(l)) /\ n \in Nat /\ (n = 0 <=> Class(l) = {})
    BY <1>1, BlocksFinite, FS_Subset, FS_CardinalityType, FS_EmptySet
  <1>3. PICK ws \in [1 .. n -> Class(l)] :
           m_links.head[l] = IF n = 0 THEN NIL ELSE ws[1]
    BY DEF ListsHoldTheirBlocks, IsListOf, Spells
  <1>4. n # 0 => ws[1] \in Class(l)
    BY <1>2
  <1> QED BY <1>1, <1>2, <1>3, <1>4, BlocksFinite
-----------------------------------------------------------------------------
\* A block number in the loop bounds.
LEMMA BlockBounds == 0 \in Blocks /\ BlockCount - 1 \in Blocks
  BY BlockCountType DEF Blocks

\* Initially every list is empty and no frame is free.
LEMMA InitInv == Init => Inv
  <1> SUFFICES ASSUME Init PROVE Inv
    OBVIOUS
  <1> USE DEF Init
  <1>1. TypeOK
    BY BlockBounds, SizesAssumption DEF TypeOK, Links, Halt, NoAnswer, PageSizes, Lists
  <1>2. Pending = {}
    BY DEF Pending, Halt, Loops
  <1>3. CountsMatchBitmap
    BY <1>2, FS_EmptySet DEF CountsMatchBitmap
  <1>4. ListsHoldTheirBlocks
    <2>1. ASSUME NEW l \in Lists PROVE IsListOf(m_links, l, Class(l))
      <3>1. Class(l) = {} /\ Cardinality({}) = 0
        BY FS_EmptySet DEF Class, list_of, Lists
      <3> DEFINE ws == [k \in 1 .. 0 |-> NIL]
      <3>2. ws \in [1 .. 0 -> {}]
        OBVIOUS
      <3>3. Spells(m_links, l, ws, 0)
        BY DEF Spells
      <3> QED BY <3>1, <3>2, <3>3, Zenon DEF IsListOf
    <2> QED BY <2>1 DEF ListsHoldTheirBlocks
  <1>5. EveryFrameAccountedFor
    BY PopulatedType DEF EveryFrameAccountedFor
  <1>6. ListedBlocksHoldFrames
    BY DEF ListedBlocksHoldFrames, Halt
  <1> QED BY <1>1, <1>3, <1>4, <1>5, <1>6 DEF Inv

\* populate fills the bitmap while every block still counts as full.
LEMMA PopulateInv ==
  ASSUME Inv, NEW b \in BootInfos, populate(b)
  PROVE  Inv'
  <1> USE DEF populate, Inv
  <1>1. TypeOK'
    BY BlockBounds, BlockCountType, PopulatedType DEF TypeOK, Loops
  <1>2. \A i \in Blocks : m_frames[i] = {} /\ held[i] = {}
    BY PopulatedType DEF TypeOK, EveryFrameAccountedFor
  <1>3. CountsMatchBitmap'
    <2>1. Pending = {} /\ Pending' = Blocks
      BY DEF Pending, Loops, Blocks
    <2>2. \A i \in Blocks : m_free[i] = 0
      BY <1>2, <2>1, FS_EmptySet, Zenon DEF CountsMatchBitmap
    <2> QED BY <2>1, <2>2 DEF CountsMatchBitmap
  <1>4. ListsHoldTheirBlocks'
    BY DEF ListsHoldTheirBlocks, Class
  <1>5. EveryFrameAccountedFor'
    BY <1>2, PopulatedType DEF EveryFrameAccountedFor
  <1>6. ListedBlocksHoldFrames'
    BY DEF ListedBlocksHoldFrames
  <1> QED BY <1>1, <1>3, <1>4, <1>5, <1>6

\* An iteration of a loop brings one more block's count in line with its bits.
LEMMA SetFreeLoopInv ==
  ASSUME Inv, SetFreeLoop
  PROVE  Inv'
  <1> DEFINE i == op.index
             c == loop_target(i)
  <1> USE DEF Inv
  <1>1. /\ i \in Blocks /\ op.last \in Blocks /\ i <= op.last
        /\ op.kind \in {"populate", "take", "give"}
        /\ m_frames[i] \in SUBSET Slots
    BY DEF TypeOK, SetFreeLoop, Loops
  <1>2. i \in Pending /\ Pending = i .. op.last
    BY <1>1 DEF Pending, Loops, Blocks
  <1>3. c = Cardinality(m_frames[i]) /\ c \in 0 .. FramesPerBlock
    <2>1. Cardinality(m_frames[i]) \in 0 .. FramesPerBlock
      BY <1>1, SlotsFinite
    <2>2. CASE op.kind = "populate"
      BY <2>1, <2>2 DEF loop_target
    <2>3. CASE op.kind = "take"
      <3>1. m_frames[i] = {}
        BY <1>1, <1>2, <2>3 DEF CountsMatchBitmap
      <3> QED BY <2>1, <2>3, <3>1, FS_EmptySet DEF loop_target
    <2>4. CASE op.kind = "give"
      <3>1. m_frames[i] = Slots
        BY <1>1, <1>2, <2>4 DEF CountsMatchBitmap
      <3> QED BY <2>1, <2>4, <3>1, SlotsFinite DEF loop_target
    <2> QED BY <1>1, <2>2, <2>3, <2>4
  <1>4. set_free(i, c)
    BY DEF SetFreeLoop
  <1> HIDE DEF c
  <1>5. /\ m_links' \in Links
        /\ m_free' \in [Blocks -> 0 .. FramesPerBlock]
        /\ ListsHoldTheirBlocks'
    BY <1>1, <1>3, <1>4, SetFreeLists DEF TypeOK
  <1>6. \/ /\ i = op.last
           /\ op'.kind \notin Loops /\ op'.kind # "off" /\ op'.kind # "panic_listed"
           /\ op' \in [kind : {"idle", "no_usable_memory"}, index : {0}, last : {0}]
        \/ /\ i # op.last
           /\ op' = [op EXCEPT !.index = i + 1]
    BY DEF SetFreeLoop, after_loop, Idle, Halt, Loops
  <1>7. TypeOK'
    <2>1. i # op.last => i + 1 \in Blocks /\ i + 1 <= op.last
      BY <1>1, BlockCountType DEF Blocks
    <2>2. /\ op' \in [kind : Loops \cup Panics \cup {"off", "idle", "no_usable_memory"},
                      index : Blocks, last : Blocks]
          /\ op'.index <= op'.last
          /\ op'.kind # "off"
      <3>1. CASE i = op.last
        BY <3>1, <1>6, BlockBounds
      <3>2. CASE i # op.last
        BY <3>2, <1>1, <1>6, <2>1 DEF TypeOK
      <3> QED BY <3>1, <3>2
    <2> QED BY <1>5, <2>2 DEF TypeOK, SetFreeLoop
  <1>8. CountsMatchBitmap'
    <2>1. Pending' = Pending \ {i} /\ (Pending' # {} => op'.kind = op.kind)
      BY <1>1, <1>2, <1>6 DEF Pending, Loops, TypeOK, Blocks
    <2>2. /\ m_frames' = m_frames
          /\ \A j \in Blocks : m_free'[j] = IF j = i THEN c ELSE m_free[j]
      BY <1>4 DEF SetFreeLoop, set_free, TypeOK
    <2> QED BY <1>1, <1>3, <2>1, <2>2, Zenon DEF CountsMatchBitmap
  <1>9. EveryFrameAccountedFor'
    BY DEF SetFreeLoop, EveryFrameAccountedFor
  <1>10. ListedBlocksHoldFrames'
    BY <1>1, <1>6 DEF ListedBlocksHoldFrames, TypeOK
  <1> QED BY <1>5, <1>7, <1>8, <1>9, <1>10

\* With the lock free there is no loop, so every count is that of its bits.
LEMMA IdleCounts ==
  ASSUME Inv, op = Idle
  PROVE  /\ Pending = {}
         /\ \A i \in Blocks : m_free[i] = Cardinality(m_frames[i])
         /\ \A i \in Blocks : m_free[i] = FramesPerBlock => m_frames[i] = Slots
  <1>1. Pending = {}
    BY DEF Pending, Idle, Loops
  <1>2. \A i \in Blocks : m_free[i] = Cardinality(m_frames[i])
    BY <1>1 DEF Inv, CountsMatchBitmap
  <1>3. \A i \in Blocks : m_free[i] = FramesPerBlock => m_frames[i] = Slots
    BY <1>2, SlotsFinite DEF Inv, TypeOK
  <1> QED BY <1>1, <1>2, <1>3

\* A panic other than "listed as free but holds nothing" changes nothing but op.
LEMMA PanicInv ==
  ASSUME Inv, op = Idle, NEW why \in {"panic_invalid", "panic_double_free"}, Panic(why)
  PROVE  Inv'
  <1> USE DEF Panic, Inv
  <1>1. TypeOK'
    BY BlockBounds DEF TypeOK, Halt, Panics
  <1>2. Pending = {} /\ Pending' = {}
    BY DEF Pending, Halt, Idle, Loops
  <1>3. CountsMatchBitmap'
    BY <1>2 DEF CountsMatchBitmap
  <1>4. ListsHoldTheirBlocks' /\ EveryFrameAccountedFor'
    BY DEF ListsHoldTheirBlocks, Class, EveryFrameAccountedFor
  <1>5. ListedBlocksHoldFrames'
    BY DEF ListedBlocksHoldFrames, Halt
  <1> QED BY <1>1, <1>3, <1>4, <1>5

\* A refused request changes nothing but the answer.
LEMMA OutOfMemoryInv ==
  ASSUME Inv, NEW size \in PageSizes, OutOfMemory(size)
  PROVE  Inv'
  BY Zenon DEF OutOfMemory, Inv, TypeOK, Pending, CountsMatchBitmap, ListsHoldTheirBlocks, Class,
         EveryFrameAccountedFor, ListedBlocksHoldFrames

\* take<SIZE_4K> clears a bit that is set, in a block whose count goes down by one.
LEMMA Take4KInv ==
  ASSUME Inv, op = Idle, take_4K
  PROVE  Inv'
  <1> USE DEF pick_block
  <1> DEFINE index == pick_block
             s == find_set(m_frames[index])
             c == m_free[index] - 1
  <1>1. CASE index = NIL
    <2>1. OutOfMemory("4K")
      BY <1>1 DEF take_4K
    <2> QED BY <2>1, OutOfMemoryInv DEF PageSizes
  <1>2. CASE index # NIL
    <2>1. m_links \in Links /\ ListsHoldTheirBlocks
      BY DEF Inv, TypeOK
    <2>2. PICK l \in Lists : index = m_links.head[l]
      BY DEF Lists
    <2>3. index \in Class(l)
      BY <1>2, <2>1, <2>2, HeadInClass
    <2> HIDE DEF index
    <2>4. index \in Blocks /\ m_free[index] # 0
      BY <2>3 DEF Class, list_of, Lists
    <2>5. m_frames[index] \in SUBSET Slots /\ m_free[index] = Cardinality(m_frames[index])
      BY <2>4, IdleCounts DEF Inv, TypeOK
    <2>6. m_frames[index] # {} /\ IsFiniteSet(m_frames[index])
      BY <2>4, <2>5, SlotsFinite
    <2>7. s \in m_frames[index]
      <3>1. m_frames[index] \in SUBSET Nat
        BY <2>5, SlotsNat, Zenon
      <3> QED BY <3>1, <2>6, FindSet
    <2>8. /\ m_frames' = [m_frames EXCEPT ![index] = @ \ {s}]
          /\ set_free(index, c)
          /\ held' = [held EXCEPT ![index] = @ \cup {s}]
          /\ answer' = [status |-> "ok", size |-> "4K"]
          /\ UNCHANGED <<boot, op>>
      BY <1>2, <2>6, Zenon DEF take_4K, index
    <2> HIDE DEF s
    <2>9. c = Cardinality(m_frames[index] \ {s}) /\ c \in 0 .. FramesPerBlock
      <3>1. Cardinality(m_frames[index] \ {s}) = Cardinality(m_frames[index]) - 1
        BY <2>6, <2>7, FS_RemoveElement, Zenon
      <3>2. m_free[index] \in 0 .. FramesPerBlock /\ FramesPerBlock \in Nat
        BY <2>4, SizesAssumption DEF Inv, TypeOK
      <3> QED BY <2>4, <2>5, <3>1, <3>2
    <2>10. /\ m_links' \in Links
           /\ m_free' \in [Blocks -> 0 .. FramesPerBlock]
           /\ ListsHoldTheirBlocks'
      BY <2>1, <2>4, <2>8, <2>9, SetFreeLists DEF Inv, TypeOK
    <2>11. m_free' = [m_free EXCEPT ![index] = c]
      BY <2>8 DEF set_free
    <2> HIDE DEF c
    <2>12. TypeOK'
      BY <2>4, <2>5, <2>7, <2>8, <2>10, Zenon DEF Inv, TypeOK, PageSizes
    <2>13. CountsMatchBitmap'
      <3>1. Pending' = {}
        BY <2>8 DEF Pending, Idle, Loops
      <3>2. \A i \in Blocks : m_free'[i] = Cardinality(m_frames'[i])
        BY <2>4, <2>8, <2>9, <2>11, IdleCounts DEF Inv, TypeOK
      <3> QED BY <3>1, <3>2 DEF CountsMatchBitmap
    <2>14. EveryFrameAccountedFor'
      BY <2>4, <2>7, <2>8 DEF Inv, TypeOK, EveryFrameAccountedFor
    <2>15. ListedBlocksHoldFrames'
      BY <2>8 DEF Inv, ListedBlocksHoldFrames
    <2> QED BY <2>10, <2>12, <2>13, <2>14, <2>15 DEF Inv
  <1> QED BY <1>1, <1>2

\* find_whole_run returns the first of an aligned run of wholly free blocks.
LEMMA WholeRun ==
  ASSUME Inv, op = Idle, NEW size \in {"2M", "1G"}, find_whole_run(size) # NIL
  PROVE  /\ find_whole_run(size) \in Blocks
         /\ find_whole_run(size) + BlocksIn(size) - 1 \in Blocks
         /\ \A i \in find_whole_run(size) .. find_whole_run(size) + BlocksIn(size) - 1 :
               i \in Blocks /\ m_free[i] = FramesPerBlock /\ m_frames[i] = Slots
  <1> DEFINE f == find_whole_run(size)
  <1>1. CASE size = "2M"
    <2>1. f = m_links.head["whole"] /\ BlocksIn(size) = 1
      BY <1>1 DEF find_whole_run, BlocksIn
    <2>2. f \in Class("whole")
      BY <2>1, HeadInClass DEF Inv, TypeOK, Lists
    <2>3. f \in Blocks /\ m_free[f] = FramesPerBlock
      BY <2>2 DEF Class, list_of
    <2> HIDE DEF f
    <2>4. f \in Int /\ (\A i \in f .. f : i = f) /\ f + 1 - 1 = f
      BY <2>3, BlocksFinite
    <2> QED BY <2>1, <2>3, <2>4, IdleCounts DEF f
  <1>2. CASE size = "1G"
    <2>1. BlocksIn(size) = BlocksPerGiga /\ BlocksPerGiga \in Nat
      BY <1>2, SizesAssumption DEF BlocksIn
    <2>2. f \in whole_runs(size)
      <3>1. whole_runs(size) \in SUBSET Nat
        BY BlocksFinite, Zenon DEF whole_runs
      <3>2. whole_runs(size) # {} /\ f = find_set(whole_runs(size))
        BY <1>2 DEF find_whole_run
      <3> QED BY <3>1, <3>2, FindSet
    <2>3. /\ f \in Blocks /\ f % BlocksPerGiga = 0
          /\ \A k \in 0 .. BlocksPerGiga - 1 : m_free[f + k] = FramesPerBlock
      BY <2>1, <2>2 DEF whole_runs
    <2> HIDE DEF f
    <2>4. f + BlocksPerGiga - 1 \in Blocks
      BY <2>3, RunInBlocks
    <2>5. ASSUME NEW i \in f .. f + BlocksPerGiga - 1
          PROVE  i \in Blocks /\ m_free[i] = FramesPerBlock
      <3>1. i - f \in 0 .. BlocksPerGiga - 1 /\ f + (i - f) = i
        BY <2>1, <2>3, BlocksFinite
      <3>2. i \in Blocks
        BY <2>1, <2>3, <2>4, BlockCountType DEF Blocks
      <3> QED BY <2>3, <3>1, <3>2
    <2> QED BY <2>1, <2>3, <2>4, <2>5, IdleCounts DEF f
  <1> QED BY <1>1, <1>2

\* find_whole_run steps from one multiple of the run's length to the next.
LEMMA AlignedRun ==
  ASSUME Inv, NEW size \in {"2M", "1G"}, find_whole_run(size) # NIL
  PROVE  find_whole_run(size) % BlocksIn(size) = 0
  <1> DEFINE f == find_whole_run(size)
  <1>1. CASE size = "2M"
    <2>1. BlocksIn(size) = 1 /\ f = m_links.head["whole"]
      BY <1>1 DEF BlocksIn, find_whole_run
    <2>2. f \in Nat
      BY <2>1, BlocksFinite, Zenon DEF Inv, TypeOK, Links, Lists
    <2> HIDE DEF f
    <2>3. f % 1 = 0
      BY <2>2
    <2> QED BY <2>1, <2>3 DEF f
  <1>2. CASE size = "1G"
    <2>1. whole_runs(size) \in SUBSET Nat /\ whole_runs(size) # {} /\ f = find_set(whole_runs(size))
      BY <1>2, BlocksFinite, Zenon DEF find_whole_run, whole_runs
    <2>2. f \in whole_runs(size)
      BY <2>1, FindSet
    <2> QED BY <2>2 DEF whole_runs
  <1> QED BY <1>1, <1>2

\* take_whole clears the bits of a run of whole blocks before the first set_free.
LEMMA TakeLargeInv ==
  ASSUME Inv, op = Idle, NEW size \in {"2M", "1G"}, take_large(size)
  PROVE  Inv'
  <1> DEFINE first == find_whole_run(size)
             last == first + BlocksIn(size) - 1
             run == first .. last
  <1>1. CASE first = NIL
    <2>1. OutOfMemory(size)
      BY <1>1 DEF take_large
    <2> QED BY <2>1, OutOfMemoryInv DEF PageSizes
  <1>2. CASE first # NIL
    <2>1. /\ first \in Blocks /\ last \in Blocks
          /\ \A i \in run : i \in Blocks /\ m_free[i] = FramesPerBlock /\ m_frames[i] = Slots
      BY <1>2, WholeRun
    <2>2. first <= last
      <3>1. BlocksIn(size) \in Nat \ {0}
        BY SizesAssumption DEF BlocksIn
      <3> HIDE DEF first
      <3>2. first \in Nat
        BY <2>1, BlocksFinite
      <3> QED BY <3>1, <3>2
    <2>3. /\ m_frames' = [i \in Blocks |-> IF i \in run THEN {} ELSE m_frames[i]]
          /\ op' = [kind |-> "take", index |-> first, last |-> last]
          /\ held' = [i \in Blocks |-> IF i \in run THEN Slots ELSE held[i]]
          /\ answer' = [status |-> "ok", size |-> size]
          /\ UNCHANGED <<m_free, m_links, boot>>
      BY <1>2 DEF take_large
    <2> HIDE DEF first, last
    <2>4. Pending' = run
      BY <2>3 DEF Pending, Loops
    <2> HIDE DEF run
    <2>5. TypeOK'
      BY <2>1, <2>2, <2>3 DEF Inv, TypeOK, Loops, PageSizes
    <2>6. CountsMatchBitmap'
      BY <2>1, <2>3, <2>4, IdleCounts DEF CountsMatchBitmap
    <2>7. ListsHoldTheirBlocks'
      BY <2>3 DEF Inv, ListsHoldTheirBlocks, Class
    <2>8. EveryFrameAccountedFor'
      <3>1. ASSUME NEW i \in Blocks
            PROVE  /\ m_frames'[i] \cap held'[i] = {}
                   /\ m_frames'[i] \cup held'[i] = populated(boot)[i]
        <4>1. /\ m_frames[i] \cap held[i] = {}
              /\ m_frames[i] \cup held[i] = populated(boot)[i]
              /\ held[i] \in SUBSET Slots
          BY DEF Inv, TypeOK, EveryFrameAccountedFor
        <4>2. CASE i \in run
          BY <2>1, <2>3, <4>1, <4>2
        <4>3. CASE i \notin run
          BY <2>3, <4>1, <4>3
        <4> QED BY <4>2, <4>3
      <3>2. boot' = boot
        BY <2>3
      <3> QED BY <3>1, <3>2 DEF EveryFrameAccountedFor
    <2>9. ListedBlocksHoldFrames'
      BY <2>3 DEF ListedBlocksHoldFrames
    <2> QED BY <2>5, <2>6, <2>7, <2>8, <2>9 DEF Inv
  <1> QED BY <1>1, <1>2

\* What free may assume of frames that pass its test and its caller's contract.
LEMMA ReleasedFrames ==
  ASSUME Inv, op = Idle, NEW j \in Blocks, NEW slots \in SUBSET Slots,
         slots \subseteq m_frames[j] \cup held[j], slots \cap m_frames[j] = {}
  PROVE  /\ (m_frames[j] \cup slots) \cap (held[j] \ slots) = {}
         /\ (m_frames[j] \cup slots) \cup (held[j] \ slots) = m_frames[j] \cup held[j]
         /\ slots = Slots => m_free[j] = 0 /\ m_frames[j] \cup slots = Slots
  <1>1. m_frames[j] \cap held[j] = {} /\ m_frames[j] \in SUBSET Slots
    BY DEF Inv, TypeOK, EveryFrameAccountedFor
  <1>2. slots = Slots => m_frames[j] = {}
    BY <1>1
  <1>3. slots = Slots => m_free[j] = 0
    BY <1>2, IdleCounts, FS_EmptySet
  <1> QED BY <1>1, <1>2, <1>3

\* free sets bits that were clear: one, or those of a run of full blocks.
LEMMA FreeInv ==
  ASSUME Inv, NEW size \in PageSizes, NEW i \in 0 .. BlockCount, NEW s \in Slots,
         NEW offset \in {0, 1}, free(size, i, s, offset)
  PROVE  Inv'
  <1> DEFINE last == i + BlocksIn(size) - 1
             run == i .. last
             slots == IF size = "4K" THEN {s} ELSE Slots
             aligned == /\ offset = 0
                        /\ size # "4K" => s = 0 /\ i % BlocksIn(size) = 0
  <1>0. op = Idle
    BY DEF free
  <1>1. CASE ~aligned \/ last >= BlockCount
    <2>1. Panic("panic_invalid")
      BY <1>1 DEF free
    <2> QED BY <1>0, <2>1, PanicInv
  <1>2. CASE ~(~aligned \/ last >= BlockCount) /\ \E j \in run : slots \cap m_frames[j] # {}
    <2>1. Panic("panic_double_free")
      BY <1>2 DEF free
    <2> QED BY <1>0, <2>1, PanicInv
  <1>3. CASE ~(~aligned \/ last >= BlockCount) /\ \A j \in run : slots \cap m_frames[j] = {}
    <2>1. /\ \A j \in run : slots \subseteq m_frames[j] \cup held[j]
          /\ m_frames' = [j \in Blocks |-> IF j \in run THEN m_frames[j] \cup slots
                                           ELSE m_frames[j]]
          /\ held' = [j \in Blocks |-> IF j \in run THEN held[j] \ slots ELSE held[j]]
          /\ answer' = NoAnswer
          /\ boot' = boot
          /\ IF size = "4K"
             THEN set_free(i, m_free[i] + 1) /\ op' = op
             ELSE /\ op' = [kind |-> "give", index |-> i, last |-> last]
                  /\ UNCHANGED <<m_free, m_links>>
      BY <1>3 DEF free, CallerContract
    <2>2. /\ i \in Blocks /\ last \in Blocks /\ i <= last
          /\ \A j \in run : j \in Blocks
          /\ size = "4K" => run = {i}
      BY <1>3, BlockCountType, SizesAssumption DEF BlocksIn, Blocks
    <2>3. \A j \in run : slots \cap m_frames[j] = {}
      BY <1>3
    <2>4. slots \in SUBSET Slots
      OBVIOUS
    <2>5. size = "4K" => slots = {s}
      OBVIOUS
    <2>6. size # "4K" => slots = Slots
      OBVIOUS
    <2>7. \A j \in run : /\ (m_frames[j] \cup slots) \cap (held[j] \ slots) = {}
                         /\ (m_frames[j] \cup slots) \cup (held[j] \ slots)
                               = m_frames[j] \cup held[j]
                         /\ slots = Slots => m_free[j] = 0 /\ m_frames[j] \cup slots = Slots
      BY <1>0, <2>1, <2>2, <2>3, <2>4, ReleasedFrames, Zenon
    <2>8. (op' = Idle \/ op'.kind = "give") /\ ListedBlocksHoldFrames'
      BY <1>0, <2>1 DEF ListedBlocksHoldFrames, Idle
    <2>9. size # "4K" => Pending' = run
      BY <2>1 DEF Pending, Loops
    <2> HIDE DEF last, run, slots
    <2>10. EveryFrameAccountedFor'
      BY <2>1, <2>7 DEF Inv, EveryFrameAccountedFor
    <2>11. /\ m_frames' \in [Blocks -> SUBSET Slots] /\ held' \in [Blocks -> SUBSET Slots]
           /\ answer' \in [status : {"none", "ok", "oom"}, size : PageSizes]
      BY <2>1, <2>4 DEF Inv, TypeOK, NoAnswer, PageSizes
    <2>12. CASE size = "4K"
      <3> DEFINE c == m_free[i] + 1
      <3>1. /\ m_frames[i] \in SUBSET Slots /\ IsFiniteSet(m_frames[i]) /\ s \notin m_frames[i]
            /\ m_free[i] = Cardinality(m_frames[i])
        BY <1>0, <2>2, <2>3, <2>5, <2>12, SlotsFinite, IdleCounts DEF Inv, TypeOK
      <3>2. Cardinality(m_frames[i] \cup {s}) = Cardinality(m_frames[i]) + 1
        BY <3>1, FS_AddElement, Zenon
      <3>3. m_frames[i] \cup {s} \in SUBSET Slots
        BY <3>1
      <3>4. c = Cardinality(m_frames[i] \cup {s}) /\ c \in 0 .. FramesPerBlock
        BY <3>1, <3>2, <3>3, SlotsFinite
      <3>5. /\ m_frames' = [m_frames EXCEPT ![i] = @ \cup {s}]
            /\ set_free(i, c) /\ op' = op
        BY <2>1, <2>2, <2>5, <2>12, Zenon DEF Inv, TypeOK
      <3> HIDE DEF c
      <3>6. /\ m_links' \in Links
            /\ m_free' \in [Blocks -> 0 .. FramesPerBlock]
            /\ ListsHoldTheirBlocks'
        BY <2>2, <3>4, <3>5, SetFreeLists DEF Inv, TypeOK
      <3>7. TypeOK'
        BY <1>0, <2>1, <2>11, <3>5, <3>6 DEF Inv, TypeOK
      <3>8. CountsMatchBitmap'
        <4>1. Pending' = {} /\ m_free' = [m_free EXCEPT ![i] = c]
          BY <1>0, <3>5 DEF Pending, Idle, Loops, set_free
        <4>2. \A j \in Blocks : m_free'[j] = Cardinality(m_frames'[j])
          BY <1>0, <2>2, <3>4, <3>5, <4>1, IdleCounts DEF Inv, TypeOK
        <4> QED BY <4>1, <4>2 DEF CountsMatchBitmap
      <3> QED BY <2>8, <2>10, <3>6, <3>7, <3>8 DEF Inv
    <2>13. CASE size # "4K"
      <3>1. /\ op' = [kind |-> "give", index |-> i, last |-> last]
            /\ UNCHANGED <<m_free, m_links>>
        BY <2>1, <2>13
      <3>2. TypeOK'
        BY <2>1, <2>2, <2>11, <3>1 DEF Inv, TypeOK, Loops
      <3>3. CountsMatchBitmap'
        BY <1>0, <2>1, <2>6, <2>7, <2>9, <2>13, <3>1, IdleCounts DEF CountsMatchBitmap
      <3>4. ListsHoldTheirBlocks'
        BY <3>1 DEF Inv, ListsHoldTheirBlocks, Class
      <3> QED BY <2>8, <2>10, <3>2, <3>3, <3>4 DEF Inv
    <2> QED BY <2>12, <2>13
  <1> QED BY <1>1, <1>2, <1>3

\* A step that changes nothing keeps the invariant.
LEMMA StutterInv ==
  ASSUME Inv, UNCHANGED vars
  PROVE  Inv'
  BY Zenon DEF vars, Inv, TypeOK, Pending, CountsMatchBitmap, ListsHoldTheirBlocks, Class,
         EveryFrameAccountedFor, ListedBlocksHoldFrames

\* For every size of memory and every boot memory map, Inv holds in every reachable
\* state of the allocator of pmm.cpp.
THEOREM Safety == Spec => []Inv
  <1>1. Inv /\ [Next]_vars => Inv'
    <2> SUFFICES ASSUME Inv, [Next]_vars PROVE Inv'
      OBVIOUS
    <2>1. CASE \E b \in BootInfos : populate(b)
      BY <2>1, PopulateInv
    <2>2. CASE SetFreeLoop
      BY <2>2, SetFreeLoopInv
    <2>3. ASSUME NEW size \in PageSizes, alloc(size) PROVE Inv'
      <3>1. op = Idle
        BY <2>3 DEF alloc
      <3>2. CASE size = "4K"
        BY <2>3, <3>1, <3>2, Take4KInv DEF alloc
      <3>3. CASE size # "4K"
        BY <2>3, <3>1, <3>3, TakeLargeInv DEF alloc, PageSizes
      <3> QED BY <3>2, <3>3
    <2>4. ASSUME NEW size \in PageSizes, NEW i \in 0 .. BlockCount, NEW s \in Slots,
                 NEW offset \in {0, 1}, free(size, i, s, offset)
          PROVE  Inv'
      BY <2>4, FreeInv
    <2>5. CASE Halted \/ UNCHANGED vars
      BY <2>5, StutterInv DEF Halted
    <2> QED BY <2>1, <2>2, <2>3, <2>4, <2>5 DEF Next
  <1> QED BY InitInv, <1>1, PTL DEF Spec

\* The free count of every block that no loop has still to visit is the number of its
\* set bits.
THEOREM CountsCorrect == Spec => []CountsMatchBitmap
  BY Safety, PTL DEF Inv

\* The whole and the broken list are proper doubly linked lists of exactly their blocks.
THEOREM ListsCorrect == Spec => []ListsHoldTheirBlocks
  BY Safety, PTL DEF Inv

\* No usable frame is lost, or free and handed out at once.
THEOREM FramesAccounted == Spec => []EveryFrameAccountedFor
  BY Safety, PTL DEF Inv

\* KPANIC "block is listed as free but holds nothing" is never reached.
THEOREM NoListedPanic == Spec => []ListedBlocksHoldFrames
  BY Safety, PTL DEF Inv
-----------------------------------------------------------------------------
(***************************************************************************)
(* What mark makes of a range: a frame of a usable range lies inside it, a *)
(* frame that a reserved range leaves alone lies outside.                  *)
(***************************************************************************)

\* Rounding an address down to a frame, and frames in the order of their addresses.
LEMMA Rounding ==
  ASSUME NEW F \in Nat \ {0}, NEW a \in Nat
  PROVE  a \div F \in Nat /\ (a \div F) * F <= a /\ a < (a \div F) * F + F
  OBVIOUS

LEMMA FramesOrdered ==
  ASSUME NEW F \in Nat, NEW m \in Nat, NEW n \in Nat, m <= n
  PROVE  m * F <= n * F
  <1>1. PICK k \in Nat : n = m + k
    BY m + (n - m) = n, n - m \in Nat
  <1>2. k * F >= 0 /\ n * F = m * F + k * F
    BY <1>1
  <1> QED BY <1>2

\* The frames of the bitmap end with the physical memory.
LEMMA FrameBounds ==
  ASSUME NEW i \in Blocks, NEW s \in Slots
  PROVE  /\ frame_number(i, s) \in Nat
         /\ MaxPhysicalMemory \in Nat
         /\ (frame_number(i, s) + 1) * FrameSize <= MaxPhysicalMemory
  <1>1. /\ i \in Nat /\ s \in Nat /\ i + 1 <= BlockCount /\ s + 1 <= FramesPerBlock
        /\ BlockCount \in Nat /\ FramesPerBlock \in Nat /\ FrameSize \in Nat
    BY BlockCountType, SizesAssumption, BootAssumption DEF Blocks, Slots
  <1>2. i * FramesPerBlock \in Nat /\ BlockCount * FramesPerBlock \in Nat
    BY <1>1
  <1>3. (i + 1) * FramesPerBlock <= BlockCount * FramesPerBlock
    BY <1>1, FramesOrdered
  <1>4. (i + 1) * FramesPerBlock = i * FramesPerBlock + FramesPerBlock
    BY <1>1
  <1>5. frame_number(i, s) \in Nat /\ frame_number(i, s) + 1 <= BlockCount * FramesPerBlock
    BY <1>1, <1>2, <1>3, <1>4 DEF frame_number
  <1>6. frame_number(i, s) + 1 \in Nat
    BY <1>5
  <1>7. (frame_number(i, s) + 1) * FrameSize <= (BlockCount * FramesPerBlock) * FrameSize
    BY <1>1, <1>2, <1>5, <1>6, FramesOrdered
  <1>8. (BlockCount * FramesPerBlock) * FrameSize \in Nat
    BY <1>1, <1>2
  <1> QED BY <1>5, <1>7, <1>8 DEF MaxPhysicalMemory

\* An address of a frame is at or past where the frame begins, and before where it ends.
LEMMA InFrame ==
  ASSUME NEW n \in Nat, NEW a \in n * FrameSize .. (n + 1) * FrameSize - 1
  PROVE  /\ a \in Nat
         /\ \A m \in Nat : m <= n => m * FrameSize <= a
         /\ \A m \in Nat : n < m => a < m * FrameSize
  <1>1. FrameSize \in Nat
    BY BootAssumption
  <1>2. n * FrameSize \in Nat /\ (n + 1) * FrameSize \in Nat
    BY <1>1
  <1>3. a \in Nat /\ n * FrameSize <= a /\ a < (n + 1) * FrameSize
    BY <1>2
  <1>4. ASSUME NEW m \in Nat, m <= n PROVE m * FrameSize <= a
    BY <1>1, <1>2, <1>3, <1>4, FramesOrdered
  <1>5. ASSUME NEW m \in Nat, n < m PROVE a < m * FrameSize
    <2>1. (n + 1) * FrameSize <= m * FrameSize
      BY <1>1, <1>5, n + 1 \in Nat, n + 1 <= m, FramesOrdered
    <2> QED BY <1>1, <1>2, <1>3, <2>1
  <1> QED BY <1>3, <1>4, <1>5

\* mark cuts a range off where the physical memory ends.
LEMMA MarkIs ==
  ASSUME NEW r \in Ranges, NEW i \in Blocks, NEW s \in Slots,
         r.length # 0, r.base < MaxPhysicalMemory
  PROVE  \E end \in Nat :
            /\ end = r.base + r.length \/ end = MaxPhysicalMemory
            /\ end <= r.base + r.length
            /\ s \in mark(r, TRUE)[i] <=> /\ (r.base + FrameSize - 1) \div FrameSize <= frame_number(i, s)
                                          /\ frame_number(i, s) < end \div FrameSize
            /\ s \in mark(r, FALSE)[i] <=> /\ r.base \div FrameSize <= frame_number(i, s)
                                           /\ frame_number(i, s) < (end + FrameSize - 1) \div FrameSize
  <1> DEFINE end == IF r.length > MaxPhysicalMemory - r.base
                    THEN MaxPhysicalMemory ELSE r.base + r.length
  <1>1. r.base \in Nat /\ r.length \in Nat /\ MaxPhysicalMemory \in Nat
    BY FrameBounds DEF Ranges
  <1>2. ~ (r.length = 0 \/ r.base >= MaxPhysicalMemory)
    BY <1>1
  <1>3. /\ end \in Nat
        /\ end = r.base + r.length \/ end = MaxPhysicalMemory
        /\ end <= r.base + r.length
    BY <1>1
  <1>4. mark(r, TRUE)[i] = {t \in Slots : /\ (r.base + FrameSize - 1) \div FrameSize <= frame_number(i, t)
                                          /\ frame_number(i, t) < end \div FrameSize}
    BY <1>2, Zenon DEF mark
  <1>5. mark(r, FALSE)[i] = {t \in Slots : /\ r.base \div FrameSize <= frame_number(i, t)
                                           /\ frame_number(i, t) < (end + FrameSize - 1) \div FrameSize}
    BY <1>2, Zenon DEF mark
  <1> HIDE DEF end
  <1> QED BY <1>3, <1>4, <1>5, Zenon

\* A frame that a usable range frees lies wholly inside the range.
LEMMA UsableFrame ==
  ASSUME NEW r \in Ranges, NEW i \in Blocks, NEW s \in mark(r, TRUE)[i],
         NEW a \in frame_number(i, s) * FrameSize .. (frame_number(i, s) + 1) * FrameSize - 1
  PROVE  InRange(a, r)
  <1>1. s \in Slots /\ r.length # 0 /\ ~ (r.base >= MaxPhysicalMemory)
    BY Zenon DEF mark
  <1>2. r.base \in Nat /\ r.length \in Nat /\ FrameSize \in Nat \ {0} /\ MaxPhysicalMemory \in Nat
        /\ frame_number(i, s) \in Nat
    BY <1>1, FrameBounds, BootAssumption DEF Ranges
  <1>3. PICK end \in Nat : /\ end <= r.base + r.length
                           /\ (r.base + FrameSize - 1) \div FrameSize <= frame_number(i, s)
                           /\ frame_number(i, s) < end \div FrameSize
    <2>1. r.base < MaxPhysicalMemory
      BY <1>1, <1>2
    <2> QED BY <1>1, <2>1, MarkIs, Zenon
  <1> DEFINE first == (r.base + FrameSize - 1) \div FrameSize
             last == end \div FrameSize
  <1>4. first \in Nat /\ r.base + FrameSize - 1 < first * FrameSize + FrameSize
    BY <1>2, Rounding, r.base + FrameSize - 1 \in Nat
  <1>5. last \in Nat /\ last * FrameSize <= end
    BY <1>2, Rounding
  <1>6. first <= frame_number(i, s) /\ frame_number(i, s) < last
    BY <1>3
  <1> HIDE DEF first, last
  <1>7. a \in Nat /\ first * FrameSize <= a /\ a < last * FrameSize
    BY <1>2, <1>4, <1>5, <1>6, InFrame
  <1>8. first * FrameSize \in Nat /\ last * FrameSize \in Nat
    BY <1>2, <1>4, <1>5
  <1>9. PICK bottom \in Nat : r.base + FrameSize - 1 < bottom + FrameSize /\ bottom <= a
    BY <1>4, <1>7, <1>8, Zenon
  <1>10. r.base <= a
    BY <1>2, <1>7, <1>9
  <1>11. a < r.base + r.length
    <2>1. PICK top \in Nat : a < top /\ top <= end
      BY <1>5, <1>7, <1>8, Zenon
    <2>2. a \in Nat /\ end <= r.base + r.length
      BY <1>3, <1>7
    <2> QED BY <1>2, <2>1, <2>2
  <1> QED BY <1>10, <1>11 DEF InRange

\* A frame that a reserved range leaves alone has no address in it.
LEMMA ReservedFrame ==
  ASSUME NEW r \in Ranges, NEW i \in Blocks, NEW s \in Slots, s \notin mark(r, FALSE)[i],
         NEW a \in frame_number(i, s) * FrameSize .. (frame_number(i, s) + 1) * FrameSize - 1
  PROVE  ~InRange(a, r)
  <1>1. r.base \in Nat /\ r.length \in Nat /\ FrameSize \in Nat \ {0} /\ MaxPhysicalMemory \in Nat
        /\ frame_number(i, s) \in Nat
    BY FrameBounds, BootAssumption DEF Ranges
  <1>2. (frame_number(i, s) + 1) * FrameSize <= MaxPhysicalMemory
        /\ (frame_number(i, s) + 1) * FrameSize \in Nat /\ frame_number(i, s) * FrameSize \in Nat
    BY <1>1, FrameBounds
  <1>3. a \in Nat /\ a < MaxPhysicalMemory
    BY <1>1, <1>2
  <1>4. CASE r.length = 0 \/ r.base >= MaxPhysicalMemory
    BY <1>1, <1>3, <1>4 DEF InRange
  <1>5. CASE r.length # 0 /\ r.base < MaxPhysicalMemory
    <2>1. PICK end \in Nat : /\ end = r.base + r.length \/ end = MaxPhysicalMemory
                             /\ ~ (/\ r.base \div FrameSize <= frame_number(i, s)
                                   /\ frame_number(i, s) < (end + FrameSize - 1) \div FrameSize)
      BY <1>5, MarkIs, Zenon
    <2> DEFINE first == r.base \div FrameSize
               last == (end + FrameSize - 1) \div FrameSize
    <2>2. first \in Nat /\ first * FrameSize <= r.base
      BY <1>1, Rounding, Zenon
    <2>3. last \in Nat /\ end + FrameSize - 1 < last * FrameSize + FrameSize
      BY <1>1, Rounding, end + FrameSize - 1 \in Nat
    <2>4. frame_number(i, s) < first \/ last <= frame_number(i, s)
      BY <1>1, <2>1, <2>2, <2>3
    <2> HIDE DEF first, last
    <2>5. first * FrameSize \in Nat /\ last * FrameSize \in Nat
      BY <1>1, <2>2, <2>3
    <2>6. a < first * FrameSize \/ last * FrameSize <= a
      BY <1>1, <2>2, <2>3, <2>4, InFrame
    <2> QED BY <1>1, <1>3, <2>1, <2>2, <2>3, <2>5, <2>6 DEF InRange
  <1> QED BY <1>1, <1>4, <1>5

\* The bitmap that populate computes holds usable frames only.
LEMMA PopulatedUsable ==
  ASSUME NEW b \in BootInfos \cup {NoBoot}, NEW i \in Blocks, NEW s \in populated(b)[i],
         NEW a \in frame_number(i, s) * FrameSize .. (frame_number(i, s) + 1) * FrameSize - 1
  PROVE  /\ a >= LowMemory
         /\ ~InRange(a, Image)
         /\ \A r \in b.reserved : ~InRange(a, r)
         /\ \E r \in b.usable : InRange(a, r)
  <1> DEFINE low == [base |-> 0, length |-> LowMemory]
  <1>1. /\ \A r \in b.usable : r \in Ranges
        /\ \A r \in b.reserved : r \in Ranges
        /\ Image \in Ranges /\ low \in Ranges
    BY BootAssumption DEF NoBoot, Ranges
  <1>2. s \in Slots /\ populated(b) \in [Blocks -> SUBSET Slots]
    BY PopulatedType
  <1>3. /\ \E r \in b.usable : s \in mark(r, TRUE)[i]
        /\ \A r \in b.reserved \cup {Image, low} : s \notin mark(r, FALSE)[i]
    BY Zenon DEF populated
  <1>4. \E r \in b.usable : InRange(a, r)
    BY <1>1, <1>3, UsableFrame, Zenon
  <1>5. \A r \in b.reserved \cup {Image, low} : ~InRange(a, r)
    BY <1>1, <1>2, <1>3, ReservedFrame, Zenon
  <1>6. a \in Nat
    BY <1>2, FrameBounds, InFrame
  <1>7. a >= LowMemory
    <2>1. ~InRange(a, low)
      BY <1>5
    <2> QED BY <1>6, <2>1, BootAssumption DEF InRange
  <1> QED BY <1>4, <1>5, <1>7

\* The allocator never has free, and never hands out, a frame that touches a reserved range,
\* the first MiB or the kernel image, or that no usable range contains.
THEOREM OnlyUsable == Spec => []OnlyUsableMemory
  <1>1. Inv => OnlyUsableMemory
    <2> SUFFICES ASSUME Inv, NEW i \in Blocks, NEW s \in m_frames[i] \cup held[i],
                        NEW a \in frame_number(i, s) * FrameSize .. (frame_number(i, s) + 1) * FrameSize - 1
                 PROVE  /\ a >= LowMemory
                        /\ ~InRange(a, Image)
                        /\ \A r \in boot.reserved : ~InRange(a, r)
                        /\ \E r \in boot.usable : InRange(a, r)
      BY Zenon DEF OnlyUsableMemory
    <2>1. boot \in BootInfos \cup {NoBoot} /\ s \in populated(boot)[i]
      BY DEF Inv, TypeOK, EveryFrameAccountedFor
    <2> QED BY <2>1, PopulatedUsable
  <1> QED BY <1>1, Safety, PTL
-----------------------------------------------------------------------------
(***************************************************************************)
(* Pmm implements FrameAllocator: each step of Pmm, seen through the       *)
(* mapping of Pmm!Abstract, is a step of the abstract allocator or leaves  *)
(* it unchanged.                                                           *)
(***************************************************************************)

\* A list without a head has no blocks.
LEMMA EmptyList ==
  ASSUME NEW l \in Lists, ListsHoldTheirBlocks, m_links.head[l] = NIL
  PROVE  Class(l) = {}
  <1> DEFINE n == Cardinality(Class(l))
  <1>1. IsFiniteSet(Class(l)) /\ n \in Nat
    BY BlocksFinite, FS_Subset, FS_CardinalityType DEF Class
  <1>2. PICK ws \in [1 .. n -> Class(l)] : m_links.head[l] = IF n = 0 THEN NIL ELSE ws[1]
    BY DEF ListsHoldTheirBlocks, IsListOf, Spells
  <1> HIDE DEF n
  <1>3. n = 0
    <2>1. SUFFICES ASSUME n # 0 PROVE FALSE
      OBVIOUS
    <2>2. ws[1] \in Class(l) /\ ws[1] = NIL
      BY <1>1, <1>2, <2>1
    <2> QED BY <2>2, BlocksFinite DEF Class, NIL
  <1> QED BY <1>1, <1>3, FS_EmptySet DEF n

\* A set of free slots with the count of a full block is the full block.
LEMMA FreeCounts ==
  ASSUME Inv, op = Idle, NEW i \in Blocks
  PROVE  /\ m_frames[i] = Slots => m_free[i] = FramesPerBlock
         /\ m_free[i] = 0 => m_frames[i] = {}
         /\ m_frames[i] \in SUBSET Slots
  <1>1. m_free[i] = Cardinality(m_frames[i]) /\ m_frames[i] \in SUBSET Slots
    BY IdleCounts DEF Inv, TypeOK
  <1> QED BY <1>1, SlotsFinite

\* The abstract constants are Pmm's.
LEMMA SameConstants ==
  /\ Abstract!Blocks = Blocks /\ Abstract!Slots = Slots /\ Abstract!PageSizes = PageSizes
  /\ \A size : Abstract!BlocksIn(size) = BlocksIn(size)
  BY DEF Abstract!Blocks, Blocks, BlockCount, Abstract!Slots, Slots, Abstract!PageSizes,
         PageSizes, Abstract!BlocksIn, BlocksIn

\* .bss maps to the empty pool of the abstract allocator.
LEMMA InitImplements == Init => Abstract!Init
  BY SameConstants DEF Init, Abstract!Init, Abstract!Nothing, NoAnswer, Halt, phase

\* An alloc that finds no block is a refusal.
LEMMA RefuseImplements ==
  ASSUME Inv, op = Idle, NEW size \in PageSizes, OutOfMemory(size),
         size = "4K" => m_links.head["broken"] = NIL /\ m_links.head["whole"] = NIL,
         size # "4K" => find_whole_run(size) = NIL
  PROVE  Abstract!Refuse(size)
  <1> USE SameConstants
  <1>1. ASSUME NEW i \in Blocks, NEW s \in Slots, Abstract!RunIn(m_frames, size, i, s)
        PROVE  FALSE
    <2>1. /\ size # "4K" => s = 0 /\ i % BlocksIn(size) = 0
          /\ i + BlocksIn(size) - 1 \in Blocks
          /\ \A j \in Blocks : Abstract!Footprint(size, i, s, j) \subseteq m_frames[j]
      BY <1>1 DEF Abstract!RunIn, Abstract!Aligned
    <2>2. \A j \in i .. i + BlocksIn(size) - 1 :
             j \in Blocks /\ (IF size = "4K" THEN {s} ELSE Slots) \subseteq m_frames[j]
      <3>1. \A j \in i .. i + BlocksIn(size) - 1 : j \in Blocks
        BY <2>1, BlockCountType DEF Blocks
      <3> QED BY <2>1, <3>1 DEF Abstract!Footprint
    <2>3. CASE size = "4K"
      <3>1. s \in m_frames[i]
        BY <2>2, <2>3, BlocksFinite DEF BlocksIn
      <3>2. m_free[i] # 0
        BY <3>1, FreeCounts
      <3>3. i \in Class("broken") \/ i \in Class("whole")
        BY <3>2 DEF Class, list_of
      <3> QED BY <2>3, <3>3, EmptyList DEF Inv, Lists
    <2>4. CASE size # "4K"
      <3>1. \A j \in i .. i + BlocksIn(size) - 1 : m_free[j] = FramesPerBlock
        BY <2>2, <2>4, FreeCounts, Zenon
      <3>2. CASE size = "2M"
        <4>1. m_free[i] = FramesPerBlock /\ m_links.head["whole"] = NIL
          BY <3>1, <3>2, BlocksFinite DEF BlocksIn, find_whole_run
        <4>2. i \in Class("whole")
          BY <4>1, SizesAssumption DEF Class, list_of
        <4> QED BY <4>1, <4>2, EmptyList DEF Inv, Lists
      <3>3. CASE size = "1G"
        <4>1. BlocksIn(size) = BlocksPerGiga /\ BlocksPerGiga \in Nat \ {0}
          BY <3>3, SizesAssumption DEF BlocksIn
        <4>2. \A k \in 0 .. BlocksPerGiga - 1 : m_free[i + k] = FramesPerBlock
          BY <3>1, <4>1, BlocksFinite
        <4>3. i \in whole_runs(size)
          BY <2>1, <2>4, <4>1, <4>2 DEF whole_runs
        <4>4. find_set(whole_runs(size)) = NIL /\ whole_runs(size) \in SUBSET Nat
          BY <3>3, <4>3, BlocksFinite, Zenon DEF find_whole_run, whole_runs
        <4>5. find_set(whole_runs(size)) \in whole_runs(size)
          BY <4>3, <4>4, FindSet
        <4> QED BY <4>4, <4>5 DEF NIL
      <3> QED BY <2>4, <3>2, <3>3 DEF PageSizes
    <2> QED BY <2>3, <2>4
  <1>2. phase = "up" /\ phase' = "up"
    BY DEF phase, Idle, OutOfMemory
  <1> QED BY <1>1, <1>2 DEF Abstract!Refuse, OutOfMemory

\* With no loop in progress, both lists are empty exactly when no frame is free.
LEMMA NoHeadNoFrame ==
  Inv /\ op.kind \notin Loops =>
     ((\A l \in Lists : m_links.head[l] = NIL) <=> m_frames = [i \in Blocks |-> {}])
  <1> SUFFICES ASSUME Inv, op.kind \notin Loops
               PROVE  (\A l \in Lists : m_links.head[l] = NIL)
                         <=> m_frames = [i \in Blocks |-> {}]
    OBVIOUS
  <1>1. \A i \in Blocks : (m_free[i] = 0 <=> m_frames[i] = {})
    <2>1. ASSUME NEW i \in Blocks
          PROVE  m_free[i] = Cardinality(m_frames[i]) /\ m_frames[i] \in SUBSET Slots
      BY DEF Inv, TypeOK, CountsMatchBitmap, Pending
    <2> QED BY <2>1, SlotsFinite
  <1>2. ASSUME \A l \in Lists : m_links.head[l] = NIL
        PROVE  m_frames = [i \in Blocks |-> {}]
    <2>1. Class("whole") = {} /\ Class("broken") = {}
      BY <1>2, EmptyList DEF Inv, Lists
    <2>2. \A i \in Blocks : m_free[i] = 0
      BY <2>1 DEF Class, list_of
    <2> QED BY <1>1, <2>2 DEF Inv, TypeOK
  <1>3. ASSUME m_frames = [i \in Blocks |-> {}], NEW l \in Lists
        PROVE  m_links.head[l] = NIL
    <2>1. Class(l) = {}
      BY <1>1, <1>3 DEF Class, list_of, Lists
    <2> QED BY <2>1, HeadInClass DEF Inv, TypeOK
  <1> QED BY <1>2, <1>3

\* The loops of take_whole and free stutter; the last step of populate's loop starts.
LEMMA LoopImplements ==
  ASSUME Inv, SetFreeLoop
  PROVE  Abstract!Start \/ UNCHANGED Abstract!vars
  <1>1. /\ op.kind \in Loops /\ UNCHANGED <<m_frames, held, answer>>
        /\ op' = IF op.index = op.last THEN after_loop ELSE [op EXCEPT !.index = @ + 1]
    BY DEF SetFreeLoop
  <1>2. CASE op.index # op.last
    <2>1. op'.kind = op.kind
      BY <1>1, <1>2 DEF Inv, TypeOK
    <2>2. phase' = phase
      BY <2>1 DEF phase
    <2> QED BY <1>1, <2>2 DEF Abstract!vars
  <1>3. CASE op.index = op.last /\ op.kind # "populate"
    <2>1. op' = Idle /\ op.kind \in {"take", "give"}
      BY <1>1, <1>3 DEF after_loop, Loops
    <2>2. phase = "up" /\ phase' = "up"
      BY <2>1 DEF phase, Idle
    <2> QED BY <1>1, <2>2 DEF Abstract!vars
  <1>4. CASE op.index = op.last /\ op.kind = "populate"
    <2>1. op' = IF \A l \in Lists : m_links'.head[l] = NIL THEN Halt("no_usable_memory") ELSE Idle
      BY <1>1, <1>4 DEF after_loop
    <2>2. op'.kind \notin Loops
      BY <2>1 DEF Halt, Idle, Loops
    <2>3. (Inv /\ op.kind \notin Loops =>
              ((\A l \in Lists : m_links.head[l] = NIL) <=> m_frames = [i \in Blocks |-> {}]))'
      BY NoHeadNoFrame, PTL
    <2>4. (\A l \in Lists : m_links'.head[l] = NIL) <=> m_frames = [i \in Blocks |-> {}]
      BY <1>1, <2>2, <2>3, SetFreeLoopInv
    <2>5. phase = "booting"
      BY <1>4 DEF phase
    <2>6. phase' = IF m_frames = [i \in Blocks |-> {}] THEN "halted" ELSE "up"
      BY <2>1, <2>4 DEF phase, Halt, Idle
    <2> QED BY <1>1, <2>5, <2>6, SameConstants DEF Abstract!Start, Abstract!Nothing
  <1> QED BY <1>2, <1>3, <1>4

\* alloc(4K) grants the frame whose bit it clears.
LEMMA Take4KImplements ==
  ASSUME Inv, op = Idle, take_4K
  PROVE  Abstract!Next
  <1> USE DEF pick_block
  <1> DEFINE index == pick_block
             s == find_set(m_frames[index])
  <1>1. CASE index = NIL
    <2>1. OutOfMemory("4K")
      BY <1>1 DEF take_4K
    <2>2. m_links.head["broken"] = NIL /\ m_links.head["whole"] = NIL
      BY <1>1
    <2>3. Abstract!Refuse("4K")
      BY <2>1, <2>2, RefuseImplements DEF PageSizes
    <2> QED BY <2>3, SameConstants DEF Abstract!Next, PageSizes
  <1>2. CASE index # NIL
    <2>1. PICK l \in Lists : index = m_links.head[l]
      BY DEF Lists
    <2>2. index \in Class(l)
      BY <1>2, <2>1, HeadInClass DEF Inv, TypeOK
    <2> HIDE DEF index
    <2>3. index \in Blocks /\ m_free[index] # 0
      BY <2>2 DEF Class, list_of, Lists
    <2>4. m_frames[index] \in SUBSET Slots /\ m_frames[index] # {}
      BY <2>3, IdleCounts, SlotsFinite DEF Inv, TypeOK
    <2>5. s \in m_frames[index]
      <3>1. m_frames[index] \in SUBSET Nat
        BY <2>4, SlotsNat, Zenon
      <3> QED BY <3>1, <2>4, FindSet
    <2>6. /\ m_frames' = [m_frames EXCEPT ![index] = @ \ {s}]
          /\ held' = [held EXCEPT ![index] = @ \cup {s}]
          /\ answer' = [status |-> "ok", size |-> "4K"]
          /\ op' = op
      BY <1>2, <2>4, Zenon DEF take_4K, index
    <2> HIDE DEF s
    <2>7. \A j \in Blocks : Abstract!Footprint("4K", index, s, j) = IF j = index THEN {s} ELSE {}
      BY <2>3, BlocksFinite DEF Abstract!Footprint, Abstract!BlocksIn
    <2>8. Abstract!RunIn(m_frames, "4K", index, s)
      BY <2>3, <2>5, <2>7, BlocksFinite, SameConstants
         DEF Abstract!RunIn, Abstract!Aligned, BlocksIn
    <2>9. m_frames' = [j \in Blocks |-> m_frames[j] \ Abstract!Footprint("4K", index, s, j)]
      BY <2>3, <2>6, <2>7, Zenon DEF Inv, TypeOK
    <2>10. held' = [j \in Blocks |-> held[j] \cup Abstract!Footprint("4K", index, s, j)]
      BY <2>3, <2>6, <2>7, Zenon DEF Inv, TypeOK
    <2>11. phase = "up" /\ phase' = "up"
      BY <2>6 DEF phase, Idle
    <2>12. Abstract!Grant("4K", index, s)
      BY <2>6, <2>8, <2>9, <2>10, <2>11, SameConstants, Zenon DEF Abstract!Grant
    <2> QED BY <2>3, <2>4, <2>5, <2>12, SameConstants DEF Abstract!Next, PageSizes
  <1> QED BY <1>1, <1>2

\* alloc(2M) and alloc(1G) grant a run of which every frame was free.
LEMMA TakeLargeImplements ==
  ASSUME Inv, op = Idle, NEW size \in {"2M", "1G"}, take_large(size)
  PROVE  Abstract!Next
  <1> DEFINE first == find_whole_run(size)
             last == first + BlocksIn(size) - 1
             run == first .. last
  <1>1. CASE first = NIL
    <2>1. OutOfMemory(size)
      BY <1>1 DEF take_large
    <2>2. Abstract!Refuse(size)
      BY <1>1, <2>1, RefuseImplements DEF PageSizes
    <2> QED BY <2>2, SameConstants DEF Abstract!Next, PageSizes
  <1>2. CASE first # NIL
    <2>1. /\ first \in Blocks /\ last \in Blocks
          /\ \A i \in run : i \in Blocks /\ m_frames[i] = Slots
      BY <1>2, WholeRun
    <2>2. first % BlocksIn(size) = 0
      BY <1>2, AlignedRun
    <2>3. /\ m_frames' = [i \in Blocks |-> IF i \in run THEN {} ELSE m_frames[i]]
          /\ op' = [kind |-> "take", index |-> first, last |-> last]
          /\ held' = [i \in Blocks |-> IF i \in run THEN Slots ELSE held[i]]
          /\ answer' = [status |-> "ok", size |-> size]
      BY <1>2 DEF take_large
    <2>4. \A j \in Blocks : Abstract!Footprint(size, first, 0, j) = IF j \in run THEN Slots ELSE {}
      BY SameConstants DEF Abstract!Footprint
    <2> HIDE DEF first
    <2>5. Abstract!RunIn(m_frames, size, first, 0)
      BY <2>1, <2>2, <2>4, SameConstants DEF Abstract!RunIn, Abstract!Aligned
    <2> HIDE DEF run
    <2>6. m_frames' = [j \in Blocks |-> m_frames[j] \ Abstract!Footprint(size, first, 0, j)]
      BY <2>1, <2>3, <2>4 DEF Inv, TypeOK
    <2>7. held' = [j \in Blocks |-> held[j] \cup Abstract!Footprint(size, first, 0, j)]
      BY <2>1, <2>3, <2>4 DEF Inv, TypeOK
    <2>8. phase = "up" /\ phase' = "up"
      BY <2>3 DEF phase, Idle
    <2>9. Abstract!Grant(size, first, 0)
      BY <2>3, <2>5, <2>6, <2>7, <2>8, SameConstants DEF Abstract!Grant
    <2>10. 0 \in Slots
      BY SizesAssumption DEF Slots
    <2> QED BY <2>1, <2>9, <2>10, SameConstants DEF Abstract!Next, PageSizes
  <1> QED BY <1>1, <1>2

\* free returns frames that were held, or stops the machine.
LEMMA FreeImplements ==
  ASSUME Inv, NEW size \in PageSizes, NEW i \in 0 .. BlockCount, NEW s \in Slots,
         NEW offset \in {0, 1}, free(size, i, s, offset)
  PROVE  Abstract!Next
  <1> DEFINE last == i + BlocksIn(size) - 1
             run == i .. last
             slots == IF size = "4K" THEN {s} ELSE Slots
             aligned == /\ offset = 0
                        /\ size # "4K" => s = 0 /\ i % BlocksIn(size) = 0
  <1>0. op = Idle /\ phase = "up"
    BY DEF free, phase, Idle
  <1>1. CASE Panic("panic_invalid") \/ Panic("panic_double_free")
    <2>1. phase' = "halted"
      BY <1>1 DEF Panic, Halt, phase
    <2>2. Abstract!Die
      BY <1>0, <1>1, <2>1 DEF Panic, Abstract!Die
    <2> QED BY <2>2 DEF Abstract!Next
  <1>2. CASE ~(Panic("panic_invalid") \/ Panic("panic_double_free"))
    <2>1. /\ aligned /\ ~(last >= BlockCount)
          /\ \A j \in run : slots \subseteq m_frames[j] \cup held[j]
          /\ \A j \in run : slots \cap m_frames[j] = {}
          /\ m_frames' = [j \in Blocks |-> IF j \in run THEN m_frames[j] \cup slots
                                           ELSE m_frames[j]]
          /\ held' = [j \in Blocks |-> IF j \in run THEN held[j] \ slots ELSE held[j]]
          /\ answer' = NoAnswer
          /\ op' = op \/ op'.kind = "give"
      BY <1>2 DEF free, CallerContract
    <2>2. i \in Blocks /\ last \in Blocks
      <3>1. BlocksIn(size) \in Nat \ {0}
        BY SizesAssumption DEF BlocksIn
      <3> QED BY <2>1, <3>1, BlockCountType DEF Blocks
    <2>3. \A j \in Blocks : Abstract!Footprint(size, i, s, j) = IF j \in run THEN slots ELSE {}
      BY SameConstants DEF Abstract!Footprint
    <2>4. Abstract!RunIn(held, size, i, s)
      BY <2>1, <2>2, <2>3, SameConstants DEF Abstract!RunIn, Abstract!Aligned
    <2> HIDE DEF run, slots
    <2>5. m_frames' = [j \in Blocks |-> m_frames[j] \cup Abstract!Footprint(size, i, s, j)]
      BY <2>1, <2>3 DEF Inv, TypeOK
    <2>6. held' = [j \in Blocks |-> held[j] \ Abstract!Footprint(size, i, s, j)]
      BY <2>1, <2>3 DEF Inv, TypeOK
    <2>7. phase' = "up"
      BY <1>0, <2>1 DEF phase, Idle
    <2>8. Abstract!Release(size, i, s)
      BY <1>0, <2>1, <2>4, <2>5, <2>6, <2>7, SameConstants DEF Abstract!Release, NoAnswer
    <2> QED BY <2>2, <2>8, SameConstants DEF Abstract!Next
  <1> QED BY <1>1, <1>2

\* The allocator of pmm.cpp implements the abstract allocator: frames are granted only
\* when all of them are free, a request is refused only when no aligned run of its size
\* is free, and a release returns frames that were held.
THEOREM Implements == Spec => ImplementsFrameAllocator
  <1>1. Inv /\ [Next]_vars => [Abstract!Next]_(Abstract!vars)
    <2> SUFFICES ASSUME Inv, [Next]_vars
                 PROVE  Abstract!Next \/ UNCHANGED Abstract!vars
      OBVIOUS
    <2>1. ASSUME NEW b \in BootInfos, populate(b) PROVE Abstract!Next
      <3>1. phase = "off" /\ phase' = "booting"
        BY <2>1 DEF populate, phase
      <3>2. Abstract!Populate
        BY <2>1, <3>1 DEF populate, Abstract!Populate
      <3> QED BY <3>2 DEF Abstract!Next
    <2>2. CASE SetFreeLoop
      BY <2>2, LoopImplements DEF Abstract!Next
    <2>3. ASSUME NEW size \in PageSizes, alloc(size) PROVE Abstract!Next
      <3>1. CASE size = "4K"
        BY <2>3, <3>1, Take4KImplements DEF alloc
      <3>2. CASE size # "4K"
        BY <2>3, <3>2, TakeLargeImplements DEF alloc, PageSizes
      <3> QED BY <3>1, <3>2
    <2>4. ASSUME NEW size \in PageSizes, NEW i \in 0 .. BlockCount, NEW s \in Slots,
                 NEW offset \in {0, 1}, free(size, i, s, offset)
          PROVE  Abstract!Next
      BY <2>4, FreeImplements
    <2>5. CASE UNCHANGED vars
      BY <2>5 DEF vars, Abstract!vars, phase
    <2> QED BY <2>1, <2>2, <2>3, <2>4, <2>5 DEF Next, Halted
  <1> QED BY <1>1, InitImplements, Safety, PTL
          DEF Spec, ImplementsFrameAllocator, Abstract!Spec
=============================================================================
