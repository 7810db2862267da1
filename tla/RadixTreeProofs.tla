-------------------------- MODULE RadixTreeProofs ---------------------------
(***************************************************************************)
(* That the page tables are sound: what TablesSound and NoStaleTranslation *)
(* say of the instances TLC checks holds for every format, every set of    *)
(* calls and every number of frames.                                       *)
(***************************************************************************)
EXTENDS RadixTables

-----------------------------------------------------------------------------
(***************************************************************************)
(* The operation in progress.                                              *)
(***************************************************************************)

Statuses == {"none", "ok", "removed", "OUT_OF_MEMORY", "INVALID_ADDRESS", "NOT_MAPPED", "CONFLICT"}

\* No linked table is empty.
Full(m) == \A u \in Tables : LinkedIn(m, u) => m[u] # EmptyTable

LEMMA FullIsEnough == (~starved => Full(mem)) => NoDeadBranch
BY Zenon DEF Full, NoDeadBranch

LEMMA TreeKept ==
    ASSUME Tree, Caches, UNCHANGED <<mem, pool, tlb, psc>>
    PROVE  Tree' /\ Caches'
BY Zenon DEF Tree, Caches

LEMMA IdleType ==
    /\ Idle.kind = "idle" /\ Idle.stage = "leaf" /\ Idle.offset = 0 /\ Idle.prune = 1
    /\ Idle \in [kind : {"idle", "map", "protect", "unmap"}, va : 0 .. Space - 1,
                 length : 0 .. Space - 1, level : 1 .. Levels, frame : Nat,
                 flags : SUBSET FlagNames, offset : Nat,
                 stage : {"leaf", "split_first", "grow_first", "split_end", "grow_end", "prune"},
                 prune : 1 .. Levels]
<1>1. 0 \in 0 .. Space - 1 /\ 1 \in 1 .. Levels
  BY FormatFacts
<1> QED
  BY <1>1, Zenon DEF Idle

LEMMA FinishType ==
    ASSUME NEW s \in Statuses, Finish(s), starved' \in BOOLEAN
    PROVE  OpType' /\ OpPlace'
<1>1. op' = Idle /\ answer' = Answer(s)
  BY Zenon DEF Finish
<1>2. answer' \in [status : Statuses, frame : Nat, pages : Nat]
  BY <1>1, Zenon DEF Answer
<1> QED
  BY <1>1, <1>2, IdleType, Zenon DEF OpType, OpPlace, Statuses

LEMMA AdvanceType ==
    ASSUME OpType, op.kind # "idle", op.kind = "unmap" => valid(op.va),
           NEW p \in Nat, Advance(p), UNCHANGED starved
    PROVE  OpType' /\ OpPlace'
<1>1. CASE op.offset + p >= op.length
  <2>1. Finish("ok")
    BY <1>1, Zenon DEF Advance
  <2> QED
    BY <2>1, FinishType, Zenon DEF OpType, Statuses
<1>2. CASE ~(op.offset + p >= op.length)
  <2>1. op' = [op EXCEPT !.offset = @ + p, !.stage = "leaf", !.prune = 1] /\ answer' = answer
    BY <1>2, Zenon DEF Advance
  <2>2. op.offset \in Nat /\ op.length \in Nat /\ 1 \in 1 .. Levels
    BY FormatFacts DEF OpType
  <2>3. op.offset + p \in Nat /\ op.offset + p < op.length
    BY <1>2, <2>2
  <2>4. /\ op' \in [kind : {"idle", "map", "protect", "unmap"}, va : 0 .. Space - 1,
                    length : 0 .. Space - 1, level : 1 .. Levels, frame : Nat,
                    flags : SUBSET FlagNames, offset : Nat,
                    stage : {"leaf", "split_first", "grow_first", "split_end", "grow_end", "prune"},
                    prune : 1 .. Levels]
        /\ op'.kind = op.kind /\ op'.va = op.va /\ op'.stage = "leaf"
        /\ op'.offset = op.offset + p /\ op'.length = op.length
    BY <2>1, <2>2, <2>3, Zenon DEF OpType
  <2>5. OpType'
    BY <2>1, <2>3, <2>4, Zenon DEF OpType
  <2>6. OpPlace'
    BY <2>4, Zenon DEF OpPlace, valid, Half
  <2> QED
    BY <2>5, <2>6, Zenon
<1> QED
  BY <1>1, <1>2, Zenon

\* An operation that fails is not in the middle of a walk.
LEMMA FailStep ==
    ASSUME RadixInv, ~starved => Full(mem), NEW s \in Statuses, Fail(s)
    PROVE  RadixInv'
<1>1. Finish(s) /\ UNCHANGED <<mem, pool, starved, tlb, psc>>
  BY Zenon DEF Fail
<1>2. OpType' /\ OpPlace'
  BY <1>1, FinishType, Zenon DEF RadixInv, OpType
<1>3. Tree' /\ Caches'
  BY <1>1, TreeKept, Zenon DEF RadixInv
<1>4. NoDeadBranch'
  BY <1>1, Zenon DEF Full, NoDeadBranch, LinkedIn
<1> QED
  BY <1>2, <1>3, <1>4, Zenon DEF RadixInv

LEMMA StarvesStep ==
    ASSUME RadixInv, Starves
    PROVE  RadixInv'
<1>1. Finish("OUT_OF_MEMORY") /\ starved' = TRUE /\ UNCHANGED <<mem, pool, tlb, psc>>
  BY Zenon DEF Starves
<1>2. OpType' /\ OpPlace'
  BY <1>1, FinishType, Zenon DEF Statuses
<1>3. Tree' /\ Caches'
  BY <1>1, TreeKept, Zenon DEF RadixInv
<1>4. NoDeadBranch'
  BY <1>1, Zenon DEF NoDeadBranch
<1> QED
  BY <1>2, <1>3, <1>4, Zenon DEF RadixInv

\* The changes that leave no linked table empty.
LEMMA FullAfterWrite ==
    ASSUME NEW m, NEW n, NEW pl, NEW lev, NEW va, NEW l, NEW e \in LeafEntries,
           LeafWritten(m, n, pl, lev, va, l, e), index(l, va) \in Indexes,
           \A u \in Tables : LinkedIn(m, u) /\ m[u] = EmptyTable => u = Walk(m, va)[l]
    PROVE  Full(n)
<1> SUFFICES ASSUME NEW u \in Tables, LinkedIn(n, u), n[u] = EmptyTable PROVE FALSE
  BY Zenon DEF Full
<1>1. LinkedIn(m, u) /\ n[Walk(m, va)[l]][index(l, va)] = e
  BY Zenon DEF LeafWritten
<1>2. e.kind = "leaf"
  BY Zenon DEF LeafEntries
<1>3. u # Walk(m, va)[l]
  <2> SUFFICES ASSUME u = Walk(m, va)[l] PROVE FALSE
    BY Zenon
  <2>1. EmptyTable[index(l, va)] = e
    BY <1>1, Zenon
  <2>2. EmptyTable[index(l, va)].kind = "none"
    BY Zenon DEF EmptyTable, NoEntry
  <2> QED
    BY <1>2, <2>1, <2>2, Zenon
<1>4. n[u] = m[u]
  BY <1>3, Zenon DEF LeafWritten
<1> QED
  BY <1>1, <1>3, <1>4, Zenon

LEMMA FullAfterSplit ==
    ASSUME NEW m, NEW n, NEW pl, NEW va, NEW l, NEW c, NEW x,
           TableLinked(m, n, pl, va, l, c, x), x # EmptyTable, Full(m)
    PROVE  Full(n)
<1> SUFFICES ASSUME NEW u \in Tables, LinkedIn(n, u), n[u] = EmptyTable PROVE FALSE
  BY Zenon DEF Full
<1>1. u # c /\ u # Walk(m, va)[l]
  BY Zenon DEF TableLinked
<1>2. n[u] = m[u] /\ LinkedIn(m, u)
  BY <1>1, Zenon DEF TableLinked
<1> QED
  BY <1>2, Zenon DEF Full
-----------------------------------------------------------------------------
(***************************************************************************)
(* Every action keeps the invariant.                                       *)
(***************************************************************************)

LEMMA MapStep ==
    ASSUME RadixInv, map_leaf
    PROVE  RadixInv'
<1> PICK va \in 0 .. Space - 1 : va = here
  BY HereType, Zenon DEF RadixInv
<1> PICK l \in 1 .. Levels : l = op.level
  BY Zenon DEF RadixInv, OpType
<1> PICK e : e = leaf_entry(op.frame + op.offset, op.flags)
  BY Zenon
<1> USE DEF RadixInv
<1>1. op.kind = "map" /\ e \in LeafEntries /\ PagesAt(l) \in Nat /\ va \in Nat
      /\ Levels \in Nat /\ index(l, va) \in Indexes
  <2>1. op.kind = "map"
    BY Zenon DEF map_leaf
  <2>2. op.frame \in Nat /\ op.offset \in Nat /\ op.flags \in SUBSET FlagNames
    BY Zenon DEF OpType
  <2> QED
    BY <2>1, <2>2, FormatFacts, PageType DEF leaf_entry, LeafEntries
<1> DEFINE fits == valid(va) /\ aligned(va, l) /\ aligned(op.frame + op.offset, l)
<1>2. ASSUME NEW u \in Tables, LinkedIn(mem, u), mem[u] = EmptyTable, ~starved
      PROVE  u = Walk(mem, va)[Reached(mem, va)] /\ Reached(mem, va) >= l /\ fits
  BY <1>1, <1>2, Zenon DEF NoDeadBranch, Unfinished
<1>3. CASE ~fits /\ Fail("INVALID_ADDRESS")
  <2>1. ~starved => Full(mem)
    BY <1>2, <1>3, Zenon DEF Full
  <2> QED
    BY <1>3, <2>1, FailStep, Zenon DEF Statuses
<1>4. CASE Starves
  BY <1>4, StarvesStep, Zenon
<1> PICK lev \in [Tables -> 1 .. Levels] : TreeAt(mem, pool, lev)
  BY Zenon DEF Tree
<1>5. /\ Reached(mem, va) \in 1 .. Levels
      /\ \A k \in 1 .. Levels : Walk(mem, va)[k] # None <=> k >= Reached(mem, va)
  BY <1>1, EndIs, Zenon
<1>6. CASE fits /\ Reached(mem, va) > l /\ Grown(va, op)
  <2> PICK r \in 2 .. Levels : r = Reached(mem, va)
    BY <1>1, <1>5, <1>6
  <2>1. va \in Pages
    BY <1>6, Zenon DEF Pages
  <2>2. Tree' /\ Caches'
    BY <1>6, <2>1, GrownTree, Zenon
  <2>3. PICK c \in pool : TableLinked(mem, mem', pool, va, r, c, NewTable(End(mem, va), r))
    BY <1>6, <2>1, GrownTree
  <2>4. op' = op /\ answer' = answer /\ starved' = starved
    BY <1>6, Zenon DEF Grown
  <2>5. OpType' /\ here' = here
    BY <2>4, Zenon DEF OpType, here
  <2>6. OpPlace'
    BY <1>1, <2>4, Zenon DEF OpPlace
  <2>7. NoDeadBranch'
    <3> SUFFICES ASSUME NEW u \in Tables, LinkedIn(mem', u), mem'[u] = EmptyTable, ~starved
                 PROVE  Unfinished(u)'
      BY <2>4, Zenon DEF NoDeadBranch, LinkedIn
    <3>1. u # Walk(mem, va)[r]
      BY <2>3, Zenon DEF TableLinked
    <3>2. u = c
      <4> SUFFICES ASSUME u # c PROVE FALSE
        BY Zenon
      <4>1. mem'[u] = mem[u] /\ LinkedIn(mem, u)
        BY <2>3, <3>1, Zenon DEF TableLinked
      <4> QED
        BY <1>2, <3>1, <4>1, Zenon
    <3>3. Walk(mem', va)[r - 1] = c /\ Reached(mem', va) = r - 1
      BY <2>1, <2>3 DEF TableLinked
    <3>4. r - 1 >= l
      BY <1>6
    <3>5. fits
      BY <1>6
    <3> QED
      BY <1>1, <2>4, <2>5, <3>2, <3>3, <3>4, <3>5 DEF Unfinished, valid, aligned, Half
  <2> QED
    BY <2>2, <2>5, <2>6, <2>7, Zenon
<1>7. CASE ~(Reached(mem, va) > l) /\ present(Slot(mem, va, l))
  <2>1. ~starved => Full(mem)
    <3> SUFFICES ASSUME NEW u \in Tables, LinkedIn(mem, u), mem[u] = EmptyTable, ~starved
                 PROVE  FALSE
      BY Zenon DEF Full
    <3>1. Reached(mem, va) = l
      BY <1>2, <1>5, <1>7
    <3>2. u = Walk(mem, va)[l]
      BY <1>2, <3>1
    <3>3. Slot(mem, va, l) = NoEntry
      BY <1>1, <3>2 DEF Slot, EmptyTable
    <3> QED
      BY <1>7, <3>3 DEF present, NoEntry
  <2>2. CASE Fail("CONFLICT")
    BY <2>1, <2>2, FailStep DEF Statuses
  <2>3. CASE UNCHANGED <<mem, pool, starved, tlb, psc>> /\ Advance(PagesAt(l))
    <3>1. OpType' /\ OpPlace'
      BY <1>1, <2>3, AdvanceType
    <3>2. Tree' /\ Caches'
      BY <2>3, TreeKept
    <3>3. NoDeadBranch'
      BY <2>1, <2>3 DEF Full, NoDeadBranch, LinkedIn
    <3> QED
      BY <3>1, <3>2, <3>3
  <2>4. CASE ~(Fail("CONFLICT") \/ (UNCHANGED <<mem, pool, starved, tlb, psc>> /\ Advance(PagesAt(l))))
    BY <1>3, <1>4, <1>6, <1>7, <2>4, MapCases
  <2> QED
    BY <2>2, <2>3, <2>4, Zenon
<1>8. CASE /\ fits /\ ~(Reached(mem, va) > l) /\ ~present(Slot(mem, va, l)) /\ Replaced(va, l, e)
           /\ UNCHANGED <<pool, starved>> /\ Advance(PagesAt(l))
  <2>1. va \in Pages /\ Walk(mem, va)[l] # None /\ Slot(mem, va, l).kind # "table"
    BY <1>5, <1>8 DEF Pages, present
  <2>2. Reached(mem, va) = l
    BY <1>1, <2>1, EndUnique
  <2>3. Tree' /\ Caches'
    BY <1>1, <1>8, <2>1, ReplacedLeaf, Zenon
  <2>4. PICK lw \in [Tables -> 1 .. Levels] : LeafWritten(mem, mem', pool, lw, va, l, e)
    BY <1>1, <1>8, <2>1, ReplacedLeaf
  <2>5. ~starved => Full(mem')
    <3> SUFFICES ASSUME ~starved PROVE Full(mem')
      BY Zenon
    <3>1. \A u \in Tables : LinkedIn(mem, u) /\ mem[u] = EmptyTable => u = Walk(mem, va)[l]
      BY <1>2, <2>2, Zenon
    <3> QED
      BY <1>1, <2>4, <3>1, FullAfterWrite
  <2>6. OpType' /\ OpPlace'
    BY <1>1, <1>8, AdvanceType, Zenon
  <2>7. NoDeadBranch'
    BY <1>8, <2>5, Zenon DEF Full, NoDeadBranch, LinkedIn
  <2> QED
    BY <2>3, <2>6, <2>7
<1> QED
  BY <1>3, <1>4, <1>6, <1>7, <1>8, MapCases

\* What the splitting of a leaf keeps, for protect_leaf and for split_at.
LEMMA SplitGrows ==
    ASSUME RadixInv, ~starved => Full(mem), NEW va \in Pages, present(End(mem, va)),
           NEW l \in 1 .. Levels, Reached(mem, va) > l, NEW after, Grown(va, after)
    PROVE  /\ Tree' /\ Caches' /\ op' = after /\ answer' = answer /\ starved' = starved
           /\ ~starved => Full(mem')
<1> PICK lev \in [Tables -> 1 .. Levels] : TreeAt(mem, pool, lev)
  BY Zenon DEF RadixInv, Tree
<1>1. va \in Nat /\ Levels \in Nat
  BY PagesNat, FormatFacts, Zenon
<1>2. Reached(mem, va) \in 1 .. Levels /\ End(mem, va) \in {NoEntry} \cup LeafEntries
  BY <1>1, EndIs, Zenon
<1> PICK r \in 2 .. Levels : r = Reached(mem, va)
  BY <1>1, <1>2
<1>3. Tree' /\ Caches'
  BY GrownTree, Zenon DEF RadixInv
<1>4. PICK c \in pool : TableLinked(mem, mem', pool, va, r, c, NewTable(End(mem, va), r))
  BY GrownTree, Zenon DEF RadixInv
<1>5. NewTable(End(mem, va), r) # EmptyTable
  BY <1>2, NewTableType, Zenon
<1>6. ~starved => Full(mem')
  BY <1>4, <1>5, FullAfterSplit, Zenon
<1> QED
  BY <1>3, <1>6 DEF Grown

LEMMA ProtectStep ==
    ASSUME RadixInv, protect_leaf
    PROVE  RadixInv'
<1> PICK va \in 0 .. Space - 1 : va = here
  BY HereType, Zenon DEF RadixInv
<1> PICK l \in 1 .. Levels : l = op.level
  BY Zenon DEF RadixInv, OpType
<1> USE DEF RadixInv
<1>1. op.kind = "protect" /\ PagesAt(l) \in Nat /\ va \in Nat /\ index(l, va) \in Indexes
  BY FormatFacts, PageType DEF protect_leaf
<1>2. ~starved => Full(mem)
  BY <1>1, Zenon DEF NoDeadBranch, Unfinished, Full
<1>3. CASE Fail("INVALID_ADDRESS") \/ Fail("NOT_MAPPED") \/ Fail("CONFLICT")
  BY <1>2, <1>3, FailStep, Zenon DEF Statuses
<1>4. CASE Starves
  BY <1>4, StarvesStep, Zenon
<1>5. CASE /\ valid(va) /\ Reached(mem, va) > l /\ present(End(mem, va)) /\ Grown(va, op)
  <2>1. va \in Pages
    BY <1>5, Zenon DEF Pages
  <2>2. /\ Tree' /\ Caches' /\ op' = op /\ answer' = answer /\ starved' = starved
        /\ ~starved => Full(mem')
    BY <1>2, <1>5, <2>1, SplitGrows, Zenon
  <2>3. OpType' /\ OpPlace'
    BY <1>1, <2>2, Zenon DEF OpType, OpPlace
  <2>4. NoDeadBranch'
    BY <2>2, Zenon DEF Full, NoDeadBranch, LinkedIn
  <2> QED
    BY <2>2, <2>3, <2>4, Zenon
<1> DEFINE e == leaf_entry(Slot(mem, va, l).to, op.flags)
<1>6. CASE /\ valid(va) /\ ~(Reached(mem, va) > l) /\ Slot(mem, va, l).kind = "leaf"
           /\ Replaced(va, l, e) /\ UNCHANGED <<pool, starved>> /\ Advance(PagesAt(l))
  <2> PICK lev \in [Tables -> 1 .. Levels] : TreeAt(mem, pool, lev)
    BY Zenon DEF Tree
  <2>1. va \in Pages
    BY <1>6, Zenon DEF Pages
  <2>2. /\ Reached(mem, va) \in 1 .. Levels
        /\ \A k \in 1 .. Levels : Walk(mem, va)[k] # None <=> k >= Reached(mem, va)
    BY <1>1, EndIs, Zenon
  <2>3. Walk(mem, va)[l] # None
    BY <1>6, <2>2
  <2>4. Slot(mem, va, l) \in EntryType
    BY <1>1, <2>3, OnWalk, Zenon
  <2>5. Slot(mem, va, l) \in LeafEntries
    BY <1>6, <2>4, EntryKinds, Zenon
  <2>6. Slot(mem, va, l).to \in Nat /\ op.flags \in SUBSET FlagNames
    BY <2>5, Zenon DEF LeafEntries, OpType
  <2>7. e \in LeafEntries
    BY <2>6, Zenon DEF leaf_entry, LeafEntries
  <2> HIDE DEF e
  <2>8. Slot(mem, va, l).kind # "table"
    BY <1>6, Zenon
  <2>9. Tree' /\ Caches'
    BY <1>6, <2>1, <2>3, <2>7, <2>8, ReplacedLeaf
  <2>10. PICK lw \in [Tables -> 1 .. Levels] : LeafWritten(mem, mem', pool, lw, va, l, e)
    BY <1>6, <2>1, <2>3, <2>7, <2>8, ReplacedLeaf
  <2>11. ~starved => Full(mem')
    BY <1>1, <1>2, <2>7, <2>10, FullAfterWrite DEF Full
  <2>12. OpType' /\ OpPlace'
    BY <1>1, <1>6, AdvanceType, Zenon
  <2>13. NoDeadBranch'
    BY <1>6, <2>11, Zenon DEF Full, NoDeadBranch, LinkedIn
  <2> QED
    BY <2>9, <2>12, <2>13, Zenon
<1> QED
  BY <1>3, <1>4, <1>5, <1>6, ProtectCases

LEMMA SplitStep ==
    ASSUME RadixInv, split_boundary
    PROVE  RadixInv'
<1> PICK end : end = (op.va + op.length) % Space
  BY Zenon
<1> PICK va : va = op.va
  BY Zenon
<1> PICK l \in 1 .. Levels : l = op.level
  BY Zenon DEF RadixInv, OpType
<1> USE DEF RadixInv
<1>1. op.kind = "unmap" /\ op.stage \in {"split_first", "grow_first", "split_end", "grow_end"}
      /\ valid(va) /\ va \in 0 .. Space - 1
  BY Zenon DEF split_boundary, OpPlace, OpType
<1>2. end \in 0 .. Space - 1
  <2>1. op.va + op.length \in Nat
    BY DEF OpType
  <2> QED
    BY <2>1, FormatFacts
<1>3. ~starved => Full(mem)
  BY <1>1, Zenon DEF NoDeadBranch, Unfinished, Full
<1>4. CASE Starves
  BY <1>4, StarvesStep, Zenon
<1>5. ASSUME NEW s \in {"grow_first", "split_end", "grow_end", "leaf"},
             op' = [op EXCEPT !.stage = s], answer' = answer, starved' = starved
      PROVE  OpType' /\ OpPlace'
  <2>1. OpType'
    BY <1>5, Zenon DEF OpType
  <2>2. op'.kind = "unmap" /\ op'.va = va /\ op'.stage # "prune"
    BY <1>1, <1>5, Zenon DEF OpType
  <2>3. OpPlace'
    BY <1>1, <2>2, Zenon DEF OpPlace, valid, Half
  <2> QED
    BY <2>1, <2>3, Zenon
<1>6. ASSUME NEW b \in {va, end}, valid(b), NEW g \in BOOLEAN, ToSplit(b, g),
             NEW s \in {"grow_first", "grow_end"}, Grown(b, [op EXCEPT !.stage = s])
      PROVE  RadixInv'
  <2>1. b \in Pages /\ Reached(mem, b) > l /\ present(End(mem, b))
    BY <1>1, <1>2, <1>6, Zenon DEF Pages, ToSplit
  <2>2. /\ Tree' /\ Caches' /\ op' = [op EXCEPT !.stage = s]
        /\ answer' = answer /\ starved' = starved
        /\ ~starved => Full(mem')
    BY <1>3, <1>6, <2>1, SplitGrows, Zenon
  <2>3. OpType' /\ OpPlace'
    BY <1>5, <2>2, Zenon
  <2>4. NoDeadBranch'
    BY <2>2, Zenon DEF Full, NoDeadBranch, LinkedIn
  <2> QED
    BY <2>2, <2>3, <2>4, Zenon
<1>7. ASSUME NEW s \in {"split_end", "leaf"}, op' = [op EXCEPT !.stage = s], Ahead
      PROVE  RadixInv'
  <2>1. UNCHANGED <<mem, pool, answer, starved, tlb, psc>>
    BY <1>7, Zenon DEF Ahead
  <2>2. OpType' /\ OpPlace'
    BY <1>5, <1>7, <2>1, Zenon
  <2>3. Tree' /\ Caches'
    BY <2>1, TreeKept, Zenon
  <2>4. NoDeadBranch'
    BY <1>3, <2>1, Zenon DEF Full, NoDeadBranch, LinkedIn
  <2> QED
    BY <2>2, <2>3, <2>4, Zenon
<1>8. CASE op.stage \in {"split_first", "grow_first"}
  <2>1. op.stage \notin {"split_end", "grow_end"}
    BY <1>8, Zenon
  <2> QED
    BY <1>1, <1>4, <1>6, <1>7, <2>1, SplitCases, Zenon
<1>9. CASE op.stage \notin {"split_first", "grow_first"}
  BY <1>1, <1>4, <1>6, <1>7, <1>9, SplitCases, Zenon
<1> QED
  BY <1>8, <1>9, Zenon

LEMMA RemoveStep ==
    ASSUME RadixInv, remove_leaf
    PROVE  RadixInv'
<1> PICK va \in 0 .. Space - 1 : va = here
  BY HereType, Zenon DEF RadixInv
<1> USE DEF RadixInv
<1>1. op.kind = "unmap" /\ op.stage = "leaf" /\ va \in Nat
  BY DEF remove_leaf
<1>2. ~starved => Full(mem)
  BY <1>1, Zenon DEF NoDeadBranch, Unfinished, Full
<1>3. CASE Fail("INVALID_ADDRESS") \/ Fail("NOT_MAPPED")
  BY <1>2, <1>3, FailStep, Zenon DEF Statuses
<1> PICK lev \in [Tables -> 1 .. Levels] : TreeAt(mem, pool, lev)
  BY Zenon DEF Tree
<1> PICK r \in 1 .. Levels : r = Reached(mem, va)
  BY <1>1, EndIs, Zenon
<1>4. CASE /\ valid(va) /\ present(End(mem, va)) /\ Replaced(va, r, NoEntry)
           /\ answer' = [status |-> "removed", frame |-> End(mem, va).to, pages |-> PagesAt(r)]
           /\ op' = [op EXCEPT !.stage = "prune", !.prune = r]
           /\ UNCHANGED <<pool, starved>>
  <2>1. va \in Pages
    BY <1>4, Zenon DEF Pages
  <2>2. /\ Walk(mem, va)[r] # None /\ Slot(mem, va, r).kind # "table" /\ End(mem, va) \in LeafEntries
    BY <1>1, <1>4, EndIs, Zenon DEF End
  <2>3. Tree' /\ Caches'
    BY <1>4, <2>1, <2>2, ReplacedLeaf, Zenon
  <2>4. PICK lw \in [Tables -> 1 .. Levels] : LeafWritten(mem, mem', pool, lw, va, r, NoEntry)
    BY <1>4, <2>1, <2>2, ReplacedLeaf
  <2>5. OpType'
    <3>1. End(mem, va).to \in Nat /\ PagesAt(r) \in Nat
      BY <2>2, FormatFacts, Zenon DEF LeafEntries
    <3> QED
      BY <1>4, <3>1, Zenon DEF OpType
  <2>6. op'.kind = "unmap" /\ op'.stage = "prune" /\ op'.prune = r /\ op'.va = op.va
        /\ op'.offset = op.offset
    BY <1>1, <1>4, Zenon DEF OpType
  <2>7. here' = va
    BY <2>6, Zenon DEF here
  <2>8. Reached(mem', va) = r /\ Walk(mem', va)[r] = Walk(mem, va)[r]
    BY <1>1, <2>1, <2>4, Zenon DEF LeafWritten
  <2>9. OpPlace'
    <3>1. valid(op.va)' /\ valid(here)'
      BY <1>1, <1>4, <2>6, <2>7, Zenon DEF OpPlace, valid, Half
    <3> QED
      BY <2>6, <2>7, <2>8, <3>1 DEF OpPlace
  <2>10. NoDeadBranch'
    <3> SUFFICES ASSUME NEW u \in Tables, LinkedIn(mem', u), mem'[u] = EmptyTable, ~starved
                 PROVE  Unfinished(u)'
      BY <1>4, Zenon DEF NoDeadBranch, LinkedIn
    <3>1. u = Walk(mem, va)[r]
      <4> SUFFICES ASSUME u # Walk(mem, va)[r] PROVE FALSE
        BY Zenon
      <4>1. mem'[u] = mem[u] /\ LinkedIn(mem, u)
        BY <2>4, Zenon DEF LeafWritten
      <4> QED
        BY <1>2, <4>1, Zenon DEF Full
    <3> QED
      BY <2>6, <2>7, <2>8, <3>1, Zenon DEF Unfinished
  <2> QED
    BY <2>3, <2>5, <2>9, <2>10, Zenon
<1> QED
  BY <1>3, <1>4, RemoveCases, Zenon

LEMMA PruneStep ==
    ASSUME RadixInv, prune
    PROVE  RadixInv'
<1> PICK va \in 0 .. Space - 1 : va = here
  BY HereType, Zenon DEF RadixInv
<1> PICK l \in 1 .. Levels : l = op.prune
  BY Zenon DEF RadixInv, OpType
<1> PICK u : u = Walk(mem, va)[l]
  BY Zenon
<1> USE DEF RadixInv
<1>1. /\ op.kind = "unmap" /\ op.stage = "prune" /\ starved' = starved
      /\ valid(op.va) /\ va \in Pages /\ va \in Nat /\ l = Reached(mem, va) /\ Levels \in Nat
  BY FormatFacts DEF prune, OpPlace, Pages
<1>2. ASSUME NEW v \in Tables, LinkedIn(mem, v), mem[v] = EmptyTable, ~starved
      PROVE  v = u
  BY <1>1, <1>2, Zenon DEF NoDeadBranch, Unfinished
<1> PICK lev \in [Tables -> 1 .. Levels] : TreeAt(mem, pool, lev)
  BY Zenon DEF Tree
<1>3. CASE /\ l < Levels /\ mem[u] = EmptyTable /\ Replaced(va, l + 1, NoEntry)
           /\ pool' = IF u \in Image THEN pool ELSE pool \cup {u}
           /\ op' = [op EXCEPT !.prune = l + 1] /\ UNCHANGED answer
  <2>1. l \in 1 .. Levels - 1 /\ l + 1 \in 1 .. Levels
    BY <1>1, <1>3
  <2>2. Tree' /\ Caches'
    BY <1>1, <1>3, <2>1, PrunedTree, Zenon
  <2>3. PICK lw \in [Tables -> 1 .. Levels] : TableUnlinked(mem, mem', pool', lw, va, l, u)
    BY <1>1, <1>3, <2>1, PrunedTree, Zenon
  <2>4. OpType'
    BY <1>1, <1>3, <2>1, Zenon DEF OpType
  <2>5. op'.kind = "unmap" /\ op'.stage = "prune" /\ op'.prune = l + 1 /\ op'.va = op.va
        /\ op'.offset = op.offset
    BY <1>1, <1>3, Zenon DEF OpType
  <2>6. here' = va
    BY <2>5, Zenon DEF here
  <2>7. Reached(mem', va) = l + 1 /\ Walk(mem', va)[l + 1] = Walk(mem, va)[l + 1]
    BY <1>1, <2>3, Zenon DEF TableUnlinked
  <2>8. OpPlace'
    <3>1. valid(op.va)' /\ valid(here)'
      BY <1>1, <2>5, <2>6, Zenon DEF OpPlace, Pages, valid, Half
    <3> QED
      BY <2>5, <2>6, <2>7, <3>1, Zenon DEF OpPlace
  <2>9. NoDeadBranch'
    <3> SUFFICES ASSUME NEW v \in Tables, LinkedIn(mem', v), mem'[v] = EmptyTable, ~starved
                 PROVE  Unfinished(v)'
      BY <1>1, Zenon DEF NoDeadBranch, LinkedIn
    <3>1. v = Walk(mem, va)[l + 1]
      <4> SUFFICES ASSUME v # Walk(mem, va)[l + 1] PROVE FALSE
        BY Zenon
      <4>1. mem'[v] = mem[v] /\ LinkedIn(mem, v) /\ v # u
        BY <2>3, Zenon DEF TableUnlinked
      <4> QED
        BY <1>2, <4>1, Zenon
    <3> QED
      BY <2>5, <2>6, <2>7, <3>1 DEF Unfinished
  <2> QED
    BY <2>2, <2>4, <2>8, <2>9, Zenon
<1>4. CASE /\ ~(l < Levels /\ mem[u] = EmptyTable)
           /\ Advance(answer.pages) /\ UNCHANGED <<mem, pool, tlb, psc>>
  <2>1. ~starved => Full(mem)
    <3> SUFFICES ASSUME NEW v \in Tables, LinkedIn(mem, v), mem[v] = EmptyTable, ~starved
                 PROVE  FALSE
      BY Zenon DEF Full
    <3>1. v = u
      BY <1>2, Zenon
    <3>2. l = Levels
      <4>1. ~(l < Levels)
        BY <1>4, <3>1, Zenon
      <4> QED
        BY <1>1, <4>1
    <3>3. u = Root
      BY <3>2, WalkIs, Zenon
    <3> QED
      BY <3>1, <3>3, Zenon DEF TreeAt
  <2>2. OpType' /\ OpPlace'
    <3>1. answer.pages \in Nat
      BY Zenon DEF OpType
    <3> QED
      BY <1>1, <1>4, <3>1, AdvanceType, Zenon
  <2>3. Tree' /\ Caches'
    BY <1>4, TreeKept, Zenon
  <2>4. NoDeadBranch'
    BY <1>1, <1>4, <2>1, Zenon DEF Full, NoDeadBranch, LinkedIn
  <2> QED
    BY <2>2, <2>3, <2>4, Zenon
<1> QED
  BY <1>3, <1>4, PruneCases

LEMMA LeafSizeType ==
    ASSUME NEW level \in 1 .. Levels
    PROVE  leaf_size(level) \in LeafLevels /\ leaf_size(level) \in 1 .. Levels
<1> DEFINE S == {level - l : l \in {k \in LeafLevels : k <= level}}
<1>1. LeafLevels \subseteq 1 .. Levels /\ 1 \in LeafLevels /\ Levels \in Nat
  BY FormatAssumption, Zenon
<1>2. S \in SUBSET Nat /\ level - 1 \in S
  BY <1>1
<1> HIDE DEF S
<1>3. PICK d \in S : \A e \in S : d <= e
  BY <1>2, LeastElement, Zenon
<1>4. PICK l \in LeafLevels : l <= level /\ d = level - l
  BY Zenon DEF S
<1>5. ASSUME NEW k \in LeafLevels, k <= level PROVE k <= l
  <2>1. level - k \in S
    BY <1>5, Zenon DEF S
  <2>2. level - l <= level - k
    BY <1>3, <1>4, <2>1, Zenon
  <2> QED
    BY <1>1, <2>2
<1>6. \E m \in LeafLevels : m <= level /\ \A k \in LeafLevels : k <= level => k <= m
  BY <1>4, <1>5, Zenon
<1>7. leaf_size(level) \in LeafLevels
  BY <1>6, Zenon DEF leaf_size
<1> QED
  BY <1>1, <1>7, Zenon

LEMMA CallStep ==
    ASSUME RadixInv, NEW c \in Calls, Call(c)
    PROVE  RadixInv'
<1> USE DEF RadixInv
<1>1. op = Idle /\ op.kind = "idle"
  BY IdleType, Zenon DEF Call
<1>2. ~starved => Full(mem)
  BY <1>1, Zenon DEF NoDeadBranch, Unfinished, Full
<1>3. CASE Fail("INVALID_ADDRESS")
  BY <1>2, <1>3, FailStep, Zenon DEF Statuses
<1>4. CASE ~Fail("INVALID_ADDRESS")
  <2> PICK level : level = leaf_size(c.level)
    BY Zenon
  <2>1. /\ c.kind \in {"map", "protect", "unmap"} /\ c.level \in 1 .. Levels
        /\ c.va \in 0 .. Space - 1 /\ c.length \in 0 .. Space - 1 /\ c.frame \in Nat
    BY CallsAssumption, Zenon
  <2>2. level \in 1 .. Levels
    BY <2>1, LeafSizeType, Zenon
  <2>3. /\ op' = [kind |-> c.kind, va |-> c.va, length |-> c.length, level |-> level,
                  frame |-> c.frame, flags |-> leaf_flags(c.prot), offset |-> 0,
                  stage |-> IF c.kind = "unmap" THEN "split_first" ELSE "leaf", prune |-> 1]
        /\ UNCHANGED <<mem, pool, answer, starved, tlb, psc>>
        /\ c.length # 0 /\ (c.kind = "unmap" => valid(c.va))
    BY <1>4, Zenon DEF Call
  <2>4. leaf_flags(c.prot) \in SUBSET FlagNames
    BY Zenon DEF leaf_flags, FlagNames
  <2>5. 1 \in 1 .. Levels
    BY FormatFacts
  <2>6. OpType'
    BY <2>1, <2>2, <2>3, <2>4, <2>5 DEF OpType
  <2>7. OpPlace'
    <3>1. op'.kind = c.kind /\ op'.va = c.va /\ op'.stage # "prune"
      BY <2>3, Zenon
    <3> QED
      BY <2>3, <3>1, Zenon DEF OpPlace, valid, Half
  <2>8. Tree' /\ Caches'
    BY <2>3, TreeKept, Zenon
  <2>9. NoDeadBranch'
    BY <1>2, <2>3, Zenon DEF Full, NoDeadBranch, LinkedIn
  <2> QED
    BY <2>6, <2>7, <2>8, <2>9, Zenon
<1> QED
  BY <1>3, <1>4, Zenon

LEMMA AccessStep ==
    ASSUME RadixInv, NEW va \in Probes, Access(va)
    PROVE  RadixInv'
<1> USE DEF RadixInv
<1>1. va \in 0 .. Space - 1
  BY CallsAssumption, Zenon
<1>2. Tree' /\ Caches'
  BY <1>1, AccessTree, Zenon
<1> PICK l, e : l = Reached(mem, va) /\ e = Used(End(mem, va))
  BY Zenon
<1>3. PICK lev \in [Tables -> 1 .. Levels] :
         TreeAt(mem, pool, lev) /\ LeafWritten(mem, mem', pool, lev, va, l, e)
  BY <1>1, AccessTree, Zenon
<1>4. /\ va \in Pages /\ e \in LeafEntries /\ UNCHANGED <<pool, op, answer, starved>>
  BY <1>1, AccessIs, Zenon
<1>5. l \in 1 .. Levels /\ index(l, va) \in Indexes
  BY <1>3, <1>4, PagesNat, EndIs, PageType, Zenon
<1>6. OpType' /\ here' = here /\ here \in 0 .. Space - 1
  BY <1>4, HereType DEF OpType, here
<1>7. ASSUME valid(here)
      PROVE  /\ Reached(mem', here) = Reached(mem, here)
             /\ Walk(mem', here)[Reached(mem, here)] = Walk(mem, here)[Reached(mem, here)]
  <2> PICK h : h = here
    BY Zenon
  <2>1. h \in Pages /\ h \in Nat
    BY <1>6, <1>7 DEF Pages
  <2>2. Reached(mem, h) \in 1 .. Levels
    BY <1>3, <2>1, EndIs, Zenon
  <2>3. Walk(mem', h)[Reached(mem, h)] = Walk(mem, h)[Reached(mem, h)]
    BY <1>3, <2>1, <2>2, Zenon DEF LeafWritten
  <2>4. CASE Page(l, h) = Page(l, va)
    BY <1>3, <2>1, <2>3, <2>4, Zenon DEF LeafWritten
  <2>5. CASE Page(l, h) # Page(l, va)
    BY <1>3, <2>1, <2>3, <2>5, Zenon DEF LeafWritten, EndKept
  <2> QED
    BY <2>4, <2>5, Zenon
<1>8. OpPlace'
  <2>1. valid(op.va)' <=> valid(op.va)
    BY <1>4, Zenon DEF valid, Half
  <2>2. valid(here)' <=> valid(here)
    BY <1>6, Zenon DEF valid, Half
  <2> QED
    BY <1>4, <1>6, <1>7, <2>1, <2>2, Zenon DEF OpPlace
<1>9. NoDeadBranch'
  <2> SUFFICES ASSUME NEW u \in Tables, LinkedIn(mem', u), mem'[u] = EmptyTable, ~starved
               PROVE  Unfinished(u)'
    BY <1>4, Zenon DEF NoDeadBranch, LinkedIn
  <2>1. u # Walk(mem, va)[l]
    <3> SUFFICES ASSUME u = Walk(mem, va)[l] PROVE FALSE
      BY Zenon
    <3>1. EmptyTable[index(l, va)] = e
      BY <1>3, Zenon DEF LeafWritten
    <3> QED
      BY <1>4, <1>5, <3>1 DEF EmptyTable, NoEntry, LeafEntries
  <2>2. mem'[u] = mem[u] /\ LinkedIn(mem, u)
    BY <1>3, <2>1, Zenon DEF LeafWritten
  <2>3. Unfinished(u)
    BY <2>2, Zenon DEF NoDeadBranch
  <2>4. valid(here)
    BY <2>3, Zenon DEF Unfinished, OpPlace
  <2>5. valid(here)' /\ (aligned(here, op.level)' <=> aligned(here, op.level))
        /\ (aligned(op.frame + op.offset, op.level)' <=> aligned(op.frame + op.offset, op.level))
    BY <1>4, <1>6, <2>4, Zenon DEF valid, Half, aligned
  <2> QED
    BY <1>4, <1>6, <1>7, <2>3, <2>4, <2>5, Zenon DEF Unfinished
<1> QED
  BY <1>2, <1>6, <1>8, <1>9
-----------------------------------------------------------------------------
(***************************************************************************)
(* The boot tables.                                                        *)
(***************************************************************************)

\* The static tables have one slot each that leads on, down to the directory with the window.
LEMMA BootTableIs ==
    ASSUME NEW l \in 2 .. Levels, NEW i \in Indexes
    PROVE  /\ BootTable(l) \in [Indexes -> EntryType]
           /\ l > 2 => BootTable(l)[i] = IF i = index(l, KernelBase)
                                         THEN table_entry(ImageTables[l - 1]) ELSE NoEntry
           /\ l = 2 => BootTable(l)[i].kind # "table"
           /\ index(l, KernelBase) \in Indexes
           /\ BootTable(l)[index(l, KernelBase)] # NoEntry
<1>1. Levels \in Nat /\ KernelBase \in Nat /\ KernelWindow \in Nat \ {0} /\ 2 \in 1 .. Levels
  BY FormatAssumption, ImageAssumption
<1>2. \A k \in 1 .. Levels, o \in Nat : index(k, KernelBase + o) \in Indexes
  BY <1>1, PageType
<1>3. KernelBase + 0 = KernelBase
  BY <1>1
<1>4. index(l, KernelBase) \in Indexes /\ index(2, KernelBase) \in Indexes
  BY <1>1, <1>2, <1>3
<1>5. CASE l > 2
  <2>1. BootTable(l) = [j \in Indexes |-> IF j = index(l, KernelBase)
                                          THEN table_entry(ImageTables[l - 1]) ELSE NoEntry]
    BY <1>5, Zenon DEF BootTable
  <2>2. ImageTables[l - 1] \in Tables
    BY <1>1, <1>5 DEF Tables, Image
  <2>3. table_entry(ImageTables[l - 1]) \in EntryType /\ NoEntry \in EntryType
    BY <2>2, Zenon DEF EntryType, TableEntries
  <2>4. table_entry(ImageTables[l - 1]) # NoEntry
    BY Zenon DEF table_entry, NoEntry
  <2> QED
    BY <1>1, <1>4, <1>5, <2>1, <2>3, <2>4
<1>6. CASE l = 2
  <2> DEFINE window(j) == \E o \in 0 .. KernelWindow - 1 : j = index(2, KernelBase + o)
  <2> DEFINE leaf(j) == leaf_entry((j - index(2, KernelBase)) * PagesAt(2), KernelFlags)
  <2>1. BootTable(l) = [j \in Indexes |-> IF window(j) THEN leaf(j) ELSE NoEntry]
    <3>1. ~(l > 2)
      BY <1>6
    <3> QED
      BY <3>1, Zenon DEF BootTable
  <2>2. ASSUME NEW j \in Indexes, window(j) PROVE leaf(j) \in LeafEntries
    <3>1. index(2, KernelBase) <= j
      BY <2>2, ImageAssumption, Zenon
    <3>2. j - index(2, KernelBase) \in Nat
      BY <1>4, <3>1, FormatFacts DEF Indexes
    <3>3. (j - index(2, KernelBase)) * PagesAt(2) \in Nat
      BY <1>1, <3>2, FormatFacts
    <3>4. KernelFlags \in SUBSET FlagNames
      BY Zenon DEF KernelFlags, leaf_flags, FlagNames
    <3> QED
      BY <3>3, <3>4, Zenon DEF leaf_entry, LeafEntries
  <2>3. window(index(2, KernelBase))
    BY <1>1, <1>3
  <2> HIDE DEF window, leaf
  <2>4. BootTable(l) \in [Indexes -> EntryType]
    BY <2>1, <2>2, Zenon DEF EntryType
  <2>5. BootTable(l)[i].kind # "table"
    <3>1. leaf(i).kind = "leaf"
      BY Zenon DEF leaf, leaf_entry
    <3>2. NoEntry.kind = "none"
      BY Zenon DEF NoEntry
    <3> QED
      BY <2>1, <3>1, <3>2, Zenon
  <2>6. BootTable(l)[index(2, KernelBase)] # NoEntry
    <3>1. BootTable(l)[index(2, KernelBase)] = leaf(index(2, KernelBase))
      BY <1>4, <2>1, <2>3, Zenon
    <3>2. leaf(index(2, KernelBase)).kind = "leaf" /\ NoEntry.kind = "none"
      BY Zenon DEF leaf, leaf_entry, NoEntry
    <3> QED
      BY <3>1, <3>2, Zenon
  <2> QED
    BY <1>4, <1>6, <2>4, <2>5, <2>6
<1> QED
  BY <1>1, <1>5, <1>6

LEMMA InitTree ==
    ASSUME Init
    PROVE  Tree /\ Full(mem)
<1> DEFINE lev == [t \in Tables |-> IF t \in Image THEN CHOOSE l \in 2 .. Levels : ImageTables[l] = t
                                    ELSE 1]
<1>1. Levels \in Nat /\ Levels > 1 /\ Frames \subseteq Tables /\ Image \subseteq Tables
  BY FormatAssumption, Zenon DEF Tables
<1>2. ASSUME NEW l \in 2 .. Levels
      PROVE  /\ ImageTables[l] \in Image /\ ImageTables[l] \in Tables
             /\ lev[ImageTables[l]] = l /\ mem[ImageTables[l]] = BootTable(l)
  <2>1. ImageTables[l] \in Image /\ ImageTables[l] \in Tables
    BY Zenon DEF Image, Tables
  <2>2. (CHOOSE k \in 2 .. Levels : ImageTables[k] = ImageTables[l]) = l
    BY ImageAssumption, Zenon
  <2> QED
    BY <2>1, <2>2, Zenon DEF Init
<1>3. ASSUME NEW t \in Frames PROVE mem[t] = EmptyTable /\ t \notin Image
  <2>1. t \notin Image /\ t \in Tables
    BY <1>1, ImageAssumption, Zenon
  <2> QED
    BY <2>1, Zenon DEF Init
<1>4. ASSUME NEW t \in Tables, t \notin Frames PROVE \E l \in 2 .. Levels : t = ImageTables[l]
  BY <1>4, Zenon DEF Tables, Image
<1>5. lev \in [Tables -> 1 .. Levels] /\ lev[Root] = Levels
  <2>1. ASSUME NEW t \in Tables PROVE lev[t] \in 1 .. Levels
    <3>1. CASE t \in Frames
      BY <1>1, <1>3, <3>1
    <3>2. CASE t \notin Frames
      <4>1. PICK l \in 2 .. Levels : t = ImageTables[l]
        BY <1>4, <3>2, Zenon
      <4>2. lev[t] = l
        BY <1>2, <4>1, Zenon
      <4>3. l \in 1 .. Levels
        BY <1>1
      <4> QED
        BY <4>2, <4>3, Zenon
    <3> QED
      BY <3>1, <3>2, Zenon
  <2>2. lev[Root] = Levels
    <3>1. Levels \in 2 .. Levels
      BY <1>1
    <3> QED
      BY <1>2, <3>1, Zenon DEF Root
  <2>3. lev = [t \in Tables |-> lev[t]]
    OBVIOUS
  <2> QED
    BY <2>1, <2>2, <2>3, Zenon
<1> HIDE DEF lev
<1>6. ASSUME NEW t \in Tables, NEW i \in Indexes, NEW u \in Tables, mem[t][i] = table_entry(u)
      PROVE  \E l \in 3 .. Levels : /\ t = ImageTables[l] /\ u = ImageTables[l - 1]
                                    /\ i = index(l, KernelBase)
  <2>1. table_entry(u).kind = "table" /\ NoEntry.kind = "none"
    BY Zenon DEF table_entry, NoEntry
  <2>2. t \notin Frames
    <3> SUFFICES ASSUME t \in Frames PROVE FALSE
      BY Zenon
    <3>1. mem[t][i] = NoEntry
      BY <1>3, Zenon DEF EmptyTable
    <3> QED
      BY <1>6, <2>1, <3>1, Zenon
  <2>3. PICK l \in 2 .. Levels : t = ImageTables[l]
    BY <1>4, <2>2, Zenon
  <2>4. mem[t] = BootTable(l)
    BY <1>2, <2>3, Zenon
  <2>5. l > 2
    <3>1. l # 2
      BY <1>6, <2>1, <2>4, BootTableIs, Zenon
    <3> QED
      BY <1>1, <3>1
  <2>6. mem[t][i] = IF i = index(l, KernelBase) THEN table_entry(ImageTables[l - 1]) ELSE NoEntry
    BY <2>4, <2>5, BootTableIs, Zenon
  <2>7. i = index(l, KernelBase)
    BY <1>6, <2>1, <2>6, Zenon
  <2>8. u = ImageTables[l - 1]
    BY <1>6, <2>6, <2>7, TableEntryTo, Zenon
  <2>9. l \in 3 .. Levels
    BY <1>1, <2>5
  <2> QED
    BY <2>3, <2>7, <2>8, <2>9, Zenon
<1>7. mem \in Contents
  <2>1. ASSUME NEW t \in Tables PROVE mem[t] \in [Indexes -> EntryType]
    <3>1. CASE t \in Frames
      BY <1>3, <3>1, Zenon DEF EmptyTable, EntryType
    <3>2. CASE t \notin Frames
      <4>1. PICK l \in 2 .. Levels : t = ImageTables[l]
        BY <1>4, <3>2, Zenon
      <4>2. mem[t] = BootTable(l)
        BY <1>2, <4>1, Zenon
      <4>3. Indexes # {}
        BY FormatFacts DEF Indexes
      <4> QED
        BY <4>2, <4>3, BootTableIs, Zenon
    <3> QED
      BY <3>1, <3>2, Zenon
  <2> DEFINE boot(t) == IF t \in Image THEN BootTable(CHOOSE l \in 2 .. Levels : ImageTables[l] = t)
                        ELSE EmptyTable
  <2>2. mem = [t \in Tables |-> boot(t)]
    BY Zenon DEF Init
  <2> HIDE DEF boot
  <2> QED
    BY <2>1, <2>2, Zenon DEF Contents
<1>8. LevelsOf(mem, lev)
  <2> SUFFICES ASSUME NEW t \in Tables, NEW i \in Indexes, NEW u \in Tables, mem[t][i] = table_entry(u)
               PROVE  lev[t] = lev[u] + 1
    BY <1>5, Zenon DEF LevelsOf
  <2>1. PICK l \in 3 .. Levels : t = ImageTables[l] /\ u = ImageTables[l - 1]
    BY <1>6
  <2>2. l \in 2 .. Levels /\ l - 1 \in 2 .. Levels
    BY <1>1
  <2>3. lev[t] = l /\ lev[u] = l - 1
    BY <1>2, <2>1, <2>2, Zenon
  <2> QED
    BY <2>2, <2>3
<1>9. Once(mem)
  <2> SUFFICES ASSUME NEW t \in Tables, NEW s \in Tables, NEW i \in Indexes, NEW j \in Indexes,
                      NEW u \in Tables, mem[t][i] = table_entry(u), mem[s][j] = table_entry(u)
               PROVE  t = s /\ i = j
    BY DEF Once
  <2>1. PICK k \in 3 .. Levels : /\ t = ImageTables[k] /\ u = ImageTables[k - 1]
                                 /\ i = index(k, KernelBase)
    BY <1>6
  <2>2. PICK l \in 3 .. Levels : /\ s = ImageTables[l] /\ u = ImageTables[l - 1]
                                 /\ j = index(l, KernelBase)
    BY <1>6
  <2>3. k - 1 \in 2 .. Levels /\ l - 1 \in 2 .. Levels
    BY <1>1
  <2>4. k - 1 = l - 1
    BY <2>1, <2>2, <2>3, ImageAssumption, Zenon
  <2>5. k = l
    BY <2>4
  <2> QED
    BY <2>1, <2>2, <2>5, Zenon
<1>10. ASSUME NEW u \in Tables, LinkedIn(mem, u)
       PROVE  /\ u \notin pool /\ u # Root
              /\ \E l \in 2 .. Levels : u = ImageTables[l]
  <2>1. PICK l \in 3 .. Levels : u = ImageTables[l - 1]
    BY <1>6, <1>10 DEF LinkedIn
  <2>2. l - 1 \in 2 .. Levels /\ l - 1 # Levels /\ Levels \in 2 .. Levels
    BY <1>1
  <2>3. u # Root
    BY <2>1, <2>2, ImageAssumption, Zenon DEF Root
  <2>4. u \in Image /\ pool = Frames
    BY <1>2, <2>1, <2>2, Zenon DEF Init
  <2>5. u \notin pool
    BY <1>3, <2>4, Zenon
  <2> QED
    BY <2>1, <2>2, <2>3, <2>5, Zenon
<1>11. ASSUME NEW u \in Tables, u # Root, ~LinkedIn(mem, u) PROVE mem[u] = EmptyTable
  <2>1. CASE u \in Frames
    BY <1>3, <2>1, Zenon
  <2>2. CASE u \notin Frames
    <3>1. PICK l \in 2 .. Levels : u = ImageTables[l]
      BY <1>4, <2>2, Zenon
    <3>2. l # Levels
      BY <1>11, <3>1, Zenon DEF Root
    <3>3. PICK k \in 2 .. Levels : k = l + 1 /\ k > 2 /\ k - 1 = l
      BY <1>1, <3>2
    <3>4. index(k, KernelBase) \in Indexes
      <4>1. k \in 1 .. Levels /\ KernelBase \in Nat
        BY <1>1, ImageAssumption
      <4> QED
        BY <4>1, PageType, Zenon
    <3>5. mem[ImageTables[k]] = BootTable(k) /\ ImageTables[k] \in Tables
      BY <1>2, Zenon
    <3>6. BootTable(k)[index(k, KernelBase)] = table_entry(ImageTables[k - 1])
      BY <3>3, <3>4, BootTableIs, Zenon
    <3>7. mem[ImageTables[k]][index(k, KernelBase)] = table_entry(u)
      BY <3>1, <3>3, <3>5, <3>6, Zenon
    <3> QED
      BY <1>11, <3>4, <3>5, <3>7, Zenon DEF LinkedIn
  <2> QED
    BY <2>1, <2>2, Zenon
<1>12. Full(mem)
  <2> SUFFICES ASSUME NEW u \in Tables, LinkedIn(mem, u) PROVE mem[u] # EmptyTable
    BY Zenon DEF Full
  <2>1. PICK l \in 2 .. Levels : u = ImageTables[l]
    BY <1>10, Zenon
  <2>2. mem[u] = BootTable(l)
    BY <1>2, <2>1, Zenon
  <2>3. Indexes # {}
    BY FormatFacts DEF Indexes
  <2>4. index(l, KernelBase) \in Indexes /\ BootTable(l)[index(l, KernelBase)] # NoEntry
    BY <2>3, BootTableIs, Zenon
  <2> QED
    BY <2>2, <2>4, Zenon DEF EmptyTable
<1>13. pool = Frames
  BY Zenon DEF Init
<1>14. TreeAt(mem, pool, lev)
  BY <1>7, <1>8, <1>9, <1>10, <1>11, <1>13, Zenon DEF TreeAt
<1> QED
  BY <1>5, <1>12, <1>14, Zenon DEF Tree

LEMMA InitInv == Init => RadixInv
<1> SUFFICES ASSUME Init PROVE RadixInv
  BY Zenon
<1>1. Tree /\ Full(mem)
  BY InitTree, Zenon
<1>2. op = Idle /\ answer = Answer("none") /\ starved = FALSE /\ tlb = {} /\ psc = {}
  BY Zenon DEF Init
<1>3. answer \in [status : Statuses, frame : Nat, pages : Nat]
  BY <1>2, Zenon DEF Answer, Statuses
<1>4. OpType /\ OpPlace
  BY <1>2, <1>3, IdleType, Zenon DEF OpType, OpPlace, Statuses
<1>5. NoDeadBranch /\ Caches
  BY <1>1, <1>2, FullIsEnough, Zenon DEF Caches
<1> QED
  BY <1>1, <1>4, <1>5, Zenon DEF RadixInv

LEMMA NextInv == RadixInv /\ [Next]_vars => RadixInv'
<1> SUFFICES ASSUME RadixInv, [Next]_vars PROVE RadixInv'
  BY Zenon
<1>1. CASE \E c \in Calls : Call(c)
  BY <1>1, CallStep, Zenon
<1>2. CASE map_leaf
  BY <1>2, MapStep, Zenon
<1>3. CASE protect_leaf
  BY <1>3, ProtectStep
<1>4. CASE split_boundary
  BY <1>4, SplitStep, Zenon
<1>5. CASE remove_leaf
  BY <1>5, RemoveStep, Zenon
<1>6. CASE prune
  BY <1>6, PruneStep, Zenon
<1>7. CASE \E va \in Probes : Access(va)
  BY <1>7, AccessStep, Zenon
<1>8. CASE UNCHANGED vars
  <2>1. UNCHANGED <<mem, pool, op, answer, starved, tlb, psc>>
    BY <1>8, Zenon DEF vars
  <2>2. Tree' /\ Caches'
    BY <2>1, TreeKept, Zenon DEF RadixInv
  <2>3. OpType'
    BY <2>1, Zenon DEF RadixInv, OpType
  <2>4. here' = here /\ (valid(here)' <=> valid(here)) /\ (valid(op.va)' <=> valid(op.va))
    BY <2>1, Zenon DEF here, valid, Half
  <2>5. OpPlace'
    BY <2>1, <2>4, Zenon DEF RadixInv, OpPlace
  <2>6. (aligned(here, op.level)' <=> aligned(here, op.level))
        /\ (aligned(op.frame + op.offset, op.level)' <=> aligned(op.frame + op.offset, op.level))
    BY <2>1, <2>4, Zenon DEF aligned
  <2>7. NoDeadBranch'
    BY <2>1, <2>4, <2>6, Zenon DEF RadixInv, NoDeadBranch, Unfinished, LinkedIn
  <2> QED
    BY <2>2, <2>3, <2>5, <2>7, Zenon DEF RadixInv
<1> QED
  BY <1>1, <1>2, <1>3, <1>4, <1>5, <1>6, <1>7, <1>8 DEF Next, Step
-----------------------------------------------------------------------------
(***************************************************************************)
(* What the invariant shows.                                               *)
(***************************************************************************)

LEMMA InvType == RadixInv => TypeOK
<1> SUFFICES ASSUME RadixInv PROVE TypeOK
  BY Zenon
<1> PICK lev : TreeAt(mem, pool, lev)
  BY Zenon DEF RadixInv, Tree
<1>1. mem \in Contents /\ pool \subseteq Frames
  BY Zenon DEF TreeAt
<1>2. \A t \in Tables : DOMAIN mem[t] = Indexes
  BY <1>1, Zenon DEF Contents
<1>3. ASSUME NEW t \in Tables, NEW i \in Indexes, NEW e, e = mem[t][i]
      PROVE  \/ e = NoEntry
             \/ \E u \in Tables : e = table_entry(u)
             \/ e.kind = "leaf" /\ e.to \in Nat /\ e.accessed \in BOOLEAN
  <2>1. e \in EntryType
    BY <1>1, <1>3, ContentsType, Zenon
  <2> QED
    BY <2>1, Zenon DEF EntryType, TableEntries, LeafEntries
<1>4. /\ op.kind \in {"idle", "map", "protect", "unmap"}
      /\ op.stage \in {"leaf", "split_first", "grow_first", "split_end", "grow_end", "prune"}
      /\ op.offset \in Nat /\ (op.kind # "idle" => op.offset < op.length) /\ op.prune \in 1 .. Levels
      /\ answer.status \in {"none", "ok", "removed", "OUT_OF_MEMORY", "INVALID_ADDRESS",
                            "NOT_MAPPED", "CONFLICT"}
      /\ starved \in BOOLEAN
  BY Zenon DEF RadixInv, OpType
<1>5. psc \subseteq Tables
  BY Zenon DEF RadixInv, Caches
<1> QED
  BY <1>1, <1>2, <1>3, <1>4, <1>5, Zenon DEF TypeOK

LEMMA InvTree == RadixInv => TablesFormTree
<1> SUFFICES ASSUME RadixInv PROVE TablesFormTree
  BY Zenon
<1> PICK lev : TreeAt(mem, pool, lev)
  BY Zenon DEF RadixInv, Tree
<1>1. ASSUME NEW t \in Tables, LinkedIn(mem, t)
      PROVE  (\E k \in References(t) : References(t) = {k}) /\ t \notin pool \cup {Root}
  <2>1. PICK s \in Tables, i \in Indexes : mem[s][i] = table_entry(t)
    BY <1>1, Zenon DEF LinkedIn
  <2>2. <<s, i>> \in References(t)
    BY <2>1, Zenon DEF References
  <2>3. ASSUME NEW k \in References(t) PROVE k = <<s, i>>
    <3>1. PICK v \in Tables, j \in Indexes : k = <<v, j>> /\ mem[v][j] = table_entry(t)
      BY DEF References
    <3>2. v = s /\ j = i
      BY <2>1, <3>1 DEF TreeAt, Once
    <3> QED
      BY <3>1, <3>2, Zenon
  <2>4. References(t) = {<<s, i>>}
    BY <2>2, <2>3, Zenon
  <2>5. \E k \in References(t) : References(t) = {k}
    BY <2>2, <2>4, Zenon
  <2> QED
    BY <1>1, <2>5, Zenon DEF TreeAt
<1>2. ASSUME NEW u \in Frames \ pool
      PROVE  \E va \in Pages, l \in 1 .. Levels : path(va)[l] = u /\ LinkedIn(mem, u)
  <2>1. PICK va \in Pages, l \in 1 .. Levels : Walk(mem, va)[l] = u
    BY <1>2, Zenon DEF TreeAt
  <2>2. u # None /\ u # Root /\ va \in Nat
    BY RootFacts, PagesNat, Zenon
  <2>3. LinkedIn(mem, u)
    BY <2>1, <2>2, OnWalk
  <2> QED
    BY <2>1, <2>3, PathIsWalk, Zenon
<1>3. ASSUME NEW t \in Tables, ~LinkedIn(mem, t)
      PROVE  References(t) = {} /\ t \in pool \cup Image
  <2>1. References(t) = {}
    BY <1>3, Zenon DEF References, LinkedIn
  <2>2. t \in pool \cup Image
    BY <1>2, <1>3, Zenon DEF Tables
  <2> QED
    BY <2>1, <2>2, Zenon
<1>4. Frames \ pool \subseteq UNION {TablesAt(l) : l \in 1 .. Levels}
  <2> SUFFICES ASSUME NEW u \in Frames \ pool
               PROVE  \E l \in 1 .. Levels : u \in TablesAt(l)
    BY Zenon
  <2>1. PICK va \in Pages, l \in 1 .. Levels : path(va)[l] = u
    BY <1>2, Zenon
  <2>2. u # None
    BY RootFacts, Zenon
  <2> QED
    BY <2>1, <2>2, Zenon DEF TablesAt
<1> QED
  BY <1>1, <1>3, <1>4, Zenon DEF TablesFormTree

LEMMA InvNoEmpty == RadixInv => NoEmptyTables
<1> SUFFICES ASSUME RadixInv, op = Idle, ~starved, NEW l \in 1 .. Levels - 1, NEW t \in TablesAt(l)
             PROVE  ~is_table_empty(t)
  BY Zenon DEF NoEmptyTables
<1> PICK lev : TreeAt(mem, pool, lev)
  BY Zenon DEF RadixInv, Tree
<1>1. PICK va \in Pages : t = path(va)[l] /\ t # None
  BY Zenon DEF TablesAt
<1>2. t = Walk(mem, va)[l] /\ va \in Nat /\ l \in 1 .. Levels /\ l # Levels
  BY <1>1, PathIsWalk, PagesNat, FormatFacts
<1>3. t \in Tables /\ LinkedIn(mem, t)
  BY <1>1, <1>2, OnWalk
<1>4. ~Unfinished(t)
  BY IdleType, Zenon DEF Unfinished
<1> QED
  BY <1>3, <1>4, Zenon DEF RadixInv, NoDeadBranch, is_table_empty

\* In every state the kernel can reach, however its calls of map_range, protect_range and
\* unmap_range succeed or fail, the page tables are a tree in which every frame taken from
\* the allocator is linked exactly once, and when no operation is in progress walk and prune
\* have left no empty table in it, unless alloc_table failed.
THEOREM PageTablesSound == Spec => []TablesSound
<1>1. RadixInv => TablesSound
  BY InvType, InvTree, InvNoEmpty, Zenon DEF TablesSound
<1> QED
  BY <1>1, InitInv, NextInv, PTL DEF Spec

\* Whenever the processor fills its caches, replace and prune flush them in time: a cached
\* leaf translates every address of its page as the tables do, and no table that prune has
\* given back to the frame allocator is still remembered.
THEOREM CachesCoherent == Spec => []NoStaleTranslation
<1>1. RadixInv => NoStaleTranslation
  <2> SUFFICES ASSUME RadixInv PROVE NoStaleTranslation
    BY Zenon
  <2> PICK lev : TreeAt(mem, pool, lev)
    BY Zenon DEF RadixInv, Tree
  <2>1. NoStaleLeaf
    <3> SUFFICES ASSUME NEW c \in tlb, NEW k \in 0 .. PagesAt(c.level) - 1
                 PROVE  translate(c.page + k) = [frame |-> c.frame + k, flags |-> c.flags]
      BY Zenon DEF NoStaleLeaf
    <3>1. Cached(mem, c)
      BY Zenon DEF RadixInv, Caches
    <3>2. Translation(mem, c.page + k) = [frame |-> c.frame + k, flags |-> c.flags]
      BY <3>1, CachedIsTranslation, Zenon
    <3> QED
      BY <3>2, TranslateIs, Zenon
  <2>2. NoStaleTable
    BY Zenon DEF RadixInv, Caches, NoStaleTable
  <2> QED
    BY <2>1, <2>2, Zenon DEF NoStaleTranslation
<1> QED
  BY <1>1, InitInv, NextInv, PTL DEF Spec
=============================================================================
