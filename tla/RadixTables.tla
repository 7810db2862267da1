---------------------------- MODULE RadixTables -----------------------------
(***************************************************************************)
(* What the steps of RadixTree do to the tables: the changes a step may    *)
(* make and what they do to the walks, the inductive invariant of the      *)
(* tables, and the actions, branch by branch, as such changes.             *)
(***************************************************************************)
EXTENDS RadixPaths

-----------------------------------------------------------------------------
(***************************************************************************)
(* Trees of tables.                                                        *)
(***************************************************************************)
LinkedIn(m, u) == \E t \in Tables, i \in Indexes : m[t][i] = table_entry(u)

\* The contents m of the tables are a tree, with pl the frames outside it.
TreeAt(m, pl, lev) ==
    /\ m \in Contents /\ pl \subseteq Frames /\ LevelsOf(m, lev) /\ Once(m)
    /\ \A u \in Tables : LinkedIn(m, u) => u \notin pl /\ u # Root
    /\ \A u \in Tables : u # Root /\ ~LinkedIn(m, u) => m[u] = EmptyTable
    /\ \A u \in Frames \ pl : \E va \in Pages, l \in 1 .. Levels : Walk(m, va)[l] = u
-----------------------------------------------------------------------------
(***************************************************************************)
(* The tables on a walk.                                                   *)
(***************************************************************************)

LEMMA OnWalk ==
    ASSUME NEW m, NEW pl, NEW lev, TreeAt(m, pl, lev), NEW va \in Nat, NEW l \in 1 .. Levels,
           Walk(m, va)[l] # None
    PROVE  /\ Walk(m, va)[l] \in Tables \ pl /\ lev[Walk(m, va)[l]] = l
           /\ index(l, va) \in Indexes /\ Slot(m, va, l) \in EntryType
           /\ l = Levels <=> Walk(m, va)[l] = Root
           /\ Walk(m, va)[l] = Root \/ LinkedIn(m, Walk(m, va)[l])
           /\ l < Levels => /\ Walk(m, va)[l + 1] # None /\ Walk(m, va)[l + 1] \in Tables
                            /\ index(l + 1, va) \in Indexes
                            /\ Slot(m, va, l + 1) = table_entry(Walk(m, va)[l])
<1> DEFINE w == Walk(m, va)[l]
<1>1. Levels \in Nat /\ Levels > 1
  BY FormatFacts, Zenon
<1>2. m \in Contents /\ LevelsOf(m, lev)
  BY Zenon DEF TreeAt
<1>3. w \in Tables /\ lev[w] = l
  BY <1>2, WalkTables
<1>4. index(l, va) \in Indexes
  BY PageType, Zenon
<1>5. Slot(m, va, l) \in EntryType
  BY <1>2, <1>3, <1>4, ContentsType, Zenon DEF Slot
<1>6. l = Levels => w = Root
  BY WalkIs, Zenon
<1>7. w = Root => l = Levels
  BY <1>2, <1>3, Zenon DEF LevelsOf
<1>8. ASSUME l < Levels
      PROVE  /\ Walk(m, va)[l + 1] # None /\ Walk(m, va)[l + 1] \in Tables
             /\ index(l + 1, va) \in Indexes /\ Slot(m, va, l + 1) = table_entry(w)
             /\ LinkedIn(m, w)
  <2>1. l \in 1 .. Levels - 1 /\ l + 1 \in 1 .. Levels
    BY <1>1, <1>8
  <2>2. Walk(m, va)[l + 1] # None /\ Slot(m, va, l + 1) = table_entry(w)
    BY <1>2, <2>1, WalkLink, Zenon
  <2>3. Walk(m, va)[l + 1] \in Tables /\ index(l + 1, va) \in Indexes
    BY <1>2, <2>1, <2>2, WalkTables, PageType, Zenon
  <2> QED
    BY <2>2, <2>3, Zenon DEF LinkedIn, Slot
<1>9. w \notin pl
  BY <1>3, <1>6, <1>8, <1>1, RootFacts DEF TreeAt
<1> QED
  BY <1>1, <1>3, <1>4, <1>5, <1>6, <1>7, <1>8, <1>9

\* A change of the tables that keeps every link, or every link but the one to an empty table u,
\* keeps each walk as far down as it went, or as far as u.
LEMMA LinksKept ==
    ASSUME NEW m, NEW pl, NEW lev, TreeAt(m, pl, lev), NEW n, NEW u,
           u \in Tables => m[u] = EmptyTable,
           \A s \in Tables \ pl, j \in Indexes, v \in Tables \ {u} :
              m[s][j] = table_entry(v) => n[s][j] = m[s][j],
           NEW va \in Nat, NEW l \in 1 .. Levels, Walk(m, va)[l] \notin {None, u}
    PROVE  \A k \in l .. Levels : Walk(n, va)[k] = Walk(m, va)[k]
<1> DEFINE W == Walk(m, va)
<1>1. Levels \in Nat /\ Levels > 1 /\ m \in Contents /\ LevelsOf(m, lev)
  BY FormatFacts, Zenon DEF TreeAt
<1>2. ASSUME NEW k \in l + 1 .. Levels PROVE Below(n, W[k], index(k, va)) = Below(m, W[k], index(k, va))
  <2>1. k - 1 \in l .. Levels /\ k - 1 < Levels /\ (k - 1) + 1 = k /\ k \in l .. Levels
        /\ k \in 1 .. Levels /\ k - 1 \in 1 .. Levels
    BY <1>1
  <2>2. W[k - 1] # None /\ W[k] # None
    BY <1>1, <2>1, WalkAbove, Zenon
  <2>3. PICK s \in Tables \ pl, j \in Indexes, v \in Tables :
           s = W[k] /\ j = index(k, va) /\ v = W[k - 1] /\ m[s][j] = table_entry(v)
    BY <2>1, <2>2, OnWalk DEF Slot
  <2>4. v # u
    <3>1. CASE k - 1 = l
      BY <2>3, <3>1, Zenon
    <3>2. CASE k - 1 > l
      <4>1. k - 2 \in l .. Levels /\ k - 2 \in 1 .. Levels /\ k - 2 < Levels /\ (k - 2) + 1 = k - 1
        BY <1>1, <3>2
      <4>2. W[k - 2] # None
        BY <1>1, <4>1, WalkAbove, Zenon
      <4>3. Slot(m, va, k - 1) = table_entry(W[k - 2]) /\ index(k - 1, va) \in Indexes
        BY <4>1, <4>2, OnWalk
      <4>4. m[v][index(k - 1, va)] # NoEntry
        BY <2>3, <4>3 DEF Slot, table_entry, NoEntry
      <4> QED
        BY <4>3, <4>4 DEF EmptyTable
    <3> QED
      BY <2>1, <3>1, <3>2
  <2>5. n[s][j] = m[s][j]
    BY <2>3, <2>4, Zenon
  <2> QED
    BY <2>3, <2>5, Zenon DEF Below
<1> QED
  BY <1>2, WalkKept

-----------------------------------------------------------------------------
(***************************************************************************)
(* The three changes of the tables: a slot without a table is written, a   *)
(* new table is linked, an empty table is unlinked.                        *)
(***************************************************************************)

LEMMA PagesNat == \A va \in Pages : va \in Nat /\ va \in 0 .. Space - 1 /\ valid(va)
  BY FormatFacts DEF Pages

LEMMA TableEntryTo == \A u, v : table_entry(u) = table_entry(v) => u = v
<1>1. \A u : table_entry(u).to = u
  BY Zenon DEF table_entry
<1> QED
  BY <1>1

Put(m, t, i, e) == [m EXCEPT ![t][i] = e]
Link(m, t, i, c, x) == [Put(m, t, i, table_entry(c)) EXCEPT ![c] = x]

LEMMA PutIs ==
    ASSUME NEW m \in Contents, NEW t \in Tables, NEW i \in Indexes, NEW e \in EntryType, NEW n,
           n = Put(m, t, i, e)
    PROVE  /\ n \in Contents
           /\ n[t][i] = e
           /\ \A s \in Tables, j \in Indexes : s # t \/ j # i => n[s][j] = m[s][j]
           /\ \A s \in Tables : s # t => n[s] = m[s]
<1>1. m \in [Tables -> [Indexes -> EntryType]]
  BY Zenon DEF Contents
<1>2. \A s \in Tables : n[s] = IF s = t THEN [m[t] EXCEPT ![i] = e] ELSE m[s]
  BY <1>1, Zenon DEF Put
<1>3. m[t] \in [Indexes -> EntryType] /\ n[t] \in [Indexes -> EntryType]
  BY <1>1, <1>2, Zenon
<1>4. n[t][i] = e /\ \A j \in Indexes : j # i => n[t][j] = m[t][j]
  BY <1>2, <1>3, Zenon
<1>5. n \in Contents
  BY <1>1, <1>3, Zenon DEF Contents, Put
<1> QED
  BY <1>2, <1>4, <1>5, Zenon

LEMMA WriteLeaf ==
    ASSUME NEW m, NEW pl, NEW lev, TreeAt(m, pl, lev), NEW t \in Tables, NEW i \in Indexes,
           t = Root \/ LinkedIn(m, t), m[t][i].kind # "table",
           NEW e \in {NoEntry} \cup LeafEntries, NEW n, n = Put(m, t, i, e)
    PROVE  /\ TreeAt(n, pl, lev)
           /\ \A u \in Tables : LinkedIn(n, u) <=> LinkedIn(m, u)
           /\ \A va \in Nat, l \in 1 .. Levels : Walk(n, va)[l] = Walk(m, va)[l]
<1>1. Levels \in Nat /\ Levels > 1 /\ m \in Contents /\ LevelsOf(m, lev) /\ Once(m)
  BY FormatFacts, Zenon DEF TreeAt
<1>2. e \in EntryType /\ e.kind # "table" /\ \A u : e # table_entry(u)
  BY DEF EntryType, LeafEntries, NoEntry, table_entry
<1>3. /\ n \in Contents /\ n[t][i] = e
      /\ \A s \in Tables, j \in Indexes : s # t \/ j # i => n[s][j] = m[s][j]
      /\ \A s \in Tables : s # t => n[s] = m[s]
  BY <1>1, <1>2, PutIs
<1>4. \A u : m[t][i] # table_entry(u)
  BY DEF table_entry
<1>5. ASSUME NEW s \in Tables, NEW j \in Indexes, NEW u
      PROVE  n[s][j] = table_entry(u) <=> m[s][j] = table_entry(u)
  BY <1>2, <1>3, <1>4, Zenon
<1>6. \A u \in Tables : LinkedIn(n, u) <=> LinkedIn(m, u)
  BY <1>5 DEF LinkedIn
<1>7. LevelsOf(n, lev) /\ Once(n)
  BY <1>1, <1>5 DEF LevelsOf, Once
<1>8. ASSUME NEW va \in Nat, NEW l \in 1 .. Levels PROVE Walk(n, va)[l] = Walk(m, va)[l]
  <2>1. ASSUME NEW k \in l + 1 .. Levels
        PROVE  Below(n, Walk(m, va)[k], index(k, va)) = Below(m, Walk(m, va)[k], index(k, va))
    <3>1. k \in 1 .. Levels
      BY <1>1
    <3>2. index(k, va) \in Indexes /\ (Walk(m, va)[k] # None => Walk(m, va)[k] \in Tables)
      BY <1>1, <3>1, WalkTables, PageType, Zenon
    <3> QED
      BY <1>2, <1>3, <3>2, Zenon DEF Below
  <2>2. l \in l .. Levels
    BY <1>1
  <2>3. \A k \in l .. Levels : Walk(n, va)[k] = Walk(m, va)[k]
    BY <2>1, WalkKept
  <2> QED
    BY <2>2, <2>3, Zenon
<1>9. \A u \in Tables : LinkedIn(n, u) => u \notin pl /\ u # Root
  BY <1>6, Zenon DEF TreeAt
<1>10. \A u \in Tables : u # Root /\ ~LinkedIn(n, u) => n[u] = EmptyTable
  BY <1>3, <1>6, Zenon DEF TreeAt
<1>11. \A u \in Frames \ pl : \E va \in Pages, l \in 1 .. Levels : Walk(n, va)[l] = u
  <2>1. SUFFICES ASSUME NEW u \in Frames \ pl
                 PROVE  \E va \in Pages, l \in 1 .. Levels : Walk(n, va)[l] = u
    BY Zenon
  <2>2. PICK va \in Pages, l \in 1 .. Levels : Walk(m, va)[l] = u
    BY Zenon DEF TreeAt
  <2>3. Walk(n, va)[l] = u
    BY <1>8, <2>2, PagesNat, Zenon
  <2> QED
    BY <2>3, Zenon
<1>12. pl \subseteq Frames
  BY Zenon DEF TreeAt
<1>13. TreeAt(n, pl, lev)
  BY <1>3, <1>7, <1>9, <1>10, <1>11, <1>12, Zenon DEF TreeAt
<1> QED
  BY <1>6, <1>8, <1>13, Zenon

\* The table c, with contents x, is new below slot i of table t, which is at level l.
LinkedBelow(m, n, pl, t, i, l, c, x) ==
    /\ \E lv \in [Tables -> 1 .. Levels] : TreeAt(n, pl \ {c}, lv)
    /\ \A u \in Tables : LinkedIn(n, u) <=> LinkedIn(m, u) \/ u = c
    /\ \A wa \in Nat, k \in 1 .. Levels : Walk(m, wa)[k] # None => Walk(n, wa)[k] = Walk(m, wa)[k]
    /\ \A wa \in Nat : Walk(m, wa)[l] = t /\ index(l, wa) = i => Walk(n, wa)[l - 1] = c
    /\ c \in Tables /\ n[c] = x
    /\ \A s \in Tables \ {c}, j \in Indexes : s # t \/ j # i => n[s][j] = m[s][j]

LEMMA LinkTable ==
    ASSUME NEW m, NEW pl, NEW lev, TreeAt(m, pl, lev),
           NEW va \in Pages, NEW l \in 2 .. Levels, Walk(m, va)[l] # None,
           Slot(m, va, l).kind # "table", NEW c \in pl,
           NEW x \in [Indexes -> {NoEntry} \cup LeafEntries], NEW n,
           n = Link(m, Walk(m, va)[l], index(l, va), c, x)
    PROVE  LinkedBelow(m, n, pl, Walk(m, va)[l], index(l, va), l, c, x)
<1>1. Levels \in Nat /\ Levels > 1 /\ m \in Contents /\ LevelsOf(m, lev) /\ Once(m) /\ va \in Nat
      /\ l \in 1 .. Levels
  BY FormatFacts DEF TreeAt, Pages
<1>2. PICK t : t = Walk(m, va)[l]
  BY Zenon
<1>3. t \in Tables \ pl /\ lev[t] = l /\ (t = Root \/ LinkedIn(m, t))
  BY <1>1, <1>2, OnWalk
<1>4. PICK i \in Indexes : i = index(l, va)
  BY <1>1, PageType, Zenon
<1>5. m[t][i].kind # "table" /\ \A u : m[t][i] # table_entry(u)
  BY <1>2, <1>4 DEF Slot, table_entry
<1>6. c \in Tables /\ c # t /\ c # Root /\ ~LinkedIn(m, c)
  BY <1>3, RootFacts, Zenon DEF TreeAt
<1>7. /\ n \in Contents /\ n[c] = x /\ n[t][i] = table_entry(c)
      /\ \A s \in Tables \ {c}, j \in Indexes : s # t \/ j # i => n[s][j] = m[s][j]
      /\ \A s \in Tables \ {c, t} : n[s] = m[s]
  <2>1. table_entry(c) \in EntryType
    BY <1>6, Zenon DEF EntryType, TableEntries
  <2>2. PICK q : q = Put(m, t, i, table_entry(c))
    BY Zenon
  <2>3. /\ q \in Contents /\ q[t][i] = table_entry(c)
        /\ \A s \in Tables, j \in Indexes : s # t \/ j # i => q[s][j] = m[s][j]
        /\ \A s \in Tables : s # t => q[s] = m[s]
    BY <1>1, <1>3, <2>1, <2>2, PutIs
  <2>4. n = [q EXCEPT ![c] = x]
    BY <1>2, <1>4, <2>2, Zenon DEF Link
  <2>5. x \in [Indexes -> EntryType]
    BY Zenon DEF EntryType
  <2>6. n \in Contents /\ n[c] = x /\ \A s \in Tables \ {c} : n[s] = q[s]
    BY <1>6, <2>3, <2>4, <2>5, Zenon DEF Contents
  <2>7. n[t][i] = table_entry(c)
    BY <1>3, <1>6, <2>3, <2>6, Zenon
  <2>8. \A s \in Tables \ {c}, j \in Indexes : s # t \/ j # i => n[s][j] = m[s][j]
    BY <2>3, <2>6
  <2>9. \A s \in Tables \ {c, t} : n[s] = m[s]
    BY <2>3, <2>6, Zenon
  <2> QED
    BY <2>6, <2>7, <2>8, <2>9, Zenon
<1>8. ASSUME NEW j \in Indexes, NEW u PROVE x[j] # table_entry(u) /\ x[j].kind # "table"
  BY DEF LeafEntries, NoEntry, table_entry
<1>9. ASSUME NEW s \in Tables, NEW j \in Indexes, NEW u \in Tables
      PROVE  n[s][j] = table_entry(u) <=> m[s][j] = table_entry(u) \/ (s = t /\ j = i /\ u = c)
  <2>1. CASE s = c
    <3>1. m[c] = EmptyTable
      BY <1>6, Zenon DEF TreeAt
    <3>2. m[s][j] # table_entry(u)
      BY <2>1, <3>1 DEF EmptyTable, NoEntry, table_entry
    <3> QED
      BY <1>6, <1>7, <1>8, <2>1, <3>2, Zenon
  <2>2. CASE s = t /\ j = i
    <3>1. table_entry(c) = table_entry(u) <=> u = c
      BY TableEntryTo, Zenon
    <3> QED
      BY <1>5, <1>7, <2>2, <3>1, Zenon
  <2>3. CASE s # c /\ ~(s = t /\ j = i)
    BY <1>7, <2>3, Zenon
  <2> QED
    BY <2>1, <2>2, <2>3, Zenon
<1>10. ASSUME NEW u \in Tables PROVE LinkedIn(n, u) <=> LinkedIn(m, u) \/ u = c
  <2>1. t \in Tables
    BY <1>3, Zenon
  <2> QED
    BY <1>9, <2>1, Zenon DEF LinkedIn
<1>11. ASSUME NEW wa \in Nat, NEW k \in 1 .. Levels, Walk(m, wa)[k] # None
       PROVE  \A h \in k .. Levels : Walk(n, wa)[h] = Walk(m, wa)[h]
  <2>1. PICK u : u = None
    BY Zenon
  <2>2. \A s \in Tables \ pl, j \in Indexes, v \in Tables \ {u} :
           m[s][j] = table_entry(v) => n[s][j] = m[s][j]
    BY <1>5, <1>7
  <2>3. Walk(m, wa)[k] \notin {None, u} /\ (u \in Tables => m[u] = EmptyTable)
    BY <1>11, <2>1, RootFacts, Zenon
  <2> QED
    BY <2>2, <2>3, LinksKept
<1>12. \A wa \in Nat, k \in 1 .. Levels : Walk(m, wa)[k] # None => Walk(n, wa)[k] = Walk(m, wa)[k]
  <2>1. \A k \in 1 .. Levels : k \in k .. Levels
    BY <1>1
  <2> QED
    BY <1>11, <2>1, Zenon
<1>13. ASSUME NEW wa \in Nat, Walk(m, wa)[l] = t, index(l, wa) = i PROVE Walk(n, wa)[l - 1] = c
  <2>1. l - 1 \in 1 .. Levels - 1 /\ (l - 1) + 1 = l
    BY <1>1
  <2>2. Walk(n, wa)[l] = t /\ t # None
    BY <1>1, <1>3, <1>12, <1>13, RootFacts, Zenon
  <2>3. Walk(n, wa)[l - 1] = Below(n, Walk(n, wa)[l], index(l, wa))
    BY <2>1, WalkIs, Zenon
  <2>4. n[t][i].kind = "table" /\ n[t][i].to = c
    BY <1>7 DEF table_entry
  <2> QED
    BY <1>13, <2>2, <2>3, <2>4, Zenon DEF Below
<1> DEFINE lv == [lev EXCEPT ![c] = l - 1]
<1>14. LevelsOf(n, lv)
  <2>1. lev \in [Tables -> 1 .. Levels] /\ lev[Root] = Levels /\ l - 1 \in 1 .. Levels
    BY <1>1 DEF LevelsOf
  <2>2. lv \in [Tables -> 1 .. Levels] /\ lv[Root] = Levels /\ lv[t] = l /\ lv[c] = l - 1
    BY <1>3, <1>6, <2>1, RootFacts, Zenon
  <2>3. ASSUME NEW s \in Tables, NEW j \in Indexes, NEW u \in Tables, n[s][j] = table_entry(u)
        PROVE  lv[s] = lv[u] + 1
    <3>1. CASE s = t /\ u = c
      BY <1>1, <2>2, <3>1
    <3>2. CASE m[s][j] = table_entry(u)
      <4>1. u # c
        BY <1>6, <3>2, Zenon DEF LinkedIn
      <4>2. s # c
        <5>1. m[c] = EmptyTable
          BY <1>6, Zenon DEF TreeAt
        <5> QED
          BY <3>2, <5>1 DEF EmptyTable, NoEntry, table_entry
      <4>3. lev[s] = lev[u] + 1
        BY <1>1, <3>2, Zenon DEF LevelsOf
      <4> QED
        BY <2>1, <4>1, <4>2, <4>3, Zenon
    <3> QED
      BY <1>9, <2>3, <3>1, <3>2, Zenon
  <2> QED
    BY <2>2, <2>3, Zenon DEF LevelsOf
<1>15. Once(n)
  <2>1. SUFFICES ASSUME NEW s \in Tables, NEW r \in Tables, NEW j \in Indexes, NEW k \in Indexes,
                        NEW u \in Tables, n[s][j] = table_entry(u), n[r][k] = table_entry(u)
                 PROVE  s = r /\ j = k
    BY DEF Once
  <2>2. CASE u = c
    BY <1>6, <1>9, <2>1, <2>2 DEF LinkedIn
  <2>3. CASE u # c
    BY <1>1, <1>9, <2>1, <2>3 DEF Once
  <2> QED
    BY <2>2, <2>3, Zenon
<1>16. \A u \in Tables : LinkedIn(n, u) => u \notin pl \ {c} /\ u # Root
  BY <1>6, <1>10, Zenon DEF TreeAt
<1>17. \A u \in Tables : u # Root /\ ~LinkedIn(n, u) => n[u] = EmptyTable
  BY <1>3, <1>7, <1>10 DEF TreeAt
<1>18. ASSUME NEW u \in Frames \ (pl \ {c})
       PROVE  \E wa \in Pages, k \in 1 .. Levels : Walk(n, wa)[k] = u
  <2>1. CASE u = c
    <3>1. Walk(n, va)[l - 1] = c /\ l - 1 \in 1 .. Levels
      <4>1. l - 1 \in 1 .. Levels /\ Walk(m, va)[l] = t /\ index(l, va) = i /\ va \in Nat
        BY <1>1, <1>2, <1>4
      <4> QED
        BY <4>1, <1>13, Zenon
    <3> QED
      BY <2>1, <3>1, Zenon
  <2>2. CASE u # c
    <3>1. PICK wa \in Pages, k \in 1 .. Levels : Walk(m, wa)[k] = u
      BY <2>2, Zenon DEF TreeAt
    <3>2. Walk(n, wa)[k] = u
      <4>1. u # None /\ wa \in Nat
        BY RootFacts, PagesNat, Zenon
      <4> QED
        BY <1>12, <3>1, <4>1, Zenon
    <3> QED
      BY <3>2, Zenon
  <2> QED
    BY <2>1, <2>2, Zenon
<1>19. pl \ {c} \subseteq Frames
  BY Zenon DEF TreeAt
<1>20. TreeAt(n, pl \ {c}, lv)
  BY <1>7, <1>14, <1>15, <1>16, <1>17, <1>18, <1>19, Zenon DEF TreeAt
<1>21. lv \in [Tables -> 1 .. Levels]
  BY <1>14, Zenon DEF LevelsOf
<1> QED
  BY <1>2, <1>4, <1>6, <1>7, <1>10, <1>12, <1>13, <1>20, <1>21, Zenon DEF LinkedBelow

\* The table u is gone from slot i of table t.
UnlinkedFrom(m, n, p, lev, t, i, u) ==
    /\ TreeAt(n, p, lev)
    /\ \A v \in Tables : LinkedIn(n, v) <=> LinkedIn(m, v) /\ v # u
    /\ \A va \in Nat, l \in 1 .. Levels :
          Walk(m, va)[l] \notin {None, u} => Walk(n, va)[l] = Walk(m, va)[l]
    /\ n[t][i] = NoEntry
    /\ \A s \in Tables, j \in Indexes : s # t \/ j # i => n[s][j] = m[s][j]

LEMMA UnlinkTable ==
    ASSUME NEW m, NEW pl, NEW lev, TreeAt(m, pl, lev), NEW t \in Tables, NEW i \in Indexes,
           NEW u \in Tables, m[t][i] = table_entry(u), m[u] = EmptyTable,
           NEW n, n = Put(m, t, i, NoEntry),
           NEW p, p = IF u \in Image THEN pl ELSE pl \cup {u}
    PROVE  UnlinkedFrom(m, n, p, lev, t, i, u)
<1>1. Levels \in Nat /\ Levels > 1 /\ m \in Contents /\ LevelsOf(m, lev) /\ Once(m)
  BY FormatFacts, Zenon DEF TreeAt
<1>2. NoEntry \in EntryType /\ \A v : NoEntry # table_entry(v)
  BY Zenon DEF EntryType, NoEntry, table_entry
<1>3. /\ n \in Contents /\ n[t][i] = NoEntry
      /\ \A s \in Tables, j \in Indexes : s # t \/ j # i => n[s][j] = m[s][j]
      /\ \A s \in Tables : s # t => n[s] = m[s]
  BY <1>1, <1>2, PutIs
<1>4. u # Root /\ u \notin pl
  BY Zenon DEF TreeAt, LinkedIn
<1>5. t # u
  BY DEF EmptyTable, NoEntry, table_entry
<1>6. ASSUME NEW s \in Tables, NEW j \in Indexes, NEW v \in Tables
      PROVE  n[s][j] = table_entry(v) <=> m[s][j] = table_entry(v) /\ ~(s = t /\ j = i)
  BY <1>2, <1>3, Zenon
<1>7. ASSUME NEW v \in Tables PROVE LinkedIn(n, v) <=> LinkedIn(m, v) /\ v # u
  <2>1. ASSUME LinkedIn(n, v) PROVE LinkedIn(m, v) /\ v # u
    <3>1. PICK s \in Tables, j \in Indexes : n[s][j] = table_entry(v)
      BY <2>1, Zenon DEF LinkedIn
    <3>2. m[s][j] = table_entry(v) /\ ~(s = t /\ j = i)
      BY <1>6, <3>1, Zenon
    <3> QED
      BY <1>1, <3>2 DEF LinkedIn, Once
  <2>2. ASSUME LinkedIn(m, v), v # u PROVE LinkedIn(n, v)
    <3>1. PICK s \in Tables, j \in Indexes : m[s][j] = table_entry(v)
      BY <2>2, Zenon DEF LinkedIn
    <3>2. ~(s = t /\ j = i)
      BY <2>2, <3>1, TableEntryTo, Zenon
    <3> QED
      BY <1>6, <3>1, <3>2 DEF LinkedIn
  <2> QED
    BY <2>1, <2>2, Zenon
<1>8. LevelsOf(n, lev) /\ Once(n)
  BY <1>1, <1>6 DEF LevelsOf, Once
<1>9. ASSUME NEW va \in Nat, NEW l \in 1 .. Levels, Walk(m, va)[l] \notin {None, u}
      PROVE  Walk(n, va)[l] = Walk(m, va)[l]
  <2>1. \A s \in Tables \ pl, j \in Indexes, v \in Tables \ {u} :
           m[s][j] = table_entry(v) => n[s][j] = m[s][j]
    BY <1>3, TableEntryTo
  <2>2. \A k \in l .. Levels : Walk(n, va)[k] = Walk(m, va)[k]
    BY <1>9, <2>1, LinksKept
  <2>3. l \in l .. Levels
    BY <1>1
  <2> QED
    BY <2>2, <2>3, Zenon
<1>10. \A v \in Tables : LinkedIn(n, v) => v \notin p /\ v # Root
  BY <1>7, Zenon DEF TreeAt
<1>11. ASSUME NEW v \in Tables, v # Root, ~LinkedIn(n, v) PROVE n[v] = EmptyTable
  <2>1. v # t => n[v] = m[v]
    BY <1>3, Zenon
  <2>2. CASE v = u
    BY <1>5, <2>1, <2>2, Zenon
  <2>3. CASE v # u
    <3>1. ~LinkedIn(m, v)
      BY <1>7, <1>11, <2>3, Zenon
    <3>2. m[v] = EmptyTable
      BY <1>11, <3>1, Zenon DEF TreeAt
    <3>3. v # t
      BY <3>2 DEF EmptyTable, NoEntry, table_entry
    <3> QED
      BY <2>1, <3>2, <3>3, Zenon
  <2> QED
    BY <2>2, <2>3, Zenon
<1>12. ASSUME NEW v \in Frames \ p
       PROVE  \E va \in Pages, l \in 1 .. Levels : Walk(n, va)[l] = v
  <2>1. v # u /\ v \in Frames \ pl /\ v # None
    BY ImageAssumption, RootFacts, Zenon
  <2>2. PICK va \in Pages, l \in 1 .. Levels : Walk(m, va)[l] = v
    BY <2>1, Zenon DEF TreeAt
  <2>3. Walk(n, va)[l] = v
    BY <1>9, <2>1, <2>2, PagesNat, Zenon
  <2> QED
    BY <2>3, Zenon
<1>13. p \subseteq Frames
  BY Zenon DEF TreeAt, Tables
<1>14. TreeAt(n, p, lev)
  BY <1>3, <1>8, <1>10, <1>11, <1>12, <1>13, Zenon DEF TreeAt
<1> QED
  BY <1>3, <1>7, <1>9, <1>14, Zenon DEF UnlinkedFrom

-----------------------------------------------------------------------------
(***************************************************************************)
(* What the three changes do to the end of every walk.                     *)
(***************************************************************************)
End(m, va) == Slot(m, va, Reached(m, va))

EndKept(m, n, va) == Reached(n, va) = Reached(m, va) /\ End(n, va) = End(m, va)

\* The end of a walk, in a tree.
LEMMA EndIs ==
    ASSUME NEW m, NEW pl, NEW lev, TreeAt(m, pl, lev), NEW va \in Nat
    PROVE  /\ Reached(m, va) \in 1 .. Levels /\ Walk(m, va)[Reached(m, va)] # None
           /\ \A k \in 1 .. Levels : Walk(m, va)[k] # None <=> k >= Reached(m, va)
           /\ End(m, va) \in {NoEntry} \cup LeafEntries /\ End(m, va).kind # "table"
           /\ present(End(m, va)) <=> End(m, va) \in LeafEntries
           /\ End(m, va) = m[Walk(m, va)[Reached(m, va)]][index(Reached(m, va), va)]
<1>1. m \in Contents /\ LevelsOf(m, lev)
  BY Zenon DEF TreeAt
<1>2. PICK r \in 1 .. Levels : r = Reached(m, va)
  BY <1>1, ReachedIs, Zenon
<1>3. \A k \in 1 .. Levels : Walk(m, va)[k] # None <=> k >= r
  BY <1>1, <1>2, ReachedIs, Zenon
<1>4. Walk(m, va)[r] # None
  BY <1>3, FormatFacts
<1>5. PICK e : e = End(m, va)
  BY Zenon
<1>6. e \in {NoEntry} \cup LeafEntries
  BY <1>1, <1>5, ReachedIs, Zenon DEF End
<1>7. e.kind # "table" /\ (present(e) <=> e \in LeafEntries)
  BY <1>6 DEF NoEntry, LeafEntries, present
<1> QED
  BY <1>2, <1>3, <1>4, <1>5, <1>6, <1>7, Zenon DEF End, Slot

\* A slot without a table on a walk in a tree is its end.
LEMMA EndUnique ==
    ASSUME NEW m, NEW pl, NEW lev, TreeAt(m, pl, lev), NEW va \in Nat, NEW l \in 1 .. Levels,
           Walk(m, va)[l] # None, Slot(m, va, l).kind # "table"
    PROVE  Reached(m, va) = l /\ End(m, va) = Slot(m, va, l)
<1>1. m \in Contents /\ LevelsOf(m, lev)
  BY Zenon DEF TreeAt
<1>2. Reached(m, va) = l
  BY <1>1, ReachedUnique, Zenon
<1> QED
  BY <1>2, Zenon DEF End

\* Two walks that end in one slot are to addresses in one page.
LEMMA SameEnd ==
    ASSUME NEW m, NEW pl, NEW lev, TreeAt(m, pl, lev), NEW va \in Pages, NEW wa \in Pages,
           NEW l \in 1 .. Levels, Walk(m, va)[l] # None,
           NEW k \in 1 .. Levels, Walk(m, wa)[k] = Walk(m, va)[l], index(k, wa) = index(l, va)
    PROVE  k = l /\ Page(l, wa) = Page(l, va)
<1>1. va \in Nat /\ wa \in Nat /\ m \in Contents /\ LevelsOf(m, lev) /\ Once(m)
  BY PagesNat, Zenon DEF TreeAt
<1>2. k = l
  BY <1>1, WalkTables
<1>3. Page(l, va) = Page(l, wa)
  BY <1>1, <1>2, SameSlot
<1> QED
  BY <1>2, <1>3, Zenon

\* The slot at level l on the walk to va holds e and no longer what it did.
LeafWritten(m, n, pl, lev, va, l, e) ==
    /\ TreeAt(n, pl, lev)
    /\ \A u \in Tables : LinkedIn(n, u) <=> LinkedIn(m, u)
    /\ \A wa \in Nat, k \in 1 .. Levels : Walk(n, wa)[k] = Walk(m, wa)[k]
    /\ n[Walk(m, va)[l]][index(l, va)] = e
    /\ \A u \in Tables \ {Walk(m, va)[l]} : n[u] = m[u]
    /\ \A wa \in Pages : Page(l, wa) = Page(l, va) =>
          /\ Reached(m, wa) = l /\ End(m, wa) = End(m, va)
          /\ Reached(n, wa) = l /\ End(n, wa) = e
    /\ \A wa \in Pages : Page(l, wa) # Page(l, va) => EndKept(m, n, wa)

LEMMA LeafEffect ==
    ASSUME NEW m, NEW pl, NEW lev, TreeAt(m, pl, lev), NEW va \in Pages, NEW l \in 1 .. Levels,
           Walk(m, va)[l] # None, Slot(m, va, l).kind # "table",
           NEW e \in {NoEntry} \cup LeafEntries, NEW n,
           n = Put(m, Walk(m, va)[l], index(l, va), e)
    PROVE  LeafWritten(m, n, pl, lev, va, l, e)
<1>1. va \in Nat
  BY PagesNat, Zenon
<1>2. PICK t \in Tables : t = Walk(m, va)[l] /\ (t = Root \/ LinkedIn(m, t))
  BY <1>1, OnWalk
<1>3. PICK i \in Indexes : i = index(l, va)
  BY <1>1, PageType, Zenon
<1>4. m[t][i].kind # "table" /\ n = Put(m, t, i, e)
  BY <1>2, <1>3, Zenon DEF Slot
<1>5. /\ TreeAt(n, pl, lev)
      /\ \A u \in Tables : LinkedIn(n, u) <=> LinkedIn(m, u)
      /\ \A wa \in Nat, k \in 1 .. Levels : Walk(n, wa)[k] = Walk(m, wa)[k]
  BY <1>2, <1>4, WriteLeaf
<1>6. /\ n[t][i] = e
      /\ \A s \in Tables, j \in Indexes : s # t \/ j # i => n[s][j] = m[s][j]
      /\ \A s \in Tables : s # t => n[s] = m[s]
  <2>1. m \in Contents /\ e \in EntryType
    BY Zenon DEF TreeAt, EntryType
  <2> QED
    BY <1>4, <2>1, PutIs
<1>7. e.kind # "table"
  BY DEF NoEntry, LeafEntries
<1>8. ASSUME NEW wa \in Pages, Page(l, wa) = Page(l, va)
      PROVE  /\ Reached(m, wa) = l /\ End(m, wa) = End(m, va)
             /\ Reached(n, wa) = l /\ End(n, wa) = e
  <2>1. wa \in Nat /\ l \in l .. Levels
    BY PagesNat, FormatFacts
  <2>2. Walk(m, wa)[l] = t /\ Slot(m, wa, l) = Slot(m, va, l) /\ index(l, wa) = i
    BY <1>1, <1>2, <1>3, <1>8, <2>1, WalkSamePage, SamePageUp, Zenon
  <2>3. /\ Reached(m, wa) = l /\ End(m, wa) = Slot(m, va, l)
        /\ End(m, va) = Slot(m, va, l)
    BY <1>1, <1>2, <2>1, <2>2, EndUnique, Zenon
  <2>4. Walk(n, wa)[l] = t /\ Slot(n, wa, l) = e
    BY <1>5, <1>6, <2>1, <2>2, Zenon DEF Slot
  <2>5. Reached(n, wa) = l /\ End(n, wa) = e
    BY <1>2, <1>5, <1>7, <2>1, <2>4, EndUnique
  <2> QED
    BY <2>3, <2>5, Zenon
<1>9. ASSUME NEW wa \in Pages, Page(l, wa) # Page(l, va) PROVE EndKept(m, n, wa)
  <2>1. wa \in Nat
    BY PagesNat, Zenon
  <2>2. PICK k \in 1 .. Levels : k = Reached(m, wa)
    BY <2>1, EndIs, Zenon
  <2>3. PICK s \in Tables : s = Walk(m, wa)[k] /\ s # None
    BY <2>1, <2>2, EndIs, OnWalk
  <2>4. PICK j \in Indexes : j = index(k, wa)
    BY <2>1, PageType, Zenon
  <2>5. s # t \/ j # i
    BY <1>2, <1>3, <1>9, <2>3, <2>4, SameEnd
  <2>6. Walk(n, wa)[k] = s /\ Slot(n, wa, k) = Slot(m, wa, k)
    BY <1>5, <1>6, <2>1, <2>3, <2>4, <2>5 DEF Slot
  <2>7. Slot(m, wa, k) = End(m, wa) /\ Slot(m, wa, k).kind # "table"
    BY <2>1, <2>2, EndIs, Zenon DEF End
  <2>8. Reached(n, wa) = k /\ End(n, wa) = Slot(n, wa, k)
    BY <1>5, <2>1, <2>3, <2>6, <2>7, EndUnique
  <2> QED
    BY <2>2, <2>6, <2>7, <2>8, Zenon DEF EndKept
<1> QED
  BY <1>2, <1>3, <1>5, <1>6, <1>8, <1>9, Zenon DEF LeafWritten

\* The walk to va, which ended at level l, goes on to the new table c with contents x.
TableLinked(m, n, pl, va, l, c, x) ==
    /\ \E lv \in [Tables -> 1 .. Levels] : TreeAt(n, pl \ {c}, lv)
    /\ \A u \in Tables : LinkedIn(n, u) <=> LinkedIn(m, u) \/ u = c
    /\ c \in Tables /\ n[c] = x
    /\ \A u \in Tables \ {c, Walk(m, va)[l]} : n[u] = m[u]
    /\ n[Walk(m, va)[l]] # EmptyTable
    /\ \A wa \in Pages : Page(l, wa) = Page(l, va) =>
          /\ Reached(m, wa) = l /\ End(m, wa) = End(m, va)
          /\ Walk(n, wa)[l - 1] = c
          /\ Reached(n, wa) = l - 1 /\ End(n, wa) = x[index(l - 1, wa)]
    /\ \A wa \in Pages : Page(l, wa) # Page(l, va) => EndKept(m, n, wa)

LEMMA LinkEffect ==
    ASSUME NEW m, NEW pl, NEW lev, TreeAt(m, pl, lev), NEW va \in Pages,
           NEW l \in 2 .. Levels, l = Reached(m, va), NEW c \in pl,
           NEW x \in [Indexes -> {NoEntry} \cup LeafEntries], NEW n,
           n = Link(m, Walk(m, va)[l], index(l, va), c, x)
    PROVE  TableLinked(m, n, pl, va, l, c, x)
<1>1. va \in Nat /\ l \in 1 .. Levels /\ l - 1 \in 1 .. Levels
  BY PagesNat, FormatFacts
<1>2. Walk(m, va)[l] # None /\ Slot(m, va, l).kind # "table" /\ End(m, va) = Slot(m, va, l)
  BY <1>1, EndIs, Zenon DEF End
<1>3. PICK t \in Tables \ pl : t = Walk(m, va)[l]
  BY <1>1, <1>2, OnWalk, Zenon
<1>4. PICK i \in Indexes : i = index(l, va)
  BY <1>1, PageType, Zenon
<1>5. /\ \E lv \in [Tables -> 1 .. Levels] : TreeAt(n, pl \ {c}, lv)
      /\ \A u \in Tables : LinkedIn(n, u) <=> LinkedIn(m, u) \/ u = c
      /\ \A wa \in Nat, k \in 1 .. Levels : Walk(m, wa)[k] # None => Walk(n, wa)[k] = Walk(m, wa)[k]
      /\ \A wa \in Nat : Walk(m, wa)[l] = t /\ index(l, wa) = i => Walk(n, wa)[l - 1] = c
      /\ c \in Tables /\ n[c] = x
      /\ \A s \in Tables \ {c}, j \in Indexes : s # t \/ j # i => n[s][j] = m[s][j]
  <2>1. LinkedBelow(m, n, pl, Walk(m, va)[l], index(l, va), l, c, x)
    BY <1>2, LinkTable, Zenon
  <2>2. LinkedBelow(m, n, pl, t, i, l, c, x)
    BY <1>3, <1>4, <2>1, Zenon
  <2> QED
    BY <2>2, Zenon DEF LinkedBelow
<1>6. PICK lv \in [Tables -> 1 .. Levels] : TreeAt(n, pl \ {c}, lv)
  BY <1>5, Zenon
<1>7. m \in Contents /\ n \in Contents
  BY <1>6, Zenon DEF TreeAt
<1>8. ASSUME NEW u \in Tables \ {c, t} PROVE n[u] = m[u]
  <2>1. m[u] \in [Indexes -> EntryType] /\ n[u] \in [Indexes -> EntryType]
    BY <1>7, Zenon DEF Contents
  <2>2. \A j \in Indexes : n[u][j] = m[u][j]
    BY <1>5, <1>8, Zenon
  <2> QED
    BY <2>1, <2>2
<1>9. n[t] # EmptyTable
  <2>1. LinkedIn(n, c)
    BY <1>5, Zenon
  <2>2. PICK s \in Tables, j \in Indexes : n[s][j] = table_entry(c)
    BY <2>1, Zenon DEF LinkedIn
  <2>3. s = t
    <3>1. s # c
      BY <1>5, <2>2 DEF LeafEntries, NoEntry, table_entry
    <3>2. ~LinkedIn(m, c)
      BY <1>5, Zenon DEF TreeAt
    <3>3. s # t => m[s][j] = table_entry(c)
      BY <1>5, <2>2, <3>1, Zenon
    <3> QED
      BY <3>2, <3>3, Zenon DEF LinkedIn
  <2> QED
    BY <2>2, <2>3 DEF EmptyTable, NoEntry, table_entry
<1>10. ASSUME NEW wa \in Pages, Page(l, wa) = Page(l, va)
       PROVE  /\ Reached(m, wa) = l /\ End(m, wa) = End(m, va)
              /\ Walk(n, wa)[l - 1] = c
              /\ Reached(n, wa) = l - 1 /\ End(n, wa) = x[index(l - 1, wa)]
  <2>1. wa \in Nat /\ l \in l .. Levels
    BY PagesNat, FormatFacts
  <2>2. Walk(m, wa)[l] = t /\ Slot(m, wa, l) = Slot(m, va, l) /\ index(l, wa) = i
    BY <1>1, <1>3, <1>4, <1>10, <2>1, WalkSamePage, SamePageUp
  <2>3. Reached(m, wa) = l /\ End(m, wa) = End(m, va)
    BY <1>1, <1>2, <1>3, <2>1, <2>2, EndUnique
  <2>4. Walk(n, wa)[l - 1] = c
    BY <1>5, <2>1, <2>2, Zenon
  <2>5. c # None
    BY <1>5, RootFacts, Zenon
  <2>6. index(l - 1, wa) \in Indexes
    BY <1>1, <2>1, PageType, Zenon
  <2>7. Slot(n, wa, l - 1) = x[index(l - 1, wa)] /\ Slot(n, wa, l - 1).kind # "table"
    BY <1>5, <2>4, <2>6 DEF Slot, NoEntry, LeafEntries
  <2>8. Reached(n, wa) = l - 1 /\ End(n, wa) = Slot(n, wa, l - 1)
    BY <1>1, <1>6, <2>1, <2>4, <2>5, <2>7, EndUnique
  <2> QED
    BY <2>3, <2>4, <2>7, <2>8, Zenon
<1>11. ASSUME NEW wa \in Pages, Page(l, wa) # Page(l, va) PROVE EndKept(m, n, wa)
  <2>1. wa \in Nat
    BY PagesNat, Zenon
  <2>2. PICK k \in 1 .. Levels : k = Reached(m, wa)
    BY <2>1, EndIs, Zenon
  <2>3. PICK s \in Tables \ pl : s = Walk(m, wa)[k] /\ s # None
    BY <2>1, <2>2, EndIs, OnWalk
  <2>4. PICK j \in Indexes : j = index(k, wa)
    BY <2>1, PageType, Zenon
  <2>5. s # t \/ j # i
    BY <1>1, <1>2, <1>3, <1>4, <1>11, <2>3, <2>4, SameEnd
  <2>6. Walk(n, wa)[k] = s /\ Slot(n, wa, k) = Slot(m, wa, k)
    BY <1>5, <2>1, <2>3, <2>4, <2>5 DEF Slot
  <2>7. Slot(m, wa, k) = End(m, wa) /\ Slot(m, wa, k).kind # "table"
    BY <2>1, <2>2, EndIs, Zenon DEF End
  <2>8. Reached(n, wa) = k /\ End(n, wa) = Slot(n, wa, k)
    BY <1>6, <2>1, <2>3, <2>6, <2>7, EndUnique
  <2> QED
    BY <2>2, <2>6, <2>7, <2>8, Zenon DEF EndKept
<1> QED
  BY <1>3, <1>5, <1>8, <1>9, <1>10, <1>11, Zenon DEF TableLinked

\* The walk to va, which ended in the empty table u at level l, ends one level higher.
TableUnlinked(m, n, p, lev, va, l, u) ==
    /\ TreeAt(n, p, lev)
    /\ \A v \in Tables : LinkedIn(n, v) <=> LinkedIn(m, v) /\ v # u
    /\ \A v \in Tables \ {Walk(m, va)[l + 1]} : n[v] = m[v]
    /\ Slot(m, va, l + 1) = table_entry(u)
    /\ Walk(n, va)[l + 1] = Walk(m, va)[l + 1]
    /\ \A wa \in Pages : Page(l + 1, wa) = Page(l + 1, va) =>
          /\ Reached(m, wa) = l /\ End(m, wa) = NoEntry
          /\ Reached(n, wa) = l + 1 /\ End(n, wa) = NoEntry
    /\ \A wa \in Pages : Page(l + 1, wa) # Page(l + 1, va) => EndKept(m, n, wa)

LEMMA UnlinkEffect ==
    ASSUME NEW m, NEW pl, NEW lev, TreeAt(m, pl, lev), NEW va \in Pages,
           NEW l \in 1 .. Levels - 1, l = Reached(m, va), NEW u, u = Walk(m, va)[l], m[u] = EmptyTable,
           NEW n, n = Put(m, Walk(m, va)[l + 1], index(l + 1, va), NoEntry),
           NEW p, p = IF u \in Image THEN pl ELSE pl \cup {u}
    PROVE  TableUnlinked(m, n, p, lev, va, l, u)
<1>1. va \in Nat /\ l \in 1 .. Levels /\ l + 1 \in 1 .. Levels /\ l < Levels
  BY PagesNat, FormatFacts
<1>2. u # None
  BY <1>1, EndIs, Zenon
<1>3. u \in Tables /\ lev[u] = l
  BY <1>1, <1>2, OnWalk
<1>4. PICK t \in Tables : t = Walk(m, va)[l + 1] /\ t # None
  BY <1>1, <1>2, OnWalk
<1>5. PICK i \in Indexes : i = index(l + 1, va)
  BY <1>1, PageType, Zenon
<1>6. m[t][i] = table_entry(u) /\ Slot(m, va, l + 1) = table_entry(u)
  <2>1. Slot(m, va, l + 1) = table_entry(u)
    BY <1>1, <1>2, OnWalk
  <2> QED
    BY <1>4, <1>5, <2>1, Zenon DEF Slot
<1>7. n = Put(m, t, i, NoEntry)
  BY <1>4, <1>5, Zenon
<1>8. /\ TreeAt(n, p, lev)
      /\ \A v \in Tables : LinkedIn(n, v) <=> LinkedIn(m, v) /\ v # u
      /\ \A wa \in Nat, k \in 1 .. Levels :
            Walk(m, wa)[k] \notin {None, u} => Walk(n, wa)[k] = Walk(m, wa)[k]
      /\ n[t][i] = NoEntry
      /\ \A s \in Tables, j \in Indexes : s # t \/ j # i => n[s][j] = m[s][j]
  <2>1. UnlinkedFrom(m, n, p, lev, t, i, u)
    BY <1>3, <1>6, <1>7, UnlinkTable, Zenon
  <2> QED
    BY <2>1, Zenon DEF UnlinkedFrom
<1>9. ASSUME NEW v \in Tables \ {t} PROVE n[v] = m[v]
  <2>1. m[v] \in [Indexes -> EntryType] /\ n[v] \in [Indexes -> EntryType]
    BY <1>8, Zenon DEF TreeAt, Contents
  <2>2. \A j \in Indexes : n[v][j] = m[v][j]
    BY <1>8, <1>9, Zenon
  <2> QED
    BY <2>1, <2>2
<1>10. t # u
  BY <1>6 DEF EmptyTable, NoEntry, table_entry
<1>11. Walk(n, va)[l + 1] = t
  BY <1>1, <1>4, <1>8, <1>10, Zenon
<1>12. ASSUME NEW wa \in Pages, Page(l + 1, wa) = Page(l + 1, va)
       PROVE  /\ Reached(m, wa) = l /\ End(m, wa) = NoEntry
              /\ Reached(n, wa) = l + 1 /\ End(n, wa) = NoEntry
  <2>1. wa \in Nat /\ l + 1 \in l + 1 .. Levels /\ m \in Contents /\ LevelsOf(m, lev)
    BY <1>1, PagesNat, FormatFacts DEF TreeAt
  <2>2. Walk(m, wa)[l + 1] = t /\ index(l + 1, wa) = i
    BY <1>1, <1>4, <1>5, <1>12, <2>1, WalkSamePage, SamePageUp
  <2>3. Walk(m, wa)[l] = Below(m, t, i) /\ Walk(m, va)[l] = Below(m, t, i)
    BY <1>4, <1>5, <2>2, WalkIs
  <2>4. Walk(m, wa)[l] = u /\ index(l, wa) \in Indexes
    BY <1>1, <2>1, <2>3, PageType, Zenon
  <2>5. Slot(m, wa, l) = NoEntry /\ NoEntry.kind # "table"
    BY <2>4, Zenon DEF Slot, EmptyTable, NoEntry
  <2>6. Reached(m, wa) = l /\ End(m, wa) = NoEntry
    BY <1>1, <1>2, <2>1, <2>4, <2>5, EndUnique, Zenon
  <2>7. Walk(n, wa)[l + 1] = t /\ Slot(n, wa, l + 1) = NoEntry
    BY <1>1, <1>4, <1>8, <1>10, <2>1, <2>2, Zenon DEF Slot
  <2>8. Reached(n, wa) = l + 1 /\ End(n, wa) = NoEntry
    BY <1>1, <1>4, <1>8, <2>1, <2>5, <2>7, EndUnique
  <2> QED
    BY <2>6, <2>8, Zenon
<1>13. ASSUME NEW wa \in Pages, Page(l + 1, wa) # Page(l + 1, va) PROVE EndKept(m, n, wa)
  <2>1. wa \in Nat
    BY PagesNat, Zenon
  <2>2. PICK k \in 1 .. Levels : k = Reached(m, wa)
    BY <2>1, EndIs, Zenon
  <2>3. PICK s \in Tables : s = Walk(m, wa)[k] /\ s # None /\ lev[s] = k
    BY <2>1, <2>2, EndIs, OnWalk
  <2>4. PICK j \in Indexes : j = index(k, wa)
    BY <2>1, PageType, Zenon
  <2>5. s # u
    <3>1. SUFFICES ASSUME s = u PROVE FALSE
      BY Zenon
    <3>2. Walk(m, wa)[l] = u
      BY <1>3, <2>3, <3>1, Zenon
    <3>3. /\ Walk(m, wa)[l + 1] # None /\ Walk(m, wa)[l + 1] \in Tables
          /\ index(l + 1, wa) \in Indexes /\ Slot(m, wa, l + 1) = table_entry(u)
      BY <1>1, <1>2, <2>1, <3>2, OnWalk
    <3>4. Walk(m, wa)[l + 1] = t /\ index(l + 1, wa) = i
      BY <1>3, <1>6, <3>3 DEF Slot, TreeAt, Once
    <3> QED
      BY <1>1, <1>4, <1>5, <1>13, <3>4, SameEnd
  <2>6. s # t \/ j # i
    <3>1. m[s][j].kind # "table"
      BY <2>1, <2>2, <2>3, <2>4, EndIs, Zenon
    <3> QED
      BY <1>6, <3>1 DEF table_entry
  <2>7. Walk(n, wa)[k] = s /\ Slot(n, wa, k) = Slot(m, wa, k)
    BY <1>8, <2>1, <2>3, <2>4, <2>5, <2>6 DEF Slot
  <2>8. Slot(m, wa, k) = End(m, wa) /\ Slot(m, wa, k).kind # "table"
    BY <2>1, <2>2, EndIs, Zenon DEF End
  <2>9. Reached(n, wa) = k /\ End(n, wa) = Slot(n, wa, k)
    BY <1>8, <2>1, <2>3, <2>7, <2>8, EndUnique
  <2> QED
    BY <2>2, <2>7, <2>8, <2>9, Zenon DEF EndKept
<1> QED
  BY <1>4, <1>6, <1>8, <1>9, <1>11, <1>12, <1>13, Zenon DEF TableUnlinked

\* The contents of the table that grow links.
NewTable(e, l) == IF present(e) THEN split(e, l) ELSE EmptyTable

\* The entry e as the processor leaves it when it has used it.
Used(e) == [e EXCEPT !.accessed = TRUE]
-----------------------------------------------------------------------------
(***************************************************************************)
(* The inductive invariant.                                                *)
(***************************************************************************)

Tree == \E lev \in [Tables -> 1 .. Levels] : TreeAt(mem, pool, lev)

OpType ==
    /\ op \in [kind : {"idle", "map", "protect", "unmap"}, va : 0 .. Space - 1,
               length : 0 .. Space - 1, level : 1 .. Levels, frame : Nat,
               flags : SUBSET FlagNames, offset : Nat,
               stage : {"leaf", "split_first", "grow_first", "split_end", "grow_end", "prune"},
               prune : 1 .. Levels]
    /\ op.kind # "idle" => op.offset < op.length
    /\ answer \in [status : {"none", "ok", "removed", "OUT_OF_MEMORY", "INVALID_ADDRESS",
                             "NOT_MAPPED", "CONFLICT"}, frame : Nat, pages : Nat]
    /\ starved \in BOOLEAN

\* Where unmap_range stands: its first address is canonical, and prune is at the end of the
\* walk to the leaf that was removed.
OpPlace ==
    op.kind = "unmap" =>
       /\ valid(op.va)
       /\ op.stage = "prune" => valid(here) /\ Reached(mem, here) = op.prune

\* The one table that may be empty while an operation is in progress: the last one of the
\* walk that map_leaf is growing, or that prune is looking at.
Unfinished(u) ==
    /\ u = Walk(mem, here)[Reached(mem, here)]
    /\ \/ op.kind = "unmap" /\ op.stage = "prune"
       \/ /\ op.kind = "map" /\ Reached(mem, here) >= op.level
          /\ valid(here) /\ aligned(here, op.level) /\ aligned(op.frame + op.offset, op.level)

NoDeadBranch ==
    ~starved => \A u \in Tables : LinkedIn(mem, u) /\ mem[u] = EmptyTable => Unfinished(u)

\* A cached leaf is where the walk to its page ends.
Cached(m, c) ==
    /\ c \in [page : Pages, level : 1 .. Levels, frame : Nat, flags : SUBSET FlagNames]
    /\ aligned(c.page, c.level) /\ Reached(m, c.page) = c.level
    /\ LET e == Slot(m, c.page, c.level)
       IN  e.kind = "leaf" /\ e.to = c.frame /\ e.flags = c.flags

Caches ==
    /\ \A c \in tlb : Cached(mem, c)
    /\ psc \subseteq Tables \ pool

RadixInv == Tree /\ OpType /\ OpPlace /\ NoDeadBranch /\ Caches
-----------------------------------------------------------------------------
(***************************************************************************)
(* The processor's caches.                                                 *)
(***************************************************************************)

\* A cached leaf is what translate finds for every address of its page.
LEMMA CachedIsTranslation ==
    ASSUME NEW m, NEW pl, NEW lev, TreeAt(m, pl, lev), NEW c, Cached(m, c),
           NEW k \in 0 .. PagesAt(c.level) - 1
    PROVE  Translation(m, c.page + k) = [frame |-> c.frame + k, flags |-> c.flags]
<1>1. PICK l \in 1 .. Levels, a \in Pages : l = c.level /\ a = c.page /\ aligned(a, l)
  BY Zenon DEF Cached
<1>2. a \in Nat /\ a \in 0 .. Space - 1 /\ valid(a) /\ k \in 0 .. PagesAt(l) - 1
      /\ PagesAt(l) \in Nat \ {0} /\ a + k \in Nat
  BY <1>1, PagesNat, FormatFacts
<1>3. Page(l, a + k) = Page(l, a) /\ (a + k) % PagesAt(l) = k
  BY <1>1, <1>2, PagePlace, Zenon
<1>4. valid(a + k)
  BY <1>2, <1>3, PageValid, Zenon
<1>5. l \in l .. Levels
  BY FormatFacts
<1>6. Walk(m, a + k)[l] = Walk(m, a)[l] /\ Slot(m, a + k, l) = Slot(m, a, l)
  <2>1. PICK b \in Nat : b = a + k
    BY <1>2, Zenon
  <2>2. \A h \in l .. Levels : Walk(m, b)[h] = Walk(m, a)[h] /\ Slot(m, b, h) = Slot(m, a, h)
    BY <1>2, <1>3, <2>1, WalkSamePage
  <2> QED
    BY <1>5, <2>1, <2>2, Zenon
<1>7. Reached(m, a) = l /\ Walk(m, a)[l] # None /\ End(m, a) = Slot(m, a, l)
  BY <1>1, <1>2, EndIs DEF Cached, End
<1>8. PICK e : e = Slot(m, a, l) /\ e.kind = "leaf" /\ e.to = c.frame /\ e.flags = c.flags
  BY <1>1, Zenon DEF Cached
<1>9. Reached(m, a + k) = l /\ End(m, a + k) = e
  BY <1>2, <1>6, <1>7, <1>8, EndUnique
<1>10. present(e)
  BY <1>8, Zenon DEF present
<1> QED
  BY <1>1, <1>3, <1>4, <1>8, <1>9, <1>10, Zenon DEF Translation, End

\* flush leaves a cached leaf only if it does not cover the address.
Dropped(tl, va) == {c \in tl : va \notin c.page .. c.page + PagesAt(c.level) - 1}

LEMMA CoversPage ==
    ASSUME NEW m, NEW c, Cached(m, c), NEW va \in Pages, Page(c.level, c.page) = Page(c.level, va)
    PROVE  va \in c.page .. c.page + PagesAt(c.level) - 1
<1>1. PICK l \in 1 .. Levels, a \in Pages : l = c.level /\ a = c.page /\ aligned(a, l)
  BY Zenon DEF Cached
<1>2. a \in Nat /\ va \in Nat
  BY PagesNat, Zenon
<1>3. a = a - (a % PagesAt(l))
  BY <1>1, <1>2 DEF aligned
<1>4. va \in a .. a + PagesAt(l) - 1 <=> Page(l, va) = Page(l, a)
  BY <1>2, <1>3, PageBase, Zenon
<1> QED
  BY <1>1, <1>4, Zenon

LEMMA CachedKept ==
    ASSUME NEW m, NEW n, NEW c, Cached(m, c), EndKept(m, n, c.page)
    PROVE  Cached(n, c)
  BY Zenon DEF Cached, EndKept, End

\* A change of the walks that end in one slot leaves every cached leaf right, when the ones
\* that cover its page are dropped or there were none.
LEMMA CachesRight ==
    ASSUME NEW m, NEW n, NEW va \in Pages, NEW l \in 1 .. Levels,
           \A wa \in Pages : Page(l, wa) = Page(l, va) => Reached(m, wa) = l /\ End(m, wa) = End(m, va),
           \A wa \in Pages : Page(l, wa) # Page(l, va) => EndKept(m, n, wa),
           NEW tl, \A c \in tl : Cached(m, c),
           NEW tk, tk = IF present(End(m, va)) THEN Dropped(tl, va) ELSE tl
    PROVE  \A c \in tk : Cached(n, c)
<1>1. SUFFICES ASSUME NEW c \in tk PROVE Cached(n, c)
  BY Zenon
<1>2. c \in tl /\ Cached(m, c)
  BY Zenon DEF Dropped
<1>3. PICK a \in Pages : a = c.page
  BY <1>2, Zenon DEF Cached
<1>4. Reached(m, a) = c.level /\ End(m, a).kind = "leaf"
  BY <1>2, <1>3, Zenon DEF Cached, End
<1>5. Page(l, a) # Page(l, va)
  <2>1. SUFFICES ASSUME Page(l, a) = Page(l, va) PROVE FALSE
    BY Zenon
  <2>2. c.level = l /\ End(m, va).kind = "leaf"
    BY <1>4, <2>1, Zenon
  <2>3. present(End(m, va))
    BY <2>2, Zenon DEF present
  <2>4. va \in c.page .. c.page + PagesAt(c.level) - 1
    BY <1>2, <1>3, <2>1, <2>2, CoversPage, Zenon
  <2> QED
    BY <2>3, <2>4, Zenon DEF Dropped
<1> QED
  BY <1>2, <1>3, <1>5, CachedKept, Zenon

-----------------------------------------------------------------------------
(***************************************************************************)
(* The actions, branch by branch, as changes of the tables.  The address   *)
(* an action works on is a constant va here.                               *)
(***************************************************************************)
Replaced(va, l, e) ==
    /\ mem' = Put(mem, Walk(mem, va)[l], index(l, va), e)
    /\ IF present(Slot(mem, va, l)) THEN tlb' = Dropped(tlb, va) /\ psc' = {}
       ELSE UNCHANGED <<tlb, psc>>

LEMMA ReplaceIs ==
    ASSUME NEW va, NEW l, NEW e
    PROVE  replace(va, l, e) <=> Replaced(va, l, e)
<1>1. path(va) = Walk(mem, va) /\ slot(va, l) = Slot(mem, va, l)
  BY PathIsWalk, TranslateIs, Zenon
<1> QED
  BY <1>1, Zenon DEF replace, Replaced, flush, Dropped, Put

Grown(va, after) ==
    /\ op' = after
    /\ UNCHANGED <<answer, starved>>
    /\ IF present(End(mem, va)) THEN tlb' = Dropped(tlb, va) /\ psc' = {}
       ELSE UNCHANGED <<tlb, psc>>
    /\ \E c \in pool :
          LET l == Reached(mem, va)
          IN  /\ pool' = pool \ {c}
              /\ mem' = Link(mem, Walk(mem, va)[l], index(l, va), c, NewTable(End(mem, va), l))

Starves ==
    /\ Finish("OUT_OF_MEMORY") /\ starved' = TRUE
    /\ UNCHANGED <<mem, pool, tlb, psc>>

LEMMA GrowIs ==
    ASSUME NEW va, NEW after, grow(va, after)
    PROVE  Starves \/ Grown(va, after)
<1>1. PICK l : l = Reached(mem, va)
  BY Zenon
<1>2. PICK e : e = End(mem, va)
  BY Zenon
<1>3. path(va) = Walk(mem, va) /\ reached_level(va) = l /\ slot(va, l) = e
  BY <1>1, <1>2, PathIsWalk, TranslateIs, Zenon DEF End
<1>4. CASE pool = {}
  BY <1>4, Zenon DEF grow, Starves
<1>5. CASE pool # {}
  <2>1. PICK child \in pool :
           /\ pool' = pool \ {child}
           /\ mem' = [mem EXCEPT ![path(va)[l]][index(l, va)] = table_entry(child),
                                 ![child] = IF present(e) THEN split(e, l) ELSE EmptyTable]
    BY <1>3, <1>5, Zenon DEF grow
  <2>2. mem' = Link(mem, Walk(mem, va)[l], index(l, va), child, NewTable(e, l))
    BY <1>3, <2>1, Zenon DEF Link, Put, NewTable
  <2>3. /\ op' = after /\ UNCHANGED <<answer, starved>>
        /\ IF present(e) THEN flush(va) ELSE UNCHANGED <<tlb, psc>>
    BY <1>3, <1>5, Zenon DEF grow
  <2>4. IF present(e) THEN tlb' = Dropped(tlb, va) /\ psc' = {} ELSE UNCHANGED <<tlb, psc>>
    BY <2>3, Zenon DEF flush, Dropped
  <2>5. Grown(va, after)
    BY <1>1, <1>2, <2>1, <2>2, <2>3, <2>4, Zenon DEF Grown
  <2> QED
    BY <2>5, Zenon
<1> QED
  BY <1>4, <1>5, Zenon

LEMMA ReplacedLeaf ==
    ASSUME Tree, Caches, NEW va \in Pages, NEW l \in 1 .. Levels, Walk(mem, va)[l] # None,
           Slot(mem, va, l).kind # "table", NEW e \in {NoEntry} \cup LeafEntries,
           Replaced(va, l, e), UNCHANGED pool
    PROVE  /\ Tree' /\ Caches'
           /\ \E lev \in [Tables -> 1 .. Levels] : /\ TreeAt(mem, pool, lev)
                                                   /\ LeafWritten(mem, mem', pool, lev, va, l, e)
<1>1. PICK lev \in [Tables -> 1 .. Levels] : TreeAt(mem, pool, lev)
  BY Zenon DEF Tree
<1>2. mem' = Put(mem, Walk(mem, va)[l], index(l, va), e)
  BY Zenon DEF Replaced
<1>3. LeafWritten(mem, mem', pool, lev, va, l, e)
  BY <1>1, <1>2, LeafEffect, Zenon
<1>4. Tree'
  BY <1>3, Zenon DEF Tree, LeafWritten
<1>5. End(mem, va) = Slot(mem, va, l)
  BY <1>1, PagesNat, EndUnique, Zenon
<1>6. tlb' = IF present(End(mem, va)) THEN Dropped(tlb, va) ELSE tlb
  BY <1>5, Zenon DEF Replaced
<1>7. /\ \A wa \in Pages : Page(l, wa) = Page(l, va) => Reached(mem, wa) = l /\ End(mem, wa) = End(mem, va)
      /\ \A wa \in Pages : Page(l, wa) # Page(l, va) => EndKept(mem, mem', wa)
  BY <1>3, Zenon DEF LeafWritten
<1>8. \A c \in tlb : Cached(mem, c)
  BY Zenon DEF Caches
<1>9. \A c \in tlb' : Cached(mem', c)
  BY <1>6, <1>7, <1>8, CachesRight
<1>10. psc' \subseteq Tables \ pool'
  BY Zenon DEF Caches, Replaced
<1>11. Caches'
  BY <1>9, <1>10, Zenon DEF Caches
<1> QED
  BY <1>1, <1>3, <1>4, <1>11, Zenon

LEMMA NewTableType ==
    ASSUME NEW e \in {NoEntry} \cup LeafEntries, NEW l \in 2 .. Levels
    PROVE  /\ NewTable(e, l) \in [Indexes -> {NoEntry} \cup LeafEntries]
           /\ present(e) => NewTable(e, l) # EmptyTable
<1>1. CASE present(e)
  <2>1. e \in LeafEntries
    BY <1>1 DEF present, NoEntry
  <2>2. PICK d \in Nat : d = PagesAt(l - 1)
    BY FormatFacts
  <2>3. ASSUME NEW i \in Indexes PROVE leaf_entry(e.to + i * PagesAt(l - 1), e.flags) \in LeafEntries
    <3>1. i \in Nat
      BY FormatFacts DEF Indexes
    <3>2. i * d \in Nat
      BY <3>1
    <3>3. e.to + i * PagesAt(l - 1) \in Nat /\ e.flags \in SUBSET FlagNames
      BY <2>1, <2>2, <3>2 DEF LeafEntries
    <3> QED
      BY <3>3, Zenon DEF leaf_entry, LeafEntries
  <2>4. split(e, l) \in [Indexes -> LeafEntries]
    BY <2>3, Zenon DEF split
  <2>5. 0 \in Indexes
    BY FormatFacts DEF Indexes
  <2>6. split(e, l) # EmptyTable
    BY <2>4, <2>5 DEF EmptyTable, LeafEntries, NoEntry
  <2> QED
    BY <1>1, <2>4, <2>6, Zenon DEF NewTable
<1>2. CASE ~present(e)
  BY <1>2, Zenon DEF NewTable, EmptyTable
<1> QED
  BY <1>1, <1>2, Zenon

LEMMA GrownTree ==
    ASSUME Tree, Caches, NEW va \in Pages, NEW l \in 2 .. Levels, l = Reached(mem, va),
           NEW after, Grown(va, after)
    PROVE  /\ Tree' /\ Caches'
           /\ \E c \in pool : /\ pool' = pool \ {c}
                              /\ TableLinked(mem, mem', pool, va, l, c, NewTable(End(mem, va), l))
<1>1. PICK lev \in [Tables -> 1 .. Levels] : TreeAt(mem, pool, lev)
  BY Zenon DEF Tree
<1>2. PICK x : x = NewTable(End(mem, va), l)
  BY Zenon
<1>3. PICK c \in pool : pool' = pool \ {c} /\ mem' = Link(mem, Walk(mem, va)[l], index(l, va), c, x)
  BY <1>2, Zenon DEF Grown
<1>4. x \in [Indexes -> {NoEntry} \cup LeafEntries]
  BY <1>1, <1>2, PagesNat, EndIs, NewTableType, Zenon
<1>5. TableLinked(mem, mem', pool, va, l, c, x)
  BY <1>1, <1>3, <1>4, LinkEffect, Zenon
<1>6. Tree'
  BY <1>3, <1>5, Zenon DEF Tree, TableLinked
<1>7. tlb' = IF present(End(mem, va)) THEN Dropped(tlb, va) ELSE tlb
  BY Zenon DEF Grown
<1>8. /\ \A wa \in Pages : Page(l, wa) = Page(l, va) => Reached(mem, wa) = l /\ End(mem, wa) = End(mem, va)
      /\ \A wa \in Pages : Page(l, wa) # Page(l, va) => EndKept(mem, mem', wa)
  BY <1>5, Zenon DEF TableLinked
<1>9. \A c2 \in tlb : Cached(mem, c2)
  BY Zenon DEF Caches
<1>10. l \in 1 .. Levels
  BY FormatFacts
<1>11. \A c2 \in tlb' : Cached(mem', c2)
  BY <1>7, <1>8, <1>9, <1>10, CachesRight
<1>12. psc' \subseteq Tables \ pool'
  BY <1>3, Zenon DEF Caches, Grown
<1>13. Caches'
  BY <1>11, <1>12, Zenon DEF Caches
<1> QED
  BY <1>2, <1>3, <1>5, <1>6, <1>13, Zenon

LEMMA PrunedTree ==
    ASSUME Tree, Caches, NEW va \in Pages, NEW l \in 1 .. Levels - 1, l = Reached(mem, va),
           NEW u, u = Walk(mem, va)[l], mem[u] = EmptyTable,
           Replaced(va, l + 1, NoEntry), pool' = IF u \in Image THEN pool ELSE pool \cup {u}
    PROVE  /\ Tree' /\ Caches'
           /\ \E lev \in [Tables -> 1 .. Levels] : TableUnlinked(mem, mem', pool', lev, va, l, u)
<1>1. PICK lev \in [Tables -> 1 .. Levels] : TreeAt(mem, pool, lev)
  BY Zenon DEF Tree
<1>2. mem' = Put(mem, Walk(mem, va)[l + 1], index(l + 1, va), NoEntry)
  BY Zenon DEF Replaced
<1>3. PICK n, p : n = mem' /\ p = pool'
  BY Zenon
<1>4. TableUnlinked(mem, n, p, lev, va, l, u)
  BY <1>1, <1>2, <1>3, UnlinkEffect, Zenon
<1>5. Tree'
  BY <1>3, <1>4, Zenon DEF Tree, TableUnlinked
<1>6. present(Slot(mem, va, l + 1))
  <2>1. Slot(mem, va, l + 1) = table_entry(u)
    BY <1>4, Zenon DEF TableUnlinked
  <2>2. present(table_entry(u))
    BY Zenon DEF present, table_entry
  <2> QED
    BY <2>1, <2>2, Zenon
<1>7. tlb' = Dropped(tlb, va) /\ psc' = {}
  BY <1>6, Zenon DEF Replaced
<1>8. ASSUME NEW c \in tlb' PROVE Cached(mem', c)
  <2>1. c \in tlb
    BY <1>7, Zenon DEF Dropped
  <2>2. Cached(mem, c)
    BY <2>1, Zenon DEF Caches
  <2>3. PICK a \in Pages : a = c.page /\ End(mem, a).kind = "leaf"
    BY <2>2, Zenon DEF Cached, End
  <2>4. Page(l + 1, a) # Page(l + 1, va)
    <3>1. Page(l + 1, a) = Page(l + 1, va) => End(mem, a) = NoEntry
      BY <1>4, Zenon DEF TableUnlinked
    <3>2. NoEntry.kind # "leaf"
      BY Zenon DEF NoEntry
    <3> QED
      BY <2>3, <3>1, <3>2, Zenon
  <2>5. EndKept(mem, n, a)
    BY <1>4, <2>4, Zenon DEF TableUnlinked
  <2> QED
    BY <1>3, <2>2, <2>3, <2>5, CachedKept, Zenon
<1>9. Caches'
  BY <1>7, <1>8, Zenon DEF Caches
<1> QED
  BY <1>3, <1>4, <1>5, <1>9, Zenon

LEMMA AccessIs ==
    ASSUME Tree, NEW va \in 0 .. Space - 1, Access(va)
    PROVE  /\ va \in Pages /\ End(mem, va) \in LeafEntries /\ Used(End(mem, va)) \in LeafEntries
           /\ LET l == Reached(mem, va)
              IN  /\ mem' = Put(mem, Walk(mem, va)[l], index(l, va), Used(End(mem, va)))
                  /\ tlb' = tlb \cup {[page |-> va - (va % PagesAt(l)), level |-> l,
                                       frame |-> End(mem, va).to, flags |-> End(mem, va).flags]}
                  /\ psc' = psc \cup {Walk(mem, va)[k] : k \in l .. Levels}
           /\ UNCHANGED <<pool, op, answer, starved>>
<1>1. PICK lev \in [Tables -> 1 .. Levels] : TreeAt(mem, pool, lev)
  BY Zenon DEF Tree
<1>2. PICK l \in 1 .. Levels : l = Reached(mem, va)
  BY <1>1, FormatFacts, EndIs
<1>3. PICK e : e = End(mem, va) /\ e = Slot(mem, va, l)
  BY <1>2, Zenon DEF End
<1>4. path(va) = Walk(mem, va) /\ reached_level(va) = l /\ Leaf(va) = e
      /\ translate(va) = Translation(mem, va)
  BY <1>2, <1>3, PathIsWalk, TranslateIs, Zenon DEF Leaf
<1>5. valid(va) /\ present(e)
  BY <1>2, <1>3, <1>4, Zenon DEF Access, Translation
<1>6. va \in Pages /\ va \in Nat
  BY <1>5, FormatFacts DEF Pages
<1>7. e \in LeafEntries /\ Used(e) \in LeafEntries
  <2>1. e \in LeafEntries
    BY <1>1, <1>3, <1>5, <1>6, EndIs, Zenon
  <2> QED
    BY <2>1, Zenon DEF LeafEntries, Used
<1>8. mem' = [mem EXCEPT ![path(va)[l]][index(l, va)].accessed = TRUE]
  BY <1>4, Zenon DEF Access
<1>9. mem' = Put(mem, Walk(mem, va)[l], index(l, va), Used(e))
  BY <1>3, <1>4, <1>8, Zenon DEF Put, Used, Slot
<1>10. /\ tlb' = tlb \cup {[page |-> va - (va % PagesAt(l)), level |-> l, frame |-> e.to, flags |-> e.flags]}
       /\ psc' = psc \cup {Walk(mem, va)[k] : k \in l .. Levels}
       /\ UNCHANGED <<pool, op, answer, starved>>
  BY <1>4, Zenon DEF Access
<1> QED
  BY <1>2, <1>3, <1>6, <1>7, <1>9, <1>10, Zenon

LEMMA AccessTree ==
    ASSUME Tree, Caches, NEW va \in 0 .. Space - 1, Access(va)
    PROVE  /\ Tree' /\ Caches'
           /\ \E lev \in [Tables -> 1 .. Levels] :
                 /\ TreeAt(mem, pool, lev)
                 /\ LeafWritten(mem, mem', pool, lev, va, Reached(mem, va), Used(End(mem, va)))
<1>1. PICK lev \in [Tables -> 1 .. Levels] : TreeAt(mem, pool, lev)
  BY Zenon DEF Tree
<1>2. va \in Pages /\ va \in Nat
  BY AccessIs, PagesNat, Zenon
<1>3. PICK l \in 1 .. Levels : l = Reached(mem, va)
  BY <1>1, <1>2, EndIs, Zenon
<1>4. PICK e \in LeafEntries : e = End(mem, va) /\ e = Slot(mem, va, l)
  BY <1>3, AccessIs, Zenon DEF End
<1>5. PICK c : c = [page |-> va - (va % PagesAt(l)), level |-> l, frame |-> e.to, flags |-> e.flags]
  BY Zenon
<1>6. /\ mem' = Put(mem, Walk(mem, va)[l], index(l, va), Used(e))
      /\ tlb' = tlb \cup {c} /\ psc' = psc \cup {Walk(mem, va)[k] : k \in l .. Levels}
      /\ UNCHANGED pool /\ Used(e) \in LeafEntries
  BY <1>3, <1>4, <1>5, AccessIs, Zenon
<1>7. Walk(mem, va)[l] # None /\ Slot(mem, va, l).kind # "table"
  BY <1>1, <1>2, <1>3, <1>4, EndIs, Zenon
<1>8. PICK f \in LeafEntries : f = Used(e)
  BY <1>6, Zenon
<1>9. LeafWritten(mem, mem', pool, lev, va, l, f)
  <2>1. mem' = Put(mem, Walk(mem, va)[l], index(l, va), f) /\ f \in {NoEntry} \cup LeafEntries
    BY <1>6, <1>8, Zenon
  <2> QED
    BY <1>1, <1>2, <1>7, <2>1, LeafEffect, Zenon
<1>10. Tree'
  BY <1>6, <1>9, Zenon DEF Tree, LeafWritten
<1>11. f.kind = "leaf" /\ f.to = e.to /\ f.flags = e.flags
  BY <1>8, Zenon DEF Used, LeafEntries
<1>12. ASSUME NEW d \in tlb PROVE Cached(mem', d)
  <2>1. Cached(mem, d)
    BY Zenon DEF Caches
  <2>2. PICK a \in Pages : a = d.page
    BY <2>1, Zenon DEF Cached
  <2>3. CASE Page(l, a) # Page(l, va)
    BY <1>9, <2>1, <2>2, <2>3, CachedKept, Zenon DEF LeafWritten
  <2>4. CASE Page(l, a) = Page(l, va)
    <3>1. Reached(mem, a) = l /\ End(mem, a) = e /\ Reached(mem', a) = l /\ End(mem', a) = f
      BY <1>4, <1>9, <2>4, Zenon DEF LeafWritten
    <3> QED
      BY <1>11, <2>1, <2>2, <3>1, Zenon DEF Cached, End
  <2> QED
    BY <2>3, <2>4, Zenon
<1>13. Cached(mem', c)
  <2>1. PICK base : base = va - (va % PagesAt(l))
    BY Zenon
  <2>2. base \in Nat /\ aligned(base, l) /\ Page(l, base) = Page(l, va)
    BY <1>2, <2>1, PageBase, Zenon
  <2>3. base \in Pages
    <3>1. va \in 0 .. Space - 1 /\ valid(va)
      BY <1>2, PagesNat, Zenon
    <3>2. base \in 0 .. Space - 1 /\ valid(base)
      BY <2>2, <3>1, PageValid, Zenon
    <3> QED
      BY <3>2, Zenon DEF Pages
  <2>4. Reached(mem', base) = l /\ End(mem', base) = f
    BY <1>9, <2>2, <2>3, Zenon DEF LeafWritten
  <2>5. c.page = base /\ c.level = l /\ c.frame = e.to /\ c.flags = e.flags
    BY <1>5, <2>1, Zenon
  <2>6. c \in [page : Pages, level : 1 .. Levels, frame : Nat, flags : SUBSET FlagNames]
    BY <1>5, <2>1, <2>3, Zenon DEF LeafEntries
  <2> QED
    BY <1>11, <2>2, <2>4, <2>5, <2>6, Zenon DEF Cached, End
<1>14. psc' \subseteq Tables \ pool'
  <2>1. ASSUME NEW k \in l .. Levels PROVE Walk(mem, va)[k] \in Tables \ pool
    <3>1. k \in 1 .. Levels /\ k >= l
      BY FormatFacts
    <3>2. Walk(mem, va)[k] # None
      BY <1>1, <1>2, <1>3, <3>1, EndIs, Zenon
    <3> QED
      BY <1>1, <1>2, <3>1, <3>2, OnWalk, Zenon
  <2> QED
    BY <1>6, <2>1, Zenon DEF Caches
<1>15. Caches'
  BY <1>6, <1>12, <1>13, <1>14, Zenon DEF Caches
<1> QED
  BY <1>1, <1>3, <1>4, <1>8, <1>9, <1>10, <1>15, Zenon

-----------------------------------------------------------------------------
LEMMA HereType ==
    ASSUME OpType
    PROVE  here \in 0 .. Space - 1
<1>1. op.va + op.offset \in Int /\ Space \in Nat \ {0}
  BY FormatFacts DEF OpType
<1>2. (op.va + op.offset) % Space \in 0 .. Space - 1
  BY <1>1, Division, Zenon
<1> QED
  BY <1>2, Zenon DEF here

LEMMA MapCases ==
    ASSUME map_leaf, NEW va, va = here, NEW e, e = leaf_entry(op.frame + op.offset, op.flags),
           NEW l, l = op.level
    PROVE  /\ op.kind = "map"
           /\ \/ /\ ~valid(va) \/ ~aligned(va, l) \/ ~aligned(op.frame + op.offset, l)
                 /\ Fail("INVALID_ADDRESS")
              \/ /\ valid(va) /\ aligned(va, l) /\ aligned(op.frame + op.offset, l)
                 /\ \/ Reached(mem, va) > l /\ (Starves \/ Grown(va, op))
                    \/ /\ ~(Reached(mem, va) > l) /\ present(Slot(mem, va, l))
                       /\ Slot(mem, va, l) # e /\ Fail("CONFLICT")
                    \/ /\ ~(Reached(mem, va) > l) /\ present(Slot(mem, va, l)) /\ Slot(mem, va, l) = e
                       /\ UNCHANGED <<mem, pool, starved, tlb, psc>> /\ Advance(PagesAt(l))
                    \/ /\ ~(Reached(mem, va) > l) /\ ~present(Slot(mem, va, l))
                       /\ Replaced(va, l, e)
                       /\ UNCHANGED <<pool, starved>> /\ Advance(PagesAt(l))
<1>1. reached_level(va) = Reached(mem, va) /\ slot(va, l) = Slot(mem, va, l)
  BY TranslateIs, Zenon
<1>2. op.kind = "map"
  BY Zenon DEF map_leaf
<1>3. CASE ~valid(va) \/ ~aligned(va, l) \/ ~aligned(op.frame + op.offset, l)
  <2>1. Fail("INVALID_ADDRESS")
    BY <1>3, Zenon DEF map_leaf
  <2> QED
    BY <1>2, <1>3, <2>1, Zenon
<1>4. CASE valid(va) /\ aligned(va, l) /\ aligned(op.frame + op.offset, l)
  <2>1. CASE Reached(mem, va) > l
    <3>1. grow(va, op)
      BY <1>1, <1>4, <2>1, Zenon DEF map_leaf
    <3>2. Starves \/ Grown(va, op)
      BY <3>1, GrowIs, Zenon
    <3> QED
      BY <1>2, <1>4, <2>1, <3>2, Zenon
  <2>2. CASE ~(Reached(mem, va) > l)
    <3>1. CASE present(Slot(mem, va, l)) /\ Slot(mem, va, l) # e
      <4>1. Fail("CONFLICT")
        BY <1>1, <1>4, <2>2, <3>1, Zenon DEF map_leaf
      <4> QED
        BY <1>2, <1>4, <2>2, <3>1, <4>1, Zenon
    <3>2. CASE present(Slot(mem, va, l)) /\ Slot(mem, va, l) = e
      <4>1. UNCHANGED <<mem, tlb, psc>> /\ Advance(PagesAt(l)) /\ UNCHANGED <<pool, starved>>
        BY <1>1, <1>4, <2>2, <3>2, Zenon DEF map_leaf
      <4> QED
        BY <1>2, <1>4, <2>2, <3>2, <4>1, Zenon
    <3>3. CASE ~present(Slot(mem, va, l))
      <4>1. replace(va, l, e) /\ Advance(PagesAt(l)) /\ UNCHANGED <<pool, starved>>
        BY <1>1, <1>4, <2>2, <3>3, Zenon DEF map_leaf
      <4>2. Replaced(va, l, e)
        BY <4>1, ReplaceIs, Zenon
      <4> QED
        BY <1>2, <1>4, <2>2, <3>3, <4>1, <4>2, Zenon
    <3> QED
      BY <3>1, <3>2, <3>3, Zenon
  <2> QED
    BY <2>1, <2>2, Zenon
<1> QED
  BY <1>3, <1>4, Zenon

LEMMA ProtectCases ==
    ASSUME protect_leaf, NEW va, va = here, NEW l, l = op.level
    PROVE  /\ op.kind = "protect"
           /\ \/ (~valid(va) \/ ~aligned(va, l)) /\ Fail("INVALID_ADDRESS")
              \/ /\ valid(va) /\ aligned(va, l)
                 /\ \/ /\ Reached(mem, va) > l /\ present(End(mem, va))
                       /\ Starves \/ Grown(va, op)
                    \/ Fail("NOT_MAPPED") \/ Fail("CONFLICT")
                    \/ /\ ~(Reached(mem, va) > l) /\ Slot(mem, va, l).kind = "leaf"
                       /\ Replaced(va, l, leaf_entry(Slot(mem, va, l).to, op.flags))
                       /\ UNCHANGED <<pool, starved>> /\ Advance(PagesAt(l))
<1>1. reached_level(va) = Reached(mem, va) /\ slot(va, l) = Slot(mem, va, l)
      /\ slot(va, Reached(mem, va)) = End(mem, va)
  BY TranslateIs, Zenon DEF End
<1>2. op.kind = "protect"
  BY Zenon DEF protect_leaf
<1>3. CASE ~valid(va) \/ ~aligned(va, l)
  <2>1. Fail("INVALID_ADDRESS")
    BY <1>3, Zenon DEF protect_leaf
  <2> QED
    BY <1>2, <1>3, <2>1, Zenon
<1>4. CASE valid(va) /\ aligned(va, l)
  <2>1. CASE Reached(mem, va) > l
    <3>1. CASE present(End(mem, va))
      <4>1. grow(va, op)
        BY <1>1, <1>4, <2>1, <3>1, Zenon DEF protect_leaf
      <4>2. Starves \/ Grown(va, op)
        BY <4>1, GrowIs, Zenon
      <4> QED
        BY <1>2, <1>4, <2>1, <3>1, <4>2, Zenon
    <3>2. CASE ~present(End(mem, va))
      <4>1. Fail("NOT_MAPPED")
        BY <1>1, <1>4, <2>1, <3>2, Zenon DEF protect_leaf
      <4> QED
        BY <1>2, <1>4, <4>1, Zenon
    <3> QED
      BY <3>1, <3>2, Zenon
  <2>2. CASE ~(Reached(mem, va) > l)
    <3>1. CASE ~present(Slot(mem, va, l))
      <4>1. Fail("NOT_MAPPED")
        BY <1>1, <1>4, <2>2, <3>1, Zenon DEF protect_leaf
      <4> QED
        BY <1>2, <1>4, <4>1, Zenon
    <3>2. CASE present(Slot(mem, va, l)) /\ Slot(mem, va, l).kind # "leaf"
      <4>1. Fail("CONFLICT")
        BY <1>1, <1>4, <2>2, <3>2, Zenon DEF protect_leaf
      <4> QED
        BY <1>2, <1>4, <4>1, Zenon
    <3>3. CASE present(Slot(mem, va, l)) /\ Slot(mem, va, l).kind = "leaf"
      <4> DEFINE e == leaf_entry(Slot(mem, va, l).to, op.flags)
      <4>1. replace(va, l, e) /\ Advance(PagesAt(l)) /\ UNCHANGED <<pool, starved>>
        BY <1>1, <1>4, <2>2, <3>3, Zenon DEF protect_leaf
      <4>2. Replaced(va, l, e)
        BY <4>1, ReplaceIs, Zenon
      <4> QED
        BY <1>2, <1>4, <2>2, <3>3, <4>1, <4>2, Zenon
    <3> QED
      BY <3>1, <3>2, <3>3, Zenon
  <2> QED
    BY <2>1, <2>2, Zenon
<1> QED
  BY <1>3, <1>4, Zenon

\* Whether split_at has still to split the leaf that covers b.
ToSplit(b, grown) ==
    /\ Reached(mem, b) > op.level /\ present(End(mem, b))
    /\ grown \/ ~aligned(b, Reached(mem, b))

Ahead == UNCHANGED <<mem, pool, answer, starved, tlb, psc>>

LEMMA SplitCases ==
    ASSUME split_boundary, NEW end, end = (op.va + op.length) % Space, NEW va, va = op.va
    PROVE  /\ op.kind = "unmap"
           /\ \/ /\ op.stage \in {"split_first", "grow_first"}
                 /\ \/ /\ ToSplit(va, op.stage = "grow_first")
                       /\ Starves \/ Grown(va, [op EXCEPT !.stage = "grow_first"])
                    \/ /\ ~ToSplit(va, op.stage = "grow_first")
                       /\ op' = [op EXCEPT !.stage = "split_end"] /\ Ahead
              \/ /\ op.stage \in {"split_end", "grow_end"}
                 /\ \/ /\ end > va /\ valid(end) /\ ToSplit(end, op.stage = "grow_end")
                       /\ Starves \/ Grown(end, [op EXCEPT !.stage = "grow_end"])
                    \/ /\ end > va /\ valid(end) => ~ToSplit(end, op.stage = "grow_end")
                       /\ op' = [op EXCEPT !.stage = "leaf"] /\ Ahead
<1> DEFINE first == op.stage \in {"split_first", "grow_first"}
<1> DEFINE grown == op.stage \in {"grow_first", "grow_end"}
<1>1. op.kind = "unmap" /\ op.stage \in {"split_first", "grow_first", "split_end", "grow_end"}
  BY Zenon DEF split_boundary
<1>2. ASSUME NEW b PROVE must_split(b, grown) <=> ToSplit(b, grown)
  <2>1. reached_level(b) = Reached(mem, b) /\ slot(b, Reached(mem, b)) = End(mem, b)
    BY TranslateIs, Zenon DEF End
  <2> QED
    BY <2>1, Zenon DEF must_split, ToSplit
<1>3. CASE first
  <2>1. grown <=> op.stage = "grow_first"
    BY <1>3, Zenon
  <2>2. CASE ToSplit(va, grown)
    <3>1. must_split(va, grown)
      BY <1>2, <2>2, Zenon
    <3>2. grow(va, [op EXCEPT !.stage = "grow_first"])
      BY <1>3, <3>1, Zenon DEF split_boundary
    <3>3. Starves \/ Grown(va, [op EXCEPT !.stage = "grow_first"])
      BY <3>2, GrowIs, Zenon
    <3> QED
      BY <1>1, <1>3, <2>1, <2>2, <3>3, Zenon DEF ToSplit
  <2>3. CASE ~ToSplit(va, grown)
    <3>1. ~must_split(va, grown)
      BY <1>2, <2>3, Zenon
    <3>2. op' = [op EXCEPT !.stage = "split_end"] /\ Ahead
      BY <1>3, <3>1, Zenon DEF split_boundary, Ahead
    <3> QED
      BY <1>1, <1>3, <2>1, <2>3, <3>2, Zenon DEF ToSplit
  <2> QED
    BY <2>2, <2>3, Zenon
<1>4. CASE ~first
  <2>1. (grown <=> op.stage = "grow_end") /\ op.stage \in {"split_end", "grow_end"}
    BY <1>1, <1>4, Zenon
  <2>2. CASE end > va /\ valid(end) /\ ToSplit(end, grown)
    <3>1. must_split(end, grown)
      BY <1>2, <2>2, Zenon
    <3>2. grow(end, [op EXCEPT !.stage = "grow_end"])
      BY <1>4, <2>2, <3>1, Zenon DEF split_boundary
    <3>3. Starves \/ Grown(end, [op EXCEPT !.stage = "grow_end"])
      BY <3>2, GrowIs, Zenon
    <3> QED
      BY <1>1, <2>1, <2>2, <3>3, Zenon DEF ToSplit
  <2>3. CASE ~(end > va /\ valid(end) /\ ToSplit(end, grown))
    <3>1. ~(end > va /\ valid(end) /\ must_split(end, grown))
      BY <1>2, <2>3, Zenon
    <3>2. op' = [op EXCEPT !.stage = "leaf"] /\ Ahead
      BY <1>4, <3>1, Zenon DEF split_boundary, Ahead
    <3> QED
      BY <1>1, <2>1, <2>3, <3>2, Zenon DEF ToSplit
  <2> QED
    BY <2>2, <2>3, Zenon
<1> QED
  BY <1>3, <1>4, Zenon

LEMMA RemoveCases ==
    ASSUME remove_leaf, NEW va, va = here
    PROVE  /\ op.kind = "unmap" /\ op.stage = "leaf"
           /\ \/ Fail("INVALID_ADDRESS") \/ Fail("NOT_MAPPED")
              \/ /\ valid(va) /\ present(End(mem, va))
                 /\ Replaced(va, Reached(mem, va), NoEntry)
                 /\ answer' = [status |-> "removed", frame |-> End(mem, va).to,
                               pages |-> PagesAt(Reached(mem, va))]
                 /\ op' = [op EXCEPT !.stage = "prune", !.prune = Reached(mem, va)]
                 /\ UNCHANGED <<pool, starved>>
<1>1. reached_level(va) = Reached(mem, va) /\ slot(va, Reached(mem, va)) = End(mem, va)
  BY TranslateIs, Zenon DEF End
<1>2. op.kind = "unmap" /\ op.stage = "leaf"
  BY Zenon DEF remove_leaf
<1>3. CASE ~valid(va)
  <2>1. Fail("INVALID_ADDRESS")
    BY <1>3, Zenon DEF remove_leaf
  <2> QED
    BY <1>2, <2>1, Zenon
<1>4. CASE valid(va) /\ ~present(End(mem, va))
  <2>1. Fail("NOT_MAPPED")
    BY <1>1, <1>4, Zenon DEF remove_leaf
  <2> QED
    BY <1>2, <2>1, Zenon
<1>5. CASE valid(va) /\ present(End(mem, va))
  <2>1. /\ replace(va, Reached(mem, va), NoEntry)
        /\ answer' = [status |-> "removed", frame |-> End(mem, va).to,
                      pages |-> PagesAt(Reached(mem, va))]
        /\ op' = [op EXCEPT !.stage = "prune", !.prune = Reached(mem, va)]
        /\ UNCHANGED <<pool, starved>>
    BY <1>1, <1>5, Zenon DEF remove_leaf
  <2>2. Replaced(va, Reached(mem, va), NoEntry)
    BY <2>1, ReplaceIs, Zenon
  <2> QED
    BY <1>2, <1>5, <2>1, <2>2, Zenon
<1> QED
  BY <1>3, <1>4, <1>5, Zenon

LEMMA PruneCases ==
    ASSUME prune, NEW va, va = here, NEW l, l = op.prune
    PROVE  /\ op.kind = "unmap" /\ op.stage = "prune" /\ UNCHANGED starved
           /\ LET u == Walk(mem, va)[l]
              IN  \/ /\ l < Levels /\ mem[u] = EmptyTable
                     /\ Replaced(va, l + 1, NoEntry)
                     /\ pool' = IF u \in Image THEN pool ELSE pool \cup {u}
                     /\ op' = [op EXCEPT !.prune = l + 1]
                     /\ UNCHANGED answer
                  \/ /\ ~(l < Levels /\ mem[u] = EmptyTable)
                     /\ Advance(answer.pages) /\ UNCHANGED <<mem, pool, tlb, psc>>
<1>1. path(va) = Walk(mem, va)
  BY PathIsWalk, Zenon
<1>2. PICK u : u = Walk(mem, va)[l] /\ u = path(here)[op.prune]
  BY <1>1, Zenon
<1>3. prunable(op.prune, u) <=> l < Levels /\ mem[u] = EmptyTable
  BY Zenon DEF prunable, is_table_empty
<1>4. op.kind = "unmap" /\ op.stage = "prune" /\ UNCHANGED starved
  BY Zenon DEF prune
<1>5. CASE l < Levels /\ mem[u] = EmptyTable
  <2>1. /\ replace(va, l + 1, NoEntry)
        /\ pool' = IF u \in Image THEN pool ELSE pool \cup {u}
        /\ op' = [op EXCEPT !.prune = l + 1] /\ UNCHANGED answer
    BY <1>2, <1>3, <1>5, Zenon DEF prune
  <2>2. Replaced(va, l + 1, NoEntry)
    BY <2>1, ReplaceIs, Zenon
  <2> QED
    BY <1>2, <1>4, <1>5, <2>1, <2>2, Zenon
<1>6. CASE ~(l < Levels /\ mem[u] = EmptyTable)
  <2>1. Advance(answer.pages) /\ UNCHANGED <<mem, pool, tlb, psc>>
    BY <1>2, <1>3, <1>6, Zenon DEF prune
  <2> QED
    BY <1>2, <1>4, <1>6, <2>1, Zenon
<1> QED
  BY <1>5, <1>6, Zenon
=============================================================================
