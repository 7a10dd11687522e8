---------------------------- MODULE MallocProofs ----------------------------
(***************************************************************************)
(* Proofs about Malloc, for any number of pages, any table and any         *)
(* requests.  As long as no call has done harm, owners and flags fit       *)
(* together: what is taken has an owner, and the marks at which free stops *)
(* are the last pages and blocks of owners.  Owners stay apart for as long *)
(* as nobody has taken what was not free, and counts exact for as long as  *)
(* nothing else has changed blocks in use without counting them.           *)
(***************************************************************************)
EXTENDS Malloc, PageAllocProofs, FiniteSetTheorems

PageFlags  == SUBSET {"TAKEN", "LAST", "FIRST", "MALLOC"}
BlockFlags == SUBSET {"TAKEN", "LAST", "FIRST"}
BlockTable == [Blocks -> BlockFlags]

\* A free block keeps no flag.
Clean(b) == \A k \in Blocks : FreeBlock(b, k) => b[k] = {}

\* The blocks in use.
Taken(b) == {k \in Blocks : ~FreeBlock(b, k)}

LEMMA Sizing ==
  /\ Table \in Nat /\ Table >= 2 /\ PageBlocks \in Nat /\ PageBlocks >= Table
  /\ CountWidth \in Nat /\ CountWidth >= Table /\ Allocable = Table - 1
  /\ \A k : k \in Blocks <=> k \in Int /\ 0 <= k /\ k <= Table - 2
  BY MallocAssumption DEF Blocks, Allocable

LEMMA NullIsNoPage == Null \notin Pages
  BY PageAssumption, PagesAre

-----------------------------------------------------------------------------
(***************************************************************************)
(* The blocks of one page.                                                 *)
(***************************************************************************)

LEMMA BlockFitsFirst ==
  ASSUME NEW b, NEW s \in 1..Allocable, BlockFits(b, s) # {}
  PROVE  LET k == Min(BlockFits(b, s)) IN
         k \in Nat /\ k + s <= Table - 1 /\ FreeBlock(b, k)
<1>1. BlockFits(b, s) \in SUBSET Nat
  BY Sizing DEF BlockFits
<1>2. Min(BlockFits(b, s)) \in BlockFits(b, s)
  BY <1>1, MinProperties
<1>3. \A k \in BlockFits(b, s) : k \in Nat /\ k + s <= Table - 1 /\ FreeBlock(b, k)
  BY Sizing DEF BlockFits
<1> QED
  BY <1>2, <1>3

\* k..k+s-1 is inside the page.
Inside(k, s) == k \in Nat /\ s \in Nat \ {0} /\ k + s <= Table - 1

LEMMA MarkedTable ==
  ASSUME NEW b \in BlockTable, NEW k, NEW s, Inside(k, s)
  PROVE  LET m == BlocksMarked(b, k, s) IN
         /\ m \in BlockTable
         /\ Clean(b) => Clean(m)
         /\ \A j \in Blocks : ~FreeBlock(m, j) <=> ~FreeBlock(b, j) \/ j \in k..k + s - 1
         /\ \A j \in Blocks \ (k..k + s - 1) : m[j] = b[j]
         /\ \A j \in k..k + s - 1 : j \in Blocks
         /\ "LAST" \in m[k + s - 1]
         /\ Taken(m) = Taken(b) \union (k..k + s - 1)
<1> DEFINE m == BlocksMarked(b, k, s)
<1>1. m \in BlockTable
  BY Sizing DEF BlocksMarked, BlockTable, BlockFlags, Inside
<1>2. \A j \in k..k + s - 1 : j \in Blocks
  BY Sizing DEF Inside
<1>3. \A j \in Blocks \ (k..k + s - 1) : m[j] = b[j]
  BY DEF BlocksMarked
<1>4. \A j \in k..k + s - 1 : "TAKEN" \in m[j]
  BY <1>2 DEF BlocksMarked
<1>5. "LAST" \in m[k + s - 1]
  BY <1>2, Sizing DEF BlocksMarked, Inside
<1> HIDE DEF m
<1>6. \A j \in Blocks : ~FreeBlock(m, j) <=> ~FreeBlock(b, j) \/ j \in k..k + s - 1
  BY <1>3, <1>4 DEF FreeBlock
<1>7. Clean(b) => Clean(m)
  BY <1>3, <1>6 DEF Clean
<1>8. Taken(m) = Taken(b) \union (k..k + s - 1)
  BY <1>2, <1>6 DEF Taken
<1> QED
  BY <1>1, <1>2, <1>3, <1>5, <1>6, <1>7, <1>8 DEF m

LEMMA EmptyTable ==
  NoBlocks \in BlockTable /\ Clean(NoBlocks) /\ Taken(NoBlocks) = {}
  BY DEF NoBlocks, BlockTable, BlockFlags, Clean, Taken, FreeBlock

LEMMA TakenFinite ==
  ASSUME NEW b
  PROVE  /\ IsFiniteSet(Taken(b)) /\ Taken(b) \in SUBSET Blocks
         /\ Cardinality(Taken(b)) \in 0..Table - 1
<1>1. IsFiniteSet(Blocks) /\ Cardinality(Blocks) = Table - 1
  BY Sizing, FS_Interval DEF Blocks
<1>2. Taken(b) \in SUBSET Blocks
  BY DEF Taken
<1>3. IsFiniteSet(Taken(b)) /\ Cardinality(Taken(b)) <= Table - 1
  BY <1>1, <1>2, FS_Subset
<1>4. Cardinality(Taken(b)) \in Nat
  BY <1>3, FS_CardinalityType
<1> QED
  BY <1>2, <1>3, <1>4, Sizing

\* Marking free blocks adds as many to the blocks in use.
LEMMA MarkedCount ==
  ASSUME NEW b \in BlockTable, NEW k, NEW s, Inside(k, s),
         \A j \in k..k + s - 1 : FreeBlock(b, j)
  PROVE  Cardinality(Taken(BlocksMarked(b, k, s))) = Cardinality(Taken(b)) + s
<1>1. IsFiniteSet(k..k + s - 1) /\ Cardinality(k..k + s - 1) = s
  <2>1. k \in Int /\ k + s - 1 \in Int /\ ~(k > k + s - 1) /\ (k + s - 1) - k + 1 = s
    BY DEF Inside
  <2> QED
    BY <2>1, FS_Interval
<1>2. Taken(b) \intersect (k..k + s - 1) = {}
  BY DEF Taken
<1>3. Cardinality(Taken(b) \union (k..k + s - 1)) = Cardinality(Taken(b)) + s
  <2>1. Cardinality(Taken(b) \union (k..k + s - 1))
          = Cardinality(Taken(b)) + Cardinality(k..k + s - 1)
            - Cardinality(Taken(b) \intersect (k..k + s - 1))
    BY <1>1, TakenFinite, FS_Union
  <2>2. Cardinality(Taken(b) \intersect (k..k + s - 1)) = 0
    BY <1>2, FS_EmptySet
  <2> QED
    BY <1>1, <2>1, <2>2, TakenFinite DEF Inside
<1>4. Taken(BlocksMarked(b, k, s)) = Taken(b) \union (k..k + s - 1)
  BY MarkedTable
<1> QED
  BY <1>3, <1>4

\* What free makes of the blocks from k on.
LEMMA FreedTable ==
  ASSUME NEW b \in BlockTable, Clean(b), NEW k \in Blocks
  PROVE  LET f == BlocksFreed(b, k)
             given == {j \in Blocks : ~FreeBlock(b, j) /\ FreeBlock(f, j)}
         IN  /\ f \in BlockTable /\ Clean(f)
             /\ \A j \in Blocks : ~FreeBlock(f, j) => ~FreeBlock(b, j)
             /\ given \subseteq Taken(b)
             /\ IsFiniteSet(given) /\ Cardinality(given) \in Nat
             /\ Cardinality(Taken(f)) = Cardinality(Taken(b)) - Cardinality(given)
<1> DEFINE c == BlocksClosed(b, k)
           f == BlocksFreed(b, k)
           given == {j \in Blocks : ~FreeBlock(b, j) /\ FreeBlock(f, j)}
<1>1. c \in BlockTable /\ \A j \in Blocks : FreeBlock(c, j) <=> FreeBlock(b, j)
  BY Sizing DEF BlocksClosed, BlockTable, BlockFlags, FreeBlock
<1>2. Clean(c)
  BY <1>1 DEF Clean, BlocksClosed, FreeBlock, BlockTable
<1>3. f \in [Blocks -> BlockFlags] /\ \A j \in Blocks : f[j] = {} \/ f[j] = c[j]
  BY <1>1 DEF BlocksFreed, BlockTable, BlockFlags
<1> HIDE DEF c, f
<1>4. Clean(f) /\ \A j \in Blocks : ~FreeBlock(f, j) => ~FreeBlock(b, j)
  BY <1>1, <1>2, <1>3 DEF Clean, FreeBlock
<1>5. given \subseteq Taken(b) /\ Taken(f) = Taken(b) \ given
  BY <1>4 DEF Taken
<1>6. IsFiniteSet(given) /\ Cardinality(given) \in Nat
  BY <1>5, TakenFinite, FS_Subset, FS_CardinalityType
<1>7. Cardinality(Taken(f)) = Cardinality(Taken(b)) - Cardinality(given)
  <2>1. Taken(b) \intersect given = given
    BY <1>5
  <2> QED
    BY <1>5, <2>1, TakenFinite, FS_Difference
<1> QED
  BY <1>3, <1>4, <1>5, <1>6, <1>7 DEF f, BlockTable

-----------------------------------------------------------------------------
(***************************************************************************)
(* Types.                                                                  *)
(***************************************************************************)

Cell == Pages \X (0..PageBlocks - 1)

Typed(f, b, u, l) ==
  /\ f \in [Pages -> PageFlags]
  /\ b \in [Pages -> BlockTable] /\ \A i \in Pages : Clean(b[i])
  /\ u \in [Pages -> 0..CountWidth - 1]
  /\ l \in SUBSET SUBSET Cell

\* What a search finds lies inside its page.
Fitting(r) ==
  /\ r \in [size : 1..Allocable, page : Pages, first : Blocks,
            fresh : BOOLEAN, clean : BOOLEAN]
  /\ Inside(r.first, r.size)

Harms == {"overlap", "race", "release", "tail", "sweep"}

TypesInv ==
  /\ Typed(flags, block, usage, live)
  /\ found = Idle \/ Fitting(found)
  /\ emptied \in Pages \union {Null}
  /\ harm \subseteq Harms

LEMMA TypesImply == TypesInv => MTypeOK
<1> SUFFICES ASSUME TypesInv PROVE MTypeOK
  OBVIOUS
<1>1. \A i \in Pages : \A k \in Blocks : FreeBlock(block[i], k) => block[i][k] = {}
  BY DEF TypesInv, Typed, Clean
<1>2. found = Idle \/ found \in [size : 1..Allocable, page : Pages, first : Blocks,
                                 fresh : BOOLEAN, clean : BOOLEAN]
  BY DEF TypesInv, Fitting
<1> QED
  BY <1>1, <1>2 DEF TypesInv, MTypeOK, Typed, PageFlags, BlockTable, BlockFlags, Cell, Harms

LEMMA TypesInit == MInit => TypesInv
  BY EmptyTable, Sizing DEF MInit, Init, TypesInv, Typed, PageFlags

LEMMA FreedTypes ==
  ASSUME NEW f \in [Pages -> PageFlags], NEW p
  PROVE  /\ PageFreed(f, p) \in [Pages -> PageFlags]
         /\ \A j \in Pages : Managed(PageFreed(f, p), j) => Managed(f, j)
<1> DEFINE g == Closed(f, p)
<1>1. g \in [Pages -> PageFlags] /\ \A j \in Pages : Managed(g, j) => Managed(f, j)
  BY DEF Closed, PageFlags, Managed
<1> HIDE DEF g
<1>2. Cleared(g, p) \in [Pages -> PageFlags]
      /\ \A j \in Pages : Managed(Cleared(g, p), j) => Managed(g, j)
  BY <1>1 DEF Cleared, PageFlags, Managed
<1> QED
  BY <1>1, <1>2 DEF PageFreed, g

\* Giving page i back leaves no page managed that was not, unless it is i: there
\* PAGE_MALLOC is toggled.
LEMMA ReleasedTypes ==
  ASSUME NEW f \in [Pages -> PageFlags], NEW i, NEW n
  PROVE  /\ Released(f, i, n) \in [Pages -> PageFlags]
         /\ \A j \in Pages : Managed(Released(f, i, n), j) => Managed(f, j) \/ j = i
         /\ Managed(f, i) /\ n = 0 /\ i \in Pages => ~Managed(Released(f, i, n), i)
<1> DEFINE toggled == IF Managed(f, i) THEN f[i] \ {"MALLOC"} ELSE f[i] \union {"MALLOC"}
           g == [f EXCEPT ![i] = toggled]
<1>1. i \in Pages => toggled \in PageFlags /\ (Managed(f, i) => "MALLOC" \notin toggled)
  BY DEF PageFlags
<1>2. g \in [Pages -> PageFlags] /\ (i \in Pages => g[i] = toggled)
      /\ \A j \in Pages : j # i => g[j] = f[j]
  <2> HIDE DEF toggled
  <2> QED
    BY <1>1
<1>3. /\ Managed(f, i) /\ i \in Pages => ~Managed(g, i)
      /\ \A j \in Pages : Managed(g, j) => Managed(f, j) \/ j = i
  BY <1>1, <1>2 DEF Managed
<1>4. CASE n = 0
  <2>1. Released(f, i, n) = PageFreed(g, i)
    BY <1>4 DEF Released
  <2> HIDE DEF g, toggled
  <2> QED
    BY <1>2, <1>3, <2>1, FreedTypes
<1>5. CASE n # 0
  BY <1>5 DEF Released
<1> QED
  BY <1>4, <1>5

LEMMA PagesNeeded ==
  ASSUME NEW s \in Nat \ {0}
  PROVE  LET rest == s % PageBlocks
             n    == s \div PageBlocks + (IF rest > 0 THEN 1 ELSE 0)
         IN  rest \in Nat /\ rest < PageBlocks /\ n \in Nat \ {0}
<1>1. PageBlocks \in Nat /\ PageBlocks > 0
  BY Sizing
<1>2. s % PageBlocks \in 0..PageBlocks - 1 /\ s \div PageBlocks \in Int
  BY <1>1
<1>3. s = PageBlocks * (s \div PageBlocks) + (s % PageBlocks)
  BY <1>1
<1>4. s \div PageBlocks >= 0
  BY <1>1
<1>5. s % PageBlocks = 0 => s \div PageBlocks # 0
  BY <1>1, <1>3
<1> QED
  BY <1>1, <1>2, <1>4, <1>5

LEMMA SearchProperties ==
  ASSUME TypesInv, NEW s \in Nat, SmallRequest(s)
  PROVE  LET r == Search(s) IN
         /\ Fitting(r) /\ r.size = s
         /\ r.fresh = ~Managed(flags, r.page)
         /\ r.clean => StillFree(r)
<1> DEFINE i == Min(Candidates(s))
           k == IF Managed(flags, i) THEN Min(BlockFits(block[i], s)) ELSE 0
<1>1. s \in 1..Allocable /\ Candidates(s) # {}
  BY DEF SmallRequest
<1>2. i \in Candidates(s)
  <2>1. Candidates(s) \in SUBSET Nat
    BY PagesAre DEF Candidates
  <2> QED
    BY <1>1, <2>1, MinProperties
<1> HIDE DEF i
<1>3. /\ i \in Pages
      /\ Managed(flags, i) => BlockFits(block[i], s) # {}
      /\ ~Managed(flags, i) => ~IsTaken(flags, i)
  BY <1>2 DEF Candidates
<1>4. k \in Nat /\ k + s <= Table - 1
  BY <1>1, <1>3, BlockFitsFirst, Sizing
<1>5. Search(s) = [size |-> s, page |-> i, first |-> k, fresh |-> ~Managed(flags, i),
                   clean |-> AllFree(i, k, s)]
  BY DEF Search, i
<1> HIDE DEF k
<1>6. k \in Blocks /\ Inside(k, s)
  BY <1>1, <1>4, Sizing DEF Inside
<1>7. AllFree(i, k, s) \in BOOLEAN /\ Managed(flags, i) \in BOOLEAN
  BY DEF AllFree, Managed
<1>8. Fitting(Search(s))
  BY <1>1, <1>3, <1>5, <1>6, <1>7 DEF Fitting
<1>9. Search(s).clean => StillFree(Search(s))
  <2>1. /\ Search(s).page = i /\ Search(s).first = k /\ Search(s).size = s
        /\ Search(s).fresh = ~Managed(flags, i) /\ Search(s).clean = AllFree(i, k, s)
    BY <1>5
  <2> QED
    BY <1>3, <2>1 DEF StillFree
<1> QED
  BY <1>5, <1>8, <1>9

LEMMA TakeTypes ==
  ASSUME TypesInv, NEW r, Fitting(r), Take(r)
  PROVE  Typed(flags, block, usage, live)'
<1> DEFINE i == r.page
           b == IF r.fresh THEN NoBlocks ELSE block[i]
           new == Cells(i, r.first..r.first + r.size - 1)
<1>1. i \in Pages /\ Inside(r.first, r.size) /\ r.size \in Nat
  BY DEF Fitting, Inside
<1>2. b \in BlockTable /\ Clean(b)
  BY <1>1, EmptyTable DEF TypesInv, Typed
<1>3. /\ flags' = IF r.fresh
                  THEN [flags EXCEPT ![i] = @ \union {"TAKEN", "LAST", "FIRST", "MALLOC"}]
                  ELSE flags
      /\ block' = [block EXCEPT ![i] = BlocksMarked(b, r.first, r.size)]
      /\ usage' = [usage EXCEPT ![i] = Counted(IF r.fresh THEN 0 ELSE usage[i], r.size)]
      /\ live' = live \union {new}
  BY DEF Take
<1>4. flags' \in [Pages -> PageFlags]
  BY <1>1, <1>3 DEF TypesInv, Typed, PageFlags
<1> HIDE DEF b
<1>5. /\ block' \in [Pages -> BlockTable]
      /\ \A j \in Pages : Clean(block'[j])
  BY <1>1, <1>2, <1>3, MarkedTable DEF TypesInv, Typed
<1>6. usage' \in [Pages -> 0..CountWidth - 1]
  <2>1. \A x \in Int : x % CountWidth \in 0..CountWidth - 1
    BY Sizing
  <2>2. Counted(IF r.fresh THEN 0 ELSE usage[i], r.size) \in 0..CountWidth - 1
    <3>1. (IF r.fresh THEN 0 ELSE usage[i]) \in Int
      BY <1>1, Sizing DEF TypesInv, Typed
    <3> QED
      BY <1>1, <2>1, <3>1 DEF Counted
  <2> QED
    BY <1>3, <2>2 DEF TypesInv, Typed
<1>7. new \in SUBSET Cell
  BY <1>1, Sizing DEF Cells, Cell, Inside
<1> HIDE DEF new
<1>8. live' \in SUBSET SUBSET Cell
  BY <1>3, <1>7 DEF TypesInv, Typed
<1> QED
  BY <1>4, <1>5, <1>6, <1>8 DEF Typed

LEMMA DroppedTypes ==
  ASSUME NEW a \in live, NEW c
  PROVE  /\ live \in SUBSET SUBSET Cell => Dropped(a, c) \in SUBSET SUBSET Cell
         /\ Kept(a, c) \subseteq a
         /\ \A d \in Dropped(a, c) : d \in live \ {a} \/ (d = Kept(a, c) /\ d # {})
  BY DEF Dropped, Kept

LEMMA BlocksTypes ==
  ASSUME TypesInv, NEW s \in Nat, MallocBlocks(s)
  PROVE  TypesInv'
<1>1. Typed(flags, block, usage, live)'
  BY SearchProperties, TakeTypes DEF MallocBlocks
<1>2. found' = found /\ emptied' = emptied /\ harm' \subseteq Harms
  BY DEF MallocBlocks, Harmed, TypesInv, Harms
<1> QED
  BY <1>1, <1>2 DEF TypesInv

LEMMA ResumeTypes ==
  ASSUME TypesInv, MallocResume
  PROVE  TypesInv'
<1>1. Fitting(found) /\ Take(found)
  BY DEF MallocResume, TypesInv
<1>2. Typed(flags, block, usage, live)'
  BY <1>1, TakeTypes
<1>3. found' = Idle /\ emptied' = emptied /\ harm' \subseteq Harms
  BY DEF MallocResume, Harmed, TypesInv, Harms
<1> QED
  BY <1>2, <1>3 DEF TypesInv

\* A large request takes the free pages i..l, and hands over the last with rest
\* blocks of it in use when tail holds.
Handed(i, l, rest, tail) ==
  IF tail
  THEN /\ flags' = [Marked(flags, i, l - i + 1) EXCEPT ![l] = @ \union {"MALLOC"}]
       /\ block' = [block EXCEPT ![l] = BlocksMarked(NoBlocks, 0, rest)]
       /\ usage' = [usage EXCEPT ![l] = Counted(0, rest)]
       /\ live' = live \union {WholePages(i..l - 1) \union Cells(l, 0..rest - 1)}
  ELSE /\ flags' = Marked(flags, i, l - i + 1)
       /\ live' = live \union {WholePages(i..l)}
       /\ UNCHANGED <<block, usage>>

LEMMA PagesProperties ==
  ASSUME NEW s \in Nat, MallocPages(s)
  PROVE  \E i \in Pages, l \in Pages, rest \in Nat, tail \in BOOLEAN :
           /\ i <= l /\ \A j \in i..l : j \in Pages /\ ~IsTaken(flags, j)
           /\ tail => Inside(0, rest)
           /\ Handed(i, l, rest, tail) /\ UNCHANGED <<last, found, emptied, harm>>
<1> DEFINE rest == s % PageBlocks
           n    == s \div PageBlocks + (IF rest > 0 THEN 1 ELSE 0)
           i    == Min(Fits(flags, n))
           l    == i + n - 1
           tail == s > PageBlocks /\ rest \in 1..Allocable
           marked == Marked(flags, i, n)
<1>1. s \in Nat \ {0} /\ Fits(flags, n) # {}
  BY Sizing DEF MallocPages
<1>2. rest \in Nat /\ n \in Nat \ {0}
  BY <1>1, PagesNeeded
<1>3. /\ IF tail
         THEN /\ flags' = [marked EXCEPT ![l] = @ \union {"MALLOC"}]
              /\ block' = [block EXCEPT ![l] = BlocksMarked(NoBlocks, 0, rest)]
              /\ usage' = [usage EXCEPT ![l] = Counted(0, rest)]
              /\ live' = live \union {WholePages(i..l - 1) \union Cells(l, 0..rest - 1)}
         ELSE /\ flags' = marked
              /\ live' = live \union {WholePages(i..l)}
              /\ UNCHANGED <<block, usage>>
      /\ UNCHANGED <<last, found, emptied, harm>>
  BY DEF MallocPages
<1>4. tail => Inside(0, rest)
  BY <1>2, Sizing DEF Inside
<1> HIDE DEF rest, n
<1>5. i \in Pages /\ i + n <= NumPages /\ \A j \in i..i + n - 1 : ~IsTaken(flags, j)
  <2>1. Fits(flags, n) \in SUBSET Nat
    BY PagesAre DEF Fits
  <2>2. i \in Fits(flags, n)
    BY <1>1, <2>1, MinProperties
  <2> QED
    BY <2>2 DEF Fits
<1> HIDE DEF i
<1>6. l \in Pages /\ i <= l /\ l - i + 1 = n /\ \A j \in i..l : j \in Pages
  BY <1>2, <1>5, PagesAre
<1>7. tail \in BOOLEAN
  OBVIOUS
<1>8. Handed(i, l, rest, tail)
  BY <1>3, <1>6 DEF Handed
<1> HIDE DEF tail
<1> QED
  BY <1>2, <1>3, <1>4, <1>5, <1>6, <1>7, <1>8

LEMMA PagesTypes ==
  ASSUME TypesInv, NEW s \in Nat, MallocPages(s)
  PROVE  TypesInv'
<1>1. PICK i \in Pages, l \in Pages, rest \in Nat, tail \in BOOLEAN :
        /\ i <= l /\ \A j \in i..l : j \in Pages /\ ~IsTaken(flags, j)
        /\ tail => Inside(0, rest)
        /\ Handed(i, l, rest, tail) /\ UNCHANGED <<last, found, emptied, harm>>
  BY PagesProperties
<1> DEFINE marked == Marked(flags, i, l - i + 1)
<1>2. marked \in [Pages -> PageFlags]
  BY DEF Marked, TypesInv, Typed, PageFlags
<1> HIDE DEF marked
<1>3. WholePages(i..l) \in SUBSET Cell /\ WholePages(i..l - 1) \in SUBSET Cell
  BY <1>1, PagesAre DEF WholePages, Cells, Cell
<1>4. CASE ~tail
  BY <1>1, <1>2, <1>3, <1>4 DEF Handed, TypesInv, Typed, marked
<1>5. CASE tail
  <2>1. /\ flags' = [marked EXCEPT ![l] = @ \union {"MALLOC"}]
        /\ block' = [block EXCEPT ![l] = BlocksMarked(NoBlocks, 0, rest)]
        /\ usage' = [usage EXCEPT ![l] = Counted(0, rest)]
        /\ live' = live \union {WholePages(i..l - 1) \union Cells(l, 0..rest - 1)}
    BY <1>1, <1>5 DEF Handed, marked
  <2>2. Inside(0, rest) /\ rest - 1 <= PageBlocks - 1
    BY <1>1, <1>5, Sizing DEF Inside
  <2>3. BlocksMarked(NoBlocks, 0, rest) \in BlockTable /\ Clean(BlocksMarked(NoBlocks, 0, rest))
    BY <2>2, MarkedTable, EmptyTable
  <2>4. Counted(0, rest) \in 0..CountWidth - 1
    BY Sizing DEF Counted
  <2>5. WholePages(i..l - 1) \union Cells(l, 0..rest - 1) \in SUBSET Cell
    <3>1. Cells(l, 0..rest - 1) \in SUBSET Cell
      BY <2>2, Sizing DEF Cells, Cell
    <3> QED
      BY <1>3, <3>1
  <2>6. flags' \in [Pages -> PageFlags]
    BY <1>2, <2>1 DEF PageFlags
  <2>7. block' \in [Pages -> BlockTable] /\ \A j \in Pages : Clean(block'[j])
    BY <2>1, <2>3 DEF TypesInv, Typed
  <2>8. usage' \in [Pages -> 0..CountWidth - 1] /\ live' \in SUBSET SUBSET Cell
    BY <2>1, <2>4, <2>5 DEF TypesInv, Typed
  <2> QED
    BY <1>1, <2>6, <2>7, <2>8 DEF TypesInv, Typed
<1> QED
  BY <1>4, <1>5

\* Where free is called the owner's cell is one of a page in use.
LEMMA FreePointProperties ==
  ASSUME TypesInv, Sound, NEW a, NEW c, FreePoint(a, c)
  PROVE  /\ a \in live /\ c \in a /\ c = <<c[1], c[2]>>
         /\ c[1] \in Pages /\ c[2] \in 0..PageBlocks - 1
         /\ IsTaken(flags, c[1])
         /\ Managed(flags, c[1]) => c[2] \in Blocks /\ ~FreeBlock(block[c[1]], c[2])
<1>1. a \in live /\ c \in a
  BY DEF FreePoint
<1>2. c \in Cell
  BY <1>1 DEF TypesInv, Typed
<1> QED
  BY <1>1, <1>2 DEF Sound, LiveTaken, Cell

\* A free that clears blocks, as far as the look at the count.
Freeing(a, c) == Sound /\ FreePoint(a, c) /\ Managed(flags, c[1]) /\ ClearBlocks(a, c)

LEMMA ClearTypes ==
  ASSUME TypesInv, NEW a, NEW c, Freeing(a, c)
  PROVE  /\ c[1] \in Pages
         /\ block' \in [Pages -> BlockTable] /\ \A j \in Pages : Clean(block'[j])
         /\ usage' \in [Pages -> 0..CountWidth - 1] /\ live' \in SUBSET SUBSET Cell
<1> DEFINE i == c[1]
           b == BlocksFreed(block[i], c[2])
           n == Uncounted(usage[i],
                  Cardinality({k \in Blocks : ~FreeBlock(block[i], k) /\ FreeBlock(b, k)}))
<1>1. /\ block' = [block EXCEPT ![i] = b]
      /\ usage' = [usage EXCEPT ![i] = n]
      /\ live' = Dropped(a, c)
  BY DEF Freeing, ClearBlocks
<1>2. i \in Pages /\ c[2] \in Blocks /\ a \in live
  BY FreePointProperties DEF Freeing
<1>3. b \in BlockTable /\ Clean(b)
      /\ Cardinality({k \in Blocks : ~FreeBlock(block[i], k) /\ FreeBlock(b, k)}) \in Nat
  <2>1. block[i] \in BlockTable /\ Clean(block[i])
    BY <1>2 DEF TypesInv, Typed
  <2> QED
    BY <1>2, <2>1, FreedTable
<1>4. n \in 0..CountWidth - 1
  BY <1>2, <1>3, Sizing DEF Uncounted, TypesInv, Typed
<1> HIDE DEF b, n
<1>5. block' \in [Pages -> BlockTable] /\ \A j \in Pages : Clean(block'[j])
  BY <1>1, <1>2, <1>3 DEF TypesInv, Typed
<1>6. usage' \in [Pages -> 0..CountWidth - 1] /\ live' \in SUBSET SUBSET Cell
  BY <1>1, <1>2, <1>4, DroppedTypes DEF TypesInv, Typed
<1> QED
  BY <1>2, <1>5, <1>6

LEMMA FreeBlocksTypes ==
  ASSUME TypesInv, NEW a, NEW c, FreeBlocks(a, c) \/ FreeCheck(a, c)
  PROVE  TypesInv'
<1>1. Freeing(a, c) /\ UNCHANGED <<found, harm>>
  BY DEF FreeBlocks, FreeCheck, Freeing
<1>2. Typed(flags, block, usage, live)' /\ c[1] \in Pages
  <2>1. flags' = flags \/ flags' = Released(flags, c[1], usage'[c[1]])
    BY DEF FreeBlocks, FreeCheck
  <2>2. flags' \in [Pages -> PageFlags]
    BY <2>1, ReleasedTypes DEF TypesInv, Typed
  <2> QED
    BY <1>1, <2>2, ClearTypes DEF Typed
<1>3. emptied' = emptied \/ emptied' = c[1]
  BY DEF FreeBlocks, FreeCheck
<1> QED
  BY <1>1, <1>2, <1>3 DEF TypesInv

LEMMA FreeResumeTypes ==
  ASSUME TypesInv, FreeResume
  PROVE  TypesInv'
<1>1. flags' = Released(flags, emptied, 0) /\ UNCHANGED <<last, block, usage, found, live>>
      /\ emptied' = Null /\ harm' \subseteq Harms
  BY DEF FreeResume, Harmed, TypesInv, Harms
<1>2. flags' \in [Pages -> PageFlags]
  BY <1>1, ReleasedTypes DEF TypesInv, Typed
<1> QED
  BY <1>1, <1>2 DEF TypesInv, Typed

LEMMA FreePagesTypes ==
  ASSUME TypesInv, NEW a, NEW c, FreePages(a, c)
  PROVE  TypesInv'
<1>1. flags' = PageFreed(flags, c[1]) /\ live' = Dropped(a, c)
      /\ UNCHANGED <<last, block, usage, found, emptied, harm>> /\ a \in live
  BY DEF FreePages, FreePoint
<1>2. flags' \in [Pages -> PageFlags]
  BY <1>1, FreedTypes DEF TypesInv, Typed
<1>3. live' \in SUBSET SUBSET Cell
  BY <1>1, DroppedTypes DEF TypesInv, Typed
<1> QED
  BY <1>1, <1>2, <1>3 DEF TypesInv, Typed

LEMMA SweptTable ==
  ASSUME NEW b \in BlockTable, Clean(b)
  PROVE  Swept(b) \in BlockTable /\ Clean(Swept(b))
<1>1. Swept(b) \in [Blocks -> BlockFlags] /\ \A j \in Blocks : Swept(b)[j] = {} \/ Swept(b)[j] = b[j]
  BY DEF Swept, BlockTable, BlockFlags
<1> HIDE DEF Blocks
<1> QED
  BY <1>1 DEF BlockTable, Clean, FreeBlock

LEMMA FreeTailTypes ==
  ASSUME TypesInv, NEW a, NEW c, FreeTail(a, c)
  PROVE  TypesInv' /\ (\A j \in Pages : Managed(flags', j) => Managed(flags, j))
         /\ (harm' \subseteq {"tail"} => block' = block)
<1> DEFINE l == LastOf(c[1])
           g == [flags EXCEPT ![l - 1] = @ \union {"LAST"}]
           f == PageFreed(g, c[1])
<1>1. PICK n \in {0, 1}, b \in {block[l], Swept(block[l])} :
        /\ flags' = Released(f, l, n)
        /\ block' = [block EXCEPT ![l] = b]
        /\ harm' = harm \union {"tail"} \union (IF b = block[l] THEN {} ELSE {"sweep"})
  BY DEF FreeTail
<1>2. /\ live' = Dropped(a, c) /\ Managed(flags, l)
      /\ UNCHANGED <<last, usage, found, emptied>> /\ a \in live
  BY DEF FreeTail, FreePoint
<1>3. g \in [Pages -> PageFlags] /\ \A j \in Pages : Managed(g, j) => Managed(flags, j)
  BY DEF TypesInv, Typed, PageFlags, Managed
<1> HIDE DEF g, l
<1>4. f \in [Pages -> PageFlags] /\ \A j \in Pages : Managed(f, j) => Managed(flags, j)
  BY <1>3, FreedTypes
<1> HIDE DEF f
<1>5. flags' \in [Pages -> PageFlags] /\ \A j \in Pages : Managed(flags', j) => Managed(flags, j)
  BY <1>1, <1>2, <1>4, ReleasedTypes
<1>6. live' \in SUBSET SUBSET Cell
  BY <1>2, DroppedTypes DEF TypesInv, Typed
<1>7. block' \in [Pages -> BlockTable] /\ \A j \in Pages : Clean(block'[j])
  <2>1. ASSUME l \in Pages PROVE b \in BlockTable /\ Clean(b)
    <3>1. block[l] \in BlockTable /\ Clean(block[l])
      BY <2>1 DEF TypesInv, Typed
    <3> QED
      BY <3>1, SweptTable
  <2> QED
    BY <1>1, <2>1 DEF TypesInv, Typed
<1>8. harm' \subseteq Harms
  BY <1>1 DEF TypesInv, Harms
<1>9. harm' \subseteq {"tail"} => block' = block
  <2>1. harm' \subseteq {"tail"} => b = block[l]
    BY <1>1
  <2> QED
    BY <1>1, <2>1 DEF TypesInv, Typed
<1> QED
  BY <1>2, <1>5, <1>6, <1>7, <1>8, <1>9 DEF TypesInv, Typed

LEMMA TypesNext == TypesInv /\ [MNext]_mallocVars => TypesInv'
<1> SUFFICES ASSUME TypesInv, [MNext]_mallocVars PROVE TypesInv'
  OBVIOUS
<1>1. ASSUME NEW s \in Sizes, MallocBlocks(s) \/ MallocSearch(s) \/ MallocPages(s)
      PROVE  TypesInv'
  <2>1. s \in Nat
    BY MallocAssumption
  <2>2. CASE MallocSearch(s)
    <3>1. Fitting(Search(s))
      BY <2>1, <2>2, SearchProperties DEF MallocSearch
    <3> QED
      BY <2>2, <3>1 DEF MallocSearch, TypesInv, Typed
  <2> QED
    BY <1>1, <2>1, <2>2, BlocksTypes, PagesTypes
<1>2. CASE MallocResume \/ FreeResume
  BY <1>2, ResumeTypes, FreeResumeTypes
<1>3. ASSUME NEW a \in live, NEW c \in a,
             FreeBlocks(a, c) \/ FreeCheck(a, c) \/ FreePages(a, c) \/ FreeTail(a, c)
      PROVE  TypesInv'
  BY <1>3, FreeBlocksTypes, FreePagesTypes, FreeTailTypes
<1>4. CASE UNCHANGED mallocVars
  BY <1>4 DEF mallocVars, TypesInv, Typed
<1> QED
  BY <1>1, <1>2, <1>3, <1>4 DEF MNext

\* Types, and no flag is left in a block that was freed (page.c:627).
THEOREM MallocTypeCorrect == MSpec => []MTypeOK
<1>1. MSpec => []TypesInv
  BY TypesInit, TypesNext, PTL DEF MSpec
<1> QED
  BY <1>1, TypesImply, PTL

-----------------------------------------------------------------------------
(***************************************************************************)
(* Owners share nothing, and counts are exact, unless somebody has taken   *)
(* what was not free.  Only new allocations could be shared, and where     *)
(* they are taken nothing is owned: what is owned is marked (Sound).       *)
(***************************************************************************)

LEMMA TakeApart ==
  ASSUME TypesInv, Sound, NEW r, Fitting(r), StillFree(r), NEW a \in live
  PROVE  a \intersect Cells(r.page, r.first..r.first + r.size - 1) = {}
<1> SUFFICES ASSUME NEW c \in a, c \in Cells(r.page, r.first..r.first + r.size - 1)
             PROVE  FALSE
  OBVIOUS
<1>1. c[1] = r.page /\ c[2] \in r.first..r.first + r.size - 1
  BY DEF Cells
<1>2. /\ IsTaken(flags, r.page)
      /\ Managed(flags, r.page) => ~FreeBlock(block[r.page], c[2])
  BY <1>1 DEF Sound, LiveTaken
<1> QED
  BY <1>1, <1>2 DEF StillFree, AllFree

LEMMA NewApart ==
  ASSUME NoOverlap, harm' = harm, NEW new, live' = live \union {new},
         \A a \in live : a \intersect new = {}
  PROVE  NoOverlap'
  BY DEF NoOverlap

\* The count and the table of the page that a small request is taken from.
LEMMA TakeCounts ==
  ASSUME TypesInv, UsageExact, NEW r, Fitting(r), StillFree(r), Take(r), harm \subseteq {"tail"}
  PROVE  \A j \in Pages : Managed(flags', j) =>
           usage'[j] = Cardinality(Taken(block'[j])) /\ (usage'[j] > 0 \/ j = emptied)
<1> DEFINE i == r.page
           s == r.size
           b == IF r.fresh THEN NoBlocks ELSE block[i]
           u == IF r.fresh THEN 0 ELSE usage[i]
           m == BlocksMarked(b, r.first, s)
<1>1. i \in Pages /\ Inside(r.first, s) /\ s \in Nat \ {0}
  BY DEF Fitting, Inside
<1>2. /\ flags' = IF r.fresh
                  THEN [flags EXCEPT ![i] = @ \union {"TAKEN", "LAST", "FIRST", "MALLOC"}]
                  ELSE flags
      /\ block' = [block EXCEPT ![i] = m]
      /\ usage' = [usage EXCEPT ![i] = Counted(u, s)]
  BY DEF Take
<1>3. b \in BlockTable
  BY <1>1, EmptyTable DEF TypesInv, Typed
<1>4. u = Cardinality(Taken(b))
  <2>1. CASE r.fresh
    BY <2>1, EmptyTable, FS_EmptySet
  <2>2. CASE ~r.fresh
    <3>1. Managed(flags, i)
      BY <2>2 DEF StillFree
    <3> QED
      BY <1>1, <2>2, <3>1 DEF UsageExact, TakenBlocks, Taken
  <2> QED
    BY <2>1, <2>2
<1>5. \A j \in r.first..r.first + s - 1 : FreeBlock(b, j)
  <2>1. CASE r.fresh
    <3>1. \A j \in r.first..r.first + s - 1 : j \in Blocks
      BY <1>1, Sizing DEF Inside
    <3> QED
      BY <2>1, <3>1 DEF NoBlocks, FreeBlock
  <2>2. CASE ~r.fresh
    BY <2>2 DEF StillFree, AllFree
  <2> QED
    BY <2>1, <2>2
<1> HIDE DEF b, u
<1>6. Cardinality(Taken(m)) = Cardinality(Taken(b)) + s
  BY <1>1, <1>3, <1>5, MarkedCount
<1>7. Counted(u, s) = Cardinality(Taken(m)) /\ Counted(u, s) > 0
  <2>1. u + s = Cardinality(Taken(m)) /\ u + s \in 1..Table - 1
    BY <1>1, <1>4, <1>6, TakenFinite
  <2>2. \A x \in 1..Table - 1 : x % CountWidth = x
    BY Sizing
  <2> QED
    BY <2>1, <2>2 DEF Counted
<1> HIDE DEF m
<1>8. SUFFICES ASSUME NEW j \in Pages, j # i, Managed(flags', j)
               PROVE  usage'[j] = Cardinality(Taken(block'[j])) /\ (usage'[j] > 0 \/ j = emptied)
  BY <1>1, <1>2, <1>7 DEF TypesInv, Typed
<1>9. Managed(flags, j)
  BY <1>1, <1>2, <1>8 DEF Managed, TypesInv, Typed
<1>10. block'[j] = block[j] /\ usage'[j] = usage[j]
  BY <1>1, <1>2, <1>8 DEF TypesInv, Typed
<1> QED
  BY <1>9, <1>10 DEF UsageExact, TakenBlocks, Taken

LEMMA TakeKeepsApart ==
  ASSUME TypesInv, Sound, NoOverlap, UsageExact, NEW r, Fitting(r), Take(r),
         harm' \intersect {"overlap", "race"} = {} => StillFree(r), harm \subseteq harm',
         emptied' = emptied
  PROVE  NoOverlap' /\ UsageExact'
<1>1. NoOverlap'
  <2> SUFFICES ASSUME harm' \intersect {"overlap", "race"} = {} PROVE NoOverlap'
    BY DEF NoOverlap
  <2>1. live' = live \union {Cells(r.page, r.first..r.first + r.size - 1)}
    BY DEF Take
  <2>2. \A a \in live : a \intersect Cells(r.page, r.first..r.first + r.size - 1) = {}
    BY TakeApart
  <2>3. harm \intersect {"overlap", "race"} = {}
    OBVIOUS
  <2> QED
    BY <2>1, <2>2, <2>3 DEF NoOverlap
<1>2. UsageExact'
  <2> SUFFICES ASSUME harm' \subseteq {"tail"} PROVE UsageExact'
    BY DEF UsageExact
  <2>1. StillFree(r) /\ harm \subseteq {"tail"}
    OBVIOUS
  <2> QED
    BY <2>1, TakeCounts DEF UsageExact, TakenBlocks, Taken
<1> QED
  BY <1>1, <1>2

LEMMA PagesKeepApart ==
  ASSUME TypesInv, Sound, NoOverlap, UsageExact, NEW s \in Nat, MallocPages(s)
  PROVE  NoOverlap' /\ UsageExact'
<1>1. PICK i \in Pages, l \in Pages, rest \in Nat, tail \in BOOLEAN :
        /\ i <= l /\ \A j \in i..l : j \in Pages /\ ~IsTaken(flags, j)
        /\ tail => Inside(0, rest)
        /\ Handed(i, l, rest, tail) /\ UNCHANGED <<last, found, emptied, harm>>
  BY PagesProperties
<1> DEFINE new == IF tail THEN WholePages(i..l - 1) \union Cells(l, 0..rest - 1)
                          ELSE WholePages(i..l)
<1>2. live' = live \union {new}
  BY <1>1 DEF Handed
<1>3. \A a \in live : a \intersect new = {}
  <2> SUFFICES ASSUME NEW a \in live, NEW c \in a, c \in new PROVE FALSE
    OBVIOUS
  <2>1. c[1] \in i..l
    BY <1>1, PagesAre DEF WholePages, Cells
  <2>2. IsTaken(flags, c[1])
    BY DEF Sound, LiveTaken
  <2> QED
    BY <1>1, <2>1, <2>2
<1>4. NoOverlap'
  BY <1>1, <1>2, <1>3, NewApart
<1>5. ASSUME NEW j \in Pages, Managed(flags', j), ~(tail /\ j = l)
      PROVE  Managed(flags, j) /\ block'[j] = block[j] /\ usage'[j] = usage[j]
  <2> DEFINE marked == Marked(flags, i, l - i + 1)
  <2>1. /\ flags' = IF tail THEN [marked EXCEPT ![l] = @ \union {"MALLOC"}] ELSE marked
        /\ block'[j] = block[j] /\ usage'[j] = usage[j]
    BY <1>1, <1>5 DEF Handed, TypesInv, Typed
  <2>2. marked \in [Pages -> PageFlags] /\ (Managed(marked, j) => Managed(flags, j))
    BY DEF Marked, Managed, TypesInv, Typed, PageFlags
  <2> HIDE DEF marked
  <2>3. Managed(marked, j)
    BY <1>5, <2>1, <2>2 DEF Managed
  <2> QED
    BY <2>1, <2>2, <2>3
<1>6. ASSUME tail
      PROVE  usage'[l] = Cardinality(Taken(block'[l])) /\ usage'[l] > 0
  <2>1. block'[l] = BlocksMarked(NoBlocks, 0, rest) /\ usage'[l] = Counted(0, rest)
    BY <1>1, <1>6 DEF Handed, TypesInv, Typed
  <2>2. Inside(0, rest) /\ \A j \in 0..0 + rest - 1 : FreeBlock(NoBlocks, j)
    BY <1>1, <1>6, Sizing DEF Inside, NoBlocks, FreeBlock
  <2>3. Cardinality(Taken(block'[l])) = 0 + rest
    BY <2>1, <2>2, MarkedCount, EmptyTable, FS_EmptySet
  <2>4. Counted(0, rest) = rest /\ rest > 0
    BY <2>2, Sizing DEF Counted, Inside
  <2> QED
    BY <2>1, <2>3, <2>4
<1>7. UsageExact'
  BY <1>1, <1>5, <1>6 DEF UsageExact, TakenBlocks, Taken
<1> QED
  BY <1>4, <1>7

LEMMA DroppedApart ==
  ASSUME NoOverlap, harm \subseteq harm', NEW a \in live, NEW c, live' = Dropped(a, c)
  PROVE  NoOverlap'
<1> SUFFICES ASSUME harm' \intersect {"overlap", "race"} = {},
                    NEW d \in live', NEW e \in live', d # e
             PROVE  d \intersect e = {}
  BY DEF NoOverlap
<1>1. \A x, y \in live : x # y => x \intersect y = {}
  BY DEF NoOverlap
<1>2. /\ Kept(a, c) \subseteq a
      /\ d \in live \ {a} \/ d = Kept(a, c)
      /\ e \in live \ {a} \/ e = Kept(a, c)
  BY DroppedTypes
<1> QED
  BY <1>1, <1>2

\* free counts down what it has cleared, and sees the last block go.
LEMMA FreedCount ==
  ASSUME TypesInv, UsageExact, harm \subseteq {"tail"}, NEW a, NEW c, Freeing(a, c)
  PROVE  LET i == c[1]
             b == BlocksFreed(block[i], c[2])
             n == Cardinality(Taken(b))
         IN  /\ i \in Pages /\ Managed(flags, i) /\ n \in Nat
             /\ block' = [block EXCEPT ![i] = b]
             /\ usage' = [usage EXCEPT ![i] = n]
             /\ live' = Dropped(a, c)
<1> DEFINE i == c[1]
           b == BlocksFreed(block[i], c[2])
           given == {k \in Blocks : ~FreeBlock(block[i], k) /\ FreeBlock(b, k)}
           n == Uncounted(usage[i], Cardinality(given))
<1>1. /\ block' = [block EXCEPT ![i] = b]
      /\ usage' = [usage EXCEPT ![i] = n]
      /\ live' = Dropped(a, c)
  BY DEF Freeing, ClearBlocks
<1>2. i \in Pages /\ c[2] \in Blocks /\ Managed(flags, i)
  BY FreePointProperties DEF Freeing
<1>3. block[i] \in BlockTable /\ Clean(block[i])
  BY <1>2 DEF TypesInv, Typed
<1>4. Cardinality(Taken(b)) = Cardinality(Taken(block[i])) - Cardinality(given)
      /\ Cardinality(given) \in Nat
  BY <1>2, <1>3, FreedTable
<1>5. usage[i] = Cardinality(Taken(block[i]))
  BY <1>2 DEF UsageExact, TakenBlocks, Taken
<1>6. n = Cardinality(Taken(b)) /\ n \in Nat
  <2>1. usage[i] - Cardinality(given) \in 0..Table - 1
    BY <1>4, <1>5, TakenFinite
  <2>2. \A x \in 0..Table - 1 : x % CountWidth = x
    BY Sizing
  <2> HIDE DEF given
  <2>3. n \in 0..Table - 1 /\ n = usage[i] - Cardinality(given)
    BY <2>1, <2>2 DEF Uncounted
  <2> QED
    BY <1>4, <1>5, <2>3, TakenFinite
<1> QED
  BY <1>1, <1>2, <1>6

\* A page whose count becomes 0 is managed no longer, unless the free is interrupted
\* before it gives the page back.
LEMMA FreeBlocksCounts ==
  ASSUME TypesInv, UsageExact, NEW a, NEW c, FreeBlocks(a, c) \/ FreeCheck(a, c)
  PROVE  UsageExact'
<1> DEFINE i == c[1]
           b == BlocksFreed(block[i], c[2])
           n == Cardinality(Taken(b))
<1> SUFFICES ASSUME harm' \subseteq {"tail"}, NEW j \in Pages, Managed(flags', j)
             PROVE  /\ usage'[j] = Cardinality(Taken(block'[j]))
                    /\ usage'[j] > 0 \/ j = emptied'
  BY DEF UsageExact, TakenBlocks, Taken
<1>1. harm \subseteq {"tail"} /\ Freeing(a, c)
  BY DEF FreeBlocks, FreeCheck, Freeing
<1>2. /\ i \in Pages /\ Managed(flags, i) /\ n \in Nat
      /\ block' = [block EXCEPT ![i] = b]
      /\ usage' = [usage EXCEPT ![i] = n]
  BY <1>1, FreedCount
<1> HIDE DEF b, n
<1>3. usage'[i] = n /\ block'[i] = b
      /\ (j # i => usage'[j] = usage[j] /\ block'[j] = block[j])
  BY <1>2 DEF TypesInv, Typed
<1>4. Managed(flags, j)
      /\ (j = i => n # 0 \/ j = emptied') /\ (j # i => j # emptied \/ j = emptied')
  <2>1. CASE FreeBlocks(a, c)
    <3>1. flags' = Released(flags, i, n) /\ emptied' = emptied
      BY <1>3, <2>1 DEF FreeBlocks
    <3> QED
      BY <1>2, <3>1, ReleasedTypes DEF TypesInv, Typed
  <2>2. CASE FreeCheck(a, c)
    <3>1. flags' = flags /\ emptied' = i /\ emptied = Null
      BY <2>2 DEF FreeCheck, Interruptible
    <3> QED
      BY <3>1, NullIsNoPage
  <2> QED
    BY <2>1, <2>2
<1>5. j # i => usage[j] = Cardinality(Taken(block[j])) /\ (usage[j] > 0 \/ j = emptied)
  BY <1>1, <1>4 DEF UsageExact, TakenBlocks, Taken
<1> QED
  BY <1>2, <1>3, <1>4, <1>5 DEF n

\* A free that goes on gives an empty page back, or it does harm.
LEMMA FreeResumeCounts ==
  ASSUME TypesInv, UsageExact, FreeResume
  PROVE  UsageExact'
<1> SUFFICES ASSUME harm' \subseteq {"tail"}, NEW j \in Pages, Managed(flags', j)
             PROVE  usage[j] = Cardinality(Taken(block[j])) /\ usage[j] > 0
  BY DEF FreeResume, UsageExact, TakenBlocks, Taken
<1>1. harm \subseteq {"tail"} /\ StillEmpty(emptied) /\ emptied # Null
  BY DEF FreeResume, Harmed
<1>2. flags' = Released(flags, emptied, 0) /\ emptied \in Pages /\ Managed(flags, emptied)
  BY <1>1 DEF FreeResume, StillEmpty, TypesInv
<1>3. Managed(flags, j) /\ j # emptied
  BY <1>2, ReleasedTypes DEF TypesInv, Typed
<1> QED
  BY <1>1, <1>3 DEF UsageExact, TakenBlocks, Taken

LEMMA ShrinkKeepsCounts ==
  ASSUME UsageExact, harm \subseteq harm', UNCHANGED <<usage, emptied>>,
         harm' \subseteq {"tail"} => block' = block,
         \A j \in Pages : Managed(flags', j) => Managed(flags, j)
  PROVE  UsageExact'
  BY DEF UsageExact, TakenBlocks

CountInv == TypesInv /\ NoOverlap /\ UsageExact

LEMMA CountNext == CountInv /\ [MNext]_mallocVars => CountInv'
<1> SUFFICES ASSUME CountInv, [MNext]_mallocVars PROVE NoOverlap' /\ UsageExact'
  BY TypesNext DEF CountInv
<1> USE DEF CountInv
<1>1. ASSUME NEW s \in Sizes, MallocBlocks(s)
      PROVE  NoOverlap' /\ UsageExact'
  <2>1. s \in Nat /\ SmallRequest(s) /\ Sound /\ Take(Search(s))
    BY <1>1, MallocAssumption DEF MallocBlocks, SmallRequest
  <2>2. Fitting(Search(s)) /\ (Search(s).clean => StillFree(Search(s)))
    BY <2>1, SearchProperties
  <2>3. harm \subseteq harm' /\ (harm' \intersect {"overlap", "race"} = {} => Search(s).clean)
        /\ emptied' = emptied
    BY <1>1 DEF MallocBlocks, Harmed
  <2> QED
    BY <2>1, <2>2, <2>3, TakeKeepsApart
<1>2. ASSUME NEW s \in Sizes, MallocSearch(s)
      PROVE  NoOverlap' /\ UsageExact'
  BY <1>2 DEF MallocSearch, NoOverlap, UsageExact, TakenBlocks
<1>3. ASSUME NEW s \in Sizes, MallocPages(s)
      PROVE  NoOverlap' /\ UsageExact'
  <2>1. s \in Nat /\ Sound
    BY <1>3, MallocAssumption DEF MallocPages
  <2> QED
    BY <1>3, <2>1, PagesKeepApart
<1>4. CASE MallocResume
  <2>1. Sound /\ Take(found) /\ Fitting(found)
    BY <1>4 DEF MallocResume, TypesInv
  <2>2. harm \subseteq harm' /\ emptied' = emptied
        /\ (harm' \intersect {"overlap", "race"} = {} => StillFree(found))
    BY <1>4 DEF MallocResume, Harmed
  <2> QED
    BY <2>1, <2>2, TakeKeepsApart
<1>5. ASSUME NEW a \in live, NEW c \in a,
             FreeBlocks(a, c) \/ FreeCheck(a, c) \/ FreePages(a, c) \/ FreeTail(a, c)
      PROVE  NoOverlap' /\ UsageExact'
  <2>1. live' = Dropped(a, c) /\ harm \subseteq harm'
    BY <1>5 DEF FreeBlocks, FreeCheck, ClearBlocks, FreePages, FreeTail
  <2>2. NoOverlap'
    BY <2>1, DroppedApart
  <2>3. CASE FreeBlocks(a, c) \/ FreeCheck(a, c)
    BY <2>2, <2>3, FreeBlocksCounts
  <2>4. CASE FreePages(a, c)
    <3>1. \A j \in Pages : Managed(flags', j) => Managed(flags, j)
      BY <2>4, FreedTypes DEF FreePages, TypesInv, Typed
    <3> QED
      BY <2>1, <2>2, <2>4, <3>1, ShrinkKeepsCounts DEF FreePages
  <2>5. CASE FreeTail(a, c)
    <3>1. /\ \A j \in Pages : Managed(flags', j) => Managed(flags, j)
          /\ harm' \subseteq {"tail"} => block' = block
      BY <2>5, FreeTailTypes
    <3> QED
      BY <2>1, <2>2, <2>5, <3>1, ShrinkKeepsCounts DEF FreeTail
  <2> QED
    BY <1>5, <2>3, <2>4, <2>5
<1>6. CASE FreeResume
  <2>1. UsageExact'
    BY <1>6, FreeResumeCounts
  <2>2. live' = live /\ harm \subseteq harm'
    BY <1>6 DEF FreeResume, Harmed
  <2> QED
    BY <2>1, <2>2 DEF NoOverlap
<1>7. CASE UNCHANGED mallocVars
  BY <1>7 DEF mallocVars, NoOverlap, UsageExact, TakenBlocks
<1> QED
  BY <1>1, <1>2, <1>3, <1>4, <1>5, <1>6, <1>7 DEF MNext

LEMMA CountInit == MInit => CountInv
<1> SUFFICES ASSUME MInit PROVE NoOverlap /\ UsageExact
  BY TypesInit DEF CountInv
<1> QED
  BY DEF MInit, Init, NoOverlap, UsageExact, Managed

\* Nobody is given memory that somebody else still owns, except by a search that
\* skips a block or a malloc that goes on with what was taken meanwhile.
THEOREM OwnersApart == MSpec => []NoOverlap
<1>1. MSpec => []CountInv
  BY CountInit, CountNext, PTL DEF MSpec
<1>2. CountInv => NoOverlap
  BY DEF CountInv
<1> QED
  BY <1>1, <1>2, PTL

\* The count of a managed page is the number of its blocks in use, for any size
\* of the table and any width of the count that is enough for one page, until blocks
\* are taken or cleared behind the back of the count: by a malloc that takes what is
\* in use, a page that is given back in use, or a free whose loop runs on into the
\* table of another page.
THEOREM UsageAlwaysExact == MSpec => []UsageExact
<1>1. MSpec => []CountInv
  BY CountInit, CountNext, PTL DEF MSpec
<1>2. CountInv => UsageExact
  BY DEF CountInv
<1> QED
  BY <1>1, <1>2, PTL

-----------------------------------------------------------------------------
(***************************************************************************)
(* Owners and flags, as long as no harm was done.  What is taken has an    *)
(* owner; LAST is set exactly where an owner's pages or blocks end, and    *)
(* what follows a page or a block without it belongs to the same owner.    *)
(* Then what free clears is what the caller gives back, all of it, and     *)
(* nothing else.                                                           *)
(***************************************************************************)

Depth == 0..PageBlocks - 1

ManagedLast(f) == \A i \in Pages : Managed(f, i) => IsTaken(f, i) /\ IsLast(f, i)

LiveMarked(f, b, l) ==
  \A a \in l : \A i \in Pages, k \in Depth : <<i, k>> \in a =>
    /\ IsTaken(f, i)
    /\ Managed(f, i) => k \in Blocks /\ ~FreeBlock(b[i], k)

PagesOwned(f, l) ==
  \A i \in Pages : IsTaken(f, i) /\ ~Managed(f, i) =>
    \E a \in l : \A k \in Depth : <<i, k>> \in a

BlocksOwned(f, b, l) ==
  \A i \in Pages : Managed(f, i) =>
    \A k \in Blocks : ~FreeBlock(b[i], k) => \E a \in l : <<i, k>> \in a

ChainPages(f, l) ==
  \A i \in Pages : IsTaken(f, i) /\ ~IsLast(f, i) /\ ~Managed(f, i + 1) =>
    \A a \in l : <<i, 0>> \in a => <<i + 1, 0>> \in a

ChainBlocks(f, b, l) ==
  \A i \in Pages : Managed(f, i) =>
    \A k \in Blocks : ~FreeBlock(b[i], k) /\ "LAST" \notin b[i][k] =>
      /\ k + 1 \in Blocks /\ ~FreeBlock(b[i], k + 1) /\ "FIRST" \notin b[i][k + 1]
      /\ \A a \in l : <<i, k>> \in a => <<i, k + 1>> \in a

SpanPages(f, l) ==
  \A a \in l : \A i, j \in Pages, k, m \in Depth : <<i, k>> \in a /\ <<j, m>> \in a =>
    \A h \in i..j - 1 : IsTaken(f, h) /\ ~IsLast(f, h)

SpanBlocks(f, b, l) ==
  \A i \in Pages : Managed(f, i) =>
    \A a \in l : \A k, m \in Depth : <<i, k>> \in a /\ <<i, m>> \in a =>
      \A h \in k..m - 1 : ~FreeBlock(b[i], h) /\ "LAST" \notin b[i][h]

MemOK(f, b, l) ==
  /\ WellFormed(f) /\ ManagedLast(f) /\ LiveMarked(f, b, l)
  /\ PagesOwned(f, l) /\ ChainPages(f, l) /\ SpanPages(f, l)
  /\ BlocksOwned(f, b, l) /\ ChainBlocks(f, b, l) /\ SpanBlocks(f, b, l)

LEMMA MarkedLive ==
  ASSUME TypesInv
  PROVE  LiveMarked(flags, block, live) <=> LiveTaken
<1>1. \A a \in live : \A c \in a : c = <<c[1], c[2]>> /\ c[1] \in Pages /\ c[2] \in Depth
  BY DEF TypesInv, Typed, Cell, Depth
<1> QED
  BY <1>1 DEF LiveMarked, LiveTaken

LEMMA DepthIs ==
  /\ \A k : k \in Depth <=> k \in Int /\ 0 <= k /\ k < PageBlocks
  /\ \A k \in Blocks : k \in Depth
  /\ 0 \in Depth
  BY Sizing DEF Depth

-----------------------------------------------------------------------------
(***************************************************************************)
(* Giving back.  n holds what the owners in l keep when the cells of G go. *)
(***************************************************************************)

Cut(l, n, G) ==
  /\ \A x \in n : \E y \in l : x = y \ G
  /\ \A y \in l : y \ G = {} \/ y \ G \in n

LEMMA CutCells ==
  ASSUME NEW l, NEW n, NEW G, Cut(l, n, G)
  PROVE  /\ \A x \in n : \E y \in l : \A d : d \in x <=> d \in y /\ d \notin G
         /\ \A y \in l : \A d \in y : d \notin G =>
              \E x \in n : \A e : e \in x <=> e \in y /\ e \notin G
<1>1. ASSUME NEW x \in n
      PROVE  \E y \in l : \A d : d \in x <=> d \in y /\ d \notin G
  <2>1. PICK y \in l : x = y \ G
    BY DEF Cut
  <2> QED
    BY <2>1
<1>2. ASSUME NEW y \in l, NEW d \in y, d \notin G
      PROVE  \E x \in n : \A e : e \in x <=> e \in y /\ e \notin G
  <2>1. d \in y \ G /\ y \ G \in n
    BY <1>2 DEF Cut
  <2>2. \A e : e \in y \ G <=> e \in y /\ e \notin G
    OBVIOUS
  <2> QED
    BY <2>1, <2>2
<1> QED
  BY <1>1, <1>2

\* The cells of pages p..e, and of blocks p..e of page i.
PageCells(p, e) == {d \in Cell : d[1] \in p..e}
BlockCells(i, p, e) == {d \in Cell : d[1] = i /\ d[2] \in p..e}

\* Pages p..e of one region become free, and the region ends in front of them.
FreedFrom(f, p, e, h) ==
  /\ \A j \in Pages : j \in p..e => h[j] = {}
  /\ \A j \in Pages : j \notin p..e /\ j # p - 1 => h[j] = f[j]
  /\ p - 1 \in Pages =>
       h[p - 1] = IF ~IsFirst(f, p) /\ IsTaken(f, p - 1) THEN f[p - 1] \union {"LAST"}
                                                        ELSE f[p - 1]

\* The pages from p to the end of a region.
RegionTail(f, p, e) ==
  /\ p \in Pages /\ e \in Pages /\ p <= e /\ IsLast(f, e)
  /\ \A j \in p..e : IsTaken(f, j)
  /\ \A j \in p..e - 1 : ~IsLast(f, j)

LEMMA FreedShape ==
  ASSUME NEW f, NEW h, NEW p, NEW e, FreedFrom(f, p, e, h), RegionTail(f, p, e)
  PROVE  /\ \A j \in Pages : IsTaken(h, j) <=> IsTaken(f, j) /\ j \notin p..e
         /\ \A j \in Pages : Managed(h, j) <=> Managed(f, j) /\ j \notin p..e
         /\ \A j \in Pages : j \notin p..e => (IsFirst(h, j) <=> IsFirst(f, j))
         /\ \A j \in Pages : j \notin p..e =>
              (IsLast(h, j) <=>
                  (IsLast(f, j) \/ (j = p - 1 /\ ~IsFirst(f, p) /\ IsTaken(f, j))))
<1>1. \A j \in Pages : j \in p..e => h[j] = {}
  BY DEF FreedFrom
<1>2. p \in Int /\ e \in Int /\ \A j \in Pages : j \in Int
  BY PagesAre DEF RegionTail
<1>3. p - 1 \notin p..e
  BY <1>2
<1>4. \A j \in Pages : j \notin p..e =>
        h[j] = IF j = p - 1 /\ ~IsFirst(f, p) /\ IsTaken(f, j) THEN f[j] \union {"LAST"} ELSE f[j]
  BY <1>3 DEF FreedFrom
<1>5. ASSUME NEW j \in Pages, j \in p..e
      PROVE  ~IsTaken(h, j) /\ ~Managed(h, j)
  BY <1>1, <1>5 DEF IsTaken, Managed
<1>6. ASSUME NEW j \in Pages, j \notin p..e
      PROVE  /\ IsTaken(h, j) <=> IsTaken(f, j)
             /\ Managed(h, j) <=> Managed(f, j)
             /\ IsFirst(h, j) <=> IsFirst(f, j)
             /\ IsLast(h, j) <=>
                  (IsLast(f, j) \/ (j = p - 1 /\ ~IsFirst(f, p) /\ IsTaken(f, j)))
  <2>1. CASE j = p - 1 /\ ~IsFirst(f, p) /\ IsTaken(f, j)
    <3>1. h[j] = f[j] \union {"LAST"}
      BY <1>4, <1>6, <2>1
    <3> QED
      BY <2>1, <3>1 DEF IsTaken, Managed, IsFirst, IsLast
  <2>2. CASE ~(j = p - 1 /\ ~IsFirst(f, p) /\ IsTaken(f, j))
    <3>1. h[j] = f[j]
      BY <1>4, <1>6, <2>2
    <3>2. /\ IsTaken(h, j) <=> IsTaken(f, j)
          /\ Managed(h, j) <=> Managed(f, j)
          /\ IsFirst(h, j) <=> IsFirst(f, j)
          /\ IsLast(h, j) <=> IsLast(f, j)
      BY <3>1 DEF IsTaken, Managed, IsFirst, IsLast
    <3> QED
      BY <2>2, <3>2
  <2> QED
    BY <2>1, <2>2
<1>7. \A j \in Pages : IsTaken(h, j) <=> IsTaken(f, j) /\ j \notin p..e
  BY <1>5, <1>6
<1>8. \A j \in Pages : Managed(h, j) <=> Managed(f, j) /\ j \notin p..e
  BY <1>5, <1>6
<1>9. \A j \in Pages : j \notin p..e => (IsFirst(h, j) <=> IsFirst(f, j))
  BY <1>6
<1> QED
  BY <1>6, <1>7, <1>8, <1>9

LEMMA FreedWellFormed ==
  ASSUME NEW f, NEW h, NEW p, NEW e, FreedFrom(f, p, e, h), RegionTail(f, p, e),
         WellFormed(f), ManagedLast(f)
  PROVE  WellFormed(h) /\ ManagedLast(h)
<1>1. p \in Int /\ e \in Int /\ p <= e /\ IsLast(f, e) /\ IsTaken(f, e) /\ e \in p..e /\ p \in Pages
  BY PagesAre DEF RegionTail
<1>2. \A j \in Pages : j \in Int
  BY PagesAre
<1>3. ASSUME NEW i \in Pages, IsTaken(h, i), ~IsLast(h, i)
      PROVE  i + 1 \in Pages /\ IsTaken(h, i + 1) /\ ~IsFirst(h, i + 1)
  <2>1. IsTaken(f, i) /\ i \notin p..e /\ ~IsLast(f, i)
    BY <1>3, FreedShape
  <2>2. i + 1 \in Pages /\ IsTaken(f, i + 1) /\ ~IsFirst(f, i + 1)
    BY <2>1 DEF WellFormed
  <2>3. i + 1 \in p..e => i = p - 1
    BY <1>1, <1>2, <2>1
  <2>4. i + 1 \notin p..e
    <3>1. SUFFICES ASSUME i = p - 1 PROVE FALSE
      BY <2>3
    <3>2. i + 1 = p
      BY <1>1, <1>2, <3>1
    <3> QED
      BY <1>3, <2>1, <2>2, <3>1, <3>2, FreedShape
  <2> QED
    BY <2>2, <2>4, FreedShape
<1>4. ASSUME NEW i \in Pages, IsTaken(h, i), ~IsFirst(h, i)
      PROVE  i - 1 \in Pages /\ IsTaken(h, i - 1) /\ ~IsLast(h, i - 1)
  <2>1. IsTaken(f, i) /\ i \notin p..e /\ ~IsFirst(f, i)
    BY <1>4, FreedShape
  <2>2. i - 1 \in Pages /\ IsTaken(f, i - 1) /\ ~IsLast(f, i - 1)
    BY <2>1 DEF WellFormed
  <2>3. i - 1 \notin p..e
    <3>1. i - 1 \in p..e => i - 1 = e
      BY <1>1, <1>2, <2>1
    <3> QED
      BY <1>1, <2>2, <3>1
  <2>4. i - 1 # p - 1
    BY <1>1, <1>2, <2>1
  <2> QED
    BY <2>2, <2>3, <2>4, FreedShape
<1>5. ASSUME NEW i \in Pages, ~IsTaken(h, i)
      PROVE  h[i] = {}
  <2>1. CASE i \in p..e
    BY <2>1 DEF FreedFrom
  <2>2. CASE i \notin p..e
    <3>1. ~IsTaken(f, i) /\ f[i] = {}
      BY <1>5, <2>2, FreedShape DEF WellFormed
    <3> QED
      BY <2>2, <3>1 DEF FreedFrom
  <2> QED
    BY <2>1, <2>2
<1>6. WellFormed(h)
  BY <1>3, <1>4, <1>5 DEF WellFormed
<1>7. ManagedLast(h)
  BY FreedShape DEF ManagedLast
<1> QED
  BY <1>6, <1>7

\* The pages of a region's tail become free, and the owners' cells there go.
LEMMA FreedPagesMem ==
  ASSUME NEW f, NEW b, NEW l \in SUBSET SUBSET Cell, MemOK(f, b, l),
         NEW p, NEW e, RegionTail(f, p, e), NEW h, FreedFrom(f, p, e, h),
         NEW n, Cut(l, n, PageCells(p, e))
  PROVE  MemOK(h, b, n)
<1> DEFINE G == PageCells(p, e)
<1>1. \A i \in Pages, k \in Depth : <<i, k>> \in G <=> i \in p..e
  BY DEF Cell, Depth, PageCells
<1>2. /\ \A x \in n : \E y \in l : \A d : d \in x <=> d \in y /\ d \notin G
      /\ \A y \in l : \A d \in y : d \notin G =>
           \E x \in n : \A g : g \in x <=> g \in y /\ g \notin G
  BY CutCells
<1> HIDE DEF G
<1>3. /\ p \in Int /\ e \in Int /\ p <= e /\ p \in Pages /\ e \in Pages
      /\ e \in p..e /\ IsLast(f, e)
      /\ \A j \in Pages : j \in Int /\ 0 <= j
  BY PagesAre DEF RegionTail
<1>4. /\ \A j \in Pages : IsTaken(h, j) <=> IsTaken(f, j) /\ j \notin p..e
      /\ \A j \in Pages : Managed(h, j) <=> Managed(f, j) /\ j \notin p..e
      /\ \A j \in Pages : j \notin p..e => (IsFirst(h, j) <=> IsFirst(f, j))
      /\ \A j \in Pages : j \notin p..e =>
           (IsLast(h, j) <=> (IsLast(f, j) \/ (j = p - 1 /\ ~IsFirst(f, p) /\ IsTaken(f, j))))
  BY FreedShape
<1>5. WellFormed(h) /\ ManagedLast(h)
  BY FreedWellFormed DEF MemOK
<1>6. LiveMarked(h, b, n)
  <2> SUFFICES ASSUME NEW x \in n, NEW i \in Pages, NEW k \in Depth, <<i, k>> \in x
               PROVE  IsTaken(h, i) /\ (Managed(h, i) => k \in Blocks /\ ~FreeBlock(b[i], k))
    BY DEF LiveMarked
  <2>1. PICK y \in l : \A d : d \in x <=> d \in y /\ d \notin G
    BY <1>2
  <2>2. <<i, k>> \in y /\ i \notin p..e
    BY <1>1, <2>1
  <2>3. IsTaken(f, i) /\ (Managed(f, i) => k \in Blocks /\ ~FreeBlock(b[i], k))
    BY <2>2 DEF MemOK, LiveMarked
  <2> QED
    BY <1>4, <2>2, <2>3
<1>7. PagesOwned(h, n)
  <2> SUFFICES ASSUME NEW i \in Pages, IsTaken(h, i), ~Managed(h, i)
               PROVE  \E x \in n : \A k \in Depth : <<i, k>> \in x
    BY DEF PagesOwned
  <2>1. IsTaken(f, i) /\ ~Managed(f, i) /\ i \notin p..e
    BY <1>4
  <2>2. PICK y \in l : \A k \in Depth : <<i, k>> \in y
    BY <2>1 DEF MemOK, PagesOwned
  <2>3. <<i, 0>> \in y /\ <<i, 0>> \notin G
    BY <1>1, <2>1, <2>2, DepthIs
  <2>4. PICK x \in n : \A g : g \in x <=> g \in y /\ g \notin G
    BY <1>2, <2>3
  <2> QED
    BY <1>1, <2>1, <2>2, <2>4
<1>8. ChainPages(h, n)
  <2> SUFFICES ASSUME NEW i \in Pages, IsTaken(h, i), ~IsLast(h, i), ~Managed(h, i + 1),
                      NEW x \in n, <<i, 0>> \in x
               PROVE  <<i + 1, 0>> \in x
    BY DEF ChainPages
  <2>1. PICK y \in l : \A d : d \in x <=> d \in y /\ d \notin G
    BY <1>2
  <2>2. <<i, 0>> \in y /\ IsTaken(f, i) /\ i \notin p..e /\ ~IsLast(f, i)
    BY <1>1, <1>4, <2>1, DepthIs
  <2>3. i + 1 \in Pages /\ ~IsFirst(f, i + 1)
    BY <2>2 DEF MemOK, WellFormed
  <2>4. i + 1 \notin p..e
    <3>1. SUFFICES ASSUME i + 1 \in p..e PROVE FALSE
      OBVIOUS
    <3>2. i = p - 1 /\ i + 1 = p
      BY <1>3, <2>2, <3>1
    <3> QED
      BY <1>4, <2>2, <2>3, <3>2
  <2>5. ~Managed(f, i + 1)
    BY <1>4, <2>3, <2>4
  <2>6. <<i + 1, 0>> \in y
    BY <2>2, <2>5 DEF MemOK, ChainPages
  <2> QED
    BY <1>1, <2>1, <2>3, <2>4, <2>6, DepthIs
<1>9. SpanPages(h, n)
  <2> SUFFICES ASSUME NEW x \in n, NEW i \in Pages, NEW j \in Pages, NEW k \in Depth,
                      NEW m \in Depth, <<i, k>> \in x, <<j, m>> \in x, NEW q \in i..j - 1
               PROVE  IsTaken(h, q) /\ ~IsLast(h, q)
    BY DEF SpanPages
  <2>1. PICK y \in l : \A d : d \in x <=> d \in y /\ d \notin G
    BY <1>2
  <2>2. <<i, k>> \in y /\ <<j, m>> \in y /\ i \notin p..e /\ j \notin p..e
    BY <1>1, <2>1
  <2>3. \A r \in i..j - 1 : IsTaken(f, r) /\ ~IsLast(f, r)
    BY <2>2 DEF MemOK, SpanPages
  <2>4. e \notin i..j - 1
    BY <1>3, <2>3
  <2>5. q \in Pages
    BY PagesAre
  <2>6. q \notin p..e /\ q # p - 1
    BY <1>3, <2>2, <2>4
  <2> QED
    BY <1>4, <2>3, <2>5, <2>6
<1>10. BlocksOwned(h, b, n)
  <2> SUFFICES ASSUME NEW i \in Pages, Managed(h, i), NEW k \in Blocks, ~FreeBlock(b[i], k)
               PROVE  \E x \in n : <<i, k>> \in x
    BY DEF BlocksOwned
  <2>1. Managed(f, i) /\ i \notin p..e
    BY <1>4
  <2>2. PICK y \in l : <<i, k>> \in y
    BY <2>1 DEF MemOK, BlocksOwned
  <2> QED
    BY <1>1, <1>2, <2>1, <2>2, DepthIs
<1>11. ChainBlocks(h, b, n)
  <2> SUFFICES ASSUME NEW i \in Pages, Managed(h, i), NEW k \in Blocks,
                      ~FreeBlock(b[i], k), "LAST" \notin b[i][k]
               PROVE  /\ k + 1 \in Blocks /\ ~FreeBlock(b[i], k + 1)
                      /\ "FIRST" \notin b[i][k + 1]
                      /\ \A x \in n : <<i, k>> \in x => <<i, k + 1>> \in x
    BY DEF ChainBlocks
  <2>1. Managed(f, i) /\ i \notin p..e
    BY <1>4
  <2>2. /\ k + 1 \in Blocks /\ ~FreeBlock(b[i], k + 1) /\ "FIRST" \notin b[i][k + 1]
        /\ \A y \in l : <<i, k>> \in y => <<i, k + 1>> \in y
    BY <2>1 DEF MemOK, ChainBlocks
  <2>3. ASSUME NEW x \in n, <<i, k>> \in x PROVE <<i, k + 1>> \in x
    <3>1. PICK y \in l : \A d : d \in x <=> d \in y /\ d \notin G
      BY <1>2
    <3> QED
      BY <1>1, <2>1, <2>2, <2>3, <3>1, DepthIs
  <2> QED
    BY <2>2, <2>3
<1>12. SpanBlocks(h, b, n)
  <2> SUFFICES ASSUME NEW i \in Pages, Managed(h, i), NEW x \in n, NEW k \in Depth,
                      NEW m \in Depth, <<i, k>> \in x, <<i, m>> \in x
               PROVE  \A q \in k..m - 1 : ~FreeBlock(b[i], q) /\ "LAST" \notin b[i][q]
    BY DEF SpanBlocks
  <2>1. PICK y \in l : \A d : d \in x <=> d \in y /\ d \notin G
    BY <1>2
  <2> QED
    BY <1>4, <2>1 DEF MemOK, SpanBlocks
<1> QED
  BY <1>5, <1>6, <1>7, <1>8, <1>9, <1>10, <1>11, <1>12 DEF MemOK

\* What page_free clears is the tail of the region.
LEMMA TailFreed ==
  ASSUME NEW f \in [Pages -> PageFlags], NEW p, NEW e, RegionTail(f, p, e)
  PROVE  FreedFrom(f, p, e, PageFreed(f, p))
<1> DEFINE g == Closed(f, p)
           s == Stop(g, p)
           h == PageFreed(f, p)
<1>1. /\ p \in Int /\ e \in Int /\ p <= e /\ p \in Pages /\ e \in Pages /\ IsLast(f, e)
      /\ \A j \in p..e : IsTaken(f, j)
      /\ \A j \in p..e - 1 : ~IsLast(f, j)
      /\ NumPages \in Nat /\ 0 <= p /\ e < NumPages
  BY PagesAre DEF RegionTail
<1>2. /\ \A j \in Pages : j # p - 1 => g[j] = f[j]
      /\ p - 1 \in Pages =>
           g[p - 1] = IF ~IsFirst(f, p) /\ IsTaken(f, p - 1) THEN f[p - 1] \union {"LAST"}
                                                            ELSE f[p - 1]
  <2>1. CASE ~IsFirst(f, p) /\ p > 0 /\ IsTaken(f, p - 1)
    <3>1. g = [f EXCEPT ![p - 1] = f[p - 1] \union {"LAST"}]
      BY <2>1 DEF Closed
    <3> HIDE DEF g
    <3> QED
      BY <2>1, <3>1
  <2>2. CASE ~(~IsFirst(f, p) /\ p > 0 /\ IsTaken(f, p - 1))
    <3>1. g = f
      BY <2>2 DEF Closed
    <3>2. p - 1 \in Pages => p > 0
      BY <1>1, PagesAre
    <3> HIDE DEF g
    <3> QED
      BY <2>2, <3>1, <3>2
  <2> QED
    BY <2>1, <2>2
<1> HIDE DEF g
<1>3. \A j \in p..e : j \in Pages /\ g[j] = f[j]
  BY <1>1, <1>2, PagesAre
<1>4. s = e + 1
  <2> DEFINE S == {j \in p..NumPages : \/ j = NumPages
                                       \/ ~IsTaken(g, j)
                                       \/ j > p /\ IsLast(g, j - 1)}
  <2>1. S \in SUBSET Nat
    BY <1>1
  <2>2. e + 1 \in S
    <3>1. e + 1 \in p..NumPages /\ e + 1 > p /\ (e + 1) - 1 = e
      BY <1>1
    <3>2. IsLast(g, (e + 1) - 1)
      BY <1>1, <1>3, <3>1 DEF IsLast
    <3> QED
      BY <3>1, <3>2
  <2>3. \A j \in p..e : j \notin S
    <3> SUFFICES ASSUME NEW j \in p..e PROVE j \notin S
      OBVIOUS
    <3>1. IsTaken(g, j) /\ j # NumPages
      BY <1>1, <1>3 DEF IsTaken
    <3>2. ASSUME j > p PROVE ~IsLast(g, j - 1)
      <4>1. j - 1 \in p..e - 1 /\ j - 1 \in p..e
        BY <1>1, <3>2
      <4> QED
        BY <1>1, <1>3, <4>1 DEF IsLast
    <3> QED
      BY <3>1, <3>2
  <2>4. Min(S) \in S /\ Min(S) <= e + 1
    BY <2>1, <2>2, MinProperties
  <2>5. Min(S) \in p..NumPages /\ Min(S) \notin p..e
    BY <2>3, <2>4
  <2>6. Min(S) = e + 1
    BY <1>1, <2>4, <2>5
  <2> QED
    BY <2>6 DEF Stop
<1>5. h = [j \in Pages |-> IF j \in p..s - 1 THEN {} ELSE g[j]]
  BY DEF PageFreed, Cleared, g
<1> HIDE DEF s, h
<1>6. \A j \in Pages : h[j] = IF j \in p..e THEN {} ELSE g[j]
  <2>1. (e + 1) - 1 = e
    BY <1>1
  <2> QED
    BY <1>4, <1>5, <2>1
<1>7. p - 1 \notin p..e
  BY <1>1
<1> QED
  BY <1>2, <1>6, <1>7 DEF FreedFrom, h

\* A taken page is in the tail of a region, and free finds its end.
LEMMA TailFound ==
  ASSUME WellFormed(flags), NEW p \in Pages, IsTaken(flags, p)
  PROVE  \E e \in Pages : RegionTail(flags, p, e) /\ LastOf(p) = e
<1>1. PICK e \in Pages : /\ p <= e /\ IsLast(flags, e)
                         /\ \A j \in p..e : IsTaken(flags, j)
                         /\ \A j \in p..e - 1 : ~IsLast(flags, j)
  BY TailExists
<1> DEFINE S == {j \in p..NumPages - 1 : IsLast(flags, j)}
<1>2. S \in SUBSET Nat /\ e \in S /\ \A j \in S : j \in Int /\ e <= j
  BY <1>1, PagesAre
<1>3. Min(S) \in S /\ Min(S) <= e
  BY <1>2, MinProperties
<1>4. Min(S) = e
  BY <1>1, <1>2, <1>3, PagesAre
<1> QED
  BY <1>1, <1>4 DEF RegionTail, LastOf

\* What the owner gives back is cut from it, and from nobody else.
LEMMA DroppedIsCut ==
  ASSUME NEW a \in live, NEW c, NEW G, Kept(a, c) = a \ G,
         \A x \in live : x # a => x \intersect G = {}
  PROVE  Cut(live, Dropped(a, c), G)
<1>1. Dropped(a, c) = (live \ {a}) \union ({a \ G} \ {{}})
  BY DEF Dropped
<1>2. \A x \in live : x # a => x = x \ G
  OBVIOUS
<1>3. ASSUME NEW x \in Dropped(a, c) PROVE \E y \in live : x = y \ G
  <2>1. (x \in live /\ x # a) \/ x = a \ G
    BY <1>1, <1>3
  <2> QED
    BY <1>2, <2>1
<1>4. ASSUME NEW y \in live PROVE y \ G = {} \/ y \ G \in Dropped(a, c)
  <2>1. CASE y = a
    BY <1>1, <2>1
  <2>2. CASE y # a
    BY <1>1, <1>2, <2>2
  <2> QED
    BY <2>1, <2>2
<1> QED
  BY <1>3, <1>4 DEF Cut

\* free of pages gives back whole pages of the caller, all of what it has from
\* there on, and clears the flags of nothing else.
LEMMA FreePagesMem ==
  ASSUME TypesInv, NoOverlap, harm = {}, MemOK(flags, block, live),
         NEW a, NEW c, FreePages(a, c)
  PROVE  MemOK(flags', block', live')
<1> DEFINE p == c[1]
<1>1. /\ a \in live /\ c \in a /\ c = <<p, c[2]>> /\ p \in Pages /\ IsTaken(flags, p)
      /\ c[2] = 0 /\ ~Managed(flags, p) /\ ~Managed(flags, LastOf(p))
      /\ flags' = PageFreed(flags, p) /\ live' = Dropped(a, c) /\ block' = block
  <2>1. Sound /\ FreePoint(a, c)
    BY DEF FreePages
  <2> QED
    BY <2>1, FreePointProperties DEF FreePages, FreePoint
<1> HIDE DEF p
<1>2. PICK e \in Pages : RegionTail(flags, p, e) /\ LastOf(p) = e
  BY <1>1, TailFound DEF MemOK
<1>3. /\ p \in Int /\ e \in Int /\ p <= e /\ IsLast(flags, e) /\ 0 <= p
      /\ \A j \in p..e : j \in Pages /\ IsTaken(flags, j)
      /\ \A j \in p..e - 1 : ~IsLast(flags, j)
  BY <1>1, <1>2, PagesAre DEF RegionTail
<1>4. \A j \in p..e : ~Managed(flags, j)
  <2> SUFFICES ASSUME NEW j \in p..e, Managed(flags, j) PROVE FALSE
    OBVIOUS
  <2>1. IsLast(flags, j)
    BY <1>3 DEF MemOK, ManagedLast
  <2>2. j = e
    BY <1>3, <2>1
  <2> QED
    BY <1>1, <1>2, <2>2
<1>5. \A j \in p..e : <<j, 0>> \in a
  <2> DEFINE S == {j \in p..e : <<j, 0>> \notin a}
             m == Min(S)
  <2>1. SUFFICES ASSUME S # {} PROVE FALSE
    OBVIOUS
  <2>2. S \in SUBSET Nat
    BY <1>3
  <2>3. m \in S /\ \A j \in S : m <= j
    BY <2>1, <2>2, MinProperties
  <2> HIDE DEF m
  <2>4. m \in p..e /\ <<m, 0>> \notin a /\ m # p
    BY <1>1, <2>3
  <2>5. m - 1 \in p..e /\ m - 1 \in p..e - 1 /\ (m - 1) + 1 = m /\ ~(m <= m - 1)
    BY <1>3, <2>4
  <2>6. <<m - 1, 0>> \in a
    BY <2>3, <2>5
  <2>7. <<(m - 1) + 1, 0>> \in a
    BY <1>1, <1>3, <1>4, <2>4, <2>5, <2>6 DEF MemOK, ChainPages
  <2> QED
    BY <2>4, <2>5, <2>7
<1>6. \A j \in p..e : \A k \in Depth : <<j, k>> \in a
  <2> SUFFICES ASSUME NEW j \in p..e PROVE \A k \in Depth : <<j, k>> \in a
    OBVIOUS
  <2>1. PICK x \in live : \A k \in Depth : <<j, k>> \in x
    BY <1>3, <1>4 DEF MemOK, PagesOwned
  <2>2. <<j, 0>> \in x /\ <<j, 0>> \in a
    BY <1>5, <2>1, DepthIs
  <2>3. x = a
    BY <1>1, <2>2 DEF NoOverlap
  <2> QED
    BY <2>1, <2>3
<1> DEFINE G == PageCells(p, e)
<1>7. \A d \in Cell : d = <<d[1], d[2]>> /\ d[1] \in Pages /\ d[2] \in Depth
  BY DEF Cell, Depth
<1>8. \A x \in live : x # a => x \intersect G = {}
  <2> SUFFICES ASSUME NEW x \in live, x # a, NEW d \in x, d \in G PROVE FALSE
    OBVIOUS
  <2>1. d \in a
    BY <1>6, <1>7 DEF PageCells
  <2> QED
    BY <1>1, <2>1 DEF NoOverlap
<1>9. Kept(a, c) = a \ G
  <2> SUFFICES ASSUME NEW d \in a PROVE d \in Kept(a, c) <=> d \notin G
    BY DEF Kept
  <2>1. d \in Cell
    BY <1>1 DEF TypesInv, Typed
  <2>2. d = <<d[1], d[2]>> /\ d[1] \in Pages /\ d[2] \in Depth /\ d[1] \in Int
        /\ d[2] \in Int /\ 0 <= d[2]
    BY <1>7, <2>1, PagesAre, DepthIs
  <2>3. d[1] <= e
    <3>1. \A h \in p..d[1] - 1 : ~IsLast(flags, h)
      BY <1>1, <2>2, DepthIs DEF MemOK, SpanPages
    <3> QED
      BY <1>3, <2>2, <3>1
  <2>4. d \in Kept(a, c) <=> d[1] < p
    BY <1>1, <2>2 DEF Kept, p
  <2> QED
    BY <1>3, <2>1, <2>2, <2>3, <2>4 DEF PageCells
<1>10. Cut(live, live', G)
  BY <1>1, <1>8, <1>9, DroppedIsCut
<1>11. FreedFrom(flags, p, e, flags')
  BY <1>1, <1>2, TailFreed DEF TypesInv, Typed
<1>12. live \in SUBSET SUBSET Cell
  BY DEF TypesInv, Typed
<1> QED
  BY <1>1, <1>2, <1>10, <1>11, <1>12, FreedPagesMem

\* A block that does not end an allocation is followed by one that does not
\* begin one.
Chained(b) ==
  \A k \in Blocks : ~FreeBlock(b, k) /\ "LAST" \notin b[k] =>
    k + 1 \in Blocks /\ ~FreeBlock(b, k + 1) /\ "FIRST" \notin b[k + 1]

\* The blocks from k to the end of an allocation.
BlockTail(b, k, e) ==
  /\ k \in Blocks /\ e \in Blocks /\ k <= e /\ "LAST" \in b[e]
  /\ \A j \in k..e : ~FreeBlock(b, j)
  /\ \A j \in k..e - 1 : "LAST" \notin b[j]

\* Blocks k..e become free, and the allocation ends in front of them.
CutTable(b, k, e, t) ==
  /\ \A j \in Blocks : j \in k..e => t[j] = {}
  /\ \A j \in Blocks : j \notin k..e =>
       t[j] = IF j = k - 1 /\ "FIRST" \notin b[k] /\ ~FreeBlock(b, j)
              THEN b[j] \union {"LAST"} ELSE b[j]

LEMMA BlockTailExists ==
  ASSUME NEW b, Chained(b), NEW k \in Blocks, ~FreeBlock(b, k)
  PROVE  \E e \in Blocks : BlockTail(b, k, e)
<1> DEFINE S == {j \in k..Table - 1 : \/ j = Table - 1
                                      \/ FreeBlock(b, j)
                                      \/ j > k /\ "LAST" \in b[j - 1]}
           s == Min(S)
<1>0. k \in Int /\ 0 <= k /\ k <= Table - 2 /\ Table \in Nat
  BY Sizing
<1>1. S \in SUBSET Nat /\ Table - 1 \in S
  BY <1>0
<1>2. s \in S /\ \A j \in S : s <= j
  BY <1>1, MinProperties
<1>3. s \in k..Table - 1 /\ (s = Table - 1 \/ FreeBlock(b, s) \/ (s > k /\ "LAST" \in b[s - 1]))
  BY <1>2
<1>4. \A j \in k..s - 1 : j \in Blocks /\ ~FreeBlock(b, j) /\ (j > k => "LAST" \notin b[j - 1])
  <2> SUFFICES ASSUME NEW j \in k..s - 1
               PROVE  j \in Blocks /\ ~FreeBlock(b, j) /\ (j > k => "LAST" \notin b[j - 1])
    OBVIOUS
  <2>1. j \in k..Table - 1 /\ ~(s <= j) /\ j \in Blocks /\ j # Table - 1
    BY <1>0, <1>3, Sizing
  <2>2. j \notin S
    BY <1>2, <2>1
  <2> QED
    BY <2>1, <2>2
<1> HIDE DEF s, S
<1>5. s > k
  BY <1>0, <1>3
<1>6. s - 1 \in Blocks /\ ~FreeBlock(b, s - 1)
  BY <1>0, <1>3, <1>4, <1>5
<1>7. "LAST" \in b[s - 1]
  <2> SUFFICES ASSUME "LAST" \notin b[s - 1] PROVE FALSE
    OBVIOUS
  <2>1. (s - 1) + 1 \in Blocks /\ ~FreeBlock(b, (s - 1) + 1)
    BY <1>6 DEF Chained
  <2>2. (s - 1) + 1 = s
    BY <1>3
  <2> QED
    BY <1>3, <2>1, <2>2, Sizing
<1>8. \A j \in k..(s - 1) - 1 : "LAST" \notin b[j]
  <2> SUFFICES ASSUME NEW j \in k..(s - 1) - 1 PROVE "LAST" \notin b[j]
    OBVIOUS
  <2>1. j + 1 \in k..s - 1 /\ j + 1 > k /\ (j + 1) - 1 = j
    BY <1>0, <1>3
  <2> QED
    BY <1>4, <2>1
<1>9. k <= s - 1 /\ \A j \in k..s - 1 : ~FreeBlock(b, j)
  BY <1>0, <1>3, <1>4, <1>5
<1> QED
  BY <1>6, <1>7, <1>8, <1>9 DEF BlockTail

\* What free clears is the tail of the allocation.
LEMMA BlocksCut ==
  ASSUME NEW b \in BlockTable, NEW k, NEW e, BlockTail(b, k, e)
  PROVE  CutTable(b, k, e, BlocksFreed(b, k))
<1> DEFINE g == BlocksClosed(b, k)
           s == BlockStop(g, k)
           t == BlocksFreed(b, k)
<1>1. /\ k \in Int /\ e \in Int /\ k <= e /\ k \in Blocks /\ "LAST" \in b[e]
      /\ \A j \in k..e : ~FreeBlock(b, j)
      /\ \A j \in k..e - 1 : "LAST" \notin b[j]
      /\ Table \in Nat /\ 0 <= k /\ e <= Table - 2
  BY Sizing DEF BlockTail
<1>2. \A j \in Blocks : j \notin k..e =>
        g[j] = IF j = k - 1 /\ "FIRST" \notin b[k] /\ ~FreeBlock(b, j)
               THEN b[j] \union {"LAST"} ELSE b[j]
  <2>1. CASE "FIRST" \notin b[k] /\ k > 0 /\ ~FreeBlock(b, k - 1)
    <3>1. g = [b EXCEPT ![k - 1] = b[k - 1] \union {"LAST"}]
      BY <2>1 DEF BlocksClosed
    <3>2. b \in [Blocks -> BlockFlags]
      BY DEF BlockTable
    <3> HIDE DEF g
    <3> QED
      BY <2>1, <3>1, <3>2
  <2>2. CASE ~("FIRST" \notin b[k] /\ k > 0 /\ ~FreeBlock(b, k - 1))
    <3>1. g = b
      BY <2>2 DEF BlocksClosed
    <3>2. k - 1 \in Blocks => k > 0
      BY <1>1, Sizing
    <3> HIDE DEF g
    <3> QED
      BY <2>2, <3>1, <3>2
  <2> QED
    BY <2>1, <2>2
<1>3. \A j \in k..e : j \in Blocks /\ g[j] = b[j]
  <2>1. \A j \in k..e : j \in Blocks /\ j # k - 1
    BY <1>1, Sizing
  <2>2. b \in [Blocks -> BlockFlags]
    BY DEF BlockTable
  <2> QED
    BY <2>1, <2>2 DEF BlocksClosed
<1> HIDE DEF g
<1>4. s = e + 1
  <2> DEFINE S == {j \in k..Table - 1 : \/ j = Table - 1
                                        \/ FreeBlock(g, j)
                                        \/ j > k /\ "LAST" \in g[j - 1]}
  <2>1. S \in SUBSET Nat
    BY <1>1
  <2>2. e + 1 \in S
    <3>1. e + 1 \in k..Table - 1 /\ e + 1 > k /\ (e + 1) - 1 = e /\ e \in k..e
      BY <1>1
    <3>2. "LAST" \in g[(e + 1) - 1]
      BY <1>1, <1>3, <3>1
    <3> QED
      BY <3>1, <3>2
  <2>3. \A j \in k..e : j \notin S
    <3> SUFFICES ASSUME NEW j \in k..e PROVE j \notin S
      OBVIOUS
    <3>1. ~FreeBlock(g, j) /\ j # Table - 1
      BY <1>1, <1>3 DEF FreeBlock
    <3>2. ASSUME j > k PROVE "LAST" \notin g[j - 1]
      <4>1. j - 1 \in k..e - 1 /\ j - 1 \in k..e
        BY <1>1, <3>2
      <4> QED
        BY <1>1, <1>3, <4>1
    <3> QED
      BY <3>1, <3>2
  <2>4. Min(S) \in S /\ Min(S) <= e + 1
    BY <2>1, <2>2, MinProperties
  <2>5. Min(S) \in k..Table - 1 /\ Min(S) \notin k..e
    BY <2>3, <2>4
  <2>6. Min(S) = e + 1
    BY <1>1, <2>4, <2>5
  <2> QED
    BY <2>6 DEF BlockStop
<1>5. t = [j \in Blocks |-> IF j \in k..s - 1 THEN {} ELSE g[j]]
  BY DEF BlocksFreed, g
<1> HIDE DEF s, t
<1>6. \A j \in Blocks : t[j] = IF j \in k..e THEN {} ELSE g[j]
  <2>1. (e + 1) - 1 = e
    BY <1>1
  <2> QED
    BY <1>4, <1>5, <2>1
<1> QED
  BY <1>2, <1>6 DEF CutTable, t

LEMMA CutTableShape ==
  ASSUME NEW b, NEW k, NEW e, NEW t, CutTable(b, k, e, t)
  PROVE  /\ \A j \in Blocks : ~FreeBlock(t, j) <=> ~FreeBlock(b, j) /\ j \notin k..e
         /\ \A j \in Blocks : j \notin k..e => ("FIRST" \in t[j] <=> "FIRST" \in b[j])
         /\ \A j \in Blocks : j \notin k..e =>
              ("LAST" \in t[j] <=>
                  ("LAST" \in b[j] \/ (j = k - 1 /\ "FIRST" \notin b[k] /\ ~FreeBlock(b, j))))
<1>1. ASSUME NEW j \in Blocks, j \in k..e PROVE FreeBlock(t, j)
  BY <1>1 DEF CutTable, FreeBlock
<1>2. ASSUME NEW j \in Blocks, j \notin k..e
      PROVE  /\ ~FreeBlock(t, j) <=> ~FreeBlock(b, j)
             /\ "FIRST" \in t[j] <=> "FIRST" \in b[j]
             /\ "LAST" \in t[j] <=>
                  ("LAST" \in b[j] \/ (j = k - 1 /\ "FIRST" \notin b[k] /\ ~FreeBlock(b, j)))
  <2>1. CASE j = k - 1 /\ "FIRST" \notin b[k] /\ ~FreeBlock(b, j)
    <3>1. t[j] = b[j] \union {"LAST"}
      BY <1>2, <2>1 DEF CutTable
    <3> QED
      BY <2>1, <3>1 DEF FreeBlock
  <2>2. CASE ~(j = k - 1 /\ "FIRST" \notin b[k] /\ ~FreeBlock(b, j))
    <3>1. t[j] = b[j]
      BY <1>2, <2>2 DEF CutTable
    <3>2. ~FreeBlock(t, j) <=> ~FreeBlock(b, j)
      BY <3>1 DEF FreeBlock
    <3> QED
      BY <2>2, <3>1, <3>2
  <2> QED
    BY <2>1, <2>2
<1>3. \A j \in Blocks : ~FreeBlock(t, j) <=> ~FreeBlock(b, j) /\ j \notin k..e
  BY <1>1, <1>2
<1> QED
  BY <1>2, <1>3

\* The blocks of an allocation's tail become free, and the owners' cells there go.
LEMMA FreedBlocksMem ==
  ASSUME NEW f, NEW b \in [Pages -> BlockTable], NEW l \in SUBSET SUBSET Cell,
         MemOK(f, b, l),
         NEW i \in Pages, Managed(f, i), NEW p, NEW e, BlockTail(b[i], p, e),
         NEW t, CutTable(b[i], p, e, t),
         NEW n, Cut(l, n, BlockCells(i, p, e))
  PROVE  MemOK(f, [b EXCEPT ![i] = t], n)
<1> DEFINE G == BlockCells(i, p, e)
           c == [b EXCEPT ![i] = t]
<1>1. \A q \in Pages, k \in Depth : <<q, k>> \in G <=> q = i /\ k \in p..e
  BY DEF Cell, Depth, BlockCells
<1>2. /\ \A x \in n : \E y \in l : \A d : d \in x <=> d \in y /\ d \notin G
      /\ \A y \in l : \A d \in y : d \notin G =>
           \E x \in n : \A g : g \in x <=> g \in y /\ g \notin G
  BY CutCells
<1> HIDE DEF G
<1>3. /\ p \in Int /\ e \in Int /\ p <= e /\ p \in Blocks /\ e \in Blocks
      /\ e \in p..e /\ "LAST" \in b[i][e]
      /\ \A j \in Blocks : j \in Int /\ 0 <= j
  BY Sizing DEF BlockTail
<1>4. c[i] = t /\ \A q \in Pages : q # i => c[q] = b[q]
  OBVIOUS
<1> HIDE DEF c
<1>5. /\ \A q \in Pages, k \in Blocks : ~FreeBlock(c[q], k) <=>
           ~FreeBlock(b[q], k) /\ (q # i \/ k \notin p..e)
      /\ \A k \in Blocks : k \notin p..e => ("FIRST" \in c[i][k] <=> "FIRST" \in b[i][k])
      /\ \A k \in Blocks : k \notin p..e =>
           ("LAST" \in c[i][k] <=>
               ("LAST" \in b[i][k] \/ (k = p - 1 /\ "FIRST" \notin b[i][p] /\ ~FreeBlock(b[i], k))))
  BY <1>4, CutTableShape
<1>6. WellFormed(f) /\ ManagedLast(f)
  BY DEF MemOK
<1>7. LiveMarked(f, c, n)
  <2> SUFFICES ASSUME NEW x \in n, NEW q \in Pages, NEW k \in Depth, <<q, k>> \in x
               PROVE  IsTaken(f, q) /\ (Managed(f, q) => k \in Blocks /\ ~FreeBlock(c[q], k))
    BY DEF LiveMarked
  <2>1. PICK y \in l : \A d : d \in x <=> d \in y /\ d \notin G
    BY <1>2
  <2>2. <<q, k>> \in y /\ ~(q = i /\ k \in p..e)
    BY <1>1, <2>1
  <2>3. IsTaken(f, q) /\ (Managed(f, q) => k \in Blocks /\ ~FreeBlock(b[q], k))
    BY <2>2 DEF MemOK, LiveMarked
  <2> QED
    BY <1>5, <2>2, <2>3
<1>8. PagesOwned(f, n)
  <2> SUFFICES ASSUME NEW q \in Pages, IsTaken(f, q), ~Managed(f, q)
               PROVE  \E x \in n : \A k \in Depth : <<q, k>> \in x
    BY DEF PagesOwned
  <2>1. q # i
    OBVIOUS
  <2>2. PICK y \in l : \A k \in Depth : <<q, k>> \in y
    BY DEF MemOK, PagesOwned
  <2>3. <<q, 0>> \in y /\ <<q, 0>> \notin G
    BY <1>1, <2>1, <2>2, DepthIs
  <2>4. PICK x \in n : \A g : g \in x <=> g \in y /\ g \notin G
    BY <1>2, <2>3
  <2> QED
    BY <1>1, <2>1, <2>2, <2>4
<1>9. ChainPages(f, n)
  <2> SUFFICES ASSUME NEW q \in Pages, IsTaken(f, q), ~IsLast(f, q), ~Managed(f, q + 1),
                      NEW x \in n, <<q, 0>> \in x
               PROVE  <<q + 1, 0>> \in x
    BY DEF ChainPages
  <2>1. PICK y \in l : \A d : d \in x <=> d \in y /\ d \notin G
    BY <1>2
  <2>2. <<q + 1, 0>> \in y
    BY <2>1 DEF MemOK, ChainPages
  <2>3. q + 1 \in Pages /\ q + 1 # i
    BY <1>6 DEF WellFormed
  <2> QED
    BY <1>1, <2>1, <2>2, <2>3, DepthIs
<1>10. SpanPages(f, n)
  <2> SUFFICES ASSUME NEW x \in n, NEW q \in Pages, NEW j \in Pages, NEW k \in Depth,
                      NEW m \in Depth, <<q, k>> \in x, <<j, m>> \in x
               PROVE  \A h \in q..j - 1 : IsTaken(f, h) /\ ~IsLast(f, h)
    BY DEF SpanPages
  <2>1. PICK y \in l : \A d : d \in x <=> d \in y /\ d \notin G
    BY <1>2
  <2> QED
    BY <2>1 DEF MemOK, SpanPages
<1>11. BlocksOwned(f, c, n)
  <2> SUFFICES ASSUME NEW q \in Pages, Managed(f, q), NEW k \in Blocks, ~FreeBlock(c[q], k)
               PROVE  \E x \in n : <<q, k>> \in x
    BY DEF BlocksOwned
  <2>1. ~FreeBlock(b[q], k) /\ ~(q = i /\ k \in p..e)
    BY <1>5
  <2>2. PICK y \in l : <<q, k>> \in y
    BY <2>1 DEF MemOK, BlocksOwned
  <2> QED
    BY <1>1, <1>2, <2>1, <2>2, DepthIs
<1>12. ChainBlocks(f, c, n)
  <2> SUFFICES ASSUME NEW q \in Pages, Managed(f, q), NEW k \in Blocks,
                      ~FreeBlock(c[q], k), "LAST" \notin c[q][k]
               PROVE  /\ k + 1 \in Blocks /\ ~FreeBlock(c[q], k + 1)
                      /\ "FIRST" \notin c[q][k + 1]
                      /\ \A x \in n : <<q, k>> \in x => <<q, k + 1>> \in x
    BY DEF ChainBlocks
  <2>1. ~FreeBlock(b[q], k) /\ ~(q = i /\ k \in p..e)
    BY <1>5
  <2>2. "LAST" \notin b[q][k]
    BY <1>4, <1>5, <2>1
  <2>3. /\ k + 1 \in Blocks /\ ~FreeBlock(b[q], k + 1) /\ "FIRST" \notin b[q][k + 1]
        /\ \A y \in l : <<q, k>> \in y => <<q, k + 1>> \in y
    BY <2>1, <2>2 DEF MemOK, ChainBlocks
  <2>4. ~(q = i /\ k + 1 \in p..e)
    <3>1. SUFFICES ASSUME q = i, k + 1 \in p..e PROVE FALSE
      OBVIOUS
    <3>2. k = p - 1 /\ k + 1 = p
      BY <1>3, <2>1, <3>1
    <3> QED
      BY <1>5, <2>1, <2>3, <3>1, <3>2
  <2>5. ~FreeBlock(c[q], k + 1) /\ "FIRST" \notin c[q][k + 1]
    BY <1>4, <1>5, <2>3, <2>4
  <2>6. ASSUME NEW x \in n, <<q, k>> \in x PROVE <<q, k + 1>> \in x
    <3>1. PICK y \in l : \A d : d \in x <=> d \in y /\ d \notin G
      BY <1>2
    <3>2. <<q, k + 1>> \in y
      BY <2>3, <2>6, <3>1
    <3> QED
      BY <1>1, <2>3, <2>4, <3>1, <3>2, DepthIs
  <2> QED
    BY <2>3, <2>5, <2>6
<1>13. SpanBlocks(f, c, n)
  <2> SUFFICES ASSUME NEW q \in Pages, Managed(f, q), NEW x \in n, NEW k \in Depth,
                      NEW m \in Depth, <<q, k>> \in x, <<q, m>> \in x, NEW h \in k..m - 1
               PROVE  ~FreeBlock(c[q], h) /\ "LAST" \notin c[q][h]
    BY DEF SpanBlocks
  <2>1. PICK y \in l : \A d : d \in x <=> d \in y /\ d \notin G
    BY <1>2
  <2>2. <<q, k>> \in y /\ <<q, m>> \in y /\ ~(q = i /\ k \in p..e) /\ ~(q = i /\ m \in p..e)
    BY <1>1, <2>1
  <2>3. \A r \in k..m - 1 : ~FreeBlock(b[q], r) /\ "LAST" \notin b[q][r]
    BY <2>2 DEF MemOK, SpanBlocks
  <2>4. k \in Blocks /\ m \in Blocks
    BY <2>2 DEF MemOK, LiveMarked
  <2>5. h \in Blocks
    BY <2>4, Sizing
  <2>6. q # i => ~FreeBlock(c[q], h) /\ "LAST" \notin c[q][h]
    BY <1>4, <2>3
  <2>7. ASSUME q = i PROVE h \notin p..e /\ h # p - 1
    <3>1. e \notin k..m - 1
      BY <1>3, <2>3, <2>7
    <3> QED
      BY <1>3, <2>2, <2>4, <2>7, <3>1
  <2>8. q = i => ~FreeBlock(c[q], h) /\ "LAST" \notin c[q][h]
    BY <1>5, <2>3, <2>5, <2>7
  <2> QED
    BY <2>6, <2>8
<1> QED
  BY <1>6, <1>7, <1>8, <1>9, <1>10, <1>11, <1>12, <1>13 DEF MemOK, c

\* A managed page without a block in use can go.
LEMMA ReleasedMem ==
  ASSUME NEW f \in [Pages -> PageFlags], NEW b, NEW l \in SUBSET SUBSET Cell,
         MemOK(f, b, l), NEW i \in Pages, Managed(f, i), Taken(b[i]) = {}
  PROVE  MemOK(Released(f, i, 0), b, l)
<1> DEFINE g == [f EXCEPT ![i] = @ \ {"MALLOC"}]
           h == Released(f, i, 0)
           G == PageCells(i, i)
<1>1. h = PageFreed(g, i)
  <2>1. g = [f EXCEPT ![i] = IF Managed(f, i) THEN @ \ {"MALLOC"} ELSE @ \union {"MALLOC"}]
    OBVIOUS
  <2> QED
    BY <2>1 DEF Released
<1>2. /\ g \in [Pages -> PageFlags]
      /\ \A j \in Pages : j # i => g[j] = f[j]
      /\ \A j \in Pages : (IsTaken(g, j) <=> IsTaken(f, j)) /\ (IsLast(g, j) <=> IsLast(f, j))
                          /\ (IsFirst(g, j) <=> IsFirst(f, j))
  BY DEF PageFlags, IsTaken, IsLast, IsFirst
<1> HIDE DEF g, h
<1>3. i \in Int /\ i..i = {i} /\ i - 1 # i /\ i..i - 1 = {}
  BY PagesAre
<1>4. IsTaken(f, i) /\ IsLast(f, i)
  BY DEF MemOK, ManagedLast
<1>5. RegionTail(f, i, i) /\ RegionTail(g, i, i)
  BY <1>2, <1>3, <1>4 DEF RegionTail
<1>6. FreedFrom(f, i, i, h)
  <2>1. FreedFrom(g, i, i, h)
    BY <1>1, <1>2, <1>5, TailFreed
  <2> QED
    BY <1>2, <1>3, <2>1 DEF FreedFrom
<1>7. \A x \in l : x \ G = x
  <2> SUFFICES ASSUME NEW x \in l, NEW d \in x, d \in G PROVE FALSE
    OBVIOUS
  <2>1. d = <<i, d[2]>> /\ d[2] \in Depth
    BY <1>3 DEF Cell, Depth, PageCells
  <2>2. d[2] \in Blocks /\ ~FreeBlock(b[i], d[2])
    BY <2>1 DEF MemOK, LiveMarked
  <2> QED
    BY <2>2 DEF Taken
<1>8. Cut(l, l, G)
  BY <1>7 DEF Cut
<1>9. MemOK(h, b, l)
  BY <1>5, <1>6, <1>8, FreedPagesMem
<1> QED
  BY <1>9 DEF h

\* free of blocks gives back the caller's blocks from there to its last one.
LEMMA ClearMem ==
  ASSUME CountInv, harm = {}, MemOK(flags, block, live),
         NEW a, NEW c, Freeing(a, c)
  PROVE  LET t == BlocksFreed(block[c[1]], c[2]) IN
         /\ c[1] \in Pages /\ Managed(flags, c[1]) /\ MemOK(flags, block', live')
         /\ block'[c[1]] = t /\ usage'[c[1]] = Cardinality(Taken(t))
         /\ live' \in SUBSET SUBSET Cell
<1> DEFINE i == c[1]
           p == c[2]
           b == block[i]
           t == BlocksFreed(b, p)
<1>1. /\ a \in live /\ c \in a /\ c = <<i, p>> /\ i \in Pages /\ IsTaken(flags, i)
      /\ Managed(flags, i) /\ p \in Blocks /\ ~FreeBlock(b, p)
  <2>1. Sound /\ FreePoint(a, c) /\ TypesInv
    BY DEF Freeing, CountInv
  <2> QED
    BY <2>1, FreePointProperties DEF Freeing
<1>2. /\ block' = [block EXCEPT ![i] = t] /\ live' = Dropped(a, c)
      /\ usage' = [usage EXCEPT ![i] = Cardinality(Taken(t))]
  <2>1. TypesInv /\ UsageExact /\ harm \subseteq {"tail"}
    BY DEF CountInv
  <2> QED
    BY <2>1, FreedCount
<1> HIDE DEF i, p, b, t
<1>3. b \in BlockTable /\ Chained(b)
  BY <1>1 DEF CountInv, TypesInv, Typed, b, MemOK, ChainBlocks, Chained
<1>4. PICK e \in Blocks : BlockTail(b, p, e)
  BY <1>1, <1>3, BlockTailExists
<1>5. /\ p \in Int /\ e \in Int /\ p <= e /\ "LAST" \in b[e] /\ 0 <= p
      /\ \A j \in p..e : j \in Blocks /\ ~FreeBlock(b, j) /\ j \in Depth
      /\ \A j \in p..e - 1 : "LAST" \notin b[j]
  BY <1>1, <1>4, Sizing, DepthIs DEF BlockTail
<1>6. \A j \in p..e : <<i, j>> \in a
  <2> DEFINE S == {j \in p..e : <<i, j>> \notin a}
             m == Min(S)
  <2>1. SUFFICES ASSUME S # {} PROVE FALSE
    OBVIOUS
  <2>2. S \in SUBSET Nat
    BY <1>5
  <2>3. m \in S /\ \A j \in S : m <= j
    BY <2>1, <2>2, MinProperties
  <2> HIDE DEF m
  <2>4. m \in p..e /\ <<i, m>> \notin a /\ m # p
    BY <1>1, <2>3
  <2>5. m - 1 \in p..e /\ m - 1 \in p..e - 1 /\ (m - 1) + 1 = m /\ ~(m <= m - 1)
    BY <1>5, <2>4
  <2>6. <<i, m - 1>> \in a
    BY <2>3, <2>5
  <2>7. <<i, (m - 1) + 1>> \in a
    BY <1>1, <1>5, <2>5, <2>6 DEF MemOK, ChainBlocks, b
  <2> QED
    BY <2>4, <2>5, <2>7
<1> DEFINE G == BlockCells(i, p, e)
<1>7. \A d \in Cell : d = <<d[1], d[2]>> /\ d[1] \in Pages /\ d[2] \in Depth
  BY DEF Cell, Depth
<1>8. \A x \in live : x # a => x \intersect G = {}
  <2> SUFFICES ASSUME NEW x \in live, x # a, NEW d \in x, d \in G PROVE FALSE
    OBVIOUS
  <2>1. d \in a
    BY <1>6, <1>7 DEF BlockCells
  <2> QED
    BY <1>1, <2>1 DEF CountInv, NoOverlap
<1>9. Kept(a, c) = a \ G
  <2> SUFFICES ASSUME NEW d \in a PROVE d \in Kept(a, c) <=> d \notin G
    BY DEF Kept
  <2>1. d \in Cell
    BY <1>1 DEF CountInv, TypesInv, Typed
  <2>2. d = <<d[1], d[2]>> /\ d[1] \in Pages /\ d[2] \in Depth /\ d[1] \in Int
        /\ d[2] \in Int /\ 0 <= d[2] /\ i \in Int
    BY <1>1, <1>7, <2>1, PagesAre, DepthIs
  <2>3. d[1] <= i
    <3>1. \A h \in i..d[1] - 1 : ~IsLast(flags, h)
      BY <1>1, <1>5, <2>2 DEF MemOK, SpanPages
    <3>2. IsLast(flags, i)
      BY <1>1 DEF MemOK, ManagedLast
    <3> QED
      BY <2>2, <3>1, <3>2
  <2>4. ASSUME d[1] = i PROVE d[2] <= e
    <3>1. <<i, d[2]>> \in a /\ <<i, p>> \in a /\ p \in Depth
      BY <1>1, <2>2, <2>4, DepthIs
    <3>2. \A h \in p..d[2] - 1 : "LAST" \notin b[h]
      BY <1>1, <2>2, <3>1 DEF MemOK, SpanBlocks, b
    <3> QED
      BY <1>5, <2>2, <3>2
  <2>5. d \in Kept(a, c) <=> d[1] < i \/ (d[1] = i /\ d[2] < p)
    BY DEF Kept, i, p
  <2> QED
    BY <1>5, <2>1, <2>2, <2>3, <2>4, <2>5 DEF BlockCells
<1>10. Cut(live, live', G)
  BY <1>1, <1>2, <1>8, <1>9, DroppedIsCut
<1>11. CutTable(b, p, e, t)
  BY <1>3, <1>4, BlocksCut DEF t
<1>12. live \in SUBSET SUBSET Cell /\ live' \in SUBSET SUBSET Cell
       /\ block \in [Pages -> BlockTable] /\ flags \in [Pages -> PageFlags]
  BY <1>1, <1>2, DroppedTypes DEF CountInv, TypesInv, Typed
<1>13. MemOK(flags, block', live')
  <2>1. BlockTail(block[i], p, e) /\ CutTable(block[i], p, e, t)
    BY <1>4, <1>11 DEF b
  <2>2. MemOK(flags, [block EXCEPT ![i] = t], live')
    BY <1>1, <1>10, <1>12, <2>1, FreedBlocksMem
  <2> QED
    BY <1>2, <2>2
<1>14. block'[i] = t
  BY <1>1, <1>2, <1>12
<1>15. usage'[i] = Cardinality(Taken(t))
  <2>1. usage \in [Pages -> 0..CountWidth - 1]
    BY DEF CountInv, TypesInv, Typed
  <2> QED
    BY <1>1, <1>2, <2>1
<1> QED
  BY <1>1, <1>12, <1>13, <1>14, <1>15 DEF i, p, b, t

\* The page goes with the last block in use.
LEMMA FreeBlocksMem ==
  ASSUME CountInv, harm = {}, MemOK(flags, block, live),
         NEW a, NEW c, FreeBlocks(a, c)
  PROVE  MemOK(flags', block', live')
<1> DEFINE i == c[1]
           t == BlocksFreed(block[i], c[2])
<1>1. /\ i \in Pages /\ Managed(flags, i) /\ MemOK(flags, block', live')
      /\ block'[i] = t /\ flags' = Released(flags, i, Cardinality(Taken(t)))
      /\ live' \in SUBSET SUBSET Cell /\ flags \in [Pages -> PageFlags]
  BY ClearMem DEF FreeBlocks, Freeing, CountInv, TypesInv, Typed
<1> HIDE DEF i, t
<1>2. CASE Taken(t) = {}
  <2>1. flags' = Released(flags, i, 0)
    BY <1>1, <1>2, FS_EmptySet
  <2> QED
    BY <1>1, <1>2, <2>1, ReleasedMem
<1>3. CASE Taken(t) # {}
  <2>1. Cardinality(Taken(t)) # 0
    BY <1>3, TakenFinite, FS_EmptySet
  <2>2. flags' = flags
    BY <1>1, <2>1 DEF Released
  <2> QED
    BY <1>1, <2>2
<1> QED
  BY <1>2, <1>3

\* A free that was interrupted before it gave back an empty page may do so for as long
\* as the page is empty.
LEMMA FreeResumeMem ==
  ASSUME CountInv, MemOK(flags, block, live), FreeResume, harm' = {}
  PROVE  MemOK(flags', block', live')
<1>1. /\ emptied \in Pages /\ Managed(flags, emptied)
      /\ \A k \in Blocks : FreeBlock(block[emptied], k)
  BY DEF FreeResume, Harmed, StillEmpty, CountInv, TypesInv
<1>2. flags' = Released(flags, emptied, 0) /\ block' = block /\ live' = live
  BY DEF FreeResume
<1>3. Taken(block[emptied]) = {}
  BY <1>1 DEF Taken
<1>4. flags \in [Pages -> PageFlags] /\ live \in SUBSET SUBSET Cell
  BY DEF CountInv, TypesInv, Typed
<1> QED
  BY <1>1, <1>2, <1>3, <1>4, ReleasedMem

-----------------------------------------------------------------------------
(***************************************************************************)
(* Taking.                                                                 *)
(***************************************************************************)

\* A new allocation begins and ends where it should if its blocks were free.
LEMMA MarkedEnds ==
  ASSUME NEW b \in BlockTable, Clean(b), NEW k, NEW s, Inside(k, s),
         \A j \in k..k + s - 1 : FreeBlock(b, j)
  PROVE  \A j \in k..k + s - 1 :
           /\ "FIRST" \in BlocksMarked(b, k, s)[j] <=> j = k
           /\ "LAST" \in BlocksMarked(b, k, s)[j] <=> j = k + s - 1
<1> SUFFICES ASSUME NEW j \in k..k + s - 1
             PROVE  /\ "FIRST" \in BlocksMarked(b, k, s)[j] <=> j = k
                    /\ "LAST" \in BlocksMarked(b, k, s)[j] <=> j = k + s - 1
  OBVIOUS
<1>1. j \in Blocks
  BY MarkedTable
<1>2. b[j] = {}
  BY <1>1 DEF Clean
<1>3. BlocksMarked(b, k, s)[j] = b[j] \union {"TAKEN"} \union (IF j = k THEN {"FIRST"} ELSE {})
                                   \union (IF j = k + s - 1 THEN {"LAST"} ELSE {})
  BY <1>1 DEF BlocksMarked
<1> QED
  BY <1>2, <1>3

\* Blocks are taken in page i: one that is managed, or a free one.
LEMMA TakenPage ==
  ASSUME NEW f \in [Pages -> PageFlags], WellFormed(f), ManagedLast(f), NEW i \in Pages,
         NEW h, NEW fresh \in BOOLEAN,
         \A j \in Pages : j # i => h[j] = f[j],
         fresh => {"TAKEN", "LAST", "FIRST", "MALLOC"} \subseteq h[i], ~fresh => h = f,
         fresh => ~IsTaken(f, i), ~fresh => Managed(f, i)
  PROVE  /\ WellFormed(h) /\ ManagedLast(h)
         /\ \A j \in Pages : IsTaken(h, j) <=> IsTaken(f, j) \/ j = i
         /\ \A j \in Pages : Managed(h, j) <=> Managed(f, j) \/ j = i
         /\ \A j \in Pages : IsLast(h, j) <=> IsLast(f, j) \/ j = i
<1>1. \A j \in Pages : j # i => h[j] = f[j]
  OBVIOUS
<1>2. fresh => "FIRST" \in h[i] /\ "TAKEN" \in h[i] /\ "LAST" \in h[i] /\ "MALLOC" \in h[i]
  OBVIOUS
<1>3. ~fresh => h = f /\ IsTaken(f, i) /\ IsLast(f, i) /\ Managed(f, i)
  BY DEF ManagedLast
<1>4. \A j \in Pages : IsTaken(h, j) <=> IsTaken(f, j) \/ j = i
  BY <1>1, <1>2, <1>3 DEF IsTaken
<1>5. \A j \in Pages : Managed(h, j) <=> Managed(f, j) \/ j = i
  BY <1>1, <1>2, <1>3 DEF Managed
<1>6. \A j \in Pages : IsLast(h, j) <=> IsLast(f, j) \/ j = i
  BY <1>1, <1>2, <1>3 DEF IsLast
<1>7. \A j \in Pages : IsTaken(f, j) => (IsFirst(h, j) <=> IsFirst(f, j))
                                        /\ (IsLast(h, j) <=> IsLast(f, j))
  BY <1>1, <1>3 DEF IsFirst, IsLast
<1>8. fresh => IsFirst(h, i)
  BY <1>2 DEF IsFirst
<1>9. ManagedLast(h)
  BY <1>4, <1>5, <1>6 DEF ManagedLast
<1>10. ASSUME NEW j \in Pages, IsTaken(h, j), ~IsLast(h, j)
       PROVE  j + 1 \in Pages /\ IsTaken(h, j + 1) /\ ~IsFirst(h, j + 1)
  <2>1. IsTaken(f, j) /\ ~IsLast(f, j)
    BY <1>4, <1>6, <1>10
  <2>2. j + 1 \in Pages /\ IsTaken(f, j + 1) /\ ~IsFirst(f, j + 1)
    BY <2>1 DEF WellFormed
  <2> QED
    BY <1>4, <1>7, <2>2
<1>11. ASSUME NEW j \in Pages, IsTaken(h, j), ~IsFirst(h, j)
       PROVE  j - 1 \in Pages /\ IsTaken(h, j - 1) /\ ~IsLast(h, j - 1)
  <2>1. IsTaken(f, j) /\ ~IsFirst(f, j)
    BY <1>3, <1>4, <1>7, <1>8, <1>11
  <2>2. j - 1 \in Pages /\ IsTaken(f, j - 1) /\ ~IsLast(f, j - 1)
    BY <2>1 DEF WellFormed
  <2> QED
    BY <1>4, <1>7, <2>2
<1>12. \A j \in Pages : ~IsTaken(h, j) => h[j] = {}
  BY <1>1, <1>4 DEF WellFormed
<1> QED
  BY <1>4, <1>5, <1>6, <1>9, <1>10, <1>11, <1>12 DEF WellFormed

\* malloc of blocks that are free.
LEMMA TakeMem ==
  ASSUME TypesInv, MemOK(flags, block, live), NEW r, Fitting(r), StillFree(r), Take(r)
  PROVE  MemOK(flags', block', live')
<1> DEFINE i == r.page
           k == r.first
           s == r.size
           b == IF r.fresh THEN NoBlocks ELSE block[i]
           t == BlocksMarked(b, k, s)
           new == Cells(i, k..k + s - 1)
<1>1. i \in Pages /\ Inside(k, s) /\ s \in Nat /\ k \in Nat /\ r.fresh \in BOOLEAN
  BY DEF Fitting, Inside
<1>2. b \in BlockTable /\ Clean(b)
  BY <1>1, EmptyTable DEF TypesInv, Typed
<1>3. /\ flags' = IF r.fresh
                  THEN [flags EXCEPT ![i] = @ \union {"TAKEN", "LAST", "FIRST", "MALLOC"}]
                  ELSE flags
      /\ block' = [block EXCEPT ![i] = t] /\ live' = live \union {new}
  BY DEF Take
<1>4. /\ r.fresh => ~IsTaken(flags, i) /\ \A j \in Blocks : FreeBlock(b, j)
      /\ ~r.fresh => Managed(flags, i) /\ b = block[i]
      /\ \A j \in k..k + s - 1 : FreeBlock(b, j)
  <2>1. \A j \in k..k + s - 1 : j \in Blocks
    BY <1>1, <1>2, MarkedTable
  <2>2. \A j \in Blocks : FreeBlock(NoBlocks, j)
    BY DEF NoBlocks, FreeBlock
  <2>3. ~r.fresh => Managed(flags, i) /\ \A j \in k..k + s - 1 : FreeBlock(block[i], j)
    BY DEF StillFree, AllFree
  <2> QED
    BY <2>1, <2>2, <2>3 DEF StillFree
<1>5. /\ \A j \in Blocks : ~FreeBlock(t, j) <=> ~FreeBlock(b, j) \/ j \in k..k + s - 1
      /\ \A j \in Blocks \ (k..k + s - 1) : t[j] = b[j]
      /\ \A j \in k..k + s - 1 : j \in Blocks
      /\ \A j \in k..k + s - 1 : /\ "FIRST" \in t[j] <=> j = k
                                 /\ "LAST" \in t[j] <=> j = k + s - 1
  BY <1>1, <1>2, <1>4, MarkedTable, MarkedEnds
<1>6. \A q, m : <<q, m>> \in new <=> q = i /\ m \in k..k + s - 1
  BY DEF Cells
<1> HIDE DEF i, k, s, b, t, new
<1>7. /\ WellFormed(flags') /\ ManagedLast(flags')
      /\ \A j \in Pages : IsTaken(flags', j) <=> IsTaken(flags, j) \/ j = i
      /\ \A j \in Pages : Managed(flags', j) <=> Managed(flags, j) \/ j = i
      /\ \A j \in Pages : IsLast(flags', j) <=> IsLast(flags, j) \/ j = i
  <2>1. flags \in [Pages -> PageFlags] /\ WellFormed(flags) /\ ManagedLast(flags)
    BY DEF TypesInv, Typed, MemOK
  <2>2. /\ \A j \in Pages : j # i => flags'[j] = flags[j]
        /\ r.fresh => {"TAKEN", "LAST", "FIRST", "MALLOC"} \subseteq flags'[i]
        /\ ~r.fresh => flags' = flags
    BY <1>1, <1>3, <2>1
  <2> QED
    BY <1>1, <1>4, <2>1, <2>2, TakenPage
<1>8. block'[i] = t /\ \A j \in Pages : j # i => block'[j] = block[j]
  BY <1>1, <1>3 DEF TypesInv, Typed
\* Who owned cells of the page owned blocks that are not among the new ones.
<1>9. ASSUME NEW a \in live, NEW m \in Depth, <<i, m>> \in a
      PROVE  /\ ~r.fresh /\ Managed(flags, i) /\ b = block[i]
             /\ m \in Blocks /\ ~FreeBlock(b, m) /\ m \notin k..k + s - 1
  <2>1. IsTaken(flags, i) /\ (Managed(flags, i) => m \in Blocks /\ ~FreeBlock(block[i], m))
    BY <1>1, <1>9 DEF MemOK, LiveMarked
  <2> QED
    BY <1>1, <1>4, <2>1
<1>10. LiveMarked(flags', block', live')
  <2> SUFFICES ASSUME NEW a \in live', NEW q \in Pages, NEW m \in Depth, <<q, m>> \in a
               PROVE  IsTaken(flags', q)
                      /\ (Managed(flags', q) => m \in Blocks /\ ~FreeBlock(block'[q], m))
    BY DEF LiveMarked
  <2>1. CASE a = new
    BY <1>5, <1>6, <1>7, <1>8, <2>1
  <2>2. CASE a \in live /\ q = i
    BY <1>5, <1>7, <1>8, <1>9, <2>2
  <2>3. CASE a \in live /\ q # i
    BY <1>7, <1>8, <2>3 DEF MemOK, LiveMarked
  <2> QED
    BY <1>3, <2>1, <2>2, <2>3
<1>11. PagesOwned(flags', live')
  BY <1>3, <1>7 DEF MemOK, PagesOwned
<1>12. ChainPages(flags', live')
  <2> SUFFICES ASSUME NEW q \in Pages, IsTaken(flags', q), ~IsLast(flags', q),
                      ~Managed(flags', q + 1), NEW a \in live', <<q, 0>> \in a
               PROVE  <<q + 1, 0>> \in a
    BY DEF ChainPages
  <2>1. q # i /\ IsTaken(flags, q) /\ ~IsLast(flags, q)
    BY <1>7
  <2>2. q + 1 \in Pages
    BY <2>1 DEF MemOK, WellFormed
  <2>3. ~Managed(flags, q + 1) /\ a \in live
    BY <1>3, <1>6, <1>7, <2>1, <2>2
  <2> QED
    BY <2>1, <2>3 DEF MemOK, ChainPages
<1>13. SpanPages(flags', live')
  <2> SUFFICES ASSUME NEW a \in live', NEW q \in Pages, NEW j \in Pages, NEW x \in Depth,
                      NEW m \in Depth, <<q, x>> \in a, <<j, m>> \in a, NEW h \in q..j - 1
               PROVE  IsTaken(flags', h) /\ ~IsLast(flags', h)
    BY DEF SpanPages
  <2>1. a # new
    BY <1>1, <1>6, PagesAre
  <2>2. h \in Pages /\ IsTaken(flags, h) /\ ~IsLast(flags, h)
    BY <1>3, <2>1, PagesAre DEF MemOK, SpanPages
  <2>3. h # i
    BY <1>1, <1>3, <1>4, <2>2 DEF MemOK, ManagedLast
  <2> QED
    BY <1>7, <2>2, <2>3
<1>14. BlocksOwned(flags', block', live')
  <2> SUFFICES ASSUME NEW q \in Pages, Managed(flags', q), NEW m \in Blocks,
                      ~FreeBlock(block'[q], m)
               PROVE  \E a \in live' : <<q, m>> \in a
    BY DEF BlocksOwned
  <2>1. CASE q # i
    BY <1>3, <1>7, <1>8, <2>1 DEF MemOK, BlocksOwned
  <2>2. CASE q = i /\ m \in k..k + s - 1
    BY <1>3, <1>6, <2>2
  <2>3. CASE q = i /\ m \notin k..k + s - 1
    <3>1. ~FreeBlock(b, m)
      BY <1>5, <1>8, <2>3
    <3>2. Managed(flags, i) /\ ~FreeBlock(block[i], m)
      BY <1>1, <1>4, <3>1
    <3> QED
      BY <1>1, <1>3, <2>3, <3>2 DEF MemOK, BlocksOwned
  <2> QED
    BY <2>1, <2>2, <2>3
<1>15. ChainBlocks(flags', block', live')
  <2> SUFFICES ASSUME NEW q \in Pages, Managed(flags', q), NEW m \in Blocks,
                      ~FreeBlock(block'[q], m), "LAST" \notin block'[q][m]
               PROVE  /\ m + 1 \in Blocks /\ ~FreeBlock(block'[q], m + 1)
                      /\ "FIRST" \notin block'[q][m + 1]
                      /\ \A a \in live' : <<q, m>> \in a => <<q, m + 1>> \in a
    BY DEF ChainBlocks
  <2>0. m \in Depth /\ m \in Int
    BY DepthIs, Sizing
  <2>1. CASE q # i
    <3>1. \A a \in live' : <<q, m>> \in a => a \in live
      BY <1>3, <1>6, <2>1
    <3> QED
      BY <1>7, <1>8, <2>1, <3>1 DEF MemOK, ChainBlocks
  <2>2. CASE q = i /\ m \in k..k + s - 1
    <3>1. m # k + s - 1
      BY <1>5, <1>8, <2>2
    <3>2. m + 1 \in k..k + s - 1 /\ m + 1 # k
      BY <1>1, <2>0, <2>2, <3>1
    <3>3. \A a \in live' : <<q, m>> \in a => a = new
      BY <1>3, <1>9, <2>0, <2>2
    <3> QED
      BY <1>5, <1>6, <1>8, <2>2, <3>2, <3>3
  <2>3. CASE q = i /\ m \notin k..k + s - 1
    <3>1. ~FreeBlock(b, m) /\ "LAST" \notin b[m]
      BY <1>5, <1>8, <2>3
    <3>2. Managed(flags, i) /\ b = block[i]
      BY <1>1, <1>4, <3>1
    <3>3. /\ m + 1 \in Blocks /\ ~FreeBlock(b, m + 1) /\ "FIRST" \notin b[m + 1]
          /\ \A a \in live : <<q, m>> \in a => <<q, m + 1>> \in a
      BY <1>1, <2>3, <3>1, <3>2 DEF MemOK, ChainBlocks
    <3>4. m + 1 \notin k..k + s - 1
      BY <1>4, <3>3
    <3>5. \A a \in live' : <<q, m>> \in a => a \in live
      BY <1>3, <1>6, <2>3
    <3> QED
      BY <1>5, <1>8, <2>3, <3>3, <3>4, <3>5
  <2> QED
    BY <2>1, <2>2, <2>3
<1>16. SpanBlocks(flags', block', live')
  <2> SUFFICES ASSUME NEW q \in Pages, Managed(flags', q), NEW a \in live', NEW x \in Depth,
                      NEW m \in Depth, <<q, x>> \in a, <<q, m>> \in a, NEW h \in x..m - 1
               PROVE  ~FreeBlock(block'[q], h) /\ "LAST" \notin block'[q][h]
    BY DEF SpanBlocks
  <2>1. CASE a = new
    <3>1. q = i /\ h \in k..k + s - 1 /\ h # k + s - 1
      BY <1>1, <1>6, <2>1, DepthIs
    <3> QED
      BY <1>5, <1>8, <3>1
  <2>2. CASE a \in live /\ q # i
    BY <1>7, <1>8, <2>2 DEF MemOK, SpanBlocks
  <2>3. CASE a \in live /\ q = i
    <3>1. Managed(flags, i) /\ b = block[i] /\ x \in Blocks /\ m \in Blocks
      BY <1>9, <2>3
    <3>2. ~FreeBlock(b, h) /\ "LAST" \notin b[h]
      BY <1>1, <2>3, <3>1 DEF MemOK, SpanBlocks
    <3>3. h \in Blocks /\ h \notin k..k + s - 1
      BY <1>4, <3>1, <3>2, Sizing
    <3> QED
      BY <1>5, <1>8, <2>3, <3>2, <3>3
  <2> QED
    BY <1>3, <2>1, <2>2, <2>3
<1> QED
  BY <1>7, <1>10, <1>11, <1>12, <1>13, <1>14, <1>15, <1>16 DEF MemOK

\* The free pages i..l are taken, the last of them as a managed one if tail holds.
LEMMA TakenRegion ==
  ASSUME NEW f, WellFormed(f), ManagedLast(f), NEW i \in Pages, NEW l \in Pages, i <= l,
         NEW tail \in BOOLEAN, \A j \in i..l : j \in Pages /\ ~IsTaken(f, j), NEW h,
         \A j \in Pages : j \notin i..l => h[j] = f[j],
         \A j \in i..l : /\ IsTaken(h, j) /\ (IsFirst(h, j) <=> j = i)
                         /\ (IsLast(h, j) <=> j = l) /\ (Managed(h, j) <=> tail /\ j = l)
  PROVE  /\ WellFormed(h) /\ ManagedLast(h)
         /\ \A j \in Pages : j \notin i..l =>
              /\ IsTaken(h, j) <=> IsTaken(f, j)
              /\ IsLast(h, j) <=> IsLast(f, j)
              /\ Managed(h, j) <=> Managed(f, j)
<1>1. i \in Int /\ l \in Int
  BY PagesAre
<1>2. \A j \in Pages : j \notin i..l =>
        /\ IsTaken(h, j) <=> IsTaken(f, j)
        /\ IsLast(h, j) <=> IsLast(f, j)
        /\ IsFirst(h, j) <=> IsFirst(f, j)
        /\ Managed(h, j) <=> Managed(f, j)
  BY DEF IsTaken, IsLast, IsFirst, Managed
<1>3. ManagedLast(h)
  BY <1>2 DEF ManagedLast
<1>4. ASSUME NEW j \in Pages, IsTaken(h, j), ~IsLast(h, j)
      PROVE  j + 1 \in Pages /\ IsTaken(h, j + 1) /\ ~IsFirst(h, j + 1)
  <2>1. CASE j \in i..l
    <3>1. j + 1 \in i..l /\ j + 1 # i
      BY <1>1, <1>4, <2>1
    <3> QED
      BY <3>1
  <2>2. CASE j \notin i..l
    <3>1. j + 1 \in Pages /\ IsTaken(f, j + 1) /\ ~IsFirst(f, j + 1)
      BY <1>2, <1>4, <2>2 DEF WellFormed
    <3>2. j + 1 \notin i..l
      BY <3>1
    <3> QED
      BY <1>2, <3>1, <3>2
  <2> QED
    BY <2>1, <2>2
<1>5. ASSUME NEW j \in Pages, IsTaken(h, j), ~IsFirst(h, j)
      PROVE  j - 1 \in Pages /\ IsTaken(h, j - 1) /\ ~IsLast(h, j - 1)
  <2>1. CASE j \in i..l
    <3>1. j - 1 \in i..l /\ j - 1 # l
      BY <1>1, <1>5, <2>1
    <3> QED
      BY <3>1
  <2>2. CASE j \notin i..l
    <3>1. j - 1 \in Pages /\ IsTaken(f, j - 1) /\ ~IsLast(f, j - 1)
      BY <1>2, <1>5, <2>2 DEF WellFormed
    <3>2. j - 1 \notin i..l
      BY <3>1
    <3> QED
      BY <1>2, <3>1, <3>2
  <2> QED
    BY <2>1, <2>2
<1>6. \A j \in Pages : ~IsTaken(h, j) => h[j] = {}
  BY <1>2 DEF WellFormed
<1> QED
  BY <1>2, <1>3, <1>4, <1>5, <1>6 DEF WellFormed

\* malloc of whole pages, and of blocks of the page after them.
LEMMA HandedMem ==
  ASSUME TypesInv, MemOK(flags, block, live), NEW i \in Pages, NEW l \in Pages,
         NEW rest \in Nat, NEW tail \in BOOLEAN, i <= l,
         \A j \in i..l : j \in Pages /\ ~IsTaken(flags, j),
         tail => Inside(0, rest), Handed(i, l, rest, tail)
  PROVE  MemOK(flags', block', live')
<1> DEFINE t == BlocksMarked(NoBlocks, 0, rest)
           new == IF tail THEN WholePages(i..l - 1) \union Cells(l, 0..rest - 1)
                          ELSE WholePages(i..l)
           m0 == Marked(flags, i, l - i + 1)
<1>1. i \in Int /\ l \in Int /\ i + (l - i + 1) - 1 = l /\ l \in i..l
  BY PagesAre
<1>2. live' = live \union {new} /\ flags' = IF tail THEN [m0 EXCEPT ![l] = @ \union {"MALLOC"}] ELSE m0
  BY DEF Handed
<1>3. /\ tail => block'[l] = t
      /\ \A q \in Pages : ~(tail /\ q = l) => block'[q] = block[q]
  BY DEF Handed, TypesInv, Typed
<1>4. tail => /\ \A j \in Blocks : ~FreeBlock(t, j) <=> j \in 0..rest - 1
              /\ \A j \in 0..rest - 1 : j \in Blocks
              /\ \A j \in 0..rest - 1 : /\ "FIRST" \in t[j] <=> j = 0
                                        /\ "LAST" \in t[j] <=> j = rest - 1
  <2> SUFFICES ASSUME tail
               PROVE  /\ \A j \in Blocks : ~FreeBlock(t, j) <=> j \in 0..rest - 1
                      /\ \A j \in 0..rest - 1 : j \in Blocks
                      /\ \A j \in 0..rest - 1 : /\ "FIRST" \in t[j] <=> j = 0
                                                /\ "LAST" \in t[j] <=> j = rest - 1
    OBVIOUS
  <2>1. 0 + rest - 1 = rest - 1 /\ Inside(0, rest)
    OBVIOUS
  <2>2. NoBlocks \in BlockTable /\ Clean(NoBlocks) /\ \A j \in Blocks : FreeBlock(NoBlocks, j)
    BY EmptyTable DEF NoBlocks, FreeBlock
  <2>3. \A j \in 0..rest - 1 : j \in Blocks
    BY <2>1, <2>2, MarkedTable
  <2>4. \A j \in Blocks : ~FreeBlock(t, j) <=> ~FreeBlock(NoBlocks, j) \/ j \in 0..rest - 1
    BY <2>1, <2>2, MarkedTable
  <2>5. \A j \in 0..rest - 1 : /\ "FIRST" \in t[j] <=> j = 0
                               /\ "LAST" \in t[j] <=> j = rest - 1
    BY <2>1, <2>2, <2>3, MarkedEnds
  <2> QED
    BY <2>2, <2>3, <2>4, <2>5
<1>5. \A q, m : <<q, m>> \in new <=>
        IF tail THEN (q \in i..l - 1 /\ m \in Depth) \/ (q = l /\ m \in 0..rest - 1)
                ELSE q \in i..l /\ m \in Depth
  BY DEF WholePages, Cells, Depth
<1>6. /\ \A j \in Pages : j \notin i..l => flags'[j] = flags[j]
      /\ \A j \in i..l : /\ IsTaken(flags', j) /\ (IsFirst(flags', j) <=> j = i)
                         /\ (IsLast(flags', j) <=> j = l)
                         /\ (Managed(flags', j) <=> tail /\ j = l)
  <2>1. \A j \in i..l : flags[j] = {}
    BY DEF MemOK, WellFormed
  <2>2. m0 = [j \in Pages |->
                IF j \notin i..l THEN flags[j]
                ELSE flags[j] \union {"TAKEN"} \union (IF j = i THEN {"FIRST"} ELSE {})
                       \union (IF j = l THEN {"LAST"} ELSE {})]
    BY <1>1 DEF Marked
  <2> HIDE DEF m0
  <2>3. \A j \in Pages : j \notin i..l => flags'[j] = flags[j]
    BY <1>1, <1>2, <2>2
  <2>4. ASSUME NEW j \in i..l
        PROVE  flags'[j] = {"TAKEN"} \union (IF j = i THEN {"FIRST"} ELSE {})
                             \union (IF j = l THEN {"LAST"} ELSE {})
                             \union (IF tail /\ j = l THEN {"MALLOC"} ELSE {})
    <3>1. m0[j] = {"TAKEN"} \union (IF j = i THEN {"FIRST"} ELSE {})
                    \union (IF j = l THEN {"LAST"} ELSE {})
      BY <2>1, <2>2, <2>4
    <3>2. flags'[j] = IF tail /\ j = l THEN m0[j] \union {"MALLOC"} ELSE m0[j]
      BY <1>2, <2>2, <2>4
    <3> QED
      BY <3>1, <3>2
  <2> QED
    BY <2>3, <2>4 DEF IsTaken, IsFirst, IsLast, Managed
<1> HIDE DEF t, new, m0
<1>7. /\ WellFormed(flags') /\ ManagedLast(flags')
      /\ \A j \in Pages : j \notin i..l =>
           /\ IsTaken(flags', j) <=> IsTaken(flags, j)
           /\ IsLast(flags', j) <=> IsLast(flags, j)
           /\ Managed(flags', j) <=> Managed(flags, j)
  <2>1. WellFormed(flags) /\ ManagedLast(flags)
    BY DEF MemOK
  <2> QED
    BY <1>6, <2>1, TakenRegion
\* Nobody owned a cell of the pages.
<1>8. \A a \in live : \A q \in Pages, m \in Depth : <<q, m>> \in a => q \notin i..l
  BY DEF MemOK, LiveMarked
<1>9. \A q, m : <<q, m>> \in new => q \in i..l
  BY <1>1, <1>5
<1>10. \A q \in Pages : q \notin i..l => block'[q] = block[q]
  BY <1>1, <1>3
<1>11. \A q \in Pages : Managed(flags', q) /\ q \in i..l => tail /\ q = l
  BY <1>6
<1>12. LiveMarked(flags', block', live')
  <2> SUFFICES ASSUME NEW a \in live', NEW q \in Pages, NEW m \in Depth, <<q, m>> \in a
               PROVE  IsTaken(flags', q)
                      /\ (Managed(flags', q) => m \in Blocks /\ ~FreeBlock(block'[q], m))
    BY DEF LiveMarked
  <2>1. CASE a = new
    <3>1. q \in i..l /\ IsTaken(flags', q)
      BY <1>6, <1>9, <2>1
    <3>2. ASSUME Managed(flags', q) PROVE m \in Blocks /\ ~FreeBlock(block'[q], m)
      <4>1. tail /\ q = l
        BY <1>11, <3>1, <3>2
      <4>2. m \in 0..rest - 1
        BY <1>1, <1>5, <2>1, <4>1
      <4> QED
        BY <1>3, <1>4, <4>1, <4>2
    <3> QED
      BY <3>1, <3>2
  <2>2. CASE a \in live
    BY <1>7, <1>8, <1>10, <2>2 DEF MemOK, LiveMarked
  <2> QED
    BY <1>2, <2>1, <2>2
<1>13. PagesOwned(flags', live')
  <2> SUFFICES ASSUME NEW q \in Pages, IsTaken(flags', q), ~Managed(flags', q)
               PROVE  \E a \in live' : \A m \in Depth : <<q, m>> \in a
    BY DEF PagesOwned
  <2>1. CASE q \in i..l
    <3>1. \A m \in Depth : <<q, m>> \in new
      BY <1>1, <1>5, <1>6, <2>1
    <3> QED
      BY <1>2, <3>1
  <2>2. CASE q \notin i..l
    BY <1>2, <1>7, <2>2 DEF MemOK, PagesOwned
  <2> QED
    BY <2>1, <2>2
<1>14. ChainPages(flags', live')
  <2> SUFFICES ASSUME NEW q \in Pages, IsTaken(flags', q), ~IsLast(flags', q),
                      ~Managed(flags', q + 1), NEW a \in live', <<q, 0>> \in a
               PROVE  <<q + 1, 0>> \in a
    BY DEF ChainPages
  <2>1. CASE q \in i..l
    <3>1. a = new
      BY <1>2, <1>8, <2>1, DepthIs
    <3>2. q + 1 \in i..l
      BY <1>1, <1>6, <2>1
    <3>3. ~(tail /\ q + 1 = l)
      BY <1>6, <3>2
    <3> QED
      BY <1>1, <1>5, <3>1, <3>2, <3>3, DepthIs
  <2>2. CASE q \notin i..l
    <3>1. IsTaken(flags, q) /\ ~IsLast(flags, q) /\ a \in live
      BY <1>2, <1>7, <1>9, <2>2
    <3>2. q + 1 \in Pages /\ IsTaken(flags, q + 1)
      BY <3>1 DEF MemOK, WellFormed
    <3>3. ~Managed(flags, q + 1)
      BY <1>7, <3>2
    <3> QED
      BY <3>1, <3>3 DEF MemOK, ChainPages
  <2> QED
    BY <2>1, <2>2
<1>15. SpanPages(flags', live')
  <2> SUFFICES ASSUME NEW a \in live', NEW q \in Pages, NEW j \in Pages, NEW x \in Depth,
                      NEW m \in Depth, <<q, x>> \in a, <<j, m>> \in a, NEW h \in q..j - 1
               PROVE  IsTaken(flags', h) /\ ~IsLast(flags', h)
    BY DEF SpanPages
  <2>1. CASE a = new
    <3>1. q \in i..l /\ j \in i..l
      BY <1>9, <2>1
    <3>2. h \in i..l /\ h # l
      BY <1>1, <3>1
    <3> QED
      BY <1>6, <3>2
  <2>2. CASE a \in live
    <3>1. h \in Pages /\ IsTaken(flags, h) /\ ~IsLast(flags, h)
      BY <2>2, PagesAre DEF MemOK, SpanPages
    <3>2. h \notin i..l
      BY <3>1
    <3> QED
      BY <1>7, <3>1, <3>2
  <2> QED
    BY <1>2, <2>1, <2>2
<1>16. BlocksOwned(flags', block', live')
  <2> SUFFICES ASSUME NEW q \in Pages, Managed(flags', q), NEW m \in Blocks,
                      ~FreeBlock(block'[q], m)
               PROVE  \E a \in live' : <<q, m>> \in a
    BY DEF BlocksOwned
  <2>1. CASE q \in i..l
    <3>1. tail /\ q = l /\ m \in 0..rest - 1
      BY <1>3, <1>4, <1>11, <2>1
    <3>2. <<q, m>> \in new
      BY <1>5, <3>1
    <3> QED
      BY <1>2, <3>2
  <2>2. CASE q \notin i..l
    BY <1>2, <1>7, <1>10, <2>2 DEF MemOK, BlocksOwned
  <2> QED
    BY <2>1, <2>2
<1>17. ChainBlocks(flags', block', live')
  <2> SUFFICES ASSUME NEW q \in Pages, Managed(flags', q), NEW m \in Blocks,
                      ~FreeBlock(block'[q], m), "LAST" \notin block'[q][m]
               PROVE  /\ m + 1 \in Blocks /\ ~FreeBlock(block'[q], m + 1)
                      /\ "FIRST" \notin block'[q][m + 1]
                      /\ \A a \in live' : <<q, m>> \in a => <<q, m + 1>> \in a
    BY DEF ChainBlocks
  <2>1. CASE q \in i..l
    <3>1. tail /\ q = l /\ m \in 0..rest - 1 /\ m # rest - 1
      BY <1>3, <1>4, <1>11, <2>1
    <3>2. m + 1 \in 0..rest - 1 /\ m + 1 # 0
      BY <3>1
    <3>3. \A a \in live' : <<q, m>> \in a => a = new
      BY <1>2, <1>8, <2>1, DepthIs
    <3> QED
      BY <1>3, <1>4, <1>5, <3>1, <3>2, <3>3
  <2>2. CASE q \notin i..l
    <3>1. \A a \in live' : <<q, m>> \in a => a \in live
      BY <1>2, <1>9, <2>2
    <3> QED
      BY <1>7, <1>10, <2>2, <3>1 DEF MemOK, ChainBlocks
  <2> QED
    BY <2>1, <2>2
<1>18. SpanBlocks(flags', block', live')
  <2> SUFFICES ASSUME NEW q \in Pages, Managed(flags', q), NEW a \in live', NEW x \in Depth,
                      NEW m \in Depth, <<q, x>> \in a, <<q, m>> \in a, NEW h \in x..m - 1
               PROVE  ~FreeBlock(block'[q], h) /\ "LAST" \notin block'[q][h]
    BY DEF SpanBlocks
  <2>1. CASE q \in i..l
    <3>1. tail /\ q = l /\ a = new
      BY <1>2, <1>8, <1>11, <2>1
    <3>2. x \in 0..rest - 1 /\ m \in 0..rest - 1
      BY <1>1, <1>5, <3>1
    <3>3. h \in 0..rest - 1 /\ h # rest - 1
      BY <3>2
    <3> QED
      BY <1>3, <1>4, <3>1, <3>3
  <2>2. CASE q \notin i..l
    <3>1. a \in live
      BY <1>2, <1>9, <2>2
    <3> QED
      BY <1>7, <1>10, <2>2, <3>1 DEF MemOK, SpanBlocks
  <2> QED
    BY <2>1, <2>2
<1> QED
  BY <1>7, <1>12, <1>13, <1>14, <1>15, <1>16, <1>17, <1>18 DEF MemOK

LEMMA PagesMem ==
  ASSUME TypesInv, MemOK(flags, block, live), NEW s \in Nat, MallocPages(s)
  PROVE  MemOK(flags', block', live')
<1>1. PICK i \in Pages, l \in Pages, rest \in Nat, tail \in BOOLEAN :
        /\ i <= l /\ \A j \in i..l : j \in Pages /\ ~IsTaken(flags, j)
        /\ tail => Inside(0, rest)
        /\ Handed(i, l, rest, tail) /\ UNCHANGED <<last, found, emptied, harm>>
  BY PagesProperties
<1> QED
  BY <1>1, HandedMem

-----------------------------------------------------------------------------
(***************************************************************************)
(* As long as no harm is done owners and flags agree.                      *)
(***************************************************************************)

MemInv == CountInv /\ (harm = {} => MemOK(flags, block, live))

LEMMA MemInit == MInit => MemInv
<1> SUFFICES ASSUME MInit PROVE MemOK(flags, block, live)
  BY CountInit DEF MemInv
<1>1. live = {} /\ \A i \in Pages : flags[i] = {}
  BY DEF MInit, Init
<1>2. \A i \in Pages : ~IsTaken(flags, i) /\ ~Managed(flags, i)
  BY <1>1 DEF IsTaken, Managed
<1>3. WellFormed(flags) /\ ManagedLast(flags)
  BY <1>1, <1>2 DEF WellFormed, ManagedLast
<1> QED
  BY <1>1, <1>2, <1>3 DEF MemOK, LiveMarked, PagesOwned, ChainPages, SpanPages,
                          BlocksOwned, ChainBlocks, SpanBlocks

LEMMA MemNext == MemInv /\ [MNext]_mallocVars => MemInv'
<1> SUFFICES ASSUME MemInv, [MNext]_mallocVars, harm' = {}
             PROVE  MemOK(flags', block', live')
  BY CountNext DEF MemInv
<1>0. CountInv /\ TypesInv /\ NoOverlap /\ (harm = {} => MemOK(flags, block, live))
  BY DEF MemInv, CountInv
<1>1. ASSUME NEW s \in Sizes, MallocBlocks(s)
      PROVE  MemOK(flags', block', live')
  <2>1. s \in Nat /\ SmallRequest(s) /\ Take(Search(s)) /\ Search(s).clean /\ harm = {}
    BY <1>1, MallocAssumption DEF MallocBlocks, Harmed
  <2>2. Fitting(Search(s)) /\ StillFree(Search(s))
    BY <1>0, <2>1, SearchProperties
  <2> QED
    BY <1>0, <2>1, <2>2, TakeMem
<1>2. ASSUME NEW s \in Sizes, MallocSearch(s)
      PROVE  MemOK(flags', block', live')
  BY <1>0, <1>2 DEF MallocSearch
<1>3. ASSUME NEW s \in Sizes, MallocPages(s)
      PROVE  MemOK(flags', block', live')
  <2>1. s \in Nat /\ harm = {}
    BY <1>3, MallocAssumption DEF MallocPages
  <2> QED
    BY <1>0, <1>3, <2>1, PagesMem
<1>4. CASE MallocResume
  <2>1. Take(found) /\ Fitting(found) /\ StillFree(found) /\ harm = {}
    BY <1>0, <1>4 DEF MallocResume, TypesInv, Harmed
  <2> QED
    BY <1>0, <2>1, TakeMem
<1>5. ASSUME NEW a \in live, NEW c \in a,
             FreeBlocks(a, c) \/ FreeCheck(a, c) \/ FreePages(a, c) \/ FreeTail(a, c)
      PROVE  MemOK(flags', block', live')
  <2>1. CASE FreeBlocks(a, c)
    BY <1>0, <2>1, FreeBlocksMem DEF FreeBlocks
  <2>2. CASE FreePages(a, c)
    BY <1>0, <2>2, FreePagesMem DEF FreePages
  <2>3. CASE FreeTail(a, c)
    BY <2>3 DEF FreeTail
  <2>4. CASE FreeCheck(a, c)
    <3>1. Freeing(a, c) /\ flags' = flags /\ harm = {}
      BY <2>4 DEF FreeCheck, Freeing
    <3> QED
      BY <1>0, <3>1, ClearMem
  <2> QED
    BY <1>5, <2>1, <2>2, <2>3, <2>4
<1>6. CASE FreeResume
  <2>1. harm = {}
    BY <1>6 DEF FreeResume, Harmed
  <2> QED
    BY <1>0, <1>6, <2>1, FreeResumeMem
<1>7. CASE UNCHANGED mallocVars
  BY <1>0, <1>7 DEF mallocVars
<1> QED
  BY <1>1, <1>2, <1>3, <1>4, <1>5, <1>6, <1>7 DEF MNext

LEMMA MemAlways == MSpec => []MemInv
  BY MemInit, MemNext, PTL DEF MSpec

\* An owner keeps what it was given, whatever other owners take and give back, among
\* calls that are interrupted at most between search and stores of malloc and between
\* check and release of free, unless one of the calls that harm has been made
\* (page.c:452, page.c:486, page.c:590, page.c:637).
THEOREM LossAlwaysExplained == MSpec => []LossExplained
<1>1. MemInv => LossExplained
  <2> SUFFICES ASSUME MemInv, harm = {} PROVE LiveTaken
    BY DEF LossExplained
  <2>1. TypesInv /\ LiveMarked(flags, block, live)
    BY DEF MemInv, CountInv, MemOK
  <2> QED
    BY <2>1, MarkedLive
<1> QED
  BY <1>1, MemAlways, PTL

\* free gives back all that malloc took: with the last allocation goes the last
\* page, as long as no harm was done and no free is yet to give its page back.
THEOREM NothingLeaks == MSpec => []NoLeak
<1>1. MemInv => NoLeak
  <2> SUFFICES ASSUME MemInv, harm = {}, live = {}, emptied = Null, NEW i \in Pages
               PROVE  flags[i] = {}
    BY DEF NoLeak
  <2>1. /\ WellFormed(flags) /\ PagesOwned(flags, live) /\ BlocksOwned(flags, block, live)
        /\ UsageExact
    BY DEF MemInv, CountInv, MemOK
  <2>2. ~Managed(flags, i)
    <3> SUFFICES ASSUME Managed(flags, i) PROVE FALSE
      OBVIOUS
    <3>1. Cardinality(TakenBlocks(i)) > 0
      BY <2>1, NullIsNoPage DEF UsageExact
    <3>2. TakenBlocks(i) = {}
      BY <2>1 DEF BlocksOwned, TakenBlocks
    <3> QED
      BY <3>1, <3>2, FS_EmptySet
  <2>3. ~IsTaken(flags, i)
    BY <2>1, <2>2 DEF PagesOwned
  <2> QED
    BY <2>1, <2>3 DEF WellFormed
<1> QED
  BY <1>1, MemAlways, PTL

=============================================================================
