------------------------------- MODULE Malloc -------------------------------
(***************************************************************************)
(* malloc and free of os/page.c, on top of the page allocator.  A request  *)
(* that fits a page's blocks gets blocks of a page that malloc manages, a  *)
(* larger one gets whole pages, and what exceeds the last whole page is    *)
(* taken from the blocks of the page after it when that is little enough.  *)
(* Sizes and addresses are counted in blocks of MALLOC_SIZE bytes.  A      *)
(* managed page has Table block flags at its end, the last of which counts *)
(* with the two top bits of the one before it the blocks in use.           *)
(*                                                                         *)
(* Tasks call malloc and free with interrupts on, and the handlers of      *)
(* sleep and of the timer call them too: a small request may be            *)
(* interrupted between its search and its first store, and a free between  *)
(* its look at the count of a page and giving the page back.               *)
(***************************************************************************)
EXTENDS PageAlloc

CONSTANTS
  Table,       \* MALLOC_TABLE_SIZE, one more than the blocks of a page
  PageBlocks,  \* the blocks that a whole page could hold
  CountWidth,  \* 2 ^ 10, the width of the count of blocks in use
  Sizes,       \* the requests, in blocks
  MidFree,     \* TRUE: clients also free from the middle of an allocation
  Interrupts   \* TRUE: a malloc may be interrupted after its search, and a
               \* free after it has found its page empty

ASSUME MallocAssumption ==
  /\ Table \in Nat \ {0, 1} /\ PageBlocks \in Nat /\ PageBlocks >= Table
  /\ CountWidth \in Nat /\ CountWidth >= Table
  /\ Sizes \subseteq Nat /\ MidFree \in BOOLEAN /\ Interrupts \in BOOLEAN

VARIABLES
  block,  \* the flags of the blocks of each page
  usage,  \* the count of a page's blocks, a number of 10 bits
  found,  \* what an interrupted malloc has found, or Idle
  emptied, \* the page that an interrupted free has found empty, or Null
  live,   \* history: the allocations, as sets of cells <<page, block>>
  harm    \* history: how calls have taken or given back what they must not

mallocVars == <<flags, last, block, usage, found, emptied, live, harm>>

Idle == [size |-> 0]

Blocks == 0..Table - 2
Allocable == Table - 1            \* ALLOCABLE_SIZE

Managed(f, i) == "MALLOC" \in f[i]
FreeBlock(b, i) == "TAKEN" \notin b[i]

Cells(i, s) == {<<i, k>> : k \in s}
WholePages(s) == UNION {Cells(i, 0..PageBlocks - 1) : i \in s}

-----------------------------------------------------------------------------
(***************************************************************************)
(* The blocks of one page.                                                 *)
(***************************************************************************)

\* Where _try_malloc finds s blocks. Its inner loop looks at the first block
\* twice and never at the last one.
BlockFits(b, s) ==
  {i \in 0..Table - s - 1 : FreeBlock(b, i) /\ \A j \in i..i + s - 2 : FreeBlock(b, j)}

BlocksMarked(b, i, s) ==
  [j \in Blocks |->
     IF j \notin i..i + s - 1 THEN b[j]
     ELSE b[j] \union {"TAKEN"} \union (IF j = i THEN {"FIRST"} ELSE {})
               \union (IF j = i + s - 1 THEN {"LAST"} ELSE {})]

\* free from the middle of an allocation ends it just before block k.
BlocksClosed(b, k) ==
  IF "FIRST" \notin b[k] /\ k > 0 /\ ~FreeBlock(b, k - 1)
  THEN [b EXCEPT ![k - 1] = @ \union {"LAST"}] ELSE b

\* The loop does not stop at BLOCK_LAST.
Bug_BlockStop(b, k) ==
  Min({j \in k..Table - 1 : j = Table - 1 \/ FreeBlock(b, j)})

\* The block that the clearing loop of free stops in front of.
BlockStop(b, k) ==
  Min({j \in k..Table - 1 : \/ j = Table - 1
                            \/ FreeBlock(b, j)
                            \/ j > k /\ "LAST" \in b[j - 1]})

\* Only the taken bits are cleared.
Bug_BlocksFreed(b, k) ==
  LET c == BlocksClosed(b, k)
  IN  [j \in Blocks |-> IF j \in k..BlockStop(c, k) - 1 THEN c[j] \ {"TAKEN"} ELSE c[j]]

BlocksFreed(b, k) ==
  LET c == BlocksClosed(b, k)
  IN  [j \in Blocks |-> IF j \in k..BlockStop(c, k) - 1 THEN {} ELSE c[j]]

\* _increase_block_usage_of_malloc, once for each block of a request.
Counted(n, s) == (n + s) % CountWidth

\* _decrease_block_usage_of_malloc, once for each block of the allocation.
Bug_Uncounted(n, s) == (n - s - 1) % CountWidth

Uncounted(n, s) == (n - s) % CountWidth

\* The clearing loop of free when it comes to a table from the memory in front of it.
Swept(b) == [j \in Blocks |-> IF j < BlockStop(b, 0) THEN {} ELSE b[j]]

NoBlocks == [j \in Blocks |-> {}]

-----------------------------------------------------------------------------
MInit ==
  /\ Init
  /\ block = [i \in Pages |-> NoBlocks]
  /\ usage = [i \in Pages |-> 0]
  /\ found = Idle /\ emptied = Null
  /\ live = {} /\ harm = {}

\* Every live block is still marked.
LiveTaken ==
  \A a \in live : \A c \in a :
    /\ IsTaken(flags, c[1])
    /\ Managed(flags, c[1]) => c[2] \in Blocks /\ ~FreeBlock(block[c[1]], c[2])

\* Behaviours are followed up to the first state in which an owner no longer owns
\* what it thinks, or a malloc has stored over a page that was taken meanwhile.
Sound == LiveTaken /\ "race" \notin harm

Harmed(how, when) == harm' = IF when THEN harm \union {how} ELSE harm

\* The pages at which the search of malloc may end: managed, with room, or free.
Candidates(s) ==
  {i \in Pages : IF Managed(flags, i) THEN BlockFits(block[i], s) # {}
                                     ELSE ~IsTaken(flags, i)}

AllFree(i, k, s) ==
  \A j \in k..k + s - 1 : ~Managed(flags, i) \/ FreeBlock(block[i], j)

\* What the search of malloc for a small request finds. A free page has yet to
\* be made a managed one.
Search(s) ==
  LET i == Min(Candidates(s))
      k == IF Managed(flags, i) THEN Min(BlockFits(block[i], s)) ELSE 0
  IN  [size |-> s, page |-> i, first |-> k, fresh |-> ~Managed(flags, i),
       clean |-> AllFree(i, k, s)]

\* The stores of malloc: a fresh page gets its flags and an empty table first.
Take(r) ==
  LET i == r.page
      b == IF r.fresh THEN NoBlocks ELSE block[i]
      n == IF r.fresh THEN 0 ELSE usage[i]
  IN  /\ flags' = IF r.fresh
                  THEN [flags EXCEPT ![i] = @ \union {"TAKEN", "LAST", "FIRST", "MALLOC"}]
                  ELSE flags
      /\ block' = [block EXCEPT ![i] = BlocksMarked(b, r.first, r.size)]
      /\ usage' = [usage EXCEPT ![i] = Counted(n, r.size)]
      /\ live' = live \union {Cells(i, r.first..r.first + r.size - 1)}

SmallRequest(s) == Sound /\ s \in 1..Allocable /\ Candidates(s) # {}

\* One task is interrupted at a time, and none once the memory has been harmed.
Interruptible == Interrupts /\ found = Idle /\ emptied = Null /\ harm = {}

\* A small request that nothing interrupts.
MallocBlocks(s) ==
  /\ SmallRequest(s)
  /\ Take(Search(s))
  /\ Harmed("overlap", ~Search(s).clean)
  /\ UNCHANGED <<last, found, emptied>>

\* A task that is interrupted in its malloc, after the search.
MallocSearch(s) ==
  /\ Interruptible /\ SmallRequest(s)
  /\ found' = Search(s)
  /\ UNCHANGED <<flags, last, block, usage, emptied, live, harm>>

\* Is what was found still to be had?
StillFree(r) ==
  IF r.fresh THEN ~IsTaken(flags, r.page)
  ELSE Managed(flags, r.page) /\ AllFree(r.page, r.first, r.size)

\* It goes on with what it has found.
MallocResume ==
  /\ Sound /\ found # Idle
  /\ Take(found)
  /\ found' = Idle
  /\ Harmed(IF found.clean THEN "race" ELSE "overlap", ~StillFree(found))
  /\ UNCHANGED <<last, emptied>>

\* A larger request: whole pages, the last of which is handed over to malloc
\* when the request needs no more of it than its blocks.
MallocPages(s) ==
  /\ Sound /\ s > Allocable
  /\ LET rest == s % PageBlocks
         n    == s \div PageBlocks + (IF rest > 0 THEN 1 ELSE 0)
         i    == Min(Fits(flags, n))
         l    == i + n - 1
         tail == s > PageBlocks /\ rest \in 1..Allocable
         marked == Marked(flags, i, n)
     IN  /\ Fits(flags, n) # {}
         /\ IF tail
            THEN /\ flags' = [marked EXCEPT ![l] = @ \union {"MALLOC"}]
                 /\ block' = [block EXCEPT ![l] = BlocksMarked(NoBlocks, 0, rest)]
                 /\ usage' = [usage EXCEPT ![l] = Counted(0, rest)]
                 /\ live' = live \union
                      {WholePages(i..l - 1) \union Cells(l, 0..rest - 1)}
            ELSE /\ flags' = marked
                 /\ live' = live \union {WholePages(i..l)}
                 /\ UNCHANGED <<block, usage>>
  /\ UNCHANGED <<last, found, emptied, harm>>

\* What the owner of a keeps when it frees from cell c on.
Kept(a, c) == {d \in a : d[1] < c[1] \/ (d[1] = c[1] /\ d[2] < c[2])}

Dropped(a, c) == (live \ {a}) \union ({Kept(a, c)} \ {{}})

\* The addresses that may be passed to free: the start of an allocation, and
\* with MidFree the start of any of its pages and blocks.
FreePoint(a, c) ==
  /\ a \in live /\ c \in a
  /\ Managed(flags, c[1]) \/ c[2] = 0
  /\ MidFree \/ Kept(a, c) = {}

Bug_Released(f, i, n) == f

\* A managed page with no block in use is given back. PAGE_MALLOC is toggled.
Released(f, i, n) ==
  IF n = 0
  THEN PageFreed([f EXCEPT ![i] = IF Managed(f, i) THEN @ \ {"MALLOC"}
                                                  ELSE @ \union {"MALLOC"}], i)
  ELSE f

\* The clearing loop of free in page c[1], which counts down what it clears.
ClearBlocks(a, c) ==
  /\ LET i == c[1]
         b == BlocksFreed(block[i], c[2])
     IN  /\ block' = [block EXCEPT ![i] = b]
         /\ usage' = [usage EXCEPT ![i] = Uncounted(@,
              Cardinality({k \in Blocks : ~FreeBlock(block[i], k) /\ FreeBlock(b, k)}))]
  /\ live' = Dropped(a, c)

\* free of blocks that nothing interrupts.
FreeBlocks(a, c) ==
  /\ Sound /\ FreePoint(a, c) /\ Managed(flags, c[1])
  /\ ClearBlocks(a, c)
  /\ flags' = Released(flags, c[1], usage'[c[1]])
  /\ UNCHANGED <<last, found, emptied, harm>>

\* A task that is interrupted in its free, after it has found the count 0.
FreeCheck(a, c) ==
  /\ Interruptible /\ Sound /\ FreePoint(a, c) /\ Managed(flags, c[1])
  /\ ClearBlocks(a, c)
  /\ usage'[c[1]] = 0 /\ emptied' = c[1]
  /\ UNCHANGED <<flags, last, found, harm>>

\* Is the page still managed, and empty?
StillEmpty(i) == Managed(flags, i) /\ \A k \in Blocks : FreeBlock(block[i], k)

\* It goes on and gives the page back, whoever has taken from it meanwhile.
FreeResume ==
  /\ Sound /\ emptied # Null
  /\ flags' = Released(flags, emptied, 0)
  /\ emptied' = Null
  /\ Harmed("release", ~StillEmpty(emptied))
  /\ UNCHANGED <<last, block, usage, found, live>>

\* The last page of the region that page i is in.
LastOf(i) == Min({j \in i..NumPages - 1 : IsLast(flags, j)})

\* free of whole pages.
FreePages(a, c) ==
  /\ Sound /\ FreePoint(a, c)
  /\ ~Managed(flags, c[1]) /\ ~Managed(flags, LastOf(c[1]))
  /\ flags' = PageFreed(flags, c[1])
  /\ live' = Dropped(a, c)
  /\ UNCHANGED <<last, block, usage, found, emptied, harm>>

\* free of pages that end in a managed one. The pages before it are freed, but
\* p is left in the first of them: the block flags and the count that free goes
\* on with are read from memory that held the client's data. The count that it
\* finds there decides whether the last page is given back. The loop has no bound
\* but what it reads: it may run on to the table of the last page, where it stops
\* at a free block or at the end of an allocation, and what it clears of that table
\* is counted down in the first page. It may also clear bits in the data of whoever
\* has blocks in the last page; data is not modelled.
FreeTail(a, c) ==
  /\ Sound /\ FreePoint(a, c)
  /\ ~Managed(flags, c[1]) /\ Managed(flags, LastOf(c[1]))
  /\ LET l == LastOf(c[1])
         f == PageFreed([flags EXCEPT ![l - 1] = @ \union {"LAST"}], c[1])
     IN  \E n \in {0, 1}, b \in {block[l], Swept(block[l])} :
           /\ flags' = Released(f, l, n)
           /\ block' = [block EXCEPT ![l] = b]
           /\ harm' = harm \union {"tail"} \union (IF b = block[l] THEN {} ELSE {"sweep"})
  /\ live' = Dropped(a, c)
  /\ UNCHANGED <<last, usage, found, emptied>>

MNext ==
  \/ \E s \in Sizes : MallocBlocks(s) \/ MallocSearch(s) \/ MallocPages(s)
  \/ MallocResume \/ FreeResume
  \/ \E a \in live : \E c \in a :
       FreeBlocks(a, c) \/ FreeCheck(a, c) \/ FreePages(a, c) \/ FreeTail(a, c)

MSpec == MInit /\ [][MNext]_mallocVars

-----------------------------------------------------------------------------
(***************************************************************************)
(* Properties.                                                             *)
(***************************************************************************)

TakenBlocks(i) == {k \in Blocks : ~FreeBlock(block[i], k)}

\* Every variable has its type, and a block keeps no flag when it is freed: one
\* left there would cut a later allocation over it in two.
MTypeOK ==
  /\ flags \in [Pages -> SUBSET {"TAKEN", "LAST", "FIRST", "MALLOC"}]
  /\ block \in [Pages -> [Blocks -> SUBSET {"TAKEN", "LAST", "FIRST"}]]
  /\ \A i \in Pages : \A k \in Blocks : FreeBlock(block[i], k) => block[i][k] = {}
  /\ usage \in [Pages -> 0..CountWidth - 1]
  /\ live \subseteq SUBSET (Pages \X (0..PageBlocks - 1))
  /\ found = Idle \/ found \in [size : 1..Allocable, page : Pages, first : Blocks,
                                fresh : BOOLEAN, clean : BOOLEAN]
  /\ emptied \in Pages \union {Null}
  /\ harm \subseteq {"overlap", "race", "release", "tail", "sweep"}

\* Between calls that are interrupted at the two places modelled here, or not at all,
\* an owner loses memory only after one of these: a search that does not look at the
\* last block; a malloc that goes on with what was taken since its search; a free
\* that gives back a page somebody has taken from since it looked at the count; and a
\* free that reads the table of the last page from the first. Interrupts elsewhere in
\* malloc and free, as in the middle of counting a block, are not modelled.
LossExplained == ~LiveTaken => harm # {}

\* No two allocations share a cell, except by the first two of them: whatever else has
\* gone wrong, malloc takes what the tables say is free.
NoOverlap ==
  harm \intersect {"overlap", "race"} = {} =>
    \A a, b \in live : a # b => a \intersect b = {}

\* The count of a managed page says how many of its blocks are in use, and is not
\* 0: the page is given back with its last block and not before, wherever frees
\* start. It is 0 while a free that has found it so has yet to give the page back. The
\* claim ends with a search or a resumed malloc that takes a block again, which
\* counts it twice; with a page that is given back while it is in use; and with a free
\* whose loop runs on into the table of the last page, where nothing is counted down.
UsageExact ==
  harm \subseteq {"tail"} =>
    \A i \in Pages : Managed(flags, i) =>
      usage[i] = Cardinality(TakenBlocks(i)) /\ (usage[i] > 0 \/ i = emptied)

\* When nothing is allocated any more, and no free is yet to go on, every page is free
\* again.
NoLeak ==
  harm = {} /\ live = {} /\ emptied = Null => \A i \in Pages : flags[i] = {}

=============================================================================
