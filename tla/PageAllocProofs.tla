-------------------------- MODULE PageAllocProofs --------------------------
(***************************************************************************)
(* The page table stays well formed for any number of pages.  RunsEnd and  *)
(* RunsBegin are each other's strengthening: a page_free from the middle   *)
(* of a region keeps the one only because the other held.  Together they   *)
(* cut the taken pages into regions, and the second half shows that        *)
(* page_alloc and page_free do to these what Regions says.                 *)
(***************************************************************************)
EXTENDS PageAlloc, ListLemmas

PageInv == PageTypeOK /\ RunsEnd /\ RunsBegin

\* The places page_alloc finds are runs of pages that hold no flag at all.
LEMMA FitsProperties ==
  ASSUME PageTypeOK, NEW n \in Nat \ {0}, Fits(flags, n) # {}
  PROVE  LET i == Min(Fits(flags, n)) IN
         /\ i \in Pages /\ i + n <= NumPages
         /\ \A j \in i..i + n - 1 : j \in Pages /\ flags[j] = {}
<1> DEFINE i == Min(Fits(flags, n))
<1>1. Fits(flags, n) \in SUBSET Nat
  BY PageAssumption DEF Fits, Pages
<1>2. i \in Fits(flags, n)
  BY <1>1, MinProperties
<1> HIDE DEF i
<1>3. i \in Pages /\ i + n <= NumPages /\ \A j \in i..i + n - 1 : ~IsTaken(flags, j)
  BY <1>2 DEF Fits
<1>4. \A j \in i..i + n - 1 : j \in Pages
  BY <1>3, PageAssumption DEF Pages
<1>5. \A j \in i..i + n - 1 : flags[j] = {}
  BY <1>3, <1>4 DEF PageTypeOK
<1> QED
  BY <1>3, <1>4, <1>5 DEF i

\* A successful page_alloc.
LEMMA AllocInv ==
  ASSUME PageInv, NEW n \in 1..NumPages + 1, Fits(flags, n) # {},
         flags' = Marked(flags, Min(Fits(flags, n)), n),
         last' = [n |-> n, page |-> Min(Fits(flags, n))]
  PROVE  PageInv'
<1> DEFINE i == Min(Fits(flags, n))
           run == i..i + n - 1
<1>1. n \in Nat \ {0} /\ NumPages \in Nat
  BY PageAssumption
<1>2. /\ i \in Pages /\ i + n <= NumPages
      /\ \A j \in run : j \in Pages /\ flags[j] = {}
  BY <1>1, FitsProperties DEF PageInv
<1>3. i \in Int /\ Pages \subseteq Int
  BY <1>1, <1>2 DEF Pages
<1> HIDE DEF i
<1>4. flags \in [Pages -> SUBSET {"TAKEN", "FIRST", "LAST"}]
  BY DEF PageInv, PageTypeOK
<1>5. flags' = [j \in Pages |->
                  IF j \notin run THEN flags[j]
                  ELSE flags[j] \union {"TAKEN"}
                         \union (IF j = i THEN {"FIRST"} ELSE {})
                         \union (IF j = i + n - 1 THEN {"LAST"} ELSE {})]
  BY DEF Marked, i
<1> HIDE DEF run
<1>6. \A j \in Pages : j \notin run => flags'[j] = flags[j]
  BY <1>5
<1>7. \A j \in run :
        /\ IsTaken(flags', j)
        /\ IsFirst(flags', j) <=> j = i
        /\ IsLast(flags', j) <=> j = i + n - 1
        /\ flags'[j] \in SUBSET {"TAKEN", "FIRST", "LAST"}
  BY <1>2, <1>5 DEF IsTaken, IsFirst, IsLast
<1>8. \A j : j \in run <=> j \in Int /\ i <= j /\ j <= i + n - 1
  BY <1>1, <1>3 DEF run
<1>9. PageTypeOK'
  <2>1. flags' \in [Pages -> SUBSET {"TAKEN", "FIRST", "LAST"}]
    BY <1>4, <1>5, <1>6, <1>7
  <2>2. \A j \in Pages : ~IsTaken(flags', j) => flags'[j] = {}
    BY <1>6, <1>7 DEF PageInv, PageTypeOK, IsTaken
  <2>3. last' \in [n : 0..NumPages + 1, page : Pages \union {Null}]
    BY <1>1, <1>2 DEF i
  <2> QED
    BY <2>1, <2>2, <2>3 DEF PageTypeOK, Pages
<1>10. RunsEnd'
  <2> SUFFICES ASSUME NEW k \in Pages, IsTaken(flags', k), ~IsLast(flags', k)
               PROVE  k + 1 \in Pages /\ IsTaken(flags', k + 1) /\ ~IsFirst(flags', k + 1)
    BY DEF RunsEnd, Pages
  <2>1. CASE k \in run
    <3>1. k # i + n - 1
      BY <1>7, <2>1
    <3>2. k + 1 \in run /\ k + 1 # i
      BY <1>1, <1>3, <1>8, <2>1, <3>1
    <3> QED
      BY <1>2, <1>7, <3>2
  <2>2. CASE k \notin run
    <3>1. IsTaken(flags, k) /\ ~IsLast(flags, k)
      BY <1>6, <2>2 DEF IsTaken, IsLast
    <3>2. k + 1 \in Pages /\ IsTaken(flags, k + 1) /\ ~IsFirst(flags, k + 1)
      BY <3>1 DEF PageInv, RunsEnd
    <3>3. k + 1 \notin run
      BY <1>2, <3>2 DEF IsTaken
    <3> QED
      BY <1>6, <3>2, <3>3 DEF IsTaken, IsFirst
  <2> QED
    BY <2>1, <2>2
<1>11. RunsBegin'
  <2> SUFFICES ASSUME NEW k \in Pages, IsTaken(flags', k), ~IsFirst(flags', k)
               PROVE  k - 1 \in Pages /\ IsTaken(flags', k - 1) /\ ~IsLast(flags', k - 1)
    BY DEF RunsBegin, Pages
  <2>1. CASE k \in run
    <3>1. k # i
      BY <1>7, <2>1
    <3>2. k - 1 \in run /\ k - 1 # i + n - 1
      BY <1>1, <1>3, <1>8, <2>1, <3>1
    <3> QED
      BY <1>2, <1>7, <3>2
  <2>2. CASE k \notin run
    <3>1. IsTaken(flags, k) /\ ~IsFirst(flags, k)
      BY <1>6, <2>2 DEF IsTaken, IsFirst
    <3>2. k - 1 \in Pages /\ IsTaken(flags, k - 1) /\ ~IsLast(flags, k - 1)
      BY <3>1 DEF PageInv, RunsBegin
    <3>3. k - 1 \notin run
      BY <1>2, <3>2 DEF IsTaken
    <3> QED
      BY <1>6, <3>2, <3>3 DEF IsTaken, IsLast
  <2> QED
    BY <2>1, <2>2
<1> QED
  BY <1>9, <1>10, <1>11 DEF PageInv

\* Where the loop of page_free stops: behind it only taken pages that do not end
\* a region, but for the last one.
LEMMA StopProperties ==
  ASSUME NEW g, NEW p \in Pages
  PROVE  LET s == Stop(g, p) IN
         /\ s \in p..NumPages
         /\ s = NumPages \/ ~IsTaken(g, s) \/ (s > p /\ IsLast(g, s - 1))
<1> DEFINE S == {j \in p..NumPages : \/ j = NumPages
                                     \/ ~IsTaken(g, j)
                                     \/ j > p /\ IsLast(g, j - 1)}
<1>1. NumPages \in Nat /\ p \in Nat /\ p < NumPages
  BY PageAssumption DEF Pages
<1>2. S \in SUBSET Nat /\ NumPages \in S
  BY <1>1
<1>3. Min(S) \in S
  BY <1>2, MinProperties
<1>4. Stop(g, p) = Min(S)
  BY DEF Stop
<1> QED
  BY <1>3, <1>4

\* page_free from any page of the heap.
LEMMA FreeInv ==
  ASSUME PageInv, NEW p \in Pages, flags' = PageFreed(flags, p), last' = last
  PROVE  PageInv'
<1> DEFINE g == Closed(flags, p)
           s == Stop(g, p)
<1>1. NumPages \in Nat /\ p \in Nat /\ p < NumPages /\ Pages \subseteq Int
  BY PageAssumption DEF Pages
<1>2. flags \in [Pages -> SUBSET {"TAKEN", "FIRST", "LAST"}]
  BY DEF PageInv, PageTypeOK
<1>3. /\ g \in [Pages -> SUBSET {"TAKEN", "FIRST", "LAST"}]
      /\ \A j \in Pages : j # p - 1 => g[j] = flags[j]
      /\ \A j \in Pages : /\ IsTaken(g, j) <=> IsTaken(flags, j)
                          /\ IsFirst(g, j) <=> IsFirst(flags, j)
                          /\ IsLast(flags, j) => IsLast(g, j)
                          /\ ~IsTaken(flags, j) => g[j] = flags[j]
      /\ ~IsFirst(flags, p) /\ p > 0 /\ IsTaken(flags, p - 1) => IsLast(g, p - 1)
  <2>1. CASE ~IsFirst(flags, p) /\ p > 0 /\ IsTaken(flags, p - 1)
    <3>1. g = [flags EXCEPT ![p - 1] = flags[p - 1] \union {"LAST"}]
      BY <2>1 DEF Closed
    <3>2. p - 1 \in Pages
      BY <1>1, <2>1 DEF Pages
    <3> QED
      BY <1>2, <2>1, <3>1, <3>2 DEF IsTaken, IsFirst, IsLast
  <2>2. CASE ~(~IsFirst(flags, p) /\ p > 0 /\ IsTaken(flags, p - 1))
    <3>1. g = flags
      BY <2>2 DEF Closed
    <3> QED
      BY <1>2, <2>2, <3>1
  <2> QED
    BY <2>1, <2>2
<1> HIDE DEF g
<1>4. /\ s \in p..NumPages
      /\ s = NumPages \/ ~IsTaken(g, s) \/ (s > p /\ IsLast(g, s - 1))
  BY StopProperties
<1>5. flags' = [j \in Pages |-> IF j \in p..s - 1 THEN {} ELSE g[j]]
  BY DEF PageFreed, Cleared, g
<1> HIDE DEF s
<1>6. \A j \in Pages : IF p <= j /\ j < s THEN flags'[j] = {} ELSE flags'[j] = g[j]
  BY <1>1, <1>4, <1>5
<1>7. PageTypeOK'
  <2>1. flags' \in [Pages -> SUBSET {"TAKEN", "FIRST", "LAST"}]
    BY <1>3, <1>5, <1>6
  <2>2. \A j \in Pages : ~IsTaken(flags', j) => flags'[j] = {}
    <3> SUFFICES ASSUME NEW j \in Pages, ~IsTaken(flags', j)
                 PROVE  flags'[j] = {}
      OBVIOUS
    <3>1. CASE p <= j /\ j < s
      BY <1>6, <3>1
    <3>2. CASE ~(p <= j /\ j < s)
      <4>1. flags'[j] = g[j] /\ ~IsTaken(g, j)
        BY <1>6, <3>2 DEF IsTaken
      <4>2. ~IsTaken(flags, j) /\ g[j] = flags[j]
        BY <1>3, <4>1
      <4> QED
        BY <4>1, <4>2 DEF PageInv, PageTypeOK
    <3> QED
      BY <3>1, <3>2
  <2> QED
    BY <2>1, <2>2 DEF PageInv, PageTypeOK, Pages
<1>8. RunsEnd'
  <2> SUFFICES ASSUME NEW k \in Pages, IsTaken(flags', k), ~IsLast(flags', k)
               PROVE  k + 1 \in Pages /\ IsTaken(flags', k + 1) /\ ~IsFirst(flags', k + 1)
    BY DEF RunsEnd, Pages
  <2>1. ~(p <= k /\ k < s) /\ IsTaken(g, k) /\ ~IsLast(g, k)
    BY <1>6 DEF IsTaken, IsLast
  <2>2. IsTaken(flags, k) /\ ~IsLast(flags, k)
    BY <1>3, <2>1
  <2>3. k + 1 \in Pages /\ IsTaken(flags, k + 1) /\ ~IsFirst(flags, k + 1)
    BY <2>2 DEF PageInv, RunsEnd
  <2>4. k + 1 # p
    <3> SUFFICES ASSUME k + 1 = p PROVE FALSE
      OBVIOUS
    <3>1. k = p - 1 /\ p > 0
      BY <1>1 DEF Pages
    <3> QED
      BY <1>3, <2>1, <2>2, <2>3, <3>1
  <2>5. ~(p <= k + 1 /\ k + 1 < s)
    BY <1>1, <1>4, <2>1, <2>4
  <2>6. flags'[k + 1] = g[k + 1]
    BY <1>6, <2>3, <2>5
  <2>7. IsTaken(g, k + 1) /\ ~IsFirst(g, k + 1)
    BY <1>3, <2>3
  <2> QED
    BY <2>3, <2>6, <2>7 DEF IsTaken, IsFirst
<1>9. RunsBegin'
  <2> SUFFICES ASSUME NEW k \in Pages, IsTaken(flags', k), ~IsFirst(flags', k)
               PROVE  k - 1 \in Pages /\ IsTaken(flags', k - 1) /\ ~IsLast(flags', k - 1)
    BY DEF RunsBegin, Pages
  <2>1. ~(p <= k /\ k < s) /\ IsTaken(g, k) /\ ~IsFirst(g, k)
    BY <1>6 DEF IsTaken, IsFirst
  <2>2. IsTaken(flags, k) /\ ~IsFirst(flags, k)
    BY <1>3, <2>1
  <2>3. k - 1 \in Pages /\ IsTaken(flags, k - 1) /\ ~IsLast(flags, k - 1)
    BY <2>2 DEF PageInv, RunsBegin
  <2>4. k # p
    <3> SUFFICES ASSUME k = p PROVE FALSE
      OBVIOUS
    <3>1. s = p
      BY <1>1, <1>4, <2>1
    <3>2. ~IsTaken(g, p)
      BY <1>1, <1>4, <3>1
    <3> QED
      BY <2>1, <3>2
  <2>5. g[k - 1] = flags[k - 1]
    BY <1>1, <1>3, <2>3, <2>4
  <2>6. ~(p <= k - 1 /\ k - 1 < s)
    <3> SUFFICES ASSUME p <= k - 1, k - 1 < s PROVE FALSE
      OBVIOUS
    <3>1. k = s /\ s > p
      BY <1>1, <1>4, <2>1
    <3>2. s # NumPages
      BY <1>1, <3>1 DEF Pages
    <3>3. IsLast(g, k - 1)
      BY <1>4, <2>1, <3>1, <3>2
    <3> QED
      BY <2>3, <2>5, <3>3 DEF IsLast
  <2>7. flags'[k - 1] = g[k - 1]
    BY <1>6, <2>3, <2>6
  <2> QED
    BY <2>3, <2>5, <2>7 DEF IsTaken, IsLast
<1> QED
  BY <1>7, <1>8, <1>9 DEF PageInv

-----------------------------------------------------------------------------
\* The flags of the page table are well formed in every reachable state.
THEOREM PageInvariance == Spec => []PageInv
<1>1. Init => PageInv
  <2> SUFFICES ASSUME Init PROVE PageInv
    OBVIOUS
  <2>1. \A i \in Pages : flags[i] = {}
    BY DEF Init
  <2>2. PageTypeOK
    BY <2>1, PageAssumption DEF Init, PageTypeOK
  <2>3. RunsEnd /\ RunsBegin
    BY <2>1 DEF RunsEnd, RunsBegin, IsTaken
  <2> QED
    BY <2>2, <2>3 DEF PageInv
<1>2. PageInv /\ [Next]_pageVars => PageInv'
  <2> SUFFICES ASSUME PageInv, [Next]_pageVars PROVE PageInv'
    OBVIOUS
  <2>1. ASSUME flags' = flags, last' \in [n : 0..NumPages + 1, page : Pages \union {Null}]
        PROVE  PageInv'
    BY <2>1 DEF PageInv, PageTypeOK, RunsEnd, RunsBegin, IsTaken, IsFirst, IsLast, Pages
  <2>2. last \in [n : 0..NumPages + 1, page : Pages \union {Null}]
    BY DEF PageInv, PageTypeOK
  <2>3. ASSUME NEW n \in 0..NumPages + 1, Alloc(n) PROVE PageInv'
    <3>1. CASE n < 1 \/ Fits(flags, n) = {}
      BY <2>1, <2>3, <3>1 DEF Alloc
    <3>2. CASE ~(n < 1 \/ Fits(flags, n) = {})
      <4>1. n \in 1..NumPages + 1
        BY <3>2, PageAssumption
      <4> QED
        BY <2>3, <3>2, <4>1, AllocInv DEF Alloc
    <3> QED
      BY <3>1, <3>2
  <2>4. ASSUME NEW p \in -1..NumPages, Free(p) PROVE PageInv'
    <3>1. CASE p \in Pages
      BY <2>4, <3>1, FreeInv DEF Free
    <3>2. CASE p \notin Pages
      BY <2>1, <2>2, <2>4, <3>2 DEF Free
    <3> QED
      BY <3>1, <3>2
  <2>5. CASE UNCHANGED pageVars
    BY <2>1, <2>2, <2>5 DEF pageVars
  <2> QED
    BY <2>3, <2>4, <2>5 DEF Next
<1> QED
  BY <1>1, <1>2, PTL DEF Spec

\* The loops that look for the end of a region never leave it.
THEOREM RunsAlwaysEnd == Spec => []RunsEnd
<1>1. PageInv => RunsEnd
  BY DEF PageInv
<1> QED
  BY <1>1, PageInvariance, PTL

\* No page is left taken without a region.
THEOREM RunsAlwaysBegin == Spec => []RunsBegin
<1>1. PageInv => RunsBegin
  BY DEF PageInv
<1> QED
  BY <1>1, PageInvariance, PTL

\* A free page holds no flag.
THEOREM PageTypeCorrect == Spec => []PageTypeOK
<1>1. PageInv => PageTypeOK
  BY DEF PageInv
<1> QED
  BY <1>1, PageInvariance, PTL

-----------------------------------------------------------------------------
(***************************************************************************)
(* The flags implement the regions of Regions.  Every taken page lies in   *)
(* one region, so that a run of free pages for the flags is one for the    *)
(* regions; it lies in only one, so that a change of the flags inside a    *)
(* region is a change of that region alone.                                *)
(***************************************************************************)

WellFormed(f) ==
  \A i \in Pages :
    /\ IsTaken(f, i) /\ ~IsLast(f, i) =>
         i + 1 \in Pages /\ IsTaken(f, i + 1) /\ ~IsFirst(f, i + 1)
    /\ IsTaken(f, i) /\ ~IsFirst(f, i) =>
         i - 1 \in Pages /\ IsTaken(f, i - 1) /\ ~IsLast(f, i - 1)
    /\ ~IsTaken(f, i) => f[i] = {}

\* The pages lo to hi are a region of f.
Region(f, lo, hi) ==
  /\ lo \in Pages /\ hi \in Pages /\ lo <= hi
  /\ IsFirst(f, lo) /\ IsLast(f, hi)
  /\ \A i \in lo..hi : IsTaken(f, i)
  /\ \A i \in lo..hi - 1 : ~IsLast(f, i)

LEMMA PagesAre == NumPages \in Nat /\ \A i : i \in Pages <=> (i \in Int /\ 0 <= i /\ i < NumPages)
  BY PageAssumption DEF Pages

LEMMA InvWellFormed ==
  /\ PageInv => WellFormed(flags)
  /\ PageInv' => WellFormed(flags')
<1>1. PageInv => WellFormed(flags)
  BY DEF PageInv, PageTypeOK, RunsEnd, RunsBegin, WellFormed
<1>2. PageInv' => WellFormed(flags')
  BY DEF PageInv, PageTypeOK, RunsEnd, RunsBegin, WellFormed, Pages
<1> QED
  BY <1>1, <1>2

LEMMA RegionsOfMember ==
  ASSUME NEW f, NEW r
  PROVE  r \in RegionsOf(f) <=> (r \in [lo : Pages, hi : Pages] /\ Region(f, r.lo, r.hi))
  BY DEF RegionsOf, Region

\* The last page of the region that a taken page belongs to.
LEMMA TailExists ==
  ASSUME NEW f, WellFormed(f), NEW i \in Pages, IsTaken(f, i)
  PROVE  \E hi \in Pages : /\ i <= hi /\ IsLast(f, hi)
                           /\ \A j \in i..hi : IsTaken(f, j)
                           /\ \A j \in i..hi - 1 : ~IsLast(f, j)
<1> DEFINE S == {j \in i..NumPages : \/ j = NumPages
                                     \/ ~IsTaken(f, j)
                                     \/ j > i /\ IsLast(f, j - 1)}
           s == Min(S)
<1>1. S \in SUBSET Nat /\ NumPages \in S
  BY PagesAre
<1>2. s \in S /\ \A j \in S : s <= j
  BY <1>1, MinProperties
<1>3. s \in i..NumPages /\ (s = NumPages \/ ~IsTaken(f, s) \/ (s > i /\ IsLast(f, s - 1)))
  BY <1>2
<1>4. \A j \in i..s - 1 : j \in Pages /\ IsTaken(f, j) /\ (j > i => ~IsLast(f, j - 1))
  <2> SUFFICES ASSUME NEW j \in i..s - 1
               PROVE  j \in Pages /\ IsTaken(f, j) /\ (j > i => ~IsLast(f, j - 1))
    OBVIOUS
  <2>1. j \in i..NumPages /\ ~(s <= j) /\ j \in Pages /\ j # NumPages
    BY <1>3, PagesAre
  <2>2. j \notin S
    BY <1>2, <2>1
  <2> QED
    BY <2>1, <2>2
<1> HIDE DEF s, S
<1>5. s > i
  BY <1>3, PagesAre
<1>6. s - 1 \in Pages /\ IsTaken(f, s - 1)
  BY <1>3, <1>4, <1>5, PagesAre
<1>7. IsLast(f, s - 1)
  <2> SUFFICES ASSUME ~IsLast(f, s - 1) PROVE FALSE
    OBVIOUS
  <2>1. (s - 1) + 1 \in Pages /\ IsTaken(f, (s - 1) + 1)
    BY <1>6 DEF WellFormed
  <2>2. (s - 1) + 1 = s
    BY <1>3, PagesAre
  <2> QED
    BY <1>3, <2>1, <2>2, PagesAre
<1>8. \A j \in i..(s - 1) - 1 : ~IsLast(f, j)
  <2> SUFFICES ASSUME NEW j \in i..(s - 1) - 1 PROVE ~IsLast(f, j)
    OBVIOUS
  <2>1. j + 1 \in i..s - 1 /\ j + 1 > i /\ (j + 1) - 1 = j
    BY <1>3, PagesAre
  <2> QED
    BY <1>4, <2>1
<1> QED
  BY <1>4, <1>5, <1>6, <1>7, <1>8, <1>3, PagesAre

\* Its first page.
LEMMA HeadExists ==
  ASSUME NEW f, WellFormed(f), NEW i \in Pages, IsTaken(f, i)
  PROVE  \E lo \in Pages : /\ lo <= i /\ IsFirst(f, lo)
                           /\ \A j \in lo..i : IsTaken(f, j)
                           /\ \A j \in lo..i - 1 : ~IsLast(f, j)
<1> DEFINE D == {d \in 0..i : \/ d = i
                              \/ ~IsTaken(f, (i - d) - 1)
                              \/ IsFirst(f, i - d)}
           d0 == Min(D)
           lo == i - d0
<1>1. D \in SUBSET Nat /\ i \in D
  BY PagesAre
<1>2. d0 \in D /\ \A d \in D : d0 <= d
  BY <1>1, MinProperties
<1>3. d0 \in 0..i /\ (d0 = i \/ ~IsTaken(f, lo - 1) \/ IsFirst(f, lo))
  BY <1>2
<1>4. \A d \in 0..d0 - 1 : IsTaken(f, (i - d) - 1) /\ ~IsFirst(f, i - d)
  <2> SUFFICES ASSUME NEW d \in 0..d0 - 1
               PROVE  IsTaken(f, (i - d) - 1) /\ ~IsFirst(f, i - d)
    OBVIOUS
  <2>1. d \in 0..i /\ ~(d0 <= d)
    BY <1>3, PagesAre
  <2>2. d \notin D
    BY <1>2, <2>1
  <2> QED
    BY <2>1, <2>2
<1> HIDE DEF d0, D
<1>5. lo \in Pages /\ lo <= i /\ lo \in Int
  BY <1>3, PagesAre
<1>6. \A j \in lo..i : IsTaken(f, j)
  <2> SUFFICES ASSUME NEW j \in lo..i, j # i PROVE IsTaken(f, j)
    OBVIOUS
  <2>1. (i - j) - 1 \in 0..d0 - 1 /\ (i - ((i - j) - 1)) - 1 = j
    BY <1>3, <1>5, PagesAre
  <2> QED
    BY <1>4, <2>1
<1>7. \A j \in lo + 1..i : ~IsFirst(f, j)
  <2> SUFFICES ASSUME NEW j \in lo + 1..i PROVE ~IsFirst(f, j)
    OBVIOUS
  <2>1. i - j \in 0..d0 - 1 /\ i - (i - j) = j
    BY <1>3, <1>5, PagesAre
  <2> QED
    BY <1>4, <2>1
<1>8. IsFirst(f, lo)
  <2> SUFFICES ASSUME ~IsFirst(f, lo) PROVE FALSE
    OBVIOUS
  <2>1. IsTaken(f, lo)
    BY <1>5, <1>6, PagesAre
  <2>2. lo - 1 \in Pages /\ IsTaken(f, lo - 1)
    BY <1>5, <2>1 DEF WellFormed
  <2>3. d0 # i
    BY <1>3, <2>2, PagesAre
  <2> QED
    BY <1>3, <2>2, <2>3
<1>9. \A j \in lo..i - 1 : ~IsLast(f, j)
  <2> SUFFICES ASSUME NEW j \in lo..i - 1 PROVE ~IsLast(f, j)
    OBVIOUS
  <2>1. j + 1 \in lo + 1..i /\ j + 1 \in lo..i /\ j + 1 \in Pages /\ (j + 1) - 1 = j
    BY <1>5, PagesAre
  <2>2. IsTaken(f, j + 1) /\ ~IsFirst(f, j + 1)
    BY <1>6, <1>7, <2>1
  <2>3. ~IsLast(f, (j + 1) - 1)
    BY <2>1, <2>2 DEF WellFormed
  <2> QED
    BY <2>1, <2>3
<1> QED
  BY <1>5, <1>6, <1>8, <1>9

LEMMA RegionExists ==
  ASSUME NEW f, WellFormed(f), NEW i \in Pages, IsTaken(f, i)
  PROVE  \E lo, hi \in Pages : Region(f, lo, hi) /\ lo <= i /\ i <= hi
<1>1. PICK hi \in Pages : /\ i <= hi /\ IsLast(f, hi)
                          /\ \A j \in i..hi : IsTaken(f, j)
                          /\ \A j \in i..hi - 1 : ~IsLast(f, j)
  BY TailExists
<1>2. PICK lo \in Pages : /\ lo <= i /\ IsFirst(f, lo)
                          /\ \A j \in lo..i : IsTaken(f, j)
                          /\ \A j \in lo..i - 1 : ~IsLast(f, j)
  BY HeadExists
<1>3. Region(f, lo, hi)
  <2>1. \A j \in lo..hi : j \in lo..i \/ j \in i..hi
    BY PagesAre
  <2>2. \A j \in lo..hi - 1 : j \in lo..i - 1 \/ j \in i..hi - 1
    BY PagesAre
  <2>3. lo <= hi
    BY <1>1, <1>2, PagesAre
  <2> QED
    BY <1>1, <1>2, <2>1, <2>2, <2>3 DEF Region
<1> QED
  BY <1>1, <1>2, <1>3

\* No page of a region but the first one begins a region.
LEMMA RegionInside ==
  ASSUME NEW f, WellFormed(f), NEW lo, NEW hi, Region(f, lo, hi), NEW j \in lo + 1..hi
  PROVE  ~IsFirst(f, j)
<1>1. j - 1 \in lo..hi - 1 /\ j - 1 \in lo..hi /\ j - 1 \in Pages /\ (j - 1) + 1 = j
  BY PagesAre DEF Region
<1>2. IsTaken(f, j - 1) /\ ~IsLast(f, j - 1)
  BY <1>1 DEF Region
<1>3. ~IsFirst(f, (j - 1) + 1)
  BY <1>1, <1>2 DEF WellFormed
<1> QED
  BY <1>1, <1>3

LEMMA RegionUnique ==
  ASSUME NEW f, WellFormed(f),
         NEW lo, NEW hi, Region(f, lo, hi), NEW lo2, NEW hi2, Region(f, lo2, hi2),
         NEW p \in Int, lo <= p, p <= hi, lo2 <= p, p <= hi2
  PROVE  lo2 = lo /\ hi2 = hi
<1>1. /\ lo \in Int /\ hi \in Int /\ lo2 \in Int /\ hi2 \in Int
      /\ IsFirst(f, lo) /\ IsFirst(f, lo2) /\ IsLast(f, hi) /\ IsLast(f, hi2)
      /\ \A i \in lo..hi - 1 : ~IsLast(f, i)
      /\ \A i \in lo2..hi2 - 1 : ~IsLast(f, i)
  BY PagesAre DEF Region
<1>2. ~(lo < lo2) /\ ~(lo2 < lo)
  <2>1. \A j \in lo + 1..hi : ~IsFirst(f, j)
    BY RegionInside
  <2>2. \A j \in lo2 + 1..hi2 : ~IsFirst(f, j)
    BY RegionInside
  <2> QED
    BY <1>1, <2>1, <2>2
<1>3. ~(hi < hi2) /\ ~(hi2 < hi)
  BY <1>1
<1> QED
  BY <1>1, <1>2, <1>3

\* The pages of the regions are the taken ones.
LEMMA UsedIsTaken ==
  ASSUME WellFormed(flags)
  PROVE  \A j \in Pages : j \in R!Used <=> IsTaken(flags, j)
<1> SUFFICES ASSUME NEW j \in Pages PROVE j \in R!Used <=> IsTaken(flags, j)
  OBVIOUS
<1>1. ASSUME j \in R!Used PROVE IsTaken(flags, j)
  <2>1. PICK r \in RegionsOf(flags) : j \in r.lo..r.hi
    BY <1>1 DEF R!Used
  <2>2. Region(flags, r.lo, r.hi)
    BY <2>1, RegionsOfMember
  <2> QED
    BY <2>1, <2>2 DEF Region
<1>2. ASSUME IsTaken(flags, j) PROVE j \in R!Used
  <2>1. PICK lo, hi \in Pages : Region(flags, lo, hi) /\ lo <= j /\ j <= hi
    BY <1>2, RegionExists
  <2> DEFINE r == [lo |-> lo, hi |-> hi]
  <2>2. r \in RegionsOf(flags)
    BY <2>1, RegionsOfMember
  <2>3. j \in r.lo..r.hi
    BY <2>1, PagesAre
  <2> QED
    BY <2>2, <2>3 DEF R!Used
<1> QED
  BY <1>1, <1>2

\* The loops of page_alloc find exactly the room between the regions.
LEMMA FitsIsRoom ==
  ASSUME WellFormed(flags), NEW n \in Nat
  PROVE  Fits(flags, n) = R!Room(n)
<1>1. R!Pages = Pages
  BY DEF R!Pages, Pages
<1>2. ASSUME NEW i \in Pages, i + n <= NumPages
      PROVE  (i..i + n - 1) \intersect R!Used = {} <=> \A j \in i..i + n - 1 : ~IsTaken(flags, j)
  <2>1. \A j \in i..i + n - 1 : j \in Pages
    BY <1>2, PagesAre
  <2>2. \A j \in i..i + n - 1 : j \in R!Used <=> IsTaken(flags, j)
    BY <2>1, UsedIsTaken
  <2> HIDE DEF R!Used
  <2> QED
    BY <2>2
<1> QED
  BY <1>1, <1>2 DEF Fits, R!Room

\* Whether pages are a region is decided by the flags of these pages.
LEMMA RegionKept ==
  ASSUME NEW f, NEW g, NEW lo, NEW hi, \A j \in lo..hi : g[j] = f[j], Region(f, lo, hi)
  PROVE  Region(g, lo, hi)
<1>1. lo \in lo..hi /\ hi \in lo..hi /\ \A j \in lo..hi - 1 : j \in lo..hi
  BY PagesAre DEF Region
<1> QED
  BY <1>1 DEF Region, IsTaken, IsFirst, IsLast

\* A successful page_alloc adds one region.
LEMMA AllocMaps ==
  ASSUME WellFormed(flags), WellFormed(flags'), PageTypeOK,
         NEW n \in Nat \ {0}, Fits(flags, n) # {},
         NEW i, i = Min(Fits(flags, n)), flags' = Marked(flags, i, n)
  PROVE  /\ i \in R!Room(n)
         /\ RegionsOf(flags') = RegionsOf(flags) \union {[lo |-> i, hi |-> i + n - 1]}
<1> DEFINE h == i + n - 1
<1>1. /\ i \in Pages /\ i + n <= NumPages
      /\ \A j \in i..h : j \in Pages /\ flags[j] = {}
  BY FitsProperties
<1>2. i \in R!Room(n)
  <2>1. Fits(flags, n) \in SUBSET Nat
    BY PagesAre DEF Fits
  <2>2. i \in Fits(flags, n)
    BY <2>1, MinProperties
  <2> QED
    BY <2>2, FitsIsRoom
<1>3. i \in Int /\ h \in Pages /\ i <= h
  BY <1>1, PagesAre
<1>4. flags' = [j \in Pages |->
                  IF j \notin i..h THEN flags[j]
                  ELSE flags[j] \union {"TAKEN"}
                         \union (IF j = i THEN {"FIRST"} ELSE {})
                         \union (IF j = h THEN {"LAST"} ELSE {})]
  BY DEF Marked
<1> HIDE DEF h
<1>5. \A j \in Pages : j \notin i..h => flags'[j] = flags[j]
  BY <1>4
<1>6. Region(flags', i, h)
  <2>1. \A j \in i..h : IsTaken(flags', j)
    BY <1>1, <1>4 DEF IsTaken
  <2>2. IsFirst(flags', i) /\ IsLast(flags', h)
    BY <1>1, <1>3, <1>4, PagesAre DEF IsFirst, IsLast
  <2>3. \A j \in i..h - 1 : ~IsLast(flags', j)
    <3>1. \A j \in i..h - 1 : j \in i..h /\ j # h
      BY <1>3, PagesAre
    <3> QED
      BY <1>1, <1>4, <3>1 DEF IsLast
  <2> QED
    BY <1>1, <1>3, <2>1, <2>2, <2>3 DEF Region
<1>7. ASSUME NEW r \in RegionsOf(flags) PROVE r \in RegionsOf(flags')
  <2>1. r \in [lo : Pages, hi : Pages] /\ Region(flags, r.lo, r.hi)
    BY <1>7, RegionsOfMember
  <2>2. \A j \in r.lo..r.hi : j \in Pages /\ j \notin i..h
    BY <1>1, <2>1, PagesAre DEF Region, IsTaken
  <2>3. Region(flags', r.lo, r.hi)
    BY <1>5, <2>1, <2>2, RegionKept
  <2> QED
    BY <2>1, <2>3, RegionsOfMember
<1>8. ASSUME NEW r \in RegionsOf(flags'), r # [lo |-> i, hi |-> h]
      PROVE  r \in RegionsOf(flags)
  <2>1. r \in [lo : Pages, hi : Pages] /\ Region(flags', r.lo, r.hi)
    BY <1>8, RegionsOfMember
  <2>2. ASSUME NEW j \in r.lo..r.hi PROVE j \notin i..h
    <3> SUFFICES ASSUME j \in i..h PROVE FALSE
      OBVIOUS
    <3>1. j \in Int /\ r.lo <= j /\ j <= r.hi /\ i <= j /\ j <= h
      BY <2>1, <1>3, PagesAre
    <3>2. r.lo = i /\ r.hi = h
      BY <1>6, <2>1, <3>1, RegionUnique
    <3> QED
      BY <1>8, <2>1, <3>2
  <2>3. \A j \in r.lo..r.hi : j \in Pages
    BY <2>1, PagesAre
  <2>4. \A j \in r.lo..r.hi : flags[j] = flags'[j]
    BY <1>5, <2>2, <2>3
  <2>5. Region(flags, r.lo, r.hi)
    BY <2>1, <2>4, RegionKept
  <2> QED
    BY <2>1, <2>5, RegionsOfMember
<1>9. [lo |-> i, hi |-> h] \in RegionsOf(flags')
  BY <1>1, <1>3, <1>6, RegionsOfMember
<1>10. RegionsOf(flags') = RegionsOf(flags) \union {[lo |-> i, hi |-> h]}
  BY <1>7, <1>8, <1>9
<1> QED
  BY <1>2, <1>10 DEF h

\* page_free of a page of the region from lo to hi clears the rest of the region,
\* and nothing else.
LEMMA FreedFlags ==
  ASSUME PageTypeOK, WellFormed(flags), NEW lo, NEW hi, Region(flags, lo, hi),
         NEW p \in lo..hi
  PROVE  LET f == PageFreed(flags, p) IN
         /\ \A j \in Pages : j \notin p - 1..hi => f[j] = flags[j]
         /\ \A j \in p..hi : ~IsTaken(f, j)
         /\ p = lo /\ lo - 1 \in Pages => f[lo - 1] = flags[lo - 1]
         /\ p > lo => f[p - 1] = flags[p - 1] \union {"LAST"}
<1> DEFINE g == Closed(flags, p)
           s == Stop(g, p)
           f == PageFreed(flags, p)
<1>1. /\ lo \in Int /\ hi \in Int /\ p \in Int /\ lo <= p /\ p <= hi
      /\ lo \in Pages /\ hi \in Pages /\ p \in Pages /\ NumPages \in Nat
      /\ IsFirst(flags, lo) /\ IsLast(flags, hi)
      /\ \A j \in lo..hi : IsTaken(flags, j)
      /\ \A j \in lo..hi - 1 : ~IsLast(flags, j)
  BY PagesAre DEF Region
<1>2. flags \in [Pages -> SUBSET {"TAKEN", "FIRST", "LAST"}]
  BY DEF PageTypeOK
<1>3. /\ \A j \in Pages : j # p - 1 => g[j] = flags[j]
      /\ p = lo => g = flags
      /\ p > lo => g[p - 1] = flags[p - 1] \union {"LAST"}
      /\ \A j \in Pages : IsTaken(g, j) <=> IsTaken(flags, j)
  <2>1. CASE p = lo
    <3>1. g = flags
      BY <1>1, <2>1 DEF Closed
    <3> QED
      BY <1>1, <2>1, <3>1
  <2>2. CASE p > lo
    <3>1. p \in lo + 1..hi /\ p - 1 \in lo..hi /\ p > 0 /\ p - 1 \in Pages
      BY <1>1, <2>2, PagesAre
    <3>2. ~IsFirst(flags, p) /\ IsTaken(flags, p - 1)
      BY <1>1, <3>1, RegionInside
    <3>3. g = [flags EXCEPT ![p - 1] = flags[p - 1] \union {"LAST"}]
      BY <3>1, <3>2 DEF Closed
    <3> HIDE DEF g
    <3> QED
      BY <1>1, <1>2, <2>2, <3>1, <3>3 DEF IsTaken
  <2> QED
    BY <1>1, <2>1, <2>2
<1> HIDE DEF g
<1>4. s = hi + 1
  <2> DEFINE S == {j \in p..NumPages : \/ j = NumPages
                                       \/ ~IsTaken(g, j)
                                       \/ j > p /\ IsLast(g, j - 1)}
  <2>1. S \in SUBSET Nat
    BY <1>1, PagesAre
  <2>2. hi + 1 \in S
    <3>1. hi + 1 \in p..NumPages /\ hi + 1 > p /\ (hi + 1) - 1 = hi
      BY <1>1, PagesAre
    <3>2. g[hi] = flags[hi]
      BY <1>1, <1>3
    <3>3. IsLast(g, (hi + 1) - 1)
      BY <1>1, <3>1, <3>2 DEF IsLast
    <3> QED
      BY <3>1, <3>3
  <2>3. \A j \in p..hi : j \notin S
    <3> SUFFICES ASSUME NEW j \in p..hi PROVE j \notin S
      OBVIOUS
    <3>1. j \in lo..hi /\ j \in Pages /\ j # NumPages
      BY <1>1, PagesAre
    <3>2. IsTaken(g, j)
      BY <1>1, <1>3, <3>1
    <3>3. ASSUME j > p PROVE ~IsLast(g, j - 1)
      <4>1. j - 1 \in lo..hi - 1 /\ j - 1 \in Pages /\ j - 1 # p - 1
        BY <1>1, <3>3, PagesAre
      <4> QED
        BY <1>1, <1>3, <4>1 DEF IsLast
    <3> QED
      BY <3>1, <3>2, <3>3
  <2>4. Min(S) \in S /\ Min(S) <= hi + 1
    BY <2>1, <2>2, MinProperties
  <2>5. Min(S) \in p..NumPages /\ Min(S) \notin p..hi
    BY <2>3, <2>4
  <2>6. Min(S) = hi + 1
    BY <1>1, <2>4, <2>5
  <2> QED
    BY <2>6 DEF Stop
<1>5. f = [j \in Pages |-> IF j \in p..s - 1 THEN {} ELSE g[j]]
  BY DEF PageFreed, Cleared, g
<1> HIDE DEF s, f
<1>6. \A j \in Pages : f[j] = IF j \in p..hi THEN {} ELSE g[j]
  <2>1. (hi + 1) - 1 = hi
    BY <1>1
  <2> QED
    BY <1>4, <1>5, <2>1
<1>7. \A j \in Pages : j \notin p - 1..hi => f[j] = flags[j]
  <2> SUFFICES ASSUME NEW j \in Pages, j \notin p - 1..hi PROVE f[j] = flags[j]
    OBVIOUS
  <2>1. j \notin p..hi /\ j # p - 1
    BY <1>1, PagesAre
  <2> QED
    BY <1>3, <1>6, <2>1
<1>8. \A j \in p..hi : ~IsTaken(f, j)
  <2>1. \A j \in p..hi : j \in Pages
    BY <1>1, PagesAre
  <2> QED
    BY <1>6, <2>1 DEF IsTaken
<1>9. p = lo /\ lo - 1 \in Pages => f[lo - 1] = flags[lo - 1]
  BY <1>1, <1>3, <1>6
<1>10. p > lo => f[p - 1] = flags[p - 1] \union {"LAST"}
  <2>1. p > lo => p - 1 \in Pages /\ p - 1 \notin p..hi
    BY <1>1, PagesAre
  <2> QED
    BY <1>3, <1>6, <2>1
<1> QED
  BY <1>7, <1>8, <1>9, <1>10 DEF f

\* What the regions become when page p is given back.
Truncated(p) ==
  {r \in RegionsOf(flags) : p \notin r.lo..r.hi}
    \union {[lo |-> r.lo, hi |-> p - 1] :
              r \in {r \in RegionsOf(flags) : p \in r.lo + 1..r.hi}}

LEMMA FreeMaps ==
  ASSUME PageTypeOK, WellFormed(flags), WellFormed(flags'),
         NEW p \in Pages, flags' = PageFreed(flags, p)
  PROVE  RegionsOf(flags') = Truncated(p)
<1>1. \A r \in RegionsOf(flags) :
        /\ r \in [lo : Pages, hi : Pages] /\ Region(flags, r.lo, r.hi)
        /\ r.lo \in Int /\ r.hi \in Int
  BY RegionsOfMember, PagesAre
<1>2. CASE ~IsTaken(flags, p)
  <2>1. flags' = flags
    <3>1. ASSUME p > 0, IsTaken(flags, p - 1) PROVE IsLast(flags, p - 1)
      <4>1. p - 1 \in Pages /\ (p - 1) + 1 = p
        BY <3>1, PagesAre
      <4> QED
        BY <1>2, <3>1, <4>1 DEF WellFormed
    <3>2. Closed(flags, p) = flags
      <4>1. CASE ~IsFirst(flags, p) /\ p > 0 /\ IsTaken(flags, p - 1)
        <5>1. p - 1 \in Pages
          BY <4>1, PagesAre
        <5>2. flags[p - 1] \union {"LAST"} = flags[p - 1]
          BY <3>1, <4>1 DEF IsLast
        <5> QED
          BY <4>1, <5>1, <5>2 DEF Closed, PageTypeOK
      <4>2. CASE ~(~IsFirst(flags, p) /\ p > 0 /\ IsTaken(flags, p - 1))
        BY <4>2 DEF Closed
      <4> QED
        BY <4>1, <4>2
    <3>3. Stop(flags, p) = p
      <4> DEFINE S == {j \in p..NumPages : \/ j = NumPages
                                           \/ ~IsTaken(flags, j)
                                           \/ j > p /\ IsLast(flags, j - 1)}
      <4>1. S \in SUBSET Nat /\ p \in S /\ \A j \in S : p <= j
        BY <1>2, PagesAre
      <4>2. Min(S) \in S /\ Min(S) <= p
        BY <4>1, MinProperties
      <4>3. p <= Min(S) /\ Min(S) \in Int /\ p \in Int
        BY <4>1, <4>2, PagesAre
      <4>4. Min(S) = p
        BY <4>2, <4>3
      <4> QED
        BY <4>4 DEF Stop
    <3>4. p..p - 1 = {}
      BY PagesAre
    <3> QED
      BY <3>2, <3>3, <3>4 DEF PageFreed, Cleared, PageTypeOK
  <2>2. \A r \in RegionsOf(flags) : p \notin r.lo..r.hi
    BY <1>1, <1>2 DEF Region
  <2>3. \A r \in RegionsOf(flags) : p \notin r.lo + 1..r.hi
    BY <1>1, <2>2
  <2> QED
    BY <2>1, <2>2, <2>3 DEF Truncated
<1>3. CASE IsTaken(flags, p)
  <2>1. PICK lo, hi \in Pages : Region(flags, lo, hi) /\ lo <= p /\ p <= hi
    BY <1>3, RegionExists
  <2>2. lo \in Int /\ hi \in Int /\ p \in Int /\ p \in lo..hi
    BY <2>1, PagesAre
  <2>3. /\ \A j \in Pages : j \notin p - 1..hi => flags'[j] = flags[j]
        /\ \A j \in p..hi : ~IsTaken(flags', j)
        /\ p = lo /\ lo - 1 \in Pages => flags'[lo - 1] = flags[lo - 1]
        /\ p > lo => flags'[p - 1] = flags[p - 1] \union {"LAST"}
    BY <2>1, <2>2, FreedFlags
  <2>4. ASSUME NEW j \in Pages, j \notin lo..hi PROVE flags'[j] = flags[j]
    <3>1. CASE j \notin p - 1..hi
      BY <2>3, <3>1
    <3>2. CASE j \in p - 1..hi
      <4>1. p = lo /\ j = lo - 1
        BY <2>2, <2>4, <3>2, PagesAre
      <4> QED
        BY <2>3, <4>1
    <3> QED
      BY <3>1, <3>2
  <2>5. ASSUME p > lo PROVE Region(flags', lo, p - 1)
    <3>1. /\ \A j \in lo..hi : IsTaken(flags, j)
          /\ \A j \in lo..hi - 1 : ~IsLast(flags, j)
          /\ IsFirst(flags, lo)
      BY <2>1 DEF Region
    <3>2. p - 1 \in Pages /\ lo <= p - 1
      BY <2>2, <2>5, PagesAre
    <3>3. \A j \in lo..(p - 1) - 1 : j \in Pages /\ j \notin p - 1..hi /\ j \in lo..hi - 1
      BY <2>2, <2>5, PagesAre
    <3>4. \A j \in lo..(p - 1) - 1 : flags'[j] = flags[j]
      BY <2>3, <3>3
    <3>5. flags'[p - 1] = flags[p - 1] \union {"LAST"}
      BY <2>3, <2>5
    <3>6. \A j \in lo..p - 1 : IsTaken(flags', j)
      <4>1. \A j \in lo..p - 1 : j \in lo..hi /\ (j = p - 1 \/ j \in lo..(p - 1) - 1)
        BY <2>2, <2>5
      <4> QED
        BY <3>1, <3>4, <3>5, <4>1 DEF IsTaken
    <3>7. IsFirst(flags', lo)
      <4>1. lo = p - 1 \/ lo \in lo..(p - 1) - 1
        BY <2>2, <2>5
      <4> QED
        BY <3>1, <3>4, <3>5, <4>1 DEF IsFirst
    <3>8. IsLast(flags', p - 1)
      BY <3>5 DEF IsLast
    <3>9. \A j \in lo..(p - 1) - 1 : ~IsLast(flags', j)
      BY <3>1, <3>3, <3>4 DEF IsLast
    <3> QED
      BY <3>2, <3>6, <3>7, <3>8, <3>9 DEF Region
  <2>6. ASSUME NEW r \in RegionsOf(flags), p \notin r.lo..r.hi
        PROVE  r \in RegionsOf(flags')
    <3>1. \A j \in r.lo..r.hi : j \in Pages /\ j \in Int /\ r.lo <= j /\ j <= r.hi
      BY <1>1, PagesAre
    <3>2. ASSUME NEW j \in r.lo..r.hi PROVE j \notin lo..hi
      <4> SUFFICES ASSUME j \in lo..hi PROVE FALSE
        OBVIOUS
      <4>1. lo <= j /\ j <= hi
        BY <2>2
      <4>2. r.lo = lo /\ r.hi = hi
        BY <1>1, <2>1, <3>1, <4>1, RegionUnique
      <4> QED
        BY <2>2, <2>6, <4>2
    <3>3. \A j \in r.lo..r.hi : flags'[j] = flags[j]
      BY <2>4, <3>1, <3>2
    <3>4. Region(flags', r.lo, r.hi)
      BY <1>1, <3>3, RegionKept
    <3> QED
      BY <1>1, <3>4, RegionsOfMember
  <2>7. ASSUME NEW r \in RegionsOf(flags), p \in r.lo + 1..r.hi
        PROVE  r.lo = lo /\ p > lo
    <3>1. r.lo <= p /\ p <= r.hi /\ p > r.lo
      BY <1>1, <2>2, <2>7
    <3>2. r.lo = lo /\ r.hi = hi
      BY <1>1, <2>1, <2>2, <3>1, RegionUnique
    <3> QED
      BY <3>1, <3>2
  <2>8. p > lo => [lo |-> lo, hi |-> p - 1] \in RegionsOf(flags')
    <3> SUFFICES ASSUME p > lo PROVE [lo |-> lo, hi |-> p - 1] \in RegionsOf(flags')
      OBVIOUS
    <3>1. p - 1 \in Pages
      BY <2>2, PagesAre
    <3> QED
      BY <2>5, <3>1, RegionsOfMember
  <2>9. ASSUME NEW r \in RegionsOf(flags') PROVE r \in Truncated(p)
    <3>1. r \in [lo : Pages, hi : Pages] /\ Region(flags', r.lo, r.hi)
      BY <2>9, RegionsOfMember
    <3>2. \A j \in r.lo..r.hi : j \in Pages /\ j \in Int /\ r.lo <= j /\ j <= r.hi
      BY <3>1, PagesAre
    <3>3. CASE \A j \in r.lo..r.hi : j \notin lo..hi
      <4>1. \A j \in r.lo..r.hi : flags[j] = flags'[j]
        BY <2>4, <3>2, <3>3
      <4>2. Region(flags, r.lo, r.hi)
        BY <3>1, <4>1, RegionKept
      <4>3. r \in RegionsOf(flags) /\ p \notin r.lo..r.hi
        BY <2>2, <3>1, <3>3, <4>2, RegionsOfMember
      <4> QED
        BY <4>3 DEF Truncated
    <3>4. CASE \E j \in r.lo..r.hi : j \in lo..hi
      <4>1. PICK j \in r.lo..r.hi : j \in lo..hi
        BY <3>4
      <4>2. j \in Int /\ r.lo <= j /\ j <= r.hi /\ lo <= j /\ j <= hi
        BY <2>2, <3>2, <4>1
      <4>3. IsTaken(flags', j)
        BY <3>1 DEF Region
      <4>4. j \notin p..hi
        BY <2>3, <4>3
      <4>5. j <= p - 1 /\ p > lo
        BY <2>2, <4>2, <4>4
      <4>6. r.lo = lo /\ r.hi = p - 1
        BY <2>5, <3>1, <4>2, <4>5, RegionUnique
      <4>7. r = [lo |-> lo, hi |-> p - 1]
        BY <3>1, <4>6
      <4> DEFINE old == [lo |-> lo, hi |-> hi]
      <4>8. old \in RegionsOf(flags) /\ p \in old.lo + 1..old.hi
        BY <2>1, <2>2, <4>5, RegionsOfMember
      <4>9. r = [lo |-> old.lo, hi |-> p - 1]
        BY <4>7
      <4> HIDE DEF old
      <4> QED
        BY <4>8, <4>9 DEF Truncated
    <3> QED
      BY <3>3, <3>4
  <2>10. ASSUME NEW r \in Truncated(p) PROVE r \in RegionsOf(flags')
    <3>1. CASE r \in RegionsOf(flags) /\ p \notin r.lo..r.hi
      BY <2>6, <3>1
    <3>2. ASSUME NEW u \in RegionsOf(flags), p \in u.lo + 1..u.hi,
                 r = [lo |-> u.lo, hi |-> p - 1]
          PROVE  r \in RegionsOf(flags')
      BY <2>7, <2>8, <3>2
    <3> QED
      BY <2>10, <3>1, <3>2 DEF Truncated
  <2> QED
    BY <2>9, <2>10
<1> QED
  BY <1>2, <1>3

\* Every step of the page allocator is a step of the regions.
LEMMA NextMaps ==
  ASSUME PageInv, PageInv', [Next]_pageVars
  PROVE  [R!Next]_<<RegionsOf(flags), last>>
<1>0. WellFormed(flags) /\ WellFormed(flags') /\ PageTypeOK
  BY InvWellFormed DEF PageInv
<1>1. ASSUME NEW n \in 0..NumPages + 1, Alloc(n) PROVE R!Alloc(n)
  <2>1. n \in Nat /\ Fits(flags, n) = R!Room(n)
    BY <1>0, FitsIsRoom, PagesAre
  <2>2. CASE n < 1 \/ Fits(flags, n) = {}
    <3>1. last' = [n |-> n, page |-> Null] /\ flags' = flags
      BY <1>1, <2>2 DEF Alloc
    <3>2. RegionsOf(flags)' = RegionsOf(flags)
      BY <3>1 DEF RegionsOf, Pages, IsTaken, IsFirst, IsLast
    <3> QED
      BY <2>1, <2>2, <3>1, <3>2 DEF R!Alloc
  <2>3. CASE ~(n < 1 \/ Fits(flags, n) = {})
    <3> DEFINE i == Min(Fits(flags, n))
    <3>1. n \in Nat \ {0} /\ Fits(flags, n) # {}
      BY <2>1, <2>3
    <3>2. flags' = Marked(flags, i, n) /\ last' = [n |-> n, page |-> i]
      BY <1>1, <2>3 DEF Alloc
    <3> HIDE DEF i
    <3>3. i = Min(Fits(flags, n))
      BY DEF i
    <3>4. /\ i \in R!Room(n)
          /\ RegionsOf(flags') = RegionsOf(flags) \union {[lo |-> i, hi |-> i + n - 1]}
      BY <1>0, <3>1, <3>2, <3>3, AllocMaps
    <3>5. RegionsOf(flags)' = RegionsOf(flags')
      BY DEF RegionsOf, Pages, IsTaken, IsFirst, IsLast
    <3>6. ~(n < 1 \/ R!Room(n) = {})
      BY <2>1, <2>3
    <3> HIDE DEF R!Room
    <3> QED
      BY <3>2, <3>4, <3>5, <3>6 DEF R!Alloc
  <2> QED
    BY <2>2, <2>3
<1>2. ASSUME NEW p \in -1..NumPages, Free(p) PROVE R!Free(p)
  <2>1. last' = last /\ flags' = IF p \in Pages THEN PageFreed(flags, p) ELSE flags
    BY <1>2 DEF Free
  <2>2. RegionsOf(flags') = Truncated(p)
    <3>1. CASE p \in Pages
      BY <1>0, <2>1, <3>1, FreeMaps
    <3>2. CASE p \notin Pages
      <4>1. \A r \in RegionsOf(flags) : p \notin r.lo..r.hi /\ p \notin r.lo + 1..r.hi
        <5> SUFFICES ASSUME NEW r \in RegionsOf(flags)
                     PROVE  p \notin r.lo..r.hi /\ p \notin r.lo + 1..r.hi
          OBVIOUS
        <5>1. r.lo \in Pages /\ r.hi \in Pages
          BY RegionsOfMember
        <5> QED
          BY <3>2, <5>1, PagesAre
      <4> QED
        BY <2>1, <3>2, <4>1 DEF Truncated
    <3> QED
      BY <3>1, <3>2
  <2>3. RegionsOf(flags)' = RegionsOf(flags')
    BY DEF RegionsOf, Pages, IsTaken, IsFirst, IsLast
  <2> QED
    BY <2>1, <2>2, <2>3 DEF R!Free, Truncated
<1>3. CASE UNCHANGED pageVars
  <2>1. RegionsOf(flags)' = RegionsOf(flags)
    BY <1>3 DEF pageVars, RegionsOf, Pages, IsTaken, IsFirst, IsLast
  <2> QED
    BY <1>3, <2>1 DEF pageVars
<1> QED
  BY <1>1, <1>2, <1>3 DEF Next, R!Next

\* page_alloc and page_free do what Regions promises, however many pages there
\* are: an allocation fails only for want of room and never overlaps another,
\* and freeing a page gives back the rest of its region and no other page.
THEOREM FlagsImplementRegions == Spec => RefinesRegions
<1>1. Init => R!Init
  <2> SUFFICES ASSUME Init PROVE R!Init
    OBVIOUS
  <2>1. RegionsOf(flags) = {}
    <3>1. \A i \in Pages : ~IsFirst(flags, i)
      BY DEF Init, IsFirst
    <3> QED
      BY <3>1 DEF RegionsOf
  <2> QED
    BY <2>1 DEF Init, R!Init
<1>2. PageInv /\ PageInv' /\ [Next]_pageVars => [R!Next]_<<RegionsOf(flags), last>>
  BY NextMaps
<1> QED
  BY <1>1, <1>2, PageInvariance, PTL DEF Spec, RefinesRegions, R!Spec

=============================================================================
