----------------------------- MODULE PageAlloc -----------------------------
(***************************************************************************)
(* The page allocator of os/page.c: one byte of flags per page, first-fit  *)
(* page_alloc and page_free, which may start in the middle of a region.    *)
(* The operators take the flags as a parameter: module Malloc, whose pages *)
(* carry one more flag, uses them too.                                     *)
(***************************************************************************)
EXTENDS Integers, FiniteSets, FiniteSetsExt

CONSTANTS
  NumPages,  \* _num_pages
  Null       \* the NULL pointer

ASSUME PageAssumption == NumPages \in Nat \ {0} /\ Null \notin Int

VARIABLES
  flags,  \* the flags of each page, as the set of the bits that are 1
  last    \* the last page_alloc: its argument and the page it returned

pageVars == <<flags, last>>

Pages == 0..NumPages - 1

IsTaken(f, i) == "TAKEN" \in f[i]
IsLast(f, i)  == "LAST" \in f[i]
IsFirst(f, i) == "FIRST" \in f[i]

-----------------------------------------------------------------------------
\* The loop stops one start too early.
Bug_Fits(f, n) ==
  {i \in Pages : i + n < NumPages /\ \A j \in i..i + n - 1 : ~IsTaken(f, j)}

\* The last page of the run is not looked at.
Bug_FitsLast(f, n) ==
  {i \in Pages : i + n <= NumPages /\ \A j \in i..i + n - 2 : ~IsTaken(f, j)}

\* Where the two loops of page_alloc find n free pages.
Fits(f, n) ==
  {i \in Pages : i + n <= NumPages /\ \A j \in i..i + n - 1 : ~IsTaken(f, j)}

\* The flags are OR-ed to what the pages hold.
Marked(f, i, n) ==
  [j \in Pages |->
     IF j \notin i..i + n - 1 THEN f[j]
     ELSE f[j] \union {"TAKEN"} \union (IF j = i THEN {"FIRST"} ELSE {})
               \union (IF j = i + n - 1 THEN {"LAST"} ELSE {})]

Bug_Closed(f, p) == f

\* Freeing from the middle of a region ends the region just before p.
Closed(f, p) ==
  IF ~IsFirst(f, p) /\ p > 0 /\ IsTaken(f, p - 1)
  THEN [f EXCEPT ![p - 1] = @ \union {"LAST"}] ELSE f

\* The page the clearing loop stops in front of: a free one, or the one after
\* a page with PAGE_LAST. NumPages: nothing stopped it inside the table.
Stop(f, p) ==
  Min({j \in p..NumPages : \/ j = NumPages
                           \/ ~IsTaken(f, j)
                           \/ j > p /\ IsLast(f, j - 1)})

\* Only the taken bit is cleared.
Bug_Cleared(f, p) ==
  [j \in Pages |-> IF j \in p..Stop(f, p) - 1 THEN f[j] \ {"TAKEN"} ELSE f[j]]

Cleared(f, p) ==
  [j \in Pages |-> IF j \in p..Stop(f, p) - 1 THEN {} ELSE f[j]]

\* page_free.
PageFreed(f, p) == Cleared(Closed(f, p), p)

-----------------------------------------------------------------------------
Init == flags = [i \in Pages |-> {}] /\ last = [n |-> 0, page |-> Null]

\* page_alloc(n).
Alloc(n) ==
  IF n < 1 \/ Fits(flags, n) = {}
  THEN last' = [n |-> n, page |-> Null] /\ UNCHANGED flags
  ELSE /\ flags' = Marked(flags, Min(Fits(flags, n)), n)
       /\ last' = [n |-> n, page |-> Min(Fits(flags, n))]

\* page_free of an address in page p; outside of the heap it returns at once.
Free(p) ==
  /\ flags' = IF p \in Pages THEN PageFreed(flags, p) ELSE flags
  /\ UNCHANGED last

Next ==
  \/ \E n \in 0..NumPages + 1 : Alloc(n)
  \/ \E p \in -1..NumPages : Free(p)

Spec == Init /\ [][Next]_pageVars

-----------------------------------------------------------------------------
(***************************************************************************)
(* Properties.                                                             *)
(***************************************************************************)

\* Every variable has its type, and a page keeps no flag when it is freed:
\* page_alloc ORs its flags into the page, so that one left there would cut the
\* next region over it in two.
PageTypeOK ==
  /\ flags \in [Pages -> SUBSET {"TAKEN", "FIRST", "LAST"}]
  /\ \A i \in Pages : ~IsTaken(flags, i) => flags[i] = {}
  /\ last \in [n : 0..NumPages + 1, page : Pages \union {Null}]

\* A page that does not end its region is followed by a taken page that does
\* not begin one: the loop of page_free, and the search for the last page in
\* free, stop in the region they started in and never pass the end of the table.
RunsEnd ==
  \A i \in Pages :
    IsTaken(flags, i) /\ ~IsLast(flags, i) =>
      i + 1 \in Pages /\ IsTaken(flags, i + 1) /\ ~IsFirst(flags, i + 1)

\* A page that does not begin its region is preceded by a taken page that does
\* not end one: whatever is freed, from the middle or not, no page is left
\* behind that belongs to no region and could never be freed with one.
RunsBegin ==
  \A i \in Pages :
    IsTaken(flags, i) /\ ~IsFirst(flags, i) =>
      i - 1 \in Pages /\ IsTaken(flags, i - 1) /\ ~IsLast(flags, i - 1)

\* The regions the flags stand for.
RegionsOf(f) ==
  {r \in [lo : Pages, hi : Pages] :
     /\ r.lo <= r.hi /\ IsFirst(f, r.lo) /\ IsLast(f, r.hi)
     /\ \A i \in r.lo..r.hi : IsTaken(f, i)
     /\ \A i \in r.lo..r.hi - 1 : ~IsLast(f, i)}

R == INSTANCE Regions WITH regions <- RegionsOf(flags)

\* The flags implement the regions: page_alloc fails only when there is no room,
\* never hands out a page twice, and page_free truncates exactly one region.
RefinesRegions == R!Spec

=============================================================================
