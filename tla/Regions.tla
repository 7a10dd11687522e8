------------------------------ MODULE Regions ------------------------------
(***************************************************************************)
(* What a page allocator promises, without flags: a set of regions of      *)
(* consecutive pages that do not overlap.  An allocation fails only when   *)
(* no run of free pages is long enough, and giving back a page gives back  *)
(* the rest of its region, never a page of another one.                    *)
(***************************************************************************)
EXTENDS Integers

CONSTANTS NumPages, Null

VARIABLES
  regions,  \* the allocated regions, each [lo |-> first page, hi |-> last page]
  last      \* the last allocation: its argument and the page it returned

Pages == 0..NumPages - 1

Used == UNION {r.lo..r.hi : r \in regions}

Room(n) == {i \in Pages : i + n <= NumPages /\ (i..i + n - 1) \intersect Used = {}}

Init == regions = {} /\ last = [n |-> 0, page |-> Null]

Alloc(n) ==
  IF n < 1 \/ Room(n) = {}
  THEN last' = [n |-> n, page |-> Null] /\ UNCHANGED regions
  ELSE \E i \in Room(n) :
         /\ regions' = regions \union {[lo |-> i, hi |-> i + n - 1]}
         /\ last' = [n |-> n, page |-> i]

Free(p) ==
  /\ regions' = {r \in regions : p \notin r.lo..r.hi}
                  \union {[lo |-> r.lo, hi |-> p - 1] :
                            r \in {r \in regions : p \in r.lo + 1..r.hi}}
  /\ UNCHANGED last

Next ==
  \/ \E n \in 0..NumPages + 1 : Alloc(n)
  \/ \E p \in -1..NumPages : Free(p)

Spec == Init /\ [][Next]_<<regions, last>>

=============================================================================
