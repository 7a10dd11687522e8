---------------------------- MODULE TimersProofs ----------------------------
(***************************************************************************)
(* Proofs about Timers, for any number of tasks, clients and timers.  The  *)
(* linked timers are a tree, rooted at first_timer, of two kinds of edges: *)
(* t->next, and the local variable it of a client that has linked t and is *)
(* about to set t->next.  Every store that is not stale keeps the tree,    *)
(* whoever comes between; where no edge of the second kind is left and no  *)
(* timer has both, the tree is the list.                                   *)
(***************************************************************************)
EXTENDS Timers, ListLemmas

-----------------------------------------------------------------------------
(***************************************************************************)
(* Walking along pointers.                                                 *)
(***************************************************************************)

\* Where the n-th step leads: the recursion has a solution.
LEMMA WalkProperties ==
  ASSUME NEW x \in Pointers, NEW nxt \in [Pointers -> Pointers]
  PROVE  /\ Walk(x, nxt) \in [0..NumTimers -> Pointers]
         /\ Walk(x, nxt)[0] = x
         /\ \A n \in 1..NumTimers : Walk(x, nxt)[n] = nxt[Walk(x, nxt)[n - 1]]
<1> DEFINE Steps(f, k) == f[0] = x /\ \A n \in 1..k : f[n] = nxt[f[n - 1]]
           Reached == {k \in Nat : \E f \in [0..k -> Pointers] : Steps(f, k)}
<1>1. 0 \in Reached
  <2> DEFINE f == [n \in 0..0 |-> x]
  <2>1. f \in [0..0 -> Pointers] /\ Steps(f, 0)
    OBVIOUS
  <2> QED
    BY <2>1
<1>2. ASSUME NEW k \in Nat, k \in Reached PROVE k + 1 \in Reached
  <2>1. PICK f \in [0..k -> Pointers] : Steps(f, k)
    BY <1>2
  <2> DEFINE g == [n \in 0..k + 1 |-> IF n = k + 1 THEN nxt[f[k]] ELSE f[n]]
  <2>2. g \in [0..k + 1 -> Pointers]
    OBVIOUS
  <2>3. ASSUME NEW n \in 1..k + 1 PROVE g[n] = nxt[g[n - 1]]
    BY <2>1
  <2>4. g[0] = x
    BY <2>1
  <2> HIDE DEF g
  <2>5. \E h \in [0..k + 1 -> Pointers] : Steps(h, k + 1)
    BY <2>2, <2>3, <2>4
  <2> QED
    BY <2>5
<1>3. NumTimers \in Nat /\ NumTimers \in Reached
  BY <1>1, <1>2, NatSetInduction, TimersAssumption
<1>4. PICK f \in [0..NumTimers -> Pointers] : Steps(f, NumTimers)
  BY <1>3
<1> DEFINE at == Walk(x, nxt)
<1>5. f = [n \in 0..NumTimers |-> IF n = 0 THEN x ELSE nxt[f[n - 1]]]
  BY <1>3, <1>4
<1>6. at = [n \in 0..NumTimers |-> IF n = 0 THEN x ELSE nxt[at[n - 1]]]
  BY <1>5 DEF Walk
<1> HIDE DEF at
<1>7. at[0] = x /\ \A n \in 1..NumTimers : at[n] = nxt[at[n - 1]]
  BY <1>3, <1>6
<1> DEFINE Inside == {k \in Nat : k <= NumTimers => at[k] \in Pointers}
<1>8. 0 \in Inside /\ \A k \in Nat : k \in Inside => k + 1 \in Inside
  <2>1. ASSUME NEW k \in Nat, k \in Inside, k + 1 <= NumTimers PROVE at[k + 1] \in Pointers
    <3>1. k <= NumTimers /\ k + 1 \in 1..NumTimers /\ (k + 1) - 1 = k
      BY <1>3, <2>1
    <3>2. at[k + 1] = nxt[at[k]] /\ at[k] \in Pointers
      BY <1>7, <2>1, <3>1
    <3> QED
      BY <3>2
  <2> QED
    BY <1>7, <2>1
<1>9. at \in [0..NumTimers -> Pointers]
  <2> HIDE DEF Inside
  <2>1. Nat \subseteq Inside
    BY <1>8, NatSetInduction
  <2>2. \A k \in 0..NumTimers : at[k] \in Pointers
    BY <2>1, <1>3 DEF Inside
  <2> QED
    BY <1>6, <2>2
<1> QED
  BY <1>7, <1>9 DEF at

\* Pointers that lead from x only to timers of L, in the direction in which rank
\* grows: the walk comes to its end before it has seen more timers than there are.
Ascends(L, x, nxt, rank) ==
  /\ L \subseteq Addrs /\ x \in L \union {Null}
  /\ nxt \in [Pointers -> Pointers] /\ rank \in [Addrs -> Nat]
  /\ \A y \in L : nxt[y] # Null => nxt[y] \in L /\ rank[y] < rank[nxt[y]]

LEMMA WalkEnds ==
  ASSUME NEW L, NEW x, NEW nxt, NEW rank, Ascends(L, x, nxt, rank)
  PROVE  LET at == Walk(x, nxt)
         IN  \E m \in 0..NumTimers :
               /\ at[m] = Null
               /\ \A k \in 0..NumTimers : k < m => at[k] \in L
               /\ \A j, k \in 0..NumTimers : j < k /\ k < m => rank[at[j]] < rank[at[k]]
<1> DEFINE at == Walk(x, nxt)
<1>1. /\ NumTimers \in Nat /\ at \in [0..NumTimers -> Pointers] /\ at[0] = x
      /\ \A n \in 1..NumTimers : at[n] = nxt[at[n - 1]]
  <2>1. x \in Pointers
    BY DEF Ascends, Pointers
  <2> QED
    BY <2>1, WalkProperties, TimersAssumption DEF Ascends
<1> HIDE DEF at
<1> DEFINE InL(m) == \A k \in 0..NumTimers : k < m => at[k] \in L
           Grows(m) == \A j, k \in 0..NumTimers :
                          j < k /\ k < m => rank[at[j]] < rank[at[k]]
           Good == {m \in Nat : m > NumTimers + 1 \/ (InL(m) /\ Grows(m))
                                 \/ \E k \in 0..NumTimers : k < m /\ at[k] = Null}
<1>2. 0 \in Good
  BY <1>1
<1>3. ASSUME NEW m \in Nat, m \in Good PROVE m + 1 \in Good
  <2>1. SUFFICES ASSUME m <= NumTimers, InL(m), Grows(m), at[m] # Null
                 PROVE  InL(m + 1) /\ Grows(m + 1)
    BY <1>1, <1>3
  <2>2. CASE m = 0
    BY <1>1, <2>1, <2>2 DEF Ascends
  <2>3. CASE m > 0
    <3>1. m - 1 \in 0..NumTimers /\ m \in 1..NumTimers /\ m - 1 < m
      BY <1>1, <2>1, <2>3
    <3>0. at[m - 1] \in L
      BY <2>1, <3>1
    <3>2. at[m] = nxt[at[m - 1]] /\ at[m] \in L /\ rank[at[m - 1]] < rank[at[m]]
      BY <1>1, <2>1, <3>0, <3>1 DEF Ascends
    <3>3. InL(m + 1)
      BY <2>1, <3>2
    <3>4. ASSUME NEW j \in 0..NumTimers, j < m PROVE rank[at[j]] < rank[at[m]]
      <4>1. \A y \in L : rank[y] \in Nat
        BY DEF Ascends
      <4>2. at[j] \in L /\ (j = m - 1 \/ j < m - 1)
        BY <2>1, <3>4
      <4>3. j = m - 1 \/ rank[at[j]] < rank[at[m - 1]]
        BY <2>1, <3>1, <4>2
      <4> QED
        BY <3>0, <3>2, <4>1, <4>2, <4>3
    <3>5. Grows(m + 1)
      <4> SUFFICES ASSUME NEW j \in 0..NumTimers, NEW k \in 0..NumTimers, j < k, k < m + 1
                   PROVE  rank[at[j]] < rank[at[k]]
        OBVIOUS
      <4>1. CASE k = m
        BY <3>4, <4>1
      <4>2. CASE k < m
        BY <2>1, <4>2
      <4> QED
        BY <4>1, <4>2
    <3> QED
      BY <3>3, <3>5
  <2> QED
    BY <2>2, <2>3
<1>4. Nat \subseteq Good
  <2> HIDE DEF Good
  <2> QED
    BY <1>2, <1>3, NatSetInduction
<1> DEFINE Ends == {k \in 0..NumTimers : at[k] = Null}
<1>5. Ends # {}
  <2> SUFFICES ASSUME Ends = {} PROVE FALSE
    OBVIOUS
  <2>1. NumTimers + 1 \in Good
    <3> HIDE DEF Good
    <3> QED
      BY <1>1, <1>4
  <2>2. InL(NumTimers + 1) /\ Grows(NumTimers + 1)
    BY <1>1, <2>1
  <2>3. at \in [0..NumTimers -> L]
    BY <1>1, <2>2
  <2>4. /\ IsFiniteSet(0..NumTimers) /\ Cardinality(0..NumTimers) = NumTimers + 1
        /\ IsFiniteSet(Addrs) /\ Cardinality(Addrs) = NumTimers
    <3>1. 0 \in Int /\ 1 \in Int /\ NumTimers \in Int
      BY <1>1
    <3>2. /\ IsFiniteSet(0..NumTimers) /\ IsFiniteSet(1..NumTimers)
          /\ Cardinality(0..NumTimers) = IF 0 > NumTimers THEN 0 ELSE NumTimers - 0 + 1
          /\ Cardinality(1..NumTimers) = IF 1 > NumTimers THEN 0 ELSE NumTimers - 1 + 1
      BY <3>1, FS_Interval
    <3> QED
      BY <1>1, <3>2 DEF Addrs
  <2>5. IsFiniteSet(L) /\ Cardinality(L) <= NumTimers /\ Cardinality(L) \in Nat
    BY <2>4, FS_Subset, FS_CardinalityType DEF Ascends
  <2>6. PICK j, k \in 0..NumTimers : j # k /\ at[j] = at[k]
    BY <1>1, <2>3, <2>4, <2>5, FS_PigeonHole
  <2>7. j < k \/ k < j
    BY <2>6
  <2>8. rank[at[j]] < rank[at[k]] \/ rank[at[k]] < rank[at[j]]
    BY <1>1, <2>2, <2>7
  <2>9. rank[at[j]] \in Nat
    BY <2>3 DEF Ascends
  <2> QED
    BY <2>6, <2>8, <2>9
<1> DEFINE m == Min(Ends)
<1>6. m \in Ends /\ \A k \in Ends : m <= k
  <2>1. Ends \in SUBSET Nat
    BY <1>1
  <2> HIDE DEF Ends
  <2> QED
    BY <1>5, <2>1, MinProperties
<1> HIDE DEF m
<1>7. m \in 0..NumTimers /\ m \in Good /\ ~\E k \in 0..NumTimers : k < m /\ at[k] = Null
  <2>1. m \in 0..NumTimers /\ m \in Nat
    BY <1>1, <1>6
  <2>2. m \in Good
    <3> HIDE DEF Good
    <3> QED
      BY <1>4, <2>1
  <2> QED
    BY <1>1, <1>6, <2>1, <2>2
<1>8. m \in 0..NumTimers /\ at[m] = Null /\ InL(m) /\ Grows(m)
  BY <1>1, <1>6, <1>7
<1> QED
  BY <1>8 DEF at

\* The list is made of the timers that the walk comes to, in that order.
LEMMA ListFromProperties ==
  ASSUME NEW L, NEW x, NEW nxt, NEW rank, Ascends(L, x, nxt, rank)
  PROVE  LET s == ListFrom(x, nxt)
         IN  /\ s \in Seq(L) /\ Item(s, 1) = x
             /\ \A i \in 1..Len(s) : nxt[s[i]] = Item(s, i + 1)
             /\ \A i, j \in 1..Len(s) : i < j => rank[s[i]] < rank[s[j]]
<1> DEFINE at == Walk(x, nxt)
           S == {n \in 0..NumTimers : at[n] = Null} \union {NumTimers + 1}
           s == ListFrom(x, nxt)
<1>0. NumTimers \in Nat /\ Null \notin L
  BY TimersAssumption DEF Ascends, Addrs, Null
<1>1. /\ at[0] = x /\ at \in [0..NumTimers -> Pointers]
      /\ \A n \in 1..NumTimers : at[n] = nxt[at[n - 1]]
  <2>1. x \in Pointers /\ nxt \in [Pointers -> Pointers]
    BY DEF Ascends, Pointers
  <2> QED
    BY <2>1, WalkProperties
<1>2. PICK m \in 0..NumTimers :
        /\ at[m] = Null
        /\ \A k \in 0..NumTimers : k < m => at[k] \in L
        /\ \A j, k \in 0..NumTimers : j < k /\ k < m => rank[at[j]] < rank[at[k]]
  BY WalkEnds
<1>3. Min(S) = m
  <2> DEFINE min == Min(S)
  <2>1. S \in SUBSET Nat /\ S # {}
    BY <1>0
  <2>2. min \in S /\ \A k \in S : min <= k
    <3> HIDE DEF S
    <3> QED
      BY <2>1, MinProperties
  <2> HIDE DEF at, min
  <2>3. m \in S /\ \A k \in S : ~(k < m)
    BY <1>0, <1>2
  <2>4. min = m
    <3> HIDE DEF S
    <3> QED
      BY <1>0, <2>1, <2>2, <2>3
  <2> QED
    BY <2>4 DEF min
<1>4. s = [n \in 1..m |-> at[n - 1]]
  BY <1>3 DEF ListFrom
<1> HIDE DEF at, s
<1>5. \A n \in 1..m : n - 1 \in 0..NumTimers /\ n - 1 < m /\ s[n] = at[n - 1] /\ at[n - 1] \in L
  BY <1>0, <1>2, <1>4
<1>6. s \in Seq(L) /\ Len(s) = m
  BY <1>0, <1>4, <1>5
<1>7. Item(s, 1) = x
  <2>1. CASE m = 0
    BY <1>1, <1>2, <1>6, <2>1 DEF Item
  <2>2. CASE m > 0
    <3>1. 1 \in 1..m
      BY <1>0, <2>2
    <3> QED
      BY <1>1, <1>5, <1>6, <3>1 DEF Item
  <2> QED
    BY <2>1, <2>2
<1>8. ASSUME NEW i \in 1..Len(s) PROVE nxt[s[i]] = Item(s, i + 1)
  <2>1. i \in 1..m /\ i \in 1..NumTimers
    BY <1>0, <1>6
  <2>2. nxt[s[i]] = at[i]
    BY <1>1, <1>5, <2>1
  <2>3. CASE i = m
    BY <1>2, <1>6, <2>2, <2>3 DEF Item
  <2>4. CASE i # m
    <3>1. i + 1 \in 1..m /\ (i + 1) - 1 = i
      BY <2>1, <2>4
    <3>2. s[i + 1] = at[(i + 1) - 1]
      BY <1>5, <3>1
    <3> QED
      BY <1>6, <2>2, <3>1, <3>2 DEF Item
  <2> QED
    BY <2>3, <2>4
<1>9. ASSUME NEW i \in 1..Len(s), NEW j \in 1..Len(s), i < j PROVE rank[s[i]] < rank[s[j]]
  <2>1. i \in 1..m /\ j \in 1..m /\ i - 1 < j - 1
    BY <1>6, <1>9
  <2> QED
    BY <1>2, <1>5, <2>1
<1> QED
  BY <1>6, <1>7, <1>8, <1>9 DEF s

\* A list from which no timer is cut off holds them all: one that is missing and
\* of least rank would follow one that is not.
LEMMA ListFromCovers ==
  ASSUME NEW L, NEW x, NEW nxt, NEW rank, Ascends(L, x, nxt, rank),
         \A y \in L : y = x \/ \E z \in L : nxt[z] = y
  PROVE  ToSet(ListFrom(x, nxt)) = L
<1> DEFINE s == ListFrom(x, nxt)
<1>1. /\ s \in Seq(L) /\ Item(s, 1) = x
      /\ \A i \in 1..Len(s) : nxt[s[i]] = Item(s, i + 1)
  BY ListFromProperties
<1> HIDE DEF s
<1>2. Len(s) \in Nat /\ ToSet(s) = {s[i] : i \in 1..Len(s)} /\ ToSet(s) \subseteq L
  BY <1>1, ToSetElements
<1>3. Null \notin L
  BY TimersAssumption DEF Ascends, Addrs, Null
<1> SUFFICES ASSUME L \ ToSet(s) # {} PROVE FALSE
  BY <1>2 DEF s
<1> DEFINE Ranks == {rank[y] : y \in L \ ToSet(s)}
<1>4. Ranks # {} /\ Ranks \in SUBSET Nat
  BY DEF Ascends
<1>5. PICK y \in L \ ToSet(s) : \A z \in L \ ToSet(s) : rank[y] <= rank[z]
  <2>1. PICK n \in Ranks : \A k \in Ranks : n <= k
    <3> HIDE DEF Ranks
    <3> QED
      BY <1>4, MinProperties
  <2> QED
    BY <2>1
<1>6. y # x
  BY <1>1, <1>2, <1>3 DEF Item
<1>7. PICK z \in L : nxt[z] = y
  BY <1>6
<1>8. rank[z] < rank[y] /\ rank[z] \in Nat /\ rank[y] \in Nat
  BY <1>3, <1>7 DEF Ascends
<1>9. z \in ToSet(s)
  BY <1>5, <1>8
<1>10. PICK i \in 1..Len(s) : z = s[i]
  BY <1>2, <1>9
<1>11. Item(s, i + 1) = y
  BY <1>1, <1>7, <1>10
<1> QED
  BY <1>2, <1>3, <1>11 DEF Item

\* Pointers along which the timeouts do not fall make a sorted list.
LEMMA ListFromSorted ==
  ASSUME NEW L, NEW x, NEW nxt, NEW rank, Ascends(L, x, nxt, rank),
         NEW when \in [Addrs -> Nat],
         \A y \in L : nxt[y] # Null => when[y] <= when[nxt[y]]
  PROVE  LET s == ListFrom(x, nxt)
         IN  \A i, j \in 1..Len(s) : i < j => when[s[i]] <= when[s[j]]
<1> DEFINE s == ListFrom(x, nxt)
<1>1. s \in Seq(L) /\ \A i \in 1..Len(s) : nxt[s[i]] = Item(s, i + 1)
  BY ListFromProperties
<1> HIDE DEF s
<1>2. Len(s) \in Nat /\ (\A i \in 1..Len(s) : s[i] \in L) /\ Null \notin L
  BY <1>1, ElementOfSeq, LenProperties, TimersAssumption DEF Ascends, Addrs, Null
<1>3. \A y \in L : when[y] \in Nat
  BY DEF Ascends
<1>4. ASSUME NEW i \in 1..Len(s) - 1 PROVE when[s[i]] <= when[s[i + 1]]
  <2>1. i \in 1..Len(s) /\ i + 1 \in 1..Len(s)
    BY <1>2
  <2>2. nxt[s[i]] = s[i + 1] /\ s[i] \in L /\ s[i + 1] # Null
    BY <1>1, <1>2, <2>1 DEF Item
  <2> QED
    BY <2>2
<1> DEFINE Good == {d \in Nat : \A i \in 1..Len(s) :
                      i + d <= Len(s) => when[s[i]] <= when[s[i + d]]}
<1>5. 0 \in Good
  BY <1>2, <1>3
<1>6. ASSUME NEW d \in Nat, d \in Good PROVE d + 1 \in Good
  <2> SUFFICES ASSUME NEW i \in 1..Len(s), i + (d + 1) <= Len(s)
               PROVE  when[s[i]] <= when[s[i + (d + 1)]]
    BY <1>2
  <2>1. i + d \in 1..Len(s) - 1 /\ i + d \in 1..Len(s) /\ i + (d + 1) = (i + d) + 1
        /\ i + (d + 1) \in 1..Len(s)
    BY <1>2
  <2>2. when[s[i]] <= when[s[i + d]] /\ when[s[i + d]] <= when[s[(i + d) + 1]]
    BY <1>2, <1>4, <1>6, <2>1
  <2>3. when[s[i]] \in Nat /\ when[s[i + d]] \in Nat /\ when[s[i + (d + 1)]] \in Nat
    BY <1>2, <1>3, <2>1
  <2> QED
    BY <2>1, <2>2, <2>3
<1> HIDE DEF Good
<1>7. Nat \subseteq Good
  BY <1>5, <1>6, NatSetInduction
<1>8. ASSUME NEW i \in 1..Len(s), NEW j \in 1..Len(s), i < j PROVE when[s[i]] <= when[s[j]]
  <2>1. j - i \in Nat /\ i + (j - i) = j
    BY <1>2, <1>8
  <2>2. j - i \in Good
    BY <1>7, <2>1
  <2>3. i + (j - i) <= Len(s) => when[s[i]] <= when[s[i + (j - i)]]
    BY <2>2 DEF Good
  <2> QED
    BY <1>2, <2>1, <2>3
<1> QED
  BY <1>8 DEF s

-----------------------------------------------------------------------------
(***************************************************************************)
(* The tree of the linked timers.                                          *)
(***************************************************************************)

\* The edges along nxt and later lead from each timer of L to others of L, which
\* are due no earlier and have a larger rank; each timer is the root or the end of
\* one edge.
Tree(L, root, nxt, later, when, rank) ==
  /\ L \subseteq Addrs /\ root \in L \union {Null}
  /\ nxt \in [Pointers -> Pointers] /\ later \in [Pointers -> Pointers]
  /\ when \in [Addrs -> Nat] /\ rank \in [Addrs -> Nat]
  /\ \A x \in L : nxt[x] # Null =>
       /\ nxt[x] \in L /\ nxt[x] # root
       /\ rank[x] < rank[nxt[x]] /\ when[x] <= when[nxt[x]]
  /\ \A x \in L : later[x] # Null =>
       /\ later[x] \in L /\ later[x] # root
       /\ rank[x] < rank[later[x]] /\ when[x] <= when[later[x]]
  /\ \A x, y \in L :
       /\ nxt[x] = nxt[y] /\ nxt[x] # Null => x = y
       /\ later[x] = later[y] /\ later[x] # Null => x = y
       /\ nxt[x] # Null => nxt[x] # later[y]
  /\ \A y \in L : y = root \/ \E x \in L : nxt[x] = y \/ later[x] = y

IsTree(L, root, nxt, later, when) ==
  \E rank \in [Addrs -> Nat] : Tree(L, root, nxt, later, when, rank)

LEMMA NullProperties == NumTimers \in Nat /\ Null \notin Addrs /\ Pointers = Addrs \union {Null}
  BY TimersAssumption DEF Addrs, Null, Pointers

\* What is not linked does not matter.
LEMMA TreeFrame ==
  ASSUME NEW L, NEW root, NEW nxt, NEW later, NEW when,
         IsTree(L, root, nxt, later, when),
         NEW nxt2 \in [Pointers -> Pointers], NEW later2 \in [Pointers -> Pointers],
         NEW when2 \in [Addrs -> Nat],
         \A x \in L : nxt2[x] = nxt[x] /\ later2[x] = later[x] /\ when2[x] = when[x]
  PROVE  IsTree(L, root, nxt2, later2, when2)
<1>1. PICK rank \in [Addrs -> Nat] : Tree(L, root, nxt, later, when, rank)
  BY DEF IsTree
<1>2. Tree(L, root, nxt2, later2, when2, rank)
  BY <1>1 DEF Tree
<1> QED
  BY <1>2 DEF IsTree

\* A timer becomes the root in front of the old one.
LEMMA TreeFirst ==
  ASSUME NEW L, NEW root, NEW nxt, NEW later, NEW when,
         IsTree(L, root, nxt, later, when),
         NEW x \in Addrs \ L, nxt[x] = root, later[x] = Null,
         root # Null => when[x] <= when[root]
  PROVE  IsTree(L \union {x}, x, nxt, later, when)
<1>1. PICK rank \in [Addrs -> Nat] : Tree(L, root, nxt, later, when, rank)
  BY DEF IsTree
<1> DEFINE above == [y \in Addrs |-> IF y = x THEN 0 ELSE rank[y] + 1]
<1>2. above \in [Addrs -> Nat] /\ above[x] = 0 /\ \A y \in L : above[y] = rank[y] + 1
  BY <1>1 DEF Tree
<1> HIDE DEF above
<1>3. Tree(L \union {x}, x, nxt, later, when, above)
  BY <1>1, <1>2, NullProperties DEF Tree
<1> QED
  BY <1>2, <1>3 DEF IsTree

\* p->next = x, what came behind p being in x's hands.
LEMMA TreeLink ==
  ASSUME NEW L, NEW root, NEW nxt, NEW later, NEW when,
         IsTree(L, root, nxt, later, when),
         NEW p \in L, NEW x \in Addrs \ L, nxt[x] = Null, when[p] <= when[x],
         nxt[p] # Null => when[x] <= when[nxt[p]]
  PROVE  IsTree(L \union {x}, root, [nxt EXCEPT ![p] = x], [later EXCEPT ![x] = nxt[p]], when)
<1>1. PICK rank \in [Addrs -> Nat] : Tree(L, root, nxt, later, when, rank)
  BY DEF IsTree
<1> DEFINE nxt2 == [nxt EXCEPT ![p] = x]
           later2 == [later EXCEPT ![x] = nxt[p]]
           between == [y \in Addrs |-> IF y = x THEN 2 * rank[p] + 1 ELSE 2 * rank[y]]
<1>2. /\ between \in [Addrs -> Nat] /\ between[x] = 2 * rank[p] + 1
      /\ \A y \in L : between[y] = 2 * rank[y] /\ rank[y] \in Nat
  BY <1>1 DEF Tree
<1>3. /\ nxt2 \in [Pointers -> Pointers] /\ later2 \in [Pointers -> Pointers]
      /\ nxt2[p] = x /\ nxt2[x] = Null /\ \A y \in L : y # p => nxt2[y] = nxt[y]
      /\ later2[x] = nxt[p] /\ \A y \in L : later2[y] = later[y]
  BY <1>1, NullProperties DEF Tree
<1> HIDE DEF between, nxt2, later2
<1>4. ASSUME NEW y \in L \union {x}, nxt2[y] # Null
      PROVE  /\ nxt2[y] \in L \union {x} /\ nxt2[y] # root
             /\ between[y] < between[nxt2[y]] /\ when[y] <= when[nxt2[y]]
  BY <1>1, <1>2, <1>3, <1>4, NullProperties DEF Tree
<1>5. ASSUME NEW y \in L \union {x}, later2[y] # Null
      PROVE  /\ later2[y] \in L \union {x} /\ later2[y] # root
             /\ between[y] < between[later2[y]] /\ when[y] <= when[later2[y]]
  BY <1>1, <1>2, <1>3, <1>5, NullProperties DEF Tree
<1>6. ASSUME NEW y \in L \union {x}, NEW z \in L \union {x}
      PROVE  /\ nxt2[y] = nxt2[z] /\ nxt2[y] # Null => y = z
             /\ later2[y] = later2[z] /\ later2[y] # Null => y = z
             /\ nxt2[y] # Null => nxt2[y] # later2[z]
  BY <1>1, <1>3, NullProperties DEF Tree
<1>7. ASSUME NEW y \in L \union {x}
      PROVE  y = root \/ \E z \in L \union {x} : nxt2[z] = y \/ later2[z] = y
  BY <1>1, <1>3, NullProperties DEF Tree
<1>8. Tree(L \union {x}, root, nxt2, later2, when, between)
  BY <1>1, <1>2, <1>3, <1>4, <1>5, <1>6, <1>7 DEF Tree
<1> QED
  BY <1>2, <1>8 DEF IsTree, nxt2, later2

\* x->next = it.
LEMMA TreeJoin ==
  ASSUME NEW L, NEW root, NEW nxt, NEW later, NEW when,
         IsTree(L, root, nxt, later, when), NEW x \in L, nxt[x] = Null
  PROVE  IsTree(L, root, [nxt EXCEPT ![x] = later[x]], [later EXCEPT ![x] = Null], when)
<1>1. PICK rank \in [Addrs -> Nat] : Tree(L, root, nxt, later, when, rank)
  BY DEF IsTree
<1> DEFINE nxt2 == [nxt EXCEPT ![x] = later[x]]
           later2 == [later EXCEPT ![x] = Null]
<1>3. /\ nxt2 \in [Pointers -> Pointers] /\ later2 \in [Pointers -> Pointers]
      /\ nxt2[x] = later[x] /\ \A y \in L : y # x => nxt2[y] = nxt[y]
      /\ later2[x] = Null /\ \A y \in L : y # x => later2[y] = later[y]
  BY <1>1, NullProperties DEF Tree
<1> HIDE DEF nxt2, later2
<1>4. Tree(L, root, nxt2, later2, when, rank)
  BY <1>1, <1>3, NullProperties DEF Tree
<1> QED
  BY <1>1, <1>4 DEF IsTree, nxt2, later2

\* first_timer = x->next.
LEMMA TreeBehead ==
  ASSUME NEW L, NEW root, NEW nxt, NEW later, NEW when,
         IsTree(L, root, nxt, later, when), root # Null, later[root] = Null
  PROVE  IsTree(L \ {root}, nxt[root], nxt, later, when)
<1>1. PICK rank \in [Addrs -> Nat] : Tree(L, root, nxt, later, when, rank)
  BY DEF IsTree
<1>2. Tree(L \ {root}, nxt[root], nxt, later, when, rank)
  BY <1>1, NullProperties DEF Tree
<1> QED
  BY <1>1, <1>2 DEF IsTree

\* p->next = x->next.
LEMMA TreeUnlink ==
  ASSUME NEW L, NEW root, NEW nxt, NEW later, NEW when,
         IsTree(L, root, nxt, later, when),
         NEW p \in L, NEW x, x # Null, nxt[p] = x, later[x] = Null
  PROVE  /\ x \in L
         /\ IsTree(L \ {x}, root, [nxt EXCEPT ![p] = nxt[x]], later, when)
<1>1. PICK rank \in [Addrs -> Nat] : Tree(L, root, nxt, later, when, rank)
  BY DEF IsTree
<1> DEFINE nxt2 == [nxt EXCEPT ![p] = nxt[x]]
<1>2. x \in L /\ x # root /\ p # x /\ rank[p] < rank[x] /\ when[p] <= when[x]
  BY <1>1 DEF Tree
<1>3. /\ nxt2 \in [Pointers -> Pointers]
      /\ nxt2[p] = nxt[x] /\ \A y \in L : y # p => nxt2[y] = nxt[y]
  BY <1>1, <1>2, NullProperties DEF Tree
<1> HIDE DEF nxt2
<1>4. Tree(L \ {x}, root, nxt2, later, when, rank)
  <2>1. \A y \in L : rank[y] \in Nat /\ when[y] \in Nat
    BY <1>1 DEF Tree
  <2>2. ASSUME NEW y \in L \ {x}, nxt2[y] # Null
        PROVE  /\ nxt2[y] \in L \ {x} /\ nxt2[y] # root
               /\ rank[y] < rank[nxt2[y]] /\ when[y] <= when[nxt2[y]]
    BY <1>1, <1>2, <1>3, <2>1, <2>2, NullProperties DEF Tree
  <2>3. ASSUME NEW y \in L \ {x}, later[y] # Null
        PROVE  /\ later[y] \in L \ {x} /\ later[y] # root
               /\ rank[y] < rank[later[y]] /\ when[y] <= when[later[y]]
    BY <1>1, <1>2, <2>3 DEF Tree
  <2>4. ASSUME NEW y \in L \ {x}, NEW z \in L \ {x}
        PROVE  /\ nxt2[y] = nxt2[z] /\ nxt2[y] # Null => y = z
               /\ later[y] = later[z] /\ later[y] # Null => y = z
               /\ nxt2[y] # Null => nxt2[y] # later[z]
    BY <1>1, <1>2, <1>3 DEF Tree
  <2>5. ASSUME NEW y \in L \ {x}
        PROVE  y = root \/ \E z \in L \ {x} : nxt2[z] = y \/ later[z] = y
    <3>1. CASE y = nxt[x]
      BY <1>2, <1>3, <3>1
    <3>2. CASE y # nxt[x]
      BY <1>1, <1>2, <1>3, <3>2, NullProperties DEF Tree
    <3> QED
      BY <3>1, <3>2
  <2> QED
    BY <1>1, <1>3, <2>2, <2>3, <2>4, <2>5, <1>2 DEF Tree
<1> QED
  BY <1>1, <1>2, <1>4 DEF IsTree, nxt2

\* The pointers of a tree ascend.
LEMMA TreeAscends ==
  ASSUME NEW L, NEW root, NEW nxt, NEW later, NEW when, NEW rank,
         Tree(L, root, nxt, later, when, rank)
  PROVE  Ascends(L, root, nxt, rank)
  BY DEF Tree, Ascends

-----------------------------------------------------------------------------
(***************************************************************************)
(* What a timer leads to.                                                  *)
(***************************************************************************)

Edge(nxt, later, y, z) == z # Null /\ (nxt[y] = z \/ later[y] = z)

Closed(D, nxt, later) == \A y \in D, z \in Pointers : Edge(nxt, later, y, z) => z \in D

\* Whoever follows the edges from y comes to u: every set of timers of L with y
\* and all that follows its members holds u.
Leads(L, nxt, later, y, u) ==
  \A D \in SUBSET L : y \in D /\ Closed(D, nxt, later) => u \in D

\* An edge is still there, or it leads through a new timer, or its end is gone and
\* what came behind it follows.
Rerouted(L, nxt, later, L2, nxt2, later2) ==
  \A y \in L \intersect L2, z \in Pointers : Edge(nxt, later, y, z) =>
    \/ Edge(nxt2, later2, y, z)
    \/ \E x \in L2 : Edge(nxt2, later2, y, x) /\ Edge(nxt2, later2, x, z)
    \/ z \notin L2 /\ \A w \in Pointers : Edge(nxt, later, z, w) => Edge(nxt2, later2, y, w)

LEMMA TreeEdges ==
  ASSUME NEW L, NEW root, NEW nxt, NEW later, NEW when, IsTree(L, root, nxt, later, when)
  PROVE  /\ L \subseteq Pointers /\ L \subseteq Addrs
         /\ \A y \in L, z \in Pointers : Edge(nxt, later, y, z) => z \in L
  BY NullProperties DEF IsTree, Tree, Edge

LEMMA LeadsStill ==
  ASSUME NEW L, NEW root, NEW nxt, NEW later, NEW when, IsTree(L, root, nxt, later, when),
         NEW L2 \in SUBSET Pointers, NEW nxt2, NEW later2,
         Rerouted(L, nxt, later, L2, nxt2, later2),
         NEW y \in L \intersect L2, NEW u \in L \intersect L2, Leads(L, nxt, later, y, u)
  PROVE  Leads(L2, nxt2, later2, y, u)
<1> SUFFICES ASSUME NEW D2 \in SUBSET L2, y \in D2, Closed(D2, nxt2, later2)
             PROVE  u \in D2
  BY DEF Leads
<1> DEFINE D == (D2 \intersect L) \union
                {z \in L \ L2 : \E a \in D2 \intersect L : Edge(nxt, later, a, z)}
<1>1. L \subseteq Pointers /\ \A a \in L, z \in Pointers : Edge(nxt, later, a, z) => z \in L
  BY TreeEdges
<1>2. ASSUME NEW a \in D2 \intersect L, NEW z \in Pointers, Edge(nxt, later, a, z)
      PROVE  z \in D
  BY <1>1, <1>2 DEF Rerouted, Closed
<1>3. ASSUME NEW a \in L \ L2, NEW b \in D2 \intersect L, Edge(nxt, later, b, a),
             NEW z \in Pointers, Edge(nxt, later, a, z)
      PROVE  z \in D
  <2>1. a \in Pointers /\ z \in L
    BY <1>1, <1>3
  <2>2. ~Edge(nxt2, later2, b, a)
    BY <1>3, <2>1 DEF Closed
  <2>3. ~\E x \in L2 : Edge(nxt2, later2, b, x) /\ Edge(nxt2, later2, x, a)
    BY <1>3, <2>1 DEF Closed
  <2>4. Edge(nxt2, later2, b, z)
    BY <1>3, <2>1, <2>2, <2>3 DEF Rerouted
  <2>5. z \in D2
    BY <1>3, <2>4 DEF Closed
  <2> QED
    BY <2>1, <2>5
<1>4. Closed(D, nxt, later)
  BY <1>2, <1>3 DEF Closed
<1>5. D \in SUBSET L /\ y \in D
  OBVIOUS
<1>6. u \in D
  <2> HIDE DEF D
  <2> QED
    BY <1>4, <1>5 DEF Leads
<1> QED
  BY <1>6

\* The root leads to every timer: one that it does not lead to, of least rank, would
\* follow one to which it does.
LEMMA RootLeads ==
  ASSUME NEW L, NEW root, NEW nxt, NEW later, NEW when, IsTree(L, root, nxt, later, when),
         NEW u \in L
  PROVE  Leads(L, nxt, later, root, u)
<1> SUFFICES ASSUME NEW D \in SUBSET L, root \in D, Closed(D, nxt, later), u \notin D
             PROVE  FALSE
  BY DEF Leads
<1>1. PICK rank \in [Addrs -> Nat] : Tree(L, root, nxt, later, when, rank)
  BY DEF IsTree
<1> DEFINE Ranks == {rank[y] : y \in L \ D}
<1>2. Ranks # {} /\ Ranks \in SUBSET Nat
  BY <1>1 DEF Tree
<1>3. PICK n \in Ranks : \A k \in Ranks : n <= k
  <2> HIDE DEF Ranks
  <2> QED
    BY <1>2, MinProperties
<1>4. PICK y \in L \ D : \A z \in L \ D : rank[y] <= rank[z]
  BY <1>3
<1>5. y # Null /\ y \in Pointers
  BY <1>1, NullProperties DEF Tree
<1>6. PICK z \in L : Edge(nxt, later, z, y)
  BY <1>1, <1>5 DEF Tree, Edge
<1>7. rank[z] < rank[y] /\ rank[z] \in Nat /\ rank[y] \in Nat
  BY <1>1, <1>6 DEF Tree, Edge
<1>8. z \in D
  BY <1>4, <1>7
<1> QED
  BY <1>5, <1>6, <1>8 DEF Closed

-----------------------------------------------------------------------------
(***************************************************************************)
(* The inductive invariant.                                                *)
(***************************************************************************)

\* Where a client's timer is not linked and its t->next is NULL, where its timer is
\* not linked, and where it searches the list for its timer.
InsertPoints == {"insert", "compare", "it", "prev", "walk", "step", "empty", "head", "link"}

AsidePoints == {"insert", "compare", "it", "prev", "walk", "step", "empty", "head", "link",
                "first", "free"}

SearchPoints == {"check", "behind", "search"}

Points == {"run", "insert", "compare", "it", "prev", "walk", "step", "empty", "head", "link",
           "first", "next", "check", "behind", "search", "unlink_first", "unlink", "free"}

Types ==
  /\ ticks \in 0..MaxTicks /\ cut \in 0..ticks
  /\ first_timer \in Pointers /\ next \in [Pointers -> Pointers] /\ next[Null] = Null
  /\ timeout \in [Addrs -> Nat] /\ task \in [Addrs -> Tasks \union {NoTask}]
  /\ sleeper \in [Addrs -> BOOLEAN]
  /\ heap \subseteq Addrs /\ asleep \subseteq Tasks
  /\ cur_task \in (Tasks \ asleep) \union {NoTask}
  /\ pc \in [Clients -> Points] /\ own \in [Clients -> SUBSET Addrs]
  /\ t \in [Clients -> Pointers] /\ prev \in [Clients -> Pointers]
  /\ it \in [Clients -> Pointers]

Sleepers == {x \in heap : sleeper[x]}

\* A timer that is allocated is that of one sleep, or one client has it: the one
\* whose call works on it, if any. Before its first store t->next is NULL.
Owned ==
  /\ \A c \in Clients :
       /\ own[c] \subseteq heap \ Sleepers
       /\ \A d \in Clients : t[d] \notin own[c] /\ (c # d => own[c] \intersect own[d] = {})
       /\ IF pc[c] = "run" THEN t[c] = Null
          ELSE t[c] \in heap \ Sleepers /\ \A d \in Clients : d # c => t[d] # t[c]
       /\ pc[c] \in InsertPoints => next[t[c]] = Null
       /\ Cardinality(own[c]) + (IF pc[c] = "run" THEN 0 ELSE 1) <= MaxOwn
  /\ \A x \in heap \ Sleepers : \E c \in Clients : x \in own[c] \/ x = t[c]

\* The sleeping tasks and the timers of sleeps are one to one.
Sleeping ==
  /\ \A x \in Sleepers : task[x] \in asleep
  /\ \A x, y \in Sleepers : task[x] = task[y] => x = y
  /\ \A c \in asleep : \E x \in Sleepers : task[x] = c

\* What clients that have linked a timer hold of the list behind it.
Later(where, timer, rest) ==
  [x \in Pointers |-> IF \E c \in Clients : where[c] = "next" /\ timer[c] = x
                      THEN rest[CHOOSE c \in Clients : where[c] = "next" /\ timer[c] = x]
                      ELSE Null]

Linked == heap \ Aside

LinkedTree == IsTree(Linked, first_timer, next, Later(pc, t, it), timeout)

\* Whatever slept too long at a tick since the last cut was one of so many, and
\* every tick since has woken one of them.
Late(m) == {x \in Sleepers : timeout[x] <= m}

LateBound ==
  \A m \in cut..ticks :
    Late(m) # {} => Cardinality(Late(m)) + (ticks - m) <= Cardinality(Tasks)

\* A search that has not strayed stands at a linked timer from which every path
\* leads to the timer it is for.
Course(c) ==
  pc[c] \in SearchPoints /\ c \notin strayed =>
    /\ it[c] \in Linked /\ (pc[c] = "search" => it[c] # t[c])
    /\ Leads(Linked, next, Later(pc, t, it), it[c], t[c])

OnCourse == \A c \in Clients : Course(c)

TimersInv ==
  Types /\ Owned /\ Sleeping /\ LinkedTree /\ OnCourse /\ NullExplained /\ LateBound

-----------------------------------------------------------------------------
(***************************************************************************)
(* What the invariant says of the list.                                    *)
(***************************************************************************)

LEMMA LaterProperties ==
  ASSUME NEW where, NEW timer \in [Clients -> Pointers], NEW rest \in [Clients -> Pointers],
         \A c, d \in Clients :
           where[c] = "next" /\ where[d] = "next" /\ timer[c] = timer[d] => c = d
  PROVE  LET later == Later(where, timer, rest)
         IN  /\ later \in [Pointers -> Pointers]
             /\ \A c \in Clients : where[c] = "next" => later[timer[c]] = rest[c]
             /\ \A x \in Pointers :
                  (\A c \in Clients : where[c] = "next" => timer[c] # x) => later[x] = Null
<1> DEFINE later == Later(where, timer, rest)
           Who(x) == CHOOSE c \in Clients : where[c] = "next" /\ timer[c] = x
<1>1. ASSUME NEW x \in Pointers, NEW c \in Clients, where[c] = "next", timer[c] = x
      PROVE  later[x] = rest[c]
  <2>1. Who(x) \in Clients /\ where[Who(x)] = "next" /\ timer[Who(x)] = x
    BY <1>1
  <2>2. Who(x) = c
    BY <1>1, <2>1
  <2> QED
    BY <1>1, <2>2 DEF Later
<1>2. ASSUME NEW x \in Pointers, \A c \in Clients : where[c] = "next" => timer[c] # x
      PROVE  later[x] = Null
  BY <1>2 DEF Later
<1>3. later = [x \in Pointers |-> later[x]]
  BY DEF Later
<1> HIDE DEF later
<1>4. \A x \in Pointers : later[x] \in Pointers
  BY <1>1, <1>2 DEF Pointers
<1>5. later \in [Pointers -> Pointers]
  BY <1>3, <1>4
<1> QED
  BY <1>1, <1>2, <1>5 DEF later

\* A client whose call works on a timer is alone with it.
LEMMA OneAtTimer ==
  ASSUME Types, Owned, NEW c \in Clients, pc[c] # "run"
  PROVE  /\ t[c] \in Addrs /\ t[c] \in heap \ Sleepers /\ t[c] # Null
         /\ \A d \in Clients : t[d] = t[c] => d = c
  BY NullProperties DEF Types, Owned

LEMMA LaterNow ==
  ASSUME Types, Owned
  PROVE  LET later == Later(pc, t, it)
         IN  /\ later \in [Pointers -> Pointers]
             /\ \A c \in Splicing : later[t[c]] = it[c]
             /\ \A x \in Pointers : (\A c \in Splicing : t[c] # x) => later[x] = Null
<1>1. \A c, d \in Clients : pc[c] = "next" /\ pc[d] = "next" /\ t[c] = t[d] => c = d
  BY OneAtTimer
<1> QED
  BY <1>1, LaterProperties DEF Types, Splicing

\* The list leads through linked timers, each once and in the order of their
\* timeouts, and through all of them unless it is cut.
LEMMA ListFacts ==
  ASSUME TimersInv
  PROVE  /\ List \in Seq(Linked) /\ Item(List, 1) = first_timer
         /\ Len(List) \in Nat
         /\ \A i \in 1..Len(List) : List[i] \in Linked /\ next[List[i]] = Item(List, i + 1)
         /\ \A i, j \in 1..Len(List) :
              i < j => List[i] # List[j] /\ timeout[List[i]] <= timeout[List[j]]
         /\ ToSet(List) = {List[i] : i \in 1..Len(List)} /\ ToSet(List) \subseteq Linked
         /\ Splicing = {} => ToSet(List) = Linked
<1> DEFINE later == Later(pc, t, it)
<1>1. PICK rank \in [Addrs -> Nat] : Tree(Linked, first_timer, next, later, timeout, rank)
  BY DEF TimersInv, LinkedTree, IsTree
<1>2. Ascends(Linked, first_timer, next, rank)
  BY <1>1, TreeAscends
<1>3. /\ List \in Seq(Linked) /\ Item(List, 1) = first_timer
      /\ \A i \in 1..Len(List) : next[List[i]] = Item(List, i + 1)
      /\ \A i, j \in 1..Len(List) : i < j => rank[List[i]] < rank[List[j]]
  BY <1>2, ListFromProperties DEF List
<1>4. /\ Len(List) \in Nat /\ \A i \in 1..Len(List) : List[i] \in Linked
      /\ ToSet(List) = {List[i] : i \in 1..Len(List)} /\ ToSet(List) \subseteq Linked
  BY <1>3, ToSetElements, ElementOfSeq, LenProperties
<1>5. \A i, j \in 1..Len(List) : i < j => timeout[List[i]] <= timeout[List[j]]
  BY <1>1, <1>2, ListFromSorted DEF Tree, List
<1>6. \A i, j \in 1..Len(List) : i < j => List[i] # List[j]
  <2>1. \A y \in Linked : rank[y] \in Nat
    BY <1>1 DEF Tree
  <2> QED
    BY <1>3, <1>4, <2>1
<1>7. ASSUME Splicing = {} PROVE ToSet(List) = Linked
  <2>1. \A x \in Linked : later[x] = Null /\ x # Null
    BY <1>1, <1>7, LaterNow, NullProperties DEF TimersInv, Tree
  <2>2. \A y \in Linked : y = first_timer \/ \E x \in Linked : next[x] = y
    BY <1>1, <2>1 DEF Tree
  <2> QED
    BY <1>2, <2>2, ListFromCovers DEF List
<1> QED
  BY <1>3, <1>4, <1>5, <1>6, <1>7

LEMMA TypesOK == TimersInv => TimersTypeOK
<1> SUFFICES ASSUME TimersInv PROVE TimersTypeOK
  OBVIOUS
<1>1. \A c \in Clients : own[c] \subseteq heap /\ t[c] \in Pointers
  BY DEF TimersInv, Types, Owned
<1>2. ASSUME NEW c \in asleep PROVE Cardinality({x \in heap : sleeper[x] /\ task[x] = c}) = 1
  <2>1. PICK x \in Sleepers : task[x] = c /\ \A y \in Sleepers : task[y] = c => x = y
    BY DEF TimersInv, Sleeping
  <2>2. {y \in heap : sleeper[y] /\ task[y] = c} = {x}
    BY <2>1 DEF Sleepers
  <2> QED
    BY <2>2, FS_Singleton
<1>3. ASSUME NEW x \in heap, ~sleeper[x]
      PROVE  \E c \in Clients : x \in own[c] \/ (t[c] = x /\ pc[c] # "run")
  <2>1. PICK c \in Clients : x \in own[c] \/ x = t[c]
    BY <1>3 DEF TimersInv, Owned, Sleepers
  <2>2. x # Null
    BY NullProperties DEF TimersInv, Types
  <2> QED
    BY <2>1, <2>2 DEF TimersInv, Owned
<1> QED
  BY <1>1, <1>2, <1>3 DEF TimersInv, Types, TimersTypeOK

\* With every t->next set, the tree is the list.
LEMMA IntactOK == TimersInv => ListIntact
<1> SUFFICES ASSUME TimersInv, ~Clash PROVE
       /\ ToSet(Whole) = Linked
       /\ \A i, j \in 1..Len(Whole) :
            i < j => Whole[i] # Whole[j] /\ timeout[Whole[i]] <= timeout[Whole[j]]
  BY DEF ListIntact, Linked
<1> DEFINE later == Later(pc, t, it)
           whole == [x \in Pointers |->
                       IF \E c \in Splicing : t[c] = x
                       THEN it[CHOOSE c \in Splicing : t[c] = x] ELSE next[x]]
<1>0. /\ later \in [Pointers -> Pointers] /\ next \in [Pointers -> Pointers]
      /\ \A c \in Splicing : later[t[c]] = it[c]
      /\ \A x \in Pointers : (\A c \in Splicing : t[c] # x) => later[x] = Null
      /\ Splicing \subseteq Clients
  BY LaterNow DEF TimersInv, Types, Splicing
<1>1. PICK rank \in [Addrs -> Nat] : Tree(Linked, first_timer, next, later, timeout, rank)
  BY DEF TimersInv, LinkedTree, IsTree
<1>2. ASSUME NEW x \in Pointers
      PROVE  whole[x] = IF \E c \in Splicing : t[c] = x THEN later[x] ELSE next[x]
  <2>1. CASE \E c \in Splicing : t[c] = x
    <3> DEFINE d == CHOOSE c \in Splicing : t[c] = x
    <3>1. d \in Splicing /\ t[d] = x
      BY <2>1
    <3>2. whole[x] = it[d]
      BY <2>1
    <3> HIDE DEF d, whole
    <3> QED
      BY <1>0, <2>1, <3>1, <3>2
  <2>2. CASE ~\E c \in Splicing : t[c] = x
    BY <2>2
  <2> QED
    BY <2>1, <2>2
<1>3. whole = [x \in Pointers |-> whole[x]]
  OBVIOUS
<1> HIDE DEF whole, later
<1>4. whole \in [Pointers -> Pointers]
  BY <1>0, <1>2, <1>3
<1>5. ASSUME NEW x \in Linked
      PROVE  /\ x \in Pointers
             /\ whole[x] # Null => whole[x] = next[x] \/ whole[x] = later[x]
             /\ next[x] # Null => whole[x] = next[x]
             /\ later[x] # Null => whole[x] = later[x]
  <2>1. x \in Pointers
    BY <1>1, NullProperties DEF Tree
  <2>2. CASE \E c \in Splicing : t[c] = x
    <3>1. next[x] = Null /\ whole[x] = later[x]
      BY <1>2, <2>1, <2>2 DEF Clash
    <3> QED
      BY <2>1, <3>1
  <2>3. CASE ~\E c \in Splicing : t[c] = x
    BY <1>0, <1>2, <2>1, <2>3
  <2> QED
    BY <2>2, <2>3
<1>6. Ascends(Linked, first_timer, whole, rank)
  BY <1>1, <1>4, <1>5 DEF Tree, Ascends
<1>7. \A y \in Linked : y = first_timer \/ \E x \in Linked : whole[x] = y
  BY <1>1, <1>5, NullProperties DEF Tree
<1>8. \A y \in Linked : whole[y] # Null => timeout[y] <= timeout[whole[y]]
  BY <1>1, <1>5 DEF Tree
<1>9. Whole = ListFrom(first_timer, whole)
  BY DEF Whole, whole
<1> DEFINE s == ListFrom(first_timer, whole)
<1>10. /\ ToSet(s) = Linked /\ s \in Seq(Linked)
       /\ \A i, j \in 1..Len(s) : i < j => rank[s[i]] < rank[s[j]]
       /\ \A i, j \in 1..Len(s) : i < j => timeout[s[i]] <= timeout[s[j]]
  <2>1. timeout \in [Addrs -> Nat]
    BY <1>1 DEF Tree
  <2>2. ToSet(s) = Linked
    BY <1>6, <1>7, ListFromCovers
  <2>3. s \in Seq(Linked) /\ \A i, j \in 1..Len(s) : i < j => rank[s[i]] < rank[s[j]]
    BY <1>6, ListFromProperties
  <2>4. \A i, j \in 1..Len(s) : i < j => timeout[s[i]] <= timeout[s[j]]
    BY <1>6, <1>8, <2>1, ListFromSorted
  <2> QED
    BY <2>2, <2>3, <2>4
<1> HIDE DEF s
<1>11. \A i \in 1..Len(s) : rank[s[i]] \in Nat
  BY <1>1, <1>10, ElementOfSeq DEF Tree
<1> QED
  BY <1>9, <1>10, <1>11 DEF s

LEMMA PlaceProperties ==
  ASSUME Types, NEW list \in Seq(Addrs), NEW when \in Nat
  PROVE  LET k == Place(list, when)
         IN  /\ k \in 1..Len(list) + 1
             /\ \A i \in 1..Len(list) : i < k => timeout[list[i]] <= when
             /\ k # Len(list) + 1 => when <= timeout[list[k]]
<1> DEFINE S == {i \in 1..Len(list) + 1 : i = Len(list) + 1 \/ timeout[list[i]] > when}
           k == Min(S)
<1>1. Len(list) \in Nat /\ \A i \in 1..Len(list) : timeout[list[i]] \in Nat
  BY ElementOfSeq, LenProperties DEF Types
<1>2. S \in SUBSET Nat /\ S # {}
  BY <1>1
<1>3. k \in S /\ \A i \in S : k <= i
  <2> HIDE DEF S
  <2> QED
    BY <1>2, MinProperties
<1>4. Place(list, when) = k
  BY DEF Place
<1> HIDE DEF k
<1>5. \A i \in 1..Len(list) : i < k => timeout[list[i]] <= when
  BY <1>1, <1>3
<1> QED
  BY <1>1, <1>3, <1>4, <1>5

-----------------------------------------------------------------------------
(***************************************************************************)
(* There is room.                                                          *)
(***************************************************************************)

\* Timers of different sleeping tasks are no more than there are tasks.
LEMMA CountSleeps ==
  ASSUME NEW D, NEW A \in SUBSET Tasks, NEW who, \A x \in D : who[x] \in A,
         \A x, y \in D : who[x] = who[y] => x = y
  PROVE  /\ IsFiniteSet(D) /\ Cardinality(D) \in Nat
         /\ Cardinality(D) <= Cardinality(A) /\ Cardinality(A) <= Cardinality(Tasks)
         /\ Cardinality(Tasks) \in Nat
<1>1. IsFiniteSet(A) /\ Cardinality(A) <= Cardinality(Tasks) /\ Cardinality(Tasks) \in Nat
  BY FS_Subset, FS_CardinalityType, TimersAssumption
<1> DEFINE f == [x \in D |-> who[x]]
<1>2. f \in Injection(D, A)
  BY DEF Injection, IsInjective
<1>3. IsFiniteSet(D) /\ Cardinality(D) <= Cardinality(A)
  BY <1>1, <1>2, FS_Injection
<1> QED
  BY <1>1, <1>3, FS_CardinalityType

\* Sets of M elements at most, one for each client, have so many elements.
LEMMA CountHeld ==
  ASSUME NEW M \in Nat, NEW held, NEW D, IsFiniteSet(Clients),
         \A c \in Clients : IsFiniteSet(held[c]) /\ Cardinality(held[c]) <= M,
         \A x \in D : \E c \in Clients : x \in held[c]
  PROVE  IsFiniteSet(D) /\ Cardinality(D) <= Cardinality(Clients) * M
<1> DEFINE Nth(c) == CHOOSE b : b \in Bijection(1..Cardinality(held[c]), held[c])
           Of(x) == CHOOSE c \in Clients : x \in held[c]
           Pos(x) == CHOOSE k \in 1..M : Nth(Of(x))[k] = x
           f == [x \in D |-> <<Of(x), Pos(x)>>]
           T == Clients \X (1..M)
<1>1. ASSUME NEW c \in Clients, NEW x \in held[c] PROVE \E k \in 1..M : Nth(c)[k] = x
  <2>1. Cardinality(held[c]) \in Nat /\ Cardinality(held[c]) <= M
    BY FS_CardinalityType
  <2>2. ExistsBijection(1..Cardinality(held[c]), held[c])
    BY FS_CardinalityType
  <2>3. Nth(c) \in Bijection(1..Cardinality(held[c]), held[c])
    BY <2>2 DEF ExistsBijection
  <2> HIDE DEF Nth
  <2>4. \E k \in 1..Cardinality(held[c]) : Nth(c)[k] = x
    BY <2>3 DEF Bijection, Surjection
  <2> QED
    BY <2>1, <2>4
<1> HIDE DEF Nth
<1>2. ASSUME NEW x \in D PROVE Of(x) \in Clients /\ Pos(x) \in 1..M /\ Nth(Of(x))[Pos(x)] = x
  <2>1. Of(x) \in Clients /\ x \in held[Of(x)]
    OBVIOUS
  <2> HIDE DEF Of
  <2> QED
    BY <1>1, <2>1
<1> HIDE DEF Of, Pos
<1>3. f \in Injection(D, T)
  <2>1. f \in [D -> T]
    BY <1>2
  <2>2. ASSUME NEW x \in D, NEW y \in D, f[x] = f[y] PROVE x = y
    <3>1. Of(x) = Of(y) /\ Pos(x) = Pos(y)
      BY <2>2
    <3> QED
      BY <1>2, <3>1
  <2> QED
    BY <2>1, <2>2 DEF Injection, IsInjective
<1>4. IsFiniteSet(T) /\ Cardinality(T) = Cardinality(Clients) * M
  <2>1. IsFiniteSet(1..M) /\ Cardinality(1..M) = M
    <3>1. 1 \in Int /\ M \in Int
      OBVIOUS
    <3>2. IsFiniteSet(1..M) /\ Cardinality(1..M) = IF 1 > M THEN 0 ELSE M - 1 + 1
      BY <3>1, FS_Interval
    <3> QED
      BY <3>2
  <2> QED
    BY <2>1, FS_Product
<1> HIDE DEF f, T
<1> QED
  BY <1>3, <1>4, FS_Injection

\* Whoever has the hart does not sleep: malloc finds room for one more timer.
LEMMA RoomForOne ==
  ASSUME TimersInv, cur_task \in Tasks
  PROVE  Allocated \in Addrs \ heap
<1> DEFINE held == [c \in Clients |-> own[c] \union (IF pc[c] = "run" THEN {} ELSE {t[c]})]
           N == heap \ Sleepers
<1>1. IsFiniteSet(Addrs) /\ Cardinality(Addrs) = NumTimers /\ NumTimers \in Nat
  <2>1. 1 \in Int /\ NumTimers \in Nat /\ NumTimers \in Int
    BY NullProperties
  <2>2. IsFiniteSet(Addrs) /\ Cardinality(Addrs) = IF 1 > NumTimers THEN 0 ELSE NumTimers - 1 + 1
    BY <2>1, FS_Interval DEF Addrs
  <2> QED
    BY <2>1, <2>2
<1>2. /\ IsFiniteSet(Sleepers) /\ Cardinality(Sleepers) \in Nat
      /\ Cardinality(Sleepers) < Cardinality(Tasks) /\ Cardinality(Tasks) \in Nat
  <2> DEFINE A == Tasks \ {cur_task}
  <2>1. \A x \in Sleepers : task[x] \in A
    <3>1. cur_task \notin asleep /\ asleep \subseteq Tasks
      BY TimersAssumption DEF TimersInv, Types
    <3>2. \A x \in Sleepers : task[x] \in asleep
      BY DEF TimersInv, Sleeping
    <3> QED
      BY <3>1, <3>2
  <2>2. \A x, y \in Sleepers : task[x] = task[y] => x = y
    BY DEF TimersInv, Sleeping
  <2>3. Cardinality(A) = Cardinality(Tasks) - 1
    BY FS_RemoveElement, TimersAssumption
  <2>4. /\ IsFiniteSet(Sleepers) /\ Cardinality(Sleepers) \in Nat
        /\ Cardinality(Sleepers) <= Cardinality(A) /\ Cardinality(Tasks) \in Nat
    <3> HIDE DEF A
    <3>1. A \in SUBSET Tasks
      BY DEF A
    <3> QED
      BY <2>1, <2>2, <3>1, CountSleeps
  <2> QED
    BY <2>3, <2>4
<1>3. IsFiniteSet(N) /\ Cardinality(N) <= Cardinality(Clients) * MaxOwn
  <2>1. ASSUME NEW c \in Clients PROVE IsFiniteSet(held[c]) /\ Cardinality(held[c]) <= MaxOwn
    <3>1. IsFiniteSet(own[c]) /\ Cardinality(own[c]) \in Nat
      BY <1>1, FS_Subset, FS_CardinalityType DEF TimersInv, Types
    <3>2. Cardinality(own[c]) + (IF pc[c] = "run" THEN 0 ELSE 1) <= MaxOwn
      BY DEF TimersInv, Owned
    <3>5. held[c] = own[c] \union (IF pc[c] = "run" THEN {} ELSE {t[c]})
      OBVIOUS
    <3> HIDE DEF held
    <3>3. CASE pc[c] = "run"
      <4>1. held[c] = own[c]
        BY <3>3, <3>5
      <4> QED
        BY <3>1, <3>2, <3>3, <4>1
    <3>4. CASE pc[c] # "run"
      <4>1. held[c] = own[c] \union {t[c]}
        BY <3>4, <3>5
      <4>2. IsFiniteSet(held[c]) /\ Cardinality(held[c]) <= Cardinality(own[c]) + 1
        <5>1. /\ IsFiniteSet(own[c] \union {t[c]})
              /\ Cardinality(own[c] \union {t[c]}) =
                   IF t[c] \in own[c] THEN Cardinality(own[c]) ELSE Cardinality(own[c]) + 1
          BY <3>1, FS_AddElement
        <5> QED
          BY <3>1, <4>1, <5>1
      <4>3. Cardinality(held[c]) \in Nat /\ MaxOwn \in Nat
        BY <4>2, FS_CardinalityType, TimersAssumption
      <4> QED
        BY <3>1, <3>2, <3>4, <4>2, <4>3
    <3> QED
      BY <3>3, <3>4
  <2>2. \A x \in N : \E c \in Clients : x \in held[c]
    <3>1. \A x \in N : x # Null /\ \E c \in Clients : x \in own[c] \/ x = t[c]
      BY NullProperties DEF TimersInv, Types, Owned
    <3>2. \A c \in Clients : t[c] # Null => pc[c] # "run"
      BY DEF TimersInv, Owned
    <3> QED
      BY <3>1, <3>2
  <2>3. IsFiniteSet(Clients) /\ MaxOwn \in Nat
    BY FS_Subset, TimersAssumption
  <2> HIDE DEF held, N
  <2> QED
    BY <2>1, <2>2, <2>3, CountHeld
<1>4. Addrs \ heap # {}
  <2> SUFFICES ASSUME heap = Addrs PROVE FALSE
    BY DEF TimersInv, Types
  <2>1. Addrs = Sleepers \union N
    BY DEF Sleepers
  <2>2. /\ Cardinality(Addrs) = Cardinality(Sleepers) + Cardinality(N) - Cardinality(Sleepers \cap N)
        /\ Cardinality(N) \in Nat /\ Cardinality(Sleepers \cap N) \in Nat
    <3> HIDE DEF N
    <3> QED
      BY <1>2, <1>3, <2>1, FS_Union, FS_CardinalityType, FS_Subset
  <2>3. Cardinality(Clients) \in Nat
    BY FS_Subset, FS_CardinalityType, TimersAssumption
  <2>4. NumTimers >= Cardinality(Tasks) + MaxOwn * Cardinality(Clients)
    BY TimersAssumption
  <2>5. MaxOwn * Cardinality(Clients) = Cardinality(Clients) * MaxOwn
    BY <2>3, TimersAssumption
  <2>6. Cardinality(Clients) * MaxOwn \in Nat
    BY <2>3, TimersAssumption
  <2> HIDE DEF N
  <2> QED
    BY <1>1, <1>2, <1>3, <2>2, <2>4, <2>5, <2>6
<1>5. Addrs \ heap \in SUBSET Nat
  BY <1>1 DEF Addrs
<1> QED
  BY <1>4, <1>5, MinProperties DEF Allocated

-----------------------------------------------------------------------------
(***************************************************************************)
(* Traps.                                                                  *)
(***************************************************************************)

\* No client takes a step: the timers aside stay there, and neither a client's
\* timer nor the pointer in a new one changes.
LEMMA OwnedFrame ==
  ASSUME Types, Owned, UNCHANGED localVars,
         heap' \ Sleepers' = heap \ Sleepers, Aside \subseteq heap,
         \A x \in Aside : next'[x] = next[x]
  PROVE  Owned'
<1> USE DEF localVars
<1>1. ASSUME NEW c \in Clients, pc[c] \in InsertPoints
      PROVE  next'[t'[c]] = Null
  <2>1. t[c] \in Aside
    BY <1>1 DEF Aside, InsertPoints
  <2> QED
    BY <1>1, <2>1 DEF Owned
<1> QED
  BY <1>1 DEF Owned

LEMMA AsideFacts ==
  ASSUME Types, Owned
  PROVE  /\ Aside \subseteq heap \ Sleepers /\ Sleepers \subseteq Linked
         /\ Linked \subseteq heap /\ heap \subseteq Addrs /\ Null \notin Addrs
<1>1. Aside \subseteq heap \ Sleepers
  BY OneAtTimer DEF Aside
<1> QED
  BY <1>1, NullProperties DEF Linked, Types, Sleepers

\* A search that stays where it is stays on its course, wherever its timer stands.
LEMMA CourseKept ==
  ASSUME TimersInv, NEW L2 \in SUBSET Addrs, L2 = Linked',
         NEW after, after = Later(pc, t, it)',
         Rerouted(Linked, next, Later(pc, t, it), L2, next', after),
         NEW c \in Clients,
         pc'[c] \in SearchPoints /\ c \notin strayed' =>
           /\ pc[c] \in SearchPoints /\ c \notin strayed /\ it'[c] = it[c] /\ t'[c] = t[c]
           /\ it[c] \in L2 /\ t[c] \in L2 /\ (pc'[c] = "search" => it[c] # t[c])
  PROVE  Course(c)'
<1> SUFFICES ASSUME pc'[c] \in SearchPoints, c \notin strayed'
             PROVE  Leads(L2, next', after, it[c], t[c])
  BY DEF Course
<1>1. /\ it[c] \in Linked /\ it[c] \in L2 /\ t[c] \in L2 /\ pc[c] \in SearchPoints
      /\ Leads(Linked, next, Later(pc, t, it), it[c], t[c])
  BY DEF TimersInv, OnCourse, Course
<1>2. t[c] \in Linked
  <2>1. t[c] \in heap /\ \A d \in Clients : t[d] = t[c] => d = c
    BY <1>1, OneAtTimer DEF TimersInv, SearchPoints
  <2> QED
    BY <1>1, <2>1 DEF Linked, Aside, SearchPoints
<1>3. IsTree(Linked, first_timer, next, Later(pc, t, it), timeout) /\ L2 \in SUBSET Pointers
  BY NullProperties DEF TimersInv, LinkedTree
<1> QED
  BY <1>1, <1>2, <1>3, LeadsStill

\* A search stands at no timer that has yet to be linked.
LEMMA SearchLinked ==
  ASSUME TimersInv, NEW c \in Clients, pc[c] \in SearchPoints
  PROVE  /\ t[c] \in Linked
         /\ c \notin strayed => it[c] \in Linked /\ (pc[c] = "search" => it[c] # t[c])
<1>1. t[c] \in heap /\ \A d \in Clients : t[d] = t[c] => d = c
  BY OneAtTimer DEF TimersInv, SearchPoints
<1> QED
  BY <1>1 DEF Linked, Aside, SearchPoints, TimersInv, OnCourse, Course

\* Inside a trap no search moves.
LEMMA TrapCourse ==
  ASSUME TimersInv, UNCHANGED localVars, NEW L2 \in SUBSET Addrs, L2 = Linked',
         Rerouted(Linked, next, Later(pc, t, it), L2, next', Later(pc, t, it)),
         \A c \in Clients : pc[c] \in SearchPoints /\ c \notin strayed' =>
           c \notin strayed /\ it[c] \in L2 /\ t[c] \in L2
  PROVE  OnCourse'
<1> SUFFICES ASSUME NEW c \in Clients PROVE Course(c)'
  BY DEF OnCourse
<1>1. pc' = pc /\ t' = t /\ it' = it
  BY DEF localVars
<1>2. Later(pc, t, it)' = Later(pc, t, it)
  BY <1>1
<1>3. PICK after : after = Later(pc, t, it)'
  OBVIOUS
<1>4. Rerouted(Linked, next, Later(pc, t, it), L2, next', after)
  BY <1>2, <1>3
<1>5. pc'[c] \in SearchPoints /\ c \notin strayed' =>
        /\ pc[c] \in SearchPoints /\ c \notin strayed /\ it'[c] = it[c] /\ t'[c] = t[c]
        /\ it[c] \in L2 /\ t[c] \in L2 /\ (pc'[c] = "search" => it[c] # t[c])
  BY <1>1, SearchLinked
<1> QED
  BY <1>3, <1>4, <1>5, CourseKept

\* insert_timer inside a trap: the timer is linked as by one of the two ways of a
\* client, with nothing in between.
LEMMA InsertKeepsTree ==
  ASSUME TimersInv, NEW x \in Addrs \ heap, NEW when \in Nat, InsertTimer(x, when),
         timeout' = [timeout EXCEPT ![x] = when], heap' = heap \union {x},
         UNCHANGED <<localVars, strayed>>
  PROVE  /\ LinkedTree' /\ OnCourse'
         /\ first_timer' \in Pointers /\ next' \in [Pointers -> Pointers] /\ next'[Null] = Null
         /\ \A y \in Addrs : y \notin Linked \union {x} => next'[y] = next[y]
<1> DEFINE later == Later(pc, t, it)
           free == [next EXCEPT ![x] = Null]
           k == Place(List, when)
<1>0. Types /\ Owned /\ LinkedTree
  BY DEF TimersInv
<1>w. PICK w : w = timeout'
  OBVIOUS
<1>1. /\ x \notin Linked /\ x \notin Aside /\ x \in Pointers /\ x # Null
      /\ Linked' = Linked \union {x} /\ Linked \subseteq Addrs
      /\ timeout \in [Addrs -> Nat] /\ w \in [Addrs -> Nat] /\ w[x] = when
      /\ \A y \in Linked : w[y] = timeout[y]
      /\ next \in [Pointers -> Pointers] /\ next[Null] = Null /\ first_timer \in Pointers
  <2>1. x # Null /\ x \in Pointers /\ x \notin Aside /\ x \notin Linked /\ Linked \subseteq Addrs
    BY <1>0, AsideFacts, NullProperties
  <2>2. Aside' = Aside
    BY DEF Aside, localVars
  <2> QED
    BY <1>0, <1>w, <2>1, <2>2 DEF Linked, Types
<1>2. /\ later \in [Pointers -> Pointers] /\ later[x] = Null
      /\ Later(pc, t, it)' = later
  <2>1. \A c \in Splicing : t[c] # x
    BY <1>0, OneAtTimer DEF Splicing
  <2>2. later \in [Pointers -> Pointers] /\ later[x] = Null
    BY <1>0, <1>1, <2>1, LaterNow
  <2>3. Later(pc, t, it)' = later
    BY DEF localVars
  <2> QED
    BY <2>2, <2>3
<1>8. IsTree(Linked, first_timer, next, later, timeout)
  BY <1>0 DEF LinkedTree
<1>3. /\ k \in 1..Len(List) + 1 /\ Len(List) \in Nat
      /\ \A i \in 1..Len(List) : i < k => timeout[List[i]] <= when
      /\ k # Len(List) + 1 => when <= timeout[List[k]]
  <2>1. List \in Seq(Addrs) /\ Len(List) \in Nat
    BY <1>1, ListFacts
  <2> QED
    BY <1>0, <2>1, PlaceProperties
<1>4. /\ first_timer' = IF k = 1 THEN x ELSE first_timer
      /\ next' = [a \in Pointers |-> CASE a = x -> Item(List, k)
                                    [] a = Item(List, k - 1) /\ a # Null -> x
                                    [] OTHER -> next[a]]
  BY DEF InsertTimer
<1>5. /\ Item(List, 1) = first_timer
      /\ \A i \in 1..Len(List) : List[i] \in Linked /\ next[List[i]] = Item(List, i + 1)
  BY ListFacts
<1> HIDE DEF later, k
<1>9. OnCourse'
  <2> DEFINE L2 == Linked \union {x}
             nx == [a \in Pointers |-> CASE a = x -> Item(List, k)
                                       [] a = Item(List, k - 1) /\ a # Null -> x
                                       [] OTHER -> next[a]]
  <2>1. nx[x] = Item(List, k)
    <3>1. x # Item(List, k - 1)
      BY <1>1, <1>5 DEF Item
    <3> QED
      BY <1>1, <3>1
  <2>2. ASSUME NEW y \in Linked
        PROVE  /\ y = Item(List, k - 1) => next[y] = Item(List, k) /\ nx[y] = x
               /\ y # Item(List, k - 1) => nx[y] = next[y]
    <3>1. y # x /\ y \in Pointers /\ y # Null
      BY <1>1, NullProperties
    <3>2. CASE y = Item(List, k - 1)
      <4>1. k - 1 \in 1..Len(List) /\ y = List[k - 1] /\ (k - 1) + 1 = k
        BY <1>3, <3>1, <3>2 DEF Item
      <4> QED
        BY <1>5, <3>1, <3>2, <4>1
    <3>3. CASE y # Item(List, k - 1)
      BY <3>1, <3>3
    <3> QED
      BY <3>2, <3>3
  <2>3. next' = nx
    BY <1>4
  <2> HIDE DEF nx
  <2>4. Rerouted(Linked, next, later, L2, nx, later)
    BY <1>1, <2>1, <2>2 DEF Rerouted, Edge
  <2>5. L2 \in SUBSET Addrs /\ L2 = Linked'
    BY <1>1
  <2>6. \A c \in Clients : pc[c] \in SearchPoints /\ c \notin strayed' =>
          c \notin strayed /\ it[c] \in L2 /\ t[c] \in L2
    BY SearchLinked
  <2> HIDE DEF L2
  <2> QED
    BY <2>3, <2>4, <2>5, <2>6, TrapCourse DEF later
<1>6. CASE k = 1
  <2> DEFINE front == [next EXCEPT ![x] = first_timer]
  <2>1. Item(List, k - 1) = Null /\ next' = front /\ first_timer' = x
    <3>1. Item(List, k - 1) = Null
      BY <1>3, <1>6 DEF Item
    <3>2. next' = front
      BY <1>1, <1>4, <1>5, <1>6, <3>1
    <3> QED
      BY <1>4, <1>6, <3>1, <3>2
  <2>2. /\ front \in [Pointers -> Pointers] /\ front[x] = first_timer
        /\ \A y \in Pointers : y # x => front[y] = next[y]
    BY <1>1
  <2>3. IsTree(Linked, first_timer, front, later, w)
    <3>1. \A y \in Linked : front[y] = next[y] /\ w[y] = timeout[y]
      BY <1>1, <2>2, NullProperties
    <3> HIDE DEF front
    <3> QED
      BY <1>1, <1>2, <1>8, <2>2, <3>1, TreeFrame
  <2>4. first_timer # Null => w[x] <= w[first_timer]
    <3> SUFFICES ASSUME first_timer # Null PROVE when <= w[first_timer]
      BY <1>1
    <3>1. 1 \in 1..Len(List) /\ first_timer = List[1] /\ 1 # Len(List) + 1
      BY <1>3, <1>5 DEF Item
    <3>2. first_timer \in Linked /\ when <= timeout[first_timer]
      BY <1>3, <1>5, <1>6, <3>1
    <3> QED
      BY <1>1, <3>2
  <2>5. IsTree(Linked \union {x}, x, front, later, w)
    BY <1>1, <1>2, <2>2, <2>3, <2>4, TreeFirst
  <2>6. \A y \in Addrs : y \notin Linked \union {x} => next'[y] = next[y]
    BY <2>1, <2>2, NullProperties
  <2> QED
    BY <1>1, <1>2, <1>9, <1>w, <2>1, <2>2, <2>5, <2>6 DEF LinkedTree
<1>7. CASE k # 1
  <2> DEFINE p == List[k - 1]
             link == [free EXCEPT ![p] = x]
             held == [later EXCEPT ![x] = free[p]]
             join == [link EXCEPT ![x] = held[x]]
  <2>1. /\ k - 1 \in 1..Len(List) /\ Item(List, k - 1) = p /\ p \in Linked
        /\ next[p] = Item(List, k) /\ timeout[p] <= when /\ p \in Addrs /\ p # x /\ p # Null
        /\ next[p] # Null => when <= timeout[next[p]]
    <3>1. k - 1 \in 1..Len(List) /\ (k - 1) + 1 = k /\ k - 1 < k
      BY <1>3, <1>7
    <3>2. next[p] # Null => k # Len(List) + 1 /\ next[p] = List[k]
      BY <1>3, <1>5, <3>1 DEF Item
    <3> QED
      BY <1>1, <1>3, <1>5, <3>1, <3>2, NullProperties DEF Item
  <2> HIDE DEF p
  <2>2. IsTree(Linked, first_timer, free, later, w)
    <3>1. /\ free \in [Pointers -> Pointers]
          /\ \A y \in Linked : free[y] = next[y] /\ w[y] = timeout[y]
      BY <1>1, NullProperties
    <3> HIDE DEF free
    <3> QED
      BY <1>1, <1>2, <1>8, <3>1, TreeFrame
  <2>3. /\ free[x] = Null /\ free[p] = next[p] /\ free \in [Pointers -> Pointers]
        /\ w[p] <= w[x] /\ (free[p] # Null => w[x] <= w[free[p]])
    <3>1. next[p] # Null => next[p] \in Linked
      BY <1>0, <2>1 DEF LinkedTree, IsTree, Tree
    <3> QED
      BY <1>1, <2>1, <3>1, NullProperties
  <2> HIDE DEF free
  <2>4. IsTree(Linked \union {x}, first_timer, link, held, w)
    BY <1>1, <2>1, <2>2, <2>3, TreeLink
  <2>5. link[x] = Null /\ held[x] = next[p]
    BY <1>1, <1>2, <2>1, <2>3
  <2>12. /\ link \in [Pointers -> Pointers] /\ held \in [Pointers -> Pointers]
         /\ \A y \in Pointers : /\ y # x => held[y] = later[y]
                               /\ link[y] = IF y = p THEN x ELSE free[y]
    <3>1. p \in Pointers /\ x \in Pointers /\ free[p] \in Pointers
      BY <1>1, <2>1, <2>3, NullProperties
    <3> QED
      BY <1>2, <2>3, <3>1
  <2> HIDE DEF link, held
  <2> DEFINE done == [held EXCEPT ![x] = Null]
  <2>6. IsTree(Linked \union {x}, first_timer, join, done, w)
    BY <2>4, <2>5, TreeJoin
  <2>7. next' = join
    <3>1. \A y \in Pointers : y # x => free[y] = next[y]
      BY <1>1 DEF free
    <3> QED
      BY <1>1, <1>4, <2>1, <2>3, <2>5, <2>12, <3>1
  <2>8. next' \in [Pointers -> Pointers]
    BY <1>1, <1>2, <2>5, <2>7, <2>12
  <2>9. IsTree(Linked', first_timer', next', later, w)
    <3>1. \A y \in Linked \union {x} : later[y] = done[y] /\ next'[y] = join[y]
      BY <1>1, <1>2, <2>7, <2>12, NullProperties
    <3> HIDE DEF done, join
    <3>2. IsTree(Linked \union {x}, first_timer, next', later, w)
      BY <1>1, <1>2, <2>6, <2>8, <3>1, TreeFrame
    <3> QED
      BY <1>1, <1>4, <1>7, <3>2
  <2>10. \A y \in Pointers : y \notin Linked \union {x} => next'[y] = next[y]
    BY <1>1, <1>4, <2>1
  <2>11. next'[Null] = Null
    BY <1>1, <1>4, <2>1, NullProperties
  <2> QED
    BY <1>1, <1>2, <1>4, <1>7, <1>9, <1>w, <2>8, <2>9, <2>10, <2>11, NullProperties DEF LinkedTree
<1> QED
  BY <1>6, <1>7

\* timer_delete inside a trap.
LEMMA DeleteKeepsTree ==
  ASSUME TimersInv, NEW i \in 1..Len(List), List[i] \in Sleepers, DeleteTimer(List, i),
         UNCHANGED localVars, strayed' = strayed \union AtTimer(List[i])
  PROVE  /\ LinkedTree' /\ OnCourse'
         /\ first_timer' \in Pointers /\ next' \in [Pointers -> Pointers] /\ next'[Null] = Null
         /\ \A y \in Addrs : y \notin Linked => next'[y] = next[y]
<1> DEFINE later == Later(pc, t, it)
           x == List[i]
<1>0. Types /\ Owned /\ LinkedTree
  BY DEF TimersInv
<1>w. PICK w, nx, f : w = timeout' /\ nx = next' /\ f = first_timer'
  OBVIOUS
<1>1. /\ x \in Linked /\ x \in Pointers /\ x # Null /\ Linked \subseteq Addrs
      /\ Linked' = Linked \ {x}
      /\ timeout \in [Addrs -> Nat] /\ w \in [Addrs -> Nat]
      /\ \A y \in Linked \ {x} : w[y] = timeout[y]
      /\ next \in [Pointers -> Pointers] /\ next[Null] = Null /\ first_timer \in Pointers
  <2>1. x # Null /\ x \in Pointers /\ x \in Linked /\ x \in heap /\ Linked \subseteq Addrs
    BY <1>0, AsideFacts, NullProperties
  <2>2. Aside' = Aside
    BY DEF Aside, localVars
  <2>3. heap' = heap \ {x} /\ timeout' = [timeout EXCEPT ![x] = 0]
    BY DEF DeleteTimer, FreeTimer
  <2> HIDE DEF x
  <2>4. w \in [Addrs -> Nat] /\ \A y \in Linked \ {x} : w[y] = timeout[y]
    BY <1>0, <1>w, <2>1, <2>3 DEF Types
  <2> QED
    BY <1>0, <2>1, <2>2, <2>3, <2>4 DEF Linked, Types
<1>2. later \in [Pointers -> Pointers] /\ later[x] = Null /\ Later(pc, t, it)' = later
  <2>1. \A c \in Splicing : t[c] # x
    BY <1>0, OneAtTimer DEF Splicing
  <2>2. later \in [Pointers -> Pointers] /\ later[x] = Null
    BY <1>0, <1>1, <2>1, LaterNow
  <2>3. Later(pc, t, it)' = later
    BY DEF localVars
  <2> QED
    BY <2>2, <2>3
<1>3. IsTree(Linked, first_timer, next, later, timeout)
  BY <1>0 DEF LinkedTree
<1>4. /\ f = IF i = 1 THEN next[x] ELSE first_timer
      /\ nx = IF i = 1 THEN [next EXCEPT ![x] = Null]
              ELSE [[next EXCEPT ![List[i - 1]] = next[x]] EXCEPT ![x] = Null]
  BY <1>w DEF DeleteTimer, FreeTimer
<1>5. /\ Item(List, 1) = first_timer /\ Len(List) \in Nat
      /\ \A j \in 1..Len(List) : List[j] \in Linked /\ next[List[j]] = Item(List, j + 1)
  BY ListFacts
<1>6. x = Item(List, i)
  BY DEF Item
<1>10. \A c \in Clients : pc[c] \in SearchPoints /\ c \notin strayed' =>
         c \notin strayed /\ it[c] \in Linked \ {x} /\ t[c] \in Linked \ {x}
  <2> SUFFICES ASSUME NEW c \in Clients, pc[c] \in SearchPoints, c \notin strayed'
               PROVE  c \notin strayed /\ it[c] \in Linked \ {x} /\ t[c] \in Linked \ {x}
    OBVIOUS
  <2>1. c \notin strayed /\ it[c] # x
    BY DEF AtTimer, SearchPoints
  <2>2. t[c] # x
    BY <1>0, OneAtTimer DEF SearchPoints
  <2> QED
    BY <2>1, <2>2, SearchLinked
<1> HIDE DEF later, x
<1>L. PICK L : L = Linked \ {x}
  OBVIOUS
<1>11. OnCourse'
  <2>1. ASSUME NEW y \in L
        PROVE  \/ nx[y] = next[y]
               \/ next[y] = x /\ nx[y] = next[x]
    <3>1. y # x /\ y \in Pointers
      BY <1>1, <1>L, NullProperties
    <3>2. CASE i = 1
      BY <1>4, <3>1, <3>2
    <3>3. CASE i # 1
      <4>1. i - 1 \in 1..Len(List) /\ (i - 1) + 1 = i
        BY <1>5, <3>3
      <4>2. List[i - 1] \in Linked /\ next[List[i - 1]] = x
        BY <1>5, <1>6, <4>1
      <4>3. PICK p : p = List[i - 1]
        OBVIOUS
      <4>4. nx[y] = IF y = p THEN next[x] ELSE next[y]
        BY <1>1, <1>4, <3>1, <3>3, <4>2, <4>3
      <4> QED
        BY <4>2, <4>3, <4>4
    <3> QED
      BY <3>2, <3>3
  <2>2. Rerouted(Linked, next, later, L, nx, later)
    BY <1>1, <1>2, <1>L, <2>1 DEF Rerouted, Edge
  <2>3. L \in SUBSET Addrs /\ L = Linked'
    BY <1>1, <1>L
  <2> QED
    BY <1>10, <1>L, <1>w, <2>2, <2>3, TrapCourse DEF later
<1>7. SUFFICES /\ IsTree(L, f, nx, later, w)
               /\ f \in Pointers /\ nx \in [Pointers -> Pointers] /\ nx[Null] = Null
               /\ \A y \in Addrs : y \notin Linked => nx[y] = next[y]
  BY <1>1, <1>2, <1>L, <1>w, <1>11 DEF LinkedTree
<1>8. CASE i = 1
  <2>1. first_timer = x /\ f = next[x]
    BY <1>4, <1>5, <1>6, <1>8
  <2>2. IsTree(L, f, next, later, timeout)
    BY <1>1, <1>2, <1>3, <1>L, <2>1, TreeBehead
  <2>3. /\ nx \in [Pointers -> Pointers] /\ nx[Null] = Null /\ f \in Pointers
        /\ \A y \in Pointers : y # x => nx[y] = next[y]
    BY <1>1, <1>4, <1>8, <2>1, NullProperties
  <2>4. \A y \in L : nx[y] = next[y] /\ w[y] = timeout[y]
    BY <1>1, <1>L, <2>3, NullProperties
  <2>5. IsTree(L, f, nx, later, w)
    <3>1. nx \in [Pointers -> Pointers] /\ w \in [Addrs -> Nat] /\ later \in [Pointers -> Pointers]
      BY <1>1, <1>2, <2>3
    <3> QED
      BY <3>1, <2>2, <2>4, TreeFrame
  <2>6. \A y \in Addrs : y \notin Linked => nx[y] = next[y]
    BY <1>1, <2>3, NullProperties
  <2> QED
    BY <2>3, <2>5, <2>6
<1>9. CASE i # 1
  <2> DEFINE p == List[i - 1]
             pass == [next EXCEPT ![p] = next[x]]
  <2>1. p \in Linked /\ next[p] = x /\ p \in Pointers /\ p # Null
    <3>1. i - 1 \in 1..Len(List) /\ (i - 1) + 1 = i
      BY <1>5, <1>9
    <3>2. p \in Linked /\ next[p] = x
      BY <1>5, <1>6, <3>1
    <3> QED
      BY <1>1, <3>2, NullProperties
  <2>2. nx = [pass EXCEPT ![x] = Null] /\ f = first_timer
    BY <1>4, <1>9
  <2> HIDE DEF p
  <2>3. /\ pass \in [Pointers -> Pointers]
        /\ \A y \in Pointers : pass[y] = IF y = p THEN next[x] ELSE next[y]
    BY <1>1, <2>1
  <2>4. IsTree(L, first_timer, pass, later, timeout)
    BY <1>1, <1>2, <1>3, <1>L, <2>1, TreeUnlink
  <2> HIDE DEF pass
  <2>5. /\ nx \in [Pointers -> Pointers] /\ nx[Null] = Null
        /\ \A y \in Pointers : y # x => nx[y] = pass[y]
    BY <1>1, <2>1, <2>2, <2>3, NullProperties
  <2>6. \A y \in L : nx[y] = pass[y] /\ w[y] = timeout[y]
    BY <1>1, <1>L, <2>5, NullProperties
  <2>7. IsTree(L, first_timer, nx, later, w)
    <3>1. nx \in [Pointers -> Pointers] /\ w \in [Addrs -> Nat] /\ later \in [Pointers -> Pointers]
      BY <1>1, <1>2, <2>5
    <3> QED
      BY <3>1, <2>4, <2>6, TreeFrame
  <2>8. \A y \in Addrs : y \notin Linked => nx[y] = next[y]
    BY <1>1, <2>1, <2>3, <2>5, NullProperties
  <2> QED
    BY <1>1, <2>2, <2>5, <2>7, <2>8
<1> QED
  BY <1>8, <1>9

LEMMA SleepKeeps ==
  ASSUME TimersInv, NEW c \in Tasks, NEW n \in Sleeps, Sleep(c, n)
  PROVE  TimersInv'
<1> DEFINE x == Allocated
<1>0. /\ Types /\ Owned /\ Sleeping /\ LateBound
      /\ cur_task = c /\ fault = "none" /\ fault' = "none"
      /\ UNCHANGED <<ticks, localVars, strayed, cut>> /\ ticks + n <= MaxTicks
      /\ cur_task' = NoTask /\ asleep' = asleep \union {c}
      /\ timeout' = [timeout EXCEPT ![x] = ticks + n] /\ task' = [task EXCEPT ![x] = c]
      /\ sleeper' = [sleeper EXCEPT ![x] = TRUE] /\ heap' = heap \union {x}
  BY DEF TimersInv, Sleep, Outside, Fill, Quiet
<1>1. InsertTimer(x, ticks + n) /\ x \in Addrs \ heap /\ ticks + n \in Nat /\ ticks \in Nat
      /\ n \in Nat
  BY <1>0, RoomForOne, TimersAssumption DEF Sleep, Types
<1> HIDE DEF x
<1>2. /\ LinkedTree' /\ OnCourse'
      /\ first_timer' \in Pointers /\ next' \in [Pointers -> Pointers] /\ next'[Null] = Null
      /\ \A y \in Addrs : y \notin Linked \union {x} => next'[y] = next[y]
  BY <1>0, <1>1, InsertKeepsTree
<1>3. Sleepers' = Sleepers \union {x} /\ x \notin Sleepers /\ Sleepers \subseteq Addrs
  BY <1>0, <1>1 DEF Sleepers, Types
<1>4. Types'
  BY <1>0, <1>1, <1>2 DEF Types, localVars
<1>5. Owned'
  <2>1. heap' \ Sleepers' = heap \ Sleepers
    BY <1>0, <1>1, <1>3
  <2>2. Aside \subseteq heap /\ \A y \in Aside : next'[y] = next[y]
    BY <1>0, <1>1, <1>2, AsideFacts DEF Linked
  <2> QED
    BY <1>0, <2>1, <2>2, OwnedFrame
<1>6. c \notin asleep
  BY <1>0, TimersAssumption DEF Types
<1>7. Sleeping'
  <2>1. task'[x] = c /\ \A y \in Sleepers : task'[y] = task[y]
    BY <1>0, <1>1, <1>3 DEF Types
  <2> QED
    BY <1>0, <1>3, <1>6, <2>1 DEF Sleeping
<1>8. LateBound'
  <2> SUFFICES ASSUME NEW m \in cut..ticks, Late(m)' # {}
               PROVE  Cardinality(Late(m)') + (ticks - m) <= Cardinality(Tasks)
    BY <1>0 DEF LateBound
  <2>1. timeout'[x] = ticks + n /\ \A y \in Sleepers : timeout'[y] = timeout[y]
    BY <1>0, <1>1, <1>3 DEF Types
  <2>2. m \in Int /\ m <= ticks
    BY <1>0 DEF Types
  <2>3. CASE m = ticks
    <3>1. Late(m)' \subseteq Sleepers'
      BY DEF Late
    <3>2. Cardinality(Late(m)') \in Nat /\ Cardinality(Late(m)') <= Cardinality(Tasks)
          /\ Cardinality(Tasks) \in Nat
      <4>1. asleep' \in SUBSET Tasks
        BY <1>4 DEF Types
      <4>2. /\ \A y \in Late(m)' : task'[y] \in asleep'
            /\ \A y, z \in Late(m)' : task'[y] = task'[z] => y = z
        BY <1>7, <3>1 DEF Sleeping
      <4>3. Cardinality(Late(m)') <= Cardinality(asleep') /\ Cardinality(asleep') <= Cardinality(Tasks)
            /\ Cardinality(Late(m)') \in Nat /\ Cardinality(Tasks) \in Nat
        BY <4>1, <4>2, CountSleeps
      <4>4. Cardinality(asleep') \in Nat
        BY <4>1, FS_Subset, FS_CardinalityType, TimersAssumption
      <4> QED
        BY <4>3, <4>4
    <3> QED
      BY <2>3, <3>2, <1>1
  <2>4. CASE m # ticks
    <3>1. ~(ticks + n <= m)
      BY <1>1, <2>2, <2>4
    <3>2. Late(m)' = Late(m)
      BY <1>3, <2>1, <3>1 DEF Late
    <3> QED
      BY <1>0, <3>2 DEF LateBound
  <2> QED
    BY <2>3, <2>4
<1> QED
  BY <1>0, <1>2, <1>4, <1>5, <1>7, <1>8 DEF TimersInv, NullExplained

LEMMA NowFacts ==
  ASSUME Types
  PROVE  Now \in ticks..MaxTicks /\ (Now = ticks \/ Now = ticks + 1) /\ ticks \in Nat
<1>1. ticks \in Nat /\ MaxTicks \in Nat /\ ticks <= MaxTicks
  BY TimersAssumption DEF Types
<1>2. {ticks + 1, MaxTicks} \in SUBSET Nat /\ {ticks + 1, MaxTicks} # {}
  BY <1>1
<1>3. Now \in {ticks + 1, MaxTicks} /\ \A n \in {ticks + 1, MaxTicks} : Now <= n
  BY <1>2, MinProperties DEF Now
<1> QED
  BY <1>1, <1>3

\* What is over is found, unless the list is cut: everything in front of it is due.
LEMMA OverFound ==
  ASSUME TimersInv, Splicing = {}, NEW x \in Sleepers, timeout[x] <= Now
  PROVE  \E i \in Over(List) : List[i] = x
<1>1. /\ ToSet(List) = Linked /\ ToSet(List) = {List[i] : i \in 1..Len(List)}
      /\ Len(List) \in Nat /\ \A i \in 1..Len(List) : List[i] \in Linked
      /\ \A i, j \in 1..Len(List) : i < j => timeout[List[i]] <= timeout[List[j]]
  BY ListFacts
<1>2. x \in Linked /\ sleeper[x] /\ Linked \subseteq Addrs
  BY AsideFacts DEF TimersInv, Sleepers
<1>3. PICK i \in 1..Len(List) : List[i] = x
  BY <1>1, <1>2
<1>4. ASSUME NEW j \in 1..i PROVE timeout[List[j]] <= Now
  <2>1. j \in 1..Len(List) /\ (j = i \/ j < i)
    BY <1>1
  <2>2. timeout[List[j]] <= timeout[x]
    <3>1. timeout[x] \in Nat
      BY <1>2 DEF TimersInv, Types
    <3> QED
      BY <1>1, <1>3, <2>1, <3>1
  <2>3. timeout[List[j]] \in Nat /\ timeout[x] \in Nat /\ Now \in Nat
    BY <1>1, <1>2, <2>1, NowFacts DEF TimersInv, Types
  <2> QED
    BY <2>2, <2>3
<1>5. i \in Due(List, Now)
  BY <1>4 DEF Due
<1>6. i \in Over(List)
  BY <1>2, <1>3, <1>5 DEF Over
<1> QED
  BY <1>3, <1>6

\* The sleeps that are late by some tick are as many as there are tasks at most.
LEMMA LateCount ==
  ASSUME Types, Sleeping, NEW m
  PROVE  /\ IsFiniteSet(Late(m)) /\ Cardinality(Late(m)) \in Nat
         /\ Cardinality(Late(m)) <= Cardinality(Tasks) /\ Cardinality(Tasks) \in Nat
<1>1. /\ \A y \in Late(m) : task[y] \in asleep
      /\ \A y, z \in Late(m) : task[y] = task[z] => y = z
  BY DEF Late, Sleeping
<1>2. asleep \in SUBSET Tasks
  BY DEF Types
<1>3. /\ IsFiniteSet(Late(m)) /\ Cardinality(Late(m)) \in Nat /\ Cardinality(Tasks) \in Nat
      /\ Cardinality(Late(m)) <= Cardinality(asleep) /\ Cardinality(asleep) <= Cardinality(Tasks)
  BY <1>1, <1>2, CountSleeps
<1>4. Cardinality(asleep) \in Nat
  BY <1>2, FS_Subset, FS_CardinalityType, TimersAssumption
<1> QED
  BY <1>3, <1>4

\* No task is woken: none of the sleeps is late, or the list is cut.
LEMMA TickKeeps ==
  ASSUME TimersInv, NEW c \in {cur_task, NoTask}, Tick(c)
  PROVE  TimersInv'
<1>0. /\ Types /\ Owned /\ Sleeping /\ LateBound
      /\ ticks' = Now /\ cur_task' = c /\ NoteCut /\ fault = "none"
      /\ UNCHANGED <<listVars, timerVars, asleep, localVars, strayed, fault>> /\ Over(List) = {}
  BY DEF TimersInv, Tick
<1>1. Now \in ticks..MaxTicks /\ ticks \in Nat
  BY <1>0, NowFacts
<1>2. Types'
  BY <1>0, <1>1 DEF Types, NoteCut, listVars, timerVars, localVars
<1>3. /\ Owned' /\ Sleeping' /\ LinkedTree' /\ Sleepers' = Sleepers /\ timeout' = timeout
      /\ OnCourse'
  <2>1. /\ Sleepers' = Sleepers /\ timeout' = timeout /\ Linked' = Linked
        /\ Later(pc, t, it)' = Later(pc, t, it)
    BY <1>0 DEF Linked, Aside, Sleepers, Later, listVars, timerVars, localVars
  <2>2. Owned' /\ Sleeping'
    BY <1>0, <2>1 DEF Owned, Sleeping, listVars, timerVars, localVars
  <2>3. LinkedTree'
    BY <1>0, <2>1 DEF TimersInv, LinkedTree, listVars
  <2>4. OnCourse'
    BY <1>0, <2>1 DEF TimersInv, OnCourse, Course, listVars, localVars
  <2> QED
    BY <2>1, <2>2, <2>3, <2>4
<1>4. LateBound'
  <2> SUFFICES ASSUME NEW m \in cut'..ticks', Late(m)' # {}
               PROVE  Cardinality(Late(m)') + (ticks' - m) <= Cardinality(Tasks)
    BY DEF LateBound
  <2>1. Late(m)' = Late(m)
    BY <1>3 DEF Late
  <2>2. CASE Splicing # {}
    <3>1. m = Now /\ ticks' = Now
      BY <1>0, <1>1, <2>2 DEF NoteCut
    <3> QED
      BY <1>0, <1>1, <2>1, <3>1, LateCount
  <2>3. CASE Splicing = {}
    <3>1. PICK x \in Sleepers : timeout[x] <= m
      BY <2>1 DEF Late
    <3>2. x \in Addrs /\ timeout[x] \in Nat /\ m \in Int /\ m <= Now
      BY <1>0, <1>1 DEF Types, Sleepers
    <3>3. timeout[x] <= Now
      BY <1>1, <3>1, <3>2
    <3> QED
      BY <1>0, <2>3, <3>3, OverFound
  <2> QED
    BY <2>2, <2>3
<1> QED
  BY <1>0, <1>2, <1>3, <1>4 DEF TimersInv, NullExplained

\* The first sleep that is over is ended. Unless the list is cut, it is one of those
\* that were late longest.
LEMMA TickWakeKeeps ==
  ASSUME TimersInv, TickWake
  PROVE  TimersInv'
<1>1. PICK i \in Over(List) :
        /\ \A j \in Over(List) : i <= j
        /\ LET c == task[List[i]]
           IN  IF c \in asleep
               THEN /\ DeleteTimer(List, i) /\ asleep' = asleep \ {c} /\ UNCHANGED fault
                    /\ strayed' = strayed \union AtTimer(List[i])
               ELSE fault' = "null" /\ UNCHANGED <<listVars, timerVars, asleep, strayed>>
  BY DEF TickWake
<1> DEFINE x == List[i]
<1>2. /\ Types /\ Owned /\ Sleeping /\ LateBound
      /\ ticks' = Now /\ cur_task' = NoTask /\ NoteCut /\ UNCHANGED localVars /\ fault = "none"
  BY DEF TimersInv, TickWake
<1>3. /\ i \in 1..Len(List) /\ x \in Sleepers /\ x \in Addrs /\ Sleepers \subseteq Addrs
      /\ x \in Linked /\ Len(List) \in Nat
  <2>1. i \in 1..Len(List) /\ sleeper[x]
    BY DEF Over, Due
  <2>2. x \in Linked /\ Len(List) \in Nat
    BY <2>1, ListFacts
  <2> QED
    BY <1>2, <2>1, <2>2, AsideFacts DEF Sleepers
<1>4. task[x] \in asleep
  BY <1>2, <1>3 DEF Sleeping
<1>5. /\ DeleteTimer(List, i) /\ asleep' = asleep \ {task[x]} /\ fault' = fault
      /\ strayed' = strayed \union AtTimer(List[i])
  BY <1>1, <1>4
<1>6. /\ LinkedTree' /\ OnCourse'
      /\ first_timer' \in Pointers /\ next' \in [Pointers -> Pointers] /\ next'[Null] = Null
      /\ \A y \in Addrs : y \notin Linked => next'[y] = next[y]
  BY <1>2, <1>3, <1>5, DeleteKeepsTree
<1>7. /\ heap' = heap \ {x} /\ timeout' = [timeout EXCEPT ![x] = 0]
      /\ task' = [task EXCEPT ![x] = NoTask] /\ sleeper' = [sleeper EXCEPT ![x] = FALSE]
  BY <1>5 DEF DeleteTimer, FreeTimer
<1> HIDE DEF x
<1>8. /\ Sleepers' = Sleepers \ {x}
      /\ \A y \in Sleepers' : task'[y] = task[y] /\ timeout'[y] = timeout[y]
  <2>1. Sleepers' = Sleepers \ {x}
    BY <1>2, <1>3, <1>7 DEF Sleepers, Types
  <2> QED
    BY <1>2, <1>3, <1>7, <2>1 DEF Types
<1>9. Now \in ticks..MaxTicks /\ (Now = ticks \/ Now = ticks + 1) /\ ticks \in Nat
  BY <1>2, NowFacts
<1>10. Types'
  BY <1>2, <1>3, <1>5, <1>6, <1>7, <1>9 DEF Types, NoteCut, localVars
<1>11. Owned'
  <2>1. heap' \ Sleepers' = heap \ Sleepers
    BY <1>3, <1>7, <1>8
  <2>2. Aside \subseteq heap /\ \A y \in Aside : next'[y] = next[y]
    BY <1>2, <1>6, AsideFacts DEF Linked
  <2> QED
    BY <1>2, <2>1, <2>2, OwnedFrame
<1>12. Sleeping'
  BY <1>2, <1>3, <1>5, <1>8 DEF Sleeping
<1>13. LateBound'
  <2> SUFFICES ASSUME NEW m \in cut'..ticks', Late(m)' # {}
               PROVE  Cardinality(Late(m)') + (ticks' - m) <= Cardinality(Tasks)
    BY DEF LateBound
  <2>1. Late(m)' = Late(m) \ {x}
    BY <1>8 DEF Late
  <2>2. /\ IsFiniteSet(Late(m)) /\ Cardinality(Late(m)) \in Nat
        /\ Cardinality(Late(m)) <= Cardinality(Tasks) /\ Cardinality(Tasks) \in Nat
    BY <1>2, LateCount
  <2>3. Cardinality(Late(m) \ {x}) =
          IF x \in Late(m) THEN Cardinality(Late(m)) - 1 ELSE Cardinality(Late(m))
    BY <2>2, FS_RemoveElement
  <2>4. m \in Int /\ ticks' = Now /\ m <= Now
    BY <1>2, <1>9 DEF NoteCut, Types
  <2>5. CASE m = ticks'
    BY <2>1, <2>2, <2>3, <2>4, <2>5, <1>9
  <2>6. CASE m # ticks'
    <3>0. ~NoneLate
      <4>1. timeout[x] <= Now
        BY <1>3, <1>9 DEF Over, Due, x
      <4>2. timeout[x] \in Nat /\ Now \in Nat
        BY <1>2, <1>3, <1>9 DEF Types
      <4> QED
        BY <1>3, <4>1, <4>2 DEF NoneLate, Sleepers
    <3>1. Splicing = {} /\ cut' = cut
      BY <1>2, <1>9, <2>4, <2>6, <3>0 DEF NoteCut
    <3>2. m \in cut..ticks
      BY <1>9, <2>4, <2>6, <3>1
    <3>3. PICK y \in Sleepers : timeout[y] <= m /\ y # x
      BY <2>1 DEF Late
    <3>4. timeout[y] \in Nat /\ timeout[x] \in Nat
      BY <1>2, <1>3 DEF Types
    <3>5. PICK j \in Over(List) : List[j] = y
      BY <1>9, <2>4, <3>1, <3>3, <3>4, OverFound
    <3>6. i <= j /\ j \in 1..Len(List) /\ i # j
      BY <1>1, <3>3, <3>5 DEF Over, Due, x
    <3>7. timeout[x] <= timeout[y]
      BY <1>3, <3>5, <3>6, ListFacts DEF x
    <3>8. x \in Late(m)
      BY <1>3, <2>4, <3>3, <3>4, <3>7 DEF Late
    <3>9. Cardinality(Late(m)) + (ticks - m) <= Cardinality(Tasks)
      BY <1>2, <3>2, <3>8 DEF LateBound
    <3> QED
      BY <1>9, <2>1, <2>2, <2>3, <2>4, <3>8, <3>9
  <2> QED
    BY <2>5, <2>6
<1> QED
  BY <1>2, <1>5, <1>6, <1>10, <1>11, <1>12, <1>13 DEF TimersInv, NullExplained

-----------------------------------------------------------------------------
(***************************************************************************)
(* Clients.                                                                *)
(***************************************************************************)

\* A step in which nobody sleeps or wakes.
LEMMA SleepsFrame ==
  ASSUME Sleeping, LateBound, Sleepers' = Sleepers, UNCHANGED <<ticks, cut, asleep>>,
         \A x \in Sleepers : task'[x] = task[x] /\ timeout'[x] = timeout[x]
  PROVE  Sleeping' /\ LateBound'
<1>1. Sleeping'
  BY DEF Sleeping
<1>2. \A m : Late(m)' = Late(m)
  BY DEF Late
<1> QED
  BY <1>1, <1>2 DEF LateBound

\* Only the hart changes hands, or a stale store stops the model.
LEMMA FrozenKeeps ==
  ASSUME TimersInv, UNCHANGED <<ticks, cut, listVars, timerVars, asleep, localVars, strayed>>,
         cur_task' \in (Tasks \ asleep) \union {NoTask}, NullExplained'
  PROVE  TimersInv'
<1> USE DEF TimersInv, listVars, timerVars, localVars
<1>1. Types' /\ Owned' /\ Sleepers' = Sleepers
  BY DEF Types, Owned, Sleepers
<1>2. LinkedTree'
  BY DEF LinkedTree, Linked, Aside, Later
<1>3. Sleeping' /\ LateBound'
  BY <1>1, SleepsFrame
<1>4. OnCourse'
  BY DEF OnCourse, Course, Linked, Aside, Later
<1> QED
  BY <1>1, <1>2, <1>3, <1>4

\* What a step of client c does to the timers aside and to what splicing clients
\* hold: nobody else is at its timer.
LEMMA ClientFrame ==
  ASSUME Types, Owned, Types', Owned', NEW c \in Clients,
         \A d \in Clients : d # c => pc'[d] = pc[d] /\ t'[d] = t[d] /\ it'[d] = it[d]
  PROVE  LET later == Later(pc, t, it)
             after == Later(pc', t', it')
         IN  /\ Aside' = (Aside \ {t[c]}) \union (IF pc'[c] \in AsidePoints THEN {t'[c]} ELSE {})
             /\ later \in [Pointers -> Pointers] /\ after \in [Pointers -> Pointers]
             /\ \A x \in Pointers :
                  IF x \in {t[c], t'[c]}
                  THEN /\ later[x] = IF pc[c] = "next" /\ t[c] = x THEN it[c] ELSE Null
                       /\ after[x] = IF pc'[c] = "next" /\ t'[c] = x THEN it'[c] ELSE Null
                  ELSE after[x] = later[x]
<1> DEFINE later == Later(pc, t, it)
           after == Later(pc', t', it')
<1>1. \A d \in Clients : /\ pc[d] = "run" => t[d] = Null
                         /\ pc'[d] = "run" => t'[d] = Null
                         /\ pc[d] # "run" => t[d] # Null /\ \A e \in Clients : t[e] = t[d] => e = d
                         /\ pc'[d] # "run" => t'[d] # Null /\ \A e \in Clients : t'[e] = t'[d] => e = d
  BY NullProperties DEF Types, Owned
<1>2. Aside' = (Aside \ {t[c]}) \union (IF pc'[c] \in AsidePoints THEN {t'[c]} ELSE {})
  BY <1>1 DEF Aside, AsidePoints
<1>3. /\ later \in [Pointers -> Pointers]
      /\ \A d \in Clients : pc[d] = "next" => later[t[d]] = it[d]
      /\ \A x \in Pointers :
           (\A d \in Clients : pc[d] = "next" => t[d] # x) => later[x] = Null
  BY LaterNow DEF Splicing
<1>4. /\ after \in [Pointers -> Pointers]
      /\ \A d \in Clients : pc'[d] = "next" => after[t'[d]] = it'[d]
      /\ \A x \in Pointers :
           (\A d \in Clients : pc'[d] = "next" => t'[d] # x) => after[x] = Null
  BY <1>1, LaterProperties DEF Types
<1> HIDE DEF later, after
<1>5. ASSUME NEW x \in {t[c], t'[c]}, x \in Pointers
      PROVE  /\ later[x] = IF pc[c] = "next" /\ t[c] = x THEN it[c] ELSE Null
             /\ after[x] = IF pc'[c] = "next" /\ t'[c] = x THEN it'[c] ELSE Null
  <2>1. \A d \in Clients : pc[d] = "next" /\ t[d] = x => d = c
    BY <1>1
  <2>2. \A d \in Clients : pc'[d] = "next" /\ t'[d] = x => d = c
    BY <1>1
  <2> QED
    BY <1>3, <1>4, <1>5, <2>1, <2>2
<1>6. ASSUME NEW x \in Pointers, x \notin {t[c], t'[c]} PROVE after[x] = later[x]
  <2>1. CASE \E d \in Clients : pc[d] = "next" /\ t[d] = x
    BY <1>3, <1>4, <1>6, <2>1
  <2>2. CASE ~\E d \in Clients : pc[d] = "next" /\ t[d] = x
    <3>1. \A d \in Clients : pc'[d] = "next" => t'[d] # x
      BY <1>6, <2>2
    <3> QED
      BY <1>3, <1>4, <2>2, <3>1
  <2> QED
    BY <2>1, <2>2
<1> QED
  BY <1>2, <1>3, <1>4, <1>5, <1>6 DEF later, after

\* The pointers in timers that others have yet to link stay NULL.
LEMMA UnsetFrame ==
  ASSUME Types, Owned, NEW c \in Clients,
         \A d \in Clients : d # c => pc'[d] = pc[d] /\ t'[d] = t[d],
         \A y \in Addrs : y \notin Linked \union {t[c]} => next'[y] = next[y]
  PROVE  \A d \in Clients : d # c /\ pc'[d] \in InsertPoints => next'[t'[d]] = Null
<1> SUFFICES ASSUME NEW d \in Clients, d # c, pc[d] \in InsertPoints PROVE next'[t[d]] = Null
  OBVIOUS
<1>1. pc[d] # "run" /\ t[d] \in Aside
  BY DEF InsertPoints, Aside
<1>2. t[d] \in Addrs /\ t[d] \notin Linked \union {t[c]}
  BY <1>1, OneAtTimer DEF Linked
<1>3. next[t[d]] = Null
  BY DEF Owned, InsertPoints
<1> QED
  BY <1>2, <1>3

LEMMA OwnFinite ==
  ASSUME Types, NEW c \in Clients
  PROVE  IsFiniteSet(own[c]) /\ Cardinality(own[c]) \in Nat
<1>1. IsFiniteSet(Addrs)
  BY NullProperties, FS_Interval DEF Addrs
<1> QED
  BY <1>1, FS_Subset, FS_CardinalityType DEF Types

\* The effect of a store that was not stale.
Moved(c, then) ==
  /\ pc' = [pc EXCEPT ![c] = then] /\ UNCHANGED fault
  /\ own' = [own EXCEPT ![c] = IF then = "run" THEN @ \union {t[c]} ELSE @]
  /\ IF then \in {"run", "free"}
     THEN prev' = [prev EXCEPT ![c] = Null] /\ it' = [it EXCEPT ![c] = Null]
     ELSE UNCHANGED <<prev, it>>
  /\ t' = IF then = "run" THEN [t EXCEPT ![c] = Null] ELSE t
  /\ strayed' = IF then = "free" THEN strayed \union AtTimer(t[c]) ELSE strayed

\* Whoever has linked a timer has it to itself again, and whoever has unlinked one is
\* about to free it.
LEMMA MovedKeeps ==
  ASSUME TimersInv, NEW c \in Clients, pc[c] # "run", Undisturbed, fault = "none",
         NEW then \in {"run", "first", "next", "free"}, Moved(c, then),
         first_timer' \in Pointers, next' \in [Pointers -> Pointers], next'[Null] = Null,
         \A y \in Addrs : y \notin Linked \union {t[c]} => next'[y] = next[y]
  PROVE  /\ Types' /\ Owned' /\ Sleeping' /\ NullExplained' /\ LateBound'
         /\ Linked' = IF then \in {"first", "free"} THEN Linked \ {t[c]} ELSE Linked \union {t[c]}
         /\ timeout' = timeout
<1>0. /\ Types /\ Owned /\ Sleeping /\ LateBound /\ t[c] \in heap \ Sleepers /\ t[c] # Null
      /\ UNCHANGED <<ticks, timerVars, cur_task, asleep, cut>> /\ fault' = "none"
  BY OneAtTimer DEF TimersInv, Undisturbed, Quiet, Moved
<1>1. Sleepers' = Sleepers /\ heap' = heap /\ timeout' = timeout
  BY <1>0 DEF timerVars, Sleepers
<1>2. /\ pc' = [pc EXCEPT ![c] = then]
      /\ own' = [own EXCEPT ![c] = IF then = "run" THEN own[c] \union {t[c]} ELSE own[c]]
      /\ t' = IF then = "run" THEN [t EXCEPT ![c] = Null] ELSE t
  BY <1>0 DEF Moved, Types
<1>3. Types'
  <2>1. then \in Points
    BY DEF Points
  <2>2. /\ pc' \in [Clients -> Points] /\ own' \in [Clients -> SUBSET Addrs]
        /\ t' \in [Clients -> Pointers]
    BY <1>0, <1>2, <2>1, NullProperties DEF Types
  <2>3. prev' \in [Clients -> Pointers] /\ it' \in [Clients -> Pointers]
    BY <1>0, NullProperties DEF Types, Moved
  <2> QED
    BY <1>0, <2>2, <2>3 DEF Types, timerVars
<1>4. \A d \in Clients : d # c => pc'[d] = pc[d] /\ t'[d] = t[d] /\ own'[d] = own[d]
  BY <1>0, <1>2 DEF Types
<1>5. pc'[c] = then /\ then \notin InsertPoints
  BY <1>0, <1>2 DEF Types, InsertPoints
<1>6. \A d \in Clients : pc'[d] \in InsertPoints => next'[t'[d]] = Null
  BY <1>0, <1>4, <1>5, UnsetFrame
<1>7. Owned'
  <2>1. CASE then = "run"
    <3>1. own'[c] = own[c] \union {t[c]} /\ t'[c] = Null
      BY <1>0, <1>2, <2>1 DEF Types
    <3>2. Cardinality(own'[c]) <= MaxOwn
      <4>1. /\ IsFiniteSet(own[c]) /\ Cardinality(own[c]) \in Nat
            /\ Cardinality(own[c] \union {t[c]}) =
                 IF t[c] \in own[c] THEN Cardinality(own[c]) ELSE Cardinality(own[c]) + 1
        BY <1>0, OwnFinite, FS_AddElement
      <4>2. Cardinality(own[c]) + 1 <= MaxOwn
        BY <1>0 DEF Owned
      <4>3. MaxOwn \in Nat
        BY TimersAssumption
      <4> QED
        BY <3>1, <4>1, <4>2, <4>3
    <3>3. ASSUME NEW d \in Clients
          PROVE  /\ own'[d] \subseteq heap' \ Sleepers'
                 /\ \A e \in Clients : t'[e] \notin own'[d] /\ (d # e => own'[d] \intersect own'[e] = {})
                 /\ IF pc'[d] = "run" THEN t'[d] = Null
                    ELSE t'[d] \in heap' \ Sleepers' /\ \A e \in Clients : e # d => t'[e] # t'[d]
      BY <1>0, <1>1, <1>4, <1>5, <2>1, <3>1, OneAtTimer, NullProperties DEF Owned, Types
    <3>4. ASSUME NEW d \in Clients
          PROVE  Cardinality(own'[d]) + (IF pc'[d] = "run" THEN 0 ELSE 1) <= MaxOwn
      <4>1. CASE d = c
        <5>1. Cardinality(own'[c]) \in Nat
          BY <1>0, <3>1, OwnFinite, FS_AddElement, FS_CardinalityType
        <5> QED
          BY <1>5, <2>1, <3>2, <4>1, <5>1
      <4>2. CASE d # c
        BY <1>0, <1>4, <4>2 DEF Owned
      <4> QED
        BY <4>1, <4>2
    <3>5. \A x \in heap' \ Sleepers' : \E d \in Clients : x \in own'[d] \/ x = t'[d]
      BY <1>0, <1>1, <1>4, <3>1 DEF Owned
    <3> QED
      BY <1>6, <3>3, <3>4, <3>5 DEF Owned, InsertPoints
  <2>2. CASE then # "run"
    <3>1. own' = own /\ t' = t
      BY <1>0, <1>2, <2>2 DEF Types
    <3> QED
      BY <1>0, <1>1, <1>4, <1>5, <1>6, <2>2, <3>1 DEF Owned, InsertPoints
  <2> QED
    BY <2>1, <2>2
<1>8. Sleeping' /\ LateBound'
  BY <1>0, <1>1, SleepsFrame DEF timerVars
<1>9. Linked' = IF then \in {"first", "free"} THEN Linked \ {t[c]} ELSE Linked \union {t[c]}
  <2>1. \A d \in Clients : d # c => it'[d] = it[d]
    BY <1>0 DEF Moved, Types
  <2>2. Aside' = (Aside \ {t[c]}) \union (IF pc'[c] \in AsidePoints THEN {t'[c]} ELSE {})
    BY <1>0, <1>3, <1>4, <1>7, <2>1, ClientFrame
  <2>3. CASE then \in {"first", "free"}
    <3>1. pc'[c] \in AsidePoints /\ t'[c] = t[c]
      BY <1>2, <1>5, <2>3 DEF AsidePoints
    <3> QED
      BY <1>1, <2>2, <2>3, <3>1 DEF Linked
  <2>4. CASE then \notin {"first", "free"}
    <3>1. pc'[c] \notin AsidePoints
      BY <1>5, <2>4 DEF AsidePoints
    <3> QED
      BY <1>0, <1>1, <2>2, <2>4, <3>1 DEF Linked
  <2> QED
    BY <2>3, <2>4
<1> QED
  BY <1>0, <1>1, <1>3, <1>7, <1>8, <1>9 DEF NullExplained

LEMMA TornKeeps == TimersInv /\ Torn /\ Undisturbed => TimersInv'
<1> SUFFICES ASSUME TimersInv, Torn, Undisturbed PROVE TimersInv'
  OBVIOUS
<1>1. /\ UNCHANGED <<ticks, cut, listVars, timerVars, asleep, localVars, strayed>>
      /\ cur_task' = cur_task /\ fault' = "list"
  BY DEF Torn, Undisturbed, Quiet
<1>2. cur_task' \in (Tasks \ asleep) \union {NoTask} /\ NullExplained'
  BY <1>1 DEF TimersInv, Types, NullExplained
<1> QED
  BY <1>1, <1>2, FrozenKeeps

\* It remains to be shown that the pointers are a tree still.
LEMMA MovedInv ==
  ASSUME TimersInv, NEW c \in Clients, pc[c] # "run", Undisturbed, fault = "none",
         NEW then \in {"run", "first", "next", "free"}, Moved(c, then),
         first_timer' \in Pointers, next' \in [Pointers -> Pointers], next'[Null] = Null,
         \A y \in Addrs : y \notin Linked \union {t[c]} => next'[y] = next[y],
         NEW later2 \in [Pointers -> Pointers],
         \A x \in Linked : x # t[c] => later2[x] = Later(pc, t, it)[x],
         then \in {"run", "next"} => later2[t[c]] = IF then = "next" THEN it[c] ELSE Null,
         NEW L, L = IF then \in {"first", "free"} THEN Linked \ {t[c]} ELSE Linked \union {t[c]},
         IsTree(L, first_timer', next', later2, timeout),
         Rerouted(Linked, next, Later(pc, t, it), L, next', later2),
         then = "first" => t[c] \notin Linked
  PROVE  TimersInv'
<1>1. /\ Types' /\ Owned' /\ Sleeping' /\ NullExplained' /\ LateBound'
      /\ Linked' = IF then \in {"first", "free"} THEN Linked \ {t[c]} ELSE Linked \union {t[c]}
      /\ timeout' = timeout
  BY MovedKeeps
<1>2. Types /\ Owned /\ t[c] \in Addrs
  BY OneAtTimer DEF TimersInv
<1>3. /\ pc'[c] = then /\ (then # "run" => t'[c] = t[c]) /\ (then = "run" => t'[c] = Null)
      /\ (then = "next" => it'[c] = it[c])
      /\ \A d \in Clients : d # c => pc'[d] = pc[d] /\ t'[d] = t[d] /\ it'[d] = it[d]
  BY <1>2 DEF Moved, Types
<1>4. PICK later, after : later = Later(pc, t, it) /\ after = Later(pc, t, it)'
  OBVIOUS
<1>5. /\ after \in [Pointers -> Pointers]
      /\ \A x \in Pointers :
           IF x \in {t[c], t'[c]}
           THEN after[x] = IF pc'[c] = "next" /\ t'[c] = x THEN it'[c] ELSE Null
           ELSE after[x] = later[x]
  BY <1>1, <1>2, <1>3, <1>4, ClientFrame
<1>6. ASSUME NEW x \in Linked' PROVE after[x] = later2[x] /\ x \in Pointers
  <2>1. x \in Addrs /\ x # Null /\ x \in Pointers
    BY <1>1, <1>2, AsideFacts, NullProperties
  <2>2. CASE x = t[c]
    <3>1. then \in {"run", "next"}
      BY <1>1, <2>2
    <3> QED
      BY <1>3, <1>5, <2>1, <2>2, <3>1
  <2>3. CASE x # t[c]
    <3>1. x \in Linked /\ x # t'[c]
      BY <1>1, <1>3, <2>1, <2>3
    <3> QED
      BY <1>4, <1>5, <2>1, <2>3, <3>1
  <2> QED
    BY <2>1, <2>2, <2>3
<1>7. IsTree(Linked', first_timer', next', after, timeout)
  <2>1. IsTree(Linked', first_timer', next', later2, timeout)
    BY <1>1
  <2>2. timeout \in [Addrs -> Nat]
    BY <1>2 DEF Types
  <2> QED
    BY <1>5, <1>6, <2>1, <2>2, TreeFrame
<1>8. OnCourse'
  <2> SUFFICES ASSUME NEW d \in Clients PROVE Course(d)'
    BY DEF OnCourse
  <2>1. PICK L2 : L2 = Linked'
    OBVIOUS
  <2>2. L2 \in SUBSET Addrs
    BY <1>1, <1>2, <2>1, AsideFacts
  <2>3. Rerouted(Linked, next, Later(pc, t, it), L2, next', after)
    <3>1. L2 = L /\ \A x \in L2 : after[x] = later2[x]
      BY <1>1, <1>6, <2>1
    <3> QED
      BY <3>1 DEF Rerouted, Edge
  <2>4. ASSUME pc'[d] \in SearchPoints, d \notin strayed'
        PROVE  /\ pc[d] \in SearchPoints /\ d \notin strayed /\ it'[d] = it[d] /\ t'[d] = t[d]
               /\ it[d] \in L2 /\ t[d] \in L2 /\ (pc'[d] = "search" => it[d] # t[d])
    <3>1. d # c
      BY <1>3, <2>4 DEF SearchPoints
    <3>2. pc'[d] = pc[d] /\ it'[d] = it[d] /\ t'[d] = t[d]
      BY <1>3, <3>1
    <3>3. d \notin strayed /\ (then = "free" => it[d] # t[c])
      BY <2>4, <3>2 DEF Moved, AtTimer, SearchPoints
    <3>4. t[d] \in Linked /\ it[d] \in Linked /\ (pc[d] = "search" => it[d] # t[d])
      BY <2>4, <3>2, <3>3, SearchLinked
    <3>5. t[d] # t[c]
      BY <1>2, <3>1, OneAtTimer
    <3>6. L2 = IF then \in {"first", "free"} THEN Linked \ {t[c]} ELSE Linked \union {t[c]}
      BY <1>1, <2>1
    <3>7. it[d] \in L2 /\ t[d] \in L2
      BY <3>3, <3>4, <3>5, <3>6
    <3> QED
      BY <2>4, <3>2, <3>3, <3>4, <3>7
  <2> QED
    BY <1>4, <2>1, <2>2, <2>3, <2>4, CourseKept
<1> QED
  BY <1>1, <1>4, <1>7, <1>8 DEF TimersInv, LinkedTree

LEMMA ClientFacts ==
  ASSUME TimersInv, NEW c \in Clients, pc[c] # "run"
  PROVE  LET later == Later(pc, t, it)
         IN  /\ t[c] \in Addrs /\ t[c] \in Pointers /\ t[c] # Null
             /\ (t[c] \notin Linked) <=> (pc[c] \in AsidePoints)
             /\ pc[c] \in InsertPoints => next[t[c]] = Null
             /\ first_timer \in Linked \union {Null} /\ first_timer \in Pointers
             /\ Linked \subseteq Addrs /\ timeout \in [Addrs -> Nat]
             /\ next \in [Pointers -> Pointers] /\ next[Null] = Null
             /\ later \in [Pointers -> Pointers]
             /\ later[t[c]] = IF pc[c] = "next" THEN it[c] ELSE Null
             /\ IsTree(Linked, first_timer, next, later, timeout)
<1> DEFINE later == Later(pc, t, it)
<1>1. /\ t[c] \in Addrs /\ t[c] # Null /\ t[c] \in heap
      /\ \A d \in Clients : t[d] = t[c] => d = c
  BY OneAtTimer DEF TimersInv
<1>2. /\ later \in [Pointers -> Pointers] /\ \A d \in Splicing : later[t[d]] = it[d]
      /\ \A x \in Pointers : (\A d \in Splicing : t[d] # x) => later[x] = Null
  BY LaterNow DEF TimersInv
<1>3. t[c] \in Pointers /\ later[t[c]] = IF pc[c] = "next" THEN it[c] ELSE Null
  <2> HIDE DEF later
  <2> QED
    BY <1>1, <1>2, NullProperties DEF Splicing
<1>4. (t[c] \notin Linked) <=> (pc[c] \in AsidePoints)
  BY <1>1 DEF Linked, Aside, AsidePoints
<1>5. IsTree(Linked, first_timer, next, later, timeout) /\ first_timer \in Linked \union {Null}
  BY DEF TimersInv, LinkedTree, IsTree, Tree
<1>6. pc[c] \in InsertPoints => next[t[c]] = Null
  BY DEF TimersInv, Owned, InsertPoints
<1> QED
  BY <1>1, <1>2, <1>3, <1>4, <1>5, <1>6, AsideFacts DEF TimersInv, Types

LEMMA InsertEmptyKeeps ==
  ASSUME TimersInv, NEW c \in Clients, InsertEmpty(c)
  PROVE  TimersInv'
<1>1. pc[c] = "empty" /\ fault = "none" /\ Undisturbed
  BY DEF InsertEmpty, At
<1>2. CASE first_timer # Null
  BY <1>1, <1>2, TornKeeps DEF InsertEmpty, Store
<1>3. CASE first_timer = Null
  <2>1. Moved(c, "run") /\ first_timer' = t[c] /\ next' = next
    BY <1>3 DEF InsertEmpty, Store, Goto, Set, Moved
  <2>2. PICK later, x, L : later = Later(pc, t, it) /\ x = t[c] /\ L = Linked \union {x}
    OBVIOUS
  <2>3. /\ x \in Addrs \ Linked /\ x \in Pointers /\ next[x] = Null /\ later[x] = Null
        /\ next \in [Pointers -> Pointers] /\ next[Null] = Null /\ later \in [Pointers -> Pointers]
        /\ IsTree(Linked, first_timer, next, later, timeout)
    BY <1>1, <2>2, ClientFacts DEF AsidePoints, InsertPoints
  <2>4. IsTree(L, first_timer', next', later, timeout)
    <3>1. IsTree(Linked \union {x}, x, next, later, timeout)
      BY <1>3, <2>3, TreeFirst
    <3> QED
      BY <2>1, <2>2, <3>1
  <2>5. /\ L = IF "run" \in {"first", "free"} THEN Linked \ {t[c]} ELSE Linked \union {t[c]}
        /\ "run" \in {"run", "first", "next", "free"} /\ pc[c] # "run"
        /\ later[t[c]] = IF "run" = "next" THEN it[c] ELSE Null
        /\ \A y \in Linked : y # t[c] => later[y] = Later(pc, t, it)[y]
    BY <1>1, <2>2, <2>3
  <2>6. /\ first_timer' \in Pointers /\ next' \in [Pointers -> Pointers] /\ next'[Null] = Null
        /\ \A y \in Addrs : y \notin Linked \union {t[c]} => next'[y] = next[y]
    BY <2>1, <2>2, <2>3
  <2>7. Rerouted(Linked, next, Later(pc, t, it), L, next', later)
    BY <2>1, <2>2 DEF Rerouted, Edge
  <2> QED
    BY <1>1, <2>1, <2>3, <2>4, <2>5, <2>6, <2>7, MovedInv
<1> QED
  BY <1>2, <1>3

LEMMA InsertFirstKeeps ==
  ASSUME TimersInv, NEW c \in Clients, InsertFirst(c)
  PROVE  TimersInv'
<1>1. pc[c] = "first" /\ fault = "none" /\ Undisturbed
  BY DEF InsertFirst, At
<1> DEFINE sound == first_timer = next[t[c]]
                    /\ (first_timer = Null \/ timeout[t[c]] <= timeout[first_timer])
<1>2. CASE ~sound
  BY <1>1, <1>2, TornKeeps DEF InsertFirst, Store
<1>3. CASE sound
  <2>1. Moved(c, "run") /\ first_timer' = t[c] /\ next' = next
    BY <1>3 DEF InsertFirst, Store, Goto, Set, Moved
  <2>2. PICK later, x, L : later = Later(pc, t, it) /\ x = t[c] /\ L = Linked \union {x}
    OBVIOUS
  <2>3. /\ x \in Addrs \ Linked /\ x \in Pointers /\ later[x] = Null
        /\ next \in [Pointers -> Pointers] /\ next[Null] = Null /\ later \in [Pointers -> Pointers]
        /\ IsTree(Linked, first_timer, next, later, timeout)
    BY <1>1, <2>2, ClientFacts DEF AsidePoints
  <2>4. IsTree(L, first_timer', next', later, timeout)
    <3>1. next[x] = first_timer /\ (first_timer # Null => timeout[x] <= timeout[first_timer])
      BY <1>3, <2>2
    <3>2. IsTree(Linked \union {x}, x, next, later, timeout)
      BY <2>3, <3>1, TreeFirst
    <3> QED
      BY <2>1, <2>2, <3>2
  <2>5. /\ L = IF "run" \in {"first", "free"} THEN Linked \ {t[c]} ELSE Linked \union {t[c]}
        /\ "run" \in {"run", "first", "next", "free"} /\ pc[c] # "run"
        /\ later[t[c]] = IF "run" = "next" THEN it[c] ELSE Null
        /\ \A y \in Linked : y # t[c] => later[y] = Later(pc, t, it)[y]
    BY <1>1, <2>2, <2>3
  <2>6. /\ first_timer' \in Pointers /\ next' \in [Pointers -> Pointers] /\ next'[Null] = Null
        /\ \A y \in Addrs : y \notin Linked \union {t[c]} => next'[y] = next[y]
    BY <2>1, <2>2, <2>3
  <2>7. Rerouted(Linked, next, Later(pc, t, it), L, next', later)
    BY <2>1, <2>2 DEF Rerouted, Edge
  <2> QED
    BY <1>1, <2>1, <2>3, <2>4, <2>5, <2>6, <2>7, MovedInv
<1> QED
  BY <1>2, <1>3

LEMMA InsertHeadKeeps ==
  ASSUME TimersInv, NEW c \in Clients, InsertHead(c)
  PROVE  TimersInv'
<1>1. pc[c] = "head" /\ fault = "none" /\ Undisturbed
  BY DEF InsertHead, At
<1> DEFINE sound == first_timer = Null \/ timeout[t[c]] <= timeout[first_timer]
<1>2. CASE ~sound
  BY <1>1, <1>2, TornKeeps DEF InsertHead, Store
<1>3. CASE sound
  <2>1. /\ Moved(c, "first") /\ first_timer' = first_timer
        /\ next' = [next EXCEPT ![t[c]] = first_timer]
    BY <1>3 DEF InsertHead, Store, Goto, Set, Moved
  <2>2. PICK later, x, L : later = Later(pc, t, it) /\ x = t[c] /\ L = Linked \ {x}
    OBVIOUS
  <2>3. /\ x \in Addrs \ Linked /\ x \in Pointers /\ x # Null /\ Linked \subseteq Addrs
        /\ next \in [Pointers -> Pointers] /\ next[Null] = Null /\ later \in [Pointers -> Pointers]
        /\ first_timer \in Pointers /\ timeout \in [Addrs -> Nat]
        /\ IsTree(Linked, first_timer, next, later, timeout)
    BY <1>1, <2>2, ClientFacts DEF AsidePoints
  <2>4. /\ next' \in [Pointers -> Pointers] /\ next'[Null] = Null
        /\ \A y \in Pointers : y # x => next'[y] = next[y]
    BY <2>1, <2>2, <2>3, NullProperties
  <2>5. IsTree(L, first_timer', next', later, timeout)
    <3>1. \A y \in Linked : next'[y] = next[y]
      BY <2>3, <2>4, NullProperties
    <3>2. IsTree(Linked, first_timer, next', later, timeout)
      BY <2>3, <2>4, <3>1, TreeFrame
    <3> QED
      BY <2>1, <2>2, <2>3, <3>2
  <2>6. /\ L = IF "first" \in {"first", "free"} THEN Linked \ {t[c]} ELSE Linked \union {t[c]}
        /\ "first" \in {"run", "first", "next", "free"} /\ pc[c] # "run"
        /\ "first" \notin {"run", "next"}
        /\ \A y \in Linked : y # t[c] => later[y] = Later(pc, t, it)[y]
    BY <1>1, <2>2, <2>3
  <2>7. /\ first_timer' \in Pointers
        /\ \A y \in Addrs : y \notin Linked \union {t[c]} => next'[y] = next[y]
    BY <2>1, <2>2, <2>3, <2>4, NullProperties
  <2>8. /\ Rerouted(Linked, next, Later(pc, t, it), L, next', later)
        /\ "first" = "first" => t[c] \notin Linked
    BY <2>2, <2>3, <2>4, NullProperties DEF Rerouted, Edge
  <2> QED
    BY <1>1, <2>1, <2>3, <2>4, <2>5, <2>6, <2>7, <2>8, MovedInv
<1> QED
  BY <1>2, <1>3

LEMMA InsertLinkKeeps ==
  ASSUME TimersInv, NEW c \in Clients, InsertLink(c)
  PROVE  TimersInv'
<1>1. pc[c] = "link" /\ fault = "none" /\ Undisturbed
  BY DEF InsertLink, At
<1> DEFINE sound == /\ prev[c] \in ToSet(List) /\ next[prev[c]] = it[c]
                    /\ timeout[prev[c]] <= timeout[t[c]]
                    /\ it[c] = Null \/ timeout[t[c]] <= timeout[it[c]]
<1>4. CASE prev[c] = Null
  <2>1. /\ UNCHANGED <<ticks, cut, listVars, timerVars, asleep, localVars, strayed>>
        /\ cur_task' = cur_task /\ cur_task = c
    BY <1>1, <1>4 DEF InsertLink, At, Undisturbed, Quiet
  <2>2. cur_task' \in (Tasks \ asleep) \union {NoTask}
    BY <2>1 DEF TimersInv, Types
  <2>3. NullExplained'
    BY <1>1, <2>1 DEF NullExplained, localVars
  <2> QED
    BY <2>1, <2>2, <2>3, FrozenKeeps
<1>2. CASE prev[c] # Null /\ ~sound
  BY <1>1, <1>2, TornKeeps DEF InsertLink, Store
<1>3. CASE prev[c] # Null /\ sound
  <2>1. /\ Moved(c, "next") /\ first_timer' = first_timer
        /\ next' = [next EXCEPT ![prev[c]] = t[c]]
    BY <1>3 DEF InsertLink, Store, Goto, Set, Moved
  <2>2. PICK later, x, L, p : /\ later = Later(pc, t, it) /\ x = t[c]
                              /\ L = Linked \union {x} /\ p = prev[c]
    OBVIOUS
  <2>3. /\ x \in Addrs \ Linked /\ x \in Pointers /\ x # Null /\ Linked \subseteq Addrs
        /\ next[x] = Null /\ later[x] = Null
        /\ next \in [Pointers -> Pointers] /\ next[Null] = Null /\ later \in [Pointers -> Pointers]
        /\ first_timer \in Pointers /\ timeout \in [Addrs -> Nat]
        /\ IsTree(Linked, first_timer, next, later, timeout)
    BY <1>1, <2>2, ClientFacts DEF AsidePoints, InsertPoints
  <2>4. /\ p \in Linked /\ p \in Pointers /\ p # Null /\ next[p] = it[c]
        /\ timeout[p] <= timeout[x] /\ (next[p] # Null => timeout[x] <= timeout[next[p]])
    <3>1. p \in Linked
      BY <1>3, <2>2, ListFacts
    <3> QED
      BY <1>3, <2>2, <2>3, <3>1, NullProperties
  <2> DEFINE held == [later EXCEPT ![x] = next[p]]
  <2>5. IsTree(L, first_timer', next', held, timeout)
    <3>1. IsTree(Linked \union {x}, first_timer, [next EXCEPT ![p] = x], held, timeout)
      BY <2>3, <2>4, TreeLink
    <3> HIDE DEF held
    <3> QED
      BY <2>1, <2>2, <3>1
  <2>6. /\ next' \in [Pointers -> Pointers] /\ next'[Null] = Null
        /\ \A y \in Pointers : y # p => next'[y] = next[y]
    BY <2>1, <2>2, <2>3, <2>4
  <2>7. /\ held \in [Pointers -> Pointers] /\ held[x] = it[c]
        /\ \A y \in Linked : held[y] = later[y]
    BY <2>3, <2>4, NullProperties
  <2> HIDE DEF held
  <2>8. /\ L = IF "next" \in {"first", "free"} THEN Linked \ {t[c]} ELSE Linked \union {t[c]}
        /\ "next" \in {"run", "first", "next", "free"} /\ pc[c] # "run"
        /\ held[t[c]] = IF "next" = "next" THEN it[c] ELSE Null
        /\ \A y \in Linked : y # t[c] => held[y] = Later(pc, t, it)[y]
    BY <1>1, <2>2, <2>3, <2>7
  <2>9. /\ first_timer' \in Pointers
        /\ \A y \in Addrs : y \notin Linked \union {t[c]} => next'[y] = next[y]
    BY <2>1, <2>2, <2>3, <2>4, <2>6, NullProperties
  <2>10. Rerouted(Linked, next, Later(pc, t, it), L, next', held)
    <3>1. next'[p] = x /\ x \in L /\ held[x] = next[p]
      BY <2>1, <2>2, <2>3, <2>4, <2>7
    <3>2. \A y \in Linked : y \in Pointers /\ held[y] = later[y] /\ (y # p => next'[y] = next[y])
      BY <2>3, <2>6, <2>7, NullProperties
    <3> QED
      BY <2>2, <2>3, <3>1, <3>2 DEF Rerouted, Edge
  <2> QED
    BY <1>1, <2>1, <2>5, <2>6, <2>7, <2>8, <2>9, <2>10, MovedInv
<1> QED
  BY <1>2, <1>3, <1>4

LEMMA InsertNextKeeps ==
  ASSUME TimersInv, NEW c \in Clients, InsertNext(c)
  PROVE  TimersInv'
<1>1. pc[c] = "next" /\ fault = "none" /\ Undisturbed
  BY DEF InsertNext, At
<1>2. CASE next[t[c]] # Null
  BY <1>1, <1>2, TornKeeps DEF InsertNext, Store
<1>3. CASE next[t[c]] = Null
  <2>1. /\ Moved(c, "run") /\ first_timer' = first_timer
        /\ next' = [next EXCEPT ![t[c]] = it[c]]
    BY <1>3 DEF InsertNext, Store, Goto, Set, Moved
  <2>2. PICK later, x : later = Later(pc, t, it) /\ x = t[c]
    OBVIOUS
  <2>3. /\ x \in Linked /\ x \in Pointers /\ x # Null /\ Linked \subseteq Addrs
        /\ later[x] = it[c] /\ it[c] \in Pointers
        /\ next \in [Pointers -> Pointers] /\ next[Null] = Null /\ later \in [Pointers -> Pointers]
        /\ first_timer \in Pointers
        /\ IsTree(Linked, first_timer, next, later, timeout)
    <3>1. it[c] \in Pointers
      BY DEF TimersInv, Types
    <3> QED
      BY <1>1, <2>2, <3>1, ClientFacts DEF AsidePoints
  <2> DEFINE done == [later EXCEPT ![x] = Null]
  <2>4. IsTree(Linked, first_timer', next', done, timeout)
    <3>1. IsTree(Linked, first_timer, [next EXCEPT ![x] = later[x]], done, timeout)
      BY <1>3, <2>2, <2>3, TreeJoin
    <3> HIDE DEF done
    <3> QED
      BY <2>1, <2>2, <2>3, <3>1
  <2>5. /\ next' \in [Pointers -> Pointers] /\ next'[Null] = Null
        /\ \A y \in Pointers : y # x => next'[y] = next[y]
    BY <2>1, <2>2, <2>3
  <2>6. /\ done \in [Pointers -> Pointers] /\ done[x] = Null
        /\ \A y \in Linked : y # x => done[y] = later[y]
    BY <2>3, NullProperties
  <2> HIDE DEF done
  <2>7. /\ Linked = IF "run" \in {"first", "free"} THEN Linked \ {t[c]} ELSE Linked \union {t[c]}
        /\ "run" \in {"run", "first", "next", "free"} /\ pc[c] # "run"
        /\ done[t[c]] = IF "run" = "next" THEN it[c] ELSE Null
        /\ \A y \in Linked : y # t[c] => done[y] = Later(pc, t, it)[y]
    BY <1>1, <2>2, <2>3, <2>6
  <2>8. /\ first_timer' \in Pointers
        /\ \A y \in Addrs : y \notin Linked \union {t[c]} => next'[y] = next[y]
    BY <2>1, <2>2, <2>3, <2>5, NullProperties
  <2>9. Rerouted(Linked, next, Later(pc, t, it), Linked, next', done)
    <3>1. next[x] = Null /\ next'[x] = later[x]
      BY <1>3, <2>1, <2>2, <2>3
    <3>2. \A y \in Linked : y \in Pointers /\ (y # x => done[y] = later[y] /\ next'[y] = next[y])
      BY <2>3, <2>5, <2>6, NullProperties
    <3> QED
      BY <2>2, <3>1, <3>2 DEF Rerouted, Edge
  <2> QED
    BY <1>1, <2>1, <2>4, <2>5, <2>6, <2>7, <2>8, <2>9, MovedInv
<1> QED
  BY <1>2, <1>3

LEMMA UnlinkFirstKeeps ==
  ASSUME TimersInv, NEW c \in Clients, UnlinkFirst(c)
  PROVE  TimersInv'
<1>1. pc[c] = "unlink_first" /\ fault = "none" /\ Undisturbed
  BY DEF UnlinkFirst, At
<1>2. CASE first_timer # t[c]
  BY <1>1, <1>2, TornKeeps DEF UnlinkFirst, Store
<1>3. CASE first_timer = t[c]
  <2>1. Moved(c, "free") /\ first_timer' = next[first_timer] /\ next' = next
    BY <1>3 DEF UnlinkFirst, Store, Goto, Set, Moved
  <2>2. PICK later, x, L : later = Later(pc, t, it) /\ x = t[c] /\ L = Linked \ {x}
    OBVIOUS
  <2>3. /\ x \in Linked /\ x \in Pointers /\ x # Null /\ later[x] = Null
        /\ next \in [Pointers -> Pointers] /\ next[Null] = Null /\ later \in [Pointers -> Pointers]
        /\ IsTree(Linked, first_timer, next, later, timeout)
    BY <1>1, <2>2, ClientFacts DEF AsidePoints
  <2>4. IsTree(L, first_timer', next', later, timeout)
    <3>1. IsTree(Linked \ {first_timer}, next[first_timer], next, later, timeout)
      BY <1>3, <2>2, <2>3, TreeBehead
    <3> QED
      BY <1>3, <2>1, <2>2, <3>1
  <2>5. /\ L = IF "free" \in {"first", "free"} THEN Linked \ {t[c]} ELSE Linked \union {t[c]}
        /\ "free" \in {"run", "first", "next", "free"} /\ pc[c] # "run"
        /\ "free" \notin {"run", "next"}
        /\ \A y \in Linked : y # t[c] => later[y] = Later(pc, t, it)[y]
    BY <1>1, <2>2, <2>3
  <2>6. /\ first_timer' \in Pointers /\ next' \in [Pointers -> Pointers] /\ next'[Null] = Null
        /\ \A y \in Addrs : y \notin Linked \union {t[c]} => next'[y] = next[y]
    BY <1>3, <2>1, <2>2, <2>3
  <2>7. Rerouted(Linked, next, Later(pc, t, it), L, next', later)
    BY <2>1, <2>2 DEF Rerouted, Edge
  <2> QED
    BY <1>1, <2>1, <2>3, <2>4, <2>5, <2>6, <2>7, MovedInv
<1> QED
  BY <1>2, <1>3

LEMMA UnlinkKeeps ==
  ASSUME TimersInv, NEW c \in Clients, Unlink(c)
  PROVE  TimersInv'
<1>1. pc[c] = "unlink" /\ fault = "none" /\ Undisturbed
  BY DEF Unlink, At
<1> DEFINE sound == prev[c] \in ToSet(List) /\ next[prev[c]] = t[c]
<1>2. CASE ~sound
  BY <1>1, <1>2, TornKeeps DEF Unlink, Store
<1>3. CASE sound
  <2>1. /\ Moved(c, "free") /\ first_timer' = first_timer
        /\ next' = [next EXCEPT ![prev[c]] = next[t[c]]]
    BY <1>3 DEF Unlink, Store, Goto, Set, Moved
  <2>2. PICK later, x, L, p : /\ later = Later(pc, t, it) /\ x = t[c]
                              /\ L = Linked \ {x} /\ p = prev[c]
    OBVIOUS
  <2>3. /\ x \in Linked /\ x \in Pointers /\ x # Null /\ later[x] = Null /\ Linked \subseteq Addrs
        /\ next \in [Pointers -> Pointers] /\ next[Null] = Null /\ later \in [Pointers -> Pointers]
        /\ first_timer \in Pointers
        /\ IsTree(Linked, first_timer, next, later, timeout)
    BY <1>1, <2>2, ClientFacts DEF AsidePoints
  <2>4. p \in Linked /\ p \in Pointers /\ p # Null /\ next[p] = x
    <3>1. p \in Linked
      BY <1>3, <2>2, ListFacts
    <3> QED
      BY <1>3, <2>2, <2>3, <3>1, NullProperties
  <2>5. IsTree(L, first_timer', next', later, timeout)
    <3>1. IsTree(Linked \ {x}, first_timer, [next EXCEPT ![p] = next[x]], later, timeout)
      BY <2>3, <2>4, TreeUnlink
    <3> QED
      BY <2>1, <2>2, <3>1
  <2>6. /\ next' \in [Pointers -> Pointers] /\ next'[Null] = Null
        /\ \A y \in Pointers : y # p => next'[y] = next[y]
    BY <2>1, <2>2, <2>3, <2>4
  <2>7. /\ L = IF "free" \in {"first", "free"} THEN Linked \ {t[c]} ELSE Linked \union {t[c]}
        /\ "free" \in {"run", "first", "next", "free"} /\ pc[c] # "run"
        /\ "free" \notin {"run", "next"}
        /\ \A y \in Linked : y # t[c] => later[y] = Later(pc, t, it)[y]
    BY <1>1, <2>2, <2>3
  <2>8. /\ first_timer' \in Pointers
        /\ \A y \in Addrs : y \notin Linked \union {t[c]} => next'[y] = next[y]
    BY <2>1, <2>2, <2>3, <2>4, <2>6, NullProperties
  <2>9. Rerouted(Linked, next, Later(pc, t, it), L, next', later)
    <3>1. next'[p] = next[x] /\ x \notin L /\ later[x] = Null /\ next[p] = x
      BY <2>1, <2>2, <2>3, <2>4
    <3>2. \A y \in Linked : y \in Pointers /\ (y # p => next'[y] = next[y])
      BY <2>3, <2>6, NullProperties
    <3> QED
      BY <2>2, <3>1, <3>2 DEF Rerouted, Edge
  <2> QED
    BY <1>1, <2>1, <2>3, <2>5, <2>6, <2>7, <2>8, <2>9, MovedInv
<1> QED
  BY <1>2, <1>3

\* A step of a client that does not touch what is linked.
LEMMA StillTree ==
  ASSUME TimersInv, Types', Owned', NEW c \in Clients,
         \A d \in Clients : d # c => pc'[d] = pc[d] /\ t'[d] = t[d] /\ it'[d] = it[d],
         pc[c] # "next", pc'[c] # "next", first_timer' = first_timer,
         heap' \ ((Aside \ {t[c]}) \union (IF pc'[c] \in AsidePoints THEN {t'[c]} ELSE {})) = Linked,
         \A y \in Linked : next'[y] = next[y] /\ timeout'[y] = timeout[y],
         pc'[c] \notin SearchPoints, strayed' = strayed
  PROVE  LinkedTree' /\ OnCourse'
<1>1. PICK later, after : later = Later(pc, t, it) /\ after = Later(pc, t, it)'
  OBVIOUS
<1>2. /\ Aside' = (Aside \ {t[c]}) \union (IF pc'[c] \in AsidePoints THEN {t'[c]} ELSE {})
      /\ after \in [Pointers -> Pointers] /\ \A x \in Pointers : after[x] = later[x]
  BY <1>1, ClientFrame DEF TimersInv
<1>3. Linked' = Linked
  BY <1>2 DEF Linked
<1>4. \A y \in Linked : next'[y] = next[y] /\ after[y] = later[y] /\ timeout'[y] = timeout[y]
  BY <1>2, AsideFacts, NullProperties DEF TimersInv
<1>5. IsTree(Linked, first_timer, next', after, timeout')
  <2>1. IsTree(Linked, first_timer, next, later, timeout)
    BY <1>1 DEF TimersInv, LinkedTree
  <2>2. next' \in [Pointers -> Pointers] /\ timeout' \in [Addrs -> Nat]
    BY DEF Types
  <2> QED
    BY <1>2, <1>4, <2>1, <2>2, TreeFrame
<1>6. OnCourse'
  <2> SUFFICES ASSUME NEW d \in Clients PROVE Course(d)'
    BY DEF OnCourse
  <2>1. PICK L2 : L2 = Linked'
    OBVIOUS
  <2>2. L2 = Linked /\ L2 \in SUBSET Addrs
    BY <1>3, <2>1, AsideFacts DEF TimersInv
  <2>3. Rerouted(Linked, next, Later(pc, t, it), L2, next', after)
    BY <1>1, <1>4, <2>2 DEF Rerouted, Edge
  <2>4. pc'[d] \in SearchPoints /\ d \notin strayed' =>
          /\ pc[d] \in SearchPoints /\ d \notin strayed /\ it'[d] = it[d] /\ t'[d] = t[d]
          /\ it[d] \in L2 /\ t[d] \in L2 /\ (pc'[d] = "search" => it[d] # t[d])
    BY <2>2, SearchLinked
  <2> QED
    BY <1>1, <2>1, <2>2, <2>3, <2>4, CourseKept
<1> QED
  BY <1>1, <1>3, <1>5, <1>6 DEF LinkedTree

LEMMA RunKeeps ==
  ASSUME TimersInv, NEW c \in Tasks, Run(c)
  PROVE  TimersInv'
<1>1. /\ UNCHANGED <<ticks, cut, listVars, timerVars, asleep, localVars, strayed, fault>>
      /\ cur_task' = c /\ c \notin asleep /\ fault = "none"
  BY DEF Run, Quiet
<1>2. NullExplained'
  BY <1>1 DEF NullExplained
<1> QED
  BY <1>1, <1>2, FrozenKeeps

LEMMA FreeKeeps ==
  ASSUME TimersInv, NEW c \in Clients, Free(c)
  PROVE  TimersInv'
<1> DEFINE x == t[c]
<1>1. /\ pc[c] = "free" /\ fault = "none" /\ fault' = "none"
      /\ heap' = heap \ {x} /\ next' = [next EXCEPT ![x] = Null]
      /\ timeout' = [timeout EXCEPT ![x] = 0] /\ task' = [task EXCEPT ![x] = NoTask]
      /\ sleeper' = [sleeper EXCEPT ![x] = FALSE]
      /\ pc' = [pc EXCEPT ![c] = "run"] /\ t' = [t EXCEPT ![c] = Null]
      /\ UNCHANGED <<ticks, first_timer, cur_task, asleep, prev, it, own, strayed, cut>>
  BY DEF Free, FreeTimer, Goto, Set, At, Quiet
<1>2. /\ Types /\ Owned /\ Sleeping /\ LateBound
      /\ x \in Addrs /\ x \in Pointers /\ x # Null /\ x \in heap \ Sleepers
      /\ \A d \in Clients : t[d] = x => d = c
  BY <1>1, OneAtTimer, NullProperties DEF TimersInv
<1>3. x \in Aside /\ x \notin Linked
  BY <1>1 DEF Aside, Linked
<1> HIDE DEF x
<1>4. Types'
  <2>1. "run" \in Points
    BY DEF Points
  <2> QED
    BY <1>1, <1>2, <2>1, NullProperties DEF Types
<1>5. /\ Sleepers' = Sleepers /\ Sleepers \subseteq Addrs
      /\ \A y \in Sleepers : y # x /\ task'[y] = task[y] /\ timeout'[y] = timeout[y]
  BY <1>1, <1>2 DEF Sleepers, Types
<1>6. Sleeping' /\ LateBound'
  BY <1>1, <1>2, <1>5, SleepsFrame
<1>7. /\ pc'[c] = "run" /\ t'[c] = Null
      /\ \A d \in Clients : d # c => pc'[d] = pc[d] /\ t'[d] = t[d] /\ it'[d] = it[d]
      /\ \A y \in Pointers : y # x => next'[y] = next[y]
  BY <1>1, <1>2 DEF Types
<1>8. Owned'
  <2>1. \A d \in Clients : pc'[d] \in InsertPoints => next'[t'[d]] = Null
    <3>1. \A y \in Addrs : y \notin Linked \union {t[c]} => next'[y] = next[y]
      BY <1>7, NullProperties DEF x
    <3>2. "run" \notin InsertPoints
      BY DEF InsertPoints
    <3> QED
      BY <1>2, <1>7, <3>1, <3>2, UnsetFrame
  <2>2. ASSUME NEW d \in Clients
        PROVE  /\ own'[d] \subseteq heap' \ Sleepers'
               /\ \A e \in Clients : t'[e] \notin own'[d] /\ (d # e => own'[d] \intersect own'[e] = {})
               /\ IF pc'[d] = "run" THEN t'[d] = Null
                  ELSE t'[d] \in heap' \ Sleepers' /\ \A e \in Clients : e # d => t'[e] # t'[d]
    BY <1>1, <1>2, <1>5, <1>7, NullProperties DEF Owned, Types, x
  <2>3. ASSUME NEW d \in Clients
        PROVE  Cardinality(own'[d]) + (IF pc'[d] = "run" THEN 0 ELSE 1) <= MaxOwn
    <3>1. Cardinality(own[d]) + (IF pc[d] = "run" THEN 0 ELSE 1) <= MaxOwn
      BY <1>2 DEF Owned
    <3>2. Cardinality(own[d]) \in Nat /\ MaxOwn \in Nat
      BY <1>2, OwnFinite, TimersAssumption
    <3> QED
      BY <1>1, <1>7, <3>1, <3>2
  <2>4. \A y \in heap' \ Sleepers' : \E d \in Clients : y \in own'[d] \/ y = t'[d]
    BY <1>1, <1>2, <1>5, <1>7 DEF Owned, x
  <2> QED
    BY <2>1, <2>2, <2>3, <2>4 DEF Owned, InsertPoints
<1>9. LinkedTree' /\ OnCourse'
  <2>1. heap' \ ((Aside \ {t[c]}) \union (IF pc'[c] \in AsidePoints THEN {t'[c]} ELSE {})) = Linked
    BY <1>1, <1>3, <1>7 DEF Linked, AsidePoints, x
  <2>2. \A y \in Linked : next'[y] = next[y] /\ timeout'[y] = timeout[y]
    BY <1>1, <1>2, <1>3, <1>7, AsideFacts, NullProperties DEF Types
  <2>3. pc'[c] \notin SearchPoints
    BY <1>7 DEF SearchPoints
  <2> QED
    BY <1>1, <1>4, <1>7, <1>8, <2>1, <2>2, <2>3, StillTree
<1> QED
  BY <1>1, <1>4, <1>6, <1>8, <1>9 DEF TimersInv, NullExplained

LEMMA CreateKeeps ==
  ASSUME TimersInv, NEW c \in Clients, NEW n \in Callbacks, Create(c, n)
  PROVE  TimersInv'
<1> DEFINE x == Allocated
<1>1. /\ pc[c] = "run" /\ cur_task = c /\ fault = "none" /\ fault' = "none"
      /\ Cardinality(own[c]) < MaxOwn /\ ticks + n <= MaxTicks
      /\ heap' = heap \union {x} /\ next' = [next EXCEPT ![x] = Null]
      /\ timeout' = [timeout EXCEPT ![x] = ticks + n] /\ task' = [task EXCEPT ![x] = c]
      /\ sleeper' = [sleeper EXCEPT ![x] = FALSE]
      /\ pc' = [pc EXCEPT ![c] = "insert"] /\ t' = [t EXCEPT ![c] = x]
      /\ UNCHANGED <<ticks, first_timer, cur_task, asleep, prev, it, own, strayed, cut>>
  BY DEF Create, Fill, Goto, Set, At, Quiet
<1>2. /\ Types /\ Owned /\ Sleeping /\ LateBound /\ t[c] = Null
      /\ c \in Tasks /\ n \in Nat /\ x \in Addrs \ heap
  BY <1>1, RoomForOne, TimersAssumption DEF TimersInv, Owned
<1>3. /\ x \in Pointers /\ x # Null /\ x \notin Linked /\ x \notin Aside
      /\ \A d \in Clients : t[d] # x /\ x \notin own[d]
  <2>1. x \in Pointers /\ x # Null /\ x \notin Linked /\ x \notin Aside
    BY <1>2, AsideFacts, NullProperties
  <2>2. \A d \in Clients : t[d] # x /\ x \notin own[d]
    BY <1>2, <2>1 DEF Owned
  <2> QED
    BY <2>1, <2>2
<1> HIDE DEF x
<1>4. Types'
  <2>1. "insert" \in Points /\ ticks + n \in Nat
    BY <1>2 DEF Points, Types
  <2> QED
    BY <1>1, <1>2, <1>3, <2>1 DEF Types
<1>5. /\ Sleepers' = Sleepers /\ Sleepers \subseteq Addrs
      /\ \A y \in Sleepers : y # x /\ task'[y] = task[y] /\ timeout'[y] = timeout[y]
  BY <1>1, <1>2 DEF Sleepers, Types
<1>6. Sleeping' /\ LateBound'
  BY <1>1, <1>2, <1>5, SleepsFrame
<1>7. /\ pc'[c] = "insert" /\ t'[c] = x
      /\ \A d \in Clients : d # c => pc'[d] = pc[d] /\ t'[d] = t[d] /\ it'[d] = it[d]
      /\ next'[x] = Null /\ \A y \in Pointers : y # x => next'[y] = next[y]
  BY <1>1, <1>2, <1>3 DEF Types
<1>8. Owned'
  <2>1. \A d \in Clients : pc'[d] \in InsertPoints => next'[t'[d]] = Null
    <3> SUFFICES ASSUME NEW d \in Clients, d # c, pc[d] \in InsertPoints PROVE next'[t[d]] = Null
      BY <1>7
    <3>1. next[t[d]] = Null /\ t[d] # x /\ t[d] \in Pointers
      BY <1>2, <1>3 DEF Owned, InsertPoints, Types
    <3> QED
      BY <1>7, <3>1
  <2>2. ASSUME NEW d \in Clients
        PROVE  /\ own'[d] \subseteq heap' \ Sleepers'
               /\ \A e \in Clients : t'[e] \notin own'[d] /\ (d # e => own'[d] \intersect own'[e] = {})
               /\ IF pc'[d] = "run" THEN t'[d] = Null
                  ELSE t'[d] \in heap' \ Sleepers' /\ \A e \in Clients : e # d => t'[e] # t'[d]
    BY <1>1, <1>2, <1>3, <1>5, <1>7 DEF Owned
  <2>3. ASSUME NEW d \in Clients
        PROVE  Cardinality(own'[d]) + (IF pc'[d] = "run" THEN 0 ELSE 1) <= MaxOwn
    <3>1. Cardinality(own[d]) + (IF pc[d] = "run" THEN 0 ELSE 1) <= MaxOwn
      BY <1>2 DEF Owned
    <3>2. Cardinality(own[c]) \in Nat /\ MaxOwn \in Nat
      BY <1>2, OwnFinite, TimersAssumption
    <3> QED
      BY <1>1, <1>7, <3>1, <3>2
  <2>4. \A y \in heap' \ Sleepers' : \E d \in Clients : y \in own'[d] \/ y = t'[d]
    <3> SUFFICES ASSUME NEW y \in heap \ Sleepers PROVE \E d \in Clients : y \in own'[d] \/ y = t'[d]
      BY <1>1, <1>5, <1>7
    <3>1. y # Null
      BY <1>2, NullProperties DEF Types
    <3> QED
      BY <1>1, <1>2, <1>7, <3>1 DEF Owned
  <2> QED
    BY <2>1, <2>2, <2>3, <2>4 DEF Owned, InsertPoints
<1>9. LinkedTree' /\ OnCourse'
  <2>1. heap' \ ((Aside \ {t[c]}) \union (IF pc'[c] \in AsidePoints THEN {t'[c]} ELSE {})) = Linked
    <3>1. Null \notin heap /\ "insert" \in AsidePoints
      BY <1>2, AsideFacts DEF AsidePoints
    <3> QED
      BY <1>1, <1>2, <1>7, <3>1 DEF Linked
  <2>2. \A y \in Linked : next'[y] = next[y] /\ timeout'[y] = timeout[y]
    BY <1>1, <1>2, <1>3, <1>7, AsideFacts, NullProperties DEF Types
  <2>3. pc'[c] \notin SearchPoints
    BY <1>7 DEF SearchPoints
  <2> QED
    BY <1>1, <1>4, <1>7, <1>8, <2>1, <2>2, <2>3, StillTree
<1> QED
  BY <1>1, <1>4, <1>6, <1>8, <1>9 DEF TimersInv, NullExplained

\* A client reads the list and goes on in the call it is in.
LEMMA ReadKeeps ==
  ASSUME TimersInv, NEW c \in Clients, Reads(c),
         NEW p, NEW q \in Pointers, NEW r \in Pointers,
         pc' = [pc EXCEPT ![c] = p], it' = [it EXCEPT ![c] = q], prev' = [prev EXCEPT ![c] = r],
         \/ pc[c] \in InsertPoints /\ p \in InsertPoints
         \/ pc[c] \in SearchPoints /\ p \in SearchPoints \union {"unlink_first", "unlink"},
         \A d \in Clients : d # c /\ d \notin strayed' => d \notin strayed,
         p \in SearchPoints /\ c \notin strayed' =>
           /\ q \in Linked /\ (p = "search" => q # t[c])
           /\ Leads(Linked, next, Later(pc, t, it), q, t[c]),
         NullExplained'
  PROVE  TimersInv'
<1>1. UNCHANGED <<ticks, timerVars, cur_task, asleep, cut, listVars, t, own>>
  BY DEF Reads, Undisturbed, Quiet
<1>2. /\ Types /\ Owned /\ Sleeping /\ LateBound
      /\ pc[c] # "run" /\ pc[c] # "next" /\ p # "run" /\ p # "next" /\ p \in Points
      /\ p \in InsertPoints => pc[c] \in InsertPoints
      /\ p \in AsidePoints <=> pc[c] \in AsidePoints
  BY DEF TimersInv, InsertPoints, SearchPoints, AsidePoints, Points
<1>3. Types'
  BY <1>1, <1>2 DEF Types, listVars, timerVars
<1>4. /\ pc'[c] = p /\ it'[c] = q /\ Sleepers' = Sleepers
      /\ \A d \in Clients : d # c => pc'[d] = pc[d] /\ t'[d] = t[d] /\ it'[d] = it[d]
  BY <1>1, <1>2 DEF Types, Sleepers, timerVars
<1>5. Owned'
  <2>1. \A d \in Clients : /\ pc'[d] = "run" <=> pc[d] = "run"
                           /\ pc'[d] \in InsertPoints => pc[d] \in InsertPoints
    BY <1>2, <1>4
  <2> QED
    BY <1>1, <1>2, <1>4, <2>1 DEF Owned, timerVars, listVars
<1>6. Sleeping' /\ LateBound'
  BY <1>1, <1>2, <1>4, SleepsFrame DEF timerVars
<1>7. PICK later, after, L2 :
        later = Later(pc, t, it) /\ after = Later(pc, t, it)' /\ L2 = Linked'
  OBVIOUS
<1>8. after = later /\ L2 = Linked
  <2>1. /\ Aside' = (Aside \ {t[c]}) \union (IF pc'[c] \in AsidePoints THEN {t'[c]} ELSE {})
        /\ later \in [Pointers -> Pointers] /\ after \in [Pointers -> Pointers]
        /\ \A x \in Pointers :
             IF x \in {t[c], t'[c]}
             THEN /\ later[x] = IF pc[c] = "next" /\ t[c] = x THEN it[c] ELSE Null
                  /\ after[x] = IF pc'[c] = "next" /\ t'[c] = x THEN it'[c] ELSE Null
             ELSE after[x] = later[x]
    BY <1>2, <1>3, <1>4, <1>5, <1>7, ClientFrame
  <2>2. \A x \in Pointers : after[x] = later[x]
    BY <1>2, <1>4, <2>1
  <2>3. t[c] \in Aside <=> pc[c] \in AsidePoints
    <3>1. \A d \in Clients : t[d] = t[c] => d = c
      BY <1>2, OneAtTimer
    <3> QED
      BY <3>1 DEF Aside, AsidePoints
  <2>4. Aside' = Aside
    BY <1>1, <1>2, <1>4, <2>1, <2>3
  <2>5. after = later
    BY <2>1, <2>2
  <2>6. L2 = Linked
    BY <1>1, <1>7, <2>4 DEF Linked, timerVars
  <2> QED
    BY <2>5, <2>6
<1>9. LinkedTree'
  BY <1>1, <1>7, <1>8 DEF TimersInv, LinkedTree, listVars, timerVars
<1>10. OnCourse'
  <2> SUFFICES ASSUME NEW d \in Clients PROVE Course(d)'
    BY DEF OnCourse
  <2>1. CASE d = c
    <3>1. c \in Clients /\ t'[c] = t[c] /\ next' = next
      BY <1>1 DEF listVars
    <3> QED
      BY <1>4, <1>7, <1>8, <2>1, <3>1 DEF Course
  <2>2. CASE d # c
    <3>1. Course(d) /\ (d \notin strayed' => d \notin strayed) /\ next' = next
      BY <1>1, <2>2 DEF TimersInv, OnCourse, listVars
    <3>2. pc'[d] = pc[d] /\ t'[d] = t[d] /\ it'[d] = it[d]
      BY <1>4, <2>2
    <3> QED
      BY <1>7, <1>8, <3>1, <3>2 DEF Course
  <2> QED
    BY <2>1, <2>2
<1> QED
  BY <1>3, <1>5, <1>6, <1>9, <1>10 DEF TimersInv

\* The variables of a call are what they were.
LEMMA SameLocals ==
  ASSUME TimersInv, NEW c \in Clients
  PROVE  /\ pc = [pc EXCEPT ![c] = pc[c]] /\ it = [it EXCEPT ![c] = it[c]]
         /\ prev = [prev EXCEPT ![c] = prev[c]]
         /\ it[c] \in Pointers /\ prev[c] \in Pointers /\ first_timer \in Pointers
         /\ next[it[c]] \in Pointers
  BY DEF TimersInv, Types

\* The reads of timer_create.
LEMMA InsertReadsKeep ==
  ASSUME TimersInv, NEW c \in Clients,
         \/ InsertFind(c) \/ InsertCompare(c) \/ InsertIt(c) \/ InsertPrev(c)
         \/ InsertTest(c) \/ InsertStep(c)
  PROVE  TimersInv'
<1>1. /\ pc[c] \in {"insert", "compare", "it", "prev", "walk", "step"} /\ Reads(c)
      /\ fault = "none" /\ cur_task = c /\ strayed' = strayed
  BY DEF InsertFind, InsertCompare, InsertIt, InsertPrev, InsertTest, InsertStep, ReadFreed, At
<1>2. cur_task' = c
  BY <1>1 DEF Reads, Undisturbed
<1>3. NullExplained'
  <2>1. fault' = "null" => pc[c] = "compare" /\ pc'[c] = "compare"
    BY <1>1 DEF InsertFind, InsertCompare, InsertIt, InsertPrev, InsertTest, InsertStep,
                ReadFreed, At
  <2> QED
    BY <1>2, <2>1 DEF NullExplained
<1>s. /\ pc = [pc EXCEPT ![c] = pc[c]] /\ it = [it EXCEPT ![c] = it[c]]
      /\ prev = [prev EXCEPT ![c] = prev[c]] /\ pc[c] \in InsertPoints
      /\ it[c] \in Pointers /\ prev[c] \in Pointers /\ first_timer \in Pointers
      /\ next[it[c]] \in Pointers
  BY <1>1, SameLocals DEF InsertPoints
<1>i. {"insert", "compare", "it", "prev", "walk", "step", "empty", "head", "link"} = InsertPoints
  BY DEF InsertPoints
<1>4. \E p \in InsertPoints, q \in Pointers, r \in Pointers :
        /\ pc' = [pc EXCEPT ![c] = p] /\ it' = [it EXCEPT ![c] = q]
        /\ prev' = [prev EXCEPT ![c] = r]
  <2>2. CASE InsertFind(c)
    <3>1. /\ \E p \in {"empty", "compare"} : pc' = [pc EXCEPT ![c] = p]
          /\ it' = it /\ prev' = prev
      BY <2>2 DEF InsertFind, Goto
    <3>2. PICK p \in InsertPoints : pc' = [pc EXCEPT ![c] = p]
      BY <1>i, <3>1
    <3> QED
      BY <1>s, <3>1, <3>2
  <2>3. CASE InsertCompare(c)
    <3>1. /\ (\E p \in {"head", "it"} : pc' = [pc EXCEPT ![c] = p]) \/ pc' = pc
          /\ it' = it /\ prev' = prev
      BY <2>3 DEF InsertCompare, Goto
    <3>2. PICK p \in InsertPoints : pc' = [pc EXCEPT ![c] = p]
      BY <1>i, <1>s, <3>1
    <3> QED
      BY <1>s, <3>1, <3>2
  <2>4. CASE InsertIt(c)
    <3>1. /\ pc' = [pc EXCEPT ![c] = "prev"] /\ it' = [it EXCEPT ![c] = first_timer]
          /\ prev' = prev /\ "prev" \in InsertPoints
      BY <1>i, <2>4 DEF InsertIt, Goto, Set
    <3> QED
      BY <1>s, <3>1
  <2>5. CASE InsertPrev(c)
    <3>1. /\ \E p \in {"link", "walk"} : pc' = [pc EXCEPT ![c] = p]
          /\ it' = it /\ prev' = [prev EXCEPT ![c] = first_timer]
      BY <2>5 DEF InsertPrev, Goto, Set
    <3>2. PICK p \in InsertPoints : pc' = [pc EXCEPT ![c] = p]
      BY <1>i, <3>1
    <3> QED
      BY <1>s, <3>1, <3>2
  <2>6. CASE InsertTest(c)
    <3>1. /\ (\E p \in {"step", "link"} : pc' = [pc EXCEPT ![c] = p]) \/ pc' = pc
          /\ it' = it /\ prev' = prev
      BY <2>6 DEF InsertTest, Goto, ReadFreed
    <3>2. PICK p \in InsertPoints : pc' = [pc EXCEPT ![c] = p]
      BY <1>i, <1>s, <3>1
    <3> QED
      BY <1>s, <3>1, <3>2
  <2>7. CASE InsertStep(c)
    <3>1. CASE Dangling(c)
      <4>1. pc' = pc /\ it' = it /\ prev' = prev
        BY <2>7, <3>1 DEF InsertStep, ReadFreed
      <4> QED
        BY <1>s, <4>1
    <3>2. CASE ~Dangling(c)
      <4>1. /\ \E p \in {"link", "walk"} : pc' = [pc EXCEPT ![c] = p]
            /\ it' = [it EXCEPT ![c] = next[it[c]]] /\ prev' = [prev EXCEPT ![c] = it[c]]
        BY <2>7, <3>2 DEF InsertStep, Goto, Set
      <4>2. PICK p \in InsertPoints : pc' = [pc EXCEPT ![c] = p]
        BY <1>i, <4>1
      <4> QED
        BY <1>s, <4>1, <4>2
    <3> QED
      BY <3>1, <3>2
  <2> QED
    BY <2>2, <2>3, <2>4, <2>5, <2>6, <2>7
<1>5. PICK p \in InsertPoints, q \in Pointers, r \in Pointers :
        /\ pc' = [pc EXCEPT ![c] = p] /\ it' = [it EXCEPT ![c] = q]
        /\ prev' = [prev EXCEPT ![c] = r]
  BY <1>4
<1>6. pc[c] \in InsertPoints /\ p \notin SearchPoints
  BY <1>1, <1>5 DEF InsertPoints, SearchPoints
<1> QED
  BY <1>1, <1>3, <1>5, <1>6, ReadKeeps

LEMMA DeleteCheckKeeps ==
  ASSUME TimersInv, NEW c \in Clients, DeleteCheck(c)
  PROVE  TimersInv'
<1>1. /\ pc[c] = "check" /\ Reads(c) /\ fault' = "none" /\ it' = it /\ prev' = prev
      /\ \/ pc' = [pc EXCEPT ![c] = "unlink_first"] /\ strayed' = strayed \ {c}
         \/ pc' = [pc EXCEPT ![c] = "behind"] /\ strayed' = strayed
  BY DEF DeleteCheck, At, Goto
<1>2. PICK p \in {"unlink_first", "behind"} :
        /\ pc' = [pc EXCEPT ![c] = p] /\ strayed' \in {strayed, strayed \ {c}}
        /\ p = "behind" => strayed' = strayed
  BY <1>1
<1>3. NullExplained'
  BY <1>1 DEF NullExplained
<1>4. p \in SearchPoints /\ c \notin strayed' =>
        /\ it[c] \in Linked /\ (p = "search" => it[c] # t[c])
        /\ Leads(Linked, next, Later(pc, t, it), it[c], t[c])
  BY <1>1, <1>2 DEF SearchPoints, TimersInv, OnCourse, Course
<1>5. pc[c] \in SearchPoints /\ p \in SearchPoints \union {"unlink_first", "unlink"}
  BY <1>1, <1>2 DEF SearchPoints
<1>6. \A d \in Clients : d # c /\ d \notin strayed' => d \notin strayed
  BY <1>2
<1>7. /\ it' = [it EXCEPT ![c] = it[c]] /\ prev' = [prev EXCEPT ![c] = prev[c]]
      /\ it[c] \in Pointers /\ prev[c] \in Pointers
  BY <1>1, SameLocals
<1> QED
  BY <1>1, <1>2, <1>3, <1>4, <1>5, <1>6, <1>7, ReadKeeps

LEMMA DeletePrevKeeps ==
  ASSUME TimersInv, NEW c \in Clients, DeletePrev(c)
  PROVE  TimersInv'
<1>1. /\ pc[c] = "behind" /\ Reads(c) /\ fault' = "none" /\ it' = it
      /\ prev' = [prev EXCEPT ![c] = first_timer]
      /\ \/ pc' = [pc EXCEPT ![c] = "unlink"] /\ strayed' = strayed \ {c}
         \/ pc' = [pc EXCEPT ![c] = "search"] /\ strayed' = strayed /\ it[c] # t[c]
  BY DEF DeletePrev, At, Goto, Set
<1>2. PICK p \in {"unlink", "search"} :
        /\ pc' = [pc EXCEPT ![c] = p] /\ strayed' \in {strayed, strayed \ {c}}
        /\ p = "search" => strayed' = strayed /\ it[c] # t[c]
  BY <1>1
<1>3. NullExplained'
  BY <1>1 DEF NullExplained
<1>4. p \in SearchPoints /\ c \notin strayed' =>
        /\ it[c] \in Linked /\ (p = "search" => it[c] # t[c])
        /\ Leads(Linked, next, Later(pc, t, it), it[c], t[c])
  BY <1>1, <1>2 DEF SearchPoints, TimersInv, OnCourse, Course
<1>5. pc[c] \in SearchPoints /\ p \in SearchPoints \union {"unlink_first", "unlink"}
  BY <1>1, <1>2 DEF SearchPoints
<1>6. \A d \in Clients : d # c /\ d \notin strayed' => d \notin strayed
  BY <1>2
<1> QED
  BY <1>1, <1>2, <1>3, <1>4, <1>5, <1>6, SameLocals, ReadKeeps

\* From a timer whose t->next is set, a search on its course comes to the next one.
LEMMA DeleteStepKeeps ==
  ASSUME TimersInv, NEW c \in Clients, DeleteStep(c)
  PROVE  TimersInv'
<1>1. pc[c] = "search" /\ Reads(c) /\ fault = "none" /\ cur_task = c /\ cur_task' = c
  BY DEF DeleteStep, At, Reads, Undisturbed
<1>2. pc[c] \in SearchPoints
  BY <1>1 DEF SearchPoints
<1>3. CASE Dangling(c)
  <2>1. fault' = "freed" /\ pc' = pc /\ prev' = prev /\ it' = it /\ strayed' = strayed
    BY <1>3 DEF DeleteStep, ReadFreed
  <2>2. NullExplained'
    BY <2>1 DEF NullExplained
  <2>3. "search" \in SearchPoints /\ c \notin strayed' =>
          /\ it[c] \in Linked /\ ("search" = "search" => it[c] # t[c])
          /\ Leads(Linked, next, Later(pc, t, it), it[c], t[c])
    BY <1>1, <1>2, <2>1 DEF TimersInv, OnCourse, Course
  <2>4. pc' = [pc EXCEPT ![c] = "search"] /\ "search" \in SearchPoints
    BY <1>1, <1>2, <2>1, SameLocals
  <2>5. \A d \in Clients : d # c /\ d \notin strayed' => d \notin strayed
    BY <2>1
  <2>6. it' = [it EXCEPT ![c] = it[c]] /\ prev' = [prev EXCEPT ![c] = prev[c]]
        /\ it[c] \in Pointers /\ prev[c] \in Pointers
    BY <2>1, SameLocals
  <2> QED
    BY <1>1, <1>2, <2>2, <2>3, <2>4, <2>5, <2>6, ReadKeeps
<1>4. CASE ~Dangling(c)
  <2>1. PICK n : n = next[it[c]]
    OBVIOUS
  <2>2. PICK p : p = IF n = t[c] THEN "unlink" ELSE "search"
    OBVIOUS
  <2>3. /\ prev' = [prev EXCEPT ![c] = it[c]] /\ it' = [it EXCEPT ![c] = n]
        /\ pc' = [pc EXCEPT ![c] = p] /\ fault' = IF n = Null THEN "null" ELSE fault
        /\ strayed' = IF n = t[c] THEN strayed \ {c}
                      ELSE IF Unset(it[c]) THEN strayed \union {c} ELSE strayed
    BY <1>4, <2>1, <2>2 DEF DeleteStep, Goto, Set
  <2>4. ASSUME c \notin strayed, n # t[c], ~Unset(it[c])
        PROVE  n \in Linked /\ Leads(Linked, next, Later(pc, t, it), n, t[c])
    <3>1. PICK later, y : later = Later(pc, t, it) /\ y = it[c]
      OBVIOUS
    <3>2. y \in Linked /\ y # t[c] /\ Leads(Linked, next, later, y, t[c])
      BY <1>1, <1>2, <2>4, <3>1 DEF TimersInv, OnCourse, Course
    <3>3. IsTree(Linked, first_timer, next, later, timeout)
      BY <3>1 DEF TimersInv, LinkedTree
    <3>4. y \in Pointers /\ Linked \subseteq Pointers
      BY <3>2, <3>3, TreeEdges
    <3>5. later[y] = Null
      BY <2>4, <3>1, <3>4, LaterNow DEF TimersInv, Unset
    <3>6. \A z \in Pointers : Edge(next, later, y, z) => z = n /\ n # Null
      BY <2>1, <3>1, <3>5 DEF Edge
    <3>7. n # Null
      <4> SUFFICES ASSUME n = Null PROVE FALSE
        OBVIOUS
      <4>1. {y} \in SUBSET Linked /\ Closed({y}, next, later)
        BY <3>2, <3>6 DEF Closed
      <4> QED
        BY <3>2, <4>1 DEF Leads
    <3>8. n \in Linked
      <4>1. n \in Pointers /\ Edge(next, later, y, n)
        BY <2>1, <3>1, <3>7, SameLocals DEF Edge
      <4> QED
        BY <3>2, <3>3, <4>1, TreeEdges
    <3>9. Leads(Linked, next, later, n, t[c])
      <4> SUFFICES ASSUME NEW D \in SUBSET Linked, n \in D, Closed(D, next, later)
                   PROVE  t[c] \in D
        BY DEF Leads
      <4>1. Closed(D \union {y}, next, later)
        BY <3>6 DEF Closed
      <4>2. D \union {y} \in SUBSET Linked /\ y \in D \union {y}
        BY <3>2
      <4>3. t[c] \in D \union {y}
        BY <3>2, <4>1, <4>2 DEF Leads
      <4> QED
        BY <3>2, <4>3
    <3> QED
      BY <3>1, <3>8, <3>9
  <2>5. t[c] # Null
    BY <1>1, OneAtTimer DEF TimersInv
  <2>6. p \in SearchPoints /\ c \notin strayed' =>
          /\ n \in Linked /\ (p = "search" => n # t[c])
          /\ Leads(Linked, next, Later(pc, t, it), n, t[c])
    BY <2>2, <2>3, <2>4 DEF SearchPoints
  <2>7. NullExplained'
    <3> SUFFICES ASSUME n = Null PROVE c \in strayed'
      BY <1>1, <2>3 DEF NullExplained
    <3>1. Null \notin Linked
      BY AsideFacts DEF TimersInv
    <3> QED
      BY <2>3, <2>4, <2>5, <3>1
  <2>8. p \in SearchPoints \union {"unlink_first", "unlink"}
    BY <2>2 DEF SearchPoints
  <2>9. \A d \in Clients : d # c /\ d \notin strayed' => d \notin strayed
    BY <2>3
  <2>10. n \in Pointers /\ it[c] \in Pointers
    BY <2>1, SameLocals
  <2> QED
    BY <1>1, <1>2, <2>3, <2>6, <2>7, <2>8, <2>9, <2>10, ReadKeeps
<1> QED
  BY <1>3, <1>4

\* Whatever is linked, something is first: a timer of least rank follows none.
LEMMA TreeRoot ==
  ASSUME NEW L, NEW root, NEW nxt, NEW later, NEW when,
         IsTree(L, root, nxt, later, when), L # {}
  PROVE  root # Null
<1>1. PICK rank \in [Addrs -> Nat] : Tree(L, root, nxt, later, when, rank)
  BY DEF IsTree
<1> DEFINE Ranks == {rank[y] : y \in L}
<1>2. Ranks # {} /\ Ranks \in SUBSET Nat
  BY <1>1 DEF Tree
<1>3. PICK n \in Ranks : \A k \in Ranks : n <= k
  <2> HIDE DEF Ranks
  <2> QED
    BY <1>2, MinProperties
<1>4. PICK y \in L : \A z \in L : rank[y] <= rank[z]
  BY <1>3
<1>5. \A z \in L : z # Null /\ rank[z] \in Nat
  BY <1>1, NullProperties DEF Tree
<1> QED
  BY <1>1, <1>4, <1>5 DEF Tree

LEMMA DeleteFindKeeps ==
  ASSUME TimersInv, NEW c \in Clients, NEW x \in own[c], DeleteFind(c, x)
  PROVE  TimersInv'
<1>1. /\ pc[c] = "run" /\ fault' = "none" /\ t' = [t EXCEPT ![c] = x]
      /\ it' = [it EXCEPT ![c] = first_timer]
      /\ pc' = [pc EXCEPT ![c] = IF first_timer = Null THEN "run" ELSE "check"]
      /\ own' = [own EXCEPT ![c] = own[c] \ {x}]
      /\ UNCHANGED <<ticks, timerVars, cur_task, asleep, cut, listVars, prev, strayed>>
  BY DEF DeleteFind, At, Goto, Set, Undisturbed, Quiet, TimersInv, Types
<1>3. /\ Types /\ Owned /\ Sleeping /\ LateBound /\ t[c] = Null
      /\ x \in heap \ Sleepers /\ x \in Addrs /\ x \in Pointers /\ x # Null
      /\ \A d \in Clients : t[d] # x /\ (d # c => x \notin own[d])
  BY <1>1, NullProperties DEF TimersInv, Owned, Types
<1>4. x \in Linked
  BY <1>3 DEF Linked, Aside
<1>5. first_timer # Null /\ first_timer \in Linked
  <2>1. IsTree(Linked, first_timer, next, Later(pc, t, it), timeout)
    BY DEF TimersInv, LinkedTree
  <2>2. first_timer # Null
    BY <1>4, <2>1, TreeRoot
  <2>3. first_timer \in Linked \union {Null}
    BY <2>1 DEF IsTree, Tree
  <2> QED
    BY <2>2, <2>3
<1>6. NullExplained'
  BY <1>1 DEF NullExplained
<1>7. Types'
  <2>1. "check" \in Points
    BY DEF Points
  <2> QED
    BY <1>1, <1>3, <1>5, <2>1 DEF Types, listVars, timerVars
<1>8. /\ pc'[c] = "check" /\ t'[c] = x /\ it'[c] = first_timer
      /\ own'[c] = own[c] \ {x} /\ Sleepers' = Sleepers /\ heap' = heap
      /\ \A d \in Clients : d # c => /\ pc'[d] = pc[d] /\ t'[d] = t[d] /\ it'[d] = it[d]
                                     /\ own'[d] = own[d]
  BY <1>1, <1>3, <1>5 DEF Types, Sleepers, timerVars
<1>9. Owned'
  <2>1. \A d \in Clients : pc'[d] \in InsertPoints => next'[t'[d]] = Null
    BY <1>1, <1>3, <1>5, <1>8 DEF Owned, InsertPoints, listVars
  <2>2. ASSUME NEW d \in Clients
        PROVE  /\ own'[d] \subseteq heap' \ Sleepers'
               /\ \A e \in Clients : t'[e] \notin own'[d] /\ (d # e => own'[d] \intersect own'[e] = {})
               /\ IF pc'[d] = "run" THEN t'[d] = Null
                  ELSE t'[d] \in heap' \ Sleepers' /\ \A e \in Clients : e # d => t'[e] # t'[d]
    BY <1>3, <1>5, <1>8 DEF Owned
  <2>3. ASSUME NEW d \in Clients
        PROVE  Cardinality(own'[d]) + (IF pc'[d] = "run" THEN 0 ELSE 1) <= MaxOwn
    <3>1. Cardinality(own[d]) + (IF pc[d] = "run" THEN 0 ELSE 1) <= MaxOwn
      BY <1>3 DEF Owned
    <3>2. Cardinality(own[c]) \in Nat /\ Cardinality(own[c] \ {x}) = Cardinality(own[c]) - 1
      BY <1>3, OwnFinite, FS_RemoveElement
    <3> QED
      BY <1>1, <1>5, <1>8, <3>1, <3>2
  <2>4. \A y \in heap' \ Sleepers' : \E d \in Clients : y \in own'[d] \/ y = t'[d]
    <3> SUFFICES ASSUME NEW y \in heap \ Sleepers PROVE \E d \in Clients : y \in own'[d] \/ y = t'[d]
      BY <1>8
    <3>1. y # Null
      BY <1>3, NullProperties DEF Types
    <3> QED
      BY <1>3, <1>8, <3>1 DEF Owned
  <2> QED
    BY <2>1, <2>2, <2>3, <2>4 DEF Owned, InsertPoints
<1>10. Sleeping' /\ LateBound'
  BY <1>1, <1>3, <1>8, SleepsFrame DEF timerVars
<1>11. LinkedTree' /\ OnCourse'
  <2>1. PICK later, after, L2 :
          later = Later(pc, t, it) /\ after = Later(pc, t, it)' /\ L2 = Linked'
    OBVIOUS
  <2>2. /\ Aside' = (Aside \ {t[c]}) \union (IF pc'[c] \in AsidePoints THEN {t'[c]} ELSE {})
        /\ later \in [Pointers -> Pointers] /\ after \in [Pointers -> Pointers]
        /\ \A y \in Pointers :
             IF y \in {t[c], t'[c]}
             THEN /\ later[y] = IF pc[c] = "next" /\ t[c] = y THEN it[c] ELSE Null
                  /\ after[y] = IF pc'[c] = "next" /\ t'[c] = y THEN it'[c] ELSE Null
             ELSE after[y] = later[y]
    <3>1. \A d \in Clients : d # c => pc'[d] = pc[d] /\ t'[d] = t[d] /\ it'[d] = it[d]
      BY <1>8
    <3> QED
      BY <1>3, <1>7, <1>9, <2>1, <3>1, ClientFrame
  <2>3. after = later
    <3>1. \A y \in Pointers : after[y] = later[y]
      BY <1>1, <1>8, <2>2
    <3> QED
      BY <2>2, <3>1
  <2>4. L2 = Linked
    <3>1. Aside' = Aside \ {Null} /\ Null \notin heap
      BY <1>3, <1>8, <2>2, AsideFacts DEF AsidePoints
    <3> QED
      BY <1>8, <2>1, <3>1 DEF Linked
  <2>5. next' = next /\ first_timer' = first_timer /\ timeout' = timeout /\ strayed' = strayed
    BY <1>1 DEF listVars, timerVars
  <2>6. LinkedTree'
    BY <2>1, <2>3, <2>4, <2>5 DEF TimersInv, LinkedTree
  <2>7. Leads(Linked, next, later, first_timer, x)
    BY <1>4, <2>1, RootLeads DEF TimersInv, LinkedTree
  <2>8. ASSUME NEW d \in Clients PROVE Course(d)'
    <3>1. CASE d = c
      BY <1>5, <1>8, <2>1, <2>3, <2>4, <2>5, <2>7, <3>1 DEF Course
    <3>2. CASE d # c
      <4>1. Course(d) /\ pc'[d] = pc[d] /\ t'[d] = t[d] /\ it'[d] = it[d]
        BY <1>8, <3>2 DEF TimersInv, OnCourse
      <4> QED
        BY <2>1, <2>3, <2>4, <2>5, <4>1 DEF Course
    <3> QED
      BY <3>1, <3>2
  <2> QED
    BY <2>6, <2>8 DEF OnCourse
<1> QED
  BY <1>6, <1>7, <1>9, <1>10, <1>11 DEF TimersInv

-----------------------------------------------------------------------------
(***************************************************************************)
(* The invariant holds.                                                    *)
(***************************************************************************)

LEMMA TimersInit == Init => TimersInv
<1> SUFFICES ASSUME Init PROVE TimersInv
  OBVIOUS
<1>1. Sleepers = {} /\ Linked = {}
  BY DEF Init, Sleepers, Linked
<1>2. Types
  BY NullProperties, TimersAssumption DEF Init, Types, Points
<1>3. Owned
  <2>1. /\ Cardinality({}) = 0 /\ 0 <= MaxOwn /\ heap = {}
        /\ \A c \in Clients : pc[c] = "run" /\ t[c] = Null /\ own[c] = {}
    BY FS_EmptySet, TimersAssumption DEF Init
  <2>2. \A c \in Clients : pc[c] \notin InsertPoints
    BY <2>1 DEF InsertPoints
  <2> QED
    BY <2>1, <2>2 DEF Owned
<1>4. Sleeping /\ LateBound /\ NullExplained /\ OnCourse
  BY <1>1 DEF Init, Sleeping, LateBound, Late, NullExplained, OnCourse, Course, SearchPoints
<1>5. LinkedTree
  <2> DEFINE later == Later(pc, t, it)
             rank == [y \in Addrs |-> 0]
  <2>1. later \in [Pointers -> Pointers]
    BY <1>2, <1>3, LaterNow
  <2> HIDE DEF later
  <2>2. rank \in [Addrs -> Nat] /\ first_timer = Null
    BY DEF Init
  <2> HIDE DEF rank
  <2>3. Tree({}, first_timer, next, later, timeout, rank)
    BY <1>2, <2>1, <2>2 DEF Tree, Types
  <2> QED
    BY <1>1, <2>2, <2>3 DEF LinkedTree, IsTree, later
<1> QED
  BY <1>2, <1>3, <1>4, <1>5 DEF TimersInv

LEMMA TimersNext == TimersInv /\ [Next]_timersVars => TimersInv'
<1> SUFFICES ASSUME TimersInv, [Next]_timersVars PROVE TimersInv'
  OBVIOUS
<1>1. ASSUME NEW c \in Tasks, Run(c) PROVE TimersInv'
  BY <1>1, RunKeeps
<1>2. ASSUME NEW c \in Tasks, NEW n \in Sleeps, Sleep(c, n) PROVE TimersInv'
  BY <1>2, SleepKeeps
<1>3. ASSUME Tick(cur_task) \/ Tick(NoTask) PROVE TimersInv'
  BY <1>3, TickKeeps
<1>4. ASSUME TickWake PROVE TimersInv'
  BY <1>4, TickWakeKeeps
<1>5. ASSUME NEW c \in Clients, NEW n \in Callbacks, Create(c, n) PROVE TimersInv'
  BY <1>5, CreateKeeps
<1>6. ASSUME NEW c \in Clients, NEW x \in own[c], DeleteFind(c, x) PROVE TimersInv'
  BY <1>6, DeleteFindKeeps
<1>7. ASSUME NEW c \in Clients, ClientStep(c) PROVE TimersInv'
  <2>1. CASE \/ InsertFind(c) \/ InsertCompare(c) \/ InsertIt(c) \/ InsertPrev(c)
             \/ InsertTest(c) \/ InsertStep(c)
    BY <2>1, InsertReadsKeep
  <2>10. CASE DeleteCheck(c)
    BY <2>10, DeleteCheckKeeps
  <2>11. CASE DeletePrev(c)
    BY <2>11, DeletePrevKeeps
  <2>12. CASE DeleteStep(c)
    BY <2>12, DeleteStepKeeps
  <2>2. CASE InsertEmpty(c)
    BY <2>2, InsertEmptyKeeps
  <2>3. CASE InsertHead(c)
    BY <2>3, InsertHeadKeeps
  <2>4. CASE InsertFirst(c)
    BY <2>4, InsertFirstKeeps
  <2>5. CASE InsertLink(c)
    BY <2>5, InsertLinkKeeps
  <2>6. CASE InsertNext(c)
    BY <2>6, InsertNextKeeps
  <2>7. CASE UnlinkFirst(c)
    BY <2>7, UnlinkFirstKeeps
  <2>8. CASE Unlink(c)
    BY <2>8, UnlinkKeeps
  <2>9. CASE Free(c)
    BY <2>9, FreeKeeps
  <2> QED
    BY <1>7, <2>1, <2>2, <2>3, <2>4, <2>5, <2>6, <2>7, <2>8, <2>9, <2>10, <2>11, <2>12
    DEF ClientStep
<1>8. ASSUME UNCHANGED timersVars PROVE TimersInv'
  <2>1. /\ UNCHANGED <<ticks, cut, listVars, timerVars, asleep, localVars, strayed>>
        /\ cur_task' = cur_task /\ fault' = fault
    BY <1>8 DEF timersVars
  <2>2. cur_task' \in (Tasks \ asleep) \union {NoTask} /\ NullExplained'
    BY <2>1 DEF TimersInv, Types, NullExplained, localVars
  <2> QED
    BY <2>1, <2>2, FrozenKeeps
<1> QED
  BY <1>1, <1>2, <1>3, <1>4, <1>5, <1>6, <1>7, <1>8 DEF Next

LEMMA TimersInductive == Spec => []TimersInv
<1> QED
  BY TimersInit, TimersNext, PTL DEF Spec

-----------------------------------------------------------------------------
(***************************************************************************)
(* What follows.                                                           *)
(***************************************************************************)

\* Whatever the tasks do to the timer list of os/timer.c, every sleeping task has one
\* timer in it, every other timer has a client that can delete it, and malloc has
\* found room for each.
THEOREM TimersTypeCorrect == Spec => []TimersTypeOK
<1> QED
  BY TimersInductive, TypesOK, PTL

\* As long as no store of timer_create or timer_delete in a task was stale, the list
\* holds every timer that is linked, once and in the order of the timeouts, wherever
\* traps and other tasks came between its statements.
THEOREM ListAlwaysIntact == Spec => []ListIntact
<1> QED
  BY TimersInductive, IntactOK, PTL

\* timer_check never calls the NULL func of a sleep, and timer_delete runs off the list
\* only if its search went on from a timer that had left the list, or whose t->next was
\* still to be set. Whatever else follows a NULL pointer is timer_create, where it reads
\* first_timer again after it has found a timer there.
THEOREM NullAlwaysExplained == Spec => []NullExplained
<1>1. TimersInv => NullExplained
  BY DEF TimersInv
<1> QED
  BY <1>1, TimersInductive, PTL

\* The sleeps in front of a callback, or of a sleep, that is late: each tick since the
\* last that found the list cut has ended one of them, and there are no more of them
\* than tasks.
LEMMA FewInFront ==
  ASSUME TimersInv, NEW x \in Sleepers, NEW m \in Nat, timeout[x] <= m, cut <= m
  PROVE  ticks < m + Cardinality(Tasks)
<1>1. /\ Cardinality(Late(m)) \in Nat /\ Cardinality(Tasks) \in Nat /\ IsFiniteSet(Late(m))
      /\ x \in Late(m) /\ ticks \in Nat /\ cut \in Nat
  <2>1. Types /\ Sleeping
    BY DEF TimersInv
  <2>2. x \in Late(m) /\ ticks \in Nat /\ cut \in Nat
    BY <2>1 DEF Late, Types
  <2> QED
    BY <2>1, <2>2, LateCount
<1>2. Cardinality(Late(m)) # 0
  BY <1>1, FS_EmptySet
<1>3. SUFFICES ASSUME m <= ticks PROVE ticks < m + Cardinality(Tasks)
  <2>1. Cardinality(Tasks) # 0
    BY <1>1, <1>2, LateCount DEF TimersInv
  <2> QED
    BY <1>1, <1>3, <2>1
<1>4. m \in cut..ticks
  BY <1>1, <1>3
<1>5. Cardinality(Late(m)) + (ticks - m) <= Cardinality(Tasks)
  BY <1>1, <1>4 DEF TimersInv, LateBound
<1> QED
  BY <1>1, <1>2, <1>5

\* No sleep that is over lasts for as many ticks as there are tasks, counted from its
\* timeout or from the last tick that found the list cut in two: timer_check may wake
\* but one task at a tick, yet wakes the one that is due first.
WokenInTime ==
  \A x \in heap : sleeper[x] =>
    ticks < timeout[x] + Cardinality(Tasks) \/ ticks < cut + Cardinality(Tasks)

\* A tick may end one sleep only, and a client may hold the list cut in two: whoever
\* sleeps is woken within as many ticks as there are tasks all the same.
THEOREM SleepsEnd == Spec => []WokenInTime
<1>1. TimersInv => WokenInTime
  <2> SUFFICES ASSUME TimersInv, NEW x \in heap, sleeper[x]
               PROVE  ticks < timeout[x] + Cardinality(Tasks) \/ ticks < cut + Cardinality(Tasks)
    BY DEF WokenInTime
  <2>1. x \in Sleepers /\ timeout[x] \in Nat /\ cut \in Nat
    BY DEF Sleepers, TimersInv, Types
  <2>2. CASE cut <= timeout[x]
    BY <2>1, <2>2, FewInFront
  <2>3. CASE timeout[x] <= cut
    BY <2>1, <2>3, FewInFront
  <2> QED
    BY <2>1, <2>2, <2>3
<1> QED
  BY <1>1, TimersInductive, PTL

\* timer_check returns at the first sleep that is over, and calls none of the
\* callbacks behind it: a callback that is due is called all the same at every tick
\* after as many as there are tasks, whether the task of its timer sleeps or not.
THEOREM CallbacksBounded == Spec => CallbackBound
<1> DEFINE Bounded ==
      ticks' # ticks =>
        \A x \in ToSet(List) :
          (/\ ~sleeper[x]
           /\ timeout[x] + Cardinality(Tasks) < ticks'
           /\ cut + Cardinality(Tasks) < ticks') => x \in called'
<1>1. ASSUME TimersInv, [Next]_timersVars PROVE Bounded
  <2> SUFFICES ASSUME ticks' # ticks, NEW x \in ToSet(List), ~sleeper[x],
                      timeout[x] + Cardinality(Tasks) < ticks',
                      cut + Cardinality(Tasks) < ticks'
               PROVE  x \in called'
    OBVIOUS
  <2>0. /\ Len(List) \in Nat /\ \A i \in 1..Len(List) : List[i] \in Linked
        /\ \A i, j \in 1..Len(List) : i < j => timeout[List[i]] <= timeout[List[j]]
        /\ Linked \subseteq Addrs /\ Linked \subseteq heap
        /\ Cardinality(Tasks) \in Nat /\ ticks \in Nat /\ cut \in Nat
        /\ timeout \in [Addrs -> Nat]
        /\ Now \in Nat /\ (Now = ticks \/ Now = ticks + 1)
    <3>1. Types /\ Owned /\ cut \in 0..ticks /\ ticks \in 0..MaxTicks /\ MaxTicks \in Nat
      BY <1>1, TimersAssumption DEF TimersInv, Types
    <3>2. Now \in Nat /\ (Now = ticks \/ Now = ticks + 1)
      BY <3>1, NowFacts
    <3>3. Cardinality(Tasks) \in Nat
      BY FS_CardinalityType, TimersAssumption
    <3>4. Linked \subseteq Addrs /\ Linked \subseteq heap /\ timeout \in [Addrs -> Nat]
      BY <3>1, AsideFacts DEF Types
    <3>5. /\ Len(List) \in Nat /\ \A i \in 1..Len(List) : List[i] \in Linked
          /\ \A i, j \in 1..Len(List) : i < j => timeout[List[i]] <= timeout[List[j]]
      BY <1>1, ListFacts
    <3> QED
      BY <3>1, <3>2, <3>3, <3>4, <3>5
  <2>1. PICK k \in 1..Len(List) : x = List[k]
    BY <1>1, ListFacts
  <2>2. CASE Tick(cur_task) \/ Tick(NoTask)
    <3>1. ticks' = Now /\ called' = {List[i] : i \in Due(List, Now)}
      BY <2>2 DEF Tick
    <3>2. ASSUME NEW j \in 1..k PROVE timeout[List[j]] <= Now
      <4>1. j \in 1..Len(List) /\ (j = k \/ j < k)
        BY <2>0
      <4>2. timeout[List[j]] \in Nat /\ timeout[List[k]] \in Nat /\ timeout[List[j]] <= timeout[List[k]]
        BY <2>0, <2>1, <4>1
      <4> QED
        BY <2>0, <2>1, <3>1, <4>2
    <3>3. k \in Due(List, Now)
      BY <3>2 DEF Due
    <3> QED
      BY <2>1, <3>1, <3>3
  <2>3. CASE TickWake
    <3>1. PICK i \in Over(List) : called' = {List[j] : j \in 1..i - 1}
      BY <2>3 DEF TickWake
    <3>2. ticks' = Now
      BY <2>3 DEF TickWake
    <3>3. i \in 1..Len(List) /\ sleeper[List[i]] /\ List[i] \in Sleepers
      BY <2>0 DEF Over, Due, Sleepers
    <3>4. CASE k < i
      <4>1. k \in 1..i - 1
        BY <2>0, <3>3, <3>4
      <4> QED
        BY <2>1, <3>1, <4>1
    <3>5. CASE i < k
      <4>1. /\ timeout[List[i]] <= timeout[x] /\ timeout[List[i]] \in Nat /\ timeout[x] \in Nat
            /\ ticks + 1 = Now
        BY <2>0, <2>1, <3>2, <3>3, <3>5
      <4>2. CASE cut <= timeout[x]
        <5>1. ticks < timeout[x] + Cardinality(Tasks)
          BY <1>1, <3>3, <4>1, <4>2, FewInFront
        <5> QED
          BY <2>0, <3>2, <4>1, <5>1
      <4>3. CASE timeout[x] <= cut
        <5>1. timeout[List[i]] <= cut
          BY <2>0, <4>1, <4>3
        <5>2. ticks < cut + Cardinality(Tasks)
          BY <1>1, <2>0, <3>3, <5>1, FewInFront
        <5> QED
          BY <2>0, <3>2, <4>1, <5>2
      <4> QED
        BY <2>0, <4>1, <4>2, <4>3
    <3> QED
      BY <2>0, <2>1, <3>3, <3>4, <3>5
  <2>4. CASE \E c \in Tasks : Run(c) \/ \E n \in Sleeps : Sleep(c, n)
    BY <2>4 DEF Run, Sleep
  <2>5. CASE \E c \in Clients : \/ \E n \in Callbacks : Create(c, n)
                                \/ \E y \in own[c] : DeleteFind(c, y)
    BY <2>5 DEF Create, DeleteFind, Undisturbed
  <2>6. CASE \E c \in Clients : ClientStep(c)
    BY <2>6 DEF ClientStep, InsertFind, InsertCompare, InsertIt, InsertPrev, InsertTest,
                InsertStep, InsertEmpty, InsertHead, InsertFirst, InsertLink, InsertNext,
                DeleteCheck, DeletePrev, DeleteStep, UnlinkFirst, Unlink, Free, Reads,
                Undisturbed
  <2>7. CASE UNCHANGED timersVars
    BY <2>7 DEF timersVars
  <2> QED
    BY <1>1, <2>2, <2>3, <2>4, <2>5, <2>6, <2>7 DEF Next
<1>2. TimersInv /\ [Next]_timersVars => [Bounded]_timersVars
  BY <1>1
<1> QED
  BY <1>2, TimersInductive, PTL DEF Spec, CallbackBound

=============================================================================
