----------------------------- MODULE ListLemmas -----------------------------
(***************************************************************************)
(* What InsertAt, RemoveAt, Min and ToSet return, stated once for the      *)
(* sequences that stand for the kernel's linked lists (the run queue and   *)
(* the timer list) and cited by name where the lists change.               *)
(***************************************************************************)
EXTENDS Integers, Sequences, FiniteSets, SequencesExt, SequenceTheorems,
        FiniteSetTheorems, WellFoundedInduction, TLAPS

\* A non-empty set of positions has a least element, and Min is that element.
LEMMA MinProperties ==
  ASSUME NEW S \in SUBSET Nat, S # {}
  PROVE  /\ Min(S) \in S
         /\ \A x \in S : Min(S) <= x
<1>1. \E x \in S : \A y \in S : ~(<<y, x>> \in OpToRel(<, Nat))
  BY WFMin, NatLessThanWellFounded
<1>2. PICK x \in S : \A y \in S : ~(<<y, x>> \in OpToRel(<, Nat))
  BY <1>1
<1>3. \A y \in S : ~(y < x)
  BY <1>2 DEF OpToRel
<1>4. \A y \in S : x =< y
  BY <1>3
<1> QED
  BY <1>4 DEF Min

\* A set of naturals that holds 0 and every successor holds them all: its
\* complement would have a least element.
LEMMA NatSetInduction ==
  ASSUME NEW S, 0 \in S, \A n \in Nat : n \in S => n + 1 \in S
  PROVE  Nat \subseteq S
<1>1. SUFFICES ASSUME Nat \ S # {} PROVE FALSE
  OBVIOUS
<1> DEFINE m == Min(Nat \ S)
<1>2. m \in Nat \ S /\ \A x \in Nat \ S : m <= x
  BY <1>1, MinProperties
<1> HIDE DEF m
<1>3. m # 0 /\ m - 1 \in Nat /\ m - 1 \notin Nat \ S
  BY <1>2
<1> QED
  BY <1>2, <1>3

\* The sequence with x put before position k.
LEMMA InsertAtProperties ==
  ASSUME NEW S, NEW s \in Seq(S), NEW k \in 1..Len(s) + 1, NEW x \in S
  PROVE  /\ InsertAt(s, k, x) \in Seq(S)
         /\ Len(InsertAt(s, k, x)) = Len(s) + 1
         /\ \A i \in 1..Len(s) + 1 :
              InsertAt(s, k, x)[i] =
                IF i < k THEN s[i] ELSE IF i = k THEN x ELSE s[i - 1]
<1> DEFINE a == SubSeq(s, 1, k - 1)
           b == SubSeq(s, k, Len(s))
<1>1. Len(s) \in Nat /\ k \in Int /\ k - 1 \in Int
  BY LenProperties
<1>2. /\ a \in Seq(S) /\ Len(a) = k - 1
      /\ \A i \in 1..k - 1 : a[i] = s[i]
  <2>1. \A i \in 1..k - 1 : s[i] \in S
    BY <1>1, ElementOfSeq
  <2> QED
    BY <1>1, <2>1, SubSeqProperties
<1>3. /\ b \in Seq(S) /\ Len(b) = Len(s) - k + 1
      /\ \A i \in 1..Len(s) - k + 1 : b[i] = s[k + i - 1]
  <2>1. \A i \in k..Len(s) : s[i] \in S
    BY <1>1, ElementOfSeq
  <2> QED
    BY <1>1, <2>1, SubSeqProperties
<1>4. <<x>> \in Seq(S) /\ Len(<<x>>) = 1 /\ <<x>>[1] = x
  OBVIOUS
<1> HIDE DEF a, b
<1> DEFINE c == a \o <<x>>
<1>5. /\ c \in Seq(S) /\ Len(c) = k
      /\ \A i \in 1..k : c[i] = IF i < k THEN s[i] ELSE x
  <2>1. /\ c \in Seq(S) /\ Len(c) = Len(a) + 1
        /\ \A i \in 1..Len(a) + 1 :
             c[i] = IF i <= Len(a) THEN a[i] ELSE <<x>>[i - Len(a)]
    BY <1>2, <1>4, ConcatProperties
  <2> HIDE DEF c
  <2>2. Len(c) = k
    BY <1>1, <1>2, <2>1
  <2>3. \A i \in 1..k : c[i] = IF i < k THEN s[i] ELSE x
    <3>1. TAKE i \in 1..k
    <3>2. CASE i < k
      BY <1>1, <1>2, <2>1, <3>2
    <3>3. CASE i = k
      <4>1. i - Len(a) = 1
        BY <1>1, <1>2, <3>3
      <4> QED
        BY <1>1, <1>2, <1>4, <2>1, <3>3, <4>1
    <3> QED
      BY <1>1, <3>2, <3>3
  <2> QED
    BY <2>1, <2>2, <2>3
<1> HIDE DEF c
<1> DEFINE d == c \o b
<1>6. /\ d \in Seq(S)
      /\ Len(d) = Len(s) + 1
      /\ \A i \in 1..Len(s) + 1 : d[i] =
           IF i <= k THEN c[i] ELSE b[i - k]
  <2>1. /\ d \in Seq(S)
        /\ Len(d) = Len(c) + Len(b)
        /\ \A i \in 1..Len(c) + Len(b) : d[i] =
             IF i <= Len(c) THEN c[i] ELSE b[i - Len(c)]
    BY <1>3, <1>5, ConcatProperties
  <2> HIDE DEF d
  <2>2. Len(c) = k /\ Len(c) + Len(b) = Len(s) + 1
    BY <1>1, <1>3, <1>5
  <2> QED
    BY <2>1, <2>2
<1> HIDE DEF d
<1>7. \A i \in 1..Len(s) + 1 : d[i] =
        IF i < k THEN s[i] ELSE IF i = k THEN x ELSE s[i - 1]
  <2>1. TAKE i \in 1..Len(s) + 1
  <2>2. CASE i <= k
    BY <1>1, <1>5, <1>6, <2>2
  <2>3. CASE i > k
    <3>1. i - k \in 1..Len(s) - k + 1
      BY <1>1, <2>3
    <3>2. b[i - k] = s[i - 1]
      BY <1>1, <1>3, <3>1
    <3> QED
      BY <1>1, <1>6, <2>3, <3>2
  <2> QED
    BY <1>1, <2>2, <2>3
<1> QED
  BY <1>6, <1>7 DEF InsertAt, a, b, c, d

\* The sequence without position k.
LEMMA RemoveAtProperties ==
  ASSUME NEW S, NEW s \in Seq(S), NEW k \in 1..Len(s)
  PROVE  /\ RemoveAt(s, k) \in Seq(S)
         /\ Len(RemoveAt(s, k)) = Len(s) - 1
         /\ \A i \in 1..Len(s) - 1 :
              RemoveAt(s, k)[i] = IF i < k THEN s[i] ELSE s[i + 1]
<1> DEFINE a == SubSeq(s, 1, k - 1)
           b == SubSeq(s, k + 1, Len(s))
<1>1. Len(s) \in Nat /\ k \in Int /\ k - 1 \in Int /\ k + 1 \in Int
  BY LenProperties
<1>2. /\ a \in Seq(S) /\ Len(a) = k - 1
      /\ \A i \in 1..k - 1 : a[i] = s[i]
  <2>1. \A i \in 1..k - 1 : s[i] \in S
    BY <1>1, ElementOfSeq
  <2> QED
    BY <1>1, <2>1, SubSeqProperties
<1>3. /\ b \in Seq(S) /\ Len(b) = Len(s) - k
      /\ \A i \in 1..Len(s) - k : b[i] = s[k + i]
  <2>1. \A i \in k + 1..Len(s) : s[i] \in S
    BY <1>1, ElementOfSeq
  <2>2. /\ b \in Seq(S)
        /\ Len(b) = IF k + 1 <= Len(s) THEN Len(s) - (k + 1) + 1 ELSE 0
        /\ \A i \in 1..Len(s) - (k + 1) + 1 : b[i] = s[(k + 1) + i - 1]
    BY <1>1, <2>1, SubSeqProperties
  <2> QED
    BY <1>1, <2>2
<1> HIDE DEF a, b
<1> DEFINE d == a \o b
<1>4. /\ d \in Seq(S) /\ Len(d) = Len(s) - 1
      /\ \A i \in 1..Len(s) - 1 :
           d[i] = IF i <= k - 1 THEN a[i] ELSE b[i - (k - 1)]
  <2>1. /\ d \in Seq(S) /\ Len(d) = Len(a) + Len(b)
        /\ \A i \in 1..Len(a) + Len(b) :
             d[i] = IF i <= Len(a) THEN a[i] ELSE b[i - Len(a)]
    BY <1>2, <1>3, ConcatProperties
  <2> HIDE DEF d
  <2>2. Len(a) = k - 1 /\ Len(a) + Len(b) = Len(s) - 1
    BY <1>1, <1>2, <1>3
  <2> QED
    BY <2>1, <2>2
<1> HIDE DEF d
<1>5. \A i \in 1..Len(s) - 1 : d[i] = IF i < k THEN s[i] ELSE s[i + 1]
  <2>1. TAKE i \in 1..Len(s) - 1
  <2>2. CASE i < k
    BY <1>1, <1>2, <1>4, <2>2
  <2>3. CASE i >= k
    <3>1. i - (k - 1) \in 1..Len(s) - k
      BY <1>1, <2>3
    <3>2. b[i - (k - 1)] = s[i + 1]
      BY <1>1, <1>3, <3>1
    <3> QED
      BY <1>1, <1>4, <2>3, <3>2
  <2> QED
    BY <1>1, <2>2, <2>3
<1> QED
  BY <1>1, <1>4, <1>5 DEF RemoveAt, a, b, d


\* The sequence without what lies behind position i and before position j + 1.
Splice(s, i, j) == SubSeq(s, 1, i) \o SubSeq(s, j + 1, Len(s))

\* It is made of elements of the sequence, in their order.
LEMMA SpliceProperties ==
  ASSUME NEW S, NEW s \in Seq(S), NEW i \in 0..Len(s), NEW j \in i + 1..Len(s) + 1,
         NEW d, d = Splice(s, i, j)
  PROVE  /\ d \in Seq(S)
         /\ \A m \in 1..Len(d) :
              \E n \in 1..Len(s) :
                d[m] = s[n] /\ n = (IF m <= i THEN m ELSE m + (j - i))
<1> DEFINE a == SubSeq(s, 1, i)
           b == SubSeq(s, j + 1, Len(s))
<1>1. Len(s) \in Nat /\ i \in Int /\ j \in Int /\ 1 \in Int /\ j + 1 \in Int
  BY LenProperties
<1>2. /\ a \in Seq(S) /\ Len(a) = i
      /\ \A k \in 1..i : a[k] = s[k]
  <2>1. \A k \in 1..i : s[k] \in S
    BY <1>1, ElementOfSeq
  <2> QED
    BY <1>1, <2>1, SubSeqProperties
<1>3. /\ b \in Seq(S)
      /\ Len(b) = (IF j <= Len(s) THEN Len(s) - j ELSE 0)
      /\ \A k \in 1..Len(s) - j : b[k] = s[j + k]
  <2>1. \A k \in j + 1..Len(s) : s[k] \in S
    BY <1>1, ElementOfSeq
  <2>2. /\ b \in Seq(S)
        /\ Len(b) = IF j + 1 <= Len(s) THEN Len(s) - (j + 1) + 1 ELSE 0
        /\ \A k \in 1..Len(s) - (j + 1) + 1 : b[k] = s[(j + 1) + k - 1]
    BY <1>1, <2>1, SubSeqProperties
  <2> QED
    BY <1>1, <2>2
<1>4. d = a \o b
  BY DEF Splice
<1> HIDE DEF a, b
<1>5. /\ d \in Seq(S) /\ Len(d) = Len(a) + Len(b)
      /\ \A m \in 1..Len(a) + Len(b) :
           d[m] = IF m <= Len(a) THEN a[m] ELSE b[m - Len(a)]
  <2> DEFINE c == a \o b
  <2>1. /\ c \in Seq(S) /\ Len(c) = Len(a) + Len(b)
        /\ \A m \in 1..Len(a) + Len(b) :
             c[m] = IF m <= Len(a) THEN a[m] ELSE b[m - Len(a)]
    BY <1>2, <1>3, ConcatProperties
  <2>2. d = c
    BY <1>4
  <2> HIDE DEF c
  <2> QED
    BY <2>1, <2>2
<1> HIDE <1>4
<1>8. Len(b) \in Nat
  BY <1>3, LenProperties
<1>6. ASSUME NEW m \in 1..Len(d), m <= i
      PROVE  m \in 1..Len(s) /\ d[m] = s[m]
  <2>1. m \in 1..i /\ m \in 1..Len(a) + Len(b) /\ m \in 1..Len(s)
    BY <1>1, <1>2, <1>5, <1>6, <1>8
  <2> QED
    BY <1>2, <1>5, <1>6, <2>1
<1>7. ASSUME NEW m \in 1..Len(d), ~(m <= i)
      PROVE  m + (j - i) \in 1..Len(s) /\ d[m] = s[m + (j - i)]
  <2>0. Len(d) = i + Len(b)
    BY <1>2, <1>5
  <2>1. m \in 1..Len(d)
    OBVIOUS
  <2>6. m \in Int /\ m <= i + Len(b) /\ m >= 1
    BY ONLY <1>1, <1>8, <2>0, <2>1
  <2>2. j <= Len(s) /\ Len(b) = Len(s) - j
    BY <1>1, <1>3, <1>7, <2>6
  <2>3. m - i \in 1..Len(s) - j /\ j + (m - i) = m + (j - i)
    BY <1>1, <1>7, <2>6, <2>2
  <2>4. d[m] = b[m - i]
    BY <1>2, <1>5, <1>7
  <2>5. b[m - i] = s[j + (m - i)]
    BY <1>3, <2>3
  <2> QED
    BY <1>1, <2>2, <2>3, <2>4, <2>5
<1> QED
  BY <1>5, <1>6, <1>7

-----------------------------------------------------------------------------
\* The members of a list are its elements at the positions 1..Len.
LEMMA ToSetElements ==
  ASSUME NEW S, NEW s \in Seq(S)
  PROVE  /\ ToSet(s) = {s[i] : i \in 1..Len(s)}
         /\ ToSet(s) \subseteq S
         /\ (ToSet(s) = {}) <=> (s = <<>>)
<1>1. DOMAIN s = 1..Len(s) /\ Len(s) \in Nat
  BY LenProperties
<1>2. ToSet(s) = {s[i] : i \in 1..Len(s)}
  BY <1>1 DEF ToSet
<1>3. ToSet(s) \subseteq S
  BY <1>2, ElementOfSeq
<1>4. ASSUME s # <<>> PROVE ToSet(s) # {}
  <2>1. 1 \in 1..Len(s)
    BY <1>4, EmptySeq
  <2> QED
    BY <1>2, <2>1
<1>5. ASSUME s = <<>> PROVE ToSet(s) = {}
  <2>1. Len(s) = 0
    BY <1>5, EmptySeq
  <2> QED
    BY <1>2, <2>1
<1> QED
  BY <1>2, <1>3, <1>4, <1>5

\* No element occurs twice.
Distinct(s) == \A i, j \in 1..Len(s) : s[i] = s[j] => i = j

\* Inserting an element adds it to the members and keeps them distinct.
LEMMA InsertAtMembers ==
  ASSUME NEW S, NEW s \in Seq(S), NEW k \in 1..Len(s) + 1, NEW x \in S
  PROVE  /\ ToSet(InsertAt(s, k, x)) = ToSet(s) \union {x}
         /\ Distinct(s) /\ x \notin ToSet(s) => Distinct(InsertAt(s, k, x))
<1> DEFINE r == InsertAt(s, k, x)
<1>1. /\ r \in Seq(S) /\ Len(r) = Len(s) + 1
      /\ \A i \in 1..Len(s) + 1 :
           r[i] = IF i < k THEN s[i] ELSE IF i = k THEN x ELSE s[i - 1]
  BY InsertAtProperties
<1>2. /\ Len(s) \in Nat
      /\ ToSet(s) = {s[i] : i \in 1..Len(s)}
      /\ ToSet(r) = {r[i] : i \in 1..Len(r)}
  BY <1>1, LenProperties, ToSetElements
<1> HIDE DEF r
<1>3. ToSet(r) \subseteq ToSet(s) \union {x}
  <2> SUFFICES ASSUME NEW i \in 1..Len(s) + 1
               PROVE  r[i] \in ToSet(s) \union {x}
    BY <1>1, <1>2
  <2>1. CASE i < k
    BY <1>1, <1>2, <2>1
  <2>2. CASE i = k
    BY <1>1, <1>2, <2>2
  <2>3. CASE i > k
    <3>1. i - 1 \in 1..Len(s) /\ r[i] = s[i - 1]
      BY <1>1, <1>2, <2>3
    <3> QED
      BY <1>2, <3>1
  <2> QED
    BY <1>2, <2>1, <2>2, <2>3
<1>4. x \in ToSet(r)
  <2>1. k \in 1..Len(r) /\ r[k] = x
    BY <1>1, <1>2
  <2> QED
    BY <1>2, <2>1
<1>5. ToSet(s) \subseteq ToSet(r)
  <2> SUFFICES ASSUME NEW i \in 1..Len(s)
               PROVE  s[i] \in ToSet(r)
    BY <1>2
  <2>1. CASE i < k
    <3>1. i \in 1..Len(r) /\ r[i] = s[i]
      BY <1>1, <1>2, <2>1
    <3> QED
      BY <1>2, <3>1
  <2>2. CASE i >= k
    <3>1. i + 1 \in 1..Len(r) /\ r[i + 1] = s[i]
      BY <1>1, <1>2, <2>2
    <3> QED
      BY <1>2, <3>1
  <2> QED
    BY <1>2, <2>1, <2>2
<1>6. ASSUME Distinct(s), x \notin ToSet(s)
      PROVE  Distinct(r)
  <2> SUFFICES ASSUME NEW i \in 1..Len(s) + 1, NEW j \in 1..Len(s) + 1,
                      i < j
               PROVE  r[i] # r[j]
    BY <1>1, <1>2 DEF Distinct
  <2>1. \A m \in 1..Len(s) : s[m] # x
    BY <1>2, <1>6
  <2>2. CASE j < k
    BY <1>1, <1>2, <1>6, <2>2 DEF Distinct
  <2>3. CASE j = k
    BY <1>1, <1>2, <2>1, <2>3
  <2>4. CASE j > k
    <3>1. j - 1 \in 1..Len(s) /\ r[j] = s[j - 1]
      BY <1>1, <1>2, <2>4
    <3>2. CASE i < k
      <4>1. i \in 1..Len(s) /\ r[i] = s[i] /\ i # j - 1
        BY <1>1, <1>2, <2>4, <3>2
      <4> QED
        BY <1>6, <3>1, <4>1 DEF Distinct
    <3>3. CASE i = k
      BY <1>1, <2>1, <3>1, <3>3
    <3>4. CASE i > k
      <4>1. i - 1 \in 1..Len(s) /\ r[i] = s[i - 1] /\ i - 1 # j - 1
        BY <1>1, <1>2, <3>4
      <4> QED
        BY <1>6, <3>1, <4>1 DEF Distinct
    <3> QED
      BY <1>2, <3>2, <3>3, <3>4
  <2> QED
    BY <1>2, <2>2, <2>3, <2>4
<1> QED
  BY <1>3, <1>4, <1>5, <1>6 DEF r

\* Removing a position of a list without repetitions removes its element.
LEMMA RemoveAtMembers ==
  ASSUME NEW S, NEW s \in Seq(S), NEW k \in 1..Len(s), Distinct(s)
  PROVE  /\ ToSet(RemoveAt(s, k)) = ToSet(s) \ {s[k]}
         /\ Distinct(RemoveAt(s, k))
<1> DEFINE r == RemoveAt(s, k)
<1>1. /\ r \in Seq(S) /\ Len(r) = Len(s) - 1
      /\ \A i \in 1..Len(s) - 1 : r[i] = IF i < k THEN s[i] ELSE s[i + 1]
  BY RemoveAtProperties
<1>2. /\ Len(s) \in Nat
      /\ ToSet(s) = {s[i] : i \in 1..Len(s)}
      /\ ToSet(r) = {r[i] : i \in 1..Len(r)}
  BY <1>1, LenProperties, ToSetElements
<1> HIDE DEF r
<1>3. \A i \in 1..Len(s) - 1 : \E m \in 1..Len(s) :
        m # k /\ r[i] = s[m] /\ m = (IF i < k THEN i ELSE i + 1)
  <2>1. TAKE i \in 1..Len(s) - 1
  <2>2. CASE i < k
    BY <1>1, <1>2, <2>2
  <2>3. CASE i >= k
    <3>1. i + 1 \in 1..Len(s) /\ i + 1 # k /\ r[i] = s[i + 1] /\ ~(i < k)
      BY <1>1, <1>2, <2>3
    <3> QED
      BY <3>1
  <2> QED
    BY <1>2, <2>2, <2>3
<1>4. ToSet(r) \subseteq ToSet(s) \ {s[k]}
  BY <1>1, <1>2, <1>3 DEF Distinct
<1>5. ToSet(s) \ {s[k]} \subseteq ToSet(r)
  <2> SUFFICES ASSUME NEW m \in 1..Len(s), m # k
               PROVE  s[m] \in ToSet(r)
    BY <1>2
  <2>1. CASE m < k
    <3>1. m \in 1..Len(r) /\ r[m] = s[m]
      BY <1>1, <1>2, <2>1
    <3> QED
      BY <1>2, <3>1
  <2>2. CASE m > k
    <3>1. m - 1 \in 1..Len(r) /\ r[m - 1] = s[m]
      BY <1>1, <1>2, <2>2
    <3> QED
      BY <1>2, <3>1
  <2> QED
    BY <1>2, <2>1, <2>2
<1>6. Distinct(r)
  <2> SUFFICES ASSUME NEW i \in 1..Len(s) - 1, NEW j \in 1..Len(s) - 1,
                      r[i] = r[j]
               PROVE  i = j
    BY <1>1, <1>2 DEF Distinct
  <2>1. PICK m \in 1..Len(s) : r[i] = s[m] /\ m = (IF i < k THEN i ELSE i + 1)
    BY <1>3
  <2>2. PICK n \in 1..Len(s) : r[j] = s[n] /\ n = (IF j < k THEN j ELSE j + 1)
    BY <1>3
  <2>3. m = n
    BY <2>1, <2>2 DEF Distinct
  <2> QED
    BY <1>2, <2>1, <2>2, <2>3
<1> QED
  BY <1>4, <1>5, <1>6 DEF r

-----------------------------------------------------------------------------
\* A member of a list without repetitions is removed where it is.
LEMMA RemoveFirstProperties ==
  ASSUME NEW S, NEW s \in Seq(S), Distinct(s), NEW k \in 1..Len(s)
  PROVE  RemoveFirst(s, s[k]) = RemoveAt(s, k)
<1> DEFINE x == s[k]
           I == {i \in 1..Len(s) : s[i] = x}
<1>1. I = {k}
  BY DEF Distinct
<1>2. Len(s) \in Nat /\ {k} \in SUBSET Nat
  BY LenProperties
<1>3. Min(I) = k
  BY <1>1, <1>2, MinProperties
<1>4. \E i \in 1..Len(s) : s[i] = x
  OBVIOUS
<1>5. SelectInSeq(s, LAMBDA v : v = x) = IF I # {} THEN Min(I) ELSE 0
  BY DEF SelectInSeq
<1>6. SelectInSeq(s, LAMBDA v : v = x) = k
  BY <1>1, <1>3, <1>5
<1> QED
  BY <1>4, <1>6 DEF RemoveFirst

\* What was inserted, and nothing else, is taken out again.
LEMMA RemoveInserted ==
  ASSUME NEW S, NEW q \in Seq(S), NEW k \in 1..Len(q) + 1, NEW x \in S
  PROVE  RemoveAt(InsertAt(q, k, x), k) = q
<1> DEFINE r == InsertAt(q, k, x)
           u == RemoveAt(r, k)
<1>1. Len(q) \in Nat
  BY LenProperties
<1>2. /\ r \in Seq(S) /\ Len(r) = Len(q) + 1
      /\ \A i \in 1..Len(q) + 1 : r[i] = IF i < k THEN q[i] ELSE IF i = k THEN x ELSE q[i - 1]
  BY InsertAtProperties
<1> HIDE DEF r
<1>3. /\ u \in Seq(S) /\ Len(u) = Len(r) - 1
      /\ \A i \in 1..Len(r) - 1 : u[i] = IF i < k THEN r[i] ELSE r[i + 1]
  BY <1>2, RemoveAtProperties
<1> HIDE DEF u
<1>4. Len(u) = Len(q)
  BY <1>1, <1>2, <1>3
<1>5. ASSUME NEW i \in 1..Len(q) PROVE u[i] = q[i]
  <2>1. CASE i < k
    BY <1>1, <1>2, <1>3, <2>1
  <2>2. CASE ~(i < k)
    <3>1. i + 1 \in 1..Len(q) + 1 /\ i + 1 > k /\ (i + 1) - 1 = i
      BY <1>1, <2>2
    <3>2. u[i] = r[i + 1]
      BY <1>1, <1>2, <1>3, <2>2
    <3>3. r[i + 1] = q[(i + 1) - 1]
      BY <1>1, <1>2, <3>1
    <3> QED
      BY <3>1, <3>2, <3>3
  <2> QED
    BY <2>1, <2>2
<1>6. u = q
  BY <1>3, <1>4, <1>5, SeqEqual
<1> QED
  BY <1>6 DEF u, r

=============================================================================
