---------------------------- MODULE ListingProofs -----------------------------
(***************************************************************************)
(* The inductive invariant of Listing, and its properties for every number *)
(* of keys, every division into folders, every limit, and any number of    *)
(* writes, pages and retries.                                              *)
(***************************************************************************)
EXTENDS ListingInduction, FiniteSetTheorems, SequenceTheorems, WellFoundedInduction, TLAPS

-------------------------------------------------------------------------------
(***************************************************************************)
(* Finite sets of numbers, by their cardinalities.                         *)
(***************************************************************************)
LEMMA LeastNumber ==
    ASSUME NEW S \in SUBSET Nat, S # {}
    PROVE  \E x \in S : \A y \in S : x <= y
<1> DEFINE R == OpToRel(<, Nat)
<1>1. IsWellFoundedOn(R, Nat) BY Zenon, NatLessThanWellFounded
<1>2. \A x, y \in Nat : x < y => <<x, y>> \in R BY Zenon DEF OpToRel
<1> HIDE DEF R
<1>3. PICK x \in S : \A y \in S : ~(<<y, x>> \in R) BY <1>1, WFMin
<1>4. \A y \in S : ~(y < x) BY <1>2, <1>3
<1> QED BY <1>4

\* The number of elements above x is least for the greatest element.
LEMMA GreatestNumber ==
    ASSUME NEW S \in SUBSET Nat, S # {}, IsFiniteSet(S)
    PROVE  \E x \in S : \A y \in S : y <= x
<1> DEFINE above(x) == {y \in S : x < y}
           sizes == {Cardinality(above(x)) : x \in S}
<1>1. ASSUME NEW x \in S PROVE IsFiniteSet(above(x)) /\ Cardinality(above(x)) \in Nat
  <2>1. above(x) \in SUBSET S OBVIOUS
  <2> HIDE DEF above
  <2> QED BY <2>1, FS_Subset, FS_CardinalityType
<1>2. ASSUME NEW x \in S, NEW y \in S, x < y
      PROVE  above(y) \in SUBSET above(x) /\ y \in above(x) /\ y \notin above(y)
  <2>1. x \in Nat /\ y \in Nat /\ \A z \in S : z \in Nat OBVIOUS
  <2>2. \A z \in S : y < z => x < z BY <1>2, <2>1
  <2>3. above(y) \subseteq above(x) BY <2>2
  <2>4. y \in above(x) BY <1>2
  <2>5. ~(y < y) BY <2>1
  <2>6. y \notin above(y) BY <2>5
  <2> QED BY <2>3, <2>4, <2>6
<1> HIDE DEF above
<1>3. sizes \in SUBSET Nat /\ sizes # {}
  <2>1. \A x \in S : Cardinality(above(x)) \in Nat BY <1>1
  <2>2. sizes \subseteq Nat BY <2>1
  <2> QED BY <2>2
<1>4. \A x \in S : Cardinality(above(x)) \in sizes OBVIOUS
<1>5. \A n \in sizes : \E x \in S : n = Cardinality(above(x)) OBVIOUS
<1> HIDE DEF sizes
<1>6. PICK n \in sizes : \A m \in sizes : n <= m BY <1>3, LeastNumber
<1>7. PICK x \in S : n = Cardinality(above(x)) BY <1>5
<1>8. ASSUME NEW y \in S, x < y PROVE FALSE
  <2>1. Cardinality(above(y)) <= Cardinality(above(x)) /\ Cardinality(above(y)) # Cardinality(above(x))
    BY <1>1, <1>2, <1>8, FS_Subset
  <2>2. Cardinality(above(x)) <= Cardinality(above(y)) BY <1>4, <1>6, <1>7
  <2> QED BY <1>1, <2>1, <2>2
<1> QED BY <1>8

-------------------------------------------------------------------------------
(***************************************************************************)
(* Sequences.                                                              *)
(***************************************************************************)
LEMMA TakeFacts ==
    ASSUME NEW S, NEW s \in Seq(S), NEW n \in Nat
    PROVE  /\ Take(s, n) \in Seq(S) /\ Len(Take(s, n)) \in Nat
           /\ DOMAIN Take(s, n) = 1..Len(Take(s, n))
           /\ Len(Take(s, n)) <= Len(s)
           /\ Len(Take(s, n)) = n \/ Len(Take(s, n)) = Len(s)
           /\ \A i \in DOMAIN Take(s, n) : i \in DOMAIN s /\ Take(s, n)[i] = s[i]
<1> DEFINE m == IF n < Len(s) THEN n ELSE Len(s)
<1>1. Len(s) \in Nat /\ DOMAIN s = 1..Len(s) BY LenProperties
<1>2. m \in Nat /\ m <= Len(s) BY <1>1
<1>3. m = n \/ m = Len(s) OBVIOUS
<1> HIDE DEF m
<1>4. \A i \in 1..m : i \in 1..Len(s) BY <1>1, <1>2
<1>5. /\ SubSeq(s, 1, m) \in Seq(S) /\ Len(SubSeq(s, 1, m)) = m
      /\ \A i \in 1..m : SubSeq(s, 1, m)[i] = s[i]
  <2>1. \A i \in 1..m : s[i] \in S BY <1>4, ElementOfSeq
  <2>2. /\ SubSeq(s, 1, m) \in Seq(S)
        /\ Len(SubSeq(s, 1, m)) = IF 1 <= m THEN m - 1 + 1 ELSE 0
        /\ \A i \in 1..(m - 1 + 1) : SubSeq(s, 1, m)[i] = s[1 + i - 1]
    <3>1. 1 \in Int /\ m \in Int BY <1>2
    <3> QED BY <2>1, <3>1, SubSeqProperties
  <2>3. (IF 1 <= m THEN m - 1 + 1 ELSE 0) = m /\ m - 1 + 1 = m BY <1>2
  <2>4. \A i \in 1..m : 1 + i - 1 = i BY <1>2
  <2> QED BY <2>2, <2>3, <2>4
<1>6. DOMAIN SubSeq(s, 1, m) = 1..m BY <1>5, LenProperties
<1>7. Take(s, n) = SubSeq(s, 1, m) BY DEF Take, m
<1> QED BY <1>1, <1>2, <1>3, <1>4, <1>5, <1>6, <1>7

LEMMA AppendFacts ==
    ASSUME NEW S, NEW s \in Seq(S), NEW e \in S
    PROVE  /\ Append(s, e) \in Seq(S) /\ Len(s) \in Nat
           /\ DOMAIN s = 1..Len(s) /\ DOMAIN Append(s, e) = 1..(Len(s) + 1)
           /\ \A i \in DOMAIN s : Append(s, e)[i] = s[i]
           /\ Append(s, e)[Len(s) + 1] = e
BY AppendProperties, LenProperties

LEMMA TailFacts ==
    ASSUME NEW S, NEW s \in Seq(S), s # << >>
    PROVE  /\ Tail(s) \in Seq(S) /\ s[1] \in S /\ 1 \in DOMAIN s
           /\ \A i \in DOMAIN Tail(s) :
                  i \in Nat /\ i + 1 \in DOMAIN s /\ 1 < i + 1 /\ Tail(s)[i] = s[i + 1]
           /\ \A i \in DOMAIN s \ {1} : \E j \in DOMAIN Tail(s) : i = j + 1 /\ Tail(s)[j] = s[i]
<1>1. Len(s) \in Nat /\ Len(s) # 0 /\ DOMAIN s = 1..Len(s) BY LenProperties, EmptySeq
<1>2. /\ Tail(s) \in Seq(S) /\ Len(Tail(s)) = Len(s) - 1
      /\ \A i \in 1..(Len(s) - 1) : Tail(s)[i] = s[i + 1]
  BY <1>1, HeadTailProperties
<1>3. DOMAIN Tail(s) = 1..(Len(s) - 1) BY <1>2, LenProperties
<1>4. ASSUME NEW i \in DOMAIN s \ {1}
      PROVE  \E j \in DOMAIN Tail(s) : i = j + 1 /\ Tail(s)[j] = s[i]
  <2>1. i - 1 \in DOMAIN Tail(s) /\ i = (i - 1) + 1 BY <1>1, <1>3
  <2> QED BY <1>2, <1>3, <2>1
<1>5. s[1] \in S /\ 1 \in DOMAIN s BY <1>1, ElementOfSeq
<1> QED BY <1>1, <1>2, <1>3, <1>4, <1>5

LEMMA ConcatFacts ==
    ASSUME NEW S, NEW s \in Seq(S), NEW t \in Seq(S)
    PROVE  /\ s \o t \in Seq(S) /\ Len(s) \in Nat /\ DOMAIN s = 1..Len(s) /\ DOMAIN t \subseteq Nat \ {0}
           /\ \A i \in DOMAIN s : i \in DOMAIN (s \o t) /\ (s \o t)[i] = s[i]
           /\ \A j \in DOMAIN t : Len(s) + j \in DOMAIN (s \o t) /\ (s \o t)[Len(s) + j] = t[j]
           /\ \A i \in DOMAIN (s \o t) :
                  \/ i \in DOMAIN s /\ (s \o t)[i] = s[i]
                  \/ \E j \in DOMAIN t : i = Len(s) + j /\ (s \o t)[i] = t[j]
<1>1. Len(s) \in Nat /\ DOMAIN s = 1..Len(s) /\ Len(t) \in Nat /\ DOMAIN t = 1..Len(t)
  BY LenProperties
<1>2. /\ s \o t \in Seq(S) /\ Len(s \o t) = Len(s) + Len(t)
      /\ \A i \in 1..(Len(s) + Len(t)) :
             (s \o t)[i] = IF i <= Len(s) THEN s[i] ELSE t[i - Len(s)]
  BY ConcatProperties
<1>3. DOMAIN (s \o t) = 1..(Len(s) + Len(t)) BY <1>2, LenProperties
<1>4. ASSUME NEW j \in DOMAIN t
      PROVE  Len(s) + j \in DOMAIN (s \o t) /\ (s \o t)[Len(s) + j] = t[j]
  <2>1. /\ Len(s) + j \in 1..(Len(s) + Len(t)) /\ ~(Len(s) + j <= Len(s))
        /\ (Len(s) + j) - Len(s) = j
    BY <1>1
  <2> QED BY <1>2, <1>3, <2>1
<1>5. ASSUME NEW i \in DOMAIN (s \o t), i \notin DOMAIN s
      PROVE  \E j \in DOMAIN t : i = Len(s) + j /\ (s \o t)[i] = t[j]
  <2>1. i - Len(s) \in DOMAIN t /\ i = Len(s) + (i - Len(s)) /\ ~(i <= Len(s))
    BY <1>1, <1>3, <1>5
  <2> QED BY <1>2, <1>3, <2>1
<1>6. \A i \in DOMAIN s : i \in DOMAIN (s \o t) /\ (s \o t)[i] = s[i] BY <1>1, <1>2, <1>3
<1> QED BY <1>1, <1>2, <1>4, <1>5, <1>6

-------------------------------------------------------------------------------
(***************************************************************************)
(* Keys, folders and their order.                                          *)
(***************************************************************************)
USE ListingAssumption

LEMMA ItemsAreFinite == IsFiniteSet(Items)
<1> DEFINE f == [k \in Keys |-> Folder[k]]
           T == {Folder[k] : k \in Keys}
<1>1. f \in Surjection(Keys, T) BY DEF Surjection
<1>2. IsFiniteSet(T)
  <2> HIDE DEF f, T
  <2> QED BY <1>1, FS_Surjection
<1>3. IsFiniteSet(Folders) BY <1>2, FS_Subset DEF Folders
<1> QED BY <1>3, FS_Union DEF Items

LEMMA FolderFacts ==
    ASSUME NEW g \in Folders
    PROVE  /\ g \notin Nat /\ g # None
           /\ First(g) \in Inside(g) /\ Final(g) \in Inside(g)
           /\ \A k \in Inside(g) : First(g) <= k /\ k <= Final(g)
           /\ Inside(g) \subseteq Keys
<1>1. g \notin Nat /\ g # None /\ Inside(g) # {} /\ Inside(g) \subseteq Keys
  BY DEF Folders, Inside
<1>2. Inside(g) \in SUBSET Nat /\ IsFiniteSet(Inside(g)) BY <1>1, FS_Subset
<1>3. \E x \in Inside(g) : \A y \in Inside(g) : x <= y BY <1>1, <1>2, LeastNumber
<1>4. \E x \in Inside(g) : \A y \in Inside(g) : x >= y
  <2>1. PICK x \in Inside(g) : \A y \in Inside(g) : y <= x BY <1>1, <1>2, GreatestNumber
  <2> QED BY <1>2, <2>1
<1>5. First(g) \in Inside(g) /\ \A y \in Inside(g) : First(g) <= y BY <1>3 DEF First
<1>6. Final(g) \in Inside(g) /\ \A y \in Inside(g) : Final(g) >= y BY <1>4 DEF Final
<1> QED BY <1>1, <1>2, <1>5, <1>6

LEMMA KeyFacts ==
    ASSUME NEW k \in Keys
    PROVE  /\ k \in Nat \ {0} /\ k \notin Folders /\ k # None
           /\ First(k) = k /\ Final(k) = k
           /\ Folder[k] # None => Folder[k] \in Folders /\ k \in Inside(Folder[k])
BY DEF First, Final, Folders, Inside

\* Every item begins and ends with a key.
LEMMA ItemFacts ==
    ASSUME NEW x \in Items
    PROVE  First(x) \in Keys /\ Final(x) \in Keys /\ First(x) <= Final(x)
<1>1. CASE x \in Keys BY <1>1, KeyFacts
<1>2. CASE x \in Folders
  <2>1. First(x) \in Inside(x) /\ Final(x) \in Inside(x) BY <1>2, FolderFacts
  <2> QED BY <1>2, <2>1, FolderFacts
<1> QED BY <1>1, <1>2 DEF Items

\* Two items, neither of which is a key in the folder that is the other, do
\* not overlap.
Separate(x, y) ==
    /\ x \in Folders => y \notin Inside(x)
    /\ y \in Folders => x \notin Inside(y)

LEMMA SeparateItems ==
    ASSUME NEW x \in Items, NEW y \in Items, x # y, Separate(x, y)
    PROVE  First(x) # First(y) /\ (First(x) < First(y) => Before(x, y))
<1>1. ASSUME NEW g \in Folders, NEW m \in Keys, First(g) <= m, m <= Final(g)
      PROVE  m \in Inside(g)
  <2>1. First(g) \in Keys /\ Final(g) \in Keys /\ Folder[First(g)] = g /\ Folder[Final(g)] = g
    BY FolderFacts DEF Inside
  <2>2. CASE m = First(g) \/ m = Final(g) BY <1>1, <2>2, FolderFacts
  <2>3. CASE First(g) < m /\ m < Final(g)
    <3>1. Folder[m] = g BY <2>1, <2>3, FolderFacts
    <3> QED BY <3>1 DEF Inside
  <2>4. First(g) \in Nat /\ Final(g) \in Nat /\ m \in Nat BY <2>1
  <2> QED BY <1>1, <2>2, <2>3, <2>4
<1>2. /\ First(x) \in Keys /\ First(y) \in Keys /\ Final(x) \in Keys /\ First(x) <= Final(x)
      /\ First(x) \in Nat /\ First(y) \in Nat /\ Final(x) \in Nat
  BY ItemFacts, KeyFacts
<1>3. ASSUME First(x) <= First(y), First(y) <= Final(x) PROVE FALSE
  <2>1. CASE x \in Keys
    <3>1. First(y) = x BY <1>2, <1>3, <2>1, KeyFacts
    <3>2. CASE y \in Keys BY <3>1, <3>2, KeyFacts
    <3>3. CASE y \in Folders BY <3>1, <3>3, FolderFacts DEF Separate
    <3> QED BY <3>2, <3>3 DEF Items
  <2>2. CASE x \in Folders
    <3>1. First(y) \in Inside(x) BY <1>1, <1>2, <1>3, <2>2
    <3>2. CASE y \in Keys BY <2>2, <3>1, <3>2, KeyFacts DEF Separate
    <3>3. CASE y \in Folders BY <3>1, <3>3, FolderFacts DEF Inside
    <3> QED BY <3>2, <3>3 DEF Items
  <2> QED BY <2>1, <2>2 DEF Items
<1>4. First(x) # First(y) BY <1>2, <1>3
<1> QED BY <1>2, <1>3, <1>4 DEF Before

\* Of a folder, a set that is apart has the prefix or the keys.
Apart(items) == items \subseteq Items /\ \A g \in items \cap Folders : Inside(g) \cap items = {}

LEMMA ApartFacts ==
    ASSUME NEW items, Apart(items), NEW x \in items, NEW y \in items, x # y
    PROVE  /\ x \in Items /\ y \in Items
           /\ First(x) # First(y) /\ (First(x) < First(y) => Before(x, y))
<1>1. Separate(x, y) /\ x \in Items /\ y \in Items BY DEF Apart, Separate
<1> QED BY <1>1, SeparateItems

\* Items are put in order by the number of items before them.
LEMMA OrderExists ==
    ASSUME NEW items, Apart(items)
    PROVE  /\ Cardinality(items) \in Nat /\ IsFiniteSet(items)
           /\ \E s \in [1..Cardinality(items) -> items] :
                  \A i, j \in DOMAIN s : i < j => First(s[i]) < First(s[j])
<1> DEFINE n == Cardinality(items)
           before(x) == {y \in items : First(y) < First(x)}
           r == [x \in items |-> 1 + Cardinality(before(x))]
<1>1. IsFiniteSet(items) /\ n \in Nat
  BY ItemsAreFinite, FS_Subset, FS_CardinalityType DEF Apart
<1>2. ASSUME NEW x \in items
      PROVE  /\ IsFiniteSet(before(x)) /\ Cardinality(before(x)) \in Nat /\ Cardinality(before(x)) < n
             /\ First(x) \in Nat
  <2>1. First(x) \in Nat BY ItemFacts DEF Apart
  <2>2. before(x) \subseteq items /\ x \notin before(x) BY <2>1
  <2> HIDE DEF before
  <2>3. IsFiniteSet(before(x)) /\ Cardinality(before(x)) \in Nat
        /\ Cardinality(before(x)) <= n /\ Cardinality(before(x)) # n
    BY <1>1, <2>2, FS_Subset, FS_CardinalityType
  <2> QED BY <1>1, <2>1, <2>3
<1>3. ASSUME NEW x \in items, NEW y \in items, First(x) < First(y) PROVE r[x] < r[y]
  <2>1. before(x) \in SUBSET before(y) /\ x \in before(y) /\ x \notin before(x)
    <3>1. \A z \in items : First(z) \in Nat BY <1>2
    <3> QED BY <1>3, <3>1
  <2>2. Cardinality(before(x)) < Cardinality(before(y))
    <3> HIDE DEF before
    <3>1. Cardinality(before(x)) <= Cardinality(before(y)) /\ Cardinality(before(x)) # Cardinality(before(y))
      BY <1>2, <2>1, FS_Subset
    <3> QED BY <1>2, <3>1
  <2> QED BY <1>2, <2>2
<1>4. r \in [items -> 1..n]
  <2> HIDE DEF before, n
  <2>1. \A x \in items : 1 + Cardinality(before(x)) \in 1..n BY <1>1, <1>2
  <2> QED BY <2>1
<1> HIDE DEF n, r, before
<1>5. r \in Injection(items, 1..n)
  <2>1. ASSUME NEW x \in items, NEW y \in items, r[x] = r[y], x # y PROVE FALSE
    <3>1. First(x) < First(y) \/ First(y) < First(x) BY <1>2, <2>1, ApartFacts
    <3>2. r[x] \in Nat /\ r[y] \in Nat BY <1>1, <1>4
    <3> QED BY <1>3, <2>1, <3>1, <3>2
  <2> QED BY <1>4, <2>1 DEF Injection, IsInjective
<1>6. IsFiniteSet(1..n) /\ Cardinality(1..n) = n BY <1>1, FS_Interval
<1>7. r \in Surjection(items, 1..n) BY <1>1, <1>5, <1>6, FS_Injection DEF n
<1> DEFINE s == [i \in 1..n |-> CHOOSE x \in items : r[x] = i]
<1>8. ASSUME NEW i \in 1..n PROVE s[i] \in items /\ r[s[i]] = i
  <2>1. \E x \in items : r[x] = i BY <1>7 DEF Surjection
  <2> QED BY <2>1
<1>9. s \in [1..n -> items] BY <1>8
<1>10. DOMAIN s = 1..n OBVIOUS
<1> HIDE DEF s
<1>11. ASSUME NEW i \in 1..n, NEW j \in 1..n, i < j PROVE First(s[i]) < First(s[j])
  <2>1. First(s[i]) \in Nat /\ First(s[j]) \in Nat BY <1>2, <1>8
  <2>2. s[i] # s[j] /\ ~(First(s[j]) < First(s[i]))
    BY <1>1, <1>3, <1>8, <1>11
  <2> QED BY <1>8, <2>1, <2>2, ApartFacts
<1> QED BY <1>1, <1>9, <1>10, <1>11 DEF n

LEMMA InOrderFacts ==
    ASSUME NEW items, Apart(items)
    PROVE  /\ InOrder(items) \in Seq(items) /\ Len(InOrder(items)) \in Nat
           /\ DOMAIN InOrder(items) = 1..Len(InOrder(items))
           /\ \A i \in DOMAIN InOrder(items) : InOrder(items)[i] \in items
           /\ \A i, j \in DOMAIN InOrder(items) :
                  i < j => /\ First(InOrder(items)[i]) < First(InOrder(items)[j])
                           /\ Before(InOrder(items)[i], InOrder(items)[j])
           /\ \A i, j \in DOMAIN InOrder(items) : InOrder(items)[i] = InOrder(items)[j] => i = j
           /\ \A x \in items : \E i \in DOMAIN InOrder(items) : InOrder(items)[i] = x
<1> DEFINE n == Cardinality(items)
           s == InOrder(items)
<1>1. n \in Nat /\ IsFiniteSet(items) BY OrderExists
<1>2. s \in [1..n -> items] /\ \A i, j \in DOMAIN s : i < j => First(s[i]) < First(s[j])
  BY OrderExists DEF InOrder
<1> HIDE DEF n, s
<1>3. s \in Seq(items) /\ Len(s) = n /\ DOMAIN s = 1..n BY <1>1, <1>2
<1>4. \A i \in DOMAIN s : s[i] \in items /\ First(s[i]) \in Nat
  BY <1>2, <1>3, ItemFacts DEF Apart
<1>5. ASSUME NEW i \in DOMAIN s, NEW j \in DOMAIN s, s[i] = s[j] PROVE i = j
  <2>1. ~(First(s[i]) < First(s[j])) /\ ~(First(s[j]) < First(s[i])) BY <1>4, <1>5
  <2>2. i \in Nat /\ j \in Nat BY <1>1, <1>3
  <2> QED BY <1>2, <2>1, <2>2
<1>6. ASSUME NEW i \in DOMAIN s, NEW j \in DOMAIN s, i < j PROVE Before(s[i], s[j])
  <2>1. First(s[i]) < First(s[j]) /\ s[i] # s[j] BY <1>2, <1>4, <1>6
  <2> QED BY <1>4, <2>1, ApartFacts
<1>7. s \in Injection(1..n, items) BY <1>2, <1>3, <1>5 DEF Injection, IsInjective
<1>8. Cardinality(1..n) = n BY <1>1, FS_Interval
<1>9. s \in Surjection(1..n, items) BY <1>1, <1>7, <1>8, FS_Injection DEF n
<1>10. \A x \in items : \E i \in DOMAIN s : s[i] = x BY <1>3, <1>9 DEF Surjection
<1> QED BY <1>1, <1>2, <1>3, <1>4, <1>5, <1>6, <1>10 DEF s

\* Part of what is apart is apart.
LEMMA ApartSubset ==
    ASSUME NEW items, Apart(items), NEW some \in SUBSET items
    PROVE  Apart(some)
BY DEF Apart

-------------------------------------------------------------------------------
(***************************************************************************)
(* What the backends put in order.                                         *)
(***************************************************************************)
LEMMA ItemOf ==
    ASSUME NEW k \in Keys
    PROVE  /\ Item(k) \in Items
           /\ Item(k) \in Folders <=> RollsUp(k)
           /\ Item(k) \in Folders => Item(k) = Folder[k] /\ k \in Inside(Item(k))
           /\ Item(k) \notin Folders => Item(k) = k
           /\ First(Item(k)) <= k /\ k <= Final(Item(k))
<1>1. CASE RollsUp(k)
  <2>1. Item(k) = Folder[k] /\ Folder[k] \in Folders /\ k \in Inside(Folder[k])
    BY <1>1, KeyFacts DEF Item, RollsUp
  <2> QED BY <1>1, <2>1, FolderFacts DEF Items
<1>2. CASE ~RollsUp(k)
  <2>1. Item(k) = k BY <1>2 DEF Item
  <2> QED BY <1>2, <2>1, KeyFacts DEF Items
<1> QED BY <1>1, <1>2

LEMMA ItemsApart ==
    ASSUME NEW ks \in SUBSET Keys
    PROVE  Apart({Item(k) : k \in ks})
<1> DEFINE items == {Item(k) : k \in ks}
<1>1. items \subseteq Items BY ItemOf
<1>2. ASSUME NEW g \in items \cap Folders, NEW m \in Inside(g), m \in items PROVE FALSE
  <2>1. PICK k \in ks : Item(k) = g OBVIOUS
  <2>2. PICK j \in ks : Item(j) = m BY <1>2
  <2>3. m \in Keys /\ m \notin Folders BY FolderFacts, KeyFacts
  <2>4. j = m /\ ~RollsUp(m) BY <2>2, <2>3, ItemOf
  <2>5. RollsUp(k) /\ Folder[k] = g /\ Folder[m] = g BY <2>1, ItemOf DEF Inside
  <2> QED BY <2>4, <2>5 DEF RollsUp
<1> QED BY <1>1, <1>2 DEF Apart

LEMMA NamesApart ==
    ASSUME TypeOK, NEW g \in Folders \cup {None}
    PROVE  Apart({k \in Present : Folder[k] = g} \cup IF g = None THEN dirs ELSE {})
<1>1. Present \subseteq Keys /\ dirs \subseteq Folders BY DEF Present, TypeOK
<1>2. \A k \in Keys : k \notin Folders BY KeyFacts
<1>3. \A h \in Folders : h # None /\ Inside(h) \subseteq Keys /\ \A m \in Inside(h) : Folder[m] = h
  BY FolderFacts DEF Inside
<1> QED BY <1>1, <1>2, <1>3 DEF Apart, Items

LEMMA NamesFacts ==
    ASSUME TypeOK, NEW g \in Folders \cup {None}
    PROVE  /\ NamesIn(g) \in Seq(Items)
           /\ \A i \in DOMAIN NamesIn(g) :
                  \/ NamesIn(g)[i] \in Present /\ Folder[NamesIn(g)[i]] = g
                  \/ NamesIn(g)[i] \in dirs /\ g = None
           /\ \A i, j \in DOMAIN NamesIn(g) : i < j => Before(NamesIn(g)[i], NamesIn(g)[j])
           /\ \A k \in Present : Folder[k] = g => \E i \in DOMAIN NamesIn(g) : NamesIn(g)[i] = k
           /\ g = None => \A d \in dirs : \E i \in DOMAIN NamesIn(g) : NamesIn(g)[i] = d
<1> DEFINE top == IF g = None THEN dirs ELSE {}
           names == {k \in Present : Folder[k] = g} \cup top
<1>0. \A x : x \in top <=> g = None /\ x \in dirs BY Zenon
<1>1. Apart(names) BY NamesApart
<1>2. names \subseteq Items BY <1>1 DEF Apart
<1>6. NamesIn(g) = InOrder(names) BY DEF NamesIn
<1> HIDE DEF top
<1>3. \A x \in names : (x \in Present /\ Folder[x] = g) \/ (x \in dirs /\ g = None) BY <1>0
<1>4. \A k \in Present : Folder[k] = g => k \in names OBVIOUS
<1>5. g = None => \A d \in dirs : d \in names BY <1>0
<1> HIDE DEF names
<1>7. NamesIn(g) \in Seq(names) BY <1>1, <1>6, InOrderFacts
<1>8. NamesIn(g) \in Seq(Items) BY <1>2, <1>7, SeqMonotonic
<1>9. /\ \A i \in DOMAIN NamesIn(g) : NamesIn(g)[i] \in names
      /\ \A i, j \in DOMAIN NamesIn(g) : i < j => Before(NamesIn(g)[i], NamesIn(g)[j])
      /\ \A x \in names : \E i \in DOMAIN NamesIn(g) : NamesIn(g)[i] = x
  BY <1>1, <1>6, InOrderFacts
<1> QED BY <1>3, <1>4, <1>5, <1>8, <1>9

-------------------------------------------------------------------------------
(***************************************************************************)
(* The steps. What the entries are, whatever the backend.                  *)
(***************************************************************************)
\* An entry of which ListedWasThere holds.
WasThere(e) ==
    IF e.item \in Folders
    THEN backend = "file" \/ \E k \in Inside(e.item) : ever[k] # {}
    ELSE /\ e.etag \in ever[e.item]
         /\ e.meta \in ever[e.item] \cup {None}
         /\ e.meta # None => e.etag <= e.meta
         /\ e.meta # e.etag => backend = "s3"

LEMMA EntryFacts ==
    ASSUME NEW x \in Items, NEW version \in Nat, NEW meta \in Nat \cup {None}
    PROVE  /\ Entry(x, version, meta) \in Entries
           /\ Entry(x, version, meta).item = x
           /\ Entry(x, version, meta).etag = version
           /\ Entry(x, version, meta).meta = meta
BY DEF Entry, Entries

LEMMA PrefixFacts ==
    ASSUME NEW g \in Folders
    PROVE  Prefix(g) \in Entries /\ Prefix(g).item = g
BY DEF Prefix, Entry, Entries, Items

LEMMA ListedFacts ==
    ASSUME TypeOK, StoreOK, NEW k \in Present
    PROVE  /\ Listed(k) \in Entries /\ Listed(k).item = k /\ WasThere(Listed(k))
           /\ k \in Keys /\ object[k] \in Nat /\ object[k] \in ever[k]
           /\ \A version \in ever[k] : version \in Nat /\ version <= object[k]
<1>1. /\ k \in Keys /\ k \in Items /\ object[k] \in Nat /\ object[k] \in ever[k]
      /\ ever[k] \subseteq Nat
      /\ \A version \in ever[k] : version <= object[k]
  BY DEF Present, Items, TypeOK, StoreOK
<1>2. /\ Listed(k) \in Entries /\ Listed(k).item = k
      /\ Listed(k).etag = object[k] /\ Listed(k).meta = object[k]
  BY <1>1, EntryFacts DEF Listed
<1>3. k \notin Folders /\ object[k] <= object[k] BY <1>1, KeyFacts
<1>4. WasThere(Listed(k)) BY <1>1, <1>2, <1>3 DEF WasThere
<1> QED BY <1>1, <1>2, <1>4

\* The options do not change during a call, nor what they ask for.
LEMMA SameCall ==
    ASSUME UNCHANGED <<backend, options>>
    PROVE  /\ \A k : RollsUp(k)' = RollsUp(k) /\ Matching(k)' = Matching(k) /\ Item(k)' = Item(k)
           /\ Limit' = Limit
BY DEF RollsUp, Matching, Item, Delimited, Limit

LEMMA LimitFacts ==
    ASSUME TypeOK
    PROVE  Limit \in Nat \ {0} /\ (options.limit # None => options.limit = Limit)
BY DEF TypeOK, Limit, Options

\* A folder that is put in the listing for a key is of an object that was there.
LEMMA PrefixWasThere ==
    ASSUME TypeOK, StoreOK, NEW k \in Present, Item(k) \in Folders
    PROVE  WasThere(Prefix(Item(k)))
<1>1. k \in Keys /\ object[k] \in ever[k] BY ListedFacts
<1>2. k \in Inside(Item(k)) /\ ever[k] # {} BY <1>1, ItemOf
<1> QED BY <1>2, PrefixFacts DEF WasThere

-------------------------------------------------------------------------------
(***************************************************************************)
(* The in-memory backend.                                                  *)
(***************************************************************************)
LEMMA MemoryStep ==
    ASSUME IInv, ListMemory
    PROVE  IInv'
<1> DEFINE ks == {k \in Present : Matching(k)}
           items == {Item(k) : k \in ks}
           found == InOrder(items)
           all == [i \in 1..Len(found) |-> IF found[i] \in Folders THEN Prefix(found[i])
                                           ELSE Listed(found[i])]
<1>1. /\ TypeOK /\ ResultOK /\ StoreOK
      /\ backend = "memory" /\ phase = "asking" /\ phase' = "ok"
      /\ entries' = IF options.limit = None THEN all ELSE Take(all, options.limit)
      /\ UNCHANGED <<object, dirs, backend, options, retries, token, more, left, writes, ever, always>>
  BY DEF IInv, ListMemory, history
<1>2. ks \in SUBSET Keys /\ \A k \in ks : k \in Present /\ Matching(k) BY DEF Present
<1>3. \A x \in items : \E k \in ks : Item(k) = x OBVIOUS
<1>4. \A k \in Present : Matching(k) => Item(k) \in items OBVIOUS
<1> HIDE DEF ks
<1>5. Apart(items) BY <1>2, ItemsApart
<1> HIDE DEF items
<1>6. /\ Len(found) \in Nat /\ DOMAIN found = 1..Len(found)
      /\ \A i \in DOMAIN found : found[i] \in items
      /\ \A i, j \in DOMAIN found : i < j => First(found[i]) < First(found[j])
      /\ \A i, j \in DOMAIN found : found[i] = found[j] => i = j
      /\ \A x \in items : \E i \in DOMAIN found : found[i] = x
  BY <1>5, InOrderFacts
<1> HIDE DEF found
<1>7. ASSUME NEW i \in 1..Len(found)
      PROVE  all[i] \in Entries /\ all[i].item = found[i] /\ found[i] \in Items /\ WasThere(all[i])
  <2>1. PICK k \in ks : Item(k) = found[i] BY <1>3, <1>6
  <2>2. k \in Keys /\ k \in Present /\ found[i] \in Items BY <1>2, <2>1, ItemOf
  <2>3. CASE found[i] \in Folders
    <3>1. all[i] = Prefix(found[i]) BY <2>3
    <3> QED BY <1>1, <2>1, <2>2, <2>3, <3>1, PrefixFacts, PrefixWasThere
  <2>4. CASE found[i] \notin Folders
    <3>1. all[i] = Listed(found[i]) /\ found[i] = k BY <2>1, <2>2, <2>4, ItemOf
    <3> QED BY <1>1, <2>2, <3>1, ListedFacts
  <2> QED BY <2>3, <2>4
<1>8. DOMAIN all = 1..Len(found) OBVIOUS
<1> HIDE DEF all
<1>9. all \in Seq(Entries) /\ Len(all) = Len(found)
  <2>1. all \in [1..Len(found) -> Entries]
    <3>1. \A i \in 1..Len(found) : all[i] \in Entries BY <1>7
    <3>2. all = [i \in 1..Len(found) |-> all[i]] BY DEF all
    <3> QED BY <3>1, <3>2
  <2> QED BY <1>6, <2>1
<1>10. /\ entries' \in Seq(Entries) /\ DOMAIN entries' = 1..Len(entries') /\ Len(entries') \in Nat
       /\ Len(entries') = Len(found) \/ Len(entries') = Limit
       /\ \A i \in DOMAIN entries' : i \in 1..Len(found) /\ entries'[i] = all[i]
  <2>1. CASE options.limit = None
    <3>1. entries' = all BY <1>1, <2>1
    <3> QED BY <1>6, <1>8, <1>9, <3>1
  <2>2. CASE options.limit # None
    <3>1. options.limit = Limit /\ Limit \in Nat /\ entries' = Take(all, Limit)
      BY <1>1, <2>2, LimitFacts
    <3> HIDE DEF Limit
    <3> QED BY <1>8, <1>9, <3>1, TakeFacts
  <2> QED BY <2>1, <2>2
<1>11. \A i \in DOMAIN entries' :
           /\ i \in DOMAIN found /\ entries'[i].item = found[i] /\ entries'[i].item \in Items
           /\ WasThere(entries'[i])
  BY <1>6, <1>7, <1>10
<1>12. TypeOK' BY <1>1, <1>11 DEF TypeOK, Items, Present
<1>13. ResultOK' BY <1>1, <1>10 DEF ResultOK
<1>14. StoreOK' BY <1>1 DEF StoreOK, Present
<1>15. PagesOK' /\ WalkOK' BY <1>1 DEF PagesOK, WalkOK
<1>16. ListsWhatStays'
  <2> SUFFICES ASSUME NEW k \in always, Matching(k)
               PROVE  \/ \E i \in DOMAIN entries' : entries'[i].item = Item(k)
                      \/ /\ Len(entries') = Limit
                         /\ \A i \in DOMAIN entries' : First(entries'[i].item) < First(Item(k))
    BY <1>1, SameCall DEF ListsWhatStays
  <2>1. k \in Present BY <1>1 DEF TypeOK
  <2>2. PICK j \in DOMAIN found : found[j] = Item(k) BY <1>4, <1>6, <2>1
  <2>3. CASE j \in DOMAIN entries' BY <1>11, <2>2, <2>3
  <2>4. CASE j \notin DOMAIN entries'
    <3> DEFINE n == Len(found)
               m == Len(entries')
    <3>1. /\ n \in Nat /\ \A i \in DOMAIN found : i \in 1..n
          /\ m \in Nat /\ \A i : i \in DOMAIN entries' <=> i \in 1..m
          /\ m = n \/ m = Limit
      BY <1>6, <1>10
    <3> HIDE DEF n, m
    <3>2. j \in Nat /\ j <= n /\ m < j BY <2>4, <3>1
    <3>3. m = Limit /\ \A i \in DOMAIN entries' : i < j BY <3>1, <3>2
    <3> QED BY <1>6, <1>11, <2>2, <3>3 DEF m
  <2> QED BY <2>3, <2>4
<1>17. ListedOnce' BY <1>6, <1>11 DEF ListedOnce
<1>18. ListedWasThere' BY <1>1, <1>11 DEF ListedWasThere, WasThere
<1> QED BY <1>12, <1>13, <1>14, <1>15, <1>16, <1>17, <1>18 DEF IInv

-------------------------------------------------------------------------------
(***************************************************************************)
(* S3.                                                                     *)
(***************************************************************************)
PageEnd == IF Page(token) = << >> THEN token ELSE PassedBy(Page(token)[Len(Page(token))])

\* A page holds all there is between two tokens.
LEMMA PageFacts ==
    ASSUME TypeOK
    PROVE  /\ Apart(Range(Page(token)))
           /\ \A x \in Range(Page(token)) :
                  /\ x \in Items /\ token < Final(x) /\ Final(x) <= PageEnd
                  /\ \E k \in Present : Matching(k) /\ Item(k) = x
           /\ PageEnd \in Keys \cup {0} /\ token <= PageEnd
           /\ \A k \in Present : Matching(k) /\ token < k /\ k <= PageEnd => Item(k) \in Range(Page(token))
<1> DEFINE ks == {k \in Present : Matching(k) /\ k > token}
           items == {Item(k) : k \in ks}
           found == InOrder(items)
           page == Page(token)
<1>1. ks \in SUBSET Keys /\ \A k \in ks : k \in Present /\ Matching(k) /\ token < k
  BY DEF Present, TypeOK
<1>2. \A k \in Present : Matching(k) /\ token < k => k \in ks BY DEF TypeOK, Present
<1>3. \A x \in items : \E k \in ks : Item(k) = x OBVIOUS
<1>4. \A k \in ks : Item(k) \in items OBVIOUS
<1>5. page = Take(found, Limit) BY DEF Page
<1>6. token \in Nat /\ token \in Keys \cup {0} /\ Limit \in Nat \ {0} BY LimitFacts DEF TypeOK
<1> HIDE DEF ks
<1>7. Apart(items) BY <1>1, ItemsApart
<1> HIDE DEF items
<1>8. /\ found \in Seq(items)
      /\ \A i, j \in DOMAIN found : i < j => Before(found[i], found[j])
      /\ \A x \in items : \E i \in DOMAIN found : found[i] = x
      /\ DOMAIN found = 1..Len(found) /\ Len(found) \in Nat
  BY <1>7, InOrderFacts
<1> HIDE DEF found
<1>9. /\ page \in Seq(items) /\ Len(page) \in Nat /\ DOMAIN page = 1..Len(page)
      /\ Len(page) <= Len(found) /\ (Len(page) = Limit \/ Len(page) = Len(found))
      /\ \A i \in DOMAIN page : i \in DOMAIN found /\ page[i] = found[i]
  <2> HIDE DEF page
  <2> QED BY <1>5, <1>6, <1>8, TakeFacts
<1> HIDE DEF page
<1>10. \A i \in DOMAIN page : page[i] \in items BY <1>9, ElementOfSeq
<1>11. Range(page) \in SUBSET items BY <1>10 DEF Range
<1>12. ASSUME NEW x \in items
       PROVE  /\ x \in Items /\ Final(x) \in Keys /\ token < Final(x)
              /\ \E k \in Present : Matching(k) /\ Item(k) = x
  <2>1. PICK k \in ks : Item(k) = x BY <1>3
  <2>2. k \in Keys /\ k \in Nat /\ token < k /\ k <= Final(x) /\ x \in Items
    BY <1>1, <2>1, ItemOf
  <2>3. Final(x) \in Keys /\ Final(x) \in Nat BY <2>2, ItemFacts
  <2> QED BY <1>1, <1>6, <2>1, <2>2, <2>3
<1>13. CASE page = << >>
  <2>1. PageEnd = token BY <1>13 DEF PageEnd, page
  <2>2. DOMAIN page = {} BY <1>13
  <2>3. Range(page) = {} BY <2>2 DEF Range
  <2>4. \A k \in Present : ~(token < k /\ k <= token) BY <1>6 DEF Present
  <2> QED BY <1>6, <1>7, <1>11, <2>1, <2>3, <2>4, ApartSubset DEF page
<1>14. CASE page # << >>
  <2> DEFINE n == Len(page)
             end == Final(page[n])
  <2>1. n \in DOMAIN page /\ n \in Nat /\ \A i \in DOMAIN page : i = n \/ i < n
    BY <1>9, <1>14
  <2>2. PageEnd = end BY <1>14 DEF PageEnd, PassedBy, page
  <2>3. end \in Keys /\ end \in Nat /\ token < end BY <1>10, <1>12, <2>1
  <2>4. ASSUME NEW x \in Range(page) PROVE Final(x) <= end
    <3>1. PICK i \in DOMAIN page : page[i] = x BY DEF Range
    <3>2. CASE i = n BY <2>3, <3>1, <3>2
    <3>3. CASE i < n
      <4>1. Before(x, page[n]) BY <1>8, <1>9, <2>1, <3>1, <3>3
      <4>2. /\ Final(x) \in Nat /\ First(page[n]) \in Nat /\ First(page[n]) <= end
        BY <1>10, <1>12, <2>1, <3>1, ItemFacts
      <4> QED BY <2>3, <4>1, <4>2 DEF Before
    <3> QED BY <2>1, <3>2, <3>3
  <2>5. ASSUME NEW k \in Present, Matching(k), token < k, k <= end PROVE Item(k) \in Range(page)
    <3>1. PICK j \in DOMAIN found : found[j] = Item(k) BY <1>2, <1>4, <1>8, <2>5
    <3>2. CASE j \in DOMAIN page BY <1>9, <3>1, <3>2 DEF Range
    <3>3. CASE j \notin DOMAIN page
      <4>1. j \in Nat /\ 1 <= j BY <1>8
      <4>2. \A i : i \in DOMAIN page <=> i \in 1..n BY <1>9
      <4>3. n < j
        <5> HIDE DEF n
        <5> QED BY <2>1, <3>3, <4>1, <4>2
      <4>4. n \in DOMAIN found /\ page[n] = found[n] BY <1>9, <2>1
      <4>5. Before(page[n], Item(k)) BY <1>8, <3>1, <4>3, <4>4
      <4>6. k \in Keys /\ k \in Nat /\ First(Item(k)) <= k /\ First(Item(k)) \in Nat
        BY ItemOf, ItemFacts DEF Present
      <4> QED BY <2>3, <2>5, <4>5, <4>6 DEF Before
    <3> QED BY <3>2, <3>3
  <2>6. Apart(Range(page)) BY <1>7, <1>11, ApartSubset
  <2>7. \A x \in Range(page) : x \in items BY <1>11
  <2> HIDE DEF end
  <2> QED BY <1>6, <1>12, <2>2, <2>3, <2>4, <2>5, <2>6, <2>7 DEF page
<1> QED BY <1>13, <1>14

LEMMA PageStep ==
    ASSUME IInv, ListPage
    PROVE  IInv'
<1> DEFINE pg == Range(Page(token))
           folders == InOrder(pg \cap Folders)
           keys == InOrder(pg \ Folders)
           heads == [i \in 1..Len(folders) |-> Prefix(folders[i])]
           looks == [i \in 1..Len(keys) |-> Entry(keys[i], object[keys[i]], None)]
<1>1. /\ TypeOK /\ ResultOK /\ StoreOK /\ PagesOK /\ ListedOnce /\ ListedWasThere
      /\ backend = "s3" /\ phase = "asking" /\ phase' = "visiting" /\ left = << >>
      /\ token' = PageEnd
      /\ more' = (\E k \in Present : Matching(k) /\ k > token')
      /\ UNCHANGED <<object, dirs, backend, options, retries, writes, ever, always>>
  BY DEF IInv, ListPage, history, ResultOK, PageEnd
<1>2. entries' = entries \o heads /\ left' = looks BY DEF ListPage
<1>3. /\ Apart(pg)
      /\ \A x \in pg : /\ x \in Items /\ token < Final(x) /\ Final(x) <= token'
                       /\ \E k \in Present : Matching(k) /\ Item(k) = x
      /\ token' \in Keys \cup {0} /\ token <= token'
      /\ \A k \in Present : Matching(k) /\ token < k /\ k <= token' => Item(k) \in pg
  BY <1>1, PageFacts
<1>4. token \in Nat /\ token' \in Nat BY <1>1, <1>3 DEF TypeOK
<1> HIDE DEF pg
<1>5. /\ DOMAIN folders = 1..Len(folders) /\ Len(folders) \in Nat
      /\ \A i \in DOMAIN folders : folders[i] \in pg /\ folders[i] \in Folders
      /\ \A i, j \in DOMAIN folders : folders[i] = folders[j] => i = j
      /\ \A x \in pg \cap Folders : \E i \in DOMAIN folders : folders[i] = x
  <2>1. Apart(pg \cap Folders) BY <1>3, ApartSubset
  <2> QED BY <2>1, InOrderFacts
<1>6. /\ DOMAIN keys = 1..Len(keys) /\ Len(keys) \in Nat
      /\ \A i \in DOMAIN keys : keys[i] \in pg /\ keys[i] \notin Folders
      /\ \A i, j \in DOMAIN keys : keys[i] = keys[j] => i = j
      /\ \A x \in pg \ Folders : \E i \in DOMAIN keys : keys[i] = x
  <2>1. Apart(pg \ Folders) BY <1>3, ApartSubset
  <2> QED BY <2>1, InOrderFacts
<1> HIDE DEF folders, keys
<1>7. ASSUME NEW i \in DOMAIN folders
      PROVE  /\ heads[i] \in Entries /\ heads[i].item = folders[i]
             /\ token < Final(folders[i]) /\ Final(folders[i]) <= token'
             /\ WasThere(heads[i])
  <2>1. heads[i] = Prefix(folders[i]) BY <1>5
  <2>2. PICK k \in Present : Item(k) = folders[i] BY <1>3, <1>5
  <2>3. WasThere(heads[i]) BY <1>1, <1>5, <2>1, <2>2, PrefixWasThere
  <2> QED BY <1>3, <1>5, <2>1, <2>3, PrefixFacts
<1>8. ASSUME NEW i \in DOMAIN keys
      PROVE  /\ looks[i] \in Entries /\ looks[i].item = keys[i] /\ keys[i] \in Present
             /\ token < keys[i] /\ keys[i] <= token'
             /\ looks[i].etag \in ever[keys[i]] /\ looks[i].meta = None
  <2>1. looks[i] = Entry(keys[i], object[keys[i]], None) BY <1>6
  <2>2. PICK k \in Present : Item(k) = keys[i] BY <1>3, <1>6
  <2>3. k = keys[i] /\ k \in Keys /\ k \in Items BY <1>6, <2>2, ItemOf DEF Present, Items
  <2>4. Final(k) = k BY <2>3, KeyFacts
  <2>5. token < Final(keys[i]) /\ Final(keys[i]) <= token' BY <1>3, <1>6
  <2>6. object[k] \in Nat /\ object[k] \in ever[k] BY <1>1, ListedFacts
  <2>7. /\ Entry(k, object[k], None) \in Entries /\ Entry(k, object[k], None).item = k
        /\ Entry(k, object[k], None).etag = object[k] /\ Entry(k, object[k], None).meta = None
    BY <2>3, <2>6 DEF Entry, Entries
  <2>8. looks[i] = Entry(k, object[k], None) BY <2>1, <2>3
  <2> HIDE DEF looks
  <2> QED BY <2>3, <2>4, <2>5, <2>6, <2>7, <2>8
<1>9. DOMAIN heads = 1..Len(folders) /\ DOMAIN looks = 1..Len(keys) OBVIOUS
<1> HIDE DEF heads, looks
<1>10. DOMAIN heads = DOMAIN folders /\ DOMAIN looks = DOMAIN keys BY <1>5, <1>6, <1>9
<1>11. heads \in Seq(Entries) /\ looks \in Seq(Entries)
  <2>1. heads \in [1..Len(folders) -> Entries]
    <3>1. heads = [i \in 1..Len(folders) |-> heads[i]] BY DEF heads
    <3> QED BY <1>7, <1>9, <1>10, <3>1
  <2>2. looks \in [1..Len(keys) -> Entries]
    <3>1. looks = [i \in 1..Len(keys) |-> looks[i]] BY DEF looks
    <3> QED BY <1>8, <1>9, <1>10, <3>1
  <2> QED BY <1>5, <1>6, <2>1, <2>2
<1>12. /\ entries' \in Seq(Entries) /\ Len(entries) \in Nat /\ DOMAIN entries = 1..Len(entries)
       /\ DOMAIN heads \subseteq Nat \ {0}
       /\ \A i \in DOMAIN entries : i \in DOMAIN entries' /\ entries'[i] = entries[i]
       /\ \A j \in DOMAIN folders :
              Len(entries) + j \in DOMAIN entries' /\ entries'[Len(entries) + j] = heads[j]
       /\ \A i \in DOMAIN entries' :
              \/ i \in DOMAIN entries /\ entries'[i] = entries[i]
              \/ \E j \in DOMAIN folders : i = Len(entries) + j /\ entries'[i] = heads[j]
  <2>1. entries \in Seq(Entries) BY <1>1 DEF ResultOK
  <2> QED BY <1>2, <1>10, <1>11, <2>1, ConcatFacts
<1>13. \A i \in DOMAIN entries :
           /\ entries[i].item \in Items /\ Final(entries[i].item) <= token
           /\ Final(entries[i].item) \in Nat
  <2>1. \A i \in DOMAIN entries : entries[i].item \in Items /\ Final(entries[i].item) <= token
    BY <1>1 DEF TypeOK, PagesOK, Items
  <2> QED BY <2>1, ItemFacts, KeyFacts
<1>14. \A i \in DOMAIN folders : folders[i] \in Items /\ Final(folders[i]) \in Nat
  <2>1. \A i \in DOMAIN folders : folders[i] \in Items BY <1>3, <1>5
  <2> QED BY <2>1, ItemFacts, KeyFacts
<1>15. TypeOK'
  <2>1. \A i \in DOMAIN entries' : entries'[i].item \in Items BY <1>7, <1>12, <1>13, <1>14
  <2> QED BY <1>1, <1>3, <2>1 DEF TypeOK, Items, Present
<1>16. ResultOK' BY <1>1, <1>2, <1>11, <1>12 DEF ResultOK
<1>17. StoreOK' BY <1>1 DEF StoreOK, Present
<1>18. PagesOK'
  <2>1. \A i \in DOMAIN entries' : Final(entries'[i].item) <= token'
    BY <1>3, <1>4, <1>7, <1>12, <1>13
  <2>2. ASSUME NEW j \in DOMAIN looks
        PROVE  /\ looks[j].item \in Keys /\ looks[j].item <= token'
               /\ looks[j].etag \in ever[looks[j].item] /\ looks[j].meta = None
               /\ \A i \in DOMAIN entries' : entries'[i].item # looks[j].item
    <3>1. looks[j].item = keys[j] /\ keys[j] \in Keys /\ keys[j] \notin Folders /\ Final(keys[j]) = keys[j]
      BY <1>6, <1>8, <1>10, KeyFacts DEF Present
    <3>2. \A i \in DOMAIN entries : entries[i].item # keys[j]
      BY <1>4, <1>8, <1>10, <1>13, <3>1
    <3>3. \A i \in DOMAIN entries' : entries'[i].item # keys[j]
      BY <1>5, <1>7, <1>12, <3>1, <3>2
    <3> QED BY <1>8, <1>10, <3>1, <3>3
  <2>3. \A i, j \in DOMAIN looks : looks[i].item = looks[j].item => i = j BY <1>6, <1>8, <1>10
  <2>4. ASSUME NEW k \in always, Matching(k), Passed(k)'
        PROVE  \/ \E i \in DOMAIN entries' : entries'[i].item = Item(k)
               \/ \E i \in DOMAIN looks : looks[i].item = Item(k)
    <3>1. k \in Present /\ k \in Nat BY <1>1 DEF TypeOK, Present
    <3>2. k <= token' BY <1>1, <1>4, <2>4, <3>1 DEF Passed
    <3>3. CASE k <= token
      <4>1. \E i \in DOMAIN entries : entries[i].item = Item(k)
        BY <1>1, <2>4, <3>3 DEF PagesOK, Passed, IsListed
      <4> QED BY <1>12, <4>1
    <3>4. CASE token < k
      <4>1. Item(k) \in pg BY <1>3, <2>4, <3>1, <3>2, <3>4
      <4>2. CASE Item(k) \in Folders BY <1>5, <1>7, <1>12, <4>1, <4>2
      <4>3. CASE Item(k) \notin Folders BY <1>6, <1>8, <1>10, <4>1, <4>3
      <4> QED BY <4>2, <4>3
    <3> QED BY <1>4, <3>1, <3>3, <3>4
  <2> QED BY <1>1, <1>2, <2>1, <2>2, <2>3, <2>4, SameCall DEF PagesOK, IsListed
<1>19. WalkOK' /\ ListsWhatStays' BY <1>1 DEF WalkOK, ListsWhatStays
<1>20. ListedOnce'
  <2>1. ASSUME NEW i \in DOMAIN entries, NEW j \in DOMAIN folders
        PROVE  entries[i].item # heads[j].item
    BY <1>4, <1>7, <1>13, <1>14
  <2>2. \A i, j \in DOMAIN entries : entries[i].item = entries[j].item => i = j
    BY <1>1 DEF ListedOnce
  <2>3. \A i, j \in DOMAIN folders : heads[i].item = heads[j].item => i = j BY <1>5, <1>7
  <2>4. \A i, j \in DOMAIN entries' : entries'[i].item = entries'[j].item => i = j
    BY <1>12, <2>1, <2>2, <2>3
  <2> QED BY <2>4 DEF ListedOnce
<1>21. ListedWasThere'
  <2>1. \A i \in DOMAIN entries : WasThere(entries[i]) BY <1>1 DEF ListedWasThere, WasThere
  <2>2. \A i \in DOMAIN entries' : WasThere(entries'[i]) BY <1>7, <1>12, <2>1
  <2> QED BY <1>1, <2>2 DEF ListedWasThere, WasThere
<1> QED BY <1>15, <1>16, <1>17, <1>18, <1>19, <1>20, <1>21 DEF IInv

LEMMA ObjectStep ==
    ASSUME IInv, ListObject
    PROVE  IInv'
<1> DEFINE e == left[1]
           x == e.item
<1>1. /\ TypeOK /\ ResultOK /\ StoreOK /\ PagesOK /\ ListedOnce /\ ListedWasThere
      /\ backend = "s3" /\ phase = "visiting" /\ left # << >>
      /\ left' = Tail(left)
      /\ UNCHANGED <<object, dirs, backend, options, phase, retries, token, more, writes, ever, always>>
  BY DEF IInv, ListObject, history
<1>2. PICK meta \in IF options.metadata THEN {None, object[x]} \ {0} ELSE {None} :
          entries' = Append(entries, [e EXCEPT !.meta = meta])
  BY DEF ListObject
<1>3. entries \in Seq(Entries) /\ left \in Seq(Entries) BY <1>1 DEF ResultOK
<1>4. /\ Tail(left) \in Seq(Entries) /\ e \in Entries /\ 1 \in DOMAIN left
      /\ \A i \in DOMAIN Tail(left) :
             i \in Nat /\ i + 1 \in DOMAIN left /\ 1 < i + 1 /\ Tail(left)[i] = left[i + 1]
      /\ \A i \in DOMAIN left \ {1} : \E j \in DOMAIN Tail(left) : i = j + 1 /\ Tail(left)[j] = left[i]
  BY <1>1, <1>3, TailFacts
<1>5. /\ x \in Keys /\ x \notin Folders /\ Final(x) = x /\ x <= token /\ e.etag \in ever[x]
      /\ \A i \in DOMAIN entries : entries[i].item # x
  BY <1>1, <1>4, KeyFacts DEF PagesOK, IsListed
<1>6. /\ meta \in Nat \cup {None} /\ meta \in ever[x] \cup {None}
      /\ meta # None => e.etag <= meta
  <2>1. CASE meta = None BY <2>1
  <2>2. CASE meta # None
    <3>1. meta = object[x] /\ meta # 0 BY <1>2, <2>2
    <3>2. x \in Present BY <1>5, <3>1 DEF Present
    <3>3. meta \in ever[x] /\ meta \in Nat /\ \A version \in ever[x] : version <= meta
      BY <1>1, <3>1, <3>2, ListedFacts
    <3> QED BY <1>5, <3>3
  <2> QED BY <2>1, <2>2
<1> DEFINE new == [e EXCEPT !.meta = meta]
<1>7. /\ new \in Entries /\ new.item = x /\ new.etag = e.etag /\ new.meta = meta
  BY <1>4, <1>6 DEF Entries
<1>8. WasThere(new) BY <1>1, <1>5, <1>6, <1>7 DEF WasThere
<1> HIDE DEF new
<1>9. /\ entries' \in Seq(Entries) /\ Len(entries) \in Nat
      /\ DOMAIN entries = 1..Len(entries) /\ DOMAIN entries' = 1..(Len(entries) + 1)
      /\ \A i \in DOMAIN entries : entries'[i] = entries[i]
      /\ entries'[Len(entries) + 1] = new
  BY <1>2, <1>3, <1>7, AppendFacts DEF new
<1>10. /\ \A i \in DOMAIN entries : i \in DOMAIN entries' /\ entries'[i] = entries[i]
       /\ Len(entries) + 1 \in DOMAIN entries' /\ entries'[Len(entries) + 1] = new
       /\ \A i \in DOMAIN entries' :
              \/ i \in DOMAIN entries /\ entries'[i] = entries[i]
              \/ i = Len(entries) + 1 /\ entries'[i] = new
  BY <1>9
<1> HIDE DEF e, x
<1>11. \A i \in DOMAIN Tail(left) : Tail(left)[i].item # x
  <2>1. \A i, j \in DOMAIN left : left[i].item = left[j].item => i = j BY <1>1 DEF PagesOK
  <2>2. \A i \in DOMAIN left : i # 1 => left[i].item # left[1].item BY <1>4, <2>1
  <2> QED BY <1>4, <2>2 DEF x, e
<1>12. TypeOK'
  <2>1. \A i \in DOMAIN entries' : entries'[i].item \in Keys \cup Folders
    BY <1>1, <1>5, <1>7, <1>10 DEF TypeOK
  <2> QED BY <1>1, <2>1 DEF TypeOK, Present
<1>13. ResultOK' BY <1>1, <1>4, <1>9 DEF ResultOK
<1>14. StoreOK' BY <1>1 DEF StoreOK, Present
<1>15. PagesOK'
  <2>1. \A i \in DOMAIN entries' : Final(entries'[i].item) <= token'
    BY <1>1, <1>5, <1>7, <1>10 DEF PagesOK
  <2>2. ASSUME NEW j \in DOMAIN Tail(left)
        PROVE  /\ Tail(left)[j].item \in Keys /\ Tail(left)[j].item <= token
               /\ Tail(left)[j].etag \in ever[Tail(left)[j].item] /\ Tail(left)[j].meta = None
               /\ \A i \in DOMAIN entries' : entries'[i].item # Tail(left)[j].item
    <3>1. PICK i \in DOMAIN left : Tail(left)[j] = left[i] BY <1>4
    <3> QED BY <1>1, <1>7, <1>10, <1>11, <3>1 DEF PagesOK, IsListed
  <2>3. \A i, j \in DOMAIN Tail(left) : Tail(left)[i].item = Tail(left)[j].item => i = j
    <3>1. \A i, j \in DOMAIN left : left[i].item = left[j].item => i = j BY <1>1 DEF PagesOK
    <3>2. ASSUME NEW i \in DOMAIN Tail(left), NEW j \in DOMAIN Tail(left),
                 Tail(left)[i].item = Tail(left)[j].item
          PROVE  i = j
      <4>1. i + 1 = j + 1 /\ i \in Nat /\ j \in Nat BY <1>4, <3>1, <3>2
      <4> QED BY <4>1
    <3> QED BY <3>2
  <2>4. ASSUME NEW k \in always, Matching(k), Passed(k)
        PROVE  \/ \E i \in DOMAIN entries' : entries'[i].item = Item(k)
               \/ \E i \in DOMAIN Tail(left) : Tail(left)[i].item = Item(k)
    <3>1. CASE \E i \in DOMAIN entries : entries[i].item = Item(k) BY <1>10, <3>1
    <3>2. CASE \E i \in DOMAIN left : left[i].item = Item(k)
      <4>1. PICK i \in DOMAIN left : left[i].item = Item(k) BY <3>2
      <4>2. CASE i = 1 BY <1>7, <1>10, <4>1, <4>2 DEF x, e
      <4>3. CASE i # 1
        <5>1. \E j \in DOMAIN Tail(left) : Tail(left)[j] = left[i] BY <1>4, <4>3
        <5> QED BY <4>1, <5>1
      <4> QED BY <4>2, <4>3
    <3> QED BY <1>1, <2>4, <3>1, <3>2 DEF PagesOK, IsListed
  <2>5. \A k : Passed(k)' = Passed(k) BY <1>1 DEF Passed
  <2> QED BY <1>1, <2>1, <2>2, <2>3, <2>4, <2>5, SameCall DEF PagesOK, IsListed
<1>16. WalkOK' /\ ListsWhatStays' BY <1>1 DEF WalkOK, ListsWhatStays
<1>17. ListedOnce'
  <2>1. \A i, j \in DOMAIN entries : entries[i].item = entries[j].item => i = j
    BY <1>1 DEF ListedOnce
  <2>2. \A i, j \in DOMAIN entries' : entries'[i].item = entries'[j].item => i = j
    BY <1>5, <1>7, <1>10, <2>1
  <2> QED BY <2>2 DEF ListedOnce
<1>18. ListedWasThere'
  <2>1. \A i \in DOMAIN entries : WasThere(entries[i]) BY <1>1 DEF ListedWasThere, WasThere
  <2>2. \A i \in DOMAIN entries' : WasThere(entries'[i]) BY <1>8, <1>10, <2>1
  <2> QED BY <1>1, <2>2 DEF ListedWasThere, WasThere
<1> QED BY <1>12, <1>13, <1>14, <1>15, <1>16, <1>17, <1>18 DEF IInv

LEMMA PageDoneStep ==
    ASSUME IInv, PageDone
    PROVE  IInv'
<1>1. /\ TypeOK /\ ResultOK /\ StoreOK /\ PagesOK /\ ListedOnce /\ ListedWasThere
      /\ backend = "s3" /\ phase = "visiting" /\ left = << >>
      /\ phase' = IF more THEN "asking" ELSE "ok"
      /\ UNCHANGED <<object, dirs, backend, options, retries, token, more, left, entries, writes, ever, always>>
  BY DEF IInv, PageDone, history, result
<1>2. more \in BOOLEAN /\ phase' \in {"asking", "ok"} BY <1>1 DEF TypeOK
<1>3. TypeOK' BY <1>1, <1>2 DEF TypeOK, Present
<1>4. ResultOK' BY <1>1, <1>2 DEF ResultOK
<1>5. StoreOK' BY <1>1 DEF StoreOK, Present
<1>6. \A k : Passed(k)' => Passed(k) BY <1>1 DEF Passed
<1>7. DOMAIN left = {} BY <1>1
<1>8. \A k \in always : Matching(k) /\ Passed(k) => IsListed(Item(k)) BY <1>1, <1>7 DEF PagesOK
<1>9. PagesOK'
  <2>1. phase' = "ok" => ~more BY <1>1
  <2>2. \A i \in DOMAIN entries : Final(entries[i].item) <= token BY <1>1 DEF PagesOK
  <2> QED BY <1>1, <1>6, <1>7, <1>8, <2>1, <2>2, SameCall DEF PagesOK, IsListed
<1>10. WalkOK' BY <1>1 DEF WalkOK
<1>11. ListsWhatStays'
  <2>1. phase' = "ok" => \A k : Passed(k) BY <1>1 DEF Passed
  <2> QED BY <1>1, <1>8, <2>1, SameCall DEF ListsWhatStays, IsListed
<1>12. ListedOnce' BY <1>1 DEF ListedOnce
<1>13. ListedWasThere' BY <1>1 DEF ListedWasThere
<1> QED BY <1>3, <1>4, <1>5, <1>9, <1>10, <1>11, <1>12, <1>13 DEF IInv

\* A listing that failed is started again from nothing, or has failed.
LEMMA FailsStep ==
    ASSUME IInv, ListFails
    PROVE  IInv'
<1>1. /\ TypeOK /\ ResultOK /\ StoreOK /\ PagesOK /\ ListedOnce /\ ListedWasThere
      /\ backend # "file" /\ phase = "asking" /\ left = << >>
      /\ UNCHANGED <<object, dirs, backend, options, writes, ever, always>>
  BY DEF IInv, ListFails, history, ResultOK
<1>2. CASE retries < MaxRetries
  <2>1. /\ retries' = retries + 1 /\ token' = 0 /\ left' = << >> /\ entries' = << >>
        /\ more' = FALSE /\ phase' = phase
    BY <1>2 DEF ListFails, StartAgain
  <2>2. DOMAIN entries' = {} /\ DOMAIN left' = {} BY <2>1
  <2>3. TypeOK'
    <3>1. retries \in Nat /\ MaxRetries \in Nat BY <1>1 DEF TypeOK
    <3>2. retries' \in 0..MaxRetries BY <1>2, <2>1, <3>1
    <3>3. token' \in Keys \cup {0} /\ more' \in BOOLEAN BY <2>1
    <3> QED BY <1>1, <2>1, <2>2, <3>2, <3>3 DEF TypeOK, Present
  <2>4. ResultOK'
    <3>1. entries' \in Seq(Entries) /\ left' \in Seq(IF backend = "s3" THEN Entries ELSE Items)
      BY <2>1, EmptySeq
    <3> QED BY <1>1, <2>1, <3>1 DEF ResultOK
  <2>5. StoreOK' BY <1>1 DEF StoreOK, Present
  <2>6. PagesOK'
    <3>1. \A k \in always : ~(Passed(k)')
      <4>1. \A k \in always : k \in Nat \ {0} BY <1>1 DEF TypeOK, Present
      <4> QED BY <1>1, <2>1, <4>1 DEF Passed
    <3> QED BY <1>1, <2>1, <2>2, <3>1 DEF PagesOK
  <2>7. WalkOK' /\ ListsWhatStays' BY <1>1, <2>1 DEF WalkOK, ListsWhatStays
  <2>8. ListedOnce' /\ ListedWasThere' BY <2>2 DEF ListedOnce, ListedWasThere
  <2> QED BY <2>3, <2>4, <2>5, <2>6, <2>7, <2>8 DEF IInv
<1>3. CASE ~(retries < MaxRetries)
  <2>1. phase' = "error" /\ UNCHANGED <<retries, token, more, left, entries>>
    BY <1>3 DEF ListFails, result
  <2>2. TypeOK' BY <1>1, <2>1 DEF TypeOK, Present
  <2>3. ResultOK' BY <1>1, <2>1 DEF ResultOK
  <2>4. StoreOK' BY <1>1 DEF StoreOK, Present
  <2>5. DOMAIN left' = {} BY <1>1, <2>1
  <2>6. PagesOK' BY <1>1, <2>1, <2>5 DEF PagesOK
  <2>7. WalkOK' /\ ListsWhatStays' BY <1>1, <2>1 DEF WalkOK, ListsWhatStays
  <2>8. ListedOnce' /\ ListedWasThere' BY <1>1, <2>1 DEF ListedOnce, ListedWasThere
  <2> QED BY <2>2, <2>3, <2>4, <2>6, <2>7, <2>8 DEF IInv
<1> QED BY <1>2, <1>3

-------------------------------------------------------------------------------
(***************************************************************************)
(* The file system.                                                        *)
(***************************************************************************)
LEMMA RootStep ==
    ASSUME IInv, WalkRoot
    PROVE  IInv'
<1> DEFINE g == options.prefix
           names == NamesIn(g)
<1>1. /\ TypeOK /\ ResultOK /\ StoreOK /\ backend = "file" /\ phase = "asking"
      /\ phase' = "visiting" /\ entries = << >> /\ left' = names
      /\ UNCHANGED <<object, dirs, backend, options, retries, token, more, entries, writes, ever, always>>
  BY DEF IInv, WalkRoot, history, ResultOK
<1>2. g \in Folders \cup {None} BY <1>1 DEF TypeOK, Options
<1>3. /\ names \in Seq(Items)
      /\ \A i \in DOMAIN names :
             \/ names[i] \in Present /\ Folder[names[i]] = g
             \/ names[i] \in dirs /\ g = None
      /\ \A i, j \in DOMAIN names : i < j => Before(names[i], names[j])
      /\ \A k \in Present : Folder[k] = g => \E i \in DOMAIN names : names[i] = k
      /\ g = None => \A d \in dirs : \E i \in DOMAIN names : names[i] = d
  BY <1>1, <1>2, NamesFacts
<1> HIDE DEF names
<1>4. DOMAIN entries = {} BY <1>1
<1>5. TypeOK' BY <1>1 DEF TypeOK, Present
<1>6. ResultOK' BY <1>1, <1>3 DEF ResultOK
<1>7. StoreOK' BY <1>1 DEF StoreOK, Present
<1>8. PagesOK' BY <1>1 DEF PagesOK
<1>9. WalkOK'
  <2>1. ASSUME NEW j \in DOMAIN names
        PROVE  /\ names[j] \in Folders => g = None
               /\ ~(names[j] \in Keys /\ RollsUp(names[j]))
    <3>1. \A d \in dirs : d \in Folders BY <1>1 DEF TypeOK
    <3>2. \A k \in Present : k \in Keys /\ k \notin Folders BY KeyFacts DEF Present
    <3>3. \A k \in Keys : k \notin Folders BY KeyFacts
    <3> QED BY <1>3, <3>1, <3>2, <3>3 DEF RollsUp
  <2>2. ASSUME NEW k \in always, Matching(k)
        PROVE  \E j \in DOMAIN names : names[j] = k \/ (Folder[k] # None /\ names[j] = Folder[k])
    <3>1. k \in Present BY <1>1 DEF TypeOK
    <3>2. CASE Folder[k] = g BY <1>3, <3>1, <3>2
    <3>3. CASE Folder[k] # g
      <4>1. g = None /\ Folder[k] # None BY <2>2, <3>3 DEF Matching
      <4>2. Folder[k] \in dirs BY <1>1, <3>1, <4>1 DEF StoreOK
      <4> QED BY <1>3, <4>1, <4>2
    <3> QED BY <3>2, <3>3
  <2> QED BY <1>1, <1>3, <1>4, <2>1, <2>2, SameCall DEF WalkOK, IsListed
<1>10. ListsWhatStays' BY <1>1 DEF ListsWhatStays
<1>11. ListedOnce' /\ ListedWasThere' BY <1>1, <1>4 DEF ListedOnce, ListedWasThere
<1> QED BY <1>5, <1>6, <1>7, <1>8, <1>9, <1>10, <1>11 DEF IInv

\* What comes after the next name, and before.
LEMMA WalkFacts ==
    ASSUME IInv, backend = "file", phase = "visiting", left # << >>
    PROVE  /\ entries \in Seq(Entries) /\ Tail(left) \in Seq(Items) /\ left[1] \in Items
           /\ \A i \in DOMAIN Tail(left) : Tail(left)[i] \in Items /\ Before(left[1], Tail(left)[i])
           /\ \A i, j \in DOMAIN Tail(left) : i < j => Before(Tail(left)[i], Tail(left)[j])
           /\ \A j \in DOMAIN Tail(left) :
                  /\ \A i \in DOMAIN entries :
                         Before(entries[i].item, Tail(left)[j]) \/ StandsFor(entries[i].item, Tail(left)[j])
                  /\ Tail(left)[j] \in Folders => options.prefix = None
                  /\ Tail(left)[j] \in Keys /\ RollsUp(Tail(left)[j]) => IsListed(Folder[Tail(left)[j]])
           /\ \A i \in DOMAIN entries :
                  /\ entries[i].item \in Items
                  /\ Before(entries[i].item, left[1]) \/ StandsFor(entries[i].item, left[1])
           /\ \A k \in always :
                  Matching(k) =>
                      \/ IsListed(Item(k))
                      \/ left[1] = k
                      \/ Folder[k] # None /\ left[1] = Folder[k]
                      \/ \E j \in DOMAIN Tail(left) :
                             Tail(left)[j] = k \/ (Folder[k] # None /\ Tail(left)[j] = Folder[k])
<1>1. TypeOK /\ ResultOK /\ WalkOK BY DEF IInv
<1>2. entries \in Seq(Entries) /\ left \in Seq(Items) BY <1>1 DEF ResultOK
<1>3. /\ Tail(left) \in Seq(Items) /\ left[1] \in Items /\ 1 \in DOMAIN left
      /\ \A i \in DOMAIN Tail(left) :
             i \in Nat /\ i + 1 \in DOMAIN left /\ 1 < i + 1 /\ Tail(left)[i] = left[i + 1]
      /\ \A i \in DOMAIN left \ {1} : \E j \in DOMAIN Tail(left) : i = j + 1 /\ Tail(left)[j] = left[i]
  BY <1>2, TailFacts
<1>4. \A i \in DOMAIN Tail(left) : Tail(left)[i] \in Items BY <1>3, LenProperties, ElementOfSeq
<1>5. \A i \in DOMAIN Tail(left) : Before(left[1], Tail(left)[i])
  <2>1. \A i, j \in DOMAIN left : i < j => Before(left[i], left[j]) BY <1>1 DEF WalkOK
  <2> QED BY <1>3, <2>1
<1>6. \A i, j \in DOMAIN Tail(left) : i < j => Before(Tail(left)[i], Tail(left)[j])
  <2>1. \A i, j \in DOMAIN left : i < j => Before(left[i], left[j]) BY <1>1 DEF WalkOK
  <2>2. \A i, j \in Nat : i < j => i + 1 < j + 1 OBVIOUS
  <2> QED BY <1>3, <2>1, <2>2
<1>7. \A j \in DOMAIN Tail(left) :
          /\ \A i \in DOMAIN entries :
                 Before(entries[i].item, Tail(left)[j]) \/ StandsFor(entries[i].item, Tail(left)[j])
          /\ Tail(left)[j] \in Folders => options.prefix = None
          /\ Tail(left)[j] \in Keys /\ RollsUp(Tail(left)[j]) => IsListed(Folder[Tail(left)[j]])
  <2>1. \A j \in DOMAIN Tail(left) : \E i \in DOMAIN left : Tail(left)[j] = left[i] BY <1>3
  <2>2. \A j \in DOMAIN left :
            /\ \A i \in DOMAIN entries :
                   Before(entries[i].item, left[j]) \/ StandsFor(entries[i].item, left[j])
            /\ left[j] \in Folders => options.prefix = None
            /\ left[j] \in Keys /\ RollsUp(left[j]) => IsListed(Folder[left[j]])
    BY <1>1 DEF WalkOK
  <2> QED BY <2>1, <2>2
<1>8. \A i \in DOMAIN entries :
          /\ entries[i].item \in Items
          /\ Before(entries[i].item, left[1]) \/ StandsFor(entries[i].item, left[1])
  BY <1>1, <1>3 DEF WalkOK, TypeOK, Items
<1>9. ASSUME NEW k \in always, Matching(k), ~IsListed(Item(k)), left[1] # k,
             ~(Folder[k] # None /\ left[1] = Folder[k])
      PROVE  \E j \in DOMAIN Tail(left) :
                 Tail(left)[j] = k \/ (Folder[k] # None /\ Tail(left)[j] = Folder[k])
  <2>1. PICK i \in DOMAIN left : left[i] = k \/ (Folder[k] # None /\ left[i] = Folder[k])
    BY <1>1, <1>9 DEF WalkOK
  <2>2. \E j \in DOMAIN Tail(left) : Tail(left)[j] = left[i] BY <1>3, <1>9, <2>1
  <2> QED BY <2>1, <2>2
<1> QED BY <1>2, <1>3, <1>4, <1>5, <1>6, <1>7, <1>8, <1>9

\* A new entry is added at the end.
LEMMA AddEntryFacts ==
    ASSUME entries \in Seq(Entries), NEW e \in Entries, ~IsListed(e.item),
           entries' = AddEntry(e)
    PROVE  /\ entries' \in Seq(Entries) /\ Len(entries) \in Nat /\ DOMAIN entries = 1..Len(entries)
           /\ \A i \in DOMAIN entries : i \in DOMAIN entries' /\ entries'[i] = entries[i]
           /\ Len(entries) + 1 \in DOMAIN entries' /\ entries'[Len(entries) + 1] = e
           /\ \A i \in DOMAIN entries' :
                  \/ i \in DOMAIN entries /\ entries'[i] = entries[i]
                  \/ i = Len(entries) + 1 /\ entries'[i] = e
<1>1. entries' = Append(entries, e) BY DEF AddEntry, IsListed
<1>2. /\ entries' \in Seq(Entries) /\ Len(entries) \in Nat
      /\ DOMAIN entries = 1..Len(entries) /\ DOMAIN entries' = 1..(Len(entries) + 1)
      /\ \A i \in DOMAIN entries : entries'[i] = entries[i]
      /\ entries'[Len(entries) + 1] = e
  BY <1>1, AppendFacts
<1> QED BY <1>2

\* A directory that is gone held nothing that stays; the names of one that is
\* there come between what has been listed and what is left.
LEMMA DirectoryStep ==
    ASSUME IInv, WalkDirectory
    PROVE  IInv'
<1> DEFINE g == left[1]
           rest == Tail(left)
           names == NamesIn(g)
<1>1. /\ TypeOK /\ ResultOK /\ StoreOK /\ ListedOnce /\ ListedWasThere /\ WalkOK
      /\ backend = "file" /\ phase = "visiting" /\ left # << >> /\ g \in Folders
      /\ UNCHANGED <<object, dirs, backend, options, phase, retries, token, more, writes, ever, always>>
  BY DEF IInv, WalkDirectory, history
<1>2. /\ entries \in Seq(Entries) /\ rest \in Seq(Items)
      /\ \A i \in DOMAIN rest : rest[i] \in Items /\ Before(g, rest[i])
      /\ \A i, j \in DOMAIN rest : i < j => Before(rest[i], rest[j])
      /\ \A j \in DOMAIN rest :
             /\ \A i \in DOMAIN entries :
                    Before(entries[i].item, rest[j]) \/ StandsFor(entries[i].item, rest[j])
             /\ rest[j] \in Folders => options.prefix = None
             /\ rest[j] \in Keys /\ RollsUp(rest[j]) => IsListed(Folder[rest[j]])
      /\ \A i \in DOMAIN entries :
             /\ entries[i].item \in Items
             /\ Before(entries[i].item, g) \/ StandsFor(entries[i].item, g)
      /\ \A k \in always :
             Matching(k) =>
                 \/ IsListed(Item(k))
                 \/ g = k
                 \/ Folder[k] # None /\ g = Folder[k]
                 \/ \E j \in DOMAIN rest :
                        rest[j] = k \/ (Folder[k] # None /\ rest[j] = Folder[k])
  BY <1>1, WalkFacts
<1>3. /\ g \notin Keys /\ g \in Items /\ g # None /\ options.prefix = None
      /\ First(g) \in Nat /\ Final(g) \in Nat /\ First(g) <= Final(g)
      /\ \A k \in Inside(g) : k \in Keys /\ First(g) <= k /\ k <= Final(g)
  <2>1. g \notin Keys /\ g \in Items /\ g # None BY <1>1, FolderFacts DEF Items
  <2>2. First(g) \in Nat /\ Final(g) \in Nat /\ First(g) <= Final(g)
    BY <2>1, ItemFacts, KeyFacts
  <2>3. 1 \in DOMAIN left
    <3>1. left \in Seq(Items) BY <1>1 DEF ResultOK
    <3> QED BY <1>1, <3>1, TailFacts
  <2>4. options.prefix = None BY <1>1, <2>3 DEF WalkOK
  <2> QED BY <1>1, <2>1, <2>2, <2>4, FolderFacts
<1>4. \A i \in DOMAIN entries : Before(entries[i].item, g) BY <1>2, <1>3 DEF StandsFor
<1>5. ~IsListed(g) BY <1>3, <1>4 DEF IsListed, Before
<1>6. ASSUME NEW k \in always, Folder[k] = g PROVE g \in dirs /\ k \in Present /\ k \in Keys
  <2>1. k \in Present /\ k \in Keys BY <1>1 DEF TypeOK, Present
  <2> QED BY <1>1, <1>3, <1>6, <2>1 DEF StoreOK
<1>7. StoreOK' /\ PagesOK' /\ ListsWhatStays'
  BY <1>1 DEF StoreOK, Present, PagesOK, ListsWhatStays
<1>8. CASE g \notin dirs
  <2>1. left' = rest /\ entries' = entries BY <1>8 DEF WalkDirectory
  <2>2. TypeOK' BY <1>1, <2>1 DEF TypeOK, Present
  <2>3. ResultOK' BY <1>1, <1>2, <2>1 DEF ResultOK
  <2>4. WalkOK'
    <3>1. \A i, j \in DOMAIN entries : i < j => Before(entries[i].item, entries[j].item)
      BY <1>1 DEF WalkOK
    <3>2. \A k \in always :
              Matching(k) =>
                  \/ IsListed(Item(k))
                  \/ \E j \in DOMAIN rest :
                         rest[j] = k \/ (Folder[k] # None /\ rest[j] = Folder[k])
      <4>1. \A k \in always : k # g BY <1>1, <1>3 DEF TypeOK, Present
      <4> QED BY <1>2, <1>6, <1>8, <4>1
    <3> HIDE DEF g, rest
    <3>3. \A x, y : StandsFor(x, y)' <=> StandsFor(x, y) BY <1>1, SameCall DEF StandsFor
    <3> QED BY <1>1, <1>2, <2>1, <3>1, <3>2, <3>3, SameCall DEF WalkOK, IsListed
  <2>5. ListedOnce' /\ ListedWasThere' BY <1>1, <2>1 DEF ListedOnce, ListedWasThere
  <2> QED BY <1>7, <2>2, <2>3, <2>4, <2>5 DEF IInv
<1>9. CASE g \in dirs
  <2>1. /\ entries' = IF options.recursive THEN entries ELSE AddEntry(Prefix(g))
        /\ left' = names \o rest
    BY <1>9 DEF WalkDirectory
  <2>2. /\ names \in Seq(Items)
        /\ \A i \in DOMAIN names : names[i] \in Present /\ names[i] \in Inside(g)
        /\ \A i, j \in DOMAIN names : i < j => Before(names[i], names[j])
        /\ \A k \in Present : Folder[k] = g => \E i \in DOMAIN names : names[i] = k
    <3>1. g \in Folders \cup {None} BY <1>1
    <3> HIDE DEF g
    <3> QED BY <1>1, <1>3, <3>1, NamesFacts DEF Inside, Present
  <2>3. /\ left' \in Seq(Items) /\ Len(names) \in Nat /\ DOMAIN names = 1..Len(names)
        /\ DOMAIN rest \subseteq Nat \ {0}
        /\ \A i \in DOMAIN names : i \in DOMAIN left' /\ left'[i] = names[i]
        /\ \A j \in DOMAIN rest : Len(names) + j \in DOMAIN left' /\ left'[Len(names) + j] = rest[j]
        /\ \A i \in DOMAIN left' :
               \/ i \in DOMAIN names /\ left'[i] = names[i]
               \/ \E j \in DOMAIN rest : i = Len(names) + j /\ left'[i] = rest[j]
    <3>1. names \in Seq(Items) /\ rest \in Seq(Items) /\ left' = names \o rest BY <1>2, <2>1, <2>2
    <3> HIDE DEF g, rest, names
    <3> QED BY <3>1, ConcatFacts
  <2>4. /\ entries' \in Seq(Entries) /\ Len(entries) \in Nat /\ DOMAIN entries = 1..Len(entries)
        /\ \A i \in DOMAIN entries : i \in DOMAIN entries' /\ entries'[i] = entries[i]
        /\ ~options.recursive => \E i \in DOMAIN entries' : entries'[i].item = g
        /\ \A i \in DOMAIN entries' :
               \/ i \in DOMAIN entries /\ entries'[i] = entries[i]
               \/ /\ i = Len(entries) + 1 /\ entries'[i].item = g
                  /\ WasThere(entries'[i]) /\ ~options.recursive
    <3>1. CASE options.recursive BY <1>2, <2>1, <3>1, LenProperties
    <3>2. CASE ~options.recursive
      <4>1. entries' = AddEntry(Prefix(g)) BY <2>1, <3>2
      <4>2. Prefix(g) \in Entries /\ Prefix(g).item = g BY <1>1, PrefixFacts
      <4>3. WasThere(Prefix(g)) BY <1>1, <4>2 DEF WasThere
      <4> HIDE DEF g
      <4> QED BY <1>2, <1>5, <3>2, <4>1, <4>2, <4>3, AddEntryFacts
    <3> QED BY <3>1, <3>2
  <2> HIDE DEF g, rest, names
  <2>5. \A i \in DOMAIN names :
            /\ names[i] \in Keys /\ names[i] \notin Folders /\ names[i] \in Nat
            /\ Folder[names[i]] = g
            /\ First(names[i]) = names[i] /\ Final(names[i]) = names[i]
            /\ First(g) <= names[i] /\ names[i] <= Final(g)
    BY <1>3, <2>2, KeyFacts DEF Inside
  <2>6. ASSUME NEW k \in Keys, RollsUp(k) PROVE ~options.recursive
    BY <2>6 DEF RollsUp, Delimited
  <2>7. ASSUME NEW k \in Inside(g), ~options.recursive PROVE RollsUp(k)
    BY <1>1, <1>3, <2>7 DEF RollsUp, Delimited, Inside
  <2>8. TypeOK'
    <3>1. \A i \in DOMAIN entries' : entries'[i].item \in Keys \cup Folders
      BY <1>1, <2>4 DEF TypeOK
    <3> QED BY <1>1, <3>1 DEF TypeOK, Present
  <2>9. ResultOK' BY <1>1, <2>3, <2>4 DEF ResultOK
  <2>10. \A i, j \in DOMAIN entries' : i < j => Before(entries'[i].item, entries'[j].item)
    <3>1. \A i, j \in DOMAIN entries : i < j => Before(entries[i].item, entries[j].item)
      BY <1>1 DEF WalkOK
    <3>2. \A i \in DOMAIN entries : i \in Nat /\ i <= Len(entries) BY <2>4
    <3>3. ASSUME NEW i \in DOMAIN entries', NEW j \in DOMAIN entries', i < j
          PROVE  Before(entries'[i].item, entries'[j].item)
      <4>1. i \in DOMAIN entries /\ entries'[i] = entries[i] BY <2>4, <3>2, <3>3
      <4> QED BY <1>4, <2>4, <3>1, <3>3, <4>1
    <3> QED BY <3>3
  <2>11. ASSUME NEW j \in DOMAIN rest
         PROVE  /\ First(rest[j]) \in Nat /\ Final(g) < First(rest[j])
                /\ \A i \in DOMAIN names : Before(names[i], rest[j])
    <3>1. First(rest[j]) \in Nat /\ Final(g) < First(rest[j])
      BY <1>2, ItemFacts, KeyFacts DEF Before
    <3> QED BY <1>3, <2>5, <3>1 DEF Before
  <2>12. \A i, j \in DOMAIN left' : i < j => Before(left'[i], left'[j])
    <3>1. \A i \in DOMAIN names : i \in Nat /\ i <= Len(names) BY <2>3
    <3>2. \A j \in DOMAIN rest : j \in Nat /\ j > 0 BY <2>3
    <3>3. ASSUME NEW i \in DOMAIN left', NEW j \in DOMAIN left', i < j
          PROVE  Before(left'[i], left'[j])
      <4>1. CASE i \in DOMAIN names /\ left'[i] = names[i]
        <5>1. CASE j \in DOMAIN names /\ left'[j] = names[j] BY <2>2, <3>3, <4>1, <5>1
        <5>2. CASE \E m \in DOMAIN rest : left'[j] = rest[m] BY <2>11, <4>1, <5>2
        <5> QED BY <2>3, <5>1, <5>2
      <4>2. CASE \E m \in DOMAIN rest : i = Len(names) + m /\ left'[i] = rest[m]
        <5>1. PICK m \in DOMAIN rest : i = Len(names) + m /\ left'[i] = rest[m] BY <4>2
        <5>2. ~(j \in DOMAIN names)
          BY <2>3, <3>1, <3>2, <3>3, <5>1
        <5>3. PICK n \in DOMAIN rest : j = Len(names) + n /\ left'[j] = rest[n] BY <2>3, <5>2
        <5>4. m < n BY <2>3, <3>2, <3>3, <5>1, <5>3
        <5> QED BY <1>2, <5>1, <5>3, <5>4
      <4> QED BY <2>3, <4>1, <4>2
    <3> QED BY <3>3
  <2>13. ASSUME NEW i \in DOMAIN entries', NEW j \in DOMAIN left'
         PROVE  Before(entries'[i].item, left'[j]) \/ StandsFor(entries'[i].item, left'[j])
    <3>1. ASSUME NEW m \in DOMAIN names, left'[j] = names[m]
          PROVE  Before(entries'[i].item, names[m]) \/ StandsFor(entries'[i].item, names[m])
      <4>1. CASE i \in DOMAIN entries /\ entries'[i] = entries[i]
        <5>1. Final(entries[i].item) \in Nat /\ Final(entries[i].item) < First(g)
          BY <1>2, <1>4, <4>1, ItemFacts, KeyFacts DEF Before
        <5> QED BY <1>3, <2>5, <4>1, <5>1 DEF Before
      <4>2. CASE entries'[i].item = g /\ ~options.recursive
        BY <2>2, <2>5, <2>7, <4>2 DEF StandsFor
      <4> QED BY <2>4, <4>1, <4>2
    <3>2. ASSUME NEW m \in DOMAIN rest, left'[j] = rest[m]
          PROVE  Before(entries'[i].item, rest[m]) \/ StandsFor(entries'[i].item, rest[m])
      BY <1>2, <2>4
    <3> QED BY <2>3, <3>1, <3>2
  <2>14. ASSUME NEW j \in DOMAIN left'
         PROVE  /\ left'[j] \in Folders => options.prefix = None
                /\ left'[j] \in Keys /\ RollsUp(left'[j])
                   => \E i \in DOMAIN entries' : entries'[i].item = Folder[left'[j]]
    <3>1. CASE j \in DOMAIN names /\ left'[j] = names[j] BY <1>3, <2>4, <2>5, <2>6, <3>1
    <3>2. CASE \E m \in DOMAIN rest : left'[j] = rest[m]
      BY <1>2, <1>3, <2>4, <3>2 DEF IsListed
    <3> QED BY <2>3, <3>1, <3>2
  <2>15. ASSUME NEW k \in always, Matching(k)
         PROVE  \/ \E i \in DOMAIN entries' : entries'[i].item = Item(k)
                \/ \E j \in DOMAIN left' : left'[j] = k \/ (Folder[k] # None /\ left'[j] = Folder[k])
    <3>1. g # k BY <1>1, <1>3 DEF TypeOK, Present
    <3>2. CASE IsListed(Item(k)) BY <2>4, <3>2 DEF IsListed
    <3>3. CASE g = Folder[k] BY <1>6, <2>2, <2>3, <3>3
    <3>4. CASE \E j \in DOMAIN rest : rest[j] = k \/ (Folder[k] # None /\ rest[j] = Folder[k])
      BY <2>3, <3>4
    <3> QED BY <1>2, <2>15, <3>1, <3>2, <3>3, <3>4
  <2>16. WalkOK'
    <3>1. \A x, y : StandsFor(x, y)' <=> StandsFor(x, y) BY <1>1, SameCall DEF StandsFor
    <3> QED BY <1>1, <2>10, <2>12, <2>13, <2>14, <2>15, <3>1, SameCall DEF WalkOK, IsListed
  <2>17. ListedOnce'
    <3>1. \A i, j \in DOMAIN entries : entries[i].item = entries[j].item => i = j
      BY <1>1 DEF ListedOnce
    <3>2. \A i \in DOMAIN entries : entries[i].item # g BY <1>5 DEF IsListed
    <3>3. \A i, j \in DOMAIN entries' : entries'[i].item = entries'[j].item => i = j
      BY <2>4, <3>1, <3>2
    <3> QED BY <3>3 DEF ListedOnce
  <2>18. ListedWasThere'
    <3>1. \A i \in DOMAIN entries : WasThere(entries[i]) BY <1>1 DEF ListedWasThere, WasThere
    <3>2. \A i \in DOMAIN entries' : WasThere(entries'[i]) BY <2>4, <3>1
    <3> QED BY <1>1, <3>2 DEF ListedWasThere, WasThere
  <2> QED BY <1>7, <2>8, <2>9, <2>16, <2>17, <2>18 DEF IInv
<1> QED BY <1>8, <1>9

\* A file that is gone was not there throughout; the folder of a key that rolls up
\* has been listed; any other key comes after what has been listed.
LEMMA FileStep ==
    ASSUME IInv, WalkFile
    PROVE  IInv'
<1> DEFINE x == left[1]
           rest == Tail(left)
<1>1. /\ TypeOK /\ ResultOK /\ StoreOK /\ ListedOnce /\ ListedWasThere /\ WalkOK
      /\ backend = "file" /\ phase = "visiting" /\ left # << >> /\ x \notin Folders
      /\ left' = rest
      /\ entries' = IF x \notin Present THEN entries
                    ELSE IF RollsUp(x) THEN AddEntry(Prefix(Folder[x])) ELSE AddEntry(Listed(x))
      /\ UNCHANGED <<object, dirs, backend, options, phase, retries, token, more, writes, ever, always>>
  BY DEF IInv, WalkFile, history, Gone
<1>2. /\ entries \in Seq(Entries) /\ rest \in Seq(Items) /\ x \in Items
      /\ \A i \in DOMAIN rest : rest[i] \in Items /\ Before(x, rest[i])
      /\ \A i, j \in DOMAIN rest : i < j => Before(rest[i], rest[j])
      /\ \A j \in DOMAIN rest :
             /\ \A i \in DOMAIN entries :
                    Before(entries[i].item, rest[j]) \/ StandsFor(entries[i].item, rest[j])
             /\ rest[j] \in Folders => options.prefix = None
             /\ rest[j] \in Keys /\ RollsUp(rest[j]) => IsListed(Folder[rest[j]])
      /\ \A i \in DOMAIN entries :
             /\ entries[i].item \in Items
             /\ Before(entries[i].item, x) \/ StandsFor(entries[i].item, x)
      /\ \A k \in always :
             Matching(k) =>
                 \/ IsListed(Item(k))
                 \/ x = k
                 \/ Folder[k] # None /\ x = Folder[k]
                 \/ \E j \in DOMAIN rest :
                        rest[j] = k \/ (Folder[k] # None /\ rest[j] = Folder[k])
  BY <1>1, WalkFacts
<1>3. x \in Keys /\ x \in Nat /\ First(x) = x /\ Final(x) = x /\ (RollsUp(x) => IsListed(Folder[x]))
  <2>1. x \in Keys BY <1>1, <1>2 DEF Items
  <2>2. 1 \in DOMAIN left
    <3>1. left \in Seq(Items) BY <1>1 DEF ResultOK
    <3> QED BY <1>1, <3>1, TailFacts
  <2> QED BY <1>1, <2>1, <2>2, KeyFacts DEF WalkOK
<1>4. /\ \A i, j \in DOMAIN entries : i < j => Before(entries[i].item, entries[j].item)
      /\ \A i, j \in DOMAIN entries : entries[i].item = entries[j].item => i = j
      /\ \A i \in DOMAIN entries : WasThere(entries[i])
  BY <1>1 DEF WalkOK, ListedOnce, ListedWasThere, WasThere
<1>5. \A k \in always : Matching(k) /\ x # k =>
          \/ IsListed(Item(k))
          \/ \E j \in DOMAIN rest : rest[j] = k \/ (Folder[k] # None /\ rest[j] = Folder[k])
  <2>1. \A k \in always : Folder[k] # None => Folder[k] # x
    <3>1. \A k \in always : k \in Keys BY <1>1 DEF TypeOK, Present
    <3> QED BY <1>1, <3>1, KeyFacts
  <2> QED BY <1>2, <2>1
<1> HIDE DEF x, rest
<1>6. StoreOK' /\ PagesOK' /\ ListsWhatStays'
  BY <1>1 DEF StoreOK, Present, PagesOK, ListsWhatStays
<1>7. \A y, z : StandsFor(y, z)' <=> StandsFor(y, z) BY <1>1, SameCall DEF StandsFor
<1>8. CASE x \notin Present \/ RollsUp(x)
  <2>1. entries' = entries
    <3>1. CASE x \notin Present BY <1>1, <3>1
    <3>2. CASE x \in Present /\ RollsUp(x)
      <4>1. entries' = AddEntry(Prefix(Folder[x])) BY <1>1, <3>2
      <4>2. Folder[x] \in Folders /\ IsListed(Folder[x]) BY <1>3, <3>2, KeyFacts DEF RollsUp
      <4>3. Prefix(Folder[x]).item = Folder[x] BY <4>2, PrefixFacts
      <4> QED BY <4>1, <4>2, <4>3 DEF AddEntry, IsListed
    <3> QED BY <1>8, <3>1, <3>2
  <2>2. TypeOK' BY <1>1, <2>1 DEF TypeOK, Present
  <2>3. ResultOK' BY <1>1, <1>2, <2>1 DEF ResultOK
  <2>4. x \in always => IsListed(Item(x))
    <3>1. x \in always => RollsUp(x) BY <1>1, <1>8 DEF TypeOK
    <3> QED BY <1>3, <3>1 DEF Item
  <2>5. \A k \in always :
            Matching(k) =>
                \/ IsListed(Item(k))
                \/ \E j \in DOMAIN rest : rest[j] = k \/ (Folder[k] # None /\ rest[j] = Folder[k])
    BY <1>5, <2>4
  <2>6. WalkOK' BY <1>1, <1>2, <1>4, <1>7, <2>1, <2>5, SameCall DEF WalkOK, IsListed
  <2>7. ListedOnce' /\ ListedWasThere' BY <1>1, <2>1 DEF ListedOnce, ListedWasThere
  <2> QED BY <1>6, <2>2, <2>3, <2>6, <2>7 DEF IInv
<1>9. CASE x \in Present /\ ~RollsUp(x)
  <2>1. entries' = AddEntry(Listed(x)) BY <1>1, <1>9
  <2>2. Listed(x) \in Entries /\ Listed(x).item = x /\ WasThere(Listed(x))
    BY <1>1, <1>9, ListedFacts
  <2>3. \A i \in DOMAIN entries : Before(entries[i].item, x) BY <1>2, <1>9 DEF StandsFor
  <2>4. ~IsListed(x) BY <1>3, <2>3 DEF IsListed, Before
  <2>5. /\ entries' \in Seq(Entries) /\ Len(entries) \in Nat /\ DOMAIN entries = 1..Len(entries)
        /\ \A i \in DOMAIN entries : i \in DOMAIN entries' /\ entries'[i] = entries[i]
        /\ Len(entries) + 1 \in DOMAIN entries' /\ entries'[Len(entries) + 1] = Listed(x)
        /\ \A i \in DOMAIN entries' :
               \/ i \in DOMAIN entries /\ entries'[i] = entries[i]
               \/ i = Len(entries) + 1 /\ entries'[i] = Listed(x)
    BY <1>2, <2>1, <2>2, <2>4, AddEntryFacts
  <2>6. TypeOK'
    <3>1. \A i \in DOMAIN entries' : entries'[i].item \in Keys \cup Folders
      BY <1>1, <1>3, <2>2, <2>5 DEF TypeOK
    <3> QED BY <1>1, <3>1 DEF TypeOK, Present
  <2>7. ResultOK' BY <1>1, <1>2, <2>5 DEF ResultOK
  <2>8. \A i, j \in DOMAIN entries' : i < j => Before(entries'[i].item, entries'[j].item)
    <3>1. \A i \in DOMAIN entries : i \in Nat /\ i <= Len(entries) BY <2>5
    <3>2. ASSUME NEW i \in DOMAIN entries', NEW j \in DOMAIN entries', i < j
          PROVE  Before(entries'[i].item, entries'[j].item)
      <4>1. i \in DOMAIN entries /\ entries'[i] = entries[i] BY <2>5, <3>1, <3>2
      <4> QED BY <1>4, <2>2, <2>3, <2>5, <3>2, <4>1
    <3> QED BY <3>2
  <2>9. ASSUME NEW i \in DOMAIN entries', NEW j \in DOMAIN rest
        PROVE  Before(entries'[i].item, rest[j]) \/ StandsFor(entries'[i].item, rest[j])
    <3>1. CASE entries'[i] = Listed(x) BY <1>2, <2>2, <3>1
    <3>2. CASE i \in DOMAIN entries /\ entries'[i] = entries[i] BY <1>2, <3>2
    <3> QED BY <2>5, <3>1, <3>2
  <2>10. \A k \in always :
             Matching(k) =>
                 \/ \E i \in DOMAIN entries' : entries'[i].item = Item(k)
                 \/ \E j \in DOMAIN rest : rest[j] = k \/ (Folder[k] # None /\ rest[j] = Folder[k])
    <3>1. Item(x) = x BY <1>9 DEF Item
    <3>2. \E i \in DOMAIN entries' : entries'[i].item = x BY <2>2, <2>5
    <3>3. \A y : IsListed(y) => \E i \in DOMAIN entries' : entries'[i].item = y
      BY <2>5 DEF IsListed
    <3> QED BY <1>5, <3>1, <3>2, <3>3
  <2>11. WalkOK'
    <3>1. \A j \in DOMAIN rest :
              rest[j] \in Keys /\ RollsUp(rest[j]) =>
                  \E i \in DOMAIN entries' : entries'[i].item = Folder[rest[j]]
      BY <1>2, <2>5 DEF IsListed
    <3> QED BY <1>1, <1>2, <1>7, <2>8, <2>9, <2>10, <3>1, SameCall DEF WalkOK, IsListed
  <2>12. ListedOnce'
    <3>1. \A i \in DOMAIN entries : entries[i].item # x BY <2>4 DEF IsListed
    <3>2. \A i, j \in DOMAIN entries' : entries'[i].item = entries'[j].item => i = j
      BY <1>4, <2>2, <2>5, <3>1
    <3> QED BY <3>2 DEF ListedOnce
  <2>13. ListedWasThere'
    <3>1. \A i \in DOMAIN entries' : WasThere(entries'[i]) BY <1>4, <2>2, <2>5
    <3> QED BY <1>1, <3>1 DEF ListedWasThere, WasThere
  <2> QED BY <1>6, <2>6, <2>7, <2>11, <2>12, <2>13 DEF IInv
<1> QED BY <1>8, <1>9

\* The limit cuts off what comes last.
LEMMA WalkDoneStep ==
    ASSUME IInv, WalkDone
    PROVE  IInv'
<1>1. /\ TypeOK /\ ResultOK /\ StoreOK /\ ListedOnce /\ ListedWasThere /\ WalkOK
      /\ backend = "file" /\ phase = "visiting" /\ left = << >>
      /\ phase' = "ok" /\ entries' = Take(entries, Limit)
      /\ UNCHANGED <<object, dirs, backend, options, retries, token, more, left, writes, ever, always>>
  BY DEF IInv, WalkDone, history
<1>2. Limit \in Nat BY <1>1, LimitFacts
<1>3. entries \in Seq(Entries) /\ DOMAIN left = {} BY <1>1 DEF ResultOK
<1>4. /\ entries' \in Seq(Entries) /\ Len(entries') \in Nat
      /\ DOMAIN entries' = 1..Len(entries')
      /\ Len(entries') = Limit \/ Len(entries') = Len(entries)
      /\ \A i \in DOMAIN entries' : i \in DOMAIN entries /\ entries'[i] = entries[i]
  <2> HIDE DEF Limit
  <2> QED BY <1>1, <1>2, <1>3, TakeFacts
<1>5. TypeOK' BY <1>1, <1>4 DEF TypeOK, Present
<1>6. ResultOK' BY <1>1, <1>4 DEF ResultOK
<1>7. StoreOK' /\ PagesOK' /\ WalkOK' BY <1>1 DEF StoreOK, Present, PagesOK, WalkOK
<1>8. ListsWhatStays'
  <2>1. ASSUME NEW k \in always, Matching(k)
        PROVE  \/ \E i \in DOMAIN entries' : entries'[i].item = Item(k)
               \/ /\ Len(entries') = Limit
                  /\ \A i \in DOMAIN entries' : First(entries'[i].item) < First(Item(k))
    <3>1. IsListed(Item(k)) BY <1>1, <1>3, <2>1 DEF WalkOK
    <3>2. PICK j \in DOMAIN entries : entries[j].item = Item(k) BY <3>1 DEF IsListed
    <3>3. CASE j \in DOMAIN entries' BY <1>4, <3>2, <3>3
    <3>4. CASE j \notin DOMAIN entries'
      <4> DEFINE n == Len(entries)
                 m == Len(entries')
      <4>1. /\ n \in Nat /\ \A i \in DOMAIN entries : i \in 1..n
            /\ m \in Nat /\ \A i : i \in DOMAIN entries' <=> i \in 1..m
            /\ m = Limit \/ m = n
        BY <1>3, <1>4, LenProperties
      <4> HIDE DEF n, m
      <4>2. j \in Nat /\ j <= n /\ m < j BY <3>4, <4>1
      <4>3. m = Limit /\ \A i \in DOMAIN entries' : i < j BY <4>1, <4>2
      <4>4. ASSUME NEW i \in DOMAIN entries' PROVE First(entries'[i].item) < First(Item(k))
        <5>1. /\ i \in DOMAIN entries /\ entries'[i] = entries[i]
              /\ entries[i].item \in Items /\ entries[j].item \in Items
          BY <1>1, <1>4, <3>2 DEF TypeOK, Items
        <5>2. Before(entries[i].item, entries[j].item) BY <1>1, <3>2, <4>3, <5>1 DEF WalkOK
        <5>3. /\ First(entries[i].item) \in Nat /\ Final(entries[i].item) \in Nat
              /\ First(entries[i].item) <= Final(entries[i].item) /\ First(entries[j].item) \in Nat
          BY <5>1, ItemFacts, KeyFacts
        <5> QED BY <3>2, <5>1, <5>2, <5>3 DEF Before
      <4> QED BY <4>3, <4>4 DEF m
    <3> QED BY <3>3, <3>4
  <2> QED BY <1>1, <2>1, SameCall DEF ListsWhatStays
<1>9. ListedOnce' BY <1>1, <1>4 DEF ListedOnce
<1>10. ListedWasThere'
  <2>1. \A i \in DOMAIN entries' : WasThere(entries'[i])
    BY <1>1, <1>4 DEF ListedWasThere, WasThere
  <2> QED BY <1>1, <2>1 DEF ListedWasThere, WasThere
<1> QED BY <1>5, <1>6, <1>7, <1>8, <1>9, <1>10 DEF IInv

-------------------------------------------------------------------------------
(***************************************************************************)
(* The other callers, who leave the call alone and forget nothing.         *)
(***************************************************************************)
LEMMA StoreStep ==
    ASSUME IInv, UNCHANGED <<backend, options, call>>,
           \A k \in Keys : ever[k] \subseteq ever'[k], always' \subseteq always, TypeOK', StoreOK'
    PROVE  IInv'
<1>1. /\ TypeOK /\ ResultOK /\ PagesOK /\ WalkOK
      /\ ListsWhatStays /\ ListedOnce /\ ListedWasThere
      /\ UNCHANGED <<backend, options, phase, retries, token, more, left, entries>>
  BY DEF IInv, call, result
<1>2. ResultOK' BY <1>1 DEF ResultOK
<1>3. PagesOK'
  <2>1. \A k : Passed(k)' = Passed(k) BY <1>1 DEF Passed
  <2>2. backend = "s3" =>
            \A j \in DOMAIN left : left[j].item \in Keys /\ left[j].etag \in ever'[left[j].item]
    BY <1>1 DEF PagesOK
  <2>3. always' \subseteq always OBVIOUS
  <2> QED BY <1>1, <2>1, <2>2, <2>3, SameCall DEF PagesOK, IsListed
<1>4. WalkOK'
  <2>1. \A x, y : StandsFor(x, y)' <=> StandsFor(x, y) BY <1>1, SameCall DEF StandsFor
  <2> QED BY <1>1, <2>1, SameCall DEF WalkOK, IsListed
<1>5. ListsWhatStays' BY <1>1, SameCall DEF ListsWhatStays
<1>6. ListedOnce' BY <1>1 DEF ListedOnce
<1>7. ListedWasThere'
  <2>1. ASSUME NEW i \in DOMAIN entries
        PROVE  WasThere(entries[i])'
    <3>1. entries[i].item \in Items /\ WasThere(entries[i])
      BY <1>1 DEF TypeOK, Items, ListedWasThere, WasThere
    <3>2. CASE entries[i].item \in Folders
      <4>1. \A k \in Inside(entries[i].item) : k \in Keys BY <3>2, FolderFacts
      <4> QED BY <1>1, <3>1, <3>2, <4>1 DEF WasThere
    <3>3. CASE entries[i].item \notin Folders
      <4>1. entries[i].item \in Keys BY <3>1, <3>3 DEF Items
      <4> QED BY <1>1, <3>1, <3>3, <4>1 DEF WasThere
    <3> QED BY <3>2, <3>3
  <2> QED BY <1>1, <2>1 DEF ListedWasThere, WasThere
<1> QED BY <1>2, <1>3, <1>4, <1>5, <1>6, <1>7 DEF IInv

LEMMA PutStep ==
    ASSUME IInv, NEW k \in Keys, Put(k)
    PROVE  IInv'
<1>1. /\ TypeOK /\ StoreOK /\ writes' = writes + 1
      /\ backend = "file" /\ Folder[k] # None => Folder[k] \in dirs
      /\ object' = [object EXCEPT ![k] = writes']
      /\ ever' = [ever EXCEPT ![k] = @ \cup {writes'}]
      /\ UNCHANGED <<dirs, backend, options, call, always>>
  BY DEF IInv, Put
<1>2. UNCHANGED <<phase, retries, token, more, left, entries>> BY <1>1 DEF call, result
<1>3. writes \in Nat /\ writes' \in Nat /\ writes' # 0 /\ writes < writes' BY <1>1 DEF TypeOK
<1>4. object \in [Keys -> Nat] /\ ever \in [Keys -> SUBSET Nat] BY <1>1 DEF TypeOK
<1>5. /\ object'[k] = writes' /\ ever'[k] = ever[k] \cup {writes'}
      /\ \A m \in Keys : m # k => object'[m] = object[m] /\ ever'[m] = ever[m]
      /\ object' \in [Keys -> Nat] /\ ever' \in [Keys -> SUBSET Nat]
  BY <1>1, <1>3, <1>4
<1>6. \A m \in Keys : ever[m] \subseteq ever'[m] BY <1>5
<1>7. Present \subseteq Present' /\ \A m \in Present' : m = k \/ m \in Present
  BY <1>3, <1>5 DEF Present
<1>8. TypeOK' BY <1>1, <1>2, <1>3, <1>5, <1>7 DEF TypeOK
<1>9. StoreOK'
  <2>1. \A m \in Keys : \A version \in ever[m] : version \in Nat /\ version <= writes
    BY <1>1, <1>4 DEF StoreOK
  <2>2. \A m \in Keys : \A version \in ever'[m] : version <= writes' BY <1>3, <1>5, <2>1
  <2>3. \A m \in Present' :
            object'[m] \in ever'[m] /\ \A version \in ever'[m] : version <= object'[m]
    <3>1. object'[k] \in ever'[k] /\ \A version \in ever'[k] : version <= object'[k]
      BY <1>5, <2>2
    <3>2. ASSUME NEW m \in Present, m # k
          PROVE  object'[m] \in ever'[m] /\ \A version \in ever'[m] : version <= object'[m]
      <4>1. m \in Keys BY DEF Present
      <4> QED BY <1>1, <1>5, <3>2, <4>1 DEF StoreOK
    <3> QED BY <1>7, <3>1, <3>2
  <2>4. backend = "file" => \A m \in Present' : Folder[m] # None => Folder[m] \in dirs
    BY <1>1, <1>7 DEF StoreOK
  <2> QED BY <1>1, <2>2, <2>3, <2>4 DEF StoreOK
<1> QED BY <1>1, <1>6, <1>8, <1>9, StoreStep

LEMMA DeleteStep ==
    ASSUME IInv, NEW k \in Keys, Delete(k)
    PROVE  IInv'
<1>1. /\ TypeOK /\ StoreOK /\ writes' = writes + 1
      /\ object' = [object EXCEPT ![k] = 0] /\ always' = always \ {k}
      /\ UNCHANGED <<dirs, backend, options, call, ever>>
  BY DEF IInv, Delete
<1>2. UNCHANGED <<phase, retries, token, more, left, entries>> BY <1>1 DEF call, result
<1>3. writes \in Nat /\ writes' \in Nat /\ writes < writes' BY <1>1 DEF TypeOK
<1>4. object \in [Keys -> Nat] /\ ever \in [Keys -> SUBSET Nat] BY <1>1 DEF TypeOK
<1>5. /\ object'[k] = 0 /\ \A m \in Keys : m # k => object'[m] = object[m]
      /\ object' \in [Keys -> Nat]
  BY <1>1, <1>4
<1>6. Present' = Present \ {k} BY <1>5 DEF Present
<1>7. TypeOK' BY <1>1, <1>2, <1>3, <1>5, <1>6 DEF TypeOK
<1>8. StoreOK'
  <2>1. \A m \in Keys : \A version \in ever[m] : version \in Nat /\ version <= writes
    BY <1>1, <1>4 DEF StoreOK
  <2>2. ASSUME NEW m \in Keys, NEW version \in ever[m] PROVE version <= writes'
    <3>1. version \in Nat /\ version <= writes BY <2>1
    <3> HIDE <1>1
    <3> QED BY <1>3, <3>1
  <2>3. \A m \in Present' : m \in Present /\ object'[m] = object[m] BY <1>5, <1>6 DEF Present
  <2> QED BY <1>1, <2>2, <2>3 DEF StoreOK
<1> QED BY <1>1, <1>7, <1>8, StoreStep

LEMMA DirectoriesStep ==
    ASSUME IInv, NEW g \in Folders, MakeDirectory(g) \/ RemoveDirectory(g)
    PROVE  IInv'
<1>1. /\ TypeOK /\ StoreOK /\ UNCHANGED <<object, backend, options, call, writes, ever, always>>
  BY DEF IInv, MakeDirectory, RemoveDirectory, history
<1>2. UNCHANGED <<phase, retries, token, more, left, entries>> BY <1>1 DEF call, result
<1>3. Present' = Present BY <1>1 DEF Present
<1>4. dirs' \subseteq Folders BY <1>1 DEF TypeOK, MakeDirectory, RemoveDirectory
<1>5. TypeOK' BY <1>1, <1>2, <1>3, <1>4 DEF TypeOK
<1>6. ASSUME NEW k \in Present, Folder[k] # None, backend = "file" PROVE Folder[k] \in dirs'
  <2>1. Folder[k] \in dirs BY <1>1, <1>6 DEF StoreOK
  <2>2. CASE MakeDirectory(g) BY <2>1, <2>2 DEF MakeDirectory
  <2>3. CASE RemoveDirectory(g)
    <3>1. k \in Keys BY DEF Present
    <3>2. dirs' = dirs \ {g} /\ Inside(g) \cap Present = {} BY <2>3 DEF RemoveDirectory
    <3>3. Folder[k] # g BY <3>1, <3>2 DEF Inside
    <3> QED BY <2>1, <3>2, <3>3
  <2> QED BY <2>2, <2>3
<1>7. StoreOK' BY <1>1, <1>3, <1>6 DEF StoreOK
<1> QED BY <1>1, <1>5, <1>7, StoreStep

-------------------------------------------------------------------------------
LEMMA InitListing ==
    ASSUME Init
    PROVE  IInv
<1>1. PICK stored \in SUBSET Keys :
          object = [k \in Keys |-> IF k \in stored THEN Written(k) ELSE 0]
  BY DEF Init
<1>2. /\ backend \in Backends /\ options \in Options /\ writes = Cardinality(Keys)
      /\ dirs = IF backend = "file" THEN {Folder[k] : k \in Present} \ {None} ELSE {}
      /\ phase = "asking" /\ retries = 0 /\ token = 0 /\ more = FALSE
      /\ left = << >> /\ entries = << >>
      /\ ever = [k \in Keys |-> {object[k]} \ {0}] /\ always = Present
  BY DEF Init
<1>3. Cardinality(Keys) \in Nat BY FS_CardinalityType
<1>4. ASSUME NEW k \in Keys PROVE Written(k) \in Nat /\ Written(k) <= Cardinality(Keys)
  <2>1. {m \in Keys : m <= k} \in SUBSET Keys OBVIOUS
  <2> QED BY <2>1, FS_Subset, FS_CardinalityType DEF Written
<1>5. ASSUME NEW k \in Keys
      PROVE  object[k] \in Nat /\ object[k] <= writes /\ ever[k] = {object[k]} \ {0}
  BY <1>1, <1>2, <1>3, <1>4
<1>6. object \in [Keys -> Nat] BY <1>1, <1>4
<1>7. DOMAIN entries = {} /\ DOMAIN left = {} BY <1>2
<1>8. TypeOK
  <2>1. ever \in [Keys -> SUBSET Nat] BY <1>2, <1>5
  <2>2. dirs \subseteq Folders BY <1>2 DEF Folders, Present
  <2>3. retries \in 0..MaxRetries BY <1>2
  <2> QED BY <1>2, <1>3, <1>6, <1>7, <2>1, <2>2, <2>3 DEF TypeOK
<1>9. ResultOK
  <2>1. entries \in Seq(Entries) /\ left \in Seq(IF backend = "s3" THEN Entries ELSE Items)
    BY <1>2, EmptySeq
  <2> QED BY <1>2, <2>1 DEF ResultOK
<1>10. StoreOK
  <2>1. \A k \in Present : k \in Keys /\ object[k] # 0 BY DEF Present
  <2>2. backend = "file" => \A k \in Present : Folder[k] # None => Folder[k] \in dirs BY <1>2
  <2>3. \A k \in Keys : \A version \in ever[k] : version <= writes BY <1>5
  <2>4. ASSUME NEW k \in Present
        PROVE  object[k] \in ever[k] /\ \A version \in ever[k] : version <= object[k]
    <3>1. object[k] \in Nat /\ object[k] # 0 /\ ever[k] = {object[k]} \ {0} BY <1>5, <2>1
    <3> QED BY <3>1
  <2> QED BY <2>2, <2>3, <2>4 DEF StoreOK
<1>11. PagesOK
  <2>1. \A k \in always : ~Passed(k)
    <3>1. \A k \in always : k \in Nat \ {0} BY <1>2 DEF Present
    <3> QED BY <1>2, <3>1 DEF Passed
  <2> QED BY <1>2, <1>7, <2>1 DEF PagesOK
<1>12. WalkOK /\ ListsWhatStays BY <1>2 DEF WalkOK, ListsWhatStays
<1>13. ListedOnce /\ ListedWasThere BY <1>7 DEF ListedOnce, ListedWasThere
<1> QED BY <1>8, <1>9, <1>10, <1>11, <1>12, <1>13 DEF IInv

LEMMA NextListing ==
    ASSUME IInv, [Next]_vars
    PROVE  IInv'
<1>1. CASE ListMemory BY <1>1, MemoryStep
<1>2. CASE ListPage BY <1>2, PageStep
<1>3. CASE ListObject BY <1>3, ObjectStep
<1>4. CASE PageDone BY <1>4, PageDoneStep
<1>5. CASE WalkRoot BY <1>5, RootStep
<1>6. CASE WalkDirectory BY <1>6, DirectoryStep
<1>7. CASE WalkFile BY <1>7, FileStep
<1>8. CASE WalkDone BY <1>8, WalkDoneStep
<1>9. CASE ListFails BY <1>9, FailsStep
<1>10. ASSUME NEW k \in Keys, Put(k) \/ Delete(k) PROVE IInv' BY <1>10, PutStep, DeleteStep
<1>11. ASSUME NEW g \in Folders, MakeDirectory(g) \/ RemoveDirectory(g) PROVE IInv'
  BY <1>11, DirectoriesStep
<1>12. CASE UNCHANGED vars
  <2>1. /\ TypeOK /\ StoreOK
        /\ UNCHANGED <<object, dirs, backend, options, phase, retries, token, more, left, entries,
                       writes, ever, always>>
    BY <1>12 DEF IInv, vars, call, result, history
  <2>2. TypeOK' /\ StoreOK' BY <2>1 DEF TypeOK, StoreOK, Present
  <2>3. UNCHANGED <<backend, options, call>> BY <1>12 DEF vars
  <2>4. always' \subseteq always /\ \A k \in Keys : ever[k] \subseteq ever'[k] BY <2>1
  <2> QED BY <2>2, <2>3, <2>4, StoreStep
<1> QED BY <1>1, <1>2, <1>3, <1>4, <1>5, <1>6, <1>7, <1>8, <1>9, <1>10, <1>11, <1>12
        DEF Next, Returned

\* The result and what is left to look at, the token of S3 and the order of the walk
\* stay such that what stays in the store is listed, once, and nothing else is: for
\* every number of keys and folders, every limit, and any number of writes, pages
\* and retries. (store.go List and the List of the three backends.)
THEOREM Induction == Spec => []IInv
<1>1. Init => IInv BY InitListing
<1>2. IInv /\ [Next]_vars => IInv' BY NextListing
<1> QED BY <1>1, <1>2, PTL DEF Spec

\* A page token is a key, and only keys and folders are listed. (s3storage.go List.)
THEOREM TypeCorrect == Spec => []TypeOK
<1>1. IInv => TypeOK BY DEF IInv
<1> QED BY <1>1, Induction, PTL

\* A key that is there throughout the call is in the result, or its folder is, unless
\* the limit cut the result off before it. (store.go List.)
THEOREM ListingIsComplete == Spec => []ListsWhatStays
<1>1. IInv => ListsWhatStays BY DEF IInv
<1> QED BY <1>1, Induction, PTL

\* Nothing is listed twice, whatever changes between two pages or two directories,
\* and however often the call is retried. (store.go List.)
THEOREM ListingIsOnce == Spec => []ListedOnce
<1>1. IInv => ListedOnce BY DEF IInv
<1> QED BY <1>1, Induction, PTL

\* What is listed was there during the call, with metadata no older than the ETag.
\* (s3storage.go List, mock_storage.go List, filestorage.go List.)
THEOREM ListingWasThere == Spec => []ListedWasThere
<1>1. IInv => ListedWasThere BY DEF IInv
<1> QED BY <1>1, Induction, PTL
===============================================================================
