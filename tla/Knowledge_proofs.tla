---------------------------- MODULE Knowledge_proofs ----------------------------
(***************************************************************************)
(* What an answer to a question can hold, for every store, every set of    *)
(* questions and every limit.                                              *)
(***************************************************************************)
EXTENDS Knowledge, FiniteSetTheorems, SequenceTheorems, TLAPS

------------------------------------------------------------------------------
(* Fractions.                                                               *)

Fractions == Nat \X (Nat \ {0})

LEMMA TimesMonotonic ==
    ASSUME NEW a \in Nat, NEW b \in Nat, NEW c \in Nat, a <= b
    PROVE  a * c <= b * c
  <1>1. b * c = a * c + (b - a) * c
    OBVIOUS
  <1>2. (b - a) * c >= 0
    OBVIOUS
  <1> QED BY <1>1, <1>2

LEMMA TimesStrict ==
    ASSUME NEW a \in Nat, NEW b \in Nat, NEW c \in Nat \ {0}, a < b
    PROVE  a * c < b * c
  <1>1. b * c = a * c + (b - a) * c
    OBVIOUS
  <1>2. (b - a) * c > 0
    OBVIOUS
  <1> QED BY <1>1, <1>2

LEMMA LessIsTransitive ==
    ASSUME NEW x \in Fractions, NEW y \in Fractions, NEW z \in Fractions,
           ~Less(x, y), ~Less(y, z)
    PROVE  ~Less(x, z)
  <1>1. PICK a \in Nat, b \in Nat \ {0} : x = <<a, b>>
    BY DEF Fractions
  <1>2. PICK c \in Nat, d \in Nat \ {0} : y = <<c, d>>
    BY DEF Fractions
  <1>3. PICK e \in Nat, f \in Nat \ {0} : z = <<e, f>>
    BY DEF Fractions
  <1>4. c * b <= a * d /\ e * d <= c * f
    BY <1>1, <1>2, <1>3 DEF Less
  <1>5. (c * b) * f <= (a * d) * f
    BY <1>4, TimesMonotonic
  <1>6. (e * d) * b <= (c * f) * b
    BY <1>4, TimesMonotonic
  <1>7. (e * b) * d <= (a * f) * d
    BY <1>5, <1>6
  <1>8. e * b <= a * f
    BY <1>7, TimesStrict
  <1> QED BY <1>1, <1>3, <1>8 DEF Less

LEMMA LessIsStrict ==
    ASSUME NEW x \in Fractions, NEW y \in Fractions
    PROVE  /\ Less(x, y) \in BOOLEAN
           /\ Less(x, y) => ~Less(y, x)
           /\ ~Less(x, x)
  <1>1. PICK a \in Nat, b \in Nat \ {0} : x = <<a, b>>
    BY DEF Fractions
  <1>2. PICK c \in Nat, d \in Nat \ {0} : y = <<c, d>>
    BY DEF Fractions
  <1> QED BY <1>1, <1>2 DEF Less

\* A share that is larger, or as large, than another in either ranking makes a
\* score that is.
LEMMA PlusIsFraction ==
    ASSUME NEW x \in Fractions, NEW y \in Fractions
    PROVE  Plus(x, y) \in Fractions
  <1>1. PICK a \in Nat, b \in Nat \ {0} : x = <<a, b>>
    BY DEF Fractions
  <1>2. PICK c \in Nat, d \in Nat \ {0} : y = <<c, d>>
    BY DEF Fractions
  <1>3. a * d + c * b \in Nat /\ b * d \in Nat \ {0}
    OBVIOUS
  <1> QED BY <1>1, <1>2, <1>3 DEF Plus, Fractions

LEMMA PlusIsMonotonic ==
    ASSUME NEW x \in Fractions, NEW y \in Fractions,
           NEW u \in Fractions, NEW v \in Fractions,
           ~Less(u, x), ~Less(v, y)
    PROVE  /\ ~Less(Plus(u, v), Plus(x, y))
           /\ Less(x, u) \/ Less(y, v) => Less(Plus(x, y), Plus(u, v))
  <1>1. PICK a \in Nat, b \in Nat \ {0} : x = <<a, b>>
    BY DEF Fractions
  <1>2. PICK c \in Nat, d \in Nat \ {0} : y = <<c, d>>
    BY DEF Fractions
  <1>3. PICK e \in Nat, f \in Nat \ {0} : u = <<e, f>>
    BY DEF Fractions
  <1>4. PICK g \in Nat, h \in Nat \ {0} : v = <<g, h>>
    BY DEF Fractions
  <1>5. a * f <= e * b /\ c * h <= g * d
    BY <1>1, <1>2, <1>3, <1>4 DEF Less
  <1> DEFINE D == d * h
             B == b * f
  <1>6. D \in Nat \ {0} /\ B \in Nat \ {0}
    OBVIOUS
  <1>7. (a * f) * D <= (e * b) * D /\ (c * h) * B <= (g * d) * B
    BY <1>5, <1>6, TimesMonotonic
  <1>8. /\ a * f < e * b => (a * f) * D < (e * b) * D
        /\ c * h < g * d => (c * h) * B < (g * d) * B
    BY <1>6, TimesStrict
  <1>9. /\ (a * d + c * b) * (f * h) = (a * f) * D + (c * h) * B
        /\ (e * h + g * f) * (b * d) = (e * b) * D + (g * d) * B
    OBVIOUS
  <1>10. (a * d + c * b) * (f * h) <= (e * h + g * f) * (b * d)
    BY <1>7, <1>9
  <1>11. (a * f < e * b) \/ (c * h < g * d)
           => (a * d + c * b) * (f * h) < (e * h + g * f) * (b * d)
    BY <1>7, <1>8, <1>9
  <1> HIDE DEF D, B
  <1>12. /\ Plus(x, y) = <<a * d + c * b, b * d>>
         /\ Plus(u, v) = <<e * h + g * f, f * h>>
    BY <1>1, <1>2, <1>3, <1>4 DEF Plus
  <1>13. /\ Less(x, u) <=> a * f < e * b
         /\ Less(y, v) <=> c * h < g * d
    BY <1>1, <1>2, <1>3, <1>4 DEF Less
  <1>14. /\ Less(Plus(x, y), Plus(u, v)) <=>
              (a * d + c * b) * (f * h) < (e * h + g * f) * (b * d)
         /\ Less(Plus(u, v), Plus(x, y)) <=>
              (e * h + g * f) * (b * d) < (a * d + c * b) * (f * h)
    BY <1>12 DEF Less
  <1> QED BY <1>10, <1>11, <1>13, <1>14

------------------------------------------------------------------------------
(* The order of the similarities.                                           *)

Items == [chunk : Known, similarity : Fractions]
Before(items, i) ==
    {j \in DOMAIN items :
        \/ Less(items[i].similarity, items[j].similarity)
        \/ /\ ~Less(items[j].similarity, items[i].similarity)
           /\ j <= i}

LEMMA BeforeIsAnOrder ==
    ASSUME NEW items \in Seq(Items), NEW i \in DOMAIN items, NEW j \in DOMAIN items
    PROVE  /\ i \in Before(items, i)
           /\ i \in Before(items, j) \/ j \in Before(items, i)
           /\ i \in Before(items, j) /\ j \in Before(items, i) => i = j
           /\ i \in Before(items, j) => Before(items, i) \subseteq Before(items, j)
  <1>0. \A k \in DOMAIN items : k \in Nat /\ items[k] \in Items
    OBVIOUS
  <1>1. \A k \in DOMAIN items : k \in Nat /\ items[k].similarity \in Fractions
    BY <1>0 DEF Items
  <1>2. \A k \in DOMAIN items, l \in DOMAIN items :
          /\ Less(items[k].similarity, items[l].similarity)
               => ~Less(items[l].similarity, items[k].similarity)
          /\ ~Less(items[k].similarity, items[k].similarity)
    BY <1>1, LessIsStrict
  <1>3. \A k \in DOMAIN items, l \in DOMAIN items, m \in DOMAIN items :
          ~Less(items[k].similarity, items[l].similarity)
            /\ ~Less(items[l].similarity, items[m].similarity)
            => ~Less(items[k].similarity, items[m].similarity)
    BY <1>1, LessIsTransitive
  <1>4. i \in Before(items, i)
    BY <1>1, <1>2 DEF Before
  <1>5. i \in Before(items, j) \/ j \in Before(items, i)
    BY <1>1, <1>2 DEF Before
  <1>6. i \in Before(items, j) /\ j \in Before(items, i) => i = j
    BY <1>1, <1>2 DEF Before
  <1>7. ASSUME i \in Before(items, j), NEW k \in Before(items, i)
        PROVE  k \in Before(items, j)
    <2>1. /\ k \in DOMAIN items
          /\ ~Less(items[k].similarity, items[i].similarity)
          /\ ~Less(items[i].similarity, items[j].similarity)
      BY <1>2, <1>7 DEF Before
    <2>2. ~Less(items[k].similarity, items[j].similarity)
      BY <1>3, <2>1
    <2>3. CASE Less(items[j].similarity, items[k].similarity)
      BY <2>1, <2>3 DEF Before
    <2>4. CASE ~Less(items[j].similarity, items[k].similarity)
      <3>1. /\ ~Less(items[i].similarity, items[k].similarity)
            /\ ~Less(items[j].similarity, items[i].similarity)
        BY <1>3, <2>1, <2>4
      <3>2. k <= i /\ i <= j
        BY <1>7, <3>1 DEF Before
      <3> QED BY <1>1, <2>1, <2>2, <3>2 DEF Before
    <2> QED BY <2>3, <2>4
  <1> QED BY <1>4, <1>5, <1>6, <1>7

\* The places of a list's items are those of the list.
LEMMA PlacesAreIndices ==
    ASSUME NEW items \in Seq(Items)
    PROVE  /\ \A i \in 1 .. Len(items) : Place(items, i) \in 1 .. Len(items)
           /\ \A i \in 1 .. Len(items), j \in 1 .. Len(items) :
                /\ i \in Before(items, j) <=> Place(items, i) <= Place(items, j)
                /\ Place(items, i) = Place(items, j) => i = j
           /\ \A n \in 1 .. Len(items) :
                \E i \in 1 .. Len(items) : Place(items, i) = n
  <1> DEFINE N == Len(items)
             D == 1 .. N
             B(i) == Before(items, i)
  <1>1. N \in Nat /\ DOMAIN items = D
    OBVIOUS
  <1>2. IsFiniteSet(D) /\ Cardinality(D) = N
    <2>1. \A n \in Nat : IsFiniteSet(1 .. n) /\ Cardinality(1 .. n) = n
      BY FS_Interval
    <2> HIDE DEF N
    <2> QED BY <1>1, <2>1
  <1>3. \A i \in D : /\ B(i) \subseteq D
                     /\ Place(items, i) = Cardinality(B(i))
    BY <1>1 DEF Before, Place
  <1>4. \A i \in D : i \in B(i) /\ IsFiniteSet(B(i)) /\ Cardinality(B(i)) <= N
    BY <1>1, <1>2, <1>3, BeforeIsAnOrder, FS_Subset
  <1>5. \A i \in D : Cardinality(B(i)) \in 1 .. N
    <2> TAKE i \in D
    <2>1. Cardinality(B(i)) \in Nat
      BY <1>4, FS_CardinalityType
    <2>2. Cardinality(B(i)) # 0
      BY <1>4, FS_EmptySet
    <2> QED BY <1>1, <1>4, <2>1, <2>2
  <1>6. ASSUME NEW i \in D, NEW j \in D
        PROVE  /\ i \in B(j) <=> Place(items, i) <= Place(items, j)
               /\ Place(items, i) = Place(items, j) => i = j
    <2>1. ASSUME NEW k \in D, NEW l \in D, k \in B(l)
          PROVE  /\ Cardinality(B(k)) <= Cardinality(B(l))
                 /\ Cardinality(B(k)) = Cardinality(B(l)) => k = l
      <3>1. B(k) \subseteq B(l)
        BY <1>1, <2>1, BeforeIsAnOrder
      <3>2. /\ Cardinality(B(k)) <= Cardinality(B(l))
            /\ Cardinality(B(l)) = Cardinality(B(k)) => B(l) = B(k)
        BY <1>4, <3>1, FS_Subset
      <3>3. B(l) = B(k) => k = l
        BY <1>1, <1>4, BeforeIsAnOrder
      <3> QED BY <3>2, <3>3
    <2>2. i \in B(j) \/ j \in B(i)
      BY <1>1, BeforeIsAnOrder
    <2>3. Cardinality(B(i)) \in Nat /\ Cardinality(B(j)) \in Nat
      BY <1>5
    <2>4. i \in B(i)
      BY <1>4
    <2> HIDE DEF B
    <2> QED BY <1>3, <2>1, <2>2, <2>3, <2>4
  <1>7. ASSUME NEW n \in D, \A i \in D : Place(items, i) # n
        PROVE  FALSE
    <2> DEFINE T == D \ {n}
               f == [i \in D |-> Place(items, i)]
    <2>1. IsFiniteSet(T) /\ Cardinality(T) = N - 1
      BY <1>2, FS_RemoveElement
    <2>2. f \in [D -> T]
      BY <1>3, <1>5, <1>7
    <2>3. Cardinality(T) < Cardinality(D)
      BY <1>1, <1>2, <2>1
    <2> HIDE DEF T, D, f
    <2>4. PICK x \in D, y \in D : x # y /\ f[x] = f[y]
      BY <1>2, <2>1, <2>2, <2>3, FS_PigeonHole
    <2>5. Place(items, x) = Place(items, y)
      BY <2>4 DEF f
    <2> QED BY <1>6, <2>4, <2>5
  <1> QED BY <1>3, <1>5, <1>6, <1>7

LEMMA FirstOfIsPrefix ==
    ASSUME NEW S, NEW s \in Seq(S), NEW n \in Nat
    PROVE  /\ FirstOf(s, n) \in Seq(S)
           /\ Len(FirstOf(s, n)) = (IF n < Len(s) THEN n ELSE Len(s))
           /\ \A i \in 1 .. Len(FirstOf(s, n)) : FirstOf(s, n)[i] = s[i]
           /\ ToSet(FirstOf(s, n)) \subseteq ToSet(s)
  <1> DEFINE m == IF n < Len(s) THEN n ELSE Len(s)
  <1>1. m \in 0 .. Len(s) /\ Len(s) \in Nat
    OBVIOUS
  <1>2. FirstOf(s, n) = SubSeq(s, 1, m)
    BY DEF FirstOf
  <1> HIDE DEF m
  <1>3. \A i \in 1 .. m : s[i] \in S
    BY <1>1
  <1>4. /\ SubSeq(s, 1, m) \in Seq(S) /\ Len(SubSeq(s, 1, m)) = m
        /\ \A i \in 1 .. m : SubSeq(s, 1, m)[i] = s[i]
    BY <1>1, <1>3
  <1>5. FirstOf(s, n) \in Seq(S) /\ Len(FirstOf(s, n)) = m
        /\ \A i \in 1 .. m : FirstOf(s, n)[i] = s[i]
    BY <1>2, <1>4
  <1>6. DOMAIN FirstOf(s, n) = 1 .. m /\ 1 .. m \subseteq DOMAIN s
    BY <1>1, <1>5
  <1>7. ToSet(FirstOf(s, n)) \subseteq ToSet(s)
    BY <1>5, <1>6 DEF ToSet
  <1> QED BY <1>5, <1>7 DEF m

\* The sort loses nothing, and puts nothing behind what is less similar.
LEMMA BySimilarityIsSorted ==
    ASSUME NEW items \in Seq(Items)
    PROVE  LET s == BySimilarity(items)
           IN  /\ s \in Seq(Items) /\ Len(s) = Len(items)
               /\ ToSet(s) = ToSet(items)
               /\ \A m \in 1 .. Len(s), n \in 1 .. Len(s) :
                     m < n => ~Less(s[m].similarity, s[n].similarity)
  <1> DEFINE N == Len(items)
             D == 1 .. N
             At(n) == CHOOSE i \in DOMAIN items : Place(items, i) = n
             s == BySimilarity(items)
  <1>1. N \in Nat /\ DOMAIN items = D
    OBVIOUS
  <1>2. \A n \in D : At(n) \in D /\ Place(items, At(n)) = n
    BY <1>1, PlacesAreIndices
  <1>3. \A i \in D : Place(items, i) \in D /\ At(Place(items, i)) = i
    BY <1>1, <1>2, PlacesAreIndices
  <1>4. s = [n \in D |-> items[At(n)]]
    BY <1>1 DEF BySimilarity
  <1> HIDE DEF At
  <1>5. \A i \in D : items[i] \in Items
    OBVIOUS
  <1>6. s \in Seq(Items) /\ Len(s) = N /\ DOMAIN s = D
    <2>1. s \in [D -> Items]
      BY <1>2, <1>4, <1>5
    <2> QED BY <1>1, <2>1
  <1>7. ToSet(s) = ToSet(items)
    <2>1. \A n \in D : s[n] = items[At(n)]
      BY <1>4
    <2> HIDE DEF s
    <2>2. \A i \in D : items[i] = s[Place(items, i)]
      BY <1>3, <2>1
    <2> QED BY <1>1, <1>2, <1>3, <1>6, <2>1, <2>2 DEF ToSet
  <1>8. ASSUME NEW m \in D, NEW n \in D, m < n
        PROVE  ~Less(s[m].similarity, s[n].similarity)
    <2>1. At(m) \in Before(items, At(n))
      <3>1. m <= n
        BY <1>8
      <3> QED BY <1>2, <3>1, PlacesAreIndices
    <2>2. /\ items[At(m)].similarity \in Fractions
          /\ items[At(n)].similarity \in Fractions
      BY <1>2, <1>5 DEF Items
    <2>3. ~Less(items[At(m)].similarity, items[At(n)].similarity)
      BY <2>1, <2>2, LessIsStrict DEF Before
    <2> QED BY <1>4, <2>3
  <1> HIDE DEF s
  <1>9. QED BY <1>6, <1>7, <1>8 DEF s

\* The best of all the states' chunks.
LEMMA SortAndLimitKeepsTheBest ==
    ASSUME NEW items \in Seq(Items), NEW k \in Nat \ {0}
    PROVE  LET s == SortAndLimitChunks(items, k)
           IN  /\ s \in Seq(Items) /\ Len(s) <= k
               /\ ToSet(s) \subseteq ToSet(items)
               /\ ToSet(items) # ToSet(s) => Len(s) = k
               /\ \A x \in ToSet(items) \ ToSet(s), y \in ToSet(s) :
                     ~Less(y.similarity, x.similarity)
               /\ s = <<>> <=> items = <<>>
  <1>1. CASE Len(items) <= k
    BY <1>1 DEF SortAndLimitChunks
  <1>2. CASE ~(Len(items) <= k)
    <2> DEFINE b == BySimilarity(items)
               s == FirstOf(b, k)
    <2>0. SortAndLimitChunks(items, k) = s /\ Len(items) > k /\ Len(items) \in Nat
      BY <1>2 DEF SortAndLimitChunks
    <2>1. /\ b \in Seq(Items) /\ Len(b) = Len(items) /\ ToSet(b) = ToSet(items)
          /\ \A m \in 1 .. Len(b), n \in 1 .. Len(b) :
                m < n => ~Less(b[m].similarity, b[n].similarity)
      BY BySimilarityIsSorted
    <2> HIDE DEF b
    <2>2. /\ s \in Seq(Items) /\ Len(s) = k /\ ToSet(s) \subseteq ToSet(b)
          /\ \A i \in 1 .. k : s[i] = b[i]
      BY <2>0, <2>1, FirstOfIsPrefix
    <2> HIDE DEF s
    <2>3. ASSUME NEW x \in ToSet(items) \ ToSet(s), NEW y \in ToSet(s)
          PROVE  ~Less(y.similarity, x.similarity)
      <3>0. x \in ToSet(b) /\ DOMAIN b = 1 .. Len(b)
        BY <2>1, <2>3
      <3>1. PICK n \in 1 .. Len(b) : x = b[n]
        BY <3>0 DEF ToSet
      <3>2. PICK m \in 1 .. k : y = b[m]
        BY <2>2, <2>3 DEF ToSet
      <3>3. ~(n \in 1 .. k)
        BY <2>2, <2>3, <3>1 DEF ToSet
      <3>4. m < n /\ m \in 1 .. Len(b)
        BY <2>0, <2>1, <3>1, <3>2, <3>3
      <3> QED BY <2>1, <3>1, <3>2, <3>4
    <2>4. s # <<>> /\ items # <<>>
      BY <2>0, <2>2
    <2> QED BY <2>0, <2>1, <2>2, <2>3, <2>4
  <1> QED BY <1>1, <1>2

------------------------------------------------------------------------------
(* What the searches and the fusion return.                                 *)

LEMMA RankingIsInjective ==
    ASSUME NEW S, IsFiniteSet(S), NEW n \in Nat, NEW s \in Rankings(S, n)
    PROVE  s \in Seq(S) /\ Len(s) <= n /\ IsInjective(s)
  <1> DEFINE most == IF n < Cardinality(S) THEN n ELSE Cardinality(S)
             R(m) == {t \in [1 .. m -> S] : IsInjective(t)}
  <1>1. Cardinality(S) \in Nat
    BY FS_CardinalityType
  <1>2. s \in UNION {R(m) : m \in 0 .. most}
    BY DEF Rankings
  <1>3. PICK m \in 0 .. most : s \in R(m)
    BY <1>2
  <1>4. s \in [1 .. m -> S] /\ IsInjective(s)
    BY <1>3
  <1>5. m \in Nat /\ m <= n
    BY <1>1, <1>3
  <1> QED BY <1>4, <1>5

LEMMA ToSetIsFinite ==
    ASSUME NEW S, NEW s \in Seq(S)
    PROVE  IsFiniteSet(ToSet(s)) /\ ToSet(s) \subseteq S
  <1>1. /\ DOMAIN s = 1 .. Len(s) /\ Len(s) \in Nat
        /\ \A i \in 1 .. Len(s) : s[i] \in S
    OBVIOUS
  <1>2. s = [i \in 1 .. Len(s) |-> s[i]]
    OBVIOUS
  <1>3. s \in Surjection(1 .. Len(s), ToSet(s))
    BY <1>1, <1>2 DEF ToSet, Surjection
  <1>4. IsFiniteSet(1 .. Len(s))
    BY <1>1, FS_Interval
  <1>5. IsFiniteSet(ToSet(s))
    BY <1>3, <1>4, FS_Surjection
  <1> QED BY <1>1, <1>5 DEF ToSet

\* An injective list of as many as there are has every one.
LEMMA FullRankingHasAll ==
    ASSUME NEW S, IsFiniteSet(S), NEW s \in [1 .. Cardinality(S) -> S],
           IsInjective(s), NEW b \in S
    PROVE  \E j \in 1 .. Cardinality(S) : s[j] = b
  <1> DEFINE N == Cardinality(S)
             D == 1 .. N
             T == S \ {b}
  <1>1. N \in Nat /\ IsFiniteSet(D) /\ Cardinality(D) = N
    <2>1. N \in Nat
      BY FS_CardinalityType
    <2> QED BY <2>1, FS_Interval
  <1>2. IsFiniteSet(T) /\ Cardinality(T) = N - 1
    BY FS_RemoveElement
  <1>3. SUFFICES ASSUME \A j \in D : s[j] # b
                 PROVE  FALSE
    OBVIOUS
  <1>4. s \in [D -> T]
    BY <1>3
  <1>5. Cardinality(T) < Cardinality(D)
    BY <1>1, <1>2
  <1>6. DOMAIN s = D
    BY <1>4
  <1> HIDE DEF D, T
  <1>7. PICK x \in D, y \in D : x # y /\ s[x] = s[y]
    BY <1>1, <1>2, <1>4, <1>5, FS_PigeonHole
  <1> QED BY <1>6, <1>7 DEF IsInjective

LEMMA ShareIsFraction ==
    ASSUME NEW list \in Seq(Known), NEW c, NEW w \in Nat \ {0}
    PROVE  /\ c \in ToSet(list) =>
                /\ Rank(list, c) \in 1 .. Len(list)
                /\ list[Rank(list, c)] = c
                /\ Share(list, c, w) = <<w, RRFConstant + Rank(list, c)>>
           /\ c \notin ToSet(list) => Share(list, c, w) = <<0, 1>>
           /\ Share(list, c, w) \in Fractions
  <1>1. DOMAIN list = 1 .. Len(list) /\ Len(list) \in Nat
    OBVIOUS
  <1>2. CASE c \in ToSet(list)
    <2>1. \E i \in DOMAIN list : list[i] = c
      BY <1>2 DEF ToSet
    <2>2. Rank(list, c) \in DOMAIN list /\ list[Rank(list, c)] = c
      BY <2>1 DEF Rank
    <2>3. RRFConstant + Rank(list, c) \in Nat \ {0}
      BY <1>1, <2>2, RetrievalAssumption
    <2> QED BY <1>1, <1>2, <2>2, <2>3 DEF Share, Fractions
  <1>3. CASE c \notin ToSet(list)
    BY <1>3 DEF Share, Fractions
  <1> QED BY <1>2, <1>3

LEMMA ScoreIsFraction ==
    ASSUME NEW semantic \in Seq(Known), NEW keyword \in Seq(Known), NEW c
    PROVE  Score(semantic, keyword, c) \in Fractions
  <1>1. /\ Share(semantic, c, SemanticWeight) \in Fractions
        /\ Share(keyword, c, KeywordWeight) \in Fractions
    BY ShareIsFraction, RetrievalAssumption
  <1> QED BY <1>1, PlusIsFraction DEF Score

\* In front in a ranking, with a larger share of the score.
LEMMA ShareFollowsPosition ==
    ASSUME NEW list \in Seq(Known), NEW a, NEW b, NEW w \in Nat \ {0},
           Position(list, b) <= Position(list, a)
    PROVE  /\ ~Less(Share(list, b, w), Share(list, a, w))
           /\ Position(list, b) < Position(list, a) =>
                Less(Share(list, a, w), Share(list, b, w))
  <1> DEFINE K == RRFConstant
  <1>1. Len(list) \in Nat /\ K \in Nat
    BY RetrievalAssumption
  <1>2. CASE b \in ToSet(list) /\ a \in ToSet(list)
    <2> DEFINE r == Rank(list, a)
               q == Rank(list, b)
    <2>0. r \in 1 .. Len(list) /\ q \in 1 .. Len(list)
      BY <1>2, ShareIsFraction
    <2>1. r \in Nat /\ q \in Nat /\ q <= r
          /\ Position(list, a) = r /\ Position(list, b) = q
      BY <1>1, <1>2, <2>0 DEF Position
    <2>2. Share(list, a, w) = <<w, K + r>> /\ Share(list, b, w) = <<w, K + q>>
      BY <1>2, ShareIsFraction
    <2> HIDE DEF r, q
    <2>3. (K + q) * w <= (K + r) * w
      BY <1>1, <2>1, TimesMonotonic
    <2>4. q < r => (K + q) * w < (K + r) * w
      BY <1>1, <2>1, TimesStrict
    <2>5. /\ Less(Share(list, b, w), Share(list, a, w)) <=> w * (K + r) < w * (K + q)
          /\ Less(Share(list, a, w), Share(list, b, w)) <=> w * (K + q) < w * (K + r)
      BY <2>2 DEF Less
    <2>6. w * (K + q) = (K + q) * w /\ w * (K + r) = (K + r) * w
      BY <1>1, <2>1
    <2> HIDE DEF K
    <2> QED BY <1>1, <2>1, <2>3, <2>4, <2>5, <2>6
  <1>3. CASE b \in ToSet(list) /\ a \notin ToSet(list)
    <2>1. PICK q \in Nat : Share(list, b, w) = <<w, q>>
      BY <1>1, <1>3, ShareIsFraction
    <2>2. Share(list, a, w) = <<0, 1>>
      BY <1>3, ShareIsFraction
    <2> QED BY <2>1, <2>2 DEF Less
  <1>4. CASE b \notin ToSet(list)
    <2>1. a \notin ToSet(list)
      <3>1. a \in ToSet(list) => Rank(list, a) \in 1 .. Len(list)
        BY ShareIsFraction
      <3> QED BY <1>1, <1>4, <3>1 DEF Position
    <2>2. Share(list, a, w) = <<0, 1>> /\ Share(list, b, w) = <<0, 1>>
      BY <1>4, <2>1, ShareIsFraction
    <2>3. Position(list, a) = Len(list) + 1 /\ Position(list, b) = Len(list) + 1
      BY <1>4, <2>1 DEF Position
    <2> QED BY <1>1, <2>2, <2>3 DEF Less
  <1> QED BY <1>2, <1>3, <1>4

Ahead(semantic, keyword, b, a) ==
    /\ Position(semantic, b) <= Position(semantic, a)
    /\ Position(keyword, b) <= Position(keyword, a)
    /\ \/ Position(semantic, b) < Position(semantic, a)
       \/ Position(keyword, b) < Position(keyword, a)

\* What FusionKeepsOrder says of the fusion of two lists.
InOrder(semantic, keyword, k, fused) ==
    LET all == ToSet(semantic) \cup ToSet(keyword)
    IN  /\ Len(fused) = (IF k < Cardinality(all) THEN k ELSE Cardinality(all))
        /\ IsInjective(fused)
        /\ \A i \in DOMAIN fused, b \in all :
              Ahead(semantic, keyword, b, fused[i])
                => \E j \in 1 .. i - 1 : fused[j] = b

LEMMA AheadScoresMore ==
    ASSUME NEW semantic \in Seq(Known), NEW keyword \in Seq(Known),
           NEW a, NEW b, Ahead(semantic, keyword, b, a)
    PROVE  Less(Score(semantic, keyword, a), Score(semantic, keyword, b))
  <1> DEFINE x == Share(semantic, a, SemanticWeight)
             y == Share(keyword, a, KeywordWeight)
             u == Share(semantic, b, SemanticWeight)
             v == Share(keyword, b, KeywordWeight)
  <1>1. x \in Fractions /\ y \in Fractions /\ u \in Fractions /\ v \in Fractions
    BY ShareIsFraction, RetrievalAssumption
  <1>2. ~Less(u, x) /\ ~Less(v, y) /\ (Less(x, u) \/ Less(y, v))
    BY ShareFollowsPosition, RetrievalAssumption DEF Ahead
  <1>3. /\ Score(semantic, keyword, a) = Plus(x, y)
        /\ Score(semantic, keyword, b) = Plus(u, v)
    BY DEF Score
  <1> HIDE DEF x, y, u, v
  <1> QED BY <1>1, <1>2, <1>3, PlusIsMonotonic

\* The map's chunks ordered by their scores and cut off.
LEMMA FusedKeepsOrder ==
    ASSUME NEW semantic \in Seq(Known), NEW keyword \in Seq(Known),
           NEW k \in Nat, NEW items \in Fused(semantic, keyword, k)
    PROVE  /\ items \in Seq(Items) /\ Len(items) <= k
           /\ DOMAIN Chunks(items) = 1 .. Len(items)
           /\ Chunks(items) \in Seq(ToSet(semantic) \cup ToSet(keyword))
           /\ InOrder(semantic, keyword, k, Chunks(items))
  <1> DEFINE all == ToSet(semantic) \cup ToSet(keyword)
             N == Cardinality(all)
             Sc(c) == Score(semantic, keyword, c)
             fused == Chunks(items)
             most == IF k < N THEN k ELSE N
  <1>1. IsFiniteSet(all) /\ all \subseteq Known
    BY ToSetIsFinite, FS_Union
  <1>2. N \in Nat
    BY <1>1, FS_CardinalityType
  <1>3. PICK order \in [1 .. N -> all] :
          /\ IsInjective(order)
          /\ \A j \in 1 .. N, i \in 1 .. N : i < j => ~Less(Sc(order[i]), Sc(order[j]))
          /\ items = [i \in DOMAIN FirstOf(order, k) |->
                        Item(FirstOf(order, k)[i], Sc(FirstOf(order, k)[i]))]
    BY DEF Fused
  <1>4. \A c : Sc(c) \in Fractions
    BY ScoreIsFraction
  <1> HIDE DEF all, Sc
  <1>5. order \in Seq(all) /\ Len(order) = N /\ DOMAIN order = 1 .. N
    BY <1>2, <1>3
  <1> DEFINE s == FirstOf(order, k)
  <1>6. /\ s \in Seq(all) /\ Len(s) = most /\ DOMAIN s = 1 .. most
        /\ \A i \in 1 .. most : s[i] = order[i] /\ s[i] \in all
    <2>1. s \in Seq(all) /\ Len(s) = most /\ \A i \in 1 .. Len(s) : s[i] = order[i]
      BY <1>5, FirstOfIsPrefix
    <2> HIDE DEF s
    <2> QED BY <2>1
  <1>7. most \in Nat /\ most <= N /\ most <= k
    BY <1>2
  <1> HIDE DEF s, most
  <1>8. items = [i \in 1 .. most |-> Item(s[i], Sc(s[i]))]
    BY <1>3, <1>6 DEF s
  <1>9. \A i \in 1 .. most : Item(s[i], Sc(s[i])) \in Items
    BY <1>1, <1>4, <1>6 DEF Item, Items
  <1>10. items \in Seq(Items) /\ Len(items) = most /\ DOMAIN items = 1 .. most
    BY <1>7, <1>8, <1>9
  <1>11. fused = [i \in 1 .. most |-> s[i]]
    BY <1>8, <1>10 DEF Chunks, Item
  <1>12. fused \in Seq(all) /\ Len(fused) = most /\ DOMAIN fused = 1 .. most
         /\ \A i \in 1 .. most : fused[i] = order[i]
    BY <1>6, <1>7, <1>11
  <1> HIDE DEF fused
  <1>13. IsInjective(fused)
    BY <1>2, <1>3, <1>5, <1>7, <1>12 DEF IsInjective
  <1>14. ASSUME NEW i \in 1 .. most, NEW b \in all,
                Ahead(semantic, keyword, b, fused[i])
         PROVE  \E j \in 1 .. i - 1 : fused[j] = b
    <2>1. Less(Sc(order[i]), Sc(b))
      BY <1>12, <1>14, AheadScoresMore DEF Sc
    <2>2. PICK j \in 1 .. N : order[j] = b
      BY <1>1, <1>3, FullRankingHasAll
    <2>3. i \in 1 .. N
      BY <1>2, <1>7
    <2>4. ~Less(Sc(order[i]), Sc(order[i]))
      BY <1>4, LessIsStrict
    <2>5. j # i
      BY <2>1, <2>2, <2>4
    <2>6. ~(i < j)
      BY <1>3, <2>1, <2>2, <2>3
    <2>7. j \in 1 .. i - 1 /\ j \in 1 .. most
      BY <1>2, <1>7, <2>2, <2>3, <2>5, <2>6
    <2> QED BY <1>12, <2>2, <2>7
  <1> QED BY <1>7, <1>10, <1>12, <1>13, <1>14 DEF InOrder, fused, all, most

------------------------------------------------------------------------------
(* The invariant.                                                           *)

Busy == {"embed", "semantic", "fuse", "fallback", "keyword"}
\* The prover does not know of a string in quotes that it is one.
Names ==
    STRING \cup {NotGiven, "bnm", "sc", "aaoifi", "iifa", "circulars",
                "policy_documents"}
Retrievals ==
    [source : Names, categories : SUBSET Names, standard : Names,
     from : Nat, to : Nat, topK : Nat,
     type : {"default", "semantic", "keyword", "hybrid"}, probe : BOOLEAN]

\* What passes the filters of r that the keyword search is given too.
Admits(r, c) == r.source \in {NotGiven, c.source} /\ InCategories(c, r)

\* Whatever r may find fits the i-th list: where a keyword search takes part,
\* in the hybrid mode h or asked for, categories and source decide alone.
Suits(r, q, i, h) ==
    /\ q.tool # "direct" => r.topK = LimitOf(q)
    /\ ~r.probe =>
         \A c \in Known :
            /\ Admits(r, c)
            /\ \/ h \/ r.type # "default"
               \/ r.standard \in {NotGiven, c.standard} /\ InDates(c, r)
            => Fits(c, q, i, h)

StoreInv ==
    /\ hybrid \in BOOLEAN
    /\ table \subseteq Known /\ IsFiniteSet(table)
    /\ sem \in Seq(Known)

QuestionInv ==
    /\ at \in Busy \cup {"idle", "finish", "done"}
    /\ at # "idle" => question \in Questions
    /\ at \in Busy \cup {"finish"} => ~Refused(question)

\* The retrievals still to do are those of the last list of found.  A source
\* that is not "fatwa" has one, which finds the list empty.
PlanInv ==
    at \in Busy \cup {"finish"} =>
        /\ found \in Seq(Seq(Items)) /\ plan \in Seq(Retrievals)
        /\ Len(found) \in 1 .. Lists(question)
        /\ \A k \in DOMAIN plan : Suits(plan[k], question, Len(found), hybrid)
        /\ at = "finish" <=> plan = <<>>
        /\ plan = <<>> => Len(found) = Lists(question)
        /\ ~IsFatwa(question, Len(found)) /\ plan # <<>> =>
             Len(plan) = 1 /\ found[Len(found)] = <<>>

\* Where the keyword search is, the retrieval at hand allows for it.
StageInv ==
    /\ at \in {"fuse", "fallback"} => Mode = "hybrid"
    /\ at = "keyword" => This.type = "keyword"
    /\ at = "fuse" => \A c \in ToSet(sem) : Admits(This, c)

ListFits(list, q, i, h) ==
    /\ \A n \in DOMAIN list : Fits(list[n].chunk, q, i, h)
    /\ q.tool # "direct" /\ ~IsFatwa(q, i) => Len(list) <= LimitOf(q)
FoundInv ==
    at \in Busy \cup {"finish"} =>
        \A i \in DOMAIN found : ListFits(found[i], question, i, hybrid)

AnswerInv == AnswersTheQuestion /\ NothingBetterLeftOut

RetrievalInv ==
    StoreInv /\ QuestionInv /\ PlanInv /\ StageInv /\ FoundInv /\ AnswerInv

------------------------------------------------------------------------------
(* The tools' plans suit the question.                                      *)

LEMMA ClampIsPositive ==
    ASSUME NEW n \in Nat, NEW limit \in Limits
    PROVE  Clamp(n, limit) \in Nat \ {0}
  BY DEF Clamp, Limits

LEMMA LimitIsPositive ==
    ASSUME NEW q \in Requests
    PROVE  LimitOf(q) \in Nat \ {0}
  <1>1. q.topK \in Nat
    BY DEF Requests
  <1> QED BY <1>1, ClampIsPositive, RetrievalAssumption DEF LimitOf

LEMMA RetrievalFields ==
    ASSUME NEW source \in Names, NEW topK \in Nat
    PROVE  LET r == Retrieval(source, topK)
           IN  /\ r \in Retrievals
               /\ r.source = source /\ r.topK = topK /\ r.categories = {}
               /\ r.standard = NotGiven /\ r.from = Unset /\ r.to = Unset
               /\ r.type = "default" /\ r.probe = FALSE
  BY DEF Retrieval, Retrievals, Names, NotGiven, Unset

LEMMA CategoriesAreStrings ==
    ASSUME NEW q \in Requests
    PROVE  Categories(q) \in SUBSET Names
  BY DEF Categories, Requests, Names

\* search_bnm and search_sc.
LEMMA DatedPlanSuits ==
    ASSUME NEW h \in BOOLEAN, NEW q \in Requests, NEW source,
           q.tool = source, source \in {"bnm", "sc"}
    PROVE  /\ DatedPlan(q, source) \in Seq(Retrievals)
           /\ Len(DatedPlan(q, source)) = 1
           /\ Suits(DatedPlan(q, source)[1], q, 1, h)
  <1> DEFINE k == Clamp(q.topK, ToolLimit)
             r == [Retrieval(source, k) EXCEPT
                     !.categories = Categories(q), !.from = q.from, !.to = q.to]
  <1>1. k \in Nat /\ q.from \in Nat /\ q.to \in Nat /\ k = LimitOf(q)
    BY ClampIsPositive, RetrievalAssumption DEF Requests, LimitOf
  <1>2. /\ r \in Retrievals /\ r.source = source /\ r.topK = k
        /\ r.categories = Categories(q) /\ r.standard = NotGiven
        /\ r.from = q.from /\ r.to = q.to /\ r.type = "default"
    <2> DEFINE b == Retrieval(source, k)
    <2>1. r = [b EXCEPT !.categories = Categories(q), !.from = q.from, !.to = q.to]
      BY DEF r
    <2>2. b = [source |-> source, categories |-> {}, standard |-> NotGiven,
               from |-> Unset, to |-> Unset, topK |-> k, type |-> "default",
               probe |-> FALSE]
      BY DEF Retrieval
    <2> HIDE DEF b, r
    <2>3. r = [source |-> source, categories |-> Categories(q),
               standard |-> NotGiven, from |-> q.from, to |-> q.to, topK |-> k,
               type |-> "default", probe |-> FALSE]
      BY <2>1, <2>2
    <2> QED BY <1>1, <2>3, CategoriesAreStrings DEF Retrievals, Names, NotGiven, Unset
  <1>3. DatedPlan(q, source) = <<r>>
    BY DEF DatedPlan
  <1> HIDE DEF k, r
  <1>4. ASSUME NEW c, Admits(r, c), h \/ InDates(c, r)
        PROVE  Fits(c, q, 1, h)
    <2>1. c.source = source
      BY <1>2, <1>4 DEF Admits, NotGiven
    <2>2. InDates(c, r) => InDates(c, q)
      BY <1>2 DEF InDates
    <2>3. Categories(q) \in {{}, {c.category}}
      BY <1>2, <1>4 DEF Admits, InCategories, Categories
    <2>4. AskedSources(q, 1) = {source}
      BY DEF AskedSources
    <2> QED BY <1>4, <2>1, <2>2, <2>3, <2>4 DEF Fits
  <1>5. Suits(r, q, 1, h)
    BY <1>1, <1>2, <1>4 DEF Suits
  <1> QED BY <1>2, <1>3, <1>5

\* search_aaoifi and search_iifa.
LEMMA NumberedPlanSuits ==
    ASSUME NEW h \in BOOLEAN, NEW q \in Requests, NEW source,
           q.tool = source, source \in {"aaoifi", "iifa"}
    PROVE  /\ NumberedPlan(q, source) \in Seq(Retrievals)
           /\ Len(NumberedPlan(q, source)) = 1
           /\ Suits(NumberedPlan(q, source)[1], q, 1, h)
  <1> DEFINE k == Clamp(q.topK, ToolLimit)
             r == [Retrieval(source, k) EXCEPT
                     !.categories = Categories(q), !.standard = q.standard]
  <1>1. k \in Nat /\ q.standard \in STRING /\ k = LimitOf(q)
    BY ClampIsPositive, RetrievalAssumption DEF Requests, LimitOf
  <1>2. /\ r \in Retrievals /\ r.source = source /\ r.topK = k
        /\ r.categories = Categories(q) /\ r.standard = q.standard
        /\ r.type = "default"
    <2> DEFINE b == Retrieval(source, k)
    <2>1. r = [b EXCEPT !.categories = Categories(q), !.standard = q.standard]
      BY DEF r
    <2>2. b = [source |-> source, categories |-> {}, standard |-> NotGiven,
               from |-> Unset, to |-> Unset, topK |-> k, type |-> "default",
               probe |-> FALSE]
      BY DEF Retrieval
    <2> HIDE DEF b, r
    <2>3. r = [source |-> source, categories |-> Categories(q),
               standard |-> q.standard, from |-> Unset, to |-> Unset, topK |-> k,
               type |-> "default", probe |-> FALSE]
      BY <2>1, <2>2
    <2> QED BY <1>1, <2>3, CategoriesAreStrings DEF Retrievals, Names, NotGiven, Unset
  <1>3. NumberedPlan(q, source) = <<r>>
    BY DEF NumberedPlan
  <1> HIDE DEF k, r
  <1>4. ASSUME NEW c, Admits(r, c), h \/ r.standard \in {NotGiven, c.standard}
        PROVE  Fits(c, q, 1, h)
    <2>1. c.source = source
      BY <1>2, <1>4 DEF Admits, NotGiven
    <2>3. Categories(q) \in {{}, {c.category}}
      BY <1>2, <1>4 DEF Admits, InCategories, Categories
    <2>4. AskedSources(q, 1) = {source}
      BY DEF AskedSources
    <2> QED BY <1>2, <1>4, <2>1, <2>3, <2>4 DEF Fits
  <1>5. Suits(r, q, 1, h)
    BY <1>1, <1>2, <1>4 DEF Suits
  <1> QED BY <1>2, <1>3, <1>5

LEMMA LatestPlanSuits ==
    ASSUME NEW h \in BOOLEAN, NEW q \in Requests, q.tool = "latest"
    PROVE  /\ LatestPlan(q) \in Seq(Retrievals) /\ Len(LatestPlan(q)) = 1
           /\ Suits(LatestPlan(q)[1], q, 1, h)
  <1> DEFINE k == Clamp(q.topK, ToolLimit)
             days == Clamp(q.from, [default |-> 30, max |-> 365])
             r == [Retrieval("bnm", k) EXCEPT
                     !.categories = {"circulars", "policy_documents"},
                     !.from = days, !.to = 0]
  <1>1. k \in Nat /\ k = LimitOf(q)
    BY ClampIsPositive, RetrievalAssumption DEF Requests, LimitOf
  <1>2. days \in Nat /\ days <= 365
    BY DEF Requests, Clamp
  <1> HIDE DEF k, days
  <1>3. /\ r \in Retrievals /\ r.source = "bnm" /\ r.topK = k
        /\ r.categories = {"circulars", "policy_documents"}
        /\ r.from = days /\ r.to = 0 /\ r.type = "default"
    <2> DEFINE b == Retrieval("bnm", k)
    <2>1. r = [b EXCEPT !.categories = {"circulars", "policy_documents"},
                          !.from = days, !.to = 0]
      BY DEF r
    <2>2. b = [source |-> "bnm", categories |-> {}, standard |-> NotGiven,
               from |-> Unset, to |-> Unset, topK |-> k, type |-> "default",
               probe |-> FALSE]
      BY DEF Retrieval
    <2> HIDE DEF b, r
    <2>3. r = [source |-> "bnm", categories |-> {"circulars", "policy_documents"},
               standard |-> NotGiven, from |-> days, to |-> 0, topK |-> k,
               type |-> "default", probe |-> FALSE]
      BY <2>1, <2>2
    <2> QED BY <1>1, <2>3, <1>2 DEF Retrievals, Names, NotGiven, Unset
  <1>4. LatestPlan(q) = <<r>>
    BY DEF LatestPlan, k, days
  <1> HIDE DEF r
  <1>5. ASSUME NEW c \in Known, Admits(r, c), h \/ InDates(c, r)
        PROVE  Fits(c, q, 1, h)
    <2>1. c.source = "bnm"
      BY <1>3, <1>5 DEF Admits, NotGiven
    <2>2. InDates(c, r) => c.age <= 365
      BY <1>2, <1>3, RetrievalAssumption DEF InDates, Unset
    <2>3. c.category \in {"circulars", "policy_documents"}
      BY <1>3, <1>5 DEF Admits, InCategories
    <2>4. AskedSources(q, 1) = {"bnm"}
      BY DEF AskedSources
    <2> QED BY <1>5, <2>1, <2>2, <2>3, <2>4 DEF Fits
  <1>6. Suits(r, q, 1, h)
    BY <1>1, <1>3, <1>5 DEF Suits
  <1> QED BY <1>3, <1>4, <1>6

LEMMA DirectPlanSuits ==
    ASSUME NEW h \in BOOLEAN, NEW q \in Requests, q.tool = "direct"
    PROVE  /\ DirectPlan(q) \in Seq(Retrievals) /\ Len(DirectPlan(q)) = 1
           /\ Suits(DirectPlan(q)[1], q, 1, h)
  <1> DEFINE k == IF q.topK = 0 THEN DefaultTopK ELSE q.topK
             r == [Retrieval(NotGiven, k) EXCEPT !.type = q.type]
  <1>1. k \in Nat /\ q.type \in {"default", "semantic", "keyword", "hybrid"}
    BY RetrievalAssumption DEF Requests
  <1> HIDE DEF k
  <1>2. r \in Retrievals
    <2> DEFINE b == Retrieval(NotGiven, k)
    <2>1. r = [b EXCEPT !.type = q.type]
      BY DEF r
    <2>2. b = [source |-> NotGiven, categories |-> {}, standard |-> NotGiven,
               from |-> Unset, to |-> Unset, topK |-> k, type |-> "default",
               probe |-> FALSE]
      BY DEF Retrieval
    <2> HIDE DEF b, r
    <2>3. r = [source |-> NotGiven, categories |-> {},
               standard |-> NotGiven, from |-> Unset, to |-> Unset, topK |-> k,
               type |-> q.type, probe |-> FALSE]
      BY <2>1, <2>2
    <2> QED BY <1>1, <2>3 DEF Retrievals, Names, NotGiven, Unset
  <1>3. DirectPlan(q) = <<r>>
    BY DEF DirectPlan, k
  <1>4. \A c \in Known : Fits(c, q, 1, h)
    <2>1. AskedSources(q, 1) = {c.source : c \in Known}
      BY DEF AskedSources
    <2> QED BY <2>1 DEF Fits
  <1> HIDE DEF r
  <1>5. Suits(r, q, 1, h)
    BY <1>4 DEF Suits
  <1> QED BY <1>2, <1>3, <1>5

\* One state, or one source, without more filters.
LEMMA StateSuits ==
    ASSUME NEW h \in BOOLEAN, NEW q \in Requests, q.tool = "fatwa",
           NEW state \in ToSet(StatesOf(q)), state \in STRING, state # NotGiven,
           NEW i
    PROVE  LET r == [Retrieval(state, Clamp(q.topK, ToolLimit)) EXCEPT
                       !.categories = Categories(q)]
           IN  r \in Retrievals /\ Suits(r, q, i, h)
  <1> DEFINE k == Clamp(q.topK, ToolLimit)
             r == [Retrieval(state, k) EXCEPT !.categories = Categories(q)]
  <1>1. k \in Nat /\ k = LimitOf(q)
    BY ClampIsPositive, RetrievalAssumption DEF Requests, LimitOf
  <1> HIDE DEF k
  <1>2. /\ r \in Retrievals /\ r.source = state /\ r.topK = k
        /\ r.categories = Categories(q)
    <2> DEFINE b == Retrieval(state, k)
    <2>1. r = [b EXCEPT !.categories = Categories(q)]
      BY DEF r
    <2>2. b = [source |-> state, categories |-> {}, standard |-> NotGiven,
               from |-> Unset, to |-> Unset, topK |-> k, type |-> "default",
               probe |-> FALSE]
      BY DEF Retrieval
    <2> HIDE DEF b, r
    <2>3. r = [source |-> state, categories |-> Categories(q),
               standard |-> NotGiven, from |-> Unset, to |-> Unset, topK |-> k,
               type |-> "default", probe |-> FALSE]
      BY <2>1, <2>2
    <2> QED BY <1>1, <2>3, CategoriesAreStrings DEF Retrievals, Names, NotGiven, Unset
  <1> HIDE DEF r
  <1>3. ASSUME NEW c, Admits(r, c)
        PROVE  Fits(c, q, i, h)
    <2>1. c.source = state
      BY <1>2, <1>3 DEF Admits
    <2>2. Categories(q) \in {{}, {c.category}}
      BY <1>2, <1>3 DEF Admits, InCategories, Categories
    <2>3. AskedSources(q, i) = ToSet(StatesOf(q))
      BY DEF AskedSources
    <2> QED BY <2>1, <2>2, <2>3 DEF Fits
  <1>4. Suits(r, q, i, h)
    BY <1>1, <1>2, <1>3 DEF Suits
  <1> QED BY <1>2, <1>4 DEF r, k

LEMMA FatwaPlanSuits ==
    ASSUME NEW h \in BOOLEAN, NEW q \in Requests, q.tool = "fatwa"
    PROVE  /\ FatwaPlan(q) \in Seq(Retrievals)
           /\ \A n \in DOMAIN FatwaPlan(q) : Suits(FatwaPlan(q)[n], q, 1, h)
  <1> DEFINE states == StatesOf(q)
             R(n) == [Retrieval(states[n], Clamp(q.topK, ToolLimit)) EXCEPT
                        !.categories = Categories(q)]
  <1>1. states \in Seq(STRING \ {NotGiven})
    BY RetrievalAssumption DEF StatesOf, Requests, SourceLists, NotGiven
  <1>2. FatwaPlan(q) = [n \in DOMAIN states |-> R(n)]
    BY DEF FatwaPlan
  <1> HIDE DEF states
  <1>3. DOMAIN states = 1 .. Len(states) /\ Len(states) \in Nat
    BY <1>1
  <1>4. \A n \in DOMAIN states : states[n] \in STRING /\ states[n] # NotGiven
    BY <1>1
  <1>5. \A n \in DOMAIN states : states[n] \in ToSet(StatesOf(q))
    BY DEF ToSet, states
  <1>6. \A n \in DOMAIN states : R(n) \in Retrievals /\ Suits(R(n), q, 1, h)
    BY <1>4, <1>5, StateSuits
  <1> HIDE DEF R
  <1> QED BY <1>2, <1>3, <1>6

\* A source or a state of compare_standards.
LEMMA SourceSuits ==
    ASSUME NEW h \in BOOLEAN, NEW q \in Requests, q.tool = "compare", NEW i,
           NEW source \in Names, source # NotGiven, source \in AskedSources(q, i)
    PROVE  LET r == Retrieval(source, Clamp(q.topK, CompareLimit))
           IN  r \in Retrievals /\ Suits(r, q, i, h)
  <1> DEFINE k == Clamp(q.topK, CompareLimit)
             r == Retrieval(source, k)
  <1>1. k \in Nat /\ k = LimitOf(q)
    BY ClampIsPositive, RetrievalAssumption DEF Requests, LimitOf
  <1> HIDE DEF k
  <1>2. r \in Retrievals /\ r.source = source /\ r.topK = k
    BY <1>1, RetrievalFields
  <1> HIDE DEF r
  <1>3. ASSUME NEW c, Admits(r, c)
        PROVE  Fits(c, q, i, h)
    BY <1>2, <1>3 DEF Admits, Fits
  <1>4. Suits(r, q, i, h)
    BY <1>1, <1>2, <1>3 DEF Suits
  <1> QED BY <1>2, <1>4 DEF r, k

LEMMA ComparePlanSuits ==
    ASSUME NEW h \in BOOLEAN, NEW q \in Requests, q.tool = "compare", ~Refused(q),
           NEW i \in 1 .. Len(SourcesOf(q))
    PROVE  /\ ComparePlan(q, i) \in Seq(Retrievals) /\ ComparePlan(q, i) # <<>>
           /\ \A n \in DOMAIN ComparePlan(q, i) : Suits(ComparePlan(q, i)[n], q, i, h)
           /\ SourcesOf(q)[i] # "fatwa" => Len(ComparePlan(q, i)) = 1
  <1> DEFINE k == Clamp(q.topK, CompareLimit)
             source == SourcesOf(q)[i]
             probe == [Retrieval(Federal, k) EXCEPT !.probe = TRUE]
             states == [n \in DOMAIN FatwaStates |-> Retrieval(FatwaStates[n], k)]
  <1>1. k \in Nat /\ k = LimitOf(q)
    BY ClampIsPositive, RetrievalAssumption DEF Requests, LimitOf
  <1>2. DOMAIN SourcesOf(q) = 1 .. Len(SourcesOf(q))
    <2>1. q.list \in Seq(STRING \ {"any"})
      BY DEF Requests, SourceLists
    <2>2. CASE q.list = <<>>
      BY <2>2 DEF SourcesOf
    <2>3. CASE q.list # <<>>
      BY <2>1, <2>3 DEF SourcesOf
    <2> QED BY <2>2, <2>3
  <1>3. source \in {"bnm", "aaoifi", "sc", "iifa", "fatwa"}
    BY <1>2 DEF Refused
  <1>4. CASE source # "fatwa"
    <2>1. source \in Names /\ source # NotGiven
      BY <1>3, <1>4 DEF Names, NotGiven
    <2>2. source \in AskedSources(q, i)
      BY <1>4 DEF AskedSources
    <2> DEFINE r == Retrieval(source, k)
    <2>3. r \in Retrievals /\ Suits(r, q, i, h)
      BY <2>1, <2>2, SourceSuits
    <2>4. ComparePlan(q, i) = <<r>>
      BY <1>4 DEF ComparePlan
    <2> HIDE DEF r
    <2> QED BY <2>3, <2>4
  <1>5. CASE source = "fatwa"
    <2>1. FatwaStates \in Seq(STRING \ {NotGiven}) /\ Federal \in Names
      BY RetrievalAssumption DEF SourceLists, Names, NotGiven
    <2>2. /\ DOMAIN FatwaStates = 1 .. Len(FatwaStates) /\ Len(FatwaStates) \in Nat
          /\ \A n \in DOMAIN FatwaStates :
               FatwaStates[n] \in Names /\ FatwaStates[n] # NotGiven
      BY <2>1 DEF Names
    <2>3. AskedSources(q, i) = ToSet(FatwaStates)
      BY <1>5 DEF AskedSources
    <2>4. \A n \in DOMAIN FatwaStates : FatwaStates[n] \in AskedSources(q, i)
      BY <2>3 DEF ToSet
    <2>5. \A n \in DOMAIN FatwaStates :
            LET r == Retrieval(FatwaStates[n], k)
            IN  r \in Retrievals /\ Suits(r, q, i, h)
      BY <2>2, <2>4, SourceSuits
    <2>6. /\ states \in Seq(Retrievals) /\ Len(states) = Len(FatwaStates)
          /\ \A n \in 1 .. Len(states) : Suits(states[n], q, i, h)
      BY <2>2, <2>5
    <2>7. probe \in Retrievals /\ Suits(probe, q, i, h)
      <3> DEFINE b == Retrieval(Federal, k)
      <3> HIDE DEF k
      <3>1. b \in Retrievals /\ b.topK = k
        BY <1>1, <2>1, RetrievalFields
      <3>2. probe = [b EXCEPT !.probe = TRUE]
        OBVIOUS
      <3> HIDE DEF b, probe, k
      <3>3. probe \in Retrievals /\ probe.probe = TRUE /\ probe.topK = k
        BY <3>1, <3>2 DEF Retrievals
      <3> QED BY <1>1, <3>3 DEF Suits
    <2>8. ComparePlan(q, i) = <<probe>> \o states
      BY <1>5 DEF ComparePlan
    <2> HIDE DEF states, probe
    <2> DEFINE one == <<probe>>
               p == one \o states
    <2>9. one \in Seq(Retrievals) /\ Len(one) = 1 /\ one[1] = probe
      BY <2>7
    <2> HIDE DEF one
    <2>10. /\ p \in Seq(Retrievals) /\ Len(p) = 1 + Len(states)
           /\ \A n \in 1 .. Len(p) : p[n] = IF n <= 1 THEN probe ELSE states[n - 1]
      <3>1. Len(states) \in Nat
        BY <2>6
      <3>2. /\ p \in Seq(Retrievals) /\ Len(p) = Len(one) + Len(states)
            /\ \A n \in 1 .. Len(one) + Len(states) :
                 p[n] = IF n <= Len(one) THEN one[n] ELSE states[n - Len(one)]
        BY <2>6, <2>9, ConcatProperties
      <3> HIDE DEF p
      <3>3. ASSUME NEW n \in 1 .. Len(p)
            PROVE  p[n] = IF n <= 1 THEN probe ELSE states[n - 1]
        <4>1. p[n] = IF n <= 1 THEN one[n] ELSE states[n - 1]
          BY <2>9, <3>2
        <4>2. n <= 1 => n = 1
          BY <2>9, <3>1, <3>2
        <4> QED BY <2>9, <4>1, <4>2
      <3> QED BY <2>9, <3>2, <3>3
    <2> HIDE DEF p
    <2>11. \A n \in 1 .. Len(p) : Suits(p[n], q, i, h)
      <3> TAKE n \in 1 .. Len(p)
      <3>1. CASE n <= 1
        BY <2>7, <2>10, <3>1
      <3>2. CASE ~(n <= 1)
        <4>1. n - 1 \in 1 .. Len(states)
          BY <2>6, <2>10, <3>2
        <4> QED BY <2>6, <2>10, <3>2, <4>1
      <3> QED BY <3>1, <3>2
    <2>12. p # <<>> /\ DOMAIN p = 1 .. Len(p)
      BY <2>6, <2>10
    <2> QED BY <1>5, <2>8, <2>10, <2>11, <2>12 DEF p, one
  <1> QED BY <1>4, <1>5

LEMMA PlanSuits ==
    ASSUME NEW h \in BOOLEAN, NEW q \in Requests, ~Refused(q), NEW i \in 1 .. Lists(q)
    PROVE  /\ Plan(q, i) \in Seq(Retrievals)
           /\ \A n \in DOMAIN Plan(q, i) : Suits(Plan(q, i)[n], q, i, h)
           /\ q.tool = "compare" => Plan(q, i) # <<>>
           /\ ~IsFatwa(q, i) => Len(Plan(q, i)) = 1
  <1>1. q.tool \in Tools
    BY DEF Requests
  <1>2. q.tool # "compare" => i = 1
    BY DEF Lists
  <1>3. CASE q.tool = "bnm"
    <2>1. Plan(q, i) = DatedPlan(q, "bnm")
      BY <1>3 DEF Plan, SearchBNM
    <2> QED BY <1>2, <1>3, <2>1, DatedPlanSuits
  <1>4. CASE q.tool = "sc"
    <2>1. Plan(q, i) = DatedPlan(q, "sc")
      BY <1>4 DEF Plan, SearchSC
    <2> QED BY <1>2, <1>4, <2>1, DatedPlanSuits
  <1>5. CASE q.tool = "aaoifi"
    <2>1. Plan(q, i) = NumberedPlan(q, "aaoifi")
      BY <1>5 DEF Plan, SearchAAOIFI
    <2> QED BY <1>2, <1>5, <2>1, NumberedPlanSuits
  <1>6. CASE q.tool = "iifa"
    <2>1. Plan(q, i) = NumberedPlan(q, "iifa")
      BY <1>6 DEF Plan, SearchIIFA
    <2> QED BY <1>2, <1>6, <2>1, NumberedPlanSuits
  <1>7. CASE q.tool = "latest"
    <2>1. Plan(q, i) = LatestPlan(q)
      BY <1>7 DEF Plan
    <2> QED BY <1>2, <1>7, <2>1, LatestPlanSuits
  <1>8. CASE q.tool = "fatwa"
    <2>1. Plan(q, i) = FatwaPlan(q)
      BY <1>8 DEF Plan
    <2> QED BY <1>2, <1>8, <2>1, FatwaPlanSuits DEF IsFatwa
  <1>9. CASE q.tool = "direct"
    <2>1. Plan(q, i) = DirectPlan(q)
      BY <1>9 DEF Plan
    <2> QED BY <1>2, <1>9, <2>1, DirectPlanSuits
  <1>10. CASE q.tool = "compare"
    <2>1. Plan(q, i) = ComparePlan(q, i) /\ i \in 1 .. Len(SourcesOf(q))
      BY <1>10 DEF Plan, Lists
    <2> QED BY <1>10, <2>1, ComparePlanSuits DEF IsFatwa
  <1> QED BY <1>1, <1>3, <1>4, <1>5, <1>6, <1>7, <1>8, <1>9, <1>10 DEF Tools

------------------------------------------------------------------------------
(* Each action preserves the invariant.                                     *)

LEMMA BeginIsAStage ==
    ASSUME NEW p
    PROVE  /\ Begin(p) \in {"finish", "keyword", "embed"}
           /\ Begin(p) = "finish" <=> p = <<>>
           /\ Begin(p) = "keyword" => Head(p).type = "keyword"
  BY DEF Begin

LEMMA AloneKeepsTheList ==
    ASSUME NEW list \in Seq(Known), NEW scale \in Scales
    PROVE  LET items == Alone(list, scale)
           IN  /\ items \in Seq(Items) /\ Len(items) = Len(list)
               /\ \A n \in 1 .. Len(list) : items[n].chunk = list[n]
  <1> DEFINE N == Len(list)
             sim(n) == IF scale = "below" THEN <<0, 1>> ELSE <<1 + N - n, 1>>
             items == Alone(list, scale)
  <1>1. N \in Nat /\ DOMAIN list = 1 .. N /\ \A n \in 1 .. N : list[n] \in Known
    OBVIOUS
  <1>2. \A n \in 1 .. N : sim(n) \in Fractions
    BY <1>1 DEF Fractions
  <1>3. items = [n \in 1 .. N |-> Item(list[n], sim(n))]
    BY <1>1 DEF Alone
  <1> HIDE DEF sim
  <1>4. \A n \in 1 .. N : /\ Item(list[n], sim(n)) \in Items
                          /\ Item(list[n], sim(n)).chunk = list[n]
    BY <1>1, <1>2 DEF Item, Items
  <1> HIDE DEF items
  <1>5. items \in Seq(Items) /\ Len(items) = N
    BY <1>1, <1>3, <1>4
  <1> QED BY <1>3, <1>4, <1>5 DEF items

\* What a retrieval found, put with the list at hand.
LEMMA KeptListFits ==
    ASSUME NEW old \in Seq(Items), NEW items \in Seq(Items),
           NEW q \in Requests, NEW i, NEW h, ListFits(old, q, i, h),
           \A n \in DOMAIN items : Fits(items[n].chunk, q, i, h),
           q.tool # "direct" => Len(items) <= LimitOf(q),
           ~IsFatwa(q, i) => old = <<>>
    PROVE  old \o items \in Seq(Items) /\ ListFits(old \o items, q, i, h)
  <1> DEFINE new == old \o items
  <1>1. /\ new \in Seq(Items) /\ Len(new) = Len(old) + Len(items)
        /\ \A n \in 1 .. Len(old) + Len(items) :
             new[n] = IF n <= Len(old) THEN old[n] ELSE items[n - Len(old)]
    BY ConcatProperties
  <1>2. Len(old) \in Nat /\ Len(items) \in Nat
    OBVIOUS
  <1> HIDE DEF new
  <1>3. DOMAIN new = 1 .. Len(old) + Len(items)
    BY <1>1
  <1>4. ASSUME NEW n \in DOMAIN new
        PROVE  Fits(new[n].chunk, q, i, h)
    <2>1. CASE n <= Len(old)
      <3>1. n \in DOMAIN old /\ new[n] = old[n]
        BY <1>1, <1>2, <1>3, <2>1
      <3> QED BY <3>1 DEF ListFits
    <2>2. CASE ~(n <= Len(old))
      <3>1. n - Len(old) \in DOMAIN items /\ new[n] = items[n - Len(old)]
        BY <1>1, <1>2, <1>3, <2>2
      <3> QED BY <3>1
    <2> QED BY <2>1, <2>2
  <1>5. ~IsFatwa(q, i) => Len(new) = Len(items)
    BY <1>1, <1>2
  <1> QED BY <1>1, <1>4, <1>5 DEF ListFits, new

LEMMA EmptyListFits ==
    ASSUME NEW q \in Requests, NEW i, NEW h
    PROVE  <<>> \in Seq(Items) /\ ListFits(<<>>, q, i, h)
  <1>1. LimitOf(q) \in Nat
    BY LimitIsPositive
  <1> QED BY <1>1 DEF ListFits

LEMMA CollectStep ==
    ASSUME RetrievalInv, at \in Busy, NEW items \in Seq(Items), Collect(items),
           question.tool # "direct" => Len(items) <= This.topK,
           ~This.probe =>
             \A n \in DOMAIN items : Fits(items[n].chunk, question, Len(found), hybrid),
           UNCHANGED <<hybrid, table, question>>
    PROVE  RetrievalInv'
  <1> DEFINE L == Len(found)
             q == question
             kept == Keep(items)
  <1>1. /\ q \in Requests /\ ~Refused(q) /\ found \in Seq(Seq(Items))
        /\ plan \in Seq(Retrievals) /\ plan # <<>> /\ L \in 1 .. Lists(q)
        /\ hybrid \in BOOLEAN /\ at # "idle" /\ q \in Questions
        /\ \A k \in DOMAIN plan : Suits(plan[k], q, L, hybrid)
        /\ ~IsFatwa(q, L) => Len(plan) = 1 /\ found[L] = <<>>
        /\ \A i \in DOMAIN found : ListFits(found[i], q, i, hybrid)
    BY RetrievalAssumption DEF RetrievalInv, QuestionInv, PlanInv, FoundInv, StoreInv, Busy
  <1>2. /\ This \in Retrievals /\ Suits(This, q, L, hybrid)
        /\ Tail(plan) \in Seq(Retrievals) /\ Len(Tail(plan)) = Len(plan) - 1
        /\ \A k \in 1 .. Len(Tail(plan)) : Tail(plan)[k] = plan[k + 1]
    <2>1. Head(plan) = plan[1] /\ 1 \in DOMAIN plan
      BY <1>1
    <2> QED BY <1>1, <2>1, HeadTailProperties DEF This
  <1>3. Lists(q) \in Nat /\ L \in Nat /\ L \in DOMAIN found /\ DOMAIN found = 1 .. L
        /\ found[L] \in Seq(Items)
    <2>1. L \in Nat /\ DOMAIN found = 1 .. L
      BY <1>1
    <2>2. Lists(q) \in Nat
      <3>1. q.list \in Seq(STRING \ {"any"})
        BY <1>1 DEF Requests, SourceLists
      <3> QED BY <3>1 DEF Lists, SourcesOf
    <2> QED BY <1>1, <2>1, <2>2
  <1>4. /\ kept \in Seq(Seq(Items)) /\ Len(kept) = L /\ DOMAIN kept = 1 .. L
        /\ \A i \in 1 .. L : ListFits(kept[i], q, i, hybrid)
    <2>1. CASE This.probe
      BY <1>1, <1>3, <2>1 DEF Keep
    <2>2. CASE ~This.probe
      <3> DEFINE new == found[L] \o items
      <3>1. new \in Seq(Items) /\ ListFits(new, q, L, hybrid)
        BY <1>1, <1>2, <1>3, <2>2, KeptListFits DEF Suits
      <3>2. kept = [found EXCEPT ![L] = new]
        BY <2>2 DEF Keep
      <3> HIDE DEF new, kept, L
      <3>3. /\ found \in [1 .. L -> Seq(Items)] /\ L \in 1 .. L
            /\ found \in Seq(Seq(Items))
        BY <1>1, <1>3
      <3>4. /\ kept \in Seq(Seq(Items)) /\ Len(kept) = L /\ DOMAIN kept = 1 .. L
            /\ kept[L] = new /\ \A i \in 1 .. L : i # L => kept[i] = found[i]
        <4>1. kept \in [1 .. L -> Seq(Items)]
          BY <3>1, <3>2, <3>3
        <4>2. kept[L] = new /\ \A i \in 1 .. L : i # L => kept[i] = found[i]
          BY <3>2, <3>3
        <4> QED BY <1>3, <4>1, <4>2
      <3>5. \A i \in 1 .. L : ListFits(kept[i], q, i, hybrid)
        <4> TAKE i \in 1 .. L
        <4>1. CASE i = L
          BY <3>1, <3>4, <4>1
        <4>2. CASE i # L
          BY <1>1, <1>3, <3>4, <4>2
        <4> QED BY <4>1, <4>2
      <3> QED BY <3>4, <3>5
    <2> QED BY <2>1, <2>2
  <1>5. found' = (IF LastOfSource THEN Append(kept, <<>>) ELSE kept)
        /\ plan' = Following /\ at' = Begin(plan') /\ sem' = <<>>
    BY DEF Collect
  <1>6. hybrid' = hybrid /\ table' = table /\ q' = q
    OBVIOUS
  <1> HIDE DEF kept
  <1>7. StoreInv'
    BY <1>5, <1>6 DEF RetrievalInv, StoreInv
  <1>8. QuestionInv'
    BY <1>1, <1>5, <1>6, BeginIsAStage DEF QuestionInv, Busy
  <1>9. PlanInv' /\ FoundInv'
    <2>1. CASE LastOfSource
      <3> DEFINE p == Plan(q, L + 1)
                 all == Append(kept, <<>>)
      <3>1. L + 1 \in 1 .. Lists(q) /\ q.tool = "compare"
        BY <1>3, <2>1 DEF LastOfSource, Lists
      <3>2. /\ p \in Seq(Retrievals) /\ p # <<>>
            /\ \A k \in DOMAIN p : Suits(p[k], q, L + 1, hybrid)
            /\ ~IsFatwa(q, L + 1) => Len(p) = 1
        BY <1>1, <3>1, PlanSuits
      <3>3. plan' = p /\ found' = all
        BY <1>5, <2>1 DEF Following
      <3> HIDE DEF p
      <3>4. /\ all \in Seq(Seq(Items)) /\ Len(all) = L + 1 /\ all[L + 1] = <<>>
            /\ \A i \in 1 .. L : all[i] = kept[i]
        <4>1. <<>> \in Seq(Items)
          OBVIOUS
        <4> QED BY <1>3, <1>4, <4>1, AppendProperties
      <3> HIDE DEF all
      <3>5. \A i \in DOMAIN all : ListFits(all[i], q, i, hybrid)
        <4>1. DOMAIN all = 1 .. L + 1
          BY <1>3, <3>4
        <4>2. \A i \in 1 .. L + 1 : i \in 1 .. L \/ i = L + 1
          BY <1>3
        <4> QED BY <1>1, <1>4, <3>4, <4>1, <4>2, EmptyListFits
      <3>6. PlanInv'
        BY <1>5, <1>6, <3>1, <3>2, <3>3, <3>4, BeginIsAStage DEF PlanInv
      <3>7. FoundInv'
        BY <1>6, <3>3, <3>5 DEF FoundInv
      <3> QED BY <3>6, <3>7
    <2>2. CASE ~LastOfSource
      <3>1. plan' = Tail(plan) /\ found' = kept
        BY <1>5, <2>2 DEF Following
      <3>2. Tail(plan) = <<>> => L = Lists(q)
        BY <1>1, <1>3, <2>2 DEF LastOfSource
      <3>3. ~IsFatwa(q, L) => Tail(plan) = <<>>
        <4> DEFINE t == Tail(plan)
        <4>1. t \in Seq(Retrievals) /\ (~IsFatwa(q, L) => Len(t) = 0)
          BY <1>1, <1>2
        <4> HIDE DEF t
        <4>2. Len(t) = 0 => t = <<>>
          BY <4>1
        <4> QED BY <4>1, <4>2 DEF t
      <3>4. \A k \in DOMAIN Tail(plan) : Suits(Tail(plan)[k], q, L, hybrid)
        <4> TAKE k \in DOMAIN Tail(plan)
        <4>1. k \in 1 .. Len(Tail(plan)) /\ k + 1 \in DOMAIN plan
          BY <1>1, <1>2
        <4> QED BY <1>1, <1>2, <4>1
      <3>5. PlanInv'
        BY <1>1, <1>2, <1>4, <1>5, <1>6, <3>1, <3>2, <3>3, <3>4, BeginIsAStage
           DEF PlanInv
      <3>6. FoundInv'
        BY <1>4, <1>6, <3>1 DEF FoundInv
      <3> QED BY <3>5, <3>6
    <2> QED BY <2>1, <2>2
  <1>10. StageInv'
    BY <1>5, BeginIsAStage DEF StageInv, This
  <1>11. AnswerInv'
    BY <1>5, BeginIsAStage DEF AnswerInv, AnswersTheQuestion, NothingBetterLeftOut
  <1> QED BY <1>7, <1>8, <1>9, <1>10, <1>11 DEF RetrievalInv

LEMMA SearchAdmits ==
    ASSUME StoreInv, NEW r, NEW n \in Nat, NEW list \in Search(r, n)
    PROVE  /\ list \in Seq(Known) /\ Len(list) <= n
           /\ \A k \in DOMAIN list :
                /\ list[k] \in Known /\ Admits(r, list[k])
                /\ r.standard \in {NotGiven, list[k].standard}
                /\ InDates(list[k], r)
  <1> DEFINE S == SearchMatches(r)
  <1>1. S \subseteq table /\ table \subseteq Known /\ IsFiniteSet(S)
    BY FS_Subset DEF StoreInv, SearchMatches
  <1>2. list \in Seq(S) /\ Len(list) <= n
    BY <1>1, RankingIsInjective DEF Search
  <1>3. \A k \in DOMAIN list : list[k] \in S
    BY <1>2
  <1>4. \A c \in S : c \in Known /\ Admits(r, c)
                     /\ r.standard \in {NotGiven, c.standard} /\ InDates(c, r)
    BY <1>1 DEF SearchMatches, Admits
  <1> HIDE DEF S
  <1>5. list \in Seq(Known)
    BY <1>2, <1>3, <1>4
  <1> QED BY <1>2, <1>3, <1>4, <1>5

LEMMA KeywordSearchAdmits ==
    ASSUME StoreInv, NEW r, NEW n \in Nat, NEW list \in KeywordSearch(r, n)
    PROVE  /\ list \in Seq(Known) /\ Len(list) <= n
           /\ \A k \in DOMAIN list : list[k] \in Known /\ Admits(r, list[k])
  <1> DEFINE S == KeywordMatches(r)
  <1>1. S \subseteq table /\ table \subseteq Known /\ IsFiniteSet(S)
    BY FS_Subset DEF StoreInv, KeywordMatches
  <1>2. list \in Seq(S) /\ Len(list) <= n
    BY <1>1, RankingIsInjective DEF KeywordSearch
  <1>3. \A k \in DOMAIN list : list[k] \in S
    BY <1>2
  <1>4. \A c \in S : c \in Known /\ Admits(r, c)
    BY <1>1 DEF KeywordMatches, Admits
  <1> HIDE DEF S
  <1>5. list \in Seq(Known)
    BY <1>2, <1>3, <1>4
  <1> QED BY <1>2, <1>3, <1>4, <1>5

\* Where a retrieval is at hand.
LEMMA AtHand ==
    ASSUME RetrievalInv, at \in Busy
    PROVE  /\ StoreInv /\ question \in Requests /\ This \in Retrievals
           /\ This.topK \in Nat /\ question \in Questions
           /\ Suits(This, question, Len(found), hybrid)
           /\ plan # <<>> /\ ~Refused(question)
  <1>1. /\ StoreInv /\ question \in Requests /\ plan \in Seq(Retrievals) /\ plan # <<>>
        /\ \A k \in DOMAIN plan : Suits(plan[k], question, Len(found), hybrid)
        /\ question \in Questions /\ ~Refused(question)
    BY RetrievalAssumption DEF RetrievalInv, QuestionInv, PlanInv, Busy
  <1>2. Head(plan) = plan[1] /\ 1 \in DOMAIN plan /\ plan[1] \in Retrievals
    BY <1>1
  <1>3. \A r \in Retrievals : r.topK \in Nat
    BY DEF Retrievals
  <1> QED BY <1>1, <1>2, <1>3 DEF This

LEMMA InitEstablishesInv ==
    Init => RetrievalInv
  <1> SUFFICES ASSUME Init PROVE RetrievalInv
    OBVIOUS
  <1>1. StoreInv
    BY RetrievalAssumption DEF Init, StoreInv, Known
  <1>2. QuestionInv /\ PlanInv /\ StageInv /\ FoundInv
    BY DEF Init, QuestionInv, PlanInv, StageInv, FoundInv, Busy
  <1>3. AnswerInv
    BY DEF Init, AnswerInv, AnswersTheQuestion, NothingBetterLeftOut
  <1> QED BY <1>1, <1>2, <1>3 DEF RetrievalInv

LEMMA AskStep ==
    ASSUME RetrievalInv, Ask
    PROVE  RetrievalInv'
  <1>1. PICK q \in Questions :
          /\ question' = q
          /\ IF Refused(q)
             THEN /\ at' = "done"
                  /\ answer' = [NoAnswer EXCEPT !.failed = TRUE]
                  /\ UNCHANGED <<plan, found>>
             ELSE /\ plan' = Plan(q, 1)
                  /\ at' = Begin(Plan(q, 1))
                  /\ found' = <<<<>>>>
                  /\ UNCHANGED answer
    BY DEF Ask
  <1>2. UNCHANGED <<hybrid, table, changes, sem, fusion>>
    BY DEF Ask
  <1>3. q \in Requests
    BY RetrievalAssumption
  <1>4. StoreInv'
    BY <1>2 DEF RetrievalInv, StoreInv
  <1>5. CASE Refused(q)
    <2>1. at' = "done" /\ answer' = [NoAnswer EXCEPT !.failed = TRUE] /\ question' = q
      BY <1>1, <1>5
    <2>2. answer'.failed = TRUE /\ answer'.lists = <<>>
      BY <2>1 DEF NoAnswer
    <2>3. AnswerInv'
      BY <1>5, <2>1, <2>2 DEF AnswerInv, AnswersTheQuestion, NothingBetterLeftOut
    <2>4. QuestionInv' /\ PlanInv' /\ StageInv' /\ FoundInv'
      BY <2>1 DEF QuestionInv, PlanInv, StageInv, FoundInv, Busy
    <2> QED BY <1>4, <2>3, <2>4 DEF RetrievalInv
  <1>6. CASE ~Refused(q)
    <2>1. plan' = Plan(q, 1) /\ at' = Begin(plan') /\ found' = <<<<>>>> /\ question' = q
          /\ hybrid' = hybrid /\ hybrid \in BOOLEAN
      BY <1>1, <1>2, <1>6 DEF RetrievalInv, StoreInv
    <2>2. 1 \in 1 .. Lists(q) /\ (q.tool # "compare" => Lists(q) = 1)
      <3>1. q.tool = "compare" => Len(SourcesOf(q)) >= 2 /\ Len(SourcesOf(q)) \in Nat
        <4>1. q.list \in Seq(STRING \ {"any"})
          BY <1>3 DEF Requests, SourceLists
        <4>2. Len(SourcesOf(q)) \in Nat
          BY <4>1 DEF SourcesOf
        <4> QED BY <1>6, <4>2 DEF Refused
      <3> QED BY <3>1 DEF Lists
    <2>3. /\ Plan(q, 1) \in Seq(Retrievals)
          /\ \A n \in DOMAIN Plan(q, 1) : Suits(Plan(q, 1)[n], q, 1, hybrid)
          /\ q.tool = "compare" => Plan(q, 1) # <<>>
          /\ ~IsFatwa(q, 1) => Len(Plan(q, 1)) = 1
      BY <1>3, <1>6, <2>1, <2>2, PlanSuits
    <2> DEFINE p == Plan(q, 1)
               none == <<<<>>>>
    <2>4. none \in Seq(Seq(Items)) /\ Len(none) = 1 /\ none[1] = <<>> /\ DOMAIN none = {1}
      OBVIOUS
    <2> HIDE DEF none, p
    <2>5. PlanInv'
      BY <1>6, <2>1, <2>2, <2>3, <2>4, BeginIsAStage DEF PlanInv, none, p
    <2>6. FoundInv'
      BY <1>3, <2>1, <2>4, EmptyListFits DEF FoundInv, none
    <2>7. StageInv'
      BY <2>1, BeginIsAStage DEF StageInv, This
    <2>8. AnswerInv'
      BY <2>1, BeginIsAStage DEF AnswerInv, AnswersTheQuestion, NothingBetterLeftOut
    <2>9. QuestionInv'
      BY <1>6, <2>1, BeginIsAStage DEF QuestionInv, Busy
    <2> QED BY <1>4, <2>5, <2>6, <2>7, <2>8, <2>9 DEF RetrievalInv
  <1> QED BY <1>5, <1>6

LEMMA EmbedStep ==
    ASSUME RetrievalInv, Embed
    PROVE  RetrievalInv'
  <1>1. at = "embed" /\ at \in Busy /\ UNCHANGED <<hybrid, table, changes, question, answer>>
    BY DEF Embed, Busy
  <1>2. CASE at' = "semantic" /\ UNCHANGED <<plan, found, sem>>
    BY <1>1, <1>2 DEF RetrievalInv, StoreInv, QuestionInv, PlanInv, StageInv, FoundInv,
                      AnswerInv, AnswersTheQuestion, NothingBetterLeftOut, Busy
  <1>3. CASE Mode = "hybrid" /\ at' = "fallback" /\ UNCHANGED <<plan, found, sem>>
    BY <1>1, <1>3 DEF RetrievalInv, StoreInv, QuestionInv, PlanInv, StageInv, FoundInv,
                      AnswerInv, AnswersTheQuestion, NothingBetterLeftOut, Busy, Mode, This
  <1>4. CASE Collect(<<>>)
    <2>1. This.topK \in Nat
      BY <1>1, AtHand
    <2> DEFINE none == <<>>
    <2>2. none \in Seq(Items) /\ Len(none) <= This.topK /\ DOMAIN none = {}
      BY <2>1
    <2>3. Collect(none)
      BY <1>4
    <2> HIDE DEF none
    <2> QED BY <1>1, <2>2, <2>3, CollectStep
  <1> QED BY <1>2, <1>3, <1>4 DEF Embed

LEMMA SemanticSearchStep ==
    ASSUME RetrievalInv, SemanticSearch
    PROVE  RetrievalInv'
  <1>1. at \in Busy /\ UNCHANGED <<hybrid, table, question>>
    BY DEF SemanticSearch, Busy
  <1>2. PICK list \in Search(This, This.topK), scale \in Scales : Collect(Alone(list, scale))
    BY DEF SemanticSearch
  <1>3. /\ list \in Seq(Known) /\ Len(list) <= This.topK
        /\ \A k \in DOMAIN list :
             /\ list[k] \in Known /\ Admits(This, list[k])
             /\ This.standard \in {NotGiven, list[k].standard}
             /\ InDates(list[k], This)
    BY <1>1, AtHand, SearchAdmits
  <1>4. /\ Alone(list, scale) \in Seq(Items) /\ Len(Alone(list, scale)) = Len(list)
        /\ \A n \in 1 .. Len(list) : Alone(list, scale)[n].chunk = list[n]
    BY <1>3, AloneKeepsTheList
  <1>5. ~This.probe =>
          \A n \in DOMAIN Alone(list, scale) :
             Fits(Alone(list, scale)[n].chunk, question, Len(found), hybrid)
    <2>1. Suits(This, question, Len(found), hybrid)
      BY <1>1, AtHand
    <2>2. DOMAIN Alone(list, scale) = 1 .. Len(list) /\ DOMAIN list = 1 .. Len(list)
      BY <1>3, <1>4
    <2> QED BY <1>3, <1>4, <2>1, <2>2 DEF Suits
  <1> QED BY <1>1, <1>2, <1>3, <1>4, <1>5, CollectStep

LEMMA FusedItems ==
    ASSUME NEW semantic \in Seq(Known), NEW keyword \in Seq(Known),
           NEW k \in Nat, NEW items \in Fused(semantic, keyword, k)
    PROVE  /\ items \in Seq(Items) /\ Len(items) <= k
           /\ DOMAIN Chunks(items) = 1 .. Len(items)
           /\ Chunks(items) \in Seq(ToSet(semantic) \cup ToSet(keyword))
  BY FusedKeepsOrder

LEMMA HybridAllows ==
    ASSUME Mode = "hybrid"
    PROVE  hybrid \/ This.type # "default"
  BY DEF Mode

LEMMA HybridSemanticStep ==
    ASSUME RetrievalInv, HybridSemantic
    PROVE  RetrievalInv'
  <1>1. /\ at = "semantic" /\ at \in Busy /\ Mode = "hybrid" /\ at' = "fuse"
        /\ UNCHANGED <<hybrid, table, changes, question, plan, found, answer>>
    BY DEF HybridSemantic, Busy
  <1>2. PICK list \in Search(This, 2 * This.topK) : sem' = list
    BY DEF HybridSemantic
  <1>3. /\ list \in Seq(Known)
        /\ \A k \in DOMAIN list : Admits(This, list[k])
    <2>1. 2 * This.topK \in Nat
      BY <1>1, AtHand
    <2> QED BY <1>1, <2>1, AtHand, SearchAdmits
  <1>4. StoreInv'
    BY <1>1, <1>2, <1>3 DEF RetrievalInv, StoreInv
  <1>5. StageInv'
    <2>1. This' = This /\ Mode' = Mode
      BY <1>1 DEF This, Mode
    <2>2. \A c \in ToSet(list) : Admits(This, c)
      BY <1>3 DEF ToSet
    <2> QED BY <1>1, <1>2, <2>1, <2>2 DEF StageInv
  <1>6. QuestionInv' /\ PlanInv' /\ FoundInv' /\ AnswerInv'
    BY <1>1 DEF RetrievalInv, QuestionInv, PlanInv, FoundInv, AnswerInv,
                AnswersTheQuestion, NothingBetterLeftOut, Busy
  <1> QED BY <1>4, <1>5, <1>6 DEF RetrievalInv

LEMMA HybridKeywordStep ==
    ASSUME RetrievalInv, HybridKeyword
    PROVE  RetrievalInv'
  <1>1. at = "fuse" /\ at \in Busy /\ UNCHANGED <<hybrid, table, question>>
    BY DEF HybridKeyword, Busy
  <1>2. PICK list \in KeywordSearch(This, 2 * This.topK) :
          \E items \in Fused(sem, list, This.topK) : Collect(items)
    BY DEF HybridKeyword
  <1>3. PICK items \in Fused(sem, list, This.topK) : Collect(items)
    BY <1>2
  <1>4. This.topK \in Nat /\ 2 * This.topK \in Nat /\ StoreInv
    BY <1>1, AtHand
  <1>5. list \in Seq(Known) /\ \A k \in DOMAIN list : Admits(This, list[k])
    BY <1>4, KeywordSearchAdmits
  <1>6. sem \in Seq(Known) /\ \A c \in ToSet(sem) : Admits(This, c)
    BY <1>1 DEF RetrievalInv, StoreInv, StageInv
  <1>7. \A c \in ToSet(sem) \cup ToSet(list) : c \in Known /\ Admits(This, c)
    <2>1. \A c \in ToSet(list) : Admits(This, c)
      BY <1>5 DEF ToSet
    <2> QED BY <1>5, <1>6, <2>1, ToSetIsFinite
  <1>8. /\ items \in Seq(Items) /\ Len(items) <= This.topK
        /\ DOMAIN Chunks(items) = 1 .. Len(items)
        /\ Chunks(items) \in Seq(ToSet(sem) \cup ToSet(list))
    BY <1>4, <1>5, <1>6, FusedItems
  <1>9. \A n \in DOMAIN items : items[n].chunk \in ToSet(sem) \cup ToSet(list)
    <2>1. \A n \in DOMAIN Chunks(items) : Chunks(items)[n] \in ToSet(sem) \cup ToSet(list)
      BY <1>8
    <2>2. DOMAIN items = 1 .. Len(items)
      BY <1>8
    <2> QED BY <1>8, <2>1, <2>2 DEF Chunks
  <1>10. ~This.probe =>
           \A n \in DOMAIN items : Fits(items[n].chunk, question, Len(found), hybrid)
    <2>1. Suits(This, question, Len(found), hybrid)
      BY <1>1, AtHand
    <2>2. hybrid \/ This.type # "default"
      BY <1>1, HybridAllows DEF RetrievalInv, StageInv
    <2> QED BY <1>7, <1>9, <2>1, <2>2 DEF Suits
  <1> QED BY <1>1, <1>3, <1>8, <1>10, CollectStep

LEMMA KeywordOnlyStep ==
    ASSUME RetrievalInv, KeywordOnly
    PROVE  RetrievalInv'
  <1>1. at \in {"keyword", "fallback"} /\ at \in Busy /\ UNCHANGED <<hybrid, table, question>>
    BY DEF KeywordOnly, Busy
  <1>2. PICK list \in KeywordSearch(This, This.topK), scale \in Scales :
          Collect(Alone(list, scale))
    BY DEF KeywordOnly
  <1>3. /\ list \in Seq(Known) /\ Len(list) <= This.topK
        /\ \A k \in DOMAIN list : list[k] \in Known /\ Admits(This, list[k])
    BY <1>1, AtHand, KeywordSearchAdmits
  <1>4. /\ Alone(list, scale) \in Seq(Items) /\ Len(Alone(list, scale)) = Len(list)
        /\ \A n \in 1 .. Len(list) : Alone(list, scale)[n].chunk = list[n]
    BY <1>3, AloneKeepsTheList
  <1>5. ~This.probe =>
          \A n \in DOMAIN Alone(list, scale) :
             Fits(Alone(list, scale)[n].chunk, question, Len(found), hybrid)
    <2>1. Suits(This, question, Len(found), hybrid)
      BY <1>1, AtHand
    <2>2. hybrid \/ This.type # "default"
      BY <1>1, HybridAllows DEF RetrievalInv, StageInv
    <2>3. DOMAIN Alone(list, scale) = 1 .. Len(list) /\ DOMAIN list = 1 .. Len(list)
      BY <1>3, <1>4
    <2> QED BY <1>3, <1>4, <2>1, <2>2, <2>3 DEF Suits
  <1> QED BY <1>1, <1>2, <1>3, <1>4, <1>5, CollectStep

\* A list of the answer against what was found for it.
LEMMA ListOfAnswer ==
    ASSUME NEW all \in Seq(Items), NEW q \in Requests, NEW i, NEW h,
           ListFits(all, q, i, h)
    PROVE  LET kept == IF IsFatwa(q, i) THEN SortAndLimitChunks(all, LimitOf(q))
                       ELSE all
           IN  /\ q.tool # "direct" => Len(kept) <= LimitOf(q)
               /\ \A item \in ToSet(kept) : Fits(item.chunk, q, i, h)
               /\ ToSet(kept) \subseteq ToSet(all)
               /\ ToSet(all) # ToSet(kept) => Len(kept) = LimitOf(q)
               /\ \A x \in ToSet(all) \ ToSet(kept), y \in ToSet(kept) :
                     ~Less(y.similarity, x.similarity)
               /\ kept = <<>> <=> all = <<>>
  <1>1. \A item \in ToSet(all) : Fits(item.chunk, q, i, h)
    BY DEF ListFits, ToSet
  <1>2. LimitOf(q) \in Nat \ {0}
    BY LimitIsPositive
  <1>3. CASE IsFatwa(q, i)
    <2> DEFINE kept == SortAndLimitChunks(all, LimitOf(q))
    <2>1. /\ Len(kept) <= LimitOf(q) /\ ToSet(kept) \subseteq ToSet(all)
          /\ ToSet(all) # ToSet(kept) => Len(kept) = LimitOf(q)
          /\ \A x \in ToSet(all) \ ToSet(kept), y \in ToSet(kept) :
                ~Less(y.similarity, x.similarity)
          /\ kept = <<>> <=> all = <<>>
      BY <1>2, SortAndLimitKeepsTheBest
    <2> HIDE DEF kept
    <2> QED BY <1>1, <1>3, <2>1 DEF kept
  <1>4. CASE ~IsFatwa(q, i)
    <2>1. q.tool # "direct" => Len(all) <= LimitOf(q)
      BY <1>4 DEF ListFits
    <2> QED BY <1>1, <1>4, <2>1
  <1> QED BY <1>3, <1>4

LEMMA FinishStep ==
    ASSUME RetrievalInv, Finish
    PROVE  RetrievalInv'
  <1> DEFINE q == question
             Kept(i) == IF IsFatwa(q, i) THEN SortAndLimitChunks(found[i], LimitOf(q))
                        ELSE found[i]
  <1>1. /\ at = "finish" /\ at' = "done"
        /\ answer' =
             [failed |-> q.tool = "compare" /\ \A i \in DOMAIN found : found[i] = <<>>,
              lists |-> [i \in DOMAIN found |-> Kept(i)]]
        /\ UNCHANGED <<hybrid, table, changes, question, plan, sem, found>>
    BY DEF Finish
  <1>2. /\ q \in Questions /\ q \in Requests /\ ~Refused(q)
        /\ found \in Seq(Seq(Items))
        /\ \A i \in DOMAIN found : ListFits(found[i], q, i, hybrid)
    BY <1>1, RetrievalAssumption DEF RetrievalInv, QuestionInv, PlanInv, FoundInv
  <1>3. \A i \in DOMAIN found : found[i] \in Seq(Items)
    BY <1>2
  <1>4. \A i \in DOMAIN found :
          /\ q.tool # "direct" => Len(Kept(i)) <= LimitOf(q)
          /\ \A item \in ToSet(Kept(i)) : Fits(item.chunk, q, i, hybrid)
          /\ ToSet(Kept(i)) \subseteq ToSet(found[i])
          /\ ToSet(found[i]) # ToSet(Kept(i)) => Len(Kept(i)) = LimitOf(q)
          /\ \A x \in ToSet(found[i]) \ ToSet(Kept(i)), y \in ToSet(Kept(i)) :
                ~Less(y.similarity, x.similarity)
          /\ Kept(i) = <<>> <=> found[i] = <<>>
    BY <1>2, <1>3, ListOfAnswer
  <1> HIDE DEF Kept
  <1>5. /\ answer'.failed = (q.tool = "compare" /\ \A i \in DOMAIN found : found[i] = <<>>)
        /\ DOMAIN answer'.lists = DOMAIN found
        /\ \A i \in DOMAIN found : answer'.lists[i] = Kept(i)
    BY <1>1
  <1>6. AnswersTheQuestion'
    BY <1>1, <1>4, <1>5 DEF AnswersTheQuestion
  <1>7. NothingBetterLeftOut'
    <2>1. \A i \in DOMAIN found : answer'.lists[i] = <<>> <=> found[i] = <<>>
      BY <1>4, <1>5
    <2>2. answer'.failed <=> \/ Refused(q)
                             \/ /\ q.tool = "compare"
                                /\ \A i \in DOMAIN answer'.lists : answer'.lists[i] = <<>>
      BY <1>2, <1>5, <2>1
    <2>3. question' = question /\ found' = found
      BY <1>1
    <2> QED BY <1>4, <1>5, <2>2, <2>3 DEF NothingBetterLeftOut
  <1>8. StoreInv' /\ QuestionInv' /\ PlanInv' /\ StageInv' /\ FoundInv'
    BY <1>1, <1>2 DEF RetrievalInv, StoreInv, QuestionInv, PlanInv, StageInv, FoundInv, Busy
  <1> QED BY <1>6, <1>7, <1>8 DEF RetrievalInv, AnswerInv

LEMMA ChangeStep ==
    ASSUME RetrievalInv, NEW new, Change(new), new \subseteq Known, IsFiniteSet(new)
    PROVE  RetrievalInv'
  <1>1. /\ table' = new
        /\ UNCHANGED <<hybrid, question, plan, at, sem, found, answer>>
    BY DEF Change
  <1>2. StoreInv'
    BY <1>1 DEF RetrievalInv, StoreInv
  <1>3. QuestionInv' /\ PlanInv' /\ StageInv' /\ FoundInv' /\ AnswerInv'
    BY <1>1 DEF RetrievalInv, QuestionInv, PlanInv, StageInv, FoundInv, AnswerInv,
                AnswersTheQuestion, NothingBetterLeftOut, Mode, This
  <1> QED BY <1>2, <1>3 DEF RetrievalInv

LEMMA IngestStep ==
    ASSUME RetrievalInv,
           \/ UpsertBatch
           \/ \E c \in Volatile : Delete(c) \/ DeleteByDocument(c.document)
    PROVE  RetrievalInv'
  <1>1. table \subseteq Known /\ IsFiniteSet(table) /\ Volatile \subseteq Known
    <2>1. Volatile \subseteq Known
      BY DEF Known
    <2> QED BY <2>1 DEF RetrievalInv, StoreInv
  <1>2. CASE UpsertBatch
    <2>1. PICK chunks \in SUBSET Volatile : Change(table \cup chunks)
      BY <1>2 DEF UpsertBatch
    <2>2. IsFiniteSet(chunks)
      BY RetrievalAssumption, FS_Subset
    <2>3. IsFiniteSet(table \cup chunks) /\ table \cup chunks \subseteq Known
      BY <1>1, <2>2, FS_Union
    <2> QED BY <2>1, <2>3, ChangeStep
  <1>3. ASSUME NEW c, Delete(c)
        PROVE  RetrievalInv'
    <2>1. IsFiniteSet(table \ {c}) /\ table \ {c} \subseteq Known
      BY <1>1, FS_Subset
    <2> QED BY <1>3, <2>1, ChangeStep DEF Delete
  <1>4. ASSUME NEW d, DeleteByDocument(d)
        PROVE  RetrievalInv'
    <2> DEFINE rest == {c \in table : c.document # d}
    <2>1. IsFiniteSet(rest) /\ rest \subseteq Known
      BY <1>1, FS_Subset
    <2>2. Change(rest)
      BY <1>4 DEF DeleteByDocument
    <2> HIDE DEF rest
    <2> QED BY <2>1, <2>2, ChangeStep
  <1> QED BY <1>2, <1>3, <1>4

LEMMA UnchangedKeepsInv ==
    ASSUME RetrievalInv, UNCHANGED vars
    PROVE  RetrievalInv'
  BY DEF vars, RetrievalInv, StoreInv, QuestionInv, PlanInv, StageInv, FoundInv, AnswerInv,
         AnswersTheQuestion, NothingBetterLeftOut, Mode, This

LEMMA NextKeepsInv ==
    ASSUME RetrievalInv, [Next]_vars
    PROVE  RetrievalInv'
  BY AskStep, EmbedStep, SemanticSearchStep, HybridSemanticStep, HybridKeywordStep,
     KeywordOnlyStep, FinishStep, IngestStep, UnchangedKeepsInv DEF Next

(***************************************************************************)
(* The invariant, of every behaviour of the retrieval.                     *)
(***************************************************************************)
THEOREM RetrievalInvariant == Spec => []RetrievalInv
  <1>1. Init => RetrievalInv
    BY InitEstablishesInv
  <1>2. RetrievalInv /\ [Next]_vars => RetrievalInv'
    BY NextKeepsInv
  <1> QED BY <1>1, <1>2, PTL DEF Spec

(***************************************************************************)
(* Where documents are chunked too, the questions are answered as without: *)
(* the knowledge base is the retrieval, and every step of the chunker      *)
(* leaves it as it is.                                                     *)
(***************************************************************************)
THEOREM KnowledgeIsRetrieval == KnowledgeSpec => Spec
  <1>1. KnowledgeInit => Init
    BY DEF KnowledgeInit
  <1>2. [KnowledgeNext]_knowledgeVars => [Next]_vars
    BY DEF KnowledgeNext, knowledgeVars, vars, Question, ChunkDocument, ProcessHTMLContent
  <1> QED BY <1>1, <1>2, PTL DEF KnowledgeSpec, Spec

(***************************************************************************)
(* AnswersTheQuestion for every store, every question and every limit: no  *)
(* search, fallback or fusion brings a chunk of another source or category *)
(* into an answer, and none is longer than asked for, whatever the ingest  *)
(* does meanwhile.                                                         *)
(***************************************************************************)
THEOREM QuestionsAnswered == KnowledgeSpec => []AnswersTheQuestion
  <1>1. RetrievalInv => AnswersTheQuestion
    BY DEF RetrievalInv, AnswerInv
  <1> QED BY <1>1, RetrievalInvariant, KnowledgeIsRetrieval, PTL

(***************************************************************************)
(* NothingBetterLeftOut for every number of states and of chunks: the sort *)
(* over all the states' chunks is cut off behind the most similar ones.    *)
(***************************************************************************)
THEOREM BestChunksKept == KnowledgeSpec => []NothingBetterLeftOut
  <1>1. RetrievalInv => NothingBetterLeftOut
    BY DEF RetrievalInv, AnswerInv
  <1> QED BY <1>1, RetrievalInvariant, KnowledgeIsRetrieval, PTL

\* There is no fusion to speak of, or it is of two lists.
FusionInv ==
    \/ fusion = NoFusion
    \/ \E semantic \in Seq(Known), keyword \in Seq(Known), k \in Nat :
          \E items \in Fused(semantic, keyword, k) :
             fusion = [sem |-> semantic, kw |-> keyword, topK |-> k,
                       fused |-> Chunks(items)]

LEMMA NoFusionKeepsOrder ==
    ASSUME fusion = NoFusion
    PROVE  FusionKeepsOrder
  <1>1. /\ fusion.sem = <<>> /\ fusion.kw = <<>> /\ fusion.topK = 0 /\ fusion.fused = <<>>
    BY DEF NoFusion
  <1>2. ToSet(<<>>) = {} /\ DOMAIN <<>> = {} /\ Len(<<>>) = 0
    BY DEF ToSet
  <1>3. Cardinality({}) = 0
    BY FS_EmptySet
  <1> QED BY <1>1, <1>2, <1>3 DEF FusionKeepsOrder, IsInjective

LEMMA FusionOfLists ==
    ASSUME NEW semantic \in Seq(Known), NEW keyword \in Seq(Known),
           NEW k \in Nat, NEW items \in Fused(semantic, keyword, k),
           fusion = [sem |-> semantic, kw |-> keyword, topK |-> k,
                     fused |-> Chunks(items)]
    PROVE  FusionKeepsOrder
  <1> DEFINE both == ToSet(semantic) \cup ToSet(keyword)
             chunks == Chunks(items)
  <1>1. /\ fusion.sem = semantic /\ fusion.kw = keyword /\ fusion.topK = k
        /\ fusion.fused = chunks
    OBVIOUS
  <1>2. chunks \in Seq(both) /\ InOrder(semantic, keyword, k, chunks)
    BY FusedKeepsOrder
  <1>3. ToSet(chunks) \subseteq both
    BY <1>2, ToSetIsFinite
  <1>4. \A a, b : Beats(b, a) <=> Ahead(semantic, keyword, b, a)
    BY <1>1 DEF Beats, Ahead
  <1> HIDE DEF chunks
  <1> QED BY <1>1, <1>2, <1>3, <1>4 DEF FusionKeepsOrder, InOrder

LEMMA HybridKeywordFuses ==
    ASSUME RetrievalInv, HybridKeyword
    PROVE  FusionInv'
  <1>1. at \in Busy
    BY DEF HybridKeyword, Busy
  <1>2. PICK list \in KeywordSearch(This, 2 * This.topK) :
          \E items \in Fused(sem, list, This.topK) :
             fusion' = [sem |-> sem, kw |-> list, topK |-> This.topK,
                        fused |-> Chunks(items)]
    BY DEF HybridKeyword
  <1>3. This.topK \in Nat /\ 2 * This.topK \in Nat /\ StoreInv
    BY <1>1, AtHand
  <1>4. list \in Seq(Known) /\ sem \in Seq(Known)
    BY <1>3, KeywordSearchAdmits DEF StoreInv
  <1> QED BY <1>2, <1>3, <1>4 DEF FusionInv

LEMMA NextKeepsFusionInv ==
    ASSUME RetrievalInv, FusionInv, [Next]_vars
    PROVE  FusionInv'
  <1>1. CASE fusion' = fusion
    BY <1>1 DEF FusionInv
  <1>2. CASE fusion' = NoFusion
    BY <1>2 DEF FusionInv
  <1>3. CASE HybridKeyword
    BY <1>3, HybridKeywordFuses
  <1>4. CASE UNCHANGED vars
    BY <1>1, <1>4 DEF vars
  <1>5. Ask => fusion' = fusion
    BY DEF Ask
  <1>6. Embed \/ SemanticSearch \/ HybridSemantic \/ KeywordOnly \/ Finish
          => fusion' = NoFusion
    BY DEF Embed, SemanticSearch, HybridSemantic, KeywordOnly, Finish
  <1>7. UpsertBatch \/ (\E c \in Volatile : Delete(c) \/ DeleteByDocument(c.document))
          => fusion' = NoFusion
    BY DEF UpsertBatch, Delete, DeleteByDocument, Change
  <1> QED BY <1>1, <1>2, <1>3, <1>4, <1>5, <1>6, <1>7 DEF Next

(***************************************************************************)
(* FusionKeepsOrder for every pair of rankings, positive weight and RRF    *)
(* constant: a chunk that is ahead of another in the rankings scores more, *)
(* and nothing is lost or doubled where both searches find it.             *)
(***************************************************************************)
THEOREM FusionOrderKept == KnowledgeSpec => []FusionKeepsOrder
  <1>1. Init => FusionInv
    BY DEF Init, FusionInv
  <1>2. RetrievalInv /\ FusionInv /\ [Next]_vars => FusionInv'
    BY NextKeepsFusionInv
  <1>3. FusionInv => FusionKeepsOrder
    BY NoFusionKeepsOrder, FusionOfLists DEF FusionInv
  <1> QED BY <1>1, <1>2, <1>3, RetrievalInvariant, KnowledgeIsRetrieval, PTL DEF Spec
===============================================================================
