------------------------ MODULE EnvironmentLayersProofs ------------------------
(***************************************************************************)
(* combinedSize and mergeObjects agree, for lists of any length: both       *)
(* count, and the marks counted in the upper list are as many as the        *)
(* objects passed over in the lower one because names identify objects.     *)
(* A merge keeps that, so that it holds for any number of layers.  So does   *)
(* what a list of objects is made of, and the lists of items inside them:   *)
(* after the last layer, a server has what its layers bring and do not mark *)
(* as deleted, with the values of the last of them.                         *)
(***************************************************************************)
EXTENDS EnvironmentLayers, FiniteSetTheorems, SequenceTheorems, TLAPS

\* The objects of the lower list that the upper one deletes.
Gone(lower, upper) ==
    {i \in DOMAIN lower :
        Has(upper, lower[i].name) /\ Find(upper, lower[i].name).delete}

\* findOpenShiftObject returns the object of that name, if names are unique.
LEMMA FindIsUnique ==
    ASSUME NEW list, IsList(list), UniqueNames(list),
           NEW k \in DOMAIN list
    PROVE  Has(list, list[k].name) /\ Find(list, list[k].name) = list[k]
<1> DEFINE name == list[k].name
           First(i) == list[i].name = name /\ \A j \in 1..i - 1 : list[j].name # name
<1>1. Has(list, name)
  BY DEF Has, Names
<1>2. First(k)
  <2>1. \A j \in 1..k - 1 : j \in DOMAIN list /\ j # k
    BY DEF IsList
  <2> QED
    BY <2>1 DEF UniqueNames
<1>3. \A i \in DOMAIN list : First(i) => i = k
  BY DEF UniqueNames
<1>4. (CHOOSE i \in DOMAIN list : First(i)) = k
  <2> HIDE DEF First
  <2> QED
    BY <1>2, <1>3
<1> QED
  BY <1>1, <1>4 DEF Find

\* There are as many numbers up to m.
LEMMA CountUpTo ==
    ASSUME NEW m \in Nat
    PROVE  IsFiniteSet(1..m) /\ Cardinality(1..m) = m
<1>1. 1 \in Int /\ m \in Int
  OBVIOUS
<1>2. /\ IsFiniteSet(1..m)
      /\ Cardinality(1..m) = IF 1 > m THEN 0 ELSE m - 1 + 1
  BY <1>1, FS_Interval
<1> QED
  BY <1>2

\* A list has as many positions as its length.
LEMMA ListIsFinite ==
    ASSUME NEW list, IsList(list)
    PROVE  IsFiniteSet(DOMAIN list) /\ Cardinality(DOMAIN list) = Len(list)
<1>1. Len(list) \in Nat /\ DOMAIN list = 1..Len(list)
  BY DEF IsList
<1> QED
  BY <1>1, CountUpTo

\* An object of the lower list for each mark that finds one.
LEMMA DeletedMatchGone ==
    ASSUME NEW lower, NEW upper, IsList(lower), IsList(upper),
           UniqueNames(lower), UniqueNames(upper)
    PROVE  /\ IsFiniteSet(Gone(lower, upper))
           /\ IsFiniteSet(Deleted(lower, upper))
           /\ Cardinality(Gone(lower, upper)) = Cardinality(Deleted(lower, upper))
<1> DEFINE D == Deleted(lower, upper)
           G == Gone(lower, upper)
           f == [d \in D |-> CHOOSE i \in DOMAIN lower : lower[i].name = upper[d].name]
<1>1. IsFiniteSet(DOMAIN lower) /\ IsFiniteSet(DOMAIN upper)
  BY ListIsFinite
<1>2. IsFiniteSet(G) /\ IsFiniteSet(D)
  BY <1>1, FS_Subset DEF Gone, Deleted
<1>3. \A d \in D : f[d] \in DOMAIN lower /\ lower[f[d]].name = upper[d].name
  BY DEF Deleted, Has, Names
<1>4. \A d \in D : f[d] \in G
  <2> TAKE d \in D
  <2>1. d \in DOMAIN upper /\ upper[d].delete
    BY DEF Deleted
  <2>2. Has(upper, upper[d].name) /\ Find(upper, upper[d].name) = upper[d]
    BY <2>1, FindIsUnique
  <2> QED
    BY <1>3, <2>1, <2>2 DEF Gone
<1>5. f \in Injection(D, G)
  <2>1. \A a, b \in D : f[a] = f[b] => a = b
    <3> TAKE a, b \in D
    <3> HAVE f[a] = f[b]
    <3>1. upper[a].name = upper[b].name
      BY <1>3
    <3>2. a \in DOMAIN upper /\ b \in DOMAIN upper
      BY DEF Deleted
    <3> QED
      BY <3>1, <3>2 DEF UniqueNames
  <2>2. f \in [D -> G]
    BY <1>4
  <2> QED
    BY <2>1, <2>2 DEF Injection, IsInjective
<1>6. \A g \in G : \E d \in D : f[d] = g
  <2> TAKE g \in G
  <2>1. PICK d \in DOMAIN upper : upper[d].name = lower[g].name
    BY DEF Gone, Has, Names
  <2>2. Find(upper, lower[g].name) = upper[d]
    BY <2>1, FindIsUnique
  <2>3. d \in D
    BY <2>1, <2>2 DEF Gone, Deleted, Has, Names
  <2>4. f[d] = g
    BY <1>3, <2>1, <2>3 DEF UniqueNames, Gone
  <2> QED
    BY <2>3, <2>4
<1>7. f \in Bijection(D, G)
  <2> HIDE DEF f, D, G
  <2> QED
    BY <1>5, <1>6 DEF Bijection, Surjection, Injection
<1>8. Cardinality(G) = Cardinality(D)
  <2>1. ExistsBijection(D, G)
    BY <1>7 DEF ExistsBijection
  <2> QED
    BY <1>2, <2>1, FS_Bijection
<1> QED
  BY <1>2, <1>8

\* mergeObjects writes exactly as many objects as combinedSize has counted: no
\* index out of range, and no object left without a name.
THEOREM SizesAgree ==
    ASSUME NEW lower, NEW upper, IsList(lower), IsList(upper),
           UniqueNames(lower), UniqueNames(upper)
    PROVE  Written(lower, upper) = CombinedSize(lower, upper)
<1>1. IsFiniteSet(DOMAIN lower) /\ Cardinality(DOMAIN lower) = Len(lower)
  BY ListIsFinite
<1>2. Kept(lower, upper) = DOMAIN lower \ Gone(lower, upper)
  BY DEF Kept, Gone
<1>3. Gone(lower, upper) \subseteq DOMAIN lower
  BY DEF Gone
<1>4. Cardinality(Kept(lower, upper)) = Len(lower) - Cardinality(Gone(lower, upper))
  <2>1. DOMAIN lower \cap Gone(lower, upper) = Gone(lower, upper)
    BY <1>3
  <2>2. Cardinality(DOMAIN lower \ Gone(lower, upper))
          = Cardinality(DOMAIN lower) - Cardinality(DOMAIN lower \cap Gone(lower, upper))
    BY <1>1, FS_Difference
  <2> QED
    BY <1>1, <1>2, <2>1, <2>2
<1>5. Cardinality(Gone(lower, upper)) = Cardinality(Deleted(lower, upper))
  BY DeletedMatchGone
<1>6. /\ Cardinality(Deleted(lower, upper)) \in Nat
      /\ Cardinality(Added(lower, upper)) \in Nat
  <2>1. IsFiniteSet(DOMAIN upper)
    BY ListIsFinite
  <2>2. IsFiniteSet(Added(lower, upper))
    BY <2>1, FS_Subset DEF Added
  <2> QED
    BY <2>2, DeletedMatchGone, FS_CardinalityType
<1> QED
  BY <1>4, <1>5, <1>6 DEF Written, CombinedSize, IsList

\* Filling the upper list in from the lower one keeps its names in their places,
\* and a mark is still a mark.
LEMMA PreparedKeepsNames ==
    ASSUME NEW kind, NEW lower, NEW upper, IsList(lower), IsList(upper),
           UniqueNames(lower), UniqueNames(upper)
    PROVE  LET prepared == Prepared(kind, lower, upper)
           IN  /\ IsList(prepared) /\ UniqueNames(prepared)
               /\ Len(prepared) = Len(upper)
               /\ \A i \in DOMAIN upper :
                     /\ prepared[i].name = upper[i].name
                     /\ upper[i].delete => prepared[i].delete
<1> DEFINE prepared == Prepared(kind, lower, upper)
<1>1. CASE kind = "others"
  BY <1>1 DEF Prepared, IsList
<1>2. CASE kind # "others"
  <2>1. prepared = [i \in DOMAIN upper |->
                      IF Has(lower, upper[i].name)
                      THEN MergeSpec(kind, Find(lower, upper[i].name), upper[i])
                      ELSE upper[i]]
    BY <1>2 DEF Prepared
  <2>2. \A i \in DOMAIN upper : IsObject(upper[i])
    BY DEF IsList
  <2>3. ASSUME NEW i \in DOMAIN upper
        PROVE  /\ IsObject(prepared[i])
               /\ prepared[i].name = upper[i].name
               /\ upper[i].delete => prepared[i].delete
    <3>1. CASE ~Has(lower, upper[i].name)
      BY <2>1, <2>2, <3>1
    <3>2. CASE Has(lower, upper[i].name)
      <4> DEFINE object == Find(lower, upper[i].name)
      <4>1. prepared[i] = MergeSpec(kind, object, upper[i])
        BY <2>1, <3>2
      <4>2. PICK k \in DOMAIN lower : lower[k].name = upper[i].name
        BY <3>2 DEF Has, Names
      <4>3. object = lower[k]
        BY <4>2, FindIsUnique
      <4>4. object.delete \in BOOLEAN
        BY <4>3 DEF IsList, IsObject
      <4> HIDE DEF object
      <4>5. \A parts : LET filled == [upper[i] EXCEPT !.delete = @ \/ object.delete,
                                                      !.parts = parts]
                       IN  /\ IsObject(filled)
                           /\ filled.name = upper[i].name
                           /\ upper[i].delete => filled.delete
        BY <2>2, <4>4 DEF IsObject
      <4> QED
        BY <4>1, <4>5 DEF MergeSpec
    <3> QED
      BY <3>1, <3>2
  <2>4. DOMAIN prepared = DOMAIN upper /\ Len(prepared) = Len(upper)
    BY <2>1 DEF IsList
  <2> HIDE DEF prepared
  <2>5. IsList(prepared) /\ UniqueNames(prepared)
    BY <2>3, <2>4 DEF IsList, UniqueNames
  <2> QED
    BY <2>3, <2>4, <2>5 DEF prepared
<1> QED
  BY <1>1, <1>2

\* No merge of two lists of objects, of any kind and length, writes past the end
\* of the list it has allocated, provided names identify objects.
THEOREM MergesNeverOverrun ==
    ASSUME NEW kind, NEW lower, NEW upper, IsList(lower), IsList(upper),
           UniqueNames(lower), UniqueNames(upper)
    PROVE  ~Overruns(kind, lower, upper)
<1> DEFINE prepared == Prepared(kind, lower, upper)
<1>1. IsList(prepared) /\ UniqueNames(prepared)
  BY PreparedKeepsNames
<1> HIDE DEF prepared
<1>2. Written(lower, prepared) = CombinedSize(lower, prepared)
  BY <1>1, SizesAgree
<1>3. Written(lower, prepared) \in Nat
  <2>1. IsFiniteSet(DOMAIN lower) /\ IsFiniteSet(DOMAIN prepared)
    BY <1>1, ListIsFinite
  <2>2. IsFiniteSet(Kept(lower, prepared)) /\ IsFiniteSet(Added(lower, prepared))
    BY <2>1, FS_Subset DEF Kept, Added
  <2> QED
    BY <2>2, FS_CardinalityType DEF Written
<1> QED
  BY <1>2, <1>3 DEF Overruns, prepared

-----------------------------------------------------------------------------
(* Merged lists are lists of named objects again. *)

\* How many of the positions there are up to i.
Rank(positions, i) == Cardinality({j \in positions : j <= i})

\* Positions are ranked from one on, without a gap, in their order.
LEMMA Ranks ==
    ASSUME NEW m \in Nat, NEW positions \in SUBSET (1..m)
    PROVE  /\ Cardinality(positions) \in Nat
           /\ \A i \in positions : Rank(positions, i) \in 1..Cardinality(positions)
           /\ \A i, j \in positions : i < j => Rank(positions, i) < Rank(positions, j)
           /\ \A i, j \in positions : Rank(positions, i) = Rank(positions, j) => i = j
           /\ \A n \in 1..Cardinality(positions) :
                 \E i \in positions : n = Rank(positions, i)
<1> DEFINE Upto(i) == {k \in positions : k <= i}
           size == Cardinality(positions)
           rank == [i \in positions |-> Rank(positions, i)]
<1>1. IsFiniteSet(positions) /\ size \in Nat
  <2>1. IsFiniteSet(1..m)
    BY FS_Interval
  <2> QED
    BY <2>1, FS_Subset, FS_CardinalityType
<1>2. \A i \in positions : /\ Rank(positions, i) = Cardinality(Upto(i))
                           /\ IsFiniteSet(Upto(i)) /\ Rank(positions, i) \in 1..size
  <2> TAKE i \in positions
  <2>1. Upto(i) \subseteq positions /\ i \in Upto(i)
    OBVIOUS
  <2>2. Rank(positions, i) = Cardinality(Upto(i))
    BY DEF Rank
  <2> HIDE DEF Upto
  <2>3. /\ IsFiniteSet(Upto(i)) /\ Rank(positions, i) \in Nat
        /\ Rank(positions, i) <= size /\ Rank(positions, i) # 0
    BY <1>1, <2>1, <2>2, FS_Subset, FS_CardinalityType, FS_EmptySet
  <2> QED
    BY <1>1, <2>2, <2>3
<1>3. \A i, j \in positions : i < j => Rank(positions, i) < Rank(positions, j)
  <2> TAKE i, j \in positions
  <2> HAVE i < j
  <2>1. i \in Int /\ j \in Int /\ \A k \in positions : k \in Int
    OBVIOUS
  <2>2. \A k \in Upto(i) : k \in Upto(j)
    BY <2>1
  <2>3. j \in Upto(j) /\ j \notin Upto(i)
    BY <2>1
  <2>4. Upto(i) \in SUBSET Upto(j)
    BY <2>2
  <2> HIDE DEF Upto
  <2>5. /\ Cardinality(Upto(i)) <= Cardinality(Upto(j))
        /\ Cardinality(Upto(i)) # Cardinality(Upto(j))
    BY <1>2, <2>3, <2>4, FS_Subset
  <2> QED
    BY <1>1, <1>2, <2>5
<1> HIDE DEF Upto
<1>4. \A i, j \in positions : Rank(positions, i) = Rank(positions, j) => i = j
  <2> TAKE i, j \in positions
  <2>1. i \in Nat /\ j \in Nat
        /\ Rank(positions, i) \in Nat /\ Rank(positions, j) \in Nat
    BY <1>1, <1>2
  <2> QED
    BY <1>3, <2>1
<1>5. \A n \in 1..size : \E i \in positions : n = Rank(positions, i)
  <2>1. rank \in Injection(positions, 1..size)
    <3>1. rank \in [positions -> 1..size]
      BY <1>2
    <3>2. \A i, j \in positions : rank[i] = rank[j] => i = j
      BY <1>4
    <3> QED
      BY <3>1, <3>2 DEF Injection, IsInjective
  <2>2. IsFiniteSet(1..size) /\ Cardinality(1..size) = size
    BY <1>1, FS_Interval
  <2> HIDE DEF rank
  <2>3. rank \in Surjection(positions, 1..size)
    BY <2>1, <2>2, FS_Injection
  <2>4. \A n \in 1..size : \E i \in positions : rank[i] = n
    BY <2>3 DEF Surjection
  <2> QED
    BY <2>4 DEF rank
<1> QED
  BY <1>1, <1>2, <1>3, <1>4, <1>5

\* Pick puts each item where its position ranks.
LEMMA PickedItems ==
    ASSUME NEW list, NEW m \in Nat, NEW positions \in SUBSET (1..m)
    PROVE  /\ DOMAIN Pick(list, positions) = 1..Cardinality(positions)
           /\ Len(Pick(list, positions)) = Cardinality(positions)
           /\ \A i \in positions : Pick(list, positions)[Rank(positions, i)] = list[i]
<1>1. Pick(list, positions)
        = [n \in 1..Cardinality(positions) |->
              list[CHOOSE i \in positions : Rank(positions, i) = n]]
  BY DEF Pick, Rank
<1>2. \A i \in positions :
          (CHOOSE k \in positions : Rank(positions, k) = Rank(positions, i)) = i
  BY Ranks
<1>3. Cardinality(positions) \in Nat
  BY Ranks
<1>4. \A i \in positions : Pick(list, positions)[Rank(positions, i)] = list[i]
  <2> TAKE i \in positions
  <2>1. Rank(positions, i) \in 1..Cardinality(positions)
    BY Ranks
  <2> QED
    BY <1>1, <1>2, <2>1
<1>5. DOMAIN Pick(list, positions) = 1..Cardinality(positions)
  BY <1>1
<1>6. Len(Pick(list, positions)) = Cardinality(positions)
  <2> DEFINE item(n) == list[CHOOSE i \in positions : Rank(positions, i) = n]
             size == Cardinality(positions)
  <2>1. Pick(list, positions) = [n \in 1..size |-> item(n)] /\ size \in Nat
    BY <1>1, <1>3
  <2> HIDE DEF item, size
  <2>2. Len([n \in 1..size |-> item(n)]) = size
    BY <2>1
  <2> QED
    BY <2>1, <2>2 DEF size
<1> QED
  BY <1>4, <1>5, <1>6

\* What becomes of the k-th object of the lower list.
KeptObject(lower, upper, k) ==
    IF Has(upper, lower[k].name)
    THEN MergeObject(lower[k], Find(upper, lower[k].name)) ELSE lower[k]

\* The merged list has an object for each one kept and each one added, and no
\* others; those that are kept come first, in their order.
LEMMA MergedItems ==
    ASSUME NEW lower, NEW upper, IsList(lower), IsList(upper)
    PROVE  LET merged == MergeObjects(lower, upper)
               kept == Cardinality(Kept(lower, upper))
           IN  /\ Len(merged) = Written(lower, upper)
               /\ Len(merged) \in Nat /\ DOMAIN merged = 1..Len(merged)
               /\ \A k \in Kept(lower, upper) :
                     /\ Rank(Kept(lower, upper), k) \in 1..kept
                     /\ merged[Rank(Kept(lower, upper), k)] = KeptObject(lower, upper, k)
               /\ \A k \in Added(lower, upper) :
                     LET i == kept + Rank(Added(lower, upper), k)
                     IN  i \in DOMAIN merged /\ i > kept /\ merged[i] = upper[k]
               /\ \A i \in DOMAIN merged :
                     IF i <= kept
                     THEN \E k \in Kept(lower, upper) : i = Rank(Kept(lower, upper), k)
                     ELSE \E k \in Added(lower, upper) :
                             i = kept + Rank(Added(lower, upper), k)
               /\ kept \in Nat /\ kept <= Len(merged)
<1> DEFINE K == Kept(lower, upper)
           A == Added(lower, upper)
           first == KeptMerged(lower, upper)
           second == Pick(upper, A)
<1>1. /\ Len(lower) \in Nat /\ Len(upper) \in Nat
      /\ K \subseteq 1..Len(lower) /\ A \subseteq 1..Len(upper)
  BY DEF IsList, Kept, Added
<1> HIDE DEF K, A
<1>2. /\ Cardinality(K) \in Nat
      /\ DOMAIN Pick(lower, K) = 1..Cardinality(K)
      /\ \A k \in K : Rank(K, k) \in 1..Cardinality(K) /\ Pick(lower, K)[Rank(K, k)] = lower[k]
      /\ \A n \in 1..Cardinality(K) : \E k \in K : n = Rank(K, k)
  <2>1. /\ Cardinality(K) \in Nat
        /\ \A k \in K : Rank(K, k) \in 1..Cardinality(K)
        /\ \A n \in 1..Cardinality(K) : \E k \in K : n = Rank(K, k)
    BY <1>1, Ranks
  <2>2. /\ DOMAIN Pick(lower, K) = 1..Cardinality(K)
        /\ Len(Pick(lower, K)) = Cardinality(K)
        /\ \A k \in K : Pick(lower, K)[Rank(K, k)] = lower[k]
    <3>1. Len(lower) \in Nat /\ K \in SUBSET (1..Len(lower))
      BY <1>1
    <3> QED
      BY <3>1, PickedItems
  <2> QED
    BY <2>1, <2>2
<1>3. /\ Cardinality(A) \in Nat
      /\ DOMAIN second = 1..Cardinality(A) /\ Len(second) = Cardinality(A)
      /\ \A k \in A : Rank(A, k) \in 1..Cardinality(A) /\ second[Rank(A, k)] = upper[k]
      /\ \A n \in 1..Cardinality(A) : \E k \in A : n = Rank(A, k)
  <2>1. /\ Cardinality(A) \in Nat
        /\ \A k \in A : Rank(A, k) \in 1..Cardinality(A)
        /\ \A n \in 1..Cardinality(A) : \E k \in A : n = Rank(A, k)
    BY <1>1, Ranks
  <2>2. /\ DOMAIN Pick(upper, A) = 1..Cardinality(A)
        /\ Len(Pick(upper, A)) = Cardinality(A)
        /\ \A k \in A : Pick(upper, A)[Rank(A, k)] = upper[k]
    <3>1. Len(upper) \in Nat /\ A \in SUBSET (1..Len(upper))
      BY <1>1
    <3> QED
      BY <3>1, PickedItems
  <2> QED
    BY <2>1, <2>2
<1>4. second = [n \in 1..Cardinality(A) |-> second[n]]
  BY DEF Pick
<1> HIDE DEF second
<1> DEFINE picked == Pick(lower, K)
<1>5. first = [n \in DOMAIN picked |->
                 IF Has(upper, picked[n].name)
                 THEN MergeObject(picked[n], Find(upper, picked[n].name)) ELSE picked[n]]
  BY DEF KeptMerged, K
<1> HIDE DEF first, picked
<1>6. /\ DOMAIN first = 1..Cardinality(K) /\ Len(first) = Cardinality(K)
      /\ \A k \in K : first[Rank(K, k)] = KeptObject(lower, upper, k)
  BY <1>2, <1>5 DEF picked, KeptObject
<1> DEFINE S == {first[n] : n \in 1..Cardinality(K)} \cup {second[n] : n \in 1..Cardinality(A)}
<1>7. first \in Seq(S) /\ second \in Seq(S)
  <2>1. first \in [1..Cardinality(K) -> S]
    BY <1>5, <1>6
  <2>2. second \in [1..Cardinality(A) -> S]
    BY <1>3, <1>4
  <2> HIDE DEF S
  <2> QED
    BY <1>2, <1>3, <2>1, <2>2, SeqDef
<1> HIDE DEF S
<1> DEFINE merged == first \o second
<1>8. /\ Len(merged) = Cardinality(K) + Cardinality(A)
      /\ merged \in Seq(S)
      /\ \A i \in 1..Len(merged) :
            merged[i] = IF i <= Cardinality(K) THEN first[i] ELSE second[i - Cardinality(K)]
  <2>1. /\ merged \in Seq(S)
        /\ Len(merged) = Len(first) + Len(second)
        /\ \A i \in 1..Len(first) + Len(second) :
              merged[i] = IF i <= Len(first) THEN first[i] ELSE second[i - Len(first)]
    BY <1>7, ConcatProperties
  <2> HIDE DEF merged
  <2> QED
    BY <1>3, <1>6, <2>1
<1>9. Len(merged) \in Nat /\ DOMAIN merged = 1..Len(merged)
  BY <1>8, LenProperties
<1> HIDE DEF merged
<1>10. MergeObjects(lower, upper) = merged
  BY DEF MergeObjects, merged, first, second, A
<1>11. \A k \in K : merged[Rank(K, k)] = KeptObject(lower, upper, k)
  BY <1>2, <1>3, <1>6, <1>8
<1>12. \A k \in A : LET i == Cardinality(K) + Rank(A, k)
                    IN  i \in DOMAIN merged /\ i > Cardinality(K) /\ merged[i] = upper[k]
  <2> TAKE k \in A
  <2>1. Cardinality(K) + Rank(A, k) \in DOMAIN merged
    BY <1>2, <1>3, <1>8, <1>9
  <2>2. merged[Cardinality(K) + Rank(A, k)] = upper[k]
    BY <1>2, <1>3, <1>8, <1>9, <2>1
  <2>3. Cardinality(K) + Rank(A, k) > Cardinality(K)
    BY <1>2, <1>3
  <2> QED
    BY <2>1, <2>2, <2>3
<1>13. \A i \in DOMAIN merged :
          IF i <= Cardinality(K) THEN \E k \in K : i = Rank(K, k)
          ELSE \E k \in A : i = Cardinality(K) + Rank(A, k)
  <2> TAKE i \in DOMAIN merged
  <2>1. CASE i <= Cardinality(K)
    BY <1>2, <1>9, <2>1
  <2>2. CASE ~(i <= Cardinality(K))
    <3>1. i - Cardinality(K) \in 1..Cardinality(A)
      BY <1>2, <1>3, <1>8, <1>9, <2>2
    <3>2. PICK k \in A : i - Cardinality(K) = Rank(A, k)
      BY <1>3, <3>1
    <3>3. i = Cardinality(K) + Rank(A, k)
      BY <1>2, <1>9, <3>1, <3>2
    <3> QED
      BY <2>2, <3>3
  <2> QED
    BY <2>1, <2>2
<1>14. /\ Len(merged) = Written(lower, upper)
       /\ Cardinality(K) <= Len(merged)
       /\ \A k \in K : Rank(K, k) \in 1..Cardinality(K)
  BY <1>2, <1>3, <1>8 DEF Written, K, A
<1> QED
  BY <1>2, <1>9, <1>10, <1>11, <1>12, <1>13, <1>14 DEF K, A

\* An object that stays is still an object of its name.
LEMMA KeptObjectShape ==
    ASSUME NEW lower, NEW upper, IsList(lower), IsList(upper), UniqueNames(upper),
           NEW k \in Kept(lower, upper)
    PROVE  /\ IsObject(KeptObject(lower, upper, k))
           /\ KeptObject(lower, upper, k).name = lower[k].name
           /\ KeptObject(lower, upper, k).delete = lower[k].delete
<1>1. k \in DOMAIN lower /\ IsObject(lower[k])
  BY DEF Kept, IsList
<1>2. CASE ~Has(upper, lower[k].name)
  BY <1>1, <1>2 DEF KeptObject
<1>3. CASE Has(upper, lower[k].name)
  <2> DEFINE found == Find(upper, lower[k].name)
  <2>1. PICK i \in DOMAIN upper : upper[i].name = lower[k].name
    BY <1>3 DEF Has, Names
  <2>2. found = upper[i]
    BY <2>1, FindIsUnique
  <2>3. IsObject(found) /\ found.name = lower[k].name /\ ~found.delete
    BY <1>3, <2>1, <2>2 DEF IsList, Kept
  <2>4. KeptObject(lower, upper, k) = MergeObject(lower[k], found)
    BY <1>3 DEF KeptObject
  <2> HIDE DEF found
  <2> DEFINE value == IF found.value = Unset THEN lower[k].value ELSE found.value
             delete == found.delete \/ lower[k].delete
             containers == IF found.containers = 0 THEN lower[k].containers
                           ELSE found.containers
  <2>5. /\ delete \in BOOLEAN /\ delete = lower[k].delete
        /\ containers \in Nat
    BY <1>1, <2>3 DEF IsObject
  <2>6. KeptObject(lower, upper, k)
          = [found EXCEPT !.value = value, !.delete = delete, !.containers = containers]
    BY <2>4 DEF MergeObject
  <2> HIDE DEF value, delete, containers
  <2> QED
    BY <2>3, <2>5, <2>6 DEF IsObject
<1> QED
  BY <1>2, <1>3

\* The merge of two lists of distinct objects is one; and if the first object of
\* the lower list is kept, it stays the first.
LEMMA MergedShape ==
    ASSUME NEW lower, NEW upper, IsList(lower), IsList(upper),
           UniqueNames(lower), UniqueNames(upper)
    PROVE  LET merged == MergeObjects(lower, upper)
           IN  /\ IsList(merged) /\ UniqueNames(merged)
               /\ Names(merged) = {lower[k].name : k \in Kept(lower, upper)}
                                    \cup {upper[k].name : k \in Added(lower, upper)}
               /\ 1 \in Kept(lower, upper) =>
                     /\ 1 \in DOMAIN merged /\ merged[1].name = lower[1].name
                     /\ merged[1] = KeptObject(lower, upper, 1)
<1> DEFINE merged == MergeObjects(lower, upper)
           K == Kept(lower, upper)
           A == Added(lower, upper)
           kept == Cardinality(K)
<1>1. /\ Len(merged) \in Nat /\ DOMAIN merged = 1..Len(merged)
      /\ kept \in Nat /\ kept <= Len(merged)
      /\ \A k \in K : /\ Rank(K, k) \in 1..kept
                      /\ merged[Rank(K, k)] = KeptObject(lower, upper, k)
      /\ \A k \in A : LET i == kept + Rank(A, k)
                      IN  i \in DOMAIN merged /\ i > kept /\ merged[i] = upper[k]
      /\ \A i \in DOMAIN merged :
            IF i <= kept THEN \E k \in K : i = Rank(K, k)
            ELSE \E k \in A : i = kept + Rank(A, k)
  BY MergedItems
<1>2. \A k \in K : /\ k \in DOMAIN lower
                  /\ IsObject(KeptObject(lower, upper, k))
                  /\ KeptObject(lower, upper, k).name = lower[k].name
  BY KeptObjectShape DEF Kept
<1>3. \A k \in A : /\ k \in DOMAIN upper /\ IsObject(upper[k])
                  /\ \A l \in DOMAIN lower : lower[l].name # upper[k].name
  BY DEF Added, IsList, Has, Names
<1>4. K \subseteq 1..Len(lower) /\ Len(lower) \in Nat
  BY DEF Kept, IsList
<1> HIDE DEF merged, K, A, kept
<1>5. \A i \in DOMAIN merged :
          \/ i <= kept /\ \E k \in K : /\ i = Rank(K, k)
                                      /\ merged[i] = KeptObject(lower, upper, k)
          \/ i > kept /\ \E k \in A : i = kept + Rank(A, k) /\ merged[i] = upper[k]
  <2> TAKE i \in DOMAIN merged
  <2>1. i \in Nat
    BY <1>1
  <2>2. CASE i <= kept
    BY <1>1, <2>2
  <2>3. CASE i > kept
    <3>1. PICK k \in A : i = kept + Rank(A, k)
      BY <1>1, <2>1, <2>3
    <3> QED
      BY <1>1, <2>3, <3>1
  <2> QED
    BY <1>1, <2>1, <2>2, <2>3
<1>6. IsList(merged)
  BY <1>1, <1>2, <1>3, <1>5 DEF IsList
<1>7. UniqueNames(merged)
  <2> SUFFICES ASSUME NEW i \in DOMAIN merged, NEW j \in DOMAIN merged,
                      merged[i].name = merged[j].name
               PROVE  i = j
    BY DEF UniqueNames
  <2>1. CASE i <= kept /\ j <= kept
    <3>1. PICK k \in K : i = Rank(K, k) /\ merged[i] = KeptObject(lower, upper, k)
      BY <1>1, <1>5, <2>1
    <3>2. PICK l \in K : j = Rank(K, l) /\ merged[j] = KeptObject(lower, upper, l)
      BY <1>1, <1>5, <2>1
    <3> QED
      BY <1>2, <3>1, <3>2 DEF UniqueNames
  <2>2. CASE i > kept /\ j > kept
    <3>1. PICK k \in A : i = kept + Rank(A, k) /\ merged[i] = upper[k]
      BY <1>1, <1>5, <2>2
    <3>2. PICK l \in A : j = kept + Rank(A, l) /\ merged[j] = upper[l]
      BY <1>1, <1>5, <2>2
    <3> QED
      BY <1>3, <3>1, <3>2 DEF UniqueNames
  <2>3. CASE i <= kept /\ j > kept
    BY <1>1, <1>2, <1>3, <1>5, <2>3
  <2>4. CASE i > kept /\ j <= kept
    BY <1>1, <1>2, <1>3, <1>5, <2>4
  <2> QED
    BY <1>1, <2>1, <2>2, <2>3, <2>4
<1>8. Names(merged) = {lower[k].name : k \in K} \cup {upper[k].name : k \in A}
  <2>1. \A i \in DOMAIN merged :
          merged[i].name \in {lower[k].name : k \in K} \cup {upper[k].name : k \in A}
    BY <1>2, <1>5
  <2>2. \A k \in K : lower[k].name \in Names(merged)
    <3> TAKE k \in K
    <3>1. Rank(K, k) \in DOMAIN merged
      BY <1>1
    <3> QED
      BY <1>1, <1>2, <3>1 DEF Names
  <2>3. \A k \in A : upper[k].name \in Names(merged)
    BY <1>1 DEF Names
  <2> QED
    BY <2>1, <2>2, <2>3 DEF Names
<1>9. ASSUME 1 \in K
      PROVE  /\ 1 \in DOMAIN merged /\ merged[1].name = lower[1].name
             /\ merged[1] = KeptObject(lower, upper, 1)
  <2>1. Rank(K, 1) = 1
    <3>1. 1 \in 1..kept
      BY <1>1, <1>9
    <3>2. PICK k \in K : Rank(K, k) = 1
      <4>1. \A n \in 1..Cardinality(K) : \E i \in K : n = Rank(K, i)
        BY <1>4, Ranks
      <4> QED
        BY <3>1, <4>1 DEF kept
    <3>3. ~(1 < k)
      <4>1. 1 < k => Rank(K, 1) < Rank(K, k)
        BY <1>4, <1>9, Ranks
      <4> QED
        BY <1>1, <1>9, <3>2, <4>1
    <3>4. k = 1
      BY <1>4, <3>3
    <3> QED
      BY <3>2, <3>4
  <2> QED
    BY <1>1, <1>2, <1>9, <2>1
<1> QED
  BY <1>6, <1>7, <1>8, <1>9 DEF merged, K, A

\* The list that is returned is the merged one, allocated in exactly its size.
LEMMA CombinedIsMerged ==
    ASSUME NEW kind, NEW lower, NEW upper, IsList(lower), IsList(upper),
           UniqueNames(lower), UniqueNames(upper)
    PROVE  LET combined == Combined(kind, lower, upper)
               merged == MergeObjects(lower, upper)
           IN  /\ Len(combined) = Len(merged) /\ DOMAIN combined = DOMAIN merged
               /\ \A i \in DOMAIN merged : combined[i] = merged[i]
<1> DEFINE merged == MergeObjects(lower, upper)
           combined == Combined(kind, lower, upper)
<1>1. CombinedSize(lower, upper) = Len(merged)
  BY MergedItems, SizesAgree
<1>2. Len(merged) \in Nat /\ DOMAIN merged = 1..Len(merged)
  BY MergedItems
<1>3. combined = [i \in 1..Len(merged) |->
                    IF i <= Len(merged) THEN merged[i] ELSE Nameless(kind)]
  BY <1>1 DEF Combined
<1> HIDE DEF merged
<1>4. combined = [i \in 1..Len(merged) |-> merged[i]]
  BY <1>2, <1>3
<1> HIDE DEF combined
<1> QED
  BY <1>2, <1>4 DEF merged, combined

\* Names of either list, each once, as long as the first object stays.
LEMMA MergeListShape ==
    ASSUME NEW kind, NEW lower, NEW upper, WellFormed(lower), WellFormed(upper)
    PROVE  /\ WellFormed(MergeList(kind, lower, upper))
           /\ ~Overruns(kind, lower, upper)
<1> DEFINE prepared == Prepared(kind, lower, upper)
           merged == MergeObjects(lower, prepared)
           combined == Combined(kind, lower, prepared)
<1>1. IsList(lower) /\ IsList(upper) /\ UniqueNames(lower) /\ UniqueNames(upper)
  BY DEF WellFormed
<1>2. /\ IsList(prepared) /\ UniqueNames(prepared) /\ Len(prepared) = Len(upper)
      /\ \A i \in DOMAIN upper : prepared[i].name = upper[i].name
  BY <1>1, PreparedKeepsNames
<1>3. WellFormed(<<>>)
  BY DEF WellFormed, IsList, UniqueNames, Names
<1>4. WellFormed(combined)
  <2> HIDE DEF prepared
  <2>1. /\ IsList(merged) /\ UniqueNames(merged)
        /\ Names(merged) = {lower[k].name : k \in Kept(lower, prepared)}
                             \cup {prepared[k].name : k \in Added(lower, prepared)}
    BY <1>1, <1>2, MergedShape
  <2>2. /\ Len(combined) = Len(merged) /\ DOMAIN combined = DOMAIN merged
        /\ \A i \in DOMAIN merged : combined[i] = merged[i]
    BY <1>1, <1>2, CombinedIsMerged
  <2>3. NoName \notin Names(merged)
    <3>1. \A k \in DOMAIN lower : lower[k].name # NoName
      BY DEF WellFormed, Names
    <3>2. \A k \in DOMAIN upper : upper[k].name # NoName
      BY DEF WellFormed, Names
    <3>3. DOMAIN prepared = DOMAIN upper
      BY <1>1, <1>2 DEF IsList
    <3> QED
      BY <1>2, <2>1, <3>1, <3>2, <3>3 DEF Kept, Added
  <2> HIDE DEF combined, merged
  <2> QED
    BY <2>1, <2>2, <2>3 DEF WellFormed, IsList, UniqueNames, Names
<1>5. ~Overruns(kind, lower, upper)
  BY <1>1, MergesNeverOverrun
<1> QED
  BY <1>3, <1>4, <1>5 DEF MergeList

\* Merging custom objects leaves a custom object.
LEMMA MergedCustomObject ==
    ASSUME NEW lower, NEW upper, IsCustomObject(lower), IsCustomObject(upper)
    PROVE  /\ IsCustomObject(MergeCustomObject(lower, upper))
           /\ ~CustomObjectOverruns(lower, upper)
<1>1. \A kind \in Kinds :
          /\ WellFormed(MergeList(kind, lower.lists[kind], upper.lists[kind]))
          /\ ~Overruns(kind, lower.lists[kind], upper.lists[kind])
  BY MergeListShape DEF IsCustomObject
<1> DEFINE merged == MergeCustomObject(lower, upper)
<1>2. /\ DOMAIN merged = {"omit", "lists"}
      /\ merged.lists = [kind \in Kinds |->
                            MergeList(kind, lower.lists[kind], upper.lists[kind])]
  BY DEF MergeCustomObject
<1> HIDE DEF merged
<1>3. IsCustomObject(merged)
  BY <1>1, <1>2 DEF IsCustomObject
<1> QED
  BY <1>1, <1>3 DEF merged, CustomObjectOverruns

SingleContainer(list) == \A k \in DOMAIN list : list[k].containers <= 1

\* mergeContainers is asked about deployment configs and stateful sets.
ContainersOK(kind, list) ==
    kind \in {"deploymentConfigs", "statefulSets"} => SingleContainer(list)

\* Merged specifications have no more containers than those they come from.
LEMMA PreparedContainers ==
    ASSUME NEW kind, NEW lower, NEW upper, IsList(upper), SingleContainer(upper)
    PROVE  SingleContainer(Prepared(kind, lower, upper))
<1> DEFINE prepared == Prepared(kind, lower, upper)
<1>1. CASE kind = "others"
  BY <1>1 DEF Prepared
<1>2. CASE kind # "others"
  <2>1. prepared = [i \in DOMAIN upper |->
                      IF Has(lower, upper[i].name)
                      THEN MergeSpec(kind, Find(lower, upper[i].name), upper[i])
                      ELSE upper[i]]
    BY <1>2 DEF Prepared
  <2>2. \A i \in DOMAIN upper : \A object :
            MergeSpec(kind, object, upper[i]).containers = upper[i].containers
    <3> TAKE i \in DOMAIN upper
    <3> TAKE object
    <3>1. \A delete, parts :
            [upper[i] EXCEPT !.delete = delete, !.parts = parts].containers
                = upper[i].containers
      BY DEF IsList, IsObject
    <3> QED
      BY <3>1 DEF MergeSpec
  <2> HIDE DEF prepared
  <2> QED
    BY <2>1, <2>2 DEF SingleContainer, prepared
<1> QED
  BY <1>1, <1>2

\* Nor have the objects that stay.
LEMMA KeptContainers ==
    ASSUME NEW lower, NEW upper, IsList(lower), IsList(upper), UniqueNames(upper),
           SingleContainer(lower), SingleContainer(upper),
           NEW k \in Kept(lower, upper)
    PROVE  KeptObject(lower, upper, k).containers <= 1
<1>1. k \in DOMAIN lower /\ IsObject(lower[k])
  BY DEF Kept, IsList
<1>2. CASE ~Has(upper, lower[k].name)
  BY <1>1, <1>2 DEF KeptObject, SingleContainer
<1>3. CASE Has(upper, lower[k].name)
  <2> DEFINE found == Find(upper, lower[k].name)
             containers == IF found.containers = 0 THEN lower[k].containers
                           ELSE found.containers
  <2>1. PICK i \in DOMAIN upper : upper[i].name = lower[k].name
    BY <1>3 DEF Has, Names
  <2>2. found = upper[i]
    BY <2>1, FindIsUnique
  <2>3. IsObject(found) /\ containers <= 1
    BY <1>1, <2>1, <2>2 DEF IsList, SingleContainer
  <2>4. KeptObject(lower, upper, k) = MergeObject(lower[k], found)
    BY <1>3 DEF KeptObject
  <2>5. \A value, delete :
          [found EXCEPT !.value = value, !.delete = delete,
                        !.containers = containers].containers = containers
    BY <2>3 DEF IsObject
  <2> QED
    BY <2>3, <2>4, <2>5 DEF MergeObject
<1> QED
  BY <1>2, <1>3

\* mergeContainers gives up at a second container only.
LEMMA ContainersFit ==
    ASSUME NEW kind, NEW lower, NEW upper, WellFormed(lower),
           SingleContainer(lower), IsList(upper), SingleContainer(upper)
    PROVE  ~TooManyContainers(kind, lower, upper)
<1> SUFFICES ASSUME NEW i \in DOMAIN upper, Has(lower, upper[i].name),
                    LET object == Find(lower, upper[i].name)
                    IN  object.containers > 1 \/ upper[i].containers > 1
             PROVE  FALSE
  BY DEF TooManyContainers
<1>1. IsList(lower) /\ UniqueNames(lower)
  BY DEF WellFormed
<1>2. PICK k \in DOMAIN lower : lower[k].name = upper[i].name
  BY DEF Has, Names
<1>3. Find(lower, upper[i].name) = lower[k]
  BY <1>1, <1>2, FindIsUnique
<1> QED
  BY <1>1, <1>3 DEF SingleContainer, IsList, IsObject

\* No object gets a second container.
LEMMA MergedContainers ==
    ASSUME NEW lower, NEW upper, IsList(lower), IsList(upper),
           UniqueNames(lower), UniqueNames(upper),
           SingleContainer(lower), SingleContainer(upper)
    PROVE  SingleContainer(MergeObjects(lower, upper))
<1> DEFINE merged == MergeObjects(lower, upper)
<1>1. \A i \in DOMAIN merged :
        \/ \E k \in Kept(lower, upper) : merged[i] = KeptObject(lower, upper, k)
        \/ \E k \in Added(lower, upper) : merged[i] = upper[k]
  <2> HIDE DEF merged
  <2> QED
    BY MergedItems DEF merged
<1>2. \A k \in Added(lower, upper) : upper[k].containers <= 1
  BY DEF Added, SingleContainer
<1>3. \A k \in Kept(lower, upper) : KeptObject(lower, upper, k).containers <= 1
  BY KeptContainers
<1> HIDE DEF merged
<1> QED
  BY <1>1, <1>2, <1>3 DEF SingleContainer, merged

\* Nor has a merged list.
LEMMA MergeListContainers ==
    ASSUME NEW kind, NEW lower, NEW upper, WellFormed(lower), WellFormed(upper),
           SingleContainer(lower), SingleContainer(upper)
    PROVE  SingleContainer(MergeList(kind, lower, upper))
<1> DEFINE prepared == Prepared(kind, lower, upper)
           merged == MergeObjects(lower, prepared)
           combined == Combined(kind, lower, prepared)
<1>1. IsList(lower) /\ IsList(upper) /\ UniqueNames(lower) /\ UniqueNames(upper)
  BY DEF WellFormed
<1>2. IsList(prepared) /\ UniqueNames(prepared) /\ SingleContainer(prepared)
  BY <1>1, PreparedKeepsNames, PreparedContainers
<1>3. SingleContainer(combined)
  <2> HIDE DEF prepared
  <2>1. /\ DOMAIN combined = DOMAIN merged
        /\ \A i \in DOMAIN merged : combined[i] = merged[i]
    BY <1>1, <1>2, CombinedIsMerged
  <2>2. SingleContainer(merged)
    BY <1>1, <1>2, MergedContainers
  <2> HIDE DEF combined, merged
  <2> QED
    BY <2>1, <2>2 DEF SingleContainer
<1>4. ~TooManyContainers(kind, lower, upper)
  BY <1>1, ContainersFit
<1> HIDE DEF combined
<1> QED
  BY <1>3, <1>4 DEF MergeList, combined

\* An object in front that no mark takes away stays in front, unmarked, and no
\* object gets a second container.
LEMMA FrontStays ==
    ASSUME NEW lower, NEW upper, WellFormed(lower), WellFormed(upper),
           SingleContainer(lower), SingleContainer(upper),
           1 \in DOMAIN lower, ~lower[1].delete,
           \A k \in DOMAIN upper : upper[k].name = lower[1].name => ~upper[k].delete
    PROVE  LET list == MergeList("deploymentConfigs", lower, upper)
           IN  /\ 1 \in DOMAIN list /\ list[1].name = lower[1].name
               /\ ~list[1].delete
               /\ SingleContainer(list)
<1> DEFINE prepared == Prepared("deploymentConfigs", lower, upper)
           merged == MergeObjects(lower, prepared)
           combined == Combined("deploymentConfigs", lower, prepared)
           list == MergeList("deploymentConfigs", lower, upper)
<1>1. IsList(lower) /\ IsList(upper) /\ UniqueNames(lower) /\ UniqueNames(upper)
  BY DEF WellFormed
<1>2. /\ IsList(prepared) /\ UniqueNames(prepared) /\ SingleContainer(prepared)
      /\ DOMAIN prepared = DOMAIN upper
  BY <1>1, PreparedKeepsNames, PreparedContainers DEF IsList
<1>3. CASE upper = <<>>
  BY <1>3 DEF MergeList
<1>4. CASE upper # <<>>
  <2>1. lower # <<>>
    BY <1>1 DEF IsList
  <2>2. ~TooManyContainers("deploymentConfigs", lower, upper)
    BY <1>1, ContainersFit
  <2>3. list = combined
    BY <1>4, <2>1, <2>2 DEF MergeList
  <2>4. 1 \in Kept(lower, prepared)
    <3> SUFFICES ASSUME Has(prepared, lower[1].name)
                 PROVE  ~Find(prepared, lower[1].name).delete
      BY DEF Kept
    <3>1. PICK i \in DOMAIN upper : prepared[i].name = lower[1].name
      BY <1>2 DEF Has, Names
    <3>2. Find(prepared, lower[1].name) = prepared[i]
      <4> HIDE DEF prepared
      <4> QED
        BY <1>2, <3>1, FindIsUnique
    <3>3. upper[i].name = lower[1].name
      BY <1>1, <3>1, PreparedKeepsNames
    <3>4. Has(lower, upper[i].name) /\ Find(lower, upper[i].name) = lower[1]
      BY <1>1, <3>3, FindIsUnique
    <3>5. prepared[i] = MergeSpec("deploymentConfigs", lower[1], upper[i])
      BY <3>4 DEF Prepared
    <3>6. \A parts : ~[upper[i] EXCEPT !.delete = @ \/ lower[1].delete,
                                        !.parts = parts].delete
      BY <1>1, <3>3 DEF IsList, IsObject
    <3> QED
      BY <3>2, <3>5, <3>6 DEF MergeSpec
  <2> HIDE DEF prepared
  <2>5. /\ DOMAIN combined = DOMAIN merged
        /\ \A i \in DOMAIN merged : combined[i] = merged[i]
    BY <1>1, <1>2, CombinedIsMerged
  <2>6. /\ 1 \in DOMAIN merged /\ merged[1].name = lower[1].name
        /\ merged[1] = KeptObject(lower, prepared, 1)
    BY <1>1, <1>2, <2>4, MergedShape
  <2>7. ~merged[1].delete
    BY <1>1, <1>2, <2>4, <2>6, KeptObjectShape
  <2>8. SingleContainer(merged)
    BY <1>1, <1>2, MergedContainers
  <2> HIDE DEF combined, merged, list
  <2> QED
    BY <2>3, <2>5, <2>6, <2>7, <2>8 DEF SingleContainer, list
<1> QED
  BY <1>3, <1>4

-----------------------------------------------------------------------------
(* The environment's servers. *)

Settings == [database : Databases \cup {NoDatabase}, jms : BOOLEAN]

\* What Init chooses, and no step changes.
Given ==
    /\ cr.servers \in Seq(Settings) /\ cr.servers # <<>>
    /\ cr.env \in UserVariables
    /\ DOMAIN layers.common = DOMAIN cr.servers
    /\ Len(layers.common) = Len(cr.servers)
    /\ DOMAIN layers.env = 1..Len(layers.env) /\ Len(layers.env) \in Nat
    /\ layers.env # <<>> => DOMAIN cr.servers \subseteq DOMAIN layers.env
    /\ \A i \in DOMAIN cr.servers : layers.common[i] \in CommonLayers
    /\ \A i \in DOMAIN layers.env : layers.env[i] \in EnvLayers
    /\ layers.databases \in DatabaseLayers
    /\ layers.jms \in JmsLayers

Merging == {"router", "mergeDB", "mergeJms", "consolidate", "done"}

\* mergeJms has met JMS at the i-th server or before.
UsesJms(i) == \E j \in 1..i : cr.servers[j].jms

Progress ==
    /\ pc \in Merging \cup {"merge", "failed", "crashed"}
    /\ next \in DOMAIN cr.servers
    /\ shared \subseteq DOMAIN cr.servers
    /\ jmsLoaded \in BOOLEAN /\ (shared # {} => jmsLoaded)
    /\ jmsLoaded => pc \notin {"merge", "router", "mergeDB"}
    /\ pc \in {"merge", "router"} => next = 1
    /\ pc = "mergeJms" => (jmsLoaded <=> UsesJms(next - 1))
    /\ pc \in {"merge", "failed", "crashed"} => servers = <<>>
    /\ pc \in Merging => /\ DOMAIN servers = DOMAIN cr.servers
                         /\ Len(servers) = Len(cr.servers)
                         /\ \A i \in DOMAIN servers : IsCustomObject(servers[i])

\* The layers of a KieApp's servers are among the given ones.
LEMMA GivenLayers ==
    ASSUME Given
    PROVE  /\ \A i \in DOMAIN cr.servers : IsCustomObject(layers.common[i])
           /\ \A i \in DOMAIN layers.env :
                 layers.env[i] \in UpperLayers /\ IsCustomObject(layers.env[i])
           /\ \A i \in DOMAIN cr.servers :
                 cr.servers[i].database # NoDatabase =>
                    /\ layers.databases[cr.servers[i].database] \in UpperLayers
                    /\ layers.databases[cr.servers[i].database] \in FoundLayers
                    /\ IsCustomObject(layers.databases[cr.servers[i].database])
           /\ layers.jms \in UpperLayers /\ IsCustomObject(layers.jms)
           /\ layers.jms \in FoundLayers
<1>1. \A layer \in CommonLayers \cup UpperLayers : IsCustomObject(layer)
  BY LayersAssumption DEF LayersAssumption
<1>2. /\ EnvLayers \subseteq UpperLayers /\ FoundLayers \subseteq UpperLayers
      /\ JmsLayers \subseteq FoundLayers
      /\ \A layer \in DatabaseLayers : \A database \in Databases :
            layer[database] \in FoundLayers
  BY DEF UpperLayers, FoundLayers
<1>3. \A i \in DOMAIN cr.servers :
          cr.servers[i].database # NoDatabase => cr.servers[i].database \in Databases
  <2> TAKE i \in DOMAIN cr.servers
  <2>1. cr.servers[i] \in Settings
    BY DEF Given
  <2> QED
    BY <2>1 DEF Settings
<1> QED
  BY <1>1, <1>2, <1>3 DEF Given

\* Init chooses among what is given.
LEMMA GivenAtFirst == Init => Given
<1> SUFFICES ASSUME Init PROVE Given
  OBVIOUS
<1>1. PICK list \in ServerLists, router \in BOOLEAN, variables \in UserVariables :
          cr = [servers |-> list, smartRouter |-> router, env |-> variables]
  BY DEF Init
<1>2. list # <<>> /\ list \in Seq(Settings)
  BY ServersAssumption DEF ServersAssumption, Settings
<1>3. PICK common \in CommonLayers, env \in EnvLayers, db \in DatabaseLayers,
           jms \in JmsLayers, count \in {0, Len(cr.servers), Len(cr.servers) + 1} :
          layers = [common |-> [i \in DOMAIN cr.servers |-> common],
                    env |-> [i \in 1..count |-> env],
                    databases |-> db, jms |-> jms]
  BY DEF Init
<1>4. Len(list) \in Nat /\ DOMAIN list = 1..Len(list)
  BY <1>2
<1>5. cr.servers = list /\ cr.env \in UserVariables
  BY <1>1
<1>6. /\ layers.common = [i \in DOMAIN cr.servers |-> common]
      /\ layers.env = [i \in 1..count |-> env]
      /\ layers.databases = db /\ layers.jms = jms
  BY <1>3
<1>7. count \in Nat
  <2>1. Len(cr.servers) \in Nat
    BY <1>4, <1>5
  <2>2. count = 0 \/ count = Len(cr.servers) \/ count = Len(cr.servers) + 1
    OBVIOUS
  <2> QED
    BY <2>1, <2>2
<1>8. /\ DOMAIN layers.common = 1..Len(list) /\ Len(layers.common) = Len(list)
      /\ \A i \in 1..Len(list) : layers.common[i] = common
  <2> DEFINE size == Len(list)
  <2>1. layers.common = [i \in 1..size |-> common] /\ size \in Nat
    BY <1>4, <1>5, <1>6
  <2> HIDE DEF size
  <2> QED
    BY <2>1 DEF size
<1>9. /\ DOMAIN layers.env = 1..count /\ Len(layers.env) = count
      /\ \A i \in 1..count : layers.env[i] = env
  BY <1>6, <1>7
<1>10. layers.env # <<>> => DOMAIN cr.servers \subseteq DOMAIN layers.env
  <2>1. count = 0 => layers.env = <<>>
    BY <1>6
  <2>2. count # 0 => count \in {Len(list), Len(list) + 1}
    BY <1>5
  <2>3. \A n \in Nat : 1..n \subseteq 1..n + 1
    OBVIOUS
  <2>4. count # 0 => 1..Len(list) \subseteq 1..count
    BY <1>4, <2>2, <2>3
  <2> QED
    BY <1>4, <1>5, <1>9, <2>1, <2>4
<1> QED
  BY <1>2, <1>4, <1>5, <1>6, <1>7, <1>8, <1>9, <1>10 DEF Given

\* A list that is changed without touching names and marks is as good as before.
LEMMA DCsReplaced ==
    ASSUME NEW server, IsCustomObject(server), NEW dcs,
           Len(dcs) = Len(server.lists["deploymentConfigs"]),
           DOMAIN dcs = DOMAIN server.lists["deploymentConfigs"],
           \A k \in DOMAIN dcs :
              /\ IsObject(dcs[k])
              /\ dcs[k].name = server.lists["deploymentConfigs"][k].name
    PROVE  LET replaced == [server EXCEPT !.lists["deploymentConfigs"] = dcs]
           IN  /\ IsCustomObject(replaced)
               /\ replaced.lists["deploymentConfigs"] = dcs
               /\ \A kind \in Kinds \ {"deploymentConfigs"} :
                     replaced.lists[kind] = server.lists[kind]
<1> DEFINE replaced == [server EXCEPT !.lists["deploymentConfigs"] = dcs]
           old == server.lists["deploymentConfigs"]
<1>1. WellFormed(dcs)
  BY DEF IsCustomObject, Kinds, WellFormed, IsList, UniqueNames, Names
<1>2. /\ DOMAIN replaced = {"omit", "lists"} /\ DOMAIN replaced.lists = Kinds
      /\ replaced.lists["deploymentConfigs"] = dcs
      /\ \A kind \in Kinds \ {"deploymentConfigs"} :
            replaced.lists[kind] = server.lists[kind]
  BY DEF IsCustomObject, Kinds
<1> HIDE DEF replaced
<1>3. IsCustomObject(replaced)
  BY <1>1, <1>2 DEF IsCustomObject
<1> QED
  BY <1>2, <1>3 DEF replaced

\* New variables leave the rest of an object alone.
LEMMA EnvReplaced ==
    ASSUME NEW object, IsObject(object), NEW variables
    PROVE  LET replaced == WithEnv(object, variables)
           IN  /\ IsObject(replaced) /\ replaced.name = object.name
               /\ replaced.delete = object.delete
               /\ replaced.containers = object.containers
BY DEF IsObject, WithEnv

\* Up to their parts, the objects of two servers are the same.
SameObjects(old, new) ==
    /\ DOMAIN new = DOMAIN old
    /\ \A k \in DOMAIN old : /\ new[k].name = old[k].name
                             /\ new[k].delete = old[k].delete
                             /\ new[k].containers = old[k].containers

SameUpToParts(old, new) ==
    \A kind \in Kinds : SameObjects(old.lists[kind], new.lists[kind])

\* One round over "list": only the server at next may be found, and only if the
\* layer can be merged.
RoundTaken(list, layer, found, after) ==
    /\ Given /\ Progress /\ pc \in Merging /\ after \in Merging
    /\ found \in SUBSET {next} /\ (next \in found => IsCustomObject(layer))
    /\ DOMAIN list = DOMAIN cr.servers /\ Len(list) = Len(cr.servers)
    /\ \A i \in DOMAIN list : IsCustomObject(list[i])
    /\ servers' = (IF next \in found
                    THEN [list EXCEPT ![next] = MergeCustomObject(@, layer)]
                    ELSE list)
    /\ next' = (IF next = Len(list) THEN 1 ELSE next + 1)
    /\ pc' = (IF next \in found /\ CustomObjectOverruns(list[next], layer)
               THEN "panicked" ELSE IF next = Len(list) THEN after ELSE pc)

\* What such a round leaves behind.
RoundLeaves(list, layer, found, after) ==
    /\ DOMAIN servers' = DOMAIN cr.servers /\ Len(servers') = Len(cr.servers)
    /\ \A i \in DOMAIN cr.servers :
          servers'[i] = IF i \in found THEN MergeCustomObject(list[i], layer)
                        ELSE list[i]
    /\ \A i \in DOMAIN servers' : IsCustomObject(servers'[i])
    /\ next' \in DOMAIN cr.servers
    /\ next' = (IF next = Len(cr.servers) THEN 1 ELSE next + 1)
    /\ pc' = (IF next = Len(cr.servers) THEN after ELSE pc)

\* A merge of the next server is one of two custom objects, if it is one.
LEMMA RoundProgress ==
    ASSUME NEW list, NEW layer, NEW found, NEW after,
           RoundTaken(list, layer, found, after)
    PROVE  RoundLeaves(list, layer, found, after)
<1> USE DEF RoundTaken, RoundLeaves
<1>1. /\ DOMAIN cr.servers = 1..Len(cr.servers) /\ Len(cr.servers) \in Nat \ {0}
      /\ next \in DOMAIN cr.servers
  BY DEF Given, Progress
<1>2. next' \in DOMAIN cr.servers
      /\ next' = (IF next = Len(cr.servers) THEN 1 ELSE next + 1)
  BY <1>1
<1>4. /\ DOMAIN servers' = DOMAIN cr.servers
      /\ \A i \in DOMAIN cr.servers :
            servers'[i] = IF i \in found THEN MergeCustomObject(list[i], layer)
                          ELSE list[i]
  BY <1>1
<1>5. Len(servers') = Len(cr.servers)
  BY <1>1
<1>6. next \in found =>
                      /\ IsCustomObject(MergeCustomObject(list[next], layer))
                      /\ ~CustomObjectOverruns(list[next], layer)
  BY <1>1, MergedCustomObject
<1>7. pc' = (IF next = Len(cr.servers) THEN after ELSE pc)
  BY <1>6
<1> QED
  BY <1>1, <1>2, <1>4, <1>5, <1>6, <1>7

\* Rendering the JMS template again changes parts only.
LEMMA LoadedAgainShape ==
    ASSUME NEW server, IsCustomObject(server)
    PROVE  /\ IsCustomObject(LoadedAgain(server))
           /\ SameUpToParts(server, LoadedAgain(server))
<1> DEFINE jms == layers.jms.lists["deploymentConfigs"]
           old == server.lists["deploymentConfigs"]
           dcs == [k \in DOMAIN old |->
                     IF Has(jms, old[k].name)
                     THEN DecodedInto(old[k], Find(jms, old[k].name)) ELSE old[k]]
<1>1. LoadedAgain(server) = [server EXCEPT !.lists["deploymentConfigs"] = dcs]
  BY DEF LoadedAgain, IsCustomObject, Kinds
<1>2. IsList(old)
  BY DEF IsCustomObject, Kinds, WellFormed
<1>3. \A k \in DOMAIN old : /\ IsObject(dcs[k]) /\ dcs[k].name = old[k].name
                            /\ dcs[k].delete = old[k].delete
                            /\ dcs[k].containers = old[k].containers
  <2> TAKE k \in DOMAIN old
  <2>1. IsObject(old[k])
    BY <1>2 DEF IsList
  <2>2. \A parts : LET changed == [old[k] EXCEPT !.parts = parts]
                   IN  /\ IsObject(changed) /\ changed.name = old[k].name
                       /\ changed.delete = old[k].delete
                       /\ changed.containers = old[k].containers
    BY <2>1 DEF IsObject
  <2>3. CASE ~Has(jms, old[k].name)
    BY <2>1, <2>3
  <2>4. CASE Has(jms, old[k].name)
    <3>1. dcs[k] = DecodedInto(old[k], Find(jms, old[k].name))
      BY <2>4
    <3> QED
      BY <2>2, <3>1 DEF DecodedInto
  <2> QED
    BY <2>3, <2>4
<1>4. DOMAIN dcs = DOMAIN old /\ Len(dcs) = Len(old)
  BY <1>2 DEF IsList
<1> HIDE DEF dcs
<1> QED
  BY <1>1, <1>3, <1>4, DCsReplaced DEF SameUpToParts, SameObjects

\* So does removing the router's variables.
LEMMA WithoutRouterShape ==
    ASSUME NEW server, IsCustomObject(server)
    PROVE  /\ IsCustomObject(WithoutRouterVariables(server))
           /\ SameUpToParts(server, WithoutRouterVariables(server))
<1> DEFINE old == server.lists["deploymentConfigs"]
           dcs == [k \in DOMAIN old |->
                     WithEnv(old[k], WithoutRouter(old[k].parts["env"]))]
<1>1. WithoutRouterVariables(server) = [server EXCEPT !.lists["deploymentConfigs"] = dcs]
  BY DEF WithoutRouterVariables, IsCustomObject, Kinds
<1>2. IsList(old)
  BY DEF IsCustomObject, Kinds, WellFormed
<1>3. \A k \in DOMAIN old : /\ IsObject(dcs[k]) /\ dcs[k].name = old[k].name
                            /\ dcs[k].delete = old[k].delete
                            /\ dcs[k].containers = old[k].containers
  BY <1>2, EnvReplaced DEF IsList
<1>4. DOMAIN dcs = DOMAIN old /\ Len(dcs) = Len(old)
  BY <1>2 DEF IsList
<1> HIDE DEF dcs
<1> QED
  BY <1>1, <1>3, <1>4, DCsReplaced DEF SameUpToParts, SameObjects

\* And so does overriding variables with the KieApp's own.
LEMMA OverriddenShape ==
    ASSUME NEW server, IsCustomObject(server)
    PROVE  /\ IsCustomObject(Overridden(server))
           /\ SameUpToParts(server, Overridden(server))
<1> DEFINE old == server.lists["deploymentConfigs"]
           dcs == [k \in DOMAIN old |->
                     IF old[k].containers = 0 THEN old[k]
                     ELSE WithEnv(old[k], EnvOverride(old[k].parts["env"], cr.env))]
<1>1. Overridden(server) = [server EXCEPT !.lists["deploymentConfigs"] = dcs]
  BY DEF Overridden, IsCustomObject, Kinds
<1>2. IsList(old)
  BY DEF IsCustomObject, Kinds, WellFormed
<1>3. \A k \in DOMAIN old : /\ IsObject(dcs[k]) /\ dcs[k].name = old[k].name
                            /\ dcs[k].delete = old[k].delete
                            /\ dcs[k].containers = old[k].containers
  BY <1>2, EnvReplaced DEF IsList
<1>4. DOMAIN dcs = DOMAIN old /\ Len(dcs) = Len(old)
  BY <1>2 DEF IsList
<1> HIDE DEF dcs
<1> QED
  BY <1>1, <1>3, <1>4, DCsReplaced DEF SameUpToParts, SameObjects

\* At first there is nothing that could be out of place.
LEMMA ProgressAtFirst == Init => Progress
<1> SUFFICES ASSUME Init PROVE Progress
  OBVIOUS
<1>1. Given
  BY GivenAtFirst
<1>2. 1 \in DOMAIN cr.servers
  BY <1>1 DEF Given
<1> QED
  BY <1>2 DEF Init, Progress, Merging

\* The common configuration merged with the environment's.
LEMMA MergeProgress == ASSUME Given, Progress, Merge PROVE Progress'
<1>1. /\ pc = "merge" /\ servers = <<>> /\ UNCHANGED <<cr, layers, jmsLoaded, shared, next>>
      /\ ~jmsLoaded
  BY DEF Merge, Progress
<1>2. CASE Incompatible(layers.common, layers.env)
  BY <1>1, <1>2 DEF Merge, Progress, Merging
<1>3. CASE ~Incompatible(layers.common, layers.env)
  <2>1. /\ servers' = MergeCustomObjects(layers.common, layers.env)
        /\ pc' = IF /\ layers.env # <<>>
                    /\ \E i \in DOMAIN layers.common :
                          CustomObjectOverruns(layers.common[i], layers.env[i])
                 THEN "panicked" ELSE "router"
    BY <1>3 DEF Merge
  <2>2. /\ layers.common # <<>>
        /\ DOMAIN layers.common = 1..Len(layers.common)
        /\ Len(layers.common) \in Nat /\ Len(layers.common) = Len(cr.servers)
        /\ DOMAIN layers.common = DOMAIN cr.servers
    BY DEF Given
  <2>3. layers.env # <<>> => DOMAIN layers.env = DOMAIN layers.common
    BY <1>3, <2>2 DEF Incompatible, Given
  <2>4. \A i \in DOMAIN layers.common :
          /\ IsCustomObject(layers.common[i])
          /\ layers.env # <<>> =>
                /\ IsCustomObject(MergeCustomObject(layers.common[i], layers.env[i]))
                /\ ~CustomObjectOverruns(layers.common[i], layers.env[i])
    <3> TAKE i \in DOMAIN layers.common
    <3>1. IsCustomObject(layers.common[i])
      BY <2>2, GivenLayers
    <3>2. layers.env # <<>> => IsCustomObject(layers.env[i])
      BY <2>3, GivenLayers
    <3> QED
      BY <3>1, <3>2, MergedCustomObject
  <2>5. pc' = "router"
    BY <2>1, <2>4
  <2>6. /\ DOMAIN servers' = DOMAIN cr.servers /\ Len(servers') = Len(cr.servers)
        /\ \A i \in DOMAIN servers' : IsCustomObject(servers'[i])
    <3>1. CASE layers.env = <<>>
      BY <2>1, <2>2, <2>4, <3>1 DEF MergeCustomObjects
    <3>2. CASE layers.env # <<>>
      <4>1. servers' = [i \in DOMAIN layers.common |->
                          MergeCustomObject(layers.common[i], layers.env[i])]
        BY <2>1, <2>2, <3>2 DEF MergeCustomObjects
      <4> QED
        BY <2>2, <2>4, <3>2, <4>1
    <3> QED
      BY <3>1, <3>2
  <2> QED
    BY <1>1, <2>5, <2>6 DEF Progress, Merging
<1> QED
  BY <1>2, <1>3

\* The router's variables removed.
LEMMA RouterProgress ==
    ASSUME Given, Progress, RemoveRouterVariables
    PROVE  /\ Progress'
           /\ pc' \in Merging => \A i \in DOMAIN cr.servers :
                 SameUpToParts(servers[i], servers'[i])
<1>1. /\ pc = "router" /\ ~jmsLoaded
      /\ UNCHANGED <<cr, layers, jmsLoaded, shared, next>>
  BY DEF RemoveRouterVariables, Progress
<1>2. /\ DOMAIN servers = DOMAIN cr.servers /\ Len(servers) = Len(cr.servers)
      /\ \A i \in DOMAIN servers : IsCustomObject(servers[i])
      /\ DOMAIN cr.servers = 1..Len(cr.servers) /\ Len(cr.servers) \in Nat
  BY <1>1 DEF Progress, Merging, Given
<1>3. CASE pc' = "crashed"
  BY <1>1, <1>3 DEF RemoveRouterVariables, Progress, Merging
<1>4. CASE pc' # "crashed"
  <2>1. pc' = "mergeDB"
    BY <1>4 DEF RemoveRouterVariables
  <2>2. /\ DOMAIN servers' = DOMAIN cr.servers /\ Len(servers') = Len(cr.servers)
        /\ \A i \in DOMAIN servers' :
              /\ IsCustomObject(servers'[i])
              /\ SameUpToParts(servers[i], servers'[i])
    <3>1. CASE cr.smartRouter
      BY <1>2, <3>1 DEF RemoveRouterVariables, SameUpToParts, SameObjects
    <3>2. CASE ~cr.smartRouter
      <4>1. servers' = [i \in DOMAIN servers |-> WithoutRouterVariables(servers[i])]
        BY <1>4, <3>2 DEF RemoveRouterVariables
      <4> QED
        BY <1>2, <4>1, WithoutRouterShape
    <3> QED
      BY <3>1, <3>2
  <2> QED
    BY <1>1, <2>1, <2>2 DEF Progress, Merging
<1> QED
  BY <1>3, <1>4

\* The KieApp's own variables put on top.
LEMMA ConsolidateProgress ==
    ASSUME Given, Progress, Consolidate
    PROVE  /\ Progress'
           /\ \A i \in DOMAIN cr.servers :
                 SameUpToParts(servers[i], servers'[i])
<1>1. /\ pc = "consolidate" /\ pc' = "done"
      /\ UNCHANGED <<cr, layers, jmsLoaded, shared, next>>
  BY DEF Consolidate
<1>2. /\ DOMAIN servers = DOMAIN cr.servers /\ Len(servers) = Len(cr.servers)
      /\ \A i \in DOMAIN servers : IsCustomObject(servers[i])
      /\ DOMAIN cr.servers = 1..Len(cr.servers) /\ Len(cr.servers) \in Nat
  BY <1>1 DEF Progress, Merging, Given
<1>3. servers' = [i \in DOMAIN servers |-> Overridden(servers[i])]
  BY DEF Consolidate
<1>4. /\ DOMAIN servers' = DOMAIN cr.servers /\ Len(servers') = Len(cr.servers)
      /\ \A i \in DOMAIN servers' :
            /\ IsCustomObject(servers'[i])
            /\ SameUpToParts(servers[i], servers'[i])
  BY <1>2, <1>3, OverriddenShape
<1> QED
  BY <1>1, <1>4 DEF Progress, Merging

\* A round of either loop: what it merges, and with what.
LEMMA DBProgress ==
    ASSUME Given, Progress, MergeDB
    PROVE  /\ Progress'
           /\ \A i \in DOMAIN cr.servers :
                 LET database == cr.servers[i].database
                     layer == layers.databases[database]
                 IN  servers'[i] = IF /\ i = next /\ database # NoDatabase
                                      /\ IsFound(servers[i], layer)
                                   THEN MergeCustomObject(servers[i], layer)
                                   ELSE servers[i]
           /\ next' = (IF next = Len(cr.servers) THEN 1 ELSE next + 1)
           /\ pc' = (IF next = Len(cr.servers) THEN "mergeJms" ELSE pc)
<1> DEFINE database == cr.servers[next].database
           layer == layers.databases[database]
           found == IF database # NoDatabase /\ IsFound(servers[next], layer)
                    THEN {next} ELSE {}
<1>1. /\ pc = "mergeDB" /\ ~jmsLoaded /\ UNCHANGED <<cr, layers, jmsLoaded, shared>>
      /\ servers' = (IF next \in found
                      THEN [servers EXCEPT ![next] = MergeCustomObject(@, layer)]
                      ELSE servers)
      /\ next' = (IF next = Len(servers) THEN 1 ELSE next + 1)
      /\ pc' = (IF next \in found /\ CustomObjectOverruns(servers[next], layer)
                 THEN "panicked" ELSE IF next = Len(servers) THEN "mergeJms" ELSE pc)
  BY DEF MergeDB, Progress, Round
<1>2. /\ DOMAIN servers = DOMAIN cr.servers /\ Len(servers) = Len(cr.servers)
      /\ \A i \in DOMAIN servers : IsCustomObject(servers[i])
      /\ next \in DOMAIN cr.servers /\ pc \in Merging
  BY <1>1 DEF Progress, Merging
<1>3. next \in found => database # NoDatabase /\ IsCustomObject(layer)
  BY <1>2, GivenLayers
<1>4. found \in SUBSET {next} /\ "mergeJms" \in Merging
  BY DEF Merging
<1> HIDE DEF layer, found
<1>5. /\ DOMAIN servers' = DOMAIN cr.servers /\ Len(servers') = Len(cr.servers)
      /\ \A i \in DOMAIN cr.servers :
            servers'[i] = IF i \in found THEN MergeCustomObject(servers[i], layer)
                          ELSE servers[i]
      /\ \A i \in DOMAIN servers' : IsCustomObject(servers'[i])
      /\ next' \in DOMAIN cr.servers
      /\ next' = (IF next = Len(cr.servers) THEN 1 ELSE next + 1)
      /\ pc' = (IF next = Len(cr.servers) THEN "mergeJms" ELSE pc)
  <2>1. RoundTaken(servers, layer, found, "mergeJms")
    BY <1>1, <1>2, <1>3, <1>4 DEF RoundTaken
  <2>2. RoundLeaves(servers, layer, found, "mergeJms")
    BY <2>1, RoundProgress
  <2> QED
    BY <1>1, <2>2 DEF RoundLeaves
<1>6. pc' = "mergeJms" => (jmsLoaded' <=> UsesJms(next - 1)')
  <2>1. ~jmsLoaded' /\ (pc' = "mergeJms" => next' = 1)
    BY <1>1, <1>5
  <2> QED
    BY <2>1 DEF UsesJms
<1>7. Progress'
  BY <1>1, <1>5, <1>6 DEF Progress, Merging
<1>8. \A i \in DOMAIN cr.servers :
          i \in found <=> /\ i = next /\ cr.servers[i].database # NoDatabase
                          /\ IsFound(servers[i], layers.databases[cr.servers[i].database])
  BY DEF found, layer
<1>9. \A i \in found : layer = layers.databases[cr.servers[i].database]
  BY <1>4 DEF layer
<1> QED
  BY <1>5, <1>7, <1>8, <1>9

\* In a round of mergeJms a server may be rendered again; the one it is at is
\* merged, if it is found, when it or an earlier one has JMS.
LEMMA JmsProgress ==
    ASSUME Given, Progress, MergeJms
    PROVE  /\ Progress'
           /\ \A i \in DOMAIN cr.servers : \E old :
                 /\ IsCustomObject(old)
                 /\ SameUpToParts(servers[i], old)
                 /\ ~(cr.servers[next].jms /\ UsesJms(next - 1)) => old = servers[i]
                 /\ servers'[i] = IF /\ i = next /\ UsesJms(i)
                                     /\ IsFound(servers[i], layers.jms)
                                  THEN MergeCustomObject(old, layers.jms) ELSE old
           /\ next' = (IF next = Len(cr.servers) THEN 1 ELSE next + 1)
           /\ pc' = (IF next = Len(cr.servers) THEN "consolidate" ELSE pc)
<1> DEFINE load == cr.servers[next].jms
           layer == layers.jms
           found == IF (load \/ jmsLoaded) /\ IsFound(servers[next], layer)
                    THEN {next} ELSE {}
           loaded == [i \in DOMAIN servers |->
                        IF load /\ i \in shared THEN LoadedAgain(servers[i])
                        ELSE servers[i]]
<1>1. /\ pc = "mergeJms" /\ UNCHANGED <<cr, layers>>
      /\ jmsLoaded' = (jmsLoaded \/ load)
      /\ shared' = IF next \in found THEN shared \cup {next} ELSE shared
      /\ servers' = (IF next \in found
                      THEN [loaded EXCEPT ![next] = MergeCustomObject(@, layer)]
                      ELSE loaded)
      /\ next' = (IF next = Len(loaded) THEN 1 ELSE next + 1)
      /\ pc' = (IF next \in found /\ CustomObjectOverruns(loaded[next], layer)
                 THEN "panicked" ELSE IF next = Len(loaded) THEN "consolidate" ELSE pc)
  BY DEF MergeJms, Round
<1>2. /\ DOMAIN servers = DOMAIN cr.servers /\ Len(servers) = Len(cr.servers)
      /\ \A i \in DOMAIN servers : IsCustomObject(servers[i])
      /\ DOMAIN cr.servers = 1..Len(cr.servers) /\ Len(cr.servers) \in Nat
      /\ next \in DOMAIN cr.servers /\ pc \in Merging
  BY <1>1 DEF Progress, Merging, Given
<1>3. /\ load \in BOOLEAN /\ jmsLoaded \in BOOLEAN
      /\ shared \subseteq DOMAIN cr.servers /\ (shared # {} => jmsLoaded)
      /\ jmsLoaded <=> UsesJms(next - 1)
  <2>1. cr.servers[next] \in Settings
    BY <1>2 DEF Given
  <2> QED
    BY <1>1, <2>1 DEF Progress, Settings
<1>4. IsCustomObject(layer)
  BY GivenLayers
<1>5. \A i \in DOMAIN cr.servers :
          /\ IsCustomObject(loaded[i])
          /\ SameUpToParts(servers[i], loaded[i])
          /\ ~(load /\ jmsLoaded) => loaded[i] = servers[i]
  <2> TAKE i \in DOMAIN cr.servers
  <2>1. CASE load /\ i \in shared
    BY <1>2, <1>3, <2>1, LoadedAgainShape
  <2>2. CASE ~(load /\ i \in shared)
    BY <1>2, <2>2 DEF SameUpToParts, SameObjects
  <2> QED
    BY <2>1, <2>2
<1>6. DOMAIN loaded = DOMAIN cr.servers /\ Len(loaded) = Len(cr.servers)
  BY <1>2
<1>7. /\ found \in SUBSET {next} /\ "consolidate" \in Merging
      /\ next \in found => load \/ jmsLoaded
  BY DEF Merging
<1> HIDE DEF load, layer, found, loaded
<1>8. /\ servers' = (IF next \in found
                     THEN [loaded EXCEPT ![next] = MergeCustomObject(@, layer)]
                     ELSE loaded)
      /\ next' = (IF next = Len(loaded) THEN 1 ELSE next + 1)
      /\ pc' = (IF next \in found /\ CustomObjectOverruns(loaded[next], layer)
                THEN "panicked" ELSE IF next = Len(loaded) THEN "consolidate" ELSE pc)
  BY <1>1
<1>9. /\ DOMAIN loaded = DOMAIN cr.servers /\ Len(loaded) = Len(cr.servers)
      /\ \A i \in DOMAIN loaded : IsCustomObject(loaded[i])
      /\ pc \in Merging
  BY <1>2, <1>5, <1>6
<1>10. /\ DOMAIN servers' = DOMAIN cr.servers /\ Len(servers') = Len(cr.servers)
       /\ \A i \in DOMAIN cr.servers :
             servers'[i] = IF i \in found THEN MergeCustomObject(loaded[i], layer)
                           ELSE loaded[i]
       /\ \A i \in DOMAIN servers' : IsCustomObject(servers'[i])
       /\ next' \in DOMAIN cr.servers
       /\ next' = (IF next = Len(cr.servers) THEN 1 ELSE next + 1)
       /\ pc' = (IF next = Len(cr.servers) THEN "consolidate" ELSE pc)
  <2>1. RoundTaken(loaded, layer, found, "consolidate")
    BY <1>4, <1>7, <1>8, <1>9 DEF RoundTaken
  <2>2. RoundLeaves(loaded, layer, found, "consolidate")
    BY <2>1, RoundProgress
  <2> QED
    BY <2>2 DEF RoundLeaves
<1>11. /\ shared' \subseteq DOMAIN cr.servers /\ jmsLoaded' \in BOOLEAN
       /\ shared' # {} => jmsLoaded'
  BY <1>1, <1>2, <1>3, <1>7
<1>12. load \/ jmsLoaded <=> UsesJms(next)
  <2>1. /\ next \in 1..next /\ 1..next - 1 \subseteq 1..next
        /\ \A j \in 1..next : j \in 1..next - 1 \/ j = next
    BY <1>2
  <2> QED
    BY <1>3, <2>1 DEF load, UsesJms
<1>13. pc' = "mergeJms" => (jmsLoaded' <=> UsesJms(next - 1)')
  <2> SUFFICES ASSUME pc' = "mergeJms" PROVE jmsLoaded' <=> UsesJms(next - 1)'
    OBVIOUS
  <2>1. next' = next + 1
    BY <1>1, <1>10
  <2>2. next' - 1 = next
    BY <1>2, <2>1
  <2>3. UsesJms(next - 1)' <=> UsesJms(next)
    BY <1>1, <2>2 DEF UsesJms
  <2> QED
    BY <1>1, <1>12, <2>3
<1>14. Progress'
  BY <1>1, <1>10, <1>11, <1>13 DEF Progress, Merging
<1>15. \A i \in DOMAIN cr.servers :
           i \in found <=> i = next /\ UsesJms(i) /\ IsFound(servers[i], layers.jms)
  BY <1>2, <1>12 DEF found, layer
<1> QED
  BY <1>3, <1>5, <1>10, <1>14, <1>15 DEF layer, load

\* No step changes what is given.
LEMMA GivenStays == Given /\ [Next]_vars => Given'
BY DEF Given, Next, vars, Merge, RemoveRouterVariables, MergeDB, MergeJms, Consolidate,
       LoadFails

\* Every step keeps the loops in their bounds and the servers well-formed.
LEMMA ProgressStep == Given /\ Progress /\ [Next]_vars => Progress'
<1> SUFFICES ASSUME Given, Progress, [Next]_vars PROVE Progress'
  OBVIOUS
<1>1. CASE Merge
  BY <1>1, MergeProgress
<1>2. CASE RemoveRouterVariables
  BY <1>2, RouterProgress
<1>3. CASE MergeDB
  BY <1>3, DBProgress
<1>4. CASE MergeJms
  BY <1>4, JmsProgress
<1>5. CASE Consolidate
  BY <1>5, ConsolidateProgress
<1>6. CASE LoadFails
  BY <1>6 DEF LoadFails, Progress, Merging
<1>7. CASE UNCHANGED vars
  BY <1>7 DEF vars, Progress, UsesJms
<1> QED
  BY <1>1, <1>2, <1>3, <1>4, <1>5, <1>6, <1>7 DEF Next

\* No step loses a server: from any state of the loops, whatever the templates
\* hold, the environment has one entry for each server of the KieApp.
THEOREM TypeCorrect == Spec => []TypeOK
<1>1. Init => Given /\ Progress
  BY GivenAtFirst, ProgressAtFirst
<1>2. Given /\ Progress /\ [Next]_vars => Given' /\ Progress'
  BY GivenStays, ProgressStep
<1>3. Given /\ Progress => TypeOK
  BY DEF Progress, Merging, TypeOK
<1> QED
  BY <1>1, <1>2, <1>3, PTL DEF Spec

\* combinedSize and mergeObjects agree in every merge of the program, for any
\* number of servers and objects: no list is written past its end (the panic of
\* an index out of range), and no object without a name is left in one.
THEOREM EveryMergeFits == Spec => []SlicesAreFilled
<1>1. Init => Given /\ Progress
  BY GivenAtFirst, ProgressAtFirst
<1>2. Given /\ Progress /\ [Next]_vars => Given' /\ Progress'
  BY GivenStays, ProgressStep
<1>3. Given /\ Progress => SlicesAreFilled
  <2> SUFFICES ASSUME Given, Progress PROVE SlicesAreFilled
    OBVIOUS
  <2>1. pc # "panicked" /\ \A i \in DOMAIN servers : IsCustomObject(servers[i])
    BY DEF Progress, Merging
  <2>2. \A i \in DOMAIN servers : \A kind \in Kinds :
            NoName \notin Names(servers[i].lists[kind])
    BY <2>1 DEF IsCustomObject, WellFormed
  <2> QED
    BY <2>1, <2>2 DEF SlicesAreFilled
<1> QED
  BY <1>1, <1>2, <1>3, PTL DEF Spec
-----------------------------------------------------------------------------
(* A server is found by its first deployment config, by every layer. *)

\* The list begins with the object of that name, which is not marked; no object
\* has several containers.
Leads(list, name) ==
    /\ 1 \in DOMAIN list
    /\ list[1].name = name /\ ~list[1].delete
    /\ SingleContainer(list)

OwnName(i) == layers.common[i].lists["deploymentConfigs"][1].name

InFront ==
    SingleContainers /\ pc \in Merging =>
        \A i \in DOMAIN cr.servers :
            Leads(servers[i].lists["deploymentConfigs"], OwnName(i))

Join(a, b) == a \o b
Includes(list, part) == \A k \in DOMAIN part : \E n \in DOMAIN list : list[n] = part[k]

\* Where the items of lists put one after the other are found.
LEMMA Joined ==
    ASSUME NEW S, NEW a \in Seq(S), NEW b \in Seq(S)
    PROVE  /\ Join(a, b) \in Seq(S)
           /\ Includes(Join(a, b), a) /\ Includes(Join(a, b), b)
<1> DEFINE both == a \o b
<1>1. /\ both \in Seq(S) /\ Len(both) = Len(a) + Len(b)
      /\ \A k \in 1..Len(a) : both[k] = a[k]
      /\ \A k \in 1..Len(b) : both[Len(a) + k] = b[k]
  OBVIOUS
<1> HIDE DEF both
<1>2. /\ DOMAIN a = 1..Len(a) /\ Len(a) \in Nat
      /\ DOMAIN b = 1..Len(b) /\ Len(b) \in Nat
      /\ DOMAIN both = 1..Len(both)
  BY <1>1
<1>3. \A k \in DOMAIN a : k \in DOMAIN both /\ both[k] = a[k]
  BY <1>1, <1>2
<1>4. \A k \in DOMAIN b : Len(a) + k \in DOMAIN both /\ both[Len(a) + k] = b[k]
  BY <1>1, <1>2
<1> QED
  BY <1>1, <1>3, <1>4 DEF both, Join, Includes

Single(object) == \A kind \in Kinds : ContainersOK(kind, object.lists[kind])

\* The layers that a server is merged from: one that inherits JMS is merged with
\* its layer, too.
MergedLayers(i) ==
    LET database == cr.servers[i].database
    IN  BaseLayers(i)
          \o (IF database = NoDatabase THEN <<>> ELSE <<layers.databases[database]>>)
          \o (IF UsesJms(i) THEN <<layers.jms>> ELSE <<>>)

\* Those that it asks for have single containers.
LEMMA OwnSingleLayers ==
    ASSUME SingleContainers, NEW i \in DOMAIN cr.servers
    PROVE  /\ Single(layers.common[i])
           /\ layers.env # <<>> => Single(layers.env[i])
           /\ cr.servers[i].database # NoDatabase =>
                Single(layers.databases[cr.servers[i].database])
           /\ cr.servers[i].jms => Single(layers.jms)
<1> DEFINE database == cr.servers[i].database
           base == BaseLayers(i)
           db == IF database = NoDatabase THEN <<>> ELSE <<layers.databases[database]>>
           jms == IF cr.servers[i].jms THEN <<layers.jms>> ELSE <<>>
           S == {layers.common[i], layers.env[i], layers.databases[database], layers.jms}
           all == LayersOf(i)
<1>1. base \in Seq(S) /\ db \in Seq(S) /\ jms \in Seq(S)
  <2>1. /\ <<>> \in Seq(S) /\ <<layers.common[i]>> \in Seq(S)
        /\ <<layers.common[i], layers.env[i]>> \in Seq(S)
        /\ <<layers.databases[database]>> \in Seq(S)
        /\ <<layers.jms>> \in Seq(S)
    <3> \A x, y \in S : <<x, y>> \in Seq(S) /\ <<x>> \in Seq(S)
      OBVIOUS
    <3> QED
      OBVIOUS
  <2> HIDE DEF S
  <2> QED
    BY <2>1 DEF BaseLayers
<1>2. all = base \o db \o jms
  BY DEF LayersOf
<1>3. \A k \in DOMAIN all : Single(all[k])
  BY DEF SingleContainers, SingleContainer, ContainersOK, Single
<1>4. /\ 1 \in DOMAIN base /\ base[1] = layers.common[i]
      /\ layers.env # <<>> => 2 \in DOMAIN base /\ base[2] = layers.env[i]
      /\ database # NoDatabase => 1 \in DOMAIN db /\ db[1] = layers.databases[database]
      /\ cr.servers[i].jms => 1 \in DOMAIN jms /\ jms[1] = layers.jms
  BY DEF BaseLayers
<1> HIDE DEF base, db, jms, S, all
<1>5. /\ Includes(all, base) /\ Includes(all, db) /\ Includes(all, jms)
  <2> DEFINE both == Join(base, db)
  <2>1. all = Join(both, jms)
    BY <1>2 DEF Join
  <2>2. both \in Seq(S) /\ Includes(both, base) /\ Includes(both, db)
    BY <1>1, Joined
  <2> HIDE DEF both
  <2>3. Includes(all, both) /\ Includes(all, jms)
    BY <1>1, <2>1, <2>2, Joined
  <2> QED
    BY <2>2, <2>3 DEF Includes
<1> QED
  BY <1>3, <1>4, <1>5 DEF Includes

\* And so has the JMS layer for those behind a server that asks for it.
LEMMA SingleLayers ==
    ASSUME Given, SingleContainers, NEW i \in DOMAIN cr.servers
    PROVE  /\ Single(layers.common[i])
           /\ layers.env # <<>> => Single(layers.env[i])
           /\ cr.servers[i].database # NoDatabase =>
                Single(layers.databases[cr.servers[i].database])
           /\ UsesJms(i) => Single(layers.jms)
<1>1. ASSUME UsesJms(i) PROVE Single(layers.jms)
  <2>1. PICK j \in 1..i : cr.servers[j].jms
    BY <1>1 DEF UsesJms
  <2>2. j \in DOMAIN cr.servers
    BY DEF Given
  <2> QED
    BY <2>1, <2>2, OwnSingleLayers
<1> QED
  BY <1>1, OwnSingleLayers

\* What the templates are assumed to look like.
LEMMA OwnServer ==
    ASSUME Given, NEW i \in DOMAIN cr.servers
    PROVE  /\ 1 \in DOMAIN layers.common[i].lists["deploymentConfigs"]
           /\ ~layers.common[i].lists["deploymentConfigs"][1].delete
           /\ \A layer \in UpperLayers :
                \A k \in DOMAIN layer.lists["deploymentConfigs"] :
                    layer.lists["deploymentConfigs"][k].name = OwnName(i)
                        => ~layer.lists["deploymentConfigs"][k].delete
<1> DEFINE common == layers.common[i]
           dcs == common.lists["deploymentConfigs"]
<1>1. common \in CommonLayers /\ IsCustomObject(common)
  BY GivenLayers DEF Given
<1>2. /\ dcs # <<>> /\ ~dcs[1].delete
      /\ \A layer \in UpperLayers :
            \A k \in DOMAIN layer.lists["deploymentConfigs"] :
                layer.lists["deploymentConfigs"][k].name = dcs[1].name
                    => ~layer.lists["deploymentConfigs"][k].delete
  BY <1>1, OwnServerAssumption DEF OwnServerAssumption
<1>3. Len(dcs) \in Nat /\ DOMAIN dcs = 1..Len(dcs)
  BY <1>1 DEF IsCustomObject, Kinds, WellFormed, IsList
<1>4. 1 \in DOMAIN dcs
  BY <1>2, <1>3
<1> QED
  BY <1>2, <1>4 DEF OwnName

\* A merge with a layer that does not mark the server's own keeps it in front.
LEMMA MergeKeepsLead ==
    ASSUME NEW lower, NEW upper, NEW name,
           IsCustomObject(lower), IsCustomObject(upper),
           Leads(lower.lists["deploymentConfigs"], name),
           SingleContainer(upper.lists["deploymentConfigs"]),
           \A k \in DOMAIN upper.lists["deploymentConfigs"] :
              upper.lists["deploymentConfigs"][k].name = name
                  => ~upper.lists["deploymentConfigs"][k].delete
    PROVE  Leads(MergeCustomObject(lower, upper).lists["deploymentConfigs"], name)
<1> DEFINE down == lower.lists["deploymentConfigs"]
           up == upper.lists["deploymentConfigs"]
           list == MergeList("deploymentConfigs", down, up)
<1>1. WellFormed(down) /\ WellFormed(up)
  BY DEF IsCustomObject, Kinds
<1>2. MergeCustomObject(lower, upper).lists["deploymentConfigs"] = list
  BY DEF MergeCustomObject, Kinds
<1>3. /\ 1 \in DOMAIN list /\ list[1].name = down[1].name
      /\ ~list[1].delete
      /\ SingleContainer(list)
  BY <1>1, FrontStays DEF Leads
<1> QED
  BY <1>2, <1>3 DEF Leads

\* Nothing but parts changes, and the first object stays the same.
LEMMA SameKeepsLead ==
    ASSUME NEW old, NEW new, NEW name, SameUpToParts(old, new),
           Leads(old.lists["deploymentConfigs"], name)
    PROVE  Leads(new.lists["deploymentConfigs"], name)
BY DEF SameUpToParts, SameObjects, Kinds, Leads, SingleContainer

\* The first merge: each server begins with its own object in common.yaml.
LEMMA MergeKeepsFront ==
    ASSUME Given, Progress, InFront, Merge, SingleContainers, pc' \in Merging
    PROVE  \A i \in DOMAIN cr.servers :
              Leads(servers'[i].lists["deploymentConfigs"], OwnName(i))
<1> TAKE i \in DOMAIN cr.servers
<1>1. /\ ~Incompatible(layers.common, layers.env)
      /\ servers' = MergeCustomObjects(layers.common, layers.env)
  BY DEF Merge, Merging
<1>2. Leads(layers.common[i].lists["deploymentConfigs"], OwnName(i))
  BY OwnServer, SingleLayers DEF Leads, OwnName, Single, ContainersOK, Kinds
<1>3. CASE layers.env = <<>>
  BY <1>1, <1>2, <1>3 DEF MergeCustomObjects
<1>4. CASE layers.env # <<>>
  <2>1. /\ layers.common # <<>> /\ DOMAIN layers.common = DOMAIN cr.servers
        /\ DOMAIN layers.env = DOMAIN layers.common
    BY <1>1, <1>4 DEF Given, Incompatible
  <2>2. servers'[i] = MergeCustomObject(layers.common[i], layers.env[i])
    BY <1>1, <1>4, <2>1 DEF MergeCustomObjects
  <2>3. /\ layers.env[i] \in UpperLayers /\ IsCustomObject(layers.env[i])
        /\ IsCustomObject(layers.common[i])
    BY <2>1, GivenLayers
  <2>4. \A k \in DOMAIN layers.env[i].lists["deploymentConfigs"] :
            layers.env[i].lists["deploymentConfigs"][k].name = OwnName(i)
                => ~layers.env[i].lists["deploymentConfigs"][k].delete
    BY <2>3, OwnServer
  <2>5. SingleContainer(layers.env[i].lists["deploymentConfigs"])
    BY <1>4, SingleLayers DEF Single, ContainersOK, Kinds
  <2> QED
    BY <1>2, <2>2, <2>3, <2>4, <2>5, MergeKeepsLead
<1> QED
  BY <1>3, <1>4

\* The databases' layers.
LEMMA MergeDBKeepsFront ==
    ASSUME Given, Progress, InFront, MergeDB, SingleContainers
    PROVE  \A i \in DOMAIN cr.servers :
              Leads(servers'[i].lists["deploymentConfigs"], OwnName(i))
<1> TAKE i \in DOMAIN cr.servers
<1> DEFINE layer == layers.databases[cr.servers[i].database]
<1>1. pc = "mergeDB" /\ IsCustomObject(servers[i])
  BY DEF MergeDB, Progress, Merging
<1>2. Leads(servers[i].lists["deploymentConfigs"], OwnName(i))
  BY <1>1 DEF InFront, Merging
<1>3. CASE servers'[i] = servers[i]
  BY <1>2, <1>3
<1>4. CASE /\ cr.servers[i].database # NoDatabase
           /\ servers'[i] = MergeCustomObject(servers[i], layer)
  <2>1. layer \in UpperLayers /\ IsCustomObject(layer)
    BY <1>4, GivenLayers
  <2>2. \A k \in DOMAIN layer.lists["deploymentConfigs"] :
            layer.lists["deploymentConfigs"][k].name = OwnName(i)
                => ~layer.lists["deploymentConfigs"][k].delete
    BY <2>1, OwnServer
  <2>3. SingleContainer(layer.lists["deploymentConfigs"])
    BY <1>4, SingleLayers DEF Single, ContainersOK, Kinds
  <2> QED
    BY <1>1, <1>2, <1>4, <2>1, <2>2, <2>3, MergeKeepsLead
<1> QED
  BY <1>1, <1>3, <1>4, DBProgress

\* The JMS layer, the second decoding of its template included.
LEMMA MergeJmsKeepsFront ==
    ASSUME Given, Progress, InFront, MergeJms, SingleContainers
    PROVE  \A i \in DOMAIN cr.servers :
              Leads(servers'[i].lists["deploymentConfigs"], OwnName(i))
<1> TAKE i \in DOMAIN cr.servers
<1>1. pc = "mergeJms"
  BY DEF MergeJms
<1>2. Leads(servers[i].lists["deploymentConfigs"], OwnName(i))
  BY <1>1 DEF InFront, Merging
<1>3. PICK old :
          /\ IsCustomObject(old)
          /\ SameUpToParts(servers[i], old)
          /\ \/ servers'[i] = old
             \/ UsesJms(i) /\ servers'[i] = MergeCustomObject(old, layers.jms)
  BY JmsProgress
<1>4. Leads(old.lists["deploymentConfigs"], OwnName(i))
  BY <1>2, <1>3, SameKeepsLead
<1>5. CASE servers'[i] = old
  BY <1>4, <1>5
<1>6. CASE UsesJms(i) /\ servers'[i] = MergeCustomObject(old, layers.jms)
  <2>1. layers.jms \in UpperLayers /\ IsCustomObject(layers.jms)
    BY GivenLayers
  <2>2. \A k \in DOMAIN layers.jms.lists["deploymentConfigs"] :
            layers.jms.lists["deploymentConfigs"][k].name = OwnName(i)
                => ~layers.jms.lists["deploymentConfigs"][k].delete
    BY <2>1, OwnServer
  <2>3. SingleContainer(layers.jms.lists["deploymentConfigs"])
    BY <1>6, SingleLayers DEF Single, ContainersOK, Kinds
  <2> QED
    BY <1>3, <1>4, <1>6, <2>1, <2>2, <2>3, MergeKeepsLead
<1> QED
  BY <1>3, <1>5, <1>6

\* Whether all templates have single containers, no step changes.
LEMMA SameTemplates ==
    ASSUME cr' = cr, layers' = layers
    PROVE  SingleContainers' <=> SingleContainers
<1>1. \A i : LayersOf(i)' = LayersOf(i)
  BY DEF LayersOf, BaseLayers
<1> QED
  BY <1>1 DEF SingleContainers

\* No step moves a server's own deployment config from the front.
LEMMA FrontStep == Given /\ Progress /\ InFront /\ [Next]_vars => InFront'
<1> SUFFICES ASSUME Given, Progress, InFront, [Next]_vars,
                    SingleContainers', pc' \in Merging
             PROVE  \A i \in DOMAIN cr.servers' :
                       Leads(servers'[i].lists["deploymentConfigs"], OwnName(i)')
  BY DEF InFront
<1>1. cr' = cr /\ layers' = layers
  BY DEF Next, vars, Merge, RemoveRouterVariables, MergeDB, MergeJms, Consolidate,
         LoadFails
<1>2. SingleContainers
  BY <1>1, SameTemplates
<1>3. \A i : OwnName(i)' = OwnName(i)
  BY <1>1 DEF OwnName
<1> SUFFICES \A i \in DOMAIN cr.servers :
                Leads(servers'[i].lists["deploymentConfigs"], OwnName(i))
  BY <1>1, <1>3
<1>4. pc \in Merging =>
          \A i \in DOMAIN cr.servers :
              Leads(servers[i].lists["deploymentConfigs"], OwnName(i))
  BY <1>2 DEF InFront
<1>5. CASE Merge
  BY <1>2, <1>5, MergeKeepsFront
<1>6. CASE RemoveRouterVariables
  <2>1. pc \in Merging
    BY <1>6 DEF RemoveRouterVariables, Merging
  <2> QED
    BY <1>4, <1>6, <2>1, RouterProgress, SameKeepsLead
<1>7. CASE MergeDB
  BY <1>2, <1>7, MergeDBKeepsFront
<1>8. CASE MergeJms
  BY <1>2, <1>8, MergeJmsKeepsFront
<1>9. CASE Consolidate
  <2>1. pc \in Merging
    BY <1>9 DEF Consolidate, Merging
  <2> QED
    BY <1>4, <1>9, <2>1, ConsolidateProgress, SameKeepsLead
<1>10. CASE LoadFails
  BY <1>10 DEF LoadFails, Merging
<1>11. CASE UNCHANGED vars
  BY <1>4, <1>11 DEF vars
<1> QED
  BY <1>5, <1>6, <1>7, <1>8, <1>9, <1>10, <1>11 DEF Next

\* No layer is missed: however the templates order and mark their objects (but
\* for the server's own one, OwnServerAssumption), the first deployment config of
\* a server keeps the name by which findCustomObjectByName finds the server.
THEOREM LayersFindTheServer == Spec => []ServerStaysFound
<1>1. Init => Given /\ Progress /\ InFront
  <2>1. Init => InFront
    BY DEF Init, InFront, Merging
  <2> QED
    BY <2>1, GivenAtFirst, ProgressAtFirst
<1>2. Given /\ Progress /\ InFront /\ [Next]_vars => Given' /\ Progress' /\ InFront'
  BY GivenStays, ProgressStep, FrontStep
<1>3. Given /\ Progress /\ InFront => ServerStaysFound
  <2> SUFFICES ASSUME Given, Progress, InFront, SingleContainers,
                      pc \in {"mergeDB", "mergeJms", "consolidate", "done"},
                      NEW i \in DOMAIN servers
               PROVE  /\ servers[i].lists["deploymentConfigs"] # <<>>
                      /\ servers[i].lists["deploymentConfigs"][1].name = OwnName(i)
    BY DEF ServerStaysFound, OwnName
  <2>1. pc \in Merging /\ i \in DOMAIN cr.servers
    BY DEF Merging, Progress
  <2>2. Leads(servers[i].lists["deploymentConfigs"], OwnName(i))
    BY <2>1 DEF InFront
  <2>3. servers[i].lists["deploymentConfigs"] # <<>>
    BY <2>2 DEF Leads
  <2> QED
    BY <2>2, <2>3 DEF Leads
<1> QED
  BY <1>1, <1>2, <1>3, PTL DEF Spec

-----------------------------------------------------------------------------
(* Which objects are left: those that a layer brings and none marks. *)

\* The list has an object of that name, unmarked.
Shows(list, name) ==
    \E k \in DOMAIN list : list[k].name = name /\ ~list[k].delete

HasMark(list, name) ==
    \E k \in DOMAIN list : list[k].name = name /\ list[k].delete

\* In the merge of two lists, a mark takes an object away and nothing else does.
LEMMA PreparedMarks ==
    ASSUME NEW kind, NEW lower, NEW upper, IsList(lower), IsList(upper),
           UniqueNames(lower), UniqueNames(upper), NEW name
    PROVE  LET prepared == Prepared(kind, lower, upper)
           IN  /\ HasMark(upper, name) => HasMark(prepared, name)
               /\ Names(prepared) = Names(upper)
               /\ Shows(upper, name) /\ ~Has(lower, name) => Shows(prepared, name)
               /\ Shows(lower, name) /\ ~HasMark(upper, name) => ~HasMark(prepared, name)
<1> DEFINE prepared == Prepared(kind, lower, upper)
<1>1. /\ DOMAIN prepared = DOMAIN upper
      /\ \A i \in DOMAIN upper : /\ prepared[i].name = upper[i].name
                                 /\ upper[i].delete => prepared[i].delete
  BY PreparedKeepsNames DEF IsList
<1>2. ASSUME NEW i \in DOMAIN upper, ~Has(lower, upper[i].name)
      PROVE  prepared[i] = upper[i]
  BY <1>2 DEF Prepared
<1>3. ASSUME NEW i \in DOMAIN upper, NEW k \in DOMAIN lower,
             lower[k].name = upper[i].name, ~lower[k].delete, ~upper[i].delete
      PROVE  ~prepared[i].delete
  <2>1. CASE kind = "others"
    BY <1>3, <2>1 DEF Prepared
  <2>2. CASE kind # "others"
    <3>1. Has(lower, upper[i].name) /\ Find(lower, upper[i].name) = lower[k]
      BY <1>3, FindIsUnique
    <3>2. prepared[i] = MergeSpec(kind, lower[k], upper[i])
      BY <2>2, <3>1 DEF Prepared
    <3>3. \A parts : ~[upper[i] EXCEPT !.delete = @ \/ lower[k].delete,
                                        !.parts = parts].delete
      BY <1>3 DEF IsList, IsObject
    <3> QED
      BY <3>2, <3>3 DEF MergeSpec
  <2> QED
    BY <2>1, <2>2
<1> HIDE DEF prepared
<1>4. HasMark(upper, name) => HasMark(prepared, name)
  BY <1>1 DEF HasMark
<1>5. Names(prepared) = Names(upper)
  BY <1>1 DEF Names
<1>6. Shows(upper, name) /\ ~Has(lower, name) => Shows(prepared, name)
  BY <1>1, <1>2 DEF Shows
<1>7. Shows(lower, name) /\ ~HasMark(upper, name) => ~HasMark(prepared, name)
  BY <1>1, <1>3 DEF Shows, HasMark
<1> QED
  BY <1>4, <1>5, <1>6, <1>7 DEF prepared

\* Whether an object of a merged list is marked.
LEMMA MergedMarks ==
    ASSUME NEW lower, NEW upper, IsList(lower), IsList(upper),
           UniqueNames(lower), UniqueNames(upper), NEW name
    PROVE  LET merged == MergeObjects(lower, upper)
           IN  /\ Has(merged, name) => Has(lower, name) \/ Has(upper, name)
               /\ Shows(lower, name) /\ ~HasMark(upper, name) => Shows(merged, name)
               /\ Shows(upper, name) /\ ~Has(lower, name) => Shows(merged, name)
               /\ HasMark(upper, name) => ~Has(merged, name)
<1> DEFINE merged == MergeObjects(lower, upper)
<1>1. Names(merged) = {lower[k].name : k \in Kept(lower, upper)}
                        \cup {upper[k].name : k \in Added(lower, upper)}
  BY MergedShape
<1>2. /\ DOMAIN merged = 1..Len(merged) /\ Len(merged) \in Nat
      /\ Cardinality(Kept(lower, upper)) \in Nat
      /\ Cardinality(Kept(lower, upper)) <= Len(merged)
      /\ \A k \in Kept(lower, upper) :
            /\ Rank(Kept(lower, upper), k) \in 1..Cardinality(Kept(lower, upper))
            /\ merged[Rank(Kept(lower, upper), k)] = KeptObject(lower, upper, k)
      /\ \A k \in Added(lower, upper) :
            LET i == Cardinality(Kept(lower, upper)) + Rank(Added(lower, upper), k)
            IN  i \in DOMAIN merged /\ merged[i] = upper[k]
  BY MergedItems
<1> HIDE DEF merged
<1>3. Has(merged, name) => Has(lower, name) \/ Has(upper, name)
  BY <1>1 DEF Has, Names, Kept, Added
<1>4. ASSUME NEW k \in DOMAIN lower, lower[k].name = name, ~lower[k].delete,
             ~HasMark(upper, name)
      PROVE  Shows(merged, name)
  <2>1. k \in Kept(lower, upper)
    <3> SUFFICES ASSUME Has(upper, name) PROVE ~Find(upper, name).delete
      BY <1>4 DEF Kept
    <3>1. PICK i \in DOMAIN upper : upper[i].name = name
      BY DEF Has, Names
    <3>2. Find(upper, name) = upper[i]
      BY <3>1, FindIsUnique
    <3> QED
      BY <1>4, <3>1, <3>2 DEF HasMark
  <2>2. /\ Rank(Kept(lower, upper), k) \in DOMAIN merged
        /\ merged[Rank(Kept(lower, upper), k)] = KeptObject(lower, upper, k)
    BY <1>2, <2>1
  <2>3. /\ KeptObject(lower, upper, k).name = name
        /\ ~KeptObject(lower, upper, k).delete
    BY <1>4, <2>1, KeptObjectShape
  <2> QED
    BY <2>2, <2>3 DEF Shows
<1>5. ASSUME NEW i \in DOMAIN upper, upper[i].name = name, ~upper[i].delete,
             ~Has(lower, name)
      PROVE  Shows(merged, name)
  <2>1. i \in Added(lower, upper)
    BY <1>5 DEF Added
  <2> QED
    BY <1>2, <1>5, <2>1 DEF Shows
<1>6. ASSUME NEW i \in DOMAIN upper, upper[i].name = name, upper[i].delete
      PROVE  ~Has(merged, name)
  <2>1. Has(upper, name) /\ Find(upper, name).delete
    BY <1>6, FindIsUnique
  <2>2. \A k \in Kept(lower, upper) : lower[k].name # name
    BY <2>1 DEF Kept
  <2>3. \A k \in Added(lower, upper) : upper[k].name # name
    BY <1>6 DEF Added, UniqueNames
  <2> QED
    BY <1>1, <2>2, <2>3 DEF Has
<1> QED
  BY <1>3, <1>4, <1>5, <1>6 DEF merged, Shows, HasMark

\* The same of the lists that the merge of two layers returns.  Only over an
\* empty list do marks stay, as objects.
LEMMA MergeListMarks ==
    ASSUME NEW kind, NEW lower, NEW upper, WellFormed(lower), WellFormed(upper),
           ContainersOK(kind, lower), ContainersOK(kind, upper), NEW name
    PROVE  LET list == MergeList(kind, lower, upper)
           IN  /\ ContainersOK(kind, list)
               /\ Has(list, name) => Has(lower, name) \/ Has(upper, name)
               /\ Shows(lower, name) /\ ~HasMark(upper, name) => Shows(list, name)
               /\ Shows(upper, name) /\ ~Has(lower, name) => Shows(list, name)
               /\ HasMark(upper, name) /\ lower # <<>> => ~Has(list, name)
<1> DEFINE prepared == Prepared(kind, lower, upper)
           merged == MergeObjects(lower, prepared)
           combined == Combined(kind, lower, prepared)
           list == MergeList(kind, lower, upper)
<1>1. IsList(lower) /\ IsList(upper) /\ UniqueNames(lower) /\ UniqueNames(upper)
  BY DEF WellFormed
<1>2. ContainersOK(kind, list)
  <2> HIDE DEF list
  <2> QED
    BY MergeListContainers DEF ContainersOK, list
<1>3. CASE upper = <<>>
  BY <1>2, <1>3 DEF MergeList, Shows, HasMark
<1>4. CASE upper # <<>> /\ lower = <<>>
  BY <1>2, <1>4 DEF MergeList, Shows, Has, Names
<1>5. CASE upper # <<>> /\ lower # <<>>
  <2>1. ~TooManyContainers(kind, lower, upper)
    <3>1. CASE kind \in {"deploymentConfigs", "statefulSets"}
      BY <1>1, <3>1, ContainersFit DEF ContainersOK
    <3>2. CASE kind \notin {"deploymentConfigs", "statefulSets"}
      BY <3>2 DEF TooManyContainers
    <3> QED
      BY <3>1, <3>2
  <2>2. list = combined
    BY <1>5, <2>1 DEF MergeList
  <2>3. IsList(prepared) /\ UniqueNames(prepared)
    BY <1>1, PreparedKeepsNames
  <2>4. /\ HasMark(upper, name) => HasMark(prepared, name)
        /\ Names(prepared) = Names(upper)
        /\ Shows(upper, name) /\ ~Has(lower, name) => Shows(prepared, name)
        /\ Shows(lower, name) /\ ~HasMark(upper, name) => ~HasMark(prepared, name)
    BY <1>1, PreparedMarks
  <2> HIDE DEF prepared
  <2>5. /\ DOMAIN combined = DOMAIN merged
        /\ \A i \in DOMAIN merged : combined[i] = merged[i]
    BY <1>1, <2>3, CombinedIsMerged
  <2>6. /\ Has(merged, name) => Has(lower, name) \/ Has(prepared, name)
        /\ Shows(lower, name) /\ ~HasMark(prepared, name) => Shows(merged, name)
        /\ Shows(prepared, name) /\ ~Has(lower, name) => Shows(merged, name)
        /\ HasMark(prepared, name) => ~Has(merged, name)
    BY <1>1, <2>3, MergedMarks
  <2> HIDE DEF merged, combined, list
  <2>7. /\ Shows(list, name) <=> Shows(merged, name)
        /\ Has(list, name) <=> Has(merged, name)
    BY <2>2, <2>5 DEF Shows, Has, Names
  <2>8. Has(prepared, name) <=> Has(upper, name)
    BY <2>4 DEF Has
  <2> QED
    BY <1>2, <2>4, <2>6, <2>7, <2>8 DEF list
<1> QED
  BY <1>3, <1>4, <1>5

\* What the layers say of a name.
Brought(kind, stack, name) == \E k \in DOMAIN stack : Has(stack[k].lists[kind], name)
Unmarked(kind, stack, name) == \A k \in DOMAIN stack : ~HasMark(stack[k].lists[kind], name)

\* The k-th layer is the last to mention the name and marks it, above one that
\* brings an object that none marks.
MarkedLast(kind, stack, k, name) ==
    /\ HasMark(stack[k].lists[kind], name)
    /\ \A l \in DOMAIN stack : l > k => ~Has(stack[l].lists[kind], name)
    /\ \E ground : /\ Unmarked(kind, stack, ground)
                   /\ \E l \in DOMAIN stack : l < k /\ Has(stack[l].lists[kind], ground)

\* The list is what these layers, lowest first, amount to.
Layered(kind, list, stack) ==
    /\ ContainersOK(kind, list)
    /\ \A name \in Names(list) : Brought(kind, stack, name)
    /\ \A name : Brought(kind, stack, name) /\ Unmarked(kind, stack, name)
                    => Shows(list, name)
    /\ \A k \in DOMAIN stack : \A name :
          MarkedLast(kind, stack, k, name) => ~Has(list, name)

\* The stack of layers with one more on top.
IsTopped(stack, n, layer, topped) ==
    /\ n \in Nat /\ DOMAIN stack = 1..n /\ DOMAIN topped = 1..n + 1
    /\ \A k \in 1..n : topped[k] = stack[k]
    /\ topped[n + 1] = layer

\* The lowest layer, as it is.
LEMMA FirstLayer ==
    ASSUME NEW kind, NEW layer, ContainersOK(kind, layer.lists[kind])
    PROVE  Layered(kind, layer.lists[kind], <<layer>>)
<1> DEFINE list == layer.lists[kind]
           stack == <<layer>>
<1>1. DOMAIN stack = {1} /\ stack[1] = layer
  OBVIOUS
<1> HIDE DEF stack
<1>2. \A name : Brought(kind, stack, name) <=> Has(list, name)
  BY <1>1 DEF Brought
<1>3. \A name : Unmarked(kind, stack, name) <=> ~HasMark(list, name)
  BY <1>1 DEF Unmarked
<1>4. \A k \in DOMAIN stack : \A name : ~MarkedLast(kind, stack, k, name)
  BY <1>1 DEF MarkedLast
<1> HIDE DEF list
<1>5. \A name : Has(list, name) /\ ~HasMark(list, name) => Shows(list, name)
  BY DEF Has, Names, HasMark, Shows
<1>6. Layered(kind, list, stack)
  BY <1>2, <1>3, <1>4, <1>5 DEF Layered, Has, list
<1> QED
  BY <1>6 DEF list, stack

\* A merge with a layer is that layer on top of those that were there.
LEMMA OneLayerMore ==
    ASSUME NEW kind, NEW list, NEW stack, NEW n, NEW layer, NEW topped,
           IsTopped(stack, n, layer, topped), Layered(kind, list, stack),
           WellFormed(list), WellFormed(layer.lists[kind]),
           ContainersOK(kind, layer.lists[kind])
    PROVE  Layered(kind, MergeList(kind, list, layer.lists[kind]), topped)
<1> DEFINE upper == layer.lists[kind]
           merged == MergeList(kind, list, upper)
<1>1. /\ n \in Nat /\ DOMAIN stack = 1..n /\ DOMAIN topped = 1..n + 1
      /\ \A k \in 1..n : k \in 1..n + 1 /\ topped[k] = stack[k]
      /\ n + 1 \in 1..n + 1 /\ topped[n + 1] = layer
      /\ \A k \in 1..n + 1 : k \in 1..n \/ k = n + 1
  BY DEF IsTopped
<1>2. /\ ContainersOK(kind, list)
      /\ \A name : Has(list, name) => Brought(kind, stack, name)
      /\ \A name : Brought(kind, stack, name) /\ Unmarked(kind, stack, name)
                      => Shows(list, name)
      /\ \A k \in DOMAIN stack : \A name :
            MarkedLast(kind, stack, k, name) => ~Has(list, name)
  BY DEF Layered, Has
<1>3. \A name :
          /\ Brought(kind, topped, name) <=> Brought(kind, stack, name) \/ Has(upper, name)
          /\ Unmarked(kind, topped, name)
                <=> Unmarked(kind, stack, name) /\ ~HasMark(upper, name)
  BY <1>1 DEF Brought, Unmarked
<1>4. ContainersOK(kind, merged)
  BY <1>2, MergeListMarks
<1>5. \A name :
          /\ Has(merged, name) => Has(list, name) \/ Has(upper, name)
          /\ Shows(list, name) /\ ~HasMark(upper, name) => Shows(merged, name)
          /\ Shows(upper, name) /\ ~Has(list, name) => Shows(merged, name)
          /\ HasMark(upper, name) /\ list # <<>> => ~Has(merged, name)
  BY <1>2, MergeListMarks
<1> HIDE DEF merged, upper
<1>6. ASSUME NEW name, Brought(kind, topped, name), Unmarked(kind, topped, name)
      PROVE  Shows(merged, name)
  <2>1. Unmarked(kind, stack, name) /\ ~HasMark(upper, name)
    BY <1>3, <1>6
  <2>2. CASE Brought(kind, stack, name)
    BY <1>2, <1>5, <2>1, <2>2
  <2>3. CASE ~Brought(kind, stack, name)
    <3>1. Has(upper, name) /\ ~Has(list, name)
      BY <1>2, <1>3, <1>6, <2>3
    <3>2. Shows(upper, name)
      BY <2>1, <3>1 DEF Has, Names, HasMark, Shows
    <3> QED
      BY <1>5, <3>1, <3>2
  <2> QED
    BY <2>2, <2>3
<1>7. ASSUME NEW k \in DOMAIN topped, NEW name, MarkedLast(kind, topped, k, name)
      PROVE  ~Has(merged, name)
  <2>1. /\ HasMark(topped[k].lists[kind], name)
        /\ \A l \in 1..n + 1 : l > k => ~Has(topped[l].lists[kind], name)
    BY <1>1, <1>7 DEF MarkedLast
  <2>2. PICK ground : /\ Unmarked(kind, topped, ground)
                      /\ \E l \in DOMAIN topped :
                            l < k /\ Has(topped[l].lists[kind], ground)
    BY <1>7 DEF MarkedLast
  <2>3. PICK l \in 1..n + 1 : l < k /\ Has(topped[l].lists[kind], ground)
    BY <1>1, <2>2
  <2>4. l \in 1..n /\ k \in 1..n + 1
    BY <1>1, <2>3
  <2>5. /\ Has(stack[l].lists[kind], ground) /\ Brought(kind, stack, ground)
        /\ Unmarked(kind, stack, ground)
    BY <1>1, <1>3, <2>2, <2>3, <2>4 DEF Brought
  <2>6. CASE k = n + 1
    <3>1. HasMark(upper, name)
      BY <1>1, <2>1, <2>6 DEF upper
    <3>2. list # <<>>
      BY <1>2, <2>5 DEF Shows
    <3> QED
      BY <1>5, <3>1, <3>2
  <2>7. CASE k \in 1..n
    <3>1. ~Has(upper, name)
      <4>1. n + 1 > k
        BY <1>1, <2>7
      <4> QED
        BY <1>1, <2>1, <4>1 DEF upper
    <3>2. MarkedLast(kind, stack, k, name)
      <4>1. HasMark(stack[k].lists[kind], name)
        BY <1>1, <2>1, <2>7
      <4>2. \A m \in DOMAIN stack : m > k => ~Has(stack[m].lists[kind], name)
        BY <1>1, <2>1
      <4> QED
        BY <1>1, <2>3, <2>4, <2>5, <4>1, <4>2 DEF MarkedLast
    <3>3. ~Has(list, name)
      BY <1>1, <1>2, <2>7, <3>2
    <3> QED
      BY <1>5, <3>1, <3>3
  <2> QED
    BY <1>1, <2>4, <2>6, <2>7
<1>8. \A name \in Names(merged) : Brought(kind, topped, name)
  BY <1>2, <1>3, <1>5 DEF Has
<1>9. Layered(kind, merged, topped)
  BY <1>4, <1>6, <1>7, <1>8 DEF Layered
<1> QED
  BY <1>9 DEF merged, upper

\* Nothing of that depends on the parts of the objects.
LEMMA SameLayered ==
    ASSUME NEW kind, NEW old, NEW new, NEW stack, SameObjects(old, new),
           Layered(kind, old, stack)
    PROVE  Layered(kind, new, stack)
<1>1. \A name : /\ Has(new, name) <=> Has(old, name)
                /\ Shows(new, name) <=> Shows(old, name)
  BY DEF SameObjects, Has, Names, Shows
<1>2. ContainersOK(kind, new)
  BY DEF SameObjects, Layered, ContainersOK, SingleContainer
<1> QED
  BY <1>1, <1>2 DEF Layered, Has

AsLayered(server, stack) ==
    \A kind \in Kinds : Layered(kind, server.lists[kind], stack)

\* All lists of a server with one layer more.
LEMMA ServerTopped ==
    ASSUME NEW lower, NEW upper, NEW stack, NEW n, NEW topped,
           IsTopped(stack, n, upper, topped), AsLayered(lower, stack),
           IsCustomObject(lower), IsCustomObject(upper), Single(upper)
    PROVE  AsLayered(MergeCustomObject(lower, upper), topped)
<1> SUFFICES ASSUME NEW kind \in Kinds
             PROVE  Layered(kind, MergeCustomObject(lower, upper).lists[kind], topped)
  BY DEF AsLayered
<1>1. /\ WellFormed(lower.lists[kind]) /\ WellFormed(upper.lists[kind])
      /\ ContainersOK(kind, upper.lists[kind])
      /\ Layered(kind, lower.lists[kind], stack)
  BY DEF IsCustomObject, Single, AsLayered
<1>2. Layered(kind, MergeList(kind, lower.lists[kind], upper.lists[kind]), topped)
  BY <1>1, OneLayerMore
<1> QED
  BY <1>2 DEF MergeCustomObject

\* Changes to parts do not matter for it.
LEMMA SameAsLayered ==
    ASSUME NEW old, NEW new, NEW stack, SameUpToParts(old, new), AsLayered(old, stack)
    PROVE  AsLayered(new, stack)
BY SameLayered DEF SameUpToParts, AsLayered

\* The layers of a server up to its database.
WithDatabase(i) ==
    BaseLayers(i) \o (IF cr.servers[i].database = NoDatabase THEN <<>>
                      ELSE <<layers.databases[cr.servers[i].database]>>)

\* Those that a server has been merged from when the loops are at "next".
LayersSoFar(i) ==
    IF pc = "router" \/ (pc = "mergeDB" /\ next <= i) THEN BaseLayers(i)
    ELSE IF pc = "mergeDB" \/ (pc = "mergeJms" /\ next <= i) THEN WithDatabase(i)
    ELSE MergedLayers(i)

Layering ==
    SingleContainers /\ pc \in Merging =>
        \A i \in DOMAIN cr.servers : AsLayered(servers[i], LayersSoFar(i))

\* One layer put on top of a stack.
LEMMA Topped ==
    ASSUME NEW S, NEW stack \in Seq(S), NEW layer \in S
    PROVE  IsTopped(stack, Len(stack), layer, stack \o <<layer>>)
BY DEF IsTopped

\* Each merge adds one layer, or none.
LEMMA Stacks ==
    ASSUME NEW i
    PROVE  LET database == cr.servers[i].database
           IN  /\ layers.env = <<>> => BaseLayers(i) = <<layers.common[i]>>
               /\ layers.env # <<>> =>
                    IsTopped(<<layers.common[i]>>, 1, layers.env[i], BaseLayers(i))
               /\ database = NoDatabase => WithDatabase(i) = BaseLayers(i)
               /\ database # NoDatabase =>
                    \E n : IsTopped(BaseLayers(i), n, layers.databases[database],
                                    WithDatabase(i))
               /\ ~UsesJms(i) => MergedLayers(i) = WithDatabase(i)
               /\ UsesJms(i) =>
                    \E n : IsTopped(WithDatabase(i), n, layers.jms, MergedLayers(i))
<1> DEFINE database == cr.servers[i].database
           S == {layers.common[i], layers.env[i], layers.databases[database], layers.jms}
<1>1. \A x, y \in S : <<x, y>> \in Seq(S) /\ <<x>> \in Seq(S)
  OBVIOUS
<1>2. /\ layers.common[i] \in S /\ layers.env[i] \in S
      /\ layers.databases[database] \in S /\ layers.jms \in S
  OBVIOUS
<1> HIDE DEF S
<1>3. /\ layers.env = <<>> => BaseLayers(i) = <<layers.common[i]>>
      /\ layers.env # <<>> =>
            IsTopped(<<layers.common[i]>>, 1, layers.env[i], BaseLayers(i))
  BY DEF BaseLayers, IsTopped
<1>4. BaseLayers(i) \in Seq(S)
  BY <1>1, <1>2 DEF BaseLayers
<1>5. \A list \in Seq(S) : list \o <<>> = list
  OBVIOUS
<1>6. database = NoDatabase => WithDatabase(i) = BaseLayers(i)
  BY <1>4, <1>5 DEF WithDatabase
<1>7. database # NoDatabase =>
          \E n : IsTopped(BaseLayers(i), n, layers.databases[database], WithDatabase(i))
  <2> SUFFICES ASSUME database # NoDatabase
               PROVE  IsTopped(BaseLayers(i), Len(BaseLayers(i)),
                               layers.databases[database], WithDatabase(i))
    OBVIOUS
  <2>1. WithDatabase(i) = BaseLayers(i) \o <<layers.databases[database]>>
    BY DEF WithDatabase
  <2> QED
    BY <1>2, <1>4, <2>1, Topped
<1>8. WithDatabase(i) \in Seq(S)
  <2>1. <<>> \in Seq(S) /\ <<layers.databases[database]>> \in Seq(S)
    BY <1>1, <1>2
  <2> QED
    BY <1>4, <2>1 DEF WithDatabase
<1>9. MergedLayers(i) = WithDatabase(i) \o (IF UsesJms(i) THEN <<layers.jms>> ELSE <<>>)
  BY DEF MergedLayers, WithDatabase, UsesJms
<1>10. ~UsesJms(i) => MergedLayers(i) = WithDatabase(i)
  BY <1>5, <1>8, <1>9
<1>11. UsesJms(i) => \E n : IsTopped(WithDatabase(i), n, layers.jms, MergedLayers(i))
  <2> SUFFICES ASSUME UsesJms(i)
               PROVE  IsTopped(WithDatabase(i), Len(WithDatabase(i)), layers.jms,
                               MergedLayers(i))
    OBVIOUS
  <2>1. MergedLayers(i) = WithDatabase(i) \o <<layers.jms>>
    BY <1>9
  <2> QED
    BY <1>2, <1>8, <2>1, Topped
<1> QED
  BY <1>3, <1>6, <1>7, <1>10, <1>11

\* A server's own layers are those it is merged from, unless it inherits JMS.
LEMMA OwnLayers ==
    ASSUME Given, NEW i \in DOMAIN cr.servers
    PROVE  /\ ~InheritsJms(i) => LayersOf(i) = MergedLayers(i)
           /\ InheritsJms(i) => LayersOf(i) = WithDatabase(i)
<1>1. i \in Nat \ {0}
  BY DEF Given
<1>2. UsesJms(i) <=> cr.servers[i].jms \/ \E j \in 1..i - 1 : cr.servers[j].jms
  <2>1. \A j : j \in 1..i <=> j \in 1..i - 1 \/ j = i
    BY <1>1
  <2> QED
    BY <2>1 DEF UsesJms
<1>3. ~InheritsJms(i) => LayersOf(i) = MergedLayers(i)
  BY <1>2 DEF InheritsJms, LayersOf, MergedLayers
<1>4. ASSUME InheritsJms(i) PROVE LayersOf(i) = WithDatabase(i)
  <2> DEFINE database == cr.servers[i].database
             S == {layers.common[i], layers.env[i], layers.databases[database]}
  <2>1. /\ <<>> \in Seq(S) /\ <<layers.common[i]>> \in Seq(S)
        /\ <<layers.common[i], layers.env[i]>> \in Seq(S)
        /\ <<layers.databases[database]>> \in Seq(S)
    <3>1. \A x, y \in S : <<x, y>> \in Seq(S) /\ <<x>> \in Seq(S)
      OBVIOUS
    <3> QED
      BY <3>1
  <2> HIDE DEF S
  <2>2. BaseLayers(i) \in Seq(S)
    BY <2>1 DEF BaseLayers
  <2>3. WithDatabase(i) \in Seq(S)
    BY <2>1, <2>2 DEF WithDatabase
  <2>4. LayersOf(i) = WithDatabase(i) \o <<>>
    BY <1>4 DEF LayersOf, WithDatabase, InheritsJms
  <2> QED
    BY <2>3, <2>4
<1> QED
  BY <1>3, <1>4

\* findCustomObjectByName finds a server that begins with its own object.
LEMMA OwnIsFound ==
    ASSUME Given, NEW i \in DOMAIN cr.servers, NEW server, NEW layer \in FoundLayers,
           Leads(server.lists["deploymentConfigs"], OwnName(i))
    PROVE  IsFound(server, layer)
<1>1. layers.common[i] \in CommonLayers
  BY DEF Given
<1>2. IsFound(layers.common[i], layer)
  BY <1>1, FoundLayersAssumption DEF FoundLayersAssumption
<1>3. server.lists["deploymentConfigs"] # <<>>
  BY DEF Leads
<1> QED
  BY <1>2, <1>3 DEF IsFound, Leads, OwnName

\* After the first merge: the common layer and the environment's.
LEMMA MergeLayers ==
    ASSUME Given, Progress, Merge, SingleContainers, pc' \in Merging
    PROVE  \A i \in DOMAIN cr.servers : AsLayered(servers'[i], BaseLayers(i))
<1> TAKE i \in DOMAIN cr.servers
<1>1. /\ ~Incompatible(layers.common, layers.env)
      /\ servers' = MergeCustomObjects(layers.common, layers.env)
  BY DEF Merge, Merging
<1>2. AsLayered(layers.common[i], <<layers.common[i]>>)
  BY SingleLayers, FirstLayer DEF Single, AsLayered
<1>3. CASE layers.env = <<>>
  BY <1>1, <1>2, <1>3, Stacks DEF MergeCustomObjects
<1>4. CASE layers.env # <<>>
  <2>1. /\ layers.common # <<>> /\ DOMAIN layers.common = DOMAIN cr.servers
        /\ DOMAIN layers.env = DOMAIN layers.common
    BY <1>1, <1>4 DEF Given, Incompatible
  <2>2. servers'[i] = MergeCustomObject(layers.common[i], layers.env[i])
    BY <1>1, <1>4, <2>1 DEF MergeCustomObjects
  <2>3. IsCustomObject(layers.env[i]) /\ IsCustomObject(layers.common[i])
    BY <2>1, GivenLayers
  <2>4. /\ Single(layers.env[i])
        /\ IsTopped(<<layers.common[i]>>, 1, layers.env[i], BaseLayers(i))
    BY <1>4, SingleLayers, Stacks
  <2> QED
    BY <1>2, <2>2, <2>3, <2>4, ServerTopped
<1> QED
  BY <1>3, <1>4

\* A round of mergeDB puts the database's layer on the server it is at.
LEMMA MergeDBLayers ==
    ASSUME Given, Progress, InFront, Layering, MergeDB, SingleContainers,
           NEW i \in DOMAIN cr.servers
    PROVE  AsLayered(servers'[i], IF i <= next THEN WithDatabase(i) ELSE BaseLayers(i))
<1> DEFINE database == cr.servers[i].database
           layer == layers.databases[database]
<1>1. /\ pc = "mergeDB" /\ pc \in Merging /\ IsCustomObject(servers[i])
      /\ next \in Int /\ i \in Int
  BY DEF MergeDB, Progress, Merging, Given
<1>2. /\ AsLayered(servers[i], LayersSoFar(i))
      /\ LayersSoFar(i) = IF next <= i THEN BaseLayers(i) ELSE WithDatabase(i)
  BY <1>1 DEF Layering, LayersSoFar
<1>3. servers'[i] = IF i = next /\ database # NoDatabase /\ IsFound(servers[i], layer)
                    THEN MergeCustomObject(servers[i], layer) ELSE servers[i]
  BY DBProgress
<1>4. CASE i # next
  <2>1. next <= i <=> ~(i <= next)
    BY <1>1, <1>4
  <2> QED
    BY <1>2, <1>3, <1>4, <2>1
<1>5. CASE i = next /\ database = NoDatabase
  <2>1. WithDatabase(i) = BaseLayers(i)
    BY <1>5, Stacks
  <2> QED
    BY <1>2, <1>3, <1>5, <2>1
<1>6. CASE i = next /\ database # NoDatabase
  <2>1. layer \in FoundLayers /\ IsCustomObject(layer) /\ Single(layer)
    BY <1>6, GivenLayers, SingleLayers
  <2>2. IsFound(servers[i], layer)
    <3>1. Leads(servers[i].lists["deploymentConfigs"], OwnName(i))
      BY <1>1 DEF InFront
    <3> QED
      BY <2>1, <3>1, OwnIsFound
  <2>3. PICK n : IsTopped(BaseLayers(i), n, layer, WithDatabase(i))
    BY <1>6, Stacks
  <2>4. AsLayered(servers[i], BaseLayers(i))
    BY <1>1, <1>2, <1>6
  <2> HIDE DEF layer
  <2>5. AsLayered(MergeCustomObject(servers[i], layer), WithDatabase(i))
    BY <1>1, <2>1, <2>3, <2>4, ServerTopped
  <2> QED
    BY <1>1, <1>3, <1>6, <2>2, <2>5
<1> QED
  BY <1>4, <1>5, <1>6

\* And a round of mergeJms that of JMS, from the first server with JMS on.
LEMMA MergeJmsLayers ==
    ASSUME Given, Progress, InFront, Layering, MergeJms, SingleContainers,
           NEW i \in DOMAIN cr.servers
    PROVE  AsLayered(servers'[i], IF i <= next THEN MergedLayers(i) ELSE WithDatabase(i))
<1>1. /\ pc = "mergeJms" /\ pc \in Merging
      /\ next \in Int /\ i \in Int
  BY DEF MergeJms, Progress, Merging, Given
<1>2. /\ AsLayered(servers[i], LayersSoFar(i))
      /\ LayersSoFar(i) = IF next <= i THEN WithDatabase(i) ELSE MergedLayers(i)
  BY <1>1 DEF Layering, LayersSoFar
<1>3. PICK old :
          /\ IsCustomObject(old) /\ SameUpToParts(servers[i], old)
          /\ servers'[i] = IF i = next /\ UsesJms(i) /\ IsFound(servers[i], layers.jms)
                           THEN MergeCustomObject(old, layers.jms) ELSE old
  BY JmsProgress
<1>4. AsLayered(old, LayersSoFar(i))
  BY <1>2, <1>3, SameAsLayered
<1>5. CASE i # next
  <2>1. next <= i <=> ~(i <= next)
    BY <1>1, <1>5
  <2> QED
    BY <1>2, <1>3, <1>4, <1>5, <2>1
<1>6. CASE i = next /\ ~UsesJms(i)
  <2>1. WithDatabase(i) = MergedLayers(i)
    BY <1>6, Stacks
  <2> QED
    BY <1>2, <1>3, <1>4, <1>6, <2>1
<1>7. CASE i = next /\ UsesJms(i)
  <2>1. layers.jms \in FoundLayers /\ IsCustomObject(layers.jms) /\ Single(layers.jms)
    BY <1>7, GivenLayers, SingleLayers
  <2>2. IsFound(servers[i], layers.jms)
    <3>1. Leads(servers[i].lists["deploymentConfigs"], OwnName(i))
      BY <1>1 DEF InFront
    <3> QED
      BY <2>1, <3>1, OwnIsFound
  <2>3. PICK n : IsTopped(WithDatabase(i), n, layers.jms, MergedLayers(i))
    BY <1>7, Stacks
  <2>4. AsLayered(old, WithDatabase(i))
    BY <1>1, <1>2, <1>4, <1>7
  <2>5. AsLayered(MergeCustomObject(old, layers.jms), MergedLayers(i))
    BY <1>3, <2>1, <2>3, <2>4, ServerTopped
  <2> QED
    BY <1>1, <1>3, <1>7, <2>2, <2>5
<1> QED
  BY <1>5, <1>6, <1>7

\* Every step keeps the servers what their layers so far amount to.
LEMMA LayeringStep == Given /\ Progress /\ InFront /\ Layering /\ [Next]_vars => Layering'
<1> SUFFICES ASSUME Given, Progress, InFront, Layering, [Next]_vars,
                    SingleContainers', pc' \in Merging, NEW i \in DOMAIN cr.servers'
             PROVE  AsLayered(servers'[i], LayersSoFar(i)')
  BY DEF Layering
<1>1. cr' = cr /\ layers' = layers
  BY DEF Next, vars, Merge, RemoveRouterVariables, MergeDB, MergeJms, Consolidate,
         LoadFails
<1>2. /\ BaseLayers(i)' = BaseLayers(i) /\ WithDatabase(i)' = WithDatabase(i)
      /\ \A j : MergedLayers(j)' = MergedLayers(j)
  BY <1>1 DEF MergedLayers, BaseLayers, WithDatabase, UsesJms
<1>3. SingleContainers
  BY <1>1, SameTemplates
<1>4. /\ i \in DOMAIN cr.servers /\ i \in 1..Len(cr.servers) /\ next \in 1..Len(cr.servers)
      /\ Len(cr.servers) \in Nat
  BY <1>1 DEF Given, Progress
<1>5. LayersSoFar(i)' = IF pc' = "router" \/ (pc' = "mergeDB" /\ next' <= i)
                        THEN BaseLayers(i)
                        ELSE IF pc' = "mergeDB" \/ (pc' = "mergeJms" /\ next' <= i)
                        THEN WithDatabase(i) ELSE MergedLayers(i)
  BY <1>2 DEF LayersSoFar
<1>6. pc \in Merging => AsLayered(servers[i], LayersSoFar(i))
  BY <1>3, <1>4 DEF Layering
<1>7. CASE Merge
  <2>1. pc' = "router"
    BY <1>7 DEF Merge, Merging
  <2> QED
    BY <1>3, <1>4, <1>5, <1>7, <2>1, MergeLayers
<1>8. CASE RemoveRouterVariables
  <2>1. pc = "router" /\ pc' = "mergeDB" /\ next' = 1 /\ pc \in Merging
    BY <1>8 DEF RemoveRouterVariables, Progress, Merging
  <2>2. LayersSoFar(i)' = LayersSoFar(i)
    BY <1>4, <1>5, <2>1 DEF LayersSoFar
  <2> QED
    BY <1>4, <1>6, <1>8, <2>1, <2>2, RouterProgress, SameAsLayered
<1>9. CASE MergeDB
  <2>1. pc = "mergeDB"
    BY <1>9 DEF MergeDB
  <2>2. AsLayered(servers'[i], IF i <= next THEN WithDatabase(i) ELSE BaseLayers(i))
    BY <1>3, <1>4, <1>9, MergeDBLayers
  <2>3. /\ next' = (IF next = Len(cr.servers) THEN 1 ELSE next + 1)
        /\ pc' = (IF next = Len(cr.servers) THEN "mergeJms" ELSE pc)
    BY <1>9, DBProgress
  <2>4. LayersSoFar(i)' = IF i <= next THEN WithDatabase(i) ELSE BaseLayers(i)
    BY <1>4, <1>5, <2>1, <2>3
  <2> QED
    BY <2>2, <2>4
<1>10. CASE MergeJms
  <2>1. pc = "mergeJms"
    BY <1>10 DEF MergeJms
  <2>2. AsLayered(servers'[i], IF i <= next THEN MergedLayers(i) ELSE WithDatabase(i))
    BY <1>3, <1>4, <1>10, MergeJmsLayers
  <2>3. /\ next' = (IF next = Len(cr.servers) THEN 1 ELSE next + 1)
        /\ pc' = (IF next = Len(cr.servers) THEN "consolidate" ELSE pc)
    BY <1>10, JmsProgress
  <2>4. LayersSoFar(i)' = IF i <= next THEN MergedLayers(i) ELSE WithDatabase(i)
    BY <1>4, <1>5, <2>1, <2>3
  <2> QED
    BY <2>2, <2>4
<1>11. CASE Consolidate
  <2>1. pc = "consolidate" /\ pc' = "done" /\ pc \in Merging
    BY <1>11 DEF Consolidate, Merging
  <2>2. LayersSoFar(i)' = LayersSoFar(i)
    BY <1>5, <2>1 DEF LayersSoFar
  <2> QED
    BY <1>4, <1>6, <1>11, <2>1, <2>2, ConsolidateProgress, SameAsLayered
<1>12. CASE LoadFails
  BY <1>12 DEF LoadFails, Merging
<1>13. CASE UNCHANGED vars
  BY <1>5, <1>6, <1>13 DEF vars, LayersSoFar
<1> QED
  BY <1>7, <1>8, <1>9, <1>10, <1>11, <1>12, <1>13 DEF Next

\* A set of positions has a highest and a lowest.
LEMMA HighestAndLowest ==
    ASSUME NEW m \in Nat, NEW positions \in SUBSET (1..m), positions # {}
    PROVE  /\ Highest(positions) \in positions
           /\ \A k \in positions : k <= Highest(positions)
           /\ Lowest(positions) \in positions
           /\ \A k \in positions : Lowest(positions) <= k
<1>1. /\ Cardinality(positions) \in Nat
      /\ \A i \in positions : Rank(positions, i) \in 1..Cardinality(positions)
      /\ \A i, j \in positions : i < j => Rank(positions, i) < Rank(positions, j)
      /\ \A n \in 1..Cardinality(positions) : \E i \in positions : n = Rank(positions, i)
  BY Ranks
<1>2. 1 \in 1..Cardinality(positions)
      /\ Cardinality(positions) \in 1..Cardinality(positions)
  <2>1. PICK i \in positions : TRUE
    OBVIOUS
  <2>2. Rank(positions, i) \in 1..Cardinality(positions)
    BY <1>1
  <2> QED
    BY <1>1, <2>2
<1>3. PICK top \in positions : Rank(positions, top) = Cardinality(positions)
  BY <1>1, <1>2
<1>4. \A k \in positions : k <= top
  BY <1>1, <1>3
<1>5. PICK bottom \in positions : Rank(positions, bottom) = 1
  BY <1>1, <1>2
<1>6. \A k \in positions : bottom <= k
  BY <1>1, <1>5
<1> QED
  BY <1>3, <1>4, <1>5, <1>6 DEF Highest, Lowest

\* There are as many names as objects.
LEMMA NamesCount ==
    ASSUME NEW list, IsList(list), UniqueNames(list)
    PROVE  Cardinality(Names(list)) = Len(list)
<1> DEFINE f == [k \in DOMAIN list |-> list[k].name]
<1>1. IsFiniteSet(DOMAIN list) /\ Cardinality(DOMAIN list) = Len(list)
  BY ListIsFinite
<1>2. f \in Bijection(DOMAIN list, Names(list))
  <2>1. f \in [DOMAIN list -> Names(list)]
    BY DEF Names
  <2>2. \A a, b \in DOMAIN list : f[a] = f[b] => a = b
    BY DEF UniqueNames
  <2>3. \A name \in Names(list) : \E k \in DOMAIN list : f[k] = name
    BY DEF Names
  <2> HIDE DEF f
  <2> QED
    BY <2>1, <2>2, <2>3 DEF Bijection, Surjection, Injection, IsInjective
<1>3. ExistsBijection(DOMAIN list, Names(list))
  BY <1>2 DEF ExistsBijection
<1> QED
  BY <1>1, <1>3, FS_Bijection

\* The layers of a server, as they are given.
LEMMA LayersShape ==
    ASSUME Given, NEW i \in DOMAIN cr.servers
    PROVE  /\ \E m \in Nat : DOMAIN LayersOf(i) = 1..m
           /\ \A k \in DOMAIN LayersOf(i) : IsCustomObject(LayersOf(i)[k])
<1> DEFINE Good(stack) == /\ \E m \in Nat : DOMAIN stack = 1..m
                          /\ \A k \in DOMAIN stack : IsCustomObject(stack[k])
           database == cr.servers[i].database
<1>1. ASSUME NEW stack, NEW n, NEW layer, NEW topped, IsTopped(stack, n, layer, topped),
             Good(stack), IsCustomObject(layer)
      PROVE  Good(topped)
  <2>1. n + 1 \in Nat /\ \A k \in 1..n + 1 : k \in 1..n \/ k = n + 1
    BY <1>1 DEF IsTopped
  <2> QED
    BY <1>1, <2>1 DEF IsTopped
<1>2. Good(<<layers.common[i]>>)
  BY GivenLayers
<1> HIDE DEF Good
<1>3. Good(BaseLayers(i))
  <2>1. layers.env # <<>> => IsCustomObject(layers.env[i])
    BY GivenLayers DEF Given
  <2> QED
    BY <1>1, <1>2, <2>1, Stacks
<1>4. Good(WithDatabase(i))
  <2>1. database # NoDatabase => IsCustomObject(layers.databases[database])
    BY GivenLayers
  <2> QED
    BY <1>1, <1>3, <2>1, Stacks
<1>5. Good(MergedLayers(i))
  BY <1>1, <1>4, GivenLayers, Stacks
<1>6. Good(LayersOf(i))
  BY <1>4, <1>5, OwnLayers
<1> QED
  BY <1>6 DEF Good

\* The properties' words for marks and mentions, and those of the proof.
LEMMA MarksAndMentions ==
    ASSUME Given, NEW i \in DOMAIN cr.servers, NEW kind \in Kinds, NEW name
    PROVE  LET stack == LayersOf(i)
           IN  /\ Mentions(i, kind, name) # {} <=> Brought(kind, stack, name)
               /\ name \in ObjectNames(i, kind) <=> Brought(kind, stack, name)
               /\ \A k : k \in Marks(i, kind, name)
                            <=> k \in DOMAIN stack /\ HasMark(stack[k].lists[kind], name)
               /\ Marks(i, kind, name) = {} <=> Unmarked(kind, stack, name)
<1> DEFINE stack == LayersOf(i)
<1>1. ASSUME NEW k \in DOMAIN stack
      PROVE  HasMark(stack[k].lists[kind], name)
               <=> /\ Has(stack[k].lists[kind], name)
                   /\ Find(stack[k].lists[kind], name).delete
  <2> DEFINE list == stack[k].lists[kind]
  <2>1. IsList(list) /\ UniqueNames(list)
    BY <1>1, LayersShape DEF IsCustomObject, WellFormed
  <2> HIDE DEF list
  <2>2. \A n \in DOMAIN list : Has(list, list[n].name) /\ Find(list, list[n].name) = list[n]
    BY <2>1, FindIsUnique
  <2>3. HasMark(list, name) <=> Has(list, name) /\ Find(list, name).delete
    BY <2>2 DEF HasMark, Has, Names
  <2> QED
    BY <2>3 DEF list
<1>2. \A k : k \in Marks(i, kind, name)
              <=> k \in DOMAIN stack /\ HasMark(stack[k].lists[kind], name)
  BY <1>1 DEF Marks, Mentions, ObjectIn
<1>3. Mentions(i, kind, name) # {} <=> Brought(kind, stack, name)
  BY DEF Mentions, Brought
<1>4. name \in ObjectNames(i, kind) <=> Brought(kind, stack, name)
  BY DEF ObjectNames, Brought, Has
<1>5. Marks(i, kind, name) = {} <=> Unmarked(kind, stack, name)
  BY <1>2 DEF Unmarked
<1> QED
  BY <1>2, <1>3, <1>4, <1>5

\* A list that is what its layers amount to has the objects it should have.
LEMMA LayeredObjects ==
    ASSUME Given, NEW i \in DOMAIN cr.servers, NEW kind \in Kinds, NEW list,
           WellFormed(list), Layered(kind, list, LayersOf(i))
    PROVE  /\ Cardinality(Names(list)) = Len(list)
           /\ Names(list) \subseteq ObjectNames(i, kind)
           /\ \A name \in ObjectNames(i, kind) :
                 LET last == Highest(Mentions(i, kind, name))
                 IN  /\ Marks(i, kind, name) = {} => name \in Names(list)
                     /\ (last \in Marks(i, kind, name) /\ HasGround(i, kind, last))
                           => name \notin Names(list)
<1> DEFINE stack == LayersOf(i)
<1>1. Cardinality(Names(list)) = Len(list)
  BY NamesCount DEF WellFormed
<1>2. /\ \A name \in Names(list) : Brought(kind, stack, name)
      /\ \A name : Brought(kind, stack, name) /\ Unmarked(kind, stack, name)
                      => Shows(list, name)
      /\ \A k \in DOMAIN stack : \A name :
            MarkedLast(kind, stack, k, name) => ~Has(list, name)
  BY DEF Layered
<1>3. Names(list) \subseteq ObjectNames(i, kind)
  BY <1>2, MarksAndMentions
<1>4. PICK m \in Nat : DOMAIN stack = 1..m
  BY LayersShape
<1>5. \A name : Mentions(i, kind, name) \in SUBSET (1..m)
  BY <1>4 DEF Mentions
<1>6. ASSUME NEW name \in ObjectNames(i, kind), Marks(i, kind, name) = {}
      PROVE  name \in Names(list)
  <2>1. Shows(list, name)
    BY <1>2, <1>6, MarksAndMentions
  <2> QED
    BY <2>1 DEF Shows, Names
<1>7. ASSUME NEW name \in ObjectNames(i, kind),
             Highest(Mentions(i, kind, name)) \in Marks(i, kind, name),
             HasGround(i, kind, Highest(Mentions(i, kind, name)))
      PROVE  name \notin Names(list)
  <2> DEFINE last == Highest(Mentions(i, kind, name))
  <2>1. Mentions(i, kind, name) # {}
    BY <1>7, MarksAndMentions
  <2>2. last \in Mentions(i, kind, name) /\ \A k \in Mentions(i, kind, name) : k <= last
    BY <1>5, <2>1, HighestAndLowest
  <2>3. last \in DOMAIN stack /\ HasMark(stack[last].lists[kind], name)
    BY <1>7, MarksAndMentions
  <2>4. PICK ground \in ObjectNames(i, kind) :
            /\ Marks(i, kind, ground) = {}
            /\ Lowest(Mentions(i, kind, ground)) < last
    BY <1>7 DEF HasGround
  <2>5. Unmarked(kind, stack, ground) /\ Mentions(i, kind, ground) # {}
    BY <2>4, MarksAndMentions
  <2>6. Lowest(Mentions(i, kind, ground)) \in Mentions(i, kind, ground)
    BY <1>5, <2>5, HighestAndLowest
  <2> HIDE DEF last
  <2>7. \E l \in DOMAIN stack : l < last /\ Has(stack[l].lists[kind], ground)
    BY <2>4, <2>6 DEF Mentions
  <2>8. \A l \in DOMAIN stack : l > last => ~Has(stack[l].lists[kind], name)
    <3> TAKE l \in DOMAIN stack
    <3> HAVE l > last
    <3>1. l \notin Mentions(i, kind, name)
      BY <1>4, <2>2, <2>3
    <3> QED
      BY <3>1 DEF Mentions
  <2>9. MarkedLast(kind, stack, last, name)
    BY <2>3, <2>5, <2>7, <2>8 DEF MarkedLast
  <2> QED
    BY <1>2, <2>3, <2>9 DEF Has
<1> QED
  BY <1>1, <1>3, <1>6, <1>7

\* What a server ends up with, for any templates, servers and number of objects:
\* every object that a layer it asks for brings and none marks, once, no other, and
\* none that the last layer to name it marks as deleted.  A server without JMS
\* behind one with it is left out, as ObjectsAsLayered says: it gets a broker.
THEOREM ObjectsComeFromLayers == Spec => []ObjectsAsLayered
<1> DEFINE IInv == Given /\ Progress /\ InFront /\ Layering
<1>1. Init => IInv
  <2>1. Init => InFront /\ Layering
    BY DEF Init, InFront, Layering, Merging
  <2> QED
    BY <2>1, GivenAtFirst, ProgressAtFirst
<1>2. IInv /\ [Next]_vars => IInv'
  BY GivenStays, ProgressStep, FrontStep, LayeringStep
<1>3. IInv => ObjectsAsLayered
  <2> SUFFICES ASSUME Given, Progress, Layering, SingleContainers, pc = "done",
                      NEW i \in DOMAIN servers, NEW kind \in Kinds, ~InheritsJms(i)
               PROVE  LET list == servers[i].lists[kind]
                      IN  /\ Cardinality(Names(list)) = Len(list)
                          /\ Names(list) \subseteq ObjectNames(i, kind)
                          /\ \A name \in ObjectNames(i, kind) :
                                LET last == Highest(Mentions(i, kind, name))
                                IN  /\ Marks(i, kind, name) = {} => name \in Names(list)
                                    /\ (last \in Marks(i, kind, name)
                                          /\ HasGround(i, kind, last))
                                          => name \notin Names(list)
    BY DEF ObjectsAsLayered
  <2>1. i \in DOMAIN cr.servers /\ WellFormed(servers[i].lists[kind])
    BY DEF Progress, Merging, IsCustomObject
  <2>2. Layered(kind, servers[i].lists[kind], MergedLayers(i))
    BY <2>1 DEF Layering, LayersSoFar, Merging, AsLayered
  <2>3. Layered(kind, servers[i].lists[kind], LayersOf(i))
    BY <2>1, <2>2, OwnLayers
  <2> QED
    BY <2>1, <2>3, LayeredObjects
<1> QED
  BY <1>1, <1>2, <1>3, PTL DEF Spec

-----------------------------------------------------------------------------
(* The items of a part: lists of variables, and how recursion goes over them. *)

\* The list has an item of that name and value that can be matched.
HasItem(kind, part, list, name, value) ==
    \E k \in DOMAIN list : /\ list[k].name = name /\ list[k].value = value
                           /\ ~StandsAlone(kind, part, list[k])

HasNamed(kind, part, list, name) == \E value : HasItem(kind, part, list, name, value)

\* A list with one item more.
LEMMA Appended ==
    ASSUME NEW list, IsItems(list), NEW item
    PROVE  LET longer == Append(list, item)
           IN  /\ IsItems(longer)
               /\ DOMAIN list = 1..Len(list)
               /\ Len(longer) = Len(list) + 1 /\ DOMAIN longer = 1..Len(list) + 1
               /\ \A n \in DOMAIN list : longer[n] = list[n]
               /\ longer[Len(list) + 1] = item
<1> DEFINE S == {list[n] : n \in DOMAIN list} \cup {item}
<1>1. DOMAIN list = 1..Len(list) /\ Len(list) \in Nat
  BY DEF IsItems
<1>2. list \in [1..Len(list) -> S]
  BY <1>1 DEF IsItems
<1>3. list \in Seq(S)
  BY <1>1, <1>2
<1>4. item \in S
  OBVIOUS
<1> HIDE DEF S
<1>5. PICK longer : longer = Append(list, item)
  OBVIOUS
<1>6. longer \in Seq(S)
  BY <1>3, <1>4, <1>5
<1>7. /\ Len(longer) = Len(list) + 1
      /\ \A n \in 1..Len(list) : longer[n] = list[n]
      /\ longer[Len(list) + 1] = item
  BY <1>3, <1>4, <1>5
<1>8. Len(longer) \in Nat /\ DOMAIN longer = 1..Len(longer)
      /\ longer = [n \in 1..Len(longer) |-> longer[n]]
  BY <1>6
<1> QED
  BY <1>1, <1>5, <1>7, <1>8 DEF IsItems

\* It has the items it had, and that one.
LEMMA AppendedItem ==
    ASSUME NEW list, IsItems(list), NEW item, NEW kind, NEW part, NEW name, NEW value
    PROVE  HasItem(kind, part, Append(list, item), name, value)
              <=> \/ HasItem(kind, part, list, name, value)
                  \/ /\ item.name = name /\ item.value = value
                     /\ ~StandsAlone(kind, part, item)
<1>1. PICK longer : longer = Append(list, item)
  OBVIOUS
<1>2. /\ DOMAIN list = 1..Len(list) /\ Len(list) \in Nat
      /\ DOMAIN longer = 1..Len(list) + 1
      /\ \A n \in DOMAIN list : longer[n] = list[n]
      /\ longer[Len(list) + 1] = item
  BY <1>1, Appended DEF IsItems
<1>3. /\ \A k \in DOMAIN list : k \in DOMAIN longer
      /\ Len(list) + 1 \in DOMAIN longer
      /\ \A k \in DOMAIN longer : k \in DOMAIN list \/ k = Len(list) + 1
  BY <1>2
<1>4. ASSUME HasItem(kind, part, longer, name, value)
      PROVE  \/ HasItem(kind, part, list, name, value)
             \/ /\ item.name = name /\ item.value = value
                /\ ~StandsAlone(kind, part, item)
  <2>1. PICK k \in DOMAIN longer : /\ longer[k].name = name /\ longer[k].value = value
                                   /\ ~StandsAlone(kind, part, longer[k])
    BY <1>4 DEF HasItem
  <2>2. CASE k \in DOMAIN list
    BY <1>2, <2>1, <2>2 DEF HasItem
  <2>3. CASE k = Len(list) + 1
    BY <1>2, <2>1, <2>3
  <2> QED
    BY <1>3, <2>2, <2>3
<1>5. ASSUME HasItem(kind, part, list, name, value)
      PROVE  HasItem(kind, part, longer, name, value)
  BY <1>2, <1>3, <1>5 DEF HasItem
<1>6. ASSUME item.name = name, item.value = value, ~StandsAlone(kind, part, item)
      PROVE  HasItem(kind, part, longer, name, value)
  BY <1>2, <1>3, <1>6 DEF HasItem
<1> QED
  BY <1>1, <1>4, <1>5, <1>6

\* A variable stands for every other of its name.
LEMMA VariableSet ==
    ASSUME NEW kind, NEW list, IsPart(kind, "env", list), NEW variable
    PROVE  LET set == SetVariable(list, variable)
           IN  /\ IsPart(kind, "env", set)
               /\ \A name, value :
                     HasItem(kind, "env", set, name, value)
                        <=> IF name = variable.name THEN value = variable.value
                            ELSE HasItem(kind, "env", list, name, value)
<1>1. /\ IsItems(list) /\ Len(list) \in Nat /\ DOMAIN list = 1..Len(list)
      /\ \A i, j \in DOMAIN list : list[i].name = list[j].name => i = j
  BY DEF IsPart, IsItems, StandsAlone
<1>2. \A set, name, value :
         HasItem(kind, "env", set, name, value)
            <=> \E k \in DOMAIN set : set[k].name = name /\ set[k].value = value
  BY DEF HasItem, StandsAlone
<1>3. \A set : IsItems(set) /\ (\A i, j \in DOMAIN set : set[i].name = set[j].name => i = j)
                  => IsPart(kind, "env", set)
  BY DEF IsPart
<1>4. PICK set : set = SetVariable(list, variable)
  OBVIOUS
<1>5. CASE Has(list, variable.name)
  <2>1. PICK k \in DOMAIN list : list[k].name = variable.name
    BY <1>5 DEF Has, Names
  <2>2. set = [i \in 1..Len(list) |-> IF i = k THEN variable ELSE list[i]]
    <3>1. set = [i \in DOMAIN list |->
                    IF /\ list[i].name = variable.name
                       /\ \A j \in 1..i - 1 : list[j].name # variable.name
                    THEN variable ELSE list[i]]
      BY <1>4, <1>5 DEF SetVariable
    <3>2. \A i \in DOMAIN list :
             (/\ list[i].name = variable.name
              /\ \A j \in 1..i - 1 : list[j].name # variable.name) <=> i = k
      BY <1>1, <2>1
    <3> QED
      BY <1>1, <3>1, <3>2
  <2>3. IsItems(set)
    BY <1>1, <2>2 DEF IsItems
  <2>4. /\ DOMAIN set = DOMAIN list
        /\ \A i \in DOMAIN list : set[i] = IF i = k THEN variable ELSE list[i]
    BY <1>1, <2>2
  <2> HIDE <2>2
  <2>5. \A i, j \in DOMAIN set : set[i].name = set[j].name => i = j
    BY <1>1, <2>1, <2>4
  <2>6. ASSUME NEW name, NEW value
        PROVE  (\E i \in DOMAIN set : set[i].name = name /\ set[i].value = value)
                  <=> IF name = variable.name THEN value = variable.value
                      ELSE \E i \in DOMAIN list : list[i].name = name /\ list[i].value = value
    BY <1>1, <2>1, <2>4
  <2>7. IsPart(kind, "env", set)
    BY <1>3, <2>3, <2>5
  <2>8. ASSUME NEW name, NEW value
        PROVE  HasItem(kind, "env", set, name, value)
                  <=> IF name = variable.name THEN value = variable.value
                      ELSE HasItem(kind, "env", list, name, value)
    BY <1>2, <2>6
  <2> QED
    BY <1>4, <2>7, <2>8
<1>6. CASE ~Has(list, variable.name)
  <2>1. \A i \in DOMAIN list : list[i].name # variable.name
    BY <1>6 DEF Has, Names
  <2>2. set = Append(list, variable)
    BY <1>4, <1>6 DEF SetVariable
  <2>3. /\ IsItems(set) /\ DOMAIN set = 1..Len(list) + 1
        /\ \A n \in DOMAIN list : set[n] = list[n]
        /\ set[Len(list) + 1] = variable
    BY <1>1, <2>2, Appended
  <2>4. \A i, j \in DOMAIN set : set[i].name = set[j].name => i = j
    BY <1>1, <2>1, <2>3
  <2>5. ASSUME NEW name, NEW value
        PROVE  HasItem(kind, "env", set, name, value)
                  <=> IF name = variable.name THEN value = variable.value
                      ELSE HasItem(kind, "env", list, name, value)
    <3>1. HasItem(kind, "env", set, name, value)
             <=> \/ HasItem(kind, "env", list, name, value)
                 \/ /\ variable.name = name /\ variable.value = value
                    /\ ~StandsAlone(kind, "env", variable)
      BY <1>1, <2>2, AppendedItem
    <3>2. ~StandsAlone(kind, "env", variable)
      BY DEF StandsAlone
    <3>3. ~HasItem(kind, "env", list, variable.name, value)
      BY <1>2, <2>1
    <3> QED
      BY <3>1, <3>2, <3>3
  <2> QED
    BY <1>3, <1>4, <2>3, <2>4, <2>5
<1> QED
  BY <1>5, <1>6

\* Induction up to a bound, for a set of numbers: the least number it lacks would
\* follow one it has.
LEMMA UpTo ==
    ASSUME NEW m \in Nat, NEW good, 0 \in good,
           \A n \in 1..m : n - 1 \in good => n \in good
    PROVE  \A n \in 0..m : n \in good
<1> DEFINE bad == {n \in 1..m : n \notin good}
<1>1. SUFFICES ASSUME bad # {} PROVE FALSE
  OBVIOUS
<1>2. bad \in SUBSET (1..m)
  OBVIOUS
<1>3. PICK least : least = Lowest(bad)
  OBVIOUS
<1>4. least \in bad /\ \A k \in bad : least <= k
  <2> HIDE DEF bad
  <2> QED BY <1>1, <1>2, <1>3, HighestAndLowest
<1>5. least - 1 \in good
  <2>1. CASE least = 1
    BY <2>1
  <2>2. CASE least # 1
    <3>1. least - 1 \in 1..m /\ ~(least <= least - 1)
      BY <1>4, <2>2
    <3> QED
      BY <1>4, <3>1
  <2> QED
    BY <2>1, <2>2
<1> QED
  BY <1>4, <1>5

\* What EnvOverride does with a variable, and MergeItems with an item.
Grown(kind, part, list, item) ==
    IF \E i \in DOMAIN list : SameItem(kind, part, list[i], item) THEN list
    ELSE Append(list, item)

Step(kind, part, list, item) ==
    IF part = "env" THEN SetVariable(list, item) ELSE Grown(kind, part, list, item)

\* The lists they go through.
Runs(f, k, kind, part, base, items) ==
    /\ DOMAIN f = 0..k /\ f[0] = base
    /\ \A n \in 1..k : f[n] = Step(kind, part, f[n - 1], items[n])

\* Taking one item after the other goes through some lists.
LEMMA RunsExist ==
    ASSUME NEW m \in Nat, NEW kind, NEW part, NEW base, NEW items
    PROVE  \E f : Runs(f, m, kind, part, base, items)
<1> DEFINE good == {k \in 0..m : \E f : Runs(f, k, kind, part, base, items)}
<1>1. 0 \in good
  <2>1. PICK f : f = [n \in 0..0 |-> base]
    OBVIOUS
  <2>2. Runs(f, 0, kind, part, base, items)
    BY <2>1 DEF Runs
  <2> QED
    BY <2>2
<1>2. ASSUME NEW n \in 1..m, n - 1 \in good PROVE n \in good
  <2>1. PICK f : Runs(f, n - 1, kind, part, base, items)
    BY <1>2
  <2>2. PICK g : g = [k \in 0..n |-> IF k = n THEN Step(kind, part, f[n - 1], items[n])
                                     ELSE f[k]]
    OBVIOUS
  <2>3. Runs(g, n, kind, part, base, items)
    <3>1. DOMAIN g = 0..n
      BY <2>2
    <3>2. g[0] = base
      BY <2>1, <2>2 DEF Runs
    <3>3. ASSUME NEW k \in 1..n PROVE g[k] = Step(kind, part, g[k - 1], items[k])
      <4>1. CASE k = n
        BY <2>1, <2>2, <4>1
      <4>2. CASE k # n
        <5>1. k \in 1..n - 1 /\ k - 1 \in 0..n /\ k \in 0..n /\ k - 1 # n
          BY <4>2
        <5> QED
          BY <2>1, <2>2, <4>2, <5>1 DEF Runs
      <4> QED
        BY <4>1, <4>2
    <3> QED
      BY <3>1, <3>2, <3>3 DEF Runs
  <2> QED
    BY <2>3
<1>3. \A n \in 0..m : n \in good
  <2> HIDE DEF good
  <2> QED BY <1>1, <1>2, UpTo
<1> QED
  BY <1>3

\* The recursive function in EnvOverride is such a run.
LEMMA EnvOverrideRuns ==
    ASSUME NEW kind, NEW dst, NEW src, Len(src) \in Nat
    PROVE  \E f : /\ Runs(f, Len(src), kind, "env", dst, src)
                  /\ EnvOverride(dst, src) = f[Len(src)]
<1> DEFINE Equation(f) ==
               f = [n \in 0..Len(src) |->
                       IF n = 0 THEN dst ELSE SetVariable(f[n - 1], src[n])]
           list == CHOOSE f : Equation(f)
<1>1. PICK g : Runs(g, Len(src), kind, "env", dst, src)
  BY RunsExist
<1>2. PICK h : h = [n \in 0..Len(src) |-> g[n]]
  OBVIOUS
<1>3. Equation(h)
  BY <1>1, <1>2 DEF Runs, Step
<1>4. Equation(list)
  <2> HIDE DEF Equation
  <2> QED BY <1>3
<1>5. EnvOverride(dst, src) = list[Len(src)]
  BY DEF EnvOverride
<1> HIDE DEF list
<1>6. Runs(list, Len(src), kind, "env", dst, src)
  BY <1>4 DEF Runs, Step
<1> QED
  BY <1>5, <1>6

\* So is the one in MergeItems.
LEMMA MergeItemsRuns ==
    ASSUME NEW kind, NEW part, part # "env", NEW lower, NEW upper, Len(upper) \in Nat
    PROVE  \E f : /\ Runs(f, Len(upper), kind, part, Overlaid(kind, part, lower, upper),
                          upper)
                  /\ MergeItems(kind, part, lower, upper) = f[Len(upper)]
<1> DEFINE base == Overlaid(kind, part, lower, upper)
           Equation(f) ==
               f = [n \in 0..Len(upper) |->
                       IF n = 0 THEN Overlaid(kind, part, lower, upper)
                       ELSE IF \E i \in DOMAIN f[n - 1] :
                                  SameItem(kind, part, f[n - 1][i], upper[n])
                            THEN f[n - 1]
                            ELSE Append(f[n - 1], upper[n])]
           list == CHOOSE f : Equation(f)
<1>1. PICK g : Runs(g, Len(upper), kind, part, base, upper)
  BY RunsExist
<1>2. PICK h : h = [n \in 0..Len(upper) |-> g[n]]
  OBVIOUS
<1>3. Equation(h)
  <2>1. h = [n \in 0..Len(upper) |->
               IF n = 0 THEN base ELSE Grown(kind, part, h[n - 1], upper[n])]
    <3> HIDE DEF base
    <3> QED BY <1>1, <1>2 DEF Runs, Step
  <2> QED
    BY <2>1 DEF Grown
<1>4. Equation(list)
  <2> HIDE DEF Equation
  <2> QED BY <1>3
<1>5. MergeItems(kind, part, lower, upper) = list[Len(upper)]
  BY DEF MergeItems
<1>6. list = [n \in 0..Len(upper) |->
                IF n = 0 THEN base ELSE Grown(kind, part, list[n - 1], upper[n])]
  <2> HIDE DEF list
  <2> QED BY <1>4 DEF Grown
<1> HIDE DEF list, base
<1>7. Runs(list, Len(upper), kind, part, base, upper)
  BY <1>6 DEF Runs, Step
<1> QED
  BY <1>5, <1>7 DEF base

\* Among the first k items, that of the value is the last of the name.
LastIs(items, k, name, value) ==
    \E j \in 1..k : /\ items[j].name = name /\ items[j].value = value
                    /\ \A l \in j + 1..k : items[l].name # name

\* What EnvOverride returns, for lists of any length: the last value that the
\* second list gives a name, or the value that the first one has.
LEMMA VariablesOverridden ==
    ASSUME NEW kind, NEW dst, IsPart(kind, "env", dst), NEW src, IsItems(src)
    PROVE  LET list == EnvOverride(dst, src)
           IN  /\ IsPart(kind, "env", list)
               /\ \A name, value :
                     HasItem(kind, "env", list, name, value)
                        <=> \/ LastIs(src, Len(src), name, value)
                            \/ /\ HasItem(kind, "env", dst, name, value)
                               /\ \A j \in 1..Len(src) : src[j].name # name
<1>1. Len(src) \in Nat
  BY DEF IsItems
<1>2. PICK f : /\ Runs(f, Len(src), kind, "env", dst, src)
               /\ EnvOverride(dst, src) = f[Len(src)]
  BY <1>1, EnvOverrideRuns
<1> DEFINE Holds(k) ==
               /\ IsPart(kind, "env", f[k])
               /\ \A name, value :
                     HasItem(kind, "env", f[k], name, value)
                        <=> \/ LastIs(src, k, name, value)
                            \/ /\ HasItem(kind, "env", dst, name, value)
                               /\ \A j \in 1..k : src[j].name # name
           good == {k \in 0..Len(src) : Holds(k)}
<1>3. Holds(0)
  BY <1>2 DEF Runs, LastIs
<1>4. ASSUME NEW n \in 1..Len(src), Holds(n - 1) PROVE Holds(n)
  <2>1. f[n] = SetVariable(f[n - 1], src[n])
    BY <1>2 DEF Runs, Step
  <2>2. /\ IsPart(kind, "env", f[n])
        /\ \A name, value :
              HasItem(kind, "env", f[n], name, value)
                 <=> IF name = src[n].name THEN value = src[n].value
                     ELSE HasItem(kind, "env", f[n - 1], name, value)
    BY <1>4, <2>1, VariableSet
  <2>3. /\ n \in Nat /\ n - 1 \in Nat /\ n \in 1..n
        /\ \A j \in 1..n : j \in 1..n - 1 \/ j = n
        /\ \A j \in 1..n - 1 : j \in 1..n /\ n \in j + 1..n
        /\ \A j \in 1..n - 1 : \A l \in j + 1..n : l \in j + 1..n - 1 \/ l = n
        /\ \A j \in 1..n - 1 : \A l \in j + 1..n - 1 : l \in j + 1..n
        /\ \A l \in n + 1..n : FALSE
    OBVIOUS
  <2>4. ASSUME NEW name, NEW value
        PROVE  LastIs(src, n, name, value)
                  <=> IF name = src[n].name THEN value = src[n].value
                      ELSE LastIs(src, n - 1, name, value)
    <3>1. CASE name = src[n].name
      <4>1. ASSUME value = src[n].value PROVE LastIs(src, n, name, value)
        BY <2>3, <3>1, <4>1 DEF LastIs
      <4>2. ASSUME LastIs(src, n, name, value) PROVE value = src[n].value
        BY <2>3, <3>1, <4>2 DEF LastIs
      <4> QED
        BY <3>1, <4>1, <4>2
    <3>2. CASE name # src[n].name
      <4>1. ASSUME LastIs(src, n, name, value) PROVE LastIs(src, n - 1, name, value)
        BY <2>3, <3>2, <4>1 DEF LastIs
      <4>2. ASSUME LastIs(src, n - 1, name, value) PROVE LastIs(src, n, name, value)
        <5>1. PICK j \in 1..n - 1 : /\ src[j].name = name /\ src[j].value = value
                                    /\ \A l \in j + 1..n - 1 : src[l].name # name
          BY <4>2 DEF LastIs
        <5>2. \A l \in j + 1..n : src[l].name # name
          <6> SUFFICES ASSUME NEW l \in j + 1..n PROVE src[l].name # name
            OBVIOUS
          <6>1. l \in j + 1..n - 1 \/ l = n
            BY <2>3
          <6> QED
            BY <3>2, <5>1, <6>1
        <5>3. j \in 1..n
          BY <2>3
        <5> QED
          BY <5>1, <5>2, <5>3 DEF LastIs
      <4> QED
        BY <3>2, <4>1, <4>2
    <3> QED
      BY <3>1, <3>2
  <2>5. ASSUME NEW name
        PROVE  (\A j \in 1..n : src[j].name # name)
                  <=> (\A j \in 1..n - 1 : src[j].name # name) /\ src[n].name # name
    BY <2>3
  <2>6. ASSUME NEW name, NEW value
        PROVE  HasItem(kind, "env", f[n], name, value)
                  <=> \/ LastIs(src, n, name, value)
                      \/ /\ HasItem(kind, "env", dst, name, value)
                         /\ \A j \in 1..n : src[j].name # name
    <3>1. CASE name = src[n].name
      BY <2>2, <2>4, <2>5, <3>1
    <3>2. CASE name # src[n].name
      BY <1>4, <2>2, <2>4, <2>5, <3>2
    <3> QED
      BY <3>1, <3>2
  <2> QED
    BY <2>2, <2>6
<1>5. Len(src) \in good
  <2>1. 0 \in good /\ \A n \in 1..Len(src) : n - 1 \in good => n \in good
    <3> HIDE DEF Holds
    <3> QED BY <1>1, <1>3, <1>4
  <2>2. Len(src) \in 0..Len(src)
    BY <1>1
  <2> HIDE DEF good
  <2>3. \A n \in 0..Len(src) : n \in good
    BY <1>1, <2>1, UpTo
  <2> QED
    BY <2>2, <2>3
<1> QED
  BY <1>2, <1>5

-----------------------------------------------------------------------------
(* Triggers, mounts and volumes. *)

\* An item of a new name, or one that matches none, leaves names unique.
LEMMA AppendedPart ==
    ASSUME NEW kind, NEW part, NEW list, IsPart(kind, part, list), NEW item,
           HasNamed(kind, part, list, item.name) => StandsAlone(kind, part, item)
    PROVE  IsPart(kind, part, Append(list, item))
<1>1. PICK longer : longer = Append(list, item)
  OBVIOUS
<1>2. /\ IsItems(list) /\ DOMAIN list = 1..Len(list) /\ Len(list) \in Nat
      /\ IsItems(longer) /\ DOMAIN longer = 1..Len(list) + 1
      /\ \A n \in DOMAIN list : longer[n] = list[n]
      /\ longer[Len(list) + 1] = item
  BY <1>1, Appended DEF IsPart, IsItems
<1>3. \A k \in DOMAIN longer : k \in DOMAIN list \/ k = Len(list) + 1
  BY <1>2
<1>4. ASSUME NEW k \in DOMAIN list, list[k].name = item.name,
             ~StandsAlone(kind, part, list[k])
      PROVE  StandsAlone(kind, part, item)
  BY <1>4 DEF HasNamed, HasItem
<1>5. ASSUME NEW i \in DOMAIN longer, NEW j \in DOMAIN longer,
             longer[i].name = longer[j].name,
             ~StandsAlone(kind, part, longer[i]), ~StandsAlone(kind, part, longer[j])
      PROVE  i = j
  <2>1. CASE i \in DOMAIN list /\ j \in DOMAIN list
    BY <1>2, <1>5, <2>1 DEF IsPart
  <2>2. CASE i = Len(list) + 1 /\ j \in DOMAIN list
    BY <1>2, <1>4, <1>5, <2>2
  <2>3. CASE i \in DOMAIN list /\ j = Len(list) + 1
    BY <1>2, <1>4, <1>5, <2>3
  <2>4. CASE i = Len(list) + 1 /\ j = Len(list) + 1
    BY <2>4
  <2> QED
    BY <1>3, <2>1, <2>2, <2>3, <2>4
<1> QED
  BY <1>1, <1>2, <1>5 DEF IsPart

\* The value of a name in the upper list, where the lower one has the name or
\* not.
LEMMA OverlaidItems ==
    ASSUME NEW kind, NEW part, part # "env", NEW lower, NEW upper,
           IsPart(kind, part, lower), IsPart(kind, part, upper)
    PROVE  LET list == Overlaid(kind, part, lower, upper)
           IN  /\ IsPart(kind, part, list)
               /\ DOMAIN list = DOMAIN lower
               /\ \A name, value :
                     HasItem(kind, part, list, name, value)
                        <=> \/ /\ HasItem(kind, part, lower, name, value)
                               /\ \/ ~HasNamed(kind, part, upper, name)
                                  \/ /\ ~IsReplacing(kind, part)
                                     /\ HasItem(kind, part, upper, name, Unset)
                            \/ /\ HasNamed(kind, part, lower, name)
                               /\ HasItem(kind, part, upper, name, value)
                               /\ IsReplacing(kind, part) \/ value # Unset
<1> DEFINE matches(i) == {j \in DOMAIN upper : SameItem(kind, part, lower[i], upper[j])}
<1>1. /\ DOMAIN lower = 1..Len(lower) /\ Len(lower) \in Nat
      /\ DOMAIN upper = 1..Len(upper) /\ Len(upper) \in Nat
  BY DEF IsPart, IsItems
<1>2. PICK list : list = Overlaid(kind, part, lower, upper)
  OBVIOUS
<1>3. list = [i \in 1..Len(lower) |->
                 IF matches(i) = {} THEN lower[i]
                 ELSE MergeItem(kind, part, lower[i],
                        upper[CHOOSE j \in matches(i) : \A k \in matches(i) : j <= k])]
  BY <1>1, <1>2 DEF Overlaid
<1>4. DOMAIN list = DOMAIN lower /\ IsItems(list)
  <2> HIDE DEF matches
  <2>1. Len(list) = Len(lower)
    BY <1>1, <1>3
  <2>2. list = [i \in 1..Len(lower) |-> list[i]]
    BY <1>1, <1>3
  <2> QED
    BY <1>1, <2>1, <2>2 DEF IsItems
<1>5. ASSUME NEW i \in DOMAIN lower, NEW j \in DOMAIN upper,
             SameItem(kind, part, lower[i], upper[j])
      PROVE  list[i] = IF upper[j].value = Unset /\ ~IsReplacing(kind, part)
                       THEN lower[i] ELSE upper[j]
  <2>1. matches(i) = {j}
    BY <1>5 DEF IsPart, SameItem
  <2>2. j <= j
    BY <1>1
  <2>3. list[i] = MergeItem(kind, part, lower[i], upper[j])
    <3>1. list[i] = IF matches(i) = {} THEN lower[i]
                    ELSE MergeItem(kind, part, lower[i],
                           upper[CHOOSE l \in matches(i) : \A k \in matches(i) : l <= k])
      <4> HIDE DEF matches
      <4> QED BY <1>1, <1>3
    <3> HIDE DEF matches
    <3> QED
      BY <2>1, <2>2, <3>1
  <2> QED
    BY <2>3 DEF MergeItem, IsReplacing
<1>6. ASSUME NEW i \in DOMAIN lower,
             \A j \in DOMAIN upper : ~SameItem(kind, part, lower[i], upper[j])
      PROVE  list[i] = lower[i]
  <2>1. matches(i) = {}
    BY <1>6
  <2> HIDE DEF matches
  <2> QED
    BY <1>1, <1>3, <2>1
<1> HIDE <1>3
<1>7. ASSUME NEW i \in DOMAIN lower
      PROVE  /\ list[i].name = lower[i].name
             /\ StandsAlone(kind, part, list[i]) <=> StandsAlone(kind, part, lower[i])
  <2>1. CASE \E j \in DOMAIN upper : SameItem(kind, part, lower[i], upper[j])
    BY <1>5, <2>1 DEF SameItem
  <2>2. CASE ~\E j \in DOMAIN upper : SameItem(kind, part, lower[i], upper[j])
    BY <1>6, <2>2
  <2> QED
    BY <2>1, <2>2
<1>8. IsPart(kind, part, list)
  BY <1>4, <1>7 DEF IsPart
<1> DEFINE Stays(name, value) ==
               /\ HasItem(kind, part, lower, name, value)
               /\ \/ ~HasNamed(kind, part, upper, name)
                  \/ ~IsReplacing(kind, part) /\ HasItem(kind, part, upper, name, Unset)
           Changes(name, value) ==
               /\ HasNamed(kind, part, lower, name)
               /\ HasItem(kind, part, upper, name, value)
               /\ IsReplacing(kind, part) \/ value # Unset
<1>9. ASSUME NEW name, NEW value, HasItem(kind, part, list, name, value)
      PROVE  Stays(name, value) \/ Changes(name, value)
  <2>1. PICK k \in DOMAIN lower : /\ list[k].name = name /\ list[k].value = value
                                  /\ ~StandsAlone(kind, part, list[k])
    BY <1>4, <1>9 DEF HasItem
  <2>2. lower[k].name = name /\ ~StandsAlone(kind, part, lower[k])
    BY <1>7, <2>1
  <2>3. HasNamed(kind, part, lower, name)
    BY <2>2 DEF HasNamed, HasItem
  <2>4. CASE \E j \in DOMAIN upper : SameItem(kind, part, lower[k], upper[j])
    <3>1. PICK j \in DOMAIN upper : SameItem(kind, part, lower[k], upper[j])
      BY <2>4
    <3>2. HasItem(kind, part, upper, name, upper[j].value)
      BY <2>2, <3>1 DEF SameItem, HasItem
    <3>3. CASE upper[j].value = Unset /\ ~IsReplacing(kind, part)
      <4>1. list[k] = lower[k]
        BY <1>5, <3>1, <3>3
      <4>2. HasItem(kind, part, lower, name, value)
        BY <2>1, <4>1 DEF HasItem
      <4> QED
        BY <3>2, <3>3, <4>2
    <3>4. CASE ~(upper[j].value = Unset /\ ~IsReplacing(kind, part))
      <4>1. list[k] = upper[j]
        BY <1>5, <3>1, <3>4
      <4> QED
        BY <2>1, <2>3, <3>2, <3>4, <4>1
    <3> QED
      BY <3>3, <3>4
  <2>5. CASE ~\E j \in DOMAIN upper : SameItem(kind, part, lower[k], upper[j])
    <3>1. list[k] = lower[k]
      BY <1>6, <2>5
    <3>2. HasItem(kind, part, lower, name, value)
      BY <2>1, <3>1 DEF HasItem
    <3>3. ~HasNamed(kind, part, upper, name)
      BY <2>2, <2>5 DEF HasNamed, HasItem, SameItem
    <3> QED
      BY <3>2, <3>3
  <2> QED
    BY <2>4, <2>5
<1>10. ASSUME NEW name, NEW value, Stays(name, value)
       PROVE  HasItem(kind, part, list, name, value)
  <2>1. PICK k \in DOMAIN lower : /\ lower[k].name = name /\ lower[k].value = value
                                  /\ ~StandsAlone(kind, part, lower[k])
    BY <1>10 DEF HasItem
  <2>2. list[k] = lower[k]
    <3>1. CASE ~HasNamed(kind, part, upper, name)
      <4>1. \A j \in DOMAIN upper : ~SameItem(kind, part, lower[k], upper[j])
        BY <2>1, <3>1 DEF HasNamed, HasItem, SameItem
      <4> QED
        BY <1>6, <4>1
    <3>2. CASE ~IsReplacing(kind, part) /\ HasItem(kind, part, upper, name, Unset)
      <4>1. PICK j \in DOMAIN upper : /\ upper[j].name = name /\ upper[j].value = Unset
                                      /\ ~StandsAlone(kind, part, upper[j])
        BY <3>2 DEF HasItem
      <4>2. SameItem(kind, part, lower[k], upper[j])
        BY <2>1, <4>1 DEF SameItem
      <4> QED
        BY <1>5, <3>2, <4>1, <4>2
    <3> QED
      BY <1>10, <3>1, <3>2
  <2> QED
    BY <1>4, <2>1, <2>2 DEF HasItem
<1>11. ASSUME NEW name, NEW value, Changes(name, value)
       PROVE  HasItem(kind, part, list, name, value)
  <2>1. PICK k \in DOMAIN lower : /\ lower[k].name = name
                                  /\ ~StandsAlone(kind, part, lower[k])
    BY <1>11 DEF HasNamed, HasItem
  <2>2. PICK j \in DOMAIN upper : /\ upper[j].name = name /\ upper[j].value = value
                                  /\ ~StandsAlone(kind, part, upper[j])
    BY <1>11 DEF HasItem
  <2>3. SameItem(kind, part, lower[k], upper[j])
    BY <2>1, <2>2 DEF SameItem
  <2>4. list[k] = upper[j]
    BY <1>5, <1>11, <2>2, <2>3
  <2> QED
    BY <1>4, <2>2, <2>4 DEF HasItem
<1> QED
  BY <1>2, <1>4, <1>8, <1>9, <1>10, <1>11

\* What a merge of two lists leaves: the upper value of a name, if it is given;
\* else the lower one.
IsMerged(kind, part, lower, upper, list) ==
    \A name, value :
        HasItem(kind, part, list, name, value)
           <=> \/ /\ HasItem(kind, part, upper, name, value)
                  /\ \/ IsReplacing(kind, part) \/ value # Unset
                     \/ ~HasNamed(kind, part, lower, name)
               \/ /\ HasItem(kind, part, lower, name, value)
                  /\ \/ ~HasNamed(kind, part, upper, name)
                     \/ /\ ~IsReplacing(kind, part)
                        /\ HasItem(kind, part, upper, name, Unset)

\* A list that has what the overlaid one has, and what only the upper one names.
LEMMA MergedFromOverlaid ==
    ASSUME NEW kind, NEW part, part # "env", NEW lower, NEW upper, NEW list,
           IsPart(kind, part, lower), IsPart(kind, part, upper),
           \A name, value :
              HasItem(kind, part, list, name, value)
                 <=> \/ HasItem(kind, part, Overlaid(kind, part, lower, upper), name, value)
                     \/ /\ ~HasNamed(kind, part, lower, name)
                        /\ HasItem(kind, part, upper, name, value)
    PROVE  IsMerged(kind, part, lower, upper, list)
<1> SUFFICES ASSUME NEW name, NEW value
             PROVE  HasItem(kind, part, list, name, value)
                      <=> \/ /\ HasItem(kind, part, upper, name, value)
                             /\ \/ IsReplacing(kind, part) \/ value # Unset
                                \/ ~HasNamed(kind, part, lower, name)
                          \/ /\ HasItem(kind, part, lower, name, value)
                             /\ \/ ~HasNamed(kind, part, upper, name)
                                \/ /\ ~IsReplacing(kind, part)
                                   /\ HasItem(kind, part, upper, name, Unset)
  BY DEF IsMerged
<1>1. HasItem(kind, part, Overlaid(kind, part, lower, upper), name, value)
        <=> \/ /\ HasItem(kind, part, lower, name, value)
               /\ \/ ~HasNamed(kind, part, upper, name)
                  \/ /\ ~IsReplacing(kind, part)
                     /\ HasItem(kind, part, upper, name, Unset)
            \/ /\ HasNamed(kind, part, lower, name)
               /\ HasItem(kind, part, upper, name, value)
               /\ IsReplacing(kind, part) \/ value # Unset
  BY OverlaidItems
<1> QED
  BY <1>1

\* mergeVolumes and the like, for lists of any length.
LEMMA ItemsMerged ==
    ASSUME NEW kind, NEW part, part # "env", NEW lower, NEW upper,
           IsPart(kind, part, lower), IsPart(kind, part, upper)
    PROVE  LET list == MergeItems(kind, part, lower, upper)
           IN  /\ IsPart(kind, part, list)
               /\ IsMerged(kind, part, lower, upper, list)
<1> DEFINE base == Overlaid(kind, part, lower, upper)
<1>1. IsItems(upper) /\ Len(upper) \in Nat /\ DOMAIN upper = 1..Len(upper)
  BY DEF IsPart, IsItems
<1>2. PICK f : /\ Runs(f, Len(upper), kind, part, base, upper)
               /\ MergeItems(kind, part, lower, upper) = f[Len(upper)]
  BY <1>1, MergeItemsRuns
<1>3. IsPart(kind, part, base)
  BY OverlaidItems
<1>4. ASSUME NEW name PROVE HasNamed(kind, part, base, name)
                              <=> HasNamed(kind, part, lower, name)
  <2> DEFINE Of(value) ==
          HasItem(kind, part, base, name, value)
             <=> \/ /\ HasItem(kind, part, lower, name, value)
                    /\ \/ ~HasNamed(kind, part, upper, name)
                       \/ /\ ~IsReplacing(kind, part)
                          /\ HasItem(kind, part, upper, name, Unset)
                 \/ /\ HasNamed(kind, part, lower, name)
                    /\ HasItem(kind, part, upper, name, value)
                    /\ IsReplacing(kind, part) \/ value # Unset
  <2>1. \A value : Of(value)
    BY OverlaidItems
  <2>2. ASSUME HasNamed(kind, part, base, name) PROVE HasNamed(kind, part, lower, name)
    BY <2>1, <2>2 DEF HasNamed
  <2>3. ASSUME HasNamed(kind, part, lower, name) PROVE HasNamed(kind, part, base, name)
    <3>1. PICK old : HasItem(kind, part, lower, name, old)
      BY <2>3 DEF HasNamed
    <3>2. CASE ~HasNamed(kind, part, upper, name)
      BY <2>1, <3>1, <3>2 DEF HasNamed
    <3>3. CASE HasNamed(kind, part, upper, name)
      <4>1. PICK new : HasItem(kind, part, upper, name, new)
        BY <3>3 DEF HasNamed
      <4>2. CASE IsReplacing(kind, part) \/ new # Unset
        <5>1. HasItem(kind, part, base, name, new)
          BY <2>1, <2>3, <4>1, <4>2
        <5> QED
          BY <5>1 DEF HasNamed
      <4>3. CASE ~(IsReplacing(kind, part) \/ new # Unset)
        <5>1. HasItem(kind, part, base, name, old)
          BY <2>1, <3>1, <4>1, <4>3
        <5> QED
          BY <5>1 DEF HasNamed
      <4> QED
        BY <4>2, <4>3
    <3> QED
      BY <3>2, <3>3
  <2> QED
    BY <2>2, <2>3
<1> HIDE DEF base
<1> DEFINE From(k, name, value) ==
               \E j \in 1..k : /\ upper[j].name = name /\ upper[j].value = value
                               /\ ~StandsAlone(kind, part, upper[j])
           Holds(k) ==
               /\ IsPart(kind, part, f[k])
               /\ \A name, value :
                     HasItem(kind, part, f[k], name, value)
                        <=> \/ HasItem(kind, part, base, name, value)
                            \/ /\ ~HasNamed(kind, part, lower, name)
                               /\ From(k, name, value)
           good == {k \in 0..Len(upper) : Holds(k)}
<1>5. Holds(0)
  BY <1>2, <1>3 DEF Runs
<1>6. ASSUME NEW n \in 1..Len(upper), Holds(n - 1) PROVE Holds(n)
  <2>1. f[n] = Grown(kind, part, f[n - 1], upper[n])
    BY <1>2 DEF Runs, Step
  <2>2. \A name, value :
           From(n, name, value)
              <=> \/ From(n - 1, name, value)
                  \/ /\ upper[n].name = name /\ upper[n].value = value
                     /\ ~StandsAlone(kind, part, upper[n])
    <3>1. /\ n \in 1..n /\ \A j \in 1..n - 1 : j \in 1..n
          /\ \A j \in 1..n : j \in 1..n - 1 \/ j = n
      OBVIOUS
    <3> QED
      BY <3>1
  <2>3. ASSUME NEW value, ~StandsAlone(kind, part, upper[n])
        PROVE  ~From(n - 1, upper[n].name, value)
    <3>1. /\ \A j \in 1..n - 1 : j \in DOMAIN upper /\ j # n
          /\ n \in DOMAIN upper
      BY <1>1
    <3> QED
      BY <2>3, <3>1 DEF IsPart
  <2>4. ~StandsAlone(kind, part, upper[n]) =>
           (HasNamed(kind, part, f[n - 1], upper[n].name)
              <=> HasNamed(kind, part, lower, upper[n].name))
    <3> HIDE DEF From
    <3> QED BY <1>4, <1>6, <2>3 DEF HasNamed
  <2>5. (\E i \in DOMAIN f[n - 1] : SameItem(kind, part, f[n - 1][i], upper[n]))
           <=> /\ ~StandsAlone(kind, part, upper[n])
               /\ HasNamed(kind, part, f[n - 1], upper[n].name)
    BY DEF SameItem, HasNamed, HasItem
  <2>6. CASE /\ ~StandsAlone(kind, part, upper[n])
             /\ HasNamed(kind, part, f[n - 1], upper[n].name)
    <3>1. f[n] = f[n - 1]
      BY <2>1, <2>5, <2>6 DEF Grown
    <3>2. HasNamed(kind, part, lower, upper[n].name)
      BY <2>4, <2>6
    <3> HIDE DEF From
    <3> QED
      BY <1>6, <2>2, <3>1, <3>2
  <2>7. CASE ~(/\ ~StandsAlone(kind, part, upper[n])
               /\ HasNamed(kind, part, f[n - 1], upper[n].name))
    <3>1. f[n] = Append(f[n - 1], upper[n])
      BY <2>1, <2>5, <2>7 DEF Grown
    <3>2. IsPart(kind, part, f[n])
      BY <1>6, <2>7, <3>1, AppendedPart
    <3>3. ASSUME NEW name, NEW value
          PROVE  HasItem(kind, part, f[n], name, value)
                    <=> \/ HasItem(kind, part, f[n - 1], name, value)
                        \/ /\ upper[n].name = name /\ upper[n].value = value
                           /\ ~StandsAlone(kind, part, upper[n])
      <4>1. IsItems(f[n - 1])
        BY <1>6 DEF IsPart
      <4> QED
        BY <3>1, <4>1, AppendedItem
    <3>4. ~StandsAlone(kind, part, upper[n]) =>
             ~HasNamed(kind, part, lower, upper[n].name)
      BY <2>4, <2>7
    <3> HIDE DEF From
    <3> QED
      BY <1>6, <2>2, <3>2, <3>3, <3>4
  <2> QED
    BY <2>6, <2>7
<1>7. Len(upper) \in good
  <2>1. 0 \in good /\ \A n \in 1..Len(upper) : n - 1 \in good => n \in good
    <3> HIDE DEF Holds
    <3> QED BY <1>1, <1>5, <1>6
  <2>2. Len(upper) \in 0..Len(upper)
    BY <1>1
  <2> HIDE DEF good
  <2>3. \A n \in 0..Len(upper) : n \in good
    BY <1>1, <2>1, UpTo
  <2> QED
    BY <2>2, <2>3
<1>8. \A name, value : From(Len(upper), name, value)
                          <=> HasItem(kind, part, upper, name, value)
  BY <1>1 DEF HasItem
<1> QED
  <2>1. PICK list : list = f[Len(upper)]
    OBVIOUS
  <2>2. IsPart(kind, part, list)
    BY <1>7, <2>1
  <2>3. \A name, value :
           HasItem(kind, part, list, name, value)
              <=> \/ HasItem(kind, part, Overlaid(kind, part, lower, upper), name, value)
                  \/ /\ ~HasNamed(kind, part, lower, name)
                     /\ HasItem(kind, part, upper, name, value)
    BY <1>7, <1>8, <2>1 DEF base
  <2>4. IsMerged(kind, part, lower, upper, list)
    BY <2>3, MergedFromOverlaid
  <2> QED
    BY <1>2, <2>1, <2>2, <2>4

-----------------------------------------------------------------------------
(* Ports, and every part. *)

\* The items at some positions of a list.
LEMMA PickedPart ==
    ASSUME NEW kind, NEW part, NEW list, IsPart(kind, part, list),
           NEW positions \in SUBSET DOMAIN list
    PROVE  LET picked == Pick(list, positions)
           IN  /\ IsPart(kind, part, picked)
               /\ \A i \in positions : \E n \in DOMAIN picked : picked[n] = list[i]
               /\ \A n \in DOMAIN picked : \E i \in positions : picked[n] = list[i]
               /\ \A m, n \in DOMAIN picked :
                     \A i \in positions : picked[m] = list[i] /\ picked[n] = list[i]
                        /\ ~StandsAlone(kind, part, list[i]) => m = n
<1>1. IsItems(list) /\ Len(list) \in Nat /\ DOMAIN list = 1..Len(list)
  BY DEF IsPart, IsItems
<1>2. PICK picked : picked = Pick(list, positions)
  OBVIOUS
<1>3. /\ Cardinality(positions) \in Nat
      /\ DOMAIN picked = 1..Cardinality(positions)
      /\ Len(picked) = Cardinality(positions)
      /\ \A i \in positions : picked[Rank(positions, i)] = list[i]
      /\ \A i \in positions : Rank(positions, i) \in 1..Cardinality(positions)
      /\ \A n \in 1..Cardinality(positions) :
            \E i \in positions : n = Rank(positions, i)
  <2>1. Len(list) \in Nat /\ positions \in SUBSET (1..Len(list))
    BY <1>1
  <2>2. /\ DOMAIN picked = 1..Cardinality(positions)
        /\ Len(picked) = Cardinality(positions)
        /\ \A i \in positions : picked[Rank(positions, i)] = list[i]
    BY <1>2, <2>1, PickedItems
  <2>3. /\ Cardinality(positions) \in Nat
        /\ \A i \in positions : Rank(positions, i) \in 1..Cardinality(positions)
        /\ \A n \in 1..Cardinality(positions) :
              \E i \in positions : n = Rank(positions, i)
    BY <2>1, Ranks
  <2> QED
    BY <2>2, <2>3
<1>4. IsItems(picked)
  <2>1. picked = [n \in 1..Cardinality(positions) |-> picked[n]]
    BY <1>2 DEF Pick
  <2> QED
    BY <1>3, <2>1 DEF IsItems
<1>5. ASSUME NEW m \in DOMAIN picked, NEW n \in DOMAIN picked,
             picked[m].name = picked[n].name, ~StandsAlone(kind, part, picked[m]),
             ~StandsAlone(kind, part, picked[n])
      PROVE  m = n
  <2>1. PICK i \in positions : m = Rank(positions, i)
    BY <1>3
  <2>2. PICK j \in positions : n = Rank(positions, j)
    BY <1>3
  <2>3. picked[m] = list[i] /\ picked[n] = list[j]
    BY <1>3, <2>1, <2>2
  <2>4. i = j
    BY <1>5, <2>3 DEF IsPart
  <2> QED
    BY <2>1, <2>2, <2>4
<1> QED
  BY <1>2, <1>3, <1>4, <1>5 DEF IsPart

\* What a list of picked items has.
LEMMA PickedHas ==
    ASSUME NEW kind, NEW part, NEW list, IsPart(kind, part, list),
           NEW positions \in SUBSET DOMAIN list, NEW name, NEW value
    PROVE  HasItem(kind, part, Pick(list, positions), name, value)
              <=> \E i \in positions : /\ list[i].name = name /\ list[i].value = value
                                       /\ ~StandsAlone(kind, part, list[i])
<1>1. PICK picked : picked = Pick(list, positions)
  OBVIOUS
<1>2. /\ \A i \in positions : \E n \in DOMAIN picked : picked[n] = list[i]
      /\ \A n \in DOMAIN picked : \E i \in positions : picked[n] = list[i]
  BY <1>1, PickedPart
<1> QED
  BY <1>1, <1>2 DEF HasItem

\* Two lists joined.
LEMMA JoinedItems ==
    ASSUME NEW a, NEW b, IsItems(a), IsItems(b)
    PROVE  LET joined == Join(a, b)
           IN  /\ IsItems(joined)
               /\ Len(a) \in Nat /\ Len(b) \in Nat
               /\ DOMAIN a = 1..Len(a) /\ DOMAIN b = 1..Len(b)
               /\ DOMAIN joined = 1..Len(a) + Len(b)
               /\ \A n \in DOMAIN a : joined[n] = a[n]
               /\ \A n \in DOMAIN b : joined[Len(a) + n] = b[n]
<1> DEFINE S == {a[n] : n \in DOMAIN a} \cup {b[n] : n \in DOMAIN b}
<1>1. /\ DOMAIN a = 1..Len(a) /\ Len(a) \in Nat
      /\ DOMAIN b = 1..Len(b) /\ Len(b) \in Nat
  BY DEF IsItems
<1>2. a \in Seq(S) /\ b \in Seq(S)
  <2>1. a \in [1..Len(a) -> S] /\ b \in [1..Len(b) -> S]
    BY <1>1 DEF IsItems
  <2> HIDE DEF S
  <2> QED
    BY <1>1, <2>1
<1> HIDE DEF S
<1>3. PICK joined : joined = Join(a, b)
  OBVIOUS
<1>4. joined \in Seq(S)
  BY <1>2, <1>3 DEF Join
<1>5. /\ Len(joined) = Len(a) + Len(b)
      /\ \A n \in 1..Len(a) : joined[n] = a[n]
      /\ \A n \in 1..Len(b) : joined[Len(a) + n] = b[n]
  BY <1>1, <1>2, <1>3 DEF Join
<1>6. /\ Len(joined) \in Nat /\ DOMAIN joined = 1..Len(joined)
      /\ joined = [n \in 1..Len(joined) |-> joined[n]]
  BY <1>4
<1> QED
  BY <1>1, <1>3, <1>5, <1>6 DEF IsItems

\* Two lists with no name in common.
LEMMA JoinedPart ==
    ASSUME NEW kind, NEW part, NEW a, NEW b, IsPart(kind, part, a), IsPart(kind, part, b),
           \A name : ~(HasNamed(kind, part, a, name) /\ HasNamed(kind, part, b, name))
    PROVE  LET joined == Join(a, b)
           IN  /\ IsPart(kind, part, joined)
               /\ \A name, value :
                     HasItem(kind, part, joined, name, value)
                        <=> \/ HasItem(kind, part, a, name, value)
                            \/ HasItem(kind, part, b, name, value)
<1>1. PICK joined : joined = Join(a, b)
  OBVIOUS
<1>2. IsItems(a) /\ IsItems(b)
  BY DEF IsPart
<1>3. /\ IsItems(joined)
      /\ Len(a) \in Nat /\ Len(b) \in Nat
      /\ DOMAIN a = 1..Len(a) /\ DOMAIN b = 1..Len(b)
      /\ DOMAIN joined = 1..Len(a) + Len(b)
      /\ \A n \in DOMAIN a : joined[n] = a[n]
      /\ \A n \in DOMAIN b : joined[Len(a) + n] = b[n]
  BY <1>1, <1>2, JoinedItems
<1>4. ASSUME NEW n \in DOMAIN joined
      PROVE  \/ n \in DOMAIN a
             \/ n - Len(a) \in DOMAIN b /\ joined[n] = b[n - Len(a)]
  <2>1. CASE n <= Len(a)
    BY <1>3, <2>1
  <2>2. CASE ~(n <= Len(a))
    <3>1. n - Len(a) \in 1..Len(b) /\ Len(a) + (n - Len(a)) = n
      BY <1>3, <2>2
    <3> QED
      BY <1>3, <3>1
  <2> QED
    BY <2>1, <2>2
<1>5. /\ \A n \in DOMAIN a : n \in DOMAIN joined
      /\ \A n \in DOMAIN b : Len(a) + n \in DOMAIN joined
  BY <1>3
<1>6. ASSUME NEW i \in DOMAIN joined, NEW j \in DOMAIN joined,
             joined[i].name = joined[j].name, ~StandsAlone(kind, part, joined[i]),
             ~StandsAlone(kind, part, joined[j])
      PROVE  i = j
  <2>1. CASE i \in DOMAIN a /\ j \in DOMAIN a
    BY <1>3, <1>6, <2>1 DEF IsPart
  <2>2. ASSUME NEW k \in DOMAIN a, NEW l \in DOMAIN b, a[k].name = b[l].name,
               ~StandsAlone(kind, part, a[k]), ~StandsAlone(kind, part, b[l])
        PROVE  FALSE
    BY <2>2 DEF HasNamed, HasItem
  <2>3. CASE i \in DOMAIN a /\ j \notin DOMAIN a
    BY <1>3, <1>4, <1>6, <2>2, <2>3
  <2>4. CASE i \notin DOMAIN a /\ j \in DOMAIN a
    BY <1>3, <1>4, <1>6, <2>2, <2>4
  <2>5. CASE i \notin DOMAIN a /\ j \notin DOMAIN a
    <3>1. /\ i - Len(a) \in DOMAIN b /\ joined[i] = b[i - Len(a)]
          /\ j - Len(a) \in DOMAIN b /\ joined[j] = b[j - Len(a)]
      BY <1>4, <2>5
    <3>2. i - Len(a) = j - Len(a)
      BY <1>6, <3>1 DEF IsPart
    <3> QED
      BY <1>3, <3>2
  <2> QED
    BY <2>1, <2>3, <2>4, <2>5
<1>7. ASSUME NEW name, NEW value
      PROVE  HasItem(kind, part, joined, name, value)
               <=> \/ HasItem(kind, part, a, name, value)
                   \/ HasItem(kind, part, b, name, value)
  <2>1. ASSUME HasItem(kind, part, joined, name, value)
        PROVE  \/ HasItem(kind, part, a, name, value)
               \/ HasItem(kind, part, b, name, value)
    BY <1>3, <1>4, <2>1 DEF HasItem
  <2>2. ASSUME HasItem(kind, part, a, name, value)
        PROVE  HasItem(kind, part, joined, name, value)
    BY <1>3, <1>5, <2>2 DEF HasItem
  <2>3. ASSUME HasItem(kind, part, b, name, value)
        PROVE  HasItem(kind, part, joined, name, value)
    BY <1>3, <1>5, <2>3 DEF HasItem
  <2> QED
    BY <2>1, <2>2, <2>3
<1> QED
  BY <1>1, <1>3, <1>6, <1>7 DEF IsPart

\* mergePorts and mergeServicePorts.
LEMMA PortsMerged ==
    ASSUME NEW kind, NEW lower, NEW upper,
           IsPart(kind, "ports", lower), IsPart(kind, "ports", upper)
    PROVE  LET list == MergePorts(kind, lower, upper)
           IN  /\ IsPart(kind, "ports", list)
               /\ IsMerged(kind, "ports", lower, upper, list)
<1>1. PICK base : base = Overlaid(kind, "ports", lower, upper)
  OBVIOUS
<1>2. PICK new : new = {n \in DOMAIN upper : ~Has(lower, upper[n].name)}
  OBVIOUS
<1>3. PICK added : added = Pick(upper, new)
  OBVIOUS
<1>4. \A item : ~StandsAlone(kind, "ports", item)
  BY DEF StandsAlone
<1>5. \A name : Has(lower, name) <=> HasNamed(kind, "ports", lower, name)
  BY <1>4 DEF Has, Names, HasNamed, HasItem
<1>6. IsPart(kind, "ports", base)
  BY <1>1, OverlaidItems
<1>7. IsPart(kind, "ports", added)
  BY <1>2, <1>3, PickedPart
<1>8. ASSUME NEW name, NEW value
      PROVE  HasItem(kind, "ports", added, name, value)
               <=> /\ ~HasNamed(kind, "ports", lower, name)
                   /\ HasItem(kind, "ports", upper, name, value)
  <2>1. HasItem(kind, "ports", added, name, value)
          <=> \E i \in new : /\ upper[i].name = name /\ upper[i].value = value
                             /\ ~StandsAlone(kind, "ports", upper[i])
    <3>1. new \in SUBSET DOMAIN upper
      BY <1>2
    <3> QED
      BY <1>3, <3>1, PickedHas
  <2> QED
    BY <1>2, <1>5, <2>1 DEF HasItem
<1>9. ASSUME NEW name, HasNamed(kind, "ports", base, name)
      PROVE  HasNamed(kind, "ports", lower, name)
  <2>1. /\ DOMAIN base = DOMAIN lower
        /\ \A value :
              HasItem(kind, "ports", base, name, value)
                 <=> \/ /\ HasItem(kind, "ports", lower, name, value)
                        /\ \/ ~HasNamed(kind, "ports", upper, name)
                           \/ /\ ~IsReplacing(kind, "ports")
                              /\ HasItem(kind, "ports", upper, name, Unset)
                     \/ /\ HasNamed(kind, "ports", lower, name)
                        /\ HasItem(kind, "ports", upper, name, value)
                        /\ IsReplacing(kind, "ports") \/ value # Unset
    BY <1>1, OverlaidItems
  <2> QED
    BY <1>9, <2>1 DEF HasNamed
<1>10. PICK list : list = Join(base, added)
  OBVIOUS
<1>11. /\ IsPart(kind, "ports", list)
       /\ \A name, value :
             HasItem(kind, "ports", list, name, value)
                <=> \/ HasItem(kind, "ports", base, name, value)
                    \/ HasItem(kind, "ports", added, name, value)
  <2>1. \A name : ~(HasNamed(kind, "ports", base, name)
                      /\ HasNamed(kind, "ports", added, name))
    BY <1>8, <1>9 DEF HasNamed
  <2> QED
    BY <1>6, <1>7, <1>10, <2>1, JoinedPart
<1>12. IsMerged(kind, "ports", lower, upper, list)
  BY <1>1, <1>8, <1>11, MergedFromOverlaid
<1>13. list = MergePorts(kind, lower, upper)
  BY <1>1, <1>2, <1>3, <1>10 DEF MergePorts, Join
<1> QED
  BY <1>11, <1>12, <1>13

\* Every part that mergeDCSpec and the others merge.
LEMMA PartMerged ==
    ASSUME NEW kind, NEW part, NEW lower, NEW upper,
           IsPart(kind, part, lower), IsPart(kind, part, upper)
    PROVE  LET list == MergePart(kind, part, lower, upper)
           IN  /\ IsPart(kind, part, list)
               /\ IsMerged(kind, part, lower, upper, list)
<1>1. CASE part = "env"
  <2>1. PICK list : list = EnvOverride(lower, upper)
    OBVIOUS
  <2>2. /\ IsItems(upper) /\ Len(upper) \in Nat /\ DOMAIN upper = 1..Len(upper)
        /\ \A i, j \in DOMAIN upper : upper[i].name = upper[j].name => i = j
    BY <1>1 DEF IsPart, IsItems, StandsAlone
  <2>3. /\ IsPart(kind, "env", list)
        /\ \A name, value :
              HasItem(kind, "env", list, name, value)
                 <=> \/ LastIs(upper, Len(upper), name, value)
                     \/ /\ HasItem(kind, "env", lower, name, value)
                        /\ \A j \in 1..Len(upper) : upper[j].name # name
    BY <1>1, <2>1, <2>2, VariablesOverridden
  <2>4. ASSUME NEW name, NEW value
        PROVE  LastIs(upper, Len(upper), name, value)
                 <=> HasItem(kind, "env", upper, name, value)
    <3>1. \A j \in 1..Len(upper) : \A l \in j + 1..Len(upper) :
              l \in DOMAIN upper /\ l # j
      BY <2>2
    <3> QED
      BY <2>2, <3>1 DEF LastIs, HasItem, StandsAlone
  <2>5. ASSUME NEW name
        PROVE  (\A j \in 1..Len(upper) : upper[j].name # name)
                 <=> ~HasNamed(kind, "env", upper, name)
    BY <2>2 DEF HasNamed, HasItem, StandsAlone
  <2>6. IsReplacing(kind, "env")
    BY DEF IsReplacing
  <2>7. IsMerged(kind, "env", lower, upper, list)
    BY <2>3, <2>4, <2>5, <2>6 DEF IsMerged
  <2>8. MergePart(kind, part, lower, upper) = list
    BY <1>1, <2>1 DEF MergePart
  <2> QED
    BY <1>1, <2>3, <2>7, <2>8
<1>2. CASE part = "ports"
  <2>1. MergePart(kind, part, lower, upper) = MergePorts(kind, lower, upper)
    BY <1>2 DEF MergePart
  <2> QED
    BY <1>2, <2>1, PortsMerged
<1>3. CASE part \notin {"env", "ports"}
  <2>1. MergePart(kind, part, lower, upper) = MergeItems(kind, part, lower, upper)
    BY <1>3 DEF MergePart
  <2> QED
    BY <1>3, <2>1, ItemsMerged
<1> QED
  BY <1>1, <1>2, <1>3

-----------------------------------------------------------------------------
(* The parts of merged objects. *)

ListHasParts(kind, list) == \A k \in DOMAIN list : HasParts(kind, list[k])

\* Where the parts of a merged object come from.
PartsFrom(kind, lower, upper, object) ==
    \/ /\ ~Has(upper, object.name)
       /\ \E i \in DOMAIN lower : /\ lower[i].name = object.name
                                  /\ object.parts = lower[i].parts
    \/ /\ ~Has(lower, object.name)
       /\ \E j \in DOMAIN upper : /\ upper[j].name = object.name
                                  /\ object.parts = upper[j].parts
    \/ \E i \in DOMAIN lower, j \in DOMAIN upper :
          /\ lower[i].name = object.name /\ upper[j].name = object.name
          /\ DOMAIN object.parts = PartsOf(kind)
          /\ \A part \in PartsOf(kind) :
                object.parts[part] =
                   MergePart(kind, part, lower[i].parts[part], upper[j].parts[part])

\* The parts of a merged specification.
LEMMA PreparedParts ==
    ASSUME NEW kind, NEW lower, NEW upper, IsList(lower), IsList(upper),
           UniqueNames(lower), UniqueNames(upper), ListHasParts(kind, upper),
           NEW j \in DOMAIN upper
    PROVE  LET prepared == Prepared(kind, lower, upper)
           IN  /\ ~Has(lower, upper[j].name) => prepared[j].parts = upper[j].parts
               /\ \A i \in DOMAIN lower : lower[i].name = upper[j].name =>
                     /\ DOMAIN prepared[j].parts = PartsOf(kind)
                     /\ \A part \in PartsOf(kind) :
                           prepared[j].parts[part] =
                              MergePart(kind, part, lower[i].parts[part],
                                        upper[j].parts[part])
<1>1. HasParts(kind, upper[j])
  BY DEF ListHasParts
<1>2. CASE kind = "others"
  <2>1. Prepared(kind, lower, upper) = upper /\ PartsOf(kind) = {}
    BY <1>2 DEF Prepared, PartsOf
  <2> QED
    BY <1>1, <2>1 DEF HasParts
<1>3. CASE kind # "others"
  <2>1. PICK prepared : prepared = Prepared(kind, lower, upper)
    OBVIOUS
  <2>2. prepared[j] = IF Has(lower, upper[j].name)
                      THEN MergeSpec(kind, Find(lower, upper[j].name), upper[j])
                      ELSE upper[j]
    BY <1>3, <2>1 DEF Prepared
  <2>3. ASSUME NEW i \in DOMAIN lower, lower[i].name = upper[j].name
        PROVE  /\ DOMAIN prepared[j].parts = PartsOf(kind)
               /\ \A part \in PartsOf(kind) :
                     prepared[j].parts[part] =
                        MergePart(kind, part, lower[i].parts[part], upper[j].parts[part])
    <3>1. prepared[j] = MergeSpec(kind, lower[i], upper[j])
      BY <2>2, <2>3, FindIsUnique
    <3>2. DOMAIN upper[j] = {"name", "delete", "value", "containers", "parts"}
      BY DEF IsList, IsObject
    <3>3. prepared[j].parts = [part \in PartsOf(kind) |->
                                 MergePart(kind, part, lower[i].parts[part],
                                           upper[j].parts[part])]
      BY <3>1, <3>2 DEF MergeSpec
    <3> QED
      BY <3>3
  <2> QED
    BY <2>1, <2>2, <2>3
<1> QED
  BY <1>2, <1>3

\* An object that stays has its own parts, or those of the upper one.
LEMMA KeptParts ==
    ASSUME NEW lower, NEW upper, IsList(lower), IsList(upper), UniqueNames(upper),
           NEW k \in DOMAIN lower
    PROVE  /\ ~Has(upper, lower[k].name) => KeptObject(lower, upper, k) = lower[k]
           /\ \A j \in DOMAIN upper : upper[j].name = lower[k].name =>
                 KeptObject(lower, upper, k).parts = upper[j].parts
<1>1. ASSUME NEW j \in DOMAIN upper, upper[j].name = lower[k].name
      PROVE  KeptObject(lower, upper, k).parts = upper[j].parts
  <2>1. KeptObject(lower, upper, k) = MergeObject(lower[k], upper[j])
    BY <1>1, FindIsUnique DEF KeptObject
  <2>2. DOMAIN upper[j] = {"name", "delete", "value", "containers", "parts"}
    BY DEF IsList, IsObject
  <2> QED
    BY <2>1, <2>2 DEF MergeObject
<1> QED
  BY <1>1 DEF KeptObject

\* So every merged object has the parts of one of the two, or the merged ones.
LEMMA MergedParts ==
    ASSUME NEW kind, NEW lower, NEW upper, WellFormed(lower), WellFormed(upper),
           ContainersOK(kind, lower), ContainersOK(kind, upper),
           ListHasParts(kind, upper),
           NEW k \in DOMAIN MergeList(kind, lower, upper)
    PROVE  PartsFrom(kind, lower, upper, MergeList(kind, lower, upper)[k])
<1>1. IsList(lower) /\ IsList(upper) /\ UniqueNames(lower) /\ UniqueNames(upper)
  BY DEF WellFormed
<1>2. PICK list : list = MergeList(kind, lower, upper)
  OBVIOUS
<1>3. CASE upper = <<>>
  BY <1>3 DEF MergeList, PartsFrom, Has, Names
<1>4. CASE upper # <<>> /\ lower = <<>>
  BY <1>4 DEF MergeList, PartsFrom, Has, Names
<1>5. CASE upper # <<>> /\ lower # <<>>
  <2>1. ~TooManyContainers(kind, lower, upper)
    <3>1. CASE kind \in {"deploymentConfigs", "statefulSets"}
      BY <1>1, <3>1, ContainersFit DEF ContainersOK
    <3>2. CASE kind \notin {"deploymentConfigs", "statefulSets"}
      BY <3>2 DEF TooManyContainers
    <3> QED
      BY <3>1, <3>2
  <2>2. PICK prepared : prepared = Prepared(kind, lower, upper)
    OBVIOUS
  <2>3. list = Combined(kind, lower, prepared)
    BY <1>2, <1>5, <2>1, <2>2 DEF MergeList
  <2>4. /\ IsList(prepared) /\ UniqueNames(prepared)
        /\ DOMAIN prepared = DOMAIN upper
        /\ \A i \in DOMAIN upper : prepared[i].name = upper[i].name
    BY <1>1, <2>2, PreparedKeepsNames DEF IsList
  <2>5. PICK merged : merged = MergeObjects(lower, prepared)
    OBVIOUS
  <2>6. k \in DOMAIN merged /\ list[k] = merged[k]
    BY <1>1, <1>2, <2>3, <2>4, <2>5, CombinedIsMerged
  <2>7. ASSUME NEW j \in DOMAIN upper, list[k].parts = prepared[j].parts,
               list[k].name = upper[j].name
        PROVE  PartsFrom(kind, lower, upper, list[k])
    <3>1. CASE ~Has(lower, upper[j].name)
      <4>1. prepared[j].parts = upper[j].parts
        BY <1>1, <2>2, <3>1, PreparedParts
      <4> QED
        BY <2>7, <3>1, <4>1 DEF PartsFrom
    <3>2. CASE Has(lower, upper[j].name)
      <4>1. PICK i \in DOMAIN lower : lower[i].name = upper[j].name
        BY <3>2 DEF Has, Names
      <4>2. /\ DOMAIN prepared[j].parts = PartsOf(kind)
            /\ \A part \in PartsOf(kind) :
                  prepared[j].parts[part] =
                     MergePart(kind, part, lower[i].parts[part], upper[j].parts[part])
        BY <1>1, <2>2, <4>1, PreparedParts
      <4> QED
        BY <2>7, <4>1, <4>2 DEF PartsFrom
    <3> QED
      BY <3>1, <3>2
  <2>8. CASE \E i \in Kept(lower, prepared) : k = Rank(Kept(lower, prepared), i)
    <3>1. PICK i \in Kept(lower, prepared) : k = Rank(Kept(lower, prepared), i)
      BY <2>8
    <3>2. i \in DOMAIN lower /\ merged[k] = KeptObject(lower, prepared, i)
      <4>1. \A l \in Kept(lower, prepared) :
               merged[Rank(Kept(lower, prepared), l)] = KeptObject(lower, prepared, l)
        BY <1>1, <2>4, <2>5, MergedItems
      <4> QED
        BY <3>1, <4>1 DEF Kept
    <3>3. list[k].name = lower[i].name
      BY <1>1, <2>4, <2>6, <3>1, <3>2, KeptObjectShape
    <3> HIDE <3>1
    <3>4. /\ ~Has(prepared, lower[i].name) => KeptObject(lower, prepared, i) = lower[i]
          /\ \A j \in DOMAIN prepared : prepared[j].name = lower[i].name =>
                KeptObject(lower, prepared, i).parts = prepared[j].parts
      <4>1. IsList(lower) /\ IsList(prepared) /\ UniqueNames(prepared) /\ i \in DOMAIN lower
        BY <1>1, <2>4, <3>2
      <4> QED
        BY <4>1, KeptParts
    <3>5. CASE ~Has(prepared, lower[i].name)
      <4>1. KeptObject(lower, prepared, i) = lower[i]
        BY <3>5, <3>4
      <4>2. ~Has(upper, lower[i].name)
        BY <2>4, <3>5 DEF Has, Names
      <4>3. list[k].parts = lower[i].parts
        BY <2>6, <3>2, <4>1
      <4> QED
        BY <1>2, <3>2, <3>3, <4>2, <4>3 DEF PartsFrom
    <3>6. CASE Has(prepared, lower[i].name)
      <4>1. PICK j \in DOMAIN upper : prepared[j].name = lower[i].name
        BY <2>4, <3>6 DEF Has, Names
      <4>2. KeptObject(lower, prepared, i).parts = prepared[j].parts
        BY <2>4, <3>4, <4>1
      <4>3. list[k].parts = prepared[j].parts
        BY <2>6, <3>2, <4>2
      <4> QED
        BY <1>2, <2>4, <2>7, <3>3, <4>1, <4>3
    <3> QED
      BY <3>5, <3>6
  <2>9. CASE ~\E i \in Kept(lower, prepared) : k = Rank(Kept(lower, prepared), i)
    <3> DEFINE kept == Cardinality(Kept(lower, prepared))
    <3>1. PICK j \in Added(lower, prepared) : k = kept + Rank(Added(lower, prepared), j)
      BY <1>1, <2>4, <2>5, <2>6, <2>9, MergedItems
    <3>2. merged[k] = prepared[j]
      <4>1. \A l \in Added(lower, prepared) :
               merged[kept + Rank(Added(lower, prepared), l)] = prepared[l]
        BY <1>1, <2>4, <2>5, MergedItems
      <4> HIDE DEF kept
      <4> QED
        BY <3>1, <4>1
    <3>3. j \in DOMAIN upper
      BY <2>4 DEF Added
    <3>4. list[k].parts = prepared[j].parts /\ list[k].name = upper[j].name
      BY <2>4, <2>6, <3>2, <3>3
    <3> QED
      BY <1>2, <2>7, <3>3, <3>4
  <2> QED
    BY <1>2, <2>8, <2>9
<1> QED
  BY <1>3, <1>4, <1>5

\* They are parts that can be merged again.
LEMMA MergedHasParts ==
    ASSUME NEW kind, NEW lower, NEW upper, WellFormed(lower), WellFormed(upper),
           ContainersOK(kind, lower), ContainersOK(kind, upper),
           ListHasParts(kind, lower), ListHasParts(kind, upper)
    PROVE  ListHasParts(kind, MergeList(kind, lower, upper))
<1> SUFFICES ASSUME NEW k \in DOMAIN MergeList(kind, lower, upper)
             PROVE  HasParts(kind, MergeList(kind, lower, upper)[k])
  BY DEF ListHasParts
<1>1. PICK object : object = MergeList(kind, lower, upper)[k]
  OBVIOUS
<1>2. PartsFrom(kind, lower, upper, object)
  BY <1>1, MergedParts
<1>3. /\ \A i \in DOMAIN lower : HasParts(kind, lower[i])
      /\ \A j \in DOMAIN upper : HasParts(kind, upper[j])
  BY DEF ListHasParts
<1>4. CASE \E i \in DOMAIN lower : object.parts = lower[i].parts
  BY <1>1, <1>3, <1>4 DEF HasParts
<1>5. CASE \E j \in DOMAIN upper : object.parts = upper[j].parts
  BY <1>1, <1>3, <1>5 DEF HasParts
<1>6. ASSUME NEW i \in DOMAIN lower, NEW j \in DOMAIN upper,
             DOMAIN object.parts = PartsOf(kind),
             \A part \in PartsOf(kind) :
                object.parts[part] =
                   MergePart(kind, part, lower[i].parts[part], upper[j].parts[part])
      PROVE  HasParts(kind, object)
  <2> SUFFICES ASSUME NEW part \in PartsOf(kind)
               PROVE  IsPart(kind, part, object.parts[part])
    BY <1>6 DEF HasParts
  <2>1. /\ IsPart(kind, part, lower[i].parts[part])
        /\ IsPart(kind, part, upper[j].parts[part])
    BY <1>3 DEF HasParts
  <2> QED
    BY <1>6, <2>1, PartMerged
<1> QED
  BY <1>1, <1>2, <1>4, <1>5, <1>6 DEF PartsFrom

-----------------------------------------------------------------------------
(* What the layers say of an item. *)

\* A layer's object of that name has an item of that name and value.
Says(kind, object, part, layer, name, value) ==
    \E k \in DOMAIN layer.lists[kind] :
        /\ layer.lists[kind][k].name = object
        /\ HasItem(kind, part, layer.lists[kind][k].parts[part], name, value)

\* So does one in a stack of layers, where it counts: variables of the router do
\* not in the hidden layers.
OfRouter(kind, part, name) ==
    kind = "deploymentConfigs" /\ part = "env" /\ name \in RouterVariables

Source(kind, object, part, stack, hidden, k, name, value) ==
    /\ k \in DOMAIN stack /\ (OfRouter(kind, part, name) => k \notin hidden)
    /\ Says(kind, object, part, stack[k], name, value)

\* That layer gives the name its value: above it the value is left out, if it may
\* be.
Decides(kind, object, part, stack, hidden, k, name, value) ==
    /\ Source(kind, object, part, stack, hidden, k, name, value)
    /\ IsReplacing(kind, part) \/ value # Unset
    /\ \A l, other :
          l > k /\ Source(kind, object, part, stack, hidden, l, name, other)
              => ~IsReplacing(kind, part) /\ other = Unset

\* No layer gives it one.
LeftOut(kind, object, part, stack, hidden, name) ==
    /\ ~IsReplacing(kind, part)
    /\ \E k : Source(kind, object, part, stack, hidden, k, name, Unset)
    /\ \A k, other :
          Source(kind, object, part, stack, hidden, k, name, other) => other = Unset

FromLayers(kind, object, part, items, stack, hidden) ==
    \A name :
        /\ HasNamed(kind, part, items, name)
              <=> \E k, value : Source(kind, object, part, stack, hidden, k, name, value)
        /\ \A value :
              HasItem(kind, part, items, name, value)
                 <=> \/ \E k : Decides(kind, object, part, stack, hidden, k, name, value)
                     \/ value = Unset /\ LeftOut(kind, object, part, stack, hidden, name)

\* One layer more, which may or may not have the object.
LEMMA LayerOnPart ==
    ASSUME NEW kind, NEW object, NEW part, NEW stack, NEW n, NEW layer, NEW topped,
           IsTopped(stack, n, layer, topped), NEW hidden \in SUBSET DOMAIN stack,
           NEW items, FromLayers(kind, object, part, items, stack, hidden),
           \A name, v, w : Says(kind, object, part, layer, name, v)
                             /\ Says(kind, object, part, layer, name, w) => v = w,
           NEW merged,
           \A name, value :
              HasItem(kind, part, merged, name, value)
                 <=> \/ /\ Says(kind, object, part, layer, name, value)
                        /\ \/ IsReplacing(kind, part) \/ value # Unset
                           \/ ~HasNamed(kind, part, items, name)
                     \/ /\ HasItem(kind, part, items, name, value)
                        /\ \/ \A v : ~Says(kind, object, part, layer, name, v)
                           \/ /\ ~IsReplacing(kind, part)
                              /\ Says(kind, object, part, layer, name, Unset)
    PROVE  FromLayers(kind, object, part, merged, topped, hidden)
<1> SUFFICES ASSUME NEW name
             PROVE  /\ HasNamed(kind, part, merged, name)
                         <=> \E k, value :
                                Source(kind, object, part, topped, hidden, k, name, value)
                    /\ \A value :
                         HasItem(kind, part, merged, name, value)
                           <=> \/ \E k : Decides(kind, object, part, topped, hidden, k,
                                                 name, value)
                               \/ /\ value = Unset
                                  /\ LeftOut(kind, object, part, topped, hidden, name)
  BY DEF FromLayers
<1> DEFINE Upper(value) == Says(kind, object, part, layer, name, value)
           Old(k, value) == Source(kind, object, part, stack, hidden, k, name, value)
           New(k, value) == Source(kind, object, part, topped, hidden, k, name, value)
           R == IsReplacing(kind, part)
           Lower(value) == HasItem(kind, part, items, name, value)
           Merged(value) == HasItem(kind, part, merged, name, value)
<1>1. /\ n \in Nat /\ DOMAIN stack = 1..n /\ DOMAIN topped = 1..n + 1
      /\ \A k \in 1..n : k \in 1..n + 1 /\ topped[k] = stack[k]
      /\ n + 1 \in 1..n + 1 /\ topped[n + 1] = layer
      /\ \A k \in 1..n + 1 : k \in 1..n \/ k = n + 1
      /\ n + 1 \notin hidden
      /\ \A k \in 1..n : k # n + 1 /\ n + 1 > k /\ ~(k > n + 1)
      /\ ~(n + 1 > n + 1)
  BY DEF IsTopped
<1>2. \A k, value : New(k, value) <=> \/ Old(k, value)
                                      \/ k = n + 1 /\ Upper(value)
  BY <1>1 DEF Source
<1>3. \A k, value : Old(k, value) => k \in 1..n
  BY <1>1 DEF Source
<1>4. (\E value : Lower(value)) <=> \E k, value : Old(k, value)
  BY DEF FromLayers, HasNamed
<1>5. \A value :
         Lower(value)
            <=> \/ \E k : /\ Old(k, value) /\ (R \/ value # Unset)
                          /\ \A l, other : l > k /\ Old(l, other) => ~R /\ other = Unset
                \/ /\ value = Unset /\ ~R
                   /\ \E k : Old(k, Unset)
                   /\ \A k, other : Old(k, other) => other = Unset
  BY DEF FromLayers, Decides, LeftOut
<1>6. \A value :
         Merged(value)
            <=> \/ /\ Upper(value)
                   /\ R \/ value # Unset \/ ~\E v : Lower(v)
                \/ /\ Lower(value)
                   /\ (\A v : ~Upper(v)) \/ (~R /\ Upper(Unset))
  BY DEF HasNamed
<1>7. \A v, w : Upper(v) /\ Upper(w) => v = w
  OBVIOUS
<1> HIDE DEF Upper, Old, New, R, Lower, Merged
<1>8. (\E value : Merged(value)) <=> \E k, value : New(k, value)
  <2>1. (\E k, value : New(k, value)) <=> \/ \E value : Lower(value)
                                          \/ \E value : Upper(value)
    BY <1>2, <1>4
  <2>2. ASSUME NEW value, Upper(value) PROVE \E v : Merged(v)
    <3>1. CASE R \/ value # Unset \/ ~\E v : Lower(v)
      BY <1>6, <2>2, <3>1
    <3>2. CASE ~(R \/ value # Unset \/ ~\E v : Lower(v))
      <4>1. PICK v : Lower(v)
        BY <3>2
      <4>2. Merged(v)
        BY <1>6, <2>2, <3>2, <4>1
      <4> QED
        BY <4>2
    <3> QED
      BY <3>1, <3>2
  <2>3. ASSUME NEW value, Lower(value), \A v : ~Upper(v) PROVE Merged(value)
    BY <1>6, <2>3
  <2>4. ASSUME NEW value, Merged(value) PROVE Lower(value) \/ Upper(value)
    BY <1>6, <2>4
  <2> QED
    BY <2>1, <2>2, <2>3, <2>4
<1>9. ASSUME NEW value
      PROVE  Merged(value)
                <=> \/ \E k : /\ New(k, value) /\ (R \/ value # Unset)
                              /\ \A l, other : l > k /\ New(l, other)
                                                  => ~R /\ other = Unset
                    \/ /\ value = Unset /\ ~R
                       /\ \E k : New(k, Unset)
                       /\ \A k, other : New(k, other) => other = Unset
  <2>1. CASE \A v : ~Upper(v)
    <3>1. \A k, v : New(k, v) <=> Old(k, v)
      BY <1>2, <2>1
    <3>2. Merged(value) <=> Lower(value)
      BY <1>6, <2>1
    <3> QED
      BY <1>5, <3>1, <3>2
  <2>2. ASSUME NEW u, Upper(u), R \/ u # Unset
        PROVE  Merged(value)
                 <=> \/ \E k : /\ New(k, value) /\ (R \/ value # Unset)
                               /\ \A l, other : l > k /\ New(l, other)
                                                   => ~R /\ other = Unset
                     \/ /\ value = Unset /\ ~R
                        /\ \E k : New(k, Unset)
                        /\ \A k, other : New(k, other) => other = Unset
    <3>1. New(n + 1, u)
      BY <1>2, <2>2
    <3>2. Merged(value) <=> value = u
      BY <1>6, <1>7, <2>2
    <3>3. ASSUME NEW k, New(k, value),
                 \A l, other : l > k /\ New(l, other) => ~R /\ other = Unset
          PROVE  value = u
      <4>1. k \notin 1..n
        BY <1>1, <2>2, <3>1, <3>3
      <4>2. k = n + 1 /\ Upper(value)
        BY <1>2, <1>3, <3>3, <4>1
      <4> QED
        BY <1>7, <2>2, <4>2
    <3>4. ASSUME NEW l, NEW other, l > n + 1, New(l, other) PROVE FALSE
      BY <1>1, <1>2, <1>3, <3>4
    <3>5. ~(~R /\ \A k, other : New(k, other) => other = Unset)
      BY <2>2, <3>1
    <3> QED
      BY <2>2, <3>1, <3>2, <3>3, <3>4, <3>5
  <2>3. CASE Upper(Unset) /\ ~R
    <3>1. Merged(value) <=> Lower(value) \/ (value = Unset /\ ~\E k, v : Old(k, v))
      BY <1>4, <1>6, <1>7, <2>3
    <3>2. ASSUME NEW k, New(k, value), value # Unset,
                 \A l, other : l > k /\ New(l, other) => other = Unset
          PROVE  /\ Old(k, value)
                 /\ \A l, other : l > k /\ Old(l, other) => other = Unset
      BY <1>2, <1>7, <2>3, <3>2
    <3>3. ASSUME NEW k, Old(k, value), value # Unset,
                 \A l, other : l > k /\ Old(l, other) => other = Unset
          PROVE  /\ New(k, value)
                 /\ \A l, other : l > k /\ New(l, other) => other = Unset
      BY <1>2, <1>7, <2>3, <3>3
    <3>4. New(n + 1, Unset)
      BY <1>2, <2>3
    <3>5. (\A k, other : New(k, other) => other = Unset)
             <=> \A k, other : Old(k, other) => other = Unset
      BY <1>2, <1>7, <2>3
    <3>6. (\A k, other : Old(k, other) => other = Unset)
             <=> \/ ~\E k, v : Old(k, v)
                 \/ (\E k : Old(k, Unset)) /\ \A k, other : Old(k, other) => other = Unset
      OBVIOUS
    <3>7. CASE value = Unset
      BY <1>5, <2>3, <3>1, <3>4, <3>5, <3>6, <3>7
    <3>8. CASE value # Unset
      BY <1>5, <2>3, <3>1, <3>2, <3>3, <3>8
    <3> QED
      BY <3>7, <3>8
  <2> QED
    BY <2>1, <2>2, <2>3
<1>10. \A value :
          Merged(value)
            <=> \/ \E k : Decides(kind, object, part, topped, hidden, k, name, value)
                \/ /\ value = Unset
                   /\ LeftOut(kind, object, part, topped, hidden, name)
  BY <1>9 DEF New, R, Decides, LeftOut
<1> QED
  BY <1>8, <1>10 DEF Merged, New, HasNamed

\* Below the lowest layer there is nothing.
LEMMA NothingYet ==
    ASSUME NEW kind, NEW object, NEW part, NEW stack, NEW hidden,
           \A k \in DOMAIN stack : ~Has(stack[k].lists[kind], object)
    PROVE  FromLayers(kind, object, part, <<>>, stack, hidden)
<1>1. \A k, name, value : ~Source(kind, object, part, stack, hidden, k, name, value)
  BY DEF Source, Says, Has, Names
<1>2. \A name, value : ~HasItem(kind, part, <<>>, name, value)
  BY DEF HasItem
<1> QED
  BY <1>1, <1>2 DEF FromLayers, Decides, LeftOut, HasNamed

\* The parts of every object that no layer marks are those of the layers.
Reflects(kind, list, stack, hidden) ==
    \A k \in DOMAIN list : Unmarked(kind, stack, list[k].name) =>
        \A part \in PartsOf(kind) :
            FromLayers(kind, list[k].name, part, list[k].parts[part], stack, hidden)

\* What a layer says is what its one object of that name has.
LEMMA OneObjectSays ==
    ASSUME NEW kind, NEW part, NEW layer, UniqueNames(layer.lists[kind]),
           NEW j \in DOMAIN layer.lists[kind], NEW name, NEW value
    PROVE  Says(kind, layer.lists[kind][j].name, part, layer, name, value)
              <=> HasItem(kind, part, layer.lists[kind][j].parts[part], name, value)
BY DEF Says, UniqueNames

\* A name has one value.
LEMMA ItemIsUnique ==
    ASSUME NEW kind, NEW part, NEW list, IsPart(kind, part, list), NEW name,
           NEW v, NEW w, HasItem(kind, part, list, name, v),
           HasItem(kind, part, list, name, w)
    PROVE  v = w
BY DEF IsPart, HasItem

\* A list merged with the objects of one layer more.
LEMMA ListTopped ==
    ASSUME NEW kind, NEW list, NEW stack, NEW n, NEW layer, NEW topped,
           IsTopped(stack, n, layer, topped), NEW hidden \in SUBSET DOMAIN stack,
           Layered(kind, list, stack), Reflects(kind, list, stack, hidden),
           WellFormed(list), WellFormed(layer.lists[kind]),
           ContainersOK(kind, layer.lists[kind]),
           ListHasParts(kind, list), ListHasParts(kind, layer.lists[kind])
    PROVE  LET merged == MergeList(kind, list, layer.lists[kind])
           IN  /\ ListHasParts(kind, merged)
               /\ Reflects(kind, merged, topped, hidden)
<1>1. PICK upper : upper = layer.lists[kind]
  OBVIOUS
<1>2. PICK merged : merged = MergeList(kind, list, upper)
  OBVIOUS
<1>3. /\ WellFormed(upper) /\ UniqueNames(upper) /\ ContainersOK(kind, upper)
      /\ ListHasParts(kind, upper) /\ ContainersOK(kind, list)
  BY <1>1 DEF WellFormed, Layered
<1>4. ListHasParts(kind, merged)
  BY <1>2, <1>3, MergedHasParts
<1>5. ASSUME NEW k \in DOMAIN merged, Unmarked(kind, topped, merged[k].name),
             NEW part \in PartsOf(kind)
      PROVE  FromLayers(kind, merged[k].name, part, merged[k].parts[part], topped, hidden)
  <2>1. PICK object : object = merged[k].name
    OBVIOUS
  <2>2. PICK items : items = merged[k].parts[part]
    OBVIOUS
  <2>3. Unmarked(kind, stack, object)
    BY <1>5, <2>1 DEF Unmarked, IsTopped
  <2>4. PartsFrom(kind, list, upper, merged[k])
    BY <1>2, <1>3, MergedParts
  <2>5. \A name, v, w : Says(kind, object, part, layer, name, v)
                          /\ Says(kind, object, part, layer, name, w) => v = w
    <3> SUFFICES ASSUME NEW name, NEW v, NEW w,
                        Says(kind, object, part, layer, name, v),
                        Says(kind, object, part, layer, name, w)
                 PROVE  v = w
      OBVIOUS
    <3>1. PICK j \in DOMAIN upper :
             upper[j].name = object /\ HasItem(kind, part, upper[j].parts[part], name, v)
      BY <1>1 DEF Says
    <3>2. HasItem(kind, part, upper[j].parts[part], name, w)
      BY <1>1, <1>3, <3>1, OneObjectSays
    <3>3. IsPart(kind, part, upper[j].parts[part])
      BY <1>3 DEF ListHasParts, HasParts
    <3> QED
      BY <3>1, <3>2, <3>3, ItemIsUnique
  <2>6. ASSUME NEW below, FromLayers(kind, object, part, below, stack, hidden),
               \A name, value :
                  HasItem(kind, part, items, name, value)
                     <=> \/ /\ Says(kind, object, part, layer, name, value)
                            /\ \/ IsReplacing(kind, part) \/ value # Unset
                               \/ ~HasNamed(kind, part, below, name)
                         \/ /\ HasItem(kind, part, below, name, value)
                            /\ \/ \A v : ~Says(kind, object, part, layer, name, v)
                               \/ /\ ~IsReplacing(kind, part)
                                  /\ Says(kind, object, part, layer, name, Unset)
        PROVE  FromLayers(kind, object, part, items, topped, hidden)
    BY <2>5, <2>6, LayerOnPart
  <2>7. ASSUME NEW i \in DOMAIN list, list[i].name = object
        PROVE  FromLayers(kind, object, part, list[i].parts[part], stack, hidden)
    BY <1>5, <2>3, <2>7 DEF Reflects
  <2>8. CASE /\ ~Has(upper, object)
             /\ \E i \in DOMAIN list : list[i].name = object
                                       /\ merged[k].parts = list[i].parts
    <3>1. PICK i \in DOMAIN list : list[i].name = object /\ items = list[i].parts[part]
      BY <2>2, <2>8
    <3>2. \A name, value : ~Says(kind, object, part, layer, name, value)
      BY <1>1, <2>8 DEF Says, Has, Names
    <3>3. FromLayers(kind, object, part, items, stack, hidden)
      BY <2>7, <3>1
    <3> QED
      BY <2>1, <2>2, <2>6, <3>2, <3>3
  <2>9. CASE /\ ~Has(list, object)
             /\ \E j \in DOMAIN upper : upper[j].name = object
                                        /\ merged[k].parts = upper[j].parts
    <3>1. PICK j \in DOMAIN upper : upper[j].name = object /\ items = upper[j].parts[part]
      BY <2>2, <2>9
    <3>2. \A name, value : Says(kind, object, part, layer, name, value)
                              <=> HasItem(kind, part, items, name, value)
      BY <1>1, <1>3, <3>1, OneObjectSays
    <3>3. FromLayers(kind, object, part, <<>>, stack, hidden)
      <4>1. ~Shows(list, object)
        BY <2>9 DEF Shows, Has, Names
      <4>2. ~Brought(kind, stack, object)
        BY <2>3, <4>1 DEF Layered
      <4> QED
        BY <4>2, NothingYet DEF Brought
    <3>4. \A name, value : ~HasItem(kind, part, <<>>, name, value)
      BY DEF HasItem
    <3>5. \A name : ~HasNamed(kind, part, <<>>, name)
      BY <3>4 DEF HasNamed
    <3> QED
      BY <2>1, <2>2, <2>6, <3>2, <3>3, <3>4, <3>5
  <2>10. ASSUME NEW i \in DOMAIN list, NEW j \in DOMAIN upper,
                list[i].name = object, upper[j].name = object,
                items = MergePart(kind, part, list[i].parts[part], upper[j].parts[part])
         PROVE  FromLayers(kind, object, part, items, topped, hidden)
    <3>1. PICK below : below = list[i].parts[part]
      OBVIOUS
    <3>2. PICK above : above = upper[j].parts[part]
      OBVIOUS
    <3>3. IsPart(kind, part, below) /\ IsPart(kind, part, above)
      BY <1>3, <1>5, <3>1, <3>2 DEF ListHasParts, HasParts
    <3>4. IsMerged(kind, part, below, above, items)
      BY <2>10, <3>1, <3>2, <3>3, PartMerged
    <3>5. \A name, value : Says(kind, object, part, layer, name, value)
                              <=> HasItem(kind, part, above, name, value)
      BY <1>1, <1>3, <2>10, <3>2, OneObjectSays
    <3>6. FromLayers(kind, object, part, below, stack, hidden)
      BY <2>7, <2>10, <3>1
    <3>7. ASSUME NEW name, NEW value
          PROVE  HasItem(kind, part, items, name, value)
                   <=> \/ /\ Says(kind, object, part, layer, name, value)
                          /\ \/ IsReplacing(kind, part) \/ value # Unset
                             \/ ~HasNamed(kind, part, below, name)
                       \/ /\ HasItem(kind, part, below, name, value)
                          /\ \/ \A v : ~Says(kind, object, part, layer, name, v)
                             \/ /\ ~IsReplacing(kind, part)
                                /\ Says(kind, object, part, layer, name, Unset)
      BY <3>4, <3>5 DEF IsMerged, HasNamed
    <3> QED
      BY <2>6, <3>6, <3>7
  <2> QED
    BY <1>5, <2>1, <2>2, <2>4, <2>8, <2>9, <2>10 DEF PartsFrom
<1> QED
  BY <1>1, <1>2, <1>4, <1>5 DEF Reflects

-----------------------------------------------------------------------------
(* The parts of a server. *)

ServerReflects(server, stack, hidden) ==
    \A kind \in Kinds : /\ ListHasParts(kind, server.lists[kind])
                        /\ Reflects(kind, server.lists[kind], stack, hidden)

LayerHasParts(layer) == \A kind \in Kinds : ListHasParts(kind, layer.lists[kind])

\* The lowest layer says what it has.
LEMMA FirstParts ==
    ASSUME NEW layer, IsCustomObject(layer), LayerHasParts(layer)
    PROVE  ServerReflects(layer, <<layer>>, {})
<1> SUFFICES ASSUME NEW kind \in Kinds, NEW k \in DOMAIN layer.lists[kind],
                    NEW part \in PartsOf(kind)
             PROVE  FromLayers(kind, layer.lists[kind][k].name, part,
                               layer.lists[kind][k].parts[part], <<layer>>, {})
  BY DEF ServerReflects, Reflects, LayerHasParts
<1>1. IsTopped(<<>>, 0, layer, <<layer>>)
  BY DEF IsTopped
<1>2. UniqueNames(layer.lists[kind])
  BY DEF IsCustomObject, WellFormed
<1>3. PICK items : items = layer.lists[kind][k].parts[part]
  OBVIOUS
<1>4. PICK object : object = layer.lists[kind][k].name
  OBVIOUS
<1>5. IsPart(kind, part, items)
  BY <1>3 DEF LayerHasParts, ListHasParts, HasParts
<1>6. \A name, value : Says(kind, object, part, layer, name, value)
                          <=> HasItem(kind, part, items, name, value)
  BY <1>2, <1>3, <1>4, OneObjectSays
<1>7. FromLayers(kind, object, part, <<>>, <<>>, {})
  BY NothingYet
<1>8. \A name, value : ~HasItem(kind, part, <<>>, name, value)
  BY DEF HasItem
<1>9. \A name : ~HasNamed(kind, part, <<>>, name)
  BY <1>8 DEF HasNamed
<1>10. \A name, v, w : Says(kind, object, part, layer, name, v)
                         /\ Says(kind, object, part, layer, name, w) => v = w
  BY <1>5, <1>6, ItemIsUnique
<1>11. {} \in SUBSET DOMAIN <<>>
  OBVIOUS
<1>12. \A name, value :
          HasItem(kind, part, items, name, value)
             <=> \/ /\ Says(kind, object, part, layer, name, value)
                    /\ \/ IsReplacing(kind, part) \/ value # Unset
                       \/ ~HasNamed(kind, part, <<>>, name)
                 \/ /\ HasItem(kind, part, <<>>, name, value)
                    /\ \/ \A v : ~Says(kind, object, part, layer, name, v)
                       \/ /\ ~IsReplacing(kind, part)
                          /\ Says(kind, object, part, layer, name, Unset)
  BY <1>6, <1>8, <1>9
<1>13. FromLayers(kind, object, part, items, <<layer>>, {})
  BY <1>1, <1>7, <1>10, <1>11, <1>12, LayerOnPart
<1> QED
  BY <1>3, <1>4, <1>13

\* A server merged with one layer more.
LEMMA ServerPartsTopped ==
    ASSUME NEW lower, NEW upper, NEW stack, NEW n, NEW topped,
           NEW hidden \in SUBSET DOMAIN stack,
           IsTopped(stack, n, upper, topped), AsLayered(lower, stack),
           IsCustomObject(lower), IsCustomObject(upper), Single(upper),
           ServerReflects(lower, stack, hidden), LayerHasParts(upper)
    PROVE  ServerReflects(MergeCustomObject(lower, upper), topped, hidden)
<1> SUFFICES ASSUME NEW kind \in Kinds
             PROVE  LET merged == MergeCustomObject(lower, upper).lists[kind]
                    IN  /\ ListHasParts(kind, merged)
                        /\ Reflects(kind, merged, topped, hidden)
  BY DEF ServerReflects
<1>1. /\ WellFormed(lower.lists[kind]) /\ WellFormed(upper.lists[kind])
      /\ ContainersOK(kind, upper.lists[kind])
      /\ Layered(kind, lower.lists[kind], stack)
      /\ ListHasParts(kind, lower.lists[kind]) /\ ListHasParts(kind, upper.lists[kind])
      /\ Reflects(kind, lower.lists[kind], stack, hidden)
  BY DEF IsCustomObject, Single, AsLayered, ServerReflects, LayerHasParts
<1>2. PICK list : list = lower.lists[kind]
  OBVIOUS
<1>3. PICK merged : merged = MergeList(kind, list, upper.lists[kind])
  OBVIOUS
<1>4. ListHasParts(kind, merged) /\ Reflects(kind, merged, topped, hidden)
  BY <1>1, <1>2, <1>3, ListTopped
<1> QED
  BY <1>2, <1>3, <1>4 DEF MergeCustomObject

\* Without the router's variables, the layers merged so far do not count for them.
LEMMA VariablesRemoved ==
    ASSUME NEW kind, NEW list, IsPart(kind, "env", list)
    PROVE  LET kept == WithoutRouter(list)
           IN  /\ IsPart(kind, "env", kept)
               /\ \A name, value :
                     HasItem(kind, "env", kept, name, value)
                        <=> /\ HasItem(kind, "env", list, name, value)
                            /\ name \notin RouterVariables
<1>1. PICK positions : positions = {n \in DOMAIN list : list[n].name \notin RouterVariables}
  OBVIOUS
<1>2. positions \in SUBSET DOMAIN list
  BY <1>1
<1>3. PICK kept : kept = Pick(list, positions)
  OBVIOUS
<1>4. IsPart(kind, "env", kept)
  BY <1>2, <1>3, PickedPart
<1>5. ASSUME NEW name, NEW value
      PROVE  HasItem(kind, "env", kept, name, value)
               <=> /\ HasItem(kind, "env", list, name, value)
                   /\ name \notin RouterVariables
  <2>1. HasItem(kind, "env", kept, name, value)
          <=> \E i \in positions : /\ list[i].name = name /\ list[i].value = value
                                   /\ ~StandsAlone(kind, "env", list[i])
    BY <1>2, <1>3, PickedHas
  <2> QED
    BY <1>1, <2>1 DEF HasItem
<1>6. kept = WithoutRouter(list)
  BY <1>1, <1>3 DEF WithoutRouter
<1> QED
  BY <1>4, <1>5, <1>6

\* The layers so far no longer count for the router's variables.
LEMMA RouterHidden ==
    ASSUME NEW object, NEW stack, NEW items, NEW kept,
           LET kind == "deploymentConfigs"
           IN  /\ FromLayers(kind, object, "env", items, stack, {})
               /\ \A name, value :
                     HasItem(kind, "env", kept, name, value)
                        <=> /\ HasItem(kind, "env", items, name, value)
                            /\ name \notin RouterVariables
    PROVE  FromLayers("deploymentConfigs", object, "env", kept, stack, DOMAIN stack)
<1> DEFINE kind == "deploymentConfigs"
           Old(k, name, value) == Source(kind, object, "env", stack, {}, k, name, value)
           New(k, name, value) ==
               Source(kind, object, "env", stack, DOMAIN stack, k, name, value)
<1>1. \A k, name, value :
          New(k, name, value) <=> Old(k, name, value) /\ name \notin RouterVariables
  BY DEF Source, OfRouter
<1>2. ASSUME NEW name, name \in RouterVariables
      PROVE  \A value : ~HasItem(kind, "env", kept, name, value)
  BY <1>2
<1>3. ASSUME NEW name, name \notin RouterVariables
      PROVE  /\ \A value : HasItem(kind, "env", kept, name, value)
                             <=> HasItem(kind, "env", items, name, value)
             /\ \A k, value : New(k, name, value) <=> Old(k, name, value)
  BY <1>1, <1>3
<1>4. \A name :
          /\ HasNamed(kind, "env", items, name) <=> \E k, value : Old(k, name, value)
          /\ \A value :
                HasItem(kind, "env", items, name, value)
                   <=> \/ \E k : Decides(kind, object, "env", stack, {}, k, name, value)
                       \/ /\ value = Unset
                          /\ LeftOut(kind, object, "env", stack, {}, name)
  BY DEF FromLayers
<1> SUFFICES ASSUME NEW name
             PROVE  /\ HasNamed(kind, "env", kept, name)
                          <=> \E k, value : New(k, name, value)
                    /\ \A value :
                          HasItem(kind, "env", kept, name, value)
                            <=> \/ \E k : Decides(kind, object, "env", stack,
                                                  DOMAIN stack, k, name, value)
                                \/ /\ value = Unset
                                   /\ LeftOut(kind, object, "env", stack,
                                              DOMAIN stack, name)
  BY DEF FromLayers
<1>5. CASE name \in RouterVariables
  <2>1. \A k, value : ~New(k, name, value)
    BY <1>1, <1>5
  <2> QED
    BY <1>2, <1>5, <2>1 DEF HasNamed, Decides, LeftOut
<1>6. CASE name \notin RouterVariables
  <2>1. \A k, value : Decides(kind, object, "env", stack, DOMAIN stack, k, name, value)
                         <=> Decides(kind, object, "env", stack, {}, k, name, value)
    BY <1>3, <1>6 DEF Decides
  <2>2. LeftOut(kind, object, "env", stack, DOMAIN stack, name)
          <=> LeftOut(kind, object, "env", stack, {}, name)
    BY <1>3, <1>6 DEF LeftOut
  <2> HIDE DEF Old, New
  <2> QED
    BY <1>3, <1>4, <1>6, <2>1, <2>2 DEF HasNamed
<1> QED
  BY <1>5, <1>6

\* For all other items they do.
LEMMA NothingHidden ==
    ASSUME NEW kind, NEW object, NEW part, NEW items, NEW stack,
           kind # "deploymentConfigs" \/ part # "env",
           FromLayers(kind, object, part, items, stack, {})
    PROVE  FromLayers(kind, object, part, items, stack, DOMAIN stack)
<1>1. \A k, name, value :
         Source(kind, object, part, stack, DOMAIN stack, k, name, value)
            <=> Source(kind, object, part, stack, {}, k, name, value)
  BY DEF Source, OfRouter
<1> QED
  BY <1>1 DEF FromLayers, Decides, LeftOut

\* New variables leave the other parts alone.
LEMMA EnvParts ==
    ASSUME NEW object, IsObject(object), HasParts("deploymentConfigs", object),
           NEW variables
    PROVE  LET replaced == WithEnv(object, variables)
           IN  /\ DOMAIN replaced.parts = PartsOf("deploymentConfigs")
               /\ replaced.parts["env"] = variables
               /\ \A part \in PartsOf("deploymentConfigs") \ {"env"} :
                     replaced.parts[part] = object.parts[part]
BY DEF WithEnv, IsObject, HasParts, PartsOf

\* The deployment configs of a server without the router's variables.
LEMMA RouterServer ==
    ASSUME NEW server, IsCustomObject(server), NEW stack,
           ServerReflects(server, stack, {})
    PROVE  ServerReflects(WithoutRouterVariables(server), stack, DOMAIN stack)
<1> DEFINE dc == "deploymentConfigs"
<1>1. PICK old : old = server.lists["deploymentConfigs"]
  OBVIOUS
<1>2. PICK dcs : dcs = [k \in DOMAIN old |->
                          WithEnv(old[k], WithoutRouter(old[k].parts["env"]))]
  OBVIOUS
<1>3. WithoutRouterVariables(server) = [server EXCEPT !.lists["deploymentConfigs"] = dcs]
  BY <1>1, <1>2 DEF WithoutRouterVariables, IsCustomObject, Kinds
<1>4. /\ IsList(old) /\ ListHasParts(dc, old) /\ Reflects(dc, old, stack, {})
  BY <1>1 DEF IsCustomObject, Kinds, WellFormed, ServerReflects
<1>5. DOMAIN dcs = DOMAIN old /\ Len(dcs) = Len(old)
  BY <1>2, <1>4 DEF IsList
<1>6. ASSUME NEW k \in DOMAIN old
      PROVE  /\ IsObject(dcs[k]) /\ dcs[k].name = old[k].name
             /\ DOMAIN dcs[k].parts = PartsOf(dc)
             /\ dcs[k].parts["env"] = WithoutRouter(old[k].parts["env"])
             /\ \A part \in PartsOf(dc) \ {"env"} : dcs[k].parts[part] = old[k].parts[part]
  <2>1. PICK variables : variables = WithoutRouter(old[k].parts["env"])
    OBVIOUS
  <2>2. dcs[k] = WithEnv(old[k], variables)
    BY <1>2, <2>1
  <2>3. IsObject(old[k]) /\ HasParts(dc, old[k])
    BY <1>4 DEF IsList, ListHasParts
  <2> QED
    BY <2>1, <2>2, <2>3, EnvReplaced, EnvParts
<1>7. /\ WithoutRouterVariables(server).lists[dc] = dcs
      /\ \A kind \in Kinds \ {dc} :
            WithoutRouterVariables(server).lists[kind] = server.lists[kind]
  BY <1>1, <1>3, <1>5, <1>6, DCsReplaced
<1>8. ASSUME NEW k \in DOMAIN old
      PROVE  LET kept == dcs[k].parts["env"]
             IN  /\ IsPart(dc, "env", kept)
                 /\ \A name, value :
                       HasItem(dc, "env", kept, name, value)
                          <=> /\ HasItem(dc, "env", old[k].parts["env"], name, value)
                              /\ name \notin RouterVariables
  <2>1. IsPart(dc, "env", old[k].parts["env"])
    BY <1>4 DEF ListHasParts, HasParts, PartsOf
  <2> QED
    BY <1>6, <2>1, VariablesRemoved
<1>9. ListHasParts(dc, dcs)
  <2> SUFFICES ASSUME NEW k \in DOMAIN old, NEW part \in PartsOf(dc)
               PROVE  IsPart(dc, part, dcs[k].parts[part])
    BY <1>5, <1>6 DEF ListHasParts, HasParts
  <2>1. CASE part = "env"
    BY <1>8, <2>1
  <2>2. CASE part # "env"
    BY <1>4, <1>6, <2>2 DEF ListHasParts, HasParts
  <2> QED
    BY <2>1, <2>2
<1>10. Reflects(dc, dcs, stack, DOMAIN stack)
  <2> SUFFICES ASSUME NEW k \in DOMAIN old, Unmarked(dc, stack, old[k].name),
                      NEW part \in PartsOf(dc)
               PROVE  FromLayers(dc, old[k].name, part, dcs[k].parts[part], stack,
                                 DOMAIN stack)
    BY <1>5, <1>6 DEF Reflects
  <2>1. FromLayers(dc, old[k].name, part, old[k].parts[part], stack, {})
    BY <1>4 DEF Reflects
  <2>2. CASE part = "env"
    <3>1. PICK kept : kept = dcs[k].parts["env"]
      OBVIOUS
    <3>2. PICK items : items = old[k].parts["env"]
      OBVIOUS
    <3>3. \A name, value :
             HasItem(dc, "env", kept, name, value)
                <=> /\ HasItem(dc, "env", items, name, value)
                    /\ name \notin RouterVariables
      BY <1>8, <3>1, <3>2
    <3>4. FromLayers(dc, old[k].name, "env", items, stack, {})
      BY <2>1, <2>2, <3>2
    <3>5. FromLayers(dc, old[k].name, "env", kept, stack, DOMAIN stack)
      BY <3>3, <3>4, RouterHidden
    <3> QED
      BY <2>2, <3>1, <3>5
  <2>3. CASE part # "env"
    <3>1. dcs[k].parts[part] = old[k].parts[part]
      BY <1>6, <2>3
    <3> QED
      BY <2>1, <2>3, <3>1, NothingHidden
  <2> QED
    BY <2>2, <2>3
<1>11. ASSUME NEW kind \in Kinds \ {dc}
       PROVE  /\ ListHasParts(kind, server.lists[kind])
              /\ Reflects(kind, server.lists[kind], stack, DOMAIN stack)
  <2>1. /\ ListHasParts(kind, server.lists[kind])
        /\ Reflects(kind, server.lists[kind], stack, {})
    BY DEF ServerReflects
  <2>2. PICK list : list = server.lists[kind]
    OBVIOUS
  <2>3. \A k \in DOMAIN list : Unmarked(kind, stack, list[k].name) =>
           \A part \in PartsOf(kind) :
              FromLayers(kind, list[k].name, part, list[k].parts[part], stack, {})
    BY <2>1, <2>2 DEF Reflects
  <2>4. Reflects(kind, list, stack, DOMAIN stack)
    BY <1>11, <2>3, NothingHidden DEF Reflects
  <2> QED
    BY <2>1, <2>2, <2>4
<1> QED
  BY <1>7, <1>9, <1>10, <1>11 DEF ServerReflects

\* The given layers have the parts of their kinds.
LEMMA GivenParts ==
    ASSUME Given
    PROVE  /\ \A i \in DOMAIN cr.servers : LayerHasParts(layers.common[i])
           /\ \A i \in DOMAIN layers.env : LayerHasParts(layers.env[i])
           /\ \A i \in DOMAIN cr.servers :
                 cr.servers[i].database # NoDatabase =>
                    LayerHasParts(layers.databases[cr.servers[i].database])
           /\ LayerHasParts(layers.jms)
           /\ IsItems(cr.env)
<1>1. \A layer \in CommonLayers \cup UpperLayers : LayerHasParts(layer)
  BY PartsAssumption DEF PartsAssumption, LayerHasParts, ListHasParts
<1>2. IsItems(cr.env)
  BY PartsAssumption DEF PartsAssumption, Given
<1> QED
  BY <1>1, <1>2, GivenLayers DEF Given

AtMostOneJms == Cardinality({i \in DOMAIN cr.servers : cr.servers[i].jms}) <= 1

\* Then the JMS template is not rendered again.
LEMMA RenderedOnce ==
    ASSUME Given, AtMostOneJms, NEW n \in DOMAIN cr.servers
    PROVE  ~(cr.servers[n].jms /\ UsesJms(n - 1))
<1> SUFFICES ASSUME cr.servers[n].jms, UsesJms(n - 1) PROVE FALSE
  OBVIOUS
<1>1. DOMAIN cr.servers = 1..Len(cr.servers) /\ Len(cr.servers) \in Nat
  BY DEF Given
<1>2. PICK j \in 1..n - 1 : cr.servers[j].jms
  BY DEF UsesJms
<1>3. j \in DOMAIN cr.servers /\ j # n
  BY <1>1
<1> DEFINE users == {i \in DOMAIN cr.servers : cr.servers[i].jms}
<1>4. users \in SUBSET (1..Len(cr.servers)) /\ j \in users /\ n \in users /\ j < n
  BY <1>1, <1>2, <1>3
<1> HIDE DEF users
<1>5. /\ Cardinality(users) \in Nat
      /\ Rank(users, j) \in 1..Cardinality(users)
      /\ Rank(users, n) \in 1..Cardinality(users)
      /\ Rank(users, j) < Rank(users, n)
  BY <1>1, <1>4, Ranks
<1>6. ~(Cardinality(users) <= 1)
  BY <1>5
<1> QED
  BY <1>6 DEF AtMostOneJms, users

-----------------------------------------------------------------------------
(* The steps. *)

\* Without a router, the layers merged before its variables are removed are
\* hidden from then on.
HiddenLayers(i) ==
    IF cr.smartRouter \/ pc = "router" THEN {} ELSE DOMAIN BaseLayers(i)

Filled ==
    SingleContainers /\ AtMostOneJms /\ pc \in Merging \ {"done"} =>
        \A i \in DOMAIN cr.servers :
            ServerReflects(servers[i], LayersSoFar(i), HiddenLayers(i))

\* After the first merge: the common layer and the environment's.
LEMMA MergeParts ==
    ASSUME Given, Progress, Merge, SingleContainers, pc' \in Merging,
           NEW i \in DOMAIN cr.servers
    PROVE  ServerReflects(servers'[i], BaseLayers(i), {})
<1>1. /\ ~Incompatible(layers.common, layers.env)
      /\ servers' = MergeCustomObjects(layers.common, layers.env)
  BY DEF Merge, Merging
<1>2. /\ AsLayered(layers.common[i], <<layers.common[i]>>)
      /\ IsCustomObject(layers.common[i]) /\ LayerHasParts(layers.common[i])
  BY SingleLayers, FirstLayer, GivenLayers, GivenParts DEF Single, AsLayered
<1>3. ServerReflects(layers.common[i], <<layers.common[i]>>, {})
  BY <1>2, FirstParts
<1>4. CASE layers.env = <<>>
  BY <1>1, <1>3, <1>4, Stacks DEF MergeCustomObjects
<1>5. CASE layers.env # <<>>
  <2>1. /\ layers.common # <<>> /\ DOMAIN layers.common = DOMAIN cr.servers
        /\ DOMAIN layers.env = DOMAIN layers.common
    BY <1>1, <1>5 DEF Given, Incompatible
  <2>2. servers'[i] = MergeCustomObject(layers.common[i], layers.env[i])
    BY <1>1, <1>5, <2>1 DEF MergeCustomObjects
  <2>3. IsCustomObject(layers.env[i]) /\ LayerHasParts(layers.env[i])
    BY <2>1, GivenLayers, GivenParts
  <2>4. /\ Single(layers.env[i])
        /\ IsTopped(<<layers.common[i]>>, 1, layers.env[i], BaseLayers(i))
    BY <1>5, SingleLayers, Stacks
  <2>5. PICK stack : stack = <<layers.common[i]>>
    OBVIOUS
  <2>6. {} \in SUBSET DOMAIN stack
    OBVIOUS
  <2>7. ServerReflects(MergeCustomObject(layers.common[i], layers.env[i]), BaseLayers(i), {})
    BY <1>2, <1>3, <2>3, <2>4, <2>5, <2>6, ServerPartsTopped
  <2> QED
    BY <2>2, <2>7
<1> QED
  BY <1>4, <1>5

\* The hidden layers lie below those of the loops.
LEMMA HiddenBelow ==
    ASSUME NEW i
    PROVE  /\ HiddenLayers(i) \in SUBSET DOMAIN BaseLayers(i)
           /\ HiddenLayers(i) \in SUBSET DOMAIN WithDatabase(i)
<1>1. DOMAIN BaseLayers(i) \subseteq DOMAIN WithDatabase(i)
  BY Stacks DEF IsTopped
<1>2. HiddenLayers(i) \in SUBSET DOMAIN BaseLayers(i)
  BY DEF HiddenLayers
<1> QED
  BY <1>1, <1>2

\* A round of mergeDB adds the database's layer.
LEMMA MergeDBParts ==
    ASSUME Given, Progress, InFront, Layering, Filled, MergeDB, SingleContainers,
           AtMostOneJms, NEW i \in DOMAIN cr.servers
    PROVE  ServerReflects(servers'[i],
                          IF i <= next THEN WithDatabase(i) ELSE BaseLayers(i),
                          HiddenLayers(i))
<1> DEFINE database == cr.servers[i].database
           layer == layers.databases[database]
<1>1. /\ pc = "mergeDB" /\ pc \in Merging /\ pc # "done" /\ IsCustomObject(servers[i])
      /\ next \in Int /\ i \in Int
  BY DEF MergeDB, Progress, Merging, Given
<1>2. /\ AsLayered(servers[i], LayersSoFar(i))
      /\ ServerReflects(servers[i], LayersSoFar(i), HiddenLayers(i))
      /\ LayersSoFar(i) = IF next <= i THEN BaseLayers(i) ELSE WithDatabase(i)
  BY <1>1 DEF Layering, LayersSoFar, Filled
<1>3. servers'[i] = IF i = next /\ database # NoDatabase /\ IsFound(servers[i], layer)
                    THEN MergeCustomObject(servers[i], layer) ELSE servers[i]
  BY DBProgress
<1>4. CASE i # next
  <2>1. next <= i <=> ~(i <= next)
    BY <1>1, <1>4
  <2> QED
    BY <1>2, <1>3, <1>4, <2>1
<1>5. CASE i = next /\ database = NoDatabase
  <2>1. WithDatabase(i) = BaseLayers(i)
    BY <1>5, Stacks
  <2> QED
    BY <1>2, <1>3, <1>5, <2>1
<1>6. CASE i = next /\ database # NoDatabase
  <2>1. /\ layer \in FoundLayers /\ IsCustomObject(layer) /\ Single(layer)
        /\ LayerHasParts(layer)
    BY <1>6, GivenLayers, GivenParts, SingleLayers
  <2>2. IsFound(servers[i], layer)
    <3>1. Leads(servers[i].lists["deploymentConfigs"], OwnName(i))
      BY <1>1 DEF InFront
    <3> QED
      BY <2>1, <3>1, OwnIsFound
  <2>3. PICK n : IsTopped(BaseLayers(i), n, layer, WithDatabase(i))
    BY <1>6, Stacks
  <2>4. /\ AsLayered(servers[i], BaseLayers(i))
        /\ ServerReflects(servers[i], BaseLayers(i), HiddenLayers(i))
    BY <1>1, <1>2, <1>6
  <2> HIDE DEF layer
  <2>5. ServerReflects(MergeCustomObject(servers[i], layer), WithDatabase(i),
                       HiddenLayers(i))
    BY <1>1, <2>1, <2>3, <2>4, HiddenBelow, ServerPartsTopped
  <2> QED
    BY <1>1, <1>3, <1>6, <2>2, <2>5
<1> QED
  BY <1>4, <1>5, <1>6

\* A round of mergeJms adds the JMS layer.
LEMMA MergeJmsParts ==
    ASSUME Given, Progress, InFront, Layering, Filled, MergeJms, SingleContainers,
           AtMostOneJms, NEW i \in DOMAIN cr.servers
    PROVE  ServerReflects(servers'[i],
                          IF i <= next THEN MergedLayers(i) ELSE WithDatabase(i),
                          HiddenLayers(i))
<1>1. /\ pc = "mergeJms" /\ pc \in Merging /\ pc # "done" /\ IsCustomObject(servers[i])
      /\ next \in Int /\ i \in Int /\ next \in DOMAIN cr.servers
  BY DEF MergeJms, Progress, Merging, Given
<1>2. /\ AsLayered(servers[i], LayersSoFar(i))
      /\ ServerReflects(servers[i], LayersSoFar(i), HiddenLayers(i))
      /\ LayersSoFar(i) = IF next <= i THEN WithDatabase(i) ELSE MergedLayers(i)
  BY <1>1 DEF Layering, LayersSoFar, Filled
<1>3. servers'[i] = IF i = next /\ UsesJms(i) /\ IsFound(servers[i], layers.jms)
                    THEN MergeCustomObject(servers[i], layers.jms) ELSE servers[i]
  BY <1>1, JmsProgress, RenderedOnce
<1>4. CASE i # next
  <2>1. next <= i <=> ~(i <= next)
    BY <1>1, <1>4
  <2> QED
    BY <1>2, <1>3, <1>4, <2>1
<1>5. CASE i = next /\ ~UsesJms(i)
  <2>1. WithDatabase(i) = MergedLayers(i)
    BY <1>5, Stacks
  <2> QED
    BY <1>2, <1>3, <1>5, <2>1
<1>6. CASE i = next /\ UsesJms(i)
  <2>1. /\ layers.jms \in FoundLayers /\ IsCustomObject(layers.jms) /\ Single(layers.jms)
        /\ LayerHasParts(layers.jms)
    BY <1>6, GivenLayers, GivenParts, SingleLayers
  <2>2. IsFound(servers[i], layers.jms)
    <3>1. Leads(servers[i].lists["deploymentConfigs"], OwnName(i))
      BY <1>1 DEF InFront
    <3> QED
      BY <2>1, <3>1, OwnIsFound
  <2>3. PICK n : IsTopped(WithDatabase(i), n, layers.jms, MergedLayers(i))
    BY <1>6, Stacks
  <2>4. /\ AsLayered(servers[i], WithDatabase(i))
        /\ ServerReflects(servers[i], WithDatabase(i), HiddenLayers(i))
    BY <1>1, <1>2, <1>6
  <2>5. ServerReflects(MergeCustomObject(servers[i], layers.jms), MergedLayers(i),
                       HiddenLayers(i))
    BY <1>1, <2>1, <2>3, <2>4, HiddenBelow, ServerPartsTopped
  <2> QED
    BY <1>1, <1>3, <1>6, <2>2, <2>5
<1> QED
  BY <1>4, <1>5, <1>6

\* Removing the router's variables hides the layers so far.
LEMMA RouterParts ==
    ASSUME Given, Progress, Filled, RemoveRouterVariables, pc' = "mergeDB",
           SingleContainers, AtMostOneJms, NEW i \in DOMAIN cr.servers
    PROVE  ServerReflects(servers'[i], BaseLayers(i),
                          IF cr.smartRouter THEN {} ELSE DOMAIN BaseLayers(i))
<1>1. /\ pc = "router" /\ pc \in Merging /\ pc # "done" /\ IsCustomObject(servers[i])
      /\ DOMAIN servers = DOMAIN cr.servers
  BY DEF RemoveRouterVariables, Progress, Merging
<1>2. ServerReflects(servers[i], BaseLayers(i), {})
  BY <1>1 DEF Filled, LayersSoFar, HiddenLayers
<1>3. CASE cr.smartRouter
  BY <1>2, <1>3 DEF RemoveRouterVariables
<1>4. CASE ~cr.smartRouter
  <2>1. servers'[i] = WithoutRouterVariables(servers[i])
    BY <1>1, <1>4 DEF RemoveRouterVariables
  <2> QED
    BY <1>1, <1>2, <1>4, <2>1, RouterServer
<1> QED
  BY <1>3, <1>4

\* Every step keeps the items of the servers what their layers so far say.
LEMMA FilledStep ==
    Given /\ Progress /\ InFront /\ Layering /\ Filled /\ [Next]_vars => Filled'
<1> SUFFICES ASSUME Given, Progress, InFront, Layering, Filled, [Next]_vars,
                    SingleContainers', AtMostOneJms', pc' \in Merging \ {"done"},
                    NEW i \in DOMAIN cr.servers'
             PROVE  ServerReflects(servers'[i], LayersSoFar(i)', HiddenLayers(i)')
  BY DEF Filled
<1>1. cr' = cr /\ layers' = layers
  BY DEF Next, vars, Merge, RemoveRouterVariables, MergeDB, MergeJms, Consolidate,
         LoadFails
<1>2. /\ BaseLayers(i)' = BaseLayers(i) /\ WithDatabase(i)' = WithDatabase(i)
      /\ \A j : MergedLayers(j)' = MergedLayers(j)
  BY <1>1 DEF MergedLayers, BaseLayers, WithDatabase, UsesJms
<1>3. SingleContainers /\ AtMostOneJms
  BY <1>1, SameTemplates DEF AtMostOneJms
<1>4. /\ i \in DOMAIN cr.servers /\ i \in 1..Len(cr.servers) /\ next \in 1..Len(cr.servers)
      /\ Len(cr.servers) \in Nat /\ pc' \in Merging
  BY <1>1 DEF Given, Progress
<1>5. LayersSoFar(i)' = IF pc' = "router" \/ (pc' = "mergeDB" /\ next' <= i)
                        THEN BaseLayers(i)
                        ELSE IF pc' = "mergeDB" \/ (pc' = "mergeJms" /\ next' <= i)
                        THEN WithDatabase(i) ELSE MergedLayers(i)
  BY <1>2 DEF LayersSoFar
<1>6. HiddenLayers(i)' = IF cr.smartRouter \/ pc' = "router" THEN {}
                         ELSE DOMAIN BaseLayers(i)
  BY <1>1, <1>2 DEF HiddenLayers
<1>7. CASE Merge
  <2>1. pc' = "router"
    BY <1>4, <1>7 DEF Merge, Merging
  <2> QED
    BY <1>3, <1>4, <1>5, <1>6, <1>7, <2>1, MergeParts
<1>8. CASE RemoveRouterVariables
  <2>1. pc = "router" /\ pc' = "mergeDB" /\ next' = 1
    BY <1>4, <1>8 DEF RemoveRouterVariables, Progress, Merging
  <2>2. LayersSoFar(i)' = BaseLayers(i)
    BY <1>4, <1>5, <2>1
  <2>3. HiddenLayers(i)' = IF cr.smartRouter THEN {} ELSE DOMAIN BaseLayers(i)
    BY <1>6, <2>1
  <2> QED
    BY <1>3, <1>4, <1>8, <2>1, <2>2, <2>3, RouterParts
<1>9. CASE MergeDB
  <2>1. pc = "mergeDB"
    BY <1>9 DEF MergeDB
  <2>2. ServerReflects(servers'[i],
                       IF i <= next THEN WithDatabase(i) ELSE BaseLayers(i),
                       HiddenLayers(i))
    BY <1>3, <1>4, <1>9, MergeDBParts
  <2>3. /\ next' = (IF next = Len(cr.servers) THEN 1 ELSE next + 1)
        /\ pc' = (IF next = Len(cr.servers) THEN "mergeJms" ELSE pc)
    BY <1>9, DBProgress
  <2>4. LayersSoFar(i)' = IF i <= next THEN WithDatabase(i) ELSE BaseLayers(i)
    BY <1>4, <1>5, <2>1, <2>3
  <2>5. HiddenLayers(i)' = HiddenLayers(i)
    BY <1>6, <2>1, <2>3 DEF HiddenLayers
  <2> QED
    BY <2>2, <2>4, <2>5
<1>10. CASE MergeJms
  <2>1. pc = "mergeJms"
    BY <1>10 DEF MergeJms
  <2>2. ServerReflects(servers'[i],
                       IF i <= next THEN MergedLayers(i) ELSE WithDatabase(i),
                       HiddenLayers(i))
    BY <1>3, <1>4, <1>10, MergeJmsParts
  <2>3. /\ next' = (IF next = Len(cr.servers) THEN 1 ELSE next + 1)
        /\ pc' = (IF next = Len(cr.servers) THEN "consolidate" ELSE pc)
    BY <1>10, JmsProgress
  <2>4. LayersSoFar(i)' = IF i <= next THEN MergedLayers(i) ELSE WithDatabase(i)
    BY <1>4, <1>5, <2>1, <2>3
  <2>5. HiddenLayers(i)' = HiddenLayers(i)
    BY <1>6, <2>1, <2>3 DEF HiddenLayers
  <2> QED
    BY <2>2, <2>4, <2>5
<1>11. CASE Consolidate
  BY <1>11 DEF Consolidate
<1>12. CASE LoadFails
  BY <1>4, <1>12 DEF LoadFails, Merging
<1>13. CASE UNCHANGED vars
  <2>1. LayersSoFar(i)' = LayersSoFar(i) /\ HiddenLayers(i)' = HiddenLayers(i)
    BY <1>5, <1>6, <1>13 DEF vars, LayersSoFar, HiddenLayers
  <2>2. ServerReflects(servers[i], LayersSoFar(i), HiddenLayers(i))
    BY <1>3, <1>4, <1>13 DEF Filled, vars
  <2> QED
    BY <1>13, <2>1, <2>2 DEF vars
<1> QED
  BY <1>7, <1>8, <1>9, <1>10, <1>11, <1>12, <1>13 DEF Next

-----------------------------------------------------------------------------
(* The KieApp's own variables. *)

\* The KieApp's own variables over the items below them.
UsersOver(users, kind, part, below, items) ==
    \A name, value :
        HasItem(kind, part, items, name, value)
           <=> \/ LastIs(users, Len(users), name, value)
               \/ /\ HasItem(kind, part, below, name, value)
                  /\ \A j \in 1..Len(users) : users[j].name # name

VariablesFor(users, kind, object, part) ==
    IF kind = "deploymentConfigs" /\ part = "env" /\ object.containers > 0
    THEN users ELSE <<>>

\* What ConsolidateObjects leaves.
IsConsolidated(users, kind, object, stack, hidden) ==
    /\ HasParts(kind, object)
    /\ Unmarked(kind, stack, object.name) =>
          \A part \in PartsOf(kind) : \E below :
              /\ FromLayers(kind, object.name, part, below, stack, hidden)
              /\ UsersOver(VariablesFor(users, kind, object, part), kind, part, below,
                           object.parts[part])

ServerConsolidated(users, server, stack, hidden) ==
    \A kind \in Kinds : \A k \in DOMAIN server.lists[kind] :
        IsConsolidated(users, kind, server.lists[kind][k], stack, hidden)

\* Where the KieApp gives no variables, the layers alone count.
LEMMA NoUsersVariables ==
    ASSUME NEW kind, NEW part, NEW items
    PROVE  UsersOver(<<>>, kind, part, items, items)
<1>1. Len(<<>>) = 0 /\ 1..0 = {}
  OBVIOUS
<1>2. \A name, value : ~LastIs(<<>>, Len(<<>>), name, value)
  BY <1>1 DEF LastIs
<1> QED
  BY <1>1, <1>2 DEF UsersOver

\* A deployment config with the KieApp's variables.
LEMMA OverriddenObject ==
    ASSUME IsItems(cr.env), NEW object, IsObject(object), NEW stack, NEW hidden,
           HasParts("deploymentConfigs", object), NEW new,
           new = IF object.containers = 0 THEN object
                 ELSE WithEnv(object, EnvOverride(object.parts["env"], cr.env)),
           Unmarked("deploymentConfigs", stack, object.name) =>
              \A part \in PartsOf("deploymentConfigs") :
                  FromLayers("deploymentConfigs", object.name, part, object.parts[part],
                             stack, hidden)
    PROVE  IsConsolidated(cr.env, "deploymentConfigs", new, stack, hidden)
<1> DEFINE dc == "deploymentConfigs"
<1>1. CASE object.containers = 0
  <2>1. new = object
    BY <1>1
  <2>2. \A part : VariablesFor(cr.env, dc, object, part) = <<>>
    BY <1>1 DEF VariablesFor
  <2> QED
    BY <2>1, <2>2, NoUsersVariables DEF IsConsolidated
<1>2. CASE object.containers # 0
  <2>1. PICK items : items = object.parts["env"]
    OBVIOUS
  <2>2. PICK list : list = EnvOverride(items, cr.env)
    OBVIOUS
  <2>3. IsPart(dc, "env", items) /\ "env" \in PartsOf(dc)
    BY <2>1 DEF HasParts, PartsOf
  <2>4. /\ IsPart(dc, "env", list)
        /\ \A name, value :
              HasItem(dc, "env", list, name, value)
                 <=> \/ LastIs(cr.env, Len(cr.env), name, value)
                     \/ /\ HasItem(dc, "env", items, name, value)
                        /\ \A j \in 1..Len(cr.env) : cr.env[j].name # name
    BY <2>2, <2>3, VariablesOverridden
  <2>5. new = WithEnv(object, list)
    BY <1>2, <2>1, <2>2
  <2>6. /\ DOMAIN new.parts = PartsOf(dc) /\ new.parts["env"] = list
        /\ \A part \in PartsOf(dc) \ {"env"} : new.parts[part] = object.parts[part]
        /\ new.name = object.name /\ new.containers = object.containers
    BY <2>5, EnvParts, EnvReplaced
  <2>7. HasParts(dc, new)
    <3> SUFFICES ASSUME NEW part \in PartsOf(dc) PROVE IsPart(dc, part, new.parts[part])
      BY <2>6 DEF HasParts
    <3>1. CASE part = "env"
      BY <2>4, <2>6, <3>1
    <3>2. CASE part # "env"
      BY <2>6, <3>2 DEF HasParts
    <3> QED
      BY <3>1, <3>2
  <2>8. ASSUME Unmarked(dc, stack, new.name), NEW part \in PartsOf(dc)
        PROVE  \E below :
                  /\ FromLayers(dc, new.name, part, below, stack, hidden)
                  /\ UsersOver(VariablesFor(cr.env, dc, new, part), dc, part, below,
                               new.parts[part])
    <3>1. FromLayers(dc, new.name, part, object.parts[part], stack, hidden)
      BY <2>6, <2>8
    <3>2. CASE part = "env"
      <4>1. VariablesFor(cr.env, dc, new, part) = cr.env
        <5>1. object.containers > 0
          BY <1>2 DEF IsObject
        <5> QED
          BY <2>6, <3>2, <5>1 DEF VariablesFor
      <4>2. UsersOver(cr.env, dc, "env", items, list)
        BY <2>4 DEF UsersOver
      <4> QED
        BY <2>1, <2>6, <3>1, <3>2, <4>1, <4>2
    <3>3. CASE part # "env"
      <4>1. VariablesFor(cr.env, dc, new, part) = <<>>
        BY <3>3 DEF VariablesFor
      <4> QED
        BY <2>6, <3>1, <3>3, <4>1, NoUsersVariables
    <3> QED
      BY <3>2, <3>3
  <2> QED
    BY <2>7, <2>8 DEF IsConsolidated
<1> QED
  BY <1>1, <1>2

\* And a server.
LEMMA OverriddenServer ==
    ASSUME IsItems(cr.env), NEW server, IsCustomObject(server), NEW stack, NEW hidden,
           ServerReflects(server, stack, hidden)
    PROVE  ServerConsolidated(cr.env, Overridden(server), stack, hidden)
<1> DEFINE dc == "deploymentConfigs"
<1>1. PICK old : old = server.lists["deploymentConfigs"]
  OBVIOUS
<1>2. PICK dcs : dcs = [k \in DOMAIN old |->
                          IF old[k].containers = 0 THEN old[k]
                          ELSE WithEnv(old[k], EnvOverride(old[k].parts["env"], cr.env))]
  OBVIOUS
<1>3. Overridden(server) = [server EXCEPT !.lists["deploymentConfigs"] = dcs]
  BY <1>1, <1>2 DEF Overridden, IsCustomObject, Kinds
<1>4. /\ IsList(old) /\ ListHasParts(dc, old) /\ Reflects(dc, old, stack, hidden)
  BY <1>1 DEF IsCustomObject, Kinds, WellFormed, ServerReflects
<1>5. DOMAIN dcs = DOMAIN old /\ Len(dcs) = Len(old)
  BY <1>2, <1>4 DEF IsList
<1>6. ASSUME NEW k \in DOMAIN old
      PROVE  /\ IsObject(dcs[k]) /\ dcs[k].name = old[k].name
             /\ IsConsolidated(cr.env, dc, dcs[k], stack, hidden)
  <2>1. IsObject(old[k]) /\ HasParts(dc, old[k])
    BY <1>4 DEF IsList, ListHasParts
  <2>2. dcs[k] = IF old[k].containers = 0 THEN old[k]
                 ELSE WithEnv(old[k], EnvOverride(old[k].parts["env"], cr.env))
    BY <1>2
  <2>3. IsObject(dcs[k]) /\ dcs[k].name = old[k].name
    <3>1. PICK list : list = EnvOverride(old[k].parts["env"], cr.env)
      OBVIOUS
    <3>2. IsObject(WithEnv(old[k], list)) /\ WithEnv(old[k], list).name = old[k].name
      BY <2>1, EnvReplaced
    <3> QED
      BY <2>1, <2>2, <3>1, <3>2
  <2>4. Unmarked(dc, stack, old[k].name) =>
           \A part \in PartsOf(dc) :
               FromLayers(dc, old[k].name, part, old[k].parts[part], stack, hidden)
    BY <1>4 DEF Reflects
  <2>5. PICK new : new = dcs[k]
    OBVIOUS
  <2>6. PICK object : object = old[k]
    OBVIOUS
  <2>7. IsConsolidated(cr.env, dc, new, stack, hidden)
    BY <2>1, <2>2, <2>4, <2>5, <2>6, OverriddenObject
  <2> QED
    BY <2>3, <2>5, <2>7
<1>7. /\ Overridden(server).lists[dc] = dcs
      /\ \A kind \in Kinds \ {dc} : Overridden(server).lists[kind] = server.lists[kind]
  BY <1>1, <1>3, <1>5, <1>6, DCsReplaced
<1>8. ASSUME NEW kind \in Kinds \ {dc}, NEW k \in DOMAIN server.lists[kind]
      PROVE  IsConsolidated(cr.env, kind, server.lists[kind][k], stack, hidden)
  <2>1. PICK object : object = server.lists[kind][k]
    OBVIOUS
  <2>2. HasParts(kind, object)
    BY <2>1 DEF ServerReflects, ListHasParts
  <2>3. Unmarked(kind, stack, object.name) =>
           \A part \in PartsOf(kind) :
               FromLayers(kind, object.name, part, object.parts[part], stack, hidden)
    BY <2>1 DEF ServerReflects, Reflects
  <2>4. \A part : VariablesFor(cr.env, kind, object, part) = <<>>
    BY DEF VariablesFor
  <2>5. IsConsolidated(cr.env, kind, object, stack, hidden)
    BY <2>2, <2>3, <2>4, NoUsersVariables DEF IsConsolidated
  <2> QED
    BY <2>1, <2>5
<1> QED
  BY <1>5, <1>6, <1>7, <1>8 DEF ServerConsolidated

Finished ==
    SingleContainers /\ AtMostOneJms /\ pc = "done" =>
        \A i \in DOMAIN cr.servers :
            ServerConsolidated(cr.env, servers[i], MergedLayers(i), HiddenLayers(i))

\* The last step puts the KieApp's variables over the layers, and none undoes it.
LEMMA FinishedStep ==
    Given /\ Progress /\ Filled /\ Finished /\ [Next]_vars => Finished'
<1> SUFFICES ASSUME Given, Progress, Filled, Finished, [Next]_vars,
                    SingleContainers', AtMostOneJms', pc' = "done",
                    NEW i \in DOMAIN cr.servers'
             PROVE  ServerConsolidated(cr'.env, servers'[i], MergedLayers(i)',
                                       HiddenLayers(i)')
  BY DEF Finished
<1>1. cr' = cr /\ layers' = layers
  BY DEF Next, vars, Merge, RemoveRouterVariables, MergeDB, MergeJms, Consolidate,
         LoadFails
<1>2. BaseLayers(i)' = BaseLayers(i) /\ \A j : MergedLayers(j)' = MergedLayers(j)
  BY <1>1 DEF MergedLayers, BaseLayers, UsesJms
<1>3. SingleContainers /\ AtMostOneJms /\ i \in DOMAIN cr.servers
  BY <1>1, SameTemplates DEF AtMostOneJms
<1>4. CASE Consolidate
  <2>1. /\ pc = "consolidate" /\ IsCustomObject(servers[i])
        /\ DOMAIN servers = DOMAIN cr.servers
    BY <1>3, <1>4 DEF Consolidate, Progress, Merging
  <2>2. servers'[i] = Overridden(servers[i])
    BY <1>3, <1>4, <2>1 DEF Consolidate
  <2>3. HiddenLayers(i)' = HiddenLayers(i) /\ LayersSoFar(i) = MergedLayers(i)
    BY <1>1, <1>2, <2>1 DEF HiddenLayers, LayersSoFar
  <2>4. ServerReflects(servers[i], MergedLayers(i), HiddenLayers(i))
    BY <1>3, <2>1, <2>3 DEF Filled, Merging
  <2> QED
    BY <1>1, <1>2, <2>1, <2>2, <2>3, <2>4, GivenParts, OverriddenServer
<1>5. CASE UNCHANGED vars
  <2>1. HiddenLayers(i)' = HiddenLayers(i)
    BY <1>2, <1>5 DEF vars, HiddenLayers
  <2> QED
    BY <1>1, <1>2, <1>3, <1>5, <2>1 DEF vars, Finished
<1>6. pc' # "done" \/ Consolidate \/ UNCHANGED vars
  <2>1. ASSUME NEW list, NEW layer, NEW found, NEW after, after # "done", pc # "done",
               Round(list, layer, found, after)
        PROVE  pc' # "done"
    BY <2>1 DEF Round
  <2>2. CASE MergeDB
    BY <2>1, <2>2 DEF MergeDB
  <2>3. CASE MergeJms
    BY <2>1, <2>3 DEF MergeJms
  <2> QED
    BY <2>2, <2>3 DEF Next, Merge, RemoveRouterVariables, LoadFails
<1> QED
  BY <1>4, <1>5, <1>6

-----------------------------------------------------------------------------
(* The property's own words. *)

\* The first item of a name is the only one, if names are unique; and there are as
\* many names as items.
LEMMA UniqueItems ==
    ASSUME NEW list, IsItems(list), UniqueNames(list)
    PROVE  /\ \A k \in DOMAIN list : Find(list, list[k].name) = list[k]
           /\ Cardinality(Names(list)) = Len(list)
<1>1. Len(list) \in Nat /\ DOMAIN list = 1..Len(list)
  BY DEF IsItems
<1>2. ASSUME NEW k \in DOMAIN list PROVE Find(list, list[k].name) = list[k]
  <2> DEFINE name == list[k].name
             First(i) == list[i].name = name /\ \A j \in 1..i - 1 : list[j].name # name
  <2>1. First(k)
    <3>1. \A j \in 1..k - 1 : j \in DOMAIN list /\ j # k
      BY <1>1
    <3> QED
      BY <3>1 DEF UniqueNames
  <2>2. \A i \in DOMAIN list : First(i) => i = k
    BY DEF UniqueNames
  <2>3. (CHOOSE i \in DOMAIN list : First(i)) = k
    <3> HIDE DEF First
    <3> QED
      BY <2>1, <2>2
  <2> QED
    BY <2>3 DEF Find
<1>3. Cardinality(Names(list)) = Len(list)
  <2> DEFINE f == [k \in DOMAIN list |-> list[k].name]
  <2>1. IsFiniteSet(DOMAIN list) /\ Cardinality(DOMAIN list) = Len(list)
    BY <1>1, CountUpTo
  <2>2. f \in [DOMAIN list -> Names(list)]
    BY DEF Names
  <2>3. \A a, b \in DOMAIN list : f[a] = f[b] => a = b
    BY DEF UniqueNames
  <2>4. \A name \in Names(list) : \E k \in DOMAIN list : f[k] = name
    BY DEF Names
  <2>5. f \in Bijection(DOMAIN list, Names(list))
    <3> HIDE DEF f
    <3> QED
      BY <2>2, <2>3, <2>4 DEF Bijection, Surjection, Injection, IsInjective
  <2>6. ExistsBijection(DOMAIN list, Names(list))
    BY <2>5 DEF ExistsBijection
  <2> QED
    BY <2>1, <2>6, FS_Bijection
<1> QED
  BY <1>2, <1>3

\* The items that can be matched, as the property lists them.
LEMMA OwnItems ==
    ASSUME NEW kind, NEW part, NEW list, IsPart(kind, part, list)
    PROVE  LET own == Own(kind, part, list)
           IN  /\ \A k \in DOMAIN own :
                     HasItem(kind, part, list, own[k].name, own[k].value)
               /\ \A name, value :
                     HasItem(kind, part, list, name, value)
                        => Has(own, name) /\ Find(own, name).value = value
               /\ Cardinality(Names(own)) = Len(own)
<1> DEFINE positions == {n \in DOMAIN list : ~StandsAlone(kind, part, list[n])}
<1>1. PICK own : own = Own(kind, part, list)
  OBVIOUS
<1>2. own = Pick(list, positions) /\ positions \in SUBSET DOMAIN list
  BY <1>1 DEF Own
<1>3. \A i \in positions : ~StandsAlone(kind, part, list[i]) /\ i \in DOMAIN list
  OBVIOUS
<1>4. \A i \in DOMAIN list : ~StandsAlone(kind, part, list[i]) => i \in positions
  OBVIOUS
<1> HIDE DEF positions
<1>5. /\ IsPart(kind, part, own)
      /\ \A i \in positions : \E n \in DOMAIN own : own[n] = list[i]
      /\ \A n \in DOMAIN own : \E i \in positions : own[n] = list[i]
  BY <1>2, PickedPart
<1>6. \A n \in DOMAIN own : ~StandsAlone(kind, part, own[n])
  BY <1>3, <1>5
<1>7. IsItems(own) /\ UniqueNames(own)
  BY <1>5, <1>6 DEF IsPart, UniqueNames
<1>8. /\ \A k \in DOMAIN own : Find(own, own[k].name) = own[k]
      /\ Cardinality(Names(own)) = Len(own)
  BY <1>7, UniqueItems
<1>9. \A k \in DOMAIN own : HasItem(kind, part, list, own[k].name, own[k].value)
  BY <1>3, <1>5 DEF HasItem
<1>10. ASSUME NEW name, NEW value, HasItem(kind, part, list, name, value)
       PROVE  Has(own, name) /\ Find(own, name).value = value
  <2>1. PICK n \in DOMAIN own : own[n].name = name /\ own[n].value = value
    BY <1>4, <1>5, <1>10 DEF HasItem
  <2> QED
    BY <1>8, <2>1 DEF Has, Names
<1> QED
  BY <1>1, <1>8, <1>9, <1>10

\* So are the items of every layer of a server.
LEMMA LayersHaveParts ==
    ASSUME Given, NEW i \in DOMAIN cr.servers
    PROVE  \A k \in DOMAIN LayersOf(i) : LayerHasParts(LayersOf(i)[k])
<1> DEFINE Good(stack) == \A k \in DOMAIN stack : LayerHasParts(stack[k])
           database == cr.servers[i].database
<1>1. ASSUME NEW stack, NEW n, NEW layer, NEW topped, IsTopped(stack, n, layer, topped),
             Good(stack), LayerHasParts(layer)
      PROVE  Good(topped)
  <2>1. \A k \in 1..n + 1 : k \in 1..n \/ k = n + 1
    BY <1>1 DEF IsTopped
  <2> QED
    BY <1>1, <2>1 DEF IsTopped
<1>2. Good(<<layers.common[i]>>)
  <2>1. LayerHasParts(layers.common[i])
    BY GivenParts
  <2> QED
    BY <2>1
<1> HIDE DEF Good
<1>3. Good(BaseLayers(i))
  <2>1. layers.env # <<>> => LayerHasParts(layers.env[i])
    BY GivenParts DEF Given
  <2> QED
    BY <1>1, <1>2, <2>1, Stacks
<1>4. Good(WithDatabase(i))
  <2>1. database # NoDatabase => LayerHasParts(layers.databases[database])
    BY GivenParts
  <2> QED
    BY <1>1, <1>3, <2>1, Stacks
<1>5. Good(MergedLayers(i))
  BY <1>1, <1>4, GivenParts, Stacks
<1>6. Good(LayersOf(i))
  BY <1>4, <1>5, OwnLayers
<1> QED
  BY <1>6 DEF Good

\* The property's words for what a layer says, and those of the proof.
LEMMA SaysItem ==
    ASSUME Given, NEW i \in DOMAIN cr.servers, NEW kind \in Kinds, NEW object,
           NEW part \in PartsOf(kind), NEW k \in DOMAIN LayersOf(i), NEW name, NEW value
    PROVE  Says(kind, object, part, LayersOf(i)[k], name, value)
             <=> /\ k \in Mentions(i, kind, object)
                 /\ Has(ItemsIn(i, k, kind, object, part), name)
                 /\ ValueIn(i, k, kind, object, part, name) = value
<1>1. PICK list : list = LayersOf(i)[k].lists[kind]
  OBVIOUS
<1>2. IsList(list) /\ UniqueNames(list) /\ ListHasParts(kind, list)
  BY <1>1, LayersShape, LayersHaveParts DEF IsCustomObject, WellFormed, LayerHasParts
<1>3. ASSUME NEW n \in DOMAIN list, list[n].name = object
      PROVE  Says(kind, object, part, LayersOf(i)[k], name, value)
               <=> /\ k \in Mentions(i, kind, object)
                   /\ Has(ItemsIn(i, k, kind, object, part), name)
                   /\ ValueIn(i, k, kind, object, part, name) = value
  <2>1. PICK items : items = list[n].parts[part]
    OBVIOUS
  <2>2. PICK own : own = Own(kind, part, items)
    OBVIOUS
  <2>3. IsPart(kind, part, items)
    BY <1>2, <2>1 DEF ListHasParts, HasParts
  <2>4. Has(list, object) /\ Find(list, object) = list[n]
    BY <1>2, <1>3, FindIsUnique
  <2>5. k \in Mentions(i, kind, object) /\ ItemsIn(i, k, kind, object, part) = own
    BY <1>1, <2>1, <2>2, <2>4 DEF Mentions, ItemsIn, ObjectIn
  <2>6. ValueIn(i, k, kind, object, part, name) = Find(own, name).value
    BY <2>5 DEF ValueIn
  <2>7. Says(kind, object, part, LayersOf(i)[k], name, value)
          <=> HasItem(kind, part, items, name, value)
    BY <1>1, <1>2, <1>3, <2>1 DEF Says, UniqueNames
  <2>8. HasItem(kind, part, items, name, value)
          => Has(own, name) /\ Find(own, name).value = value
    BY <2>2, <2>3, OwnItems
  <2>9. ASSUME Has(own, name), Find(own, name).value = value
        PROVE  HasItem(kind, part, items, name, value)
    <3>1. PICK m \in DOMAIN own : own[m].name = name
      BY <2>9 DEF Has, Names
    <3>2. HasItem(kind, part, items, name, own[m].value)
      BY <2>2, <2>3, <3>1, OwnItems
    <3>3. Find(own, name).value = own[m].value
      BY <2>2, <2>3, <3>2, OwnItems
    <3> QED
      BY <2>9, <3>2, <3>3
  <2> QED
    BY <2>5, <2>6, <2>7, <2>8, <2>9
<1>4. CASE \A n \in DOMAIN list : list[n].name # object
  BY <1>1, <1>4 DEF Says, Mentions, Has, Names
<1> QED
  BY <1>3, <1>4

\* And for where an item comes from.
LEMMA SourcesAre ==
    ASSUME Given, pc = "done", NEW i \in DOMAIN cr.servers, NEW kind \in Kinds,
           NEW object, NEW part \in PartsOf(kind), NEW name, NEW k, NEW value
    PROVE  Source(kind, object, part, LayersOf(i), HiddenLayers(i), k, name, value)
             <=> /\ k \in Sources(i, kind, object, part, name)
                 /\ ValueIn(i, k, kind, object, part, name) = value
<1> DEFINE stack == LayersOf(i)
           Counts == (kind = "deploymentConfigs" /\ part = "env" /\ ~cr.smartRouter
                         /\ name \in RouterVariables) => k > Len(BaseLayers(i))
<1>1. PICK m \in Nat : DOMAIN stack = 1..m
  BY LayersShape
<1>2. Len(BaseLayers(i)) \in Nat /\ DOMAIN BaseLayers(i) = 1..Len(BaseLayers(i))
  <2>1. \A x, y : /\ Len(<<x>>) \in Nat /\ DOMAIN <<x>> = 1..Len(<<x>>)
                 /\ Len(<<x, y>>) \in Nat /\ DOMAIN <<x, y>> = 1..Len(<<x, y>>)
    OBVIOUS
  <2>2. \/ BaseLayers(i) = <<layers.common[i]>>
        \/ BaseLayers(i) = <<layers.common[i], layers.env[i]>>
    BY DEF BaseLayers
  <2> QED
    BY <2>1, <2>2
<1>3. HiddenLayers(i) = IF cr.smartRouter THEN {} ELSE DOMAIN BaseLayers(i)
  BY DEF HiddenLayers
<1>4. k \in DOMAIN stack =>
         ((OfRouter(kind, part, name) => k \notin HiddenLayers(i)) <=> Counts)
  BY <1>1, <1>2, <1>3 DEF OfRouter
<1>5. k \in DOMAIN stack =>
         (Says(kind, object, part, stack[k], name, value)
            <=> /\ k \in Mentions(i, kind, object)
                /\ Has(ItemsIn(i, k, kind, object, part), name)
                /\ ValueIn(i, k, kind, object, part, name) = value)
  BY SaysItem
<1>6. Mentions(i, kind, object) \subseteq DOMAIN stack
  BY DEF Mentions
<1>7. k \in Sources(i, kind, object, part, name)
        <=> /\ k \in Mentions(i, kind, object)
            /\ Has(ItemsIn(i, k, kind, object, part), name)
            /\ Counts
  BY DEF Sources
<1> HIDE DEF Counts
<1> QED
  BY <1>4, <1>5, <1>6, <1>7 DEF Source

\* What comes from the layers has the value of the last of them that gives one.
LEMMA LastValueIs ==
    ASSUME Given, pc = "done", NEW i \in DOMAIN cr.servers, NEW kind \in Kinds,
           NEW object, NEW part \in PartsOf(kind), NEW below,
           FromLayers(kind, object, part, below, LayersOf(i), HiddenLayers(i)), NEW name
    PROVE  /\ HasNamed(kind, part, below, name)
                 <=> Sources(i, kind, object, part, name) # {}
           /\ Sources(i, kind, object, part, name) # {} =>
                 HasItem(kind, part, below, name, LastValue(i, kind, object, part, name))
<1> DEFINE sources == Sources(i, kind, object, part, name)
           Value(k) == ValueIn(i, k, kind, object, part, name)
           given == {k \in sources : IsReplacing(kind, part) \/ Value(k) # Unset}
           From(k, value) == Source(kind, object, part, LayersOf(i), HiddenLayers(i), k,
                                    name, value)
           last == Highest(given)
<1>1. \A k, value : From(k, value) <=> k \in sources /\ Value(k) = value
  BY SourcesAre
<1>2. PICK m \in Nat : DOMAIN LayersOf(i) = 1..m
  BY LayersShape
<1>3. sources \in SUBSET (1..m) /\ given \in SUBSET (1..m)
  BY <1>2 DEF Sources, Mentions
<1>4. \A k \in sources : k \in given <=> IsReplacing(kind, part) \/ Value(k) # Unset
  OBVIOUS
<1>5. given \subseteq sources
  OBVIOUS
<1>6. LastValue(i, kind, object, part, name)
        = IF given = {} THEN Unset ELSE Value(last)
  BY DEF LastValue
<1>7. HasNamed(kind, part, below, name) <=> \E k, value : From(k, value)
  BY DEF FromLayers
<1>8. \A value : HasItem(kind, part, below, name, value)
         <=> \/ \E k : /\ From(k, value) /\ (IsReplacing(kind, part) \/ value # Unset)
                       /\ \A l, other : l > k /\ From(l, other)
                                           => ~IsReplacing(kind, part) /\ other = Unset
             \/ /\ value = Unset /\ ~IsReplacing(kind, part)
                /\ \E k : From(k, Unset)
                /\ \A k, other : From(k, other) => other = Unset
  BY DEF FromLayers, Decides, LeftOut
<1> HIDE DEF sources, Value, given, From
<1>9. given # {} => last \in given /\ \A k \in given : k <= last
  <2>1. m \in Nat /\ given \in SUBSET (1..m)
    BY <1>3
  <2> QED
    BY <2>1, HighestAndLowest
<1> HIDE DEF last
<1>10. ASSUME sources # {}, given = {}
       PROVE  HasItem(kind, part, below, name, LastValue(i, kind, object, part, name))
  BY <1>1, <1>4, <1>6, <1>8, <1>10
<1>11. ASSUME given # {}
       PROVE  HasItem(kind, part, below, name, LastValue(i, kind, object, part, name))
  <2>1. From(last, Value(last)) /\ (IsReplacing(kind, part) \/ Value(last) # Unset)
    BY <1>1, <1>4, <1>5, <1>9, <1>11
  <2>2. ASSUME NEW l, NEW other, l > last, From(l, other)
        PROVE  ~IsReplacing(kind, part) /\ other = Unset
    <3>1. l \in sources /\ Value(l) = other
      BY <1>1, <2>2
    <3>2. l \notin given
      <4>1. last \in given /\ \A k \in given : k <= last
        BY <1>9, <1>11
      <4>2. l \in 1..m /\ last \in 1..m
        BY <1>3, <3>1, <4>1
      <4> QED
        BY <2>2, <4>1, <4>2
    <3> QED
      BY <1>4, <3>1, <3>2
  <2>3. HasItem(kind, part, below, name, Value(last))
    BY <1>8, <2>1, <2>2
  <2> QED
    BY <1>6, <1>11, <2>3
<1>12. HasNamed(kind, part, below, name) <=> sources # {}
  BY <1>1, <1>7
<1> QED
  BY <1>10, <1>11, <1>12 DEF sources

\* The last of the KieApp's own variables of a name.
LEMMA LastOfUsers ==
    ASSUME NEW users, IsItems(users), NEW name
    PROVE  /\ Has(users, name) => LastIs(users, Len(users), name, LastOf(users, name))
           /\ \A value : LastIs(users, Len(users), name, value) => Has(users, name)
           /\ (\A j \in 1..Len(users) : users[j].name # name) <=> ~Has(users, name)
<1> DEFINE positions == {n \in DOMAIN users : users[n].name = name}
           last == Highest(positions)
<1>1. Len(users) \in Nat /\ DOMAIN users = 1..Len(users)
  BY DEF IsItems
<1>2. Has(users, name) <=> positions # {}
  BY DEF Has, Names
<1>3. positions \in SUBSET (1..Len(users))
  BY <1>1
<1>4. \A n : n \in positions <=> n \in 1..Len(users) /\ users[n].name = name
  BY <1>1
<1>5. LastOf(users, name) = users[last].value
  BY DEF LastOf
<1>6. positions # {} => last \in positions /\ \A k \in positions : k <= last
  BY <1>1, <1>3, HighestAndLowest
<1> HIDE DEF positions, last
<1>7. ASSUME positions # {} PROVE LastIs(users, Len(users), name, LastOf(users, name))
  <2>1. last \in 1..Len(users) /\ users[last].name = name
    BY <1>4, <1>6, <1>7
  <2>2. \A l \in last + 1..Len(users) : users[l].name # name
    <3> SUFFICES ASSUME NEW l \in last + 1..Len(users), users[l].name = name PROVE FALSE
      OBVIOUS
    <3>1. l \in positions /\ ~(l <= last)
      BY <1>1, <1>4, <2>1
    <3> QED
      BY <1>6, <1>7, <3>1
  <2> QED
    BY <1>5, <2>1, <2>2 DEF LastIs
<1>8. ASSUME NEW value, LastIs(users, Len(users), name, value) PROVE positions # {}
  BY <1>4, <1>8 DEF LastIs
<1> QED
  BY <1>2, <1>4, <1>7, <1>8

\* A part of a server's object in the end.
LEMMA PartAsLayered ==
    ASSUME Given, pc = "done", NEW i \in DOMAIN cr.servers, NEW kind \in Kinds,
           NEW object,
           HasParts(kind, object), NEW part \in PartsOf(kind), NEW below,
           FromLayers(kind, object.name, part, below, LayersOf(i), HiddenLayers(i)),
           UsersOver(UsersVariables(kind, object, part), kind, part, below,
                     object.parts[part])
    PROVE  ItemsAsLayered(i, kind, object, part)
<1> DEFINE list == object.parts[part]
           items == Own(kind, part, list)
           users == UsersVariables(kind, object, part)
           Layers(name) == Sources(i, kind, object.name, part, name)
           Value(name) == LastValue(i, kind, object.name, part, name)
           names == UNION {Names(ItemsIn(i, k, kind, object.name, part)) :
                             k \in Mentions(i, kind, object.name)}
           In(name, value) == HasItem(kind, part, list, name, value)
           Below(name, value) == HasItem(kind, part, below, name, value)
<1>1. IsItems(users)
  <2>1. IsItems(<<>>)
    BY DEF IsItems
  <2> QED
    BY <2>1, GivenParts DEF UsersVariables
<1>2. IsPart(kind, part, list)
  BY DEF HasParts
<1>3. \A name : /\ (\E value : Below(name, value)) <=> Layers(name) # {}
                /\ Layers(name) # {} => Below(name, Value(name))
  BY LastValueIs DEF HasNamed
<1>4. \A name, value :
         In(name, value) <=> \/ LastIs(users, Len(users), name, value)
                             \/ /\ Below(name, value)
                                /\ \A j \in 1..Len(users) : users[j].name # name
  BY DEF UsersOver
<1>5. \A name : \A k \in Layers(name) :
         k \in Mentions(i, kind, object.name)
            /\ name \in Names(ItemsIn(i, k, kind, object.name, part))
  BY DEF Sources, Has
<1>6. \A name : Layers(name) # {} => name \in names
  BY <1>5
<1>7. /\ \A k \in DOMAIN items : In(items[k].name, items[k].value)
      /\ \A name, value : In(name, value) => Has(items, name)
      /\ Cardinality(Names(items)) = Len(items)
  BY <1>2, OwnItems
<1>8. \A name, v, w : In(name, v) /\ In(name, w) => v = w
  BY <1>2, ItemIsUnique
<1>9. ItemsAsLayered(i, kind, object, part)
        <=> /\ Names(items) = {name \in names : Layers(name) # {}} \cup Names(users)
            /\ Cardinality(Names(items)) = Len(items)
            /\ \A k \in DOMAIN items :
                  items[k].value = IF Has(users, items[k].name)
                                   THEN LastOf(users, items[k].name)
                                   ELSE Value(items[k].name)
  BY DEF ItemsAsLayered
<1> HIDE DEF list, items, users, Layers, Value, names, In, Below
<1>10. ASSUME NEW name, Has(users, name) PROVE In(name, LastOf(users, name))
  BY <1>1, <1>4, <1>10, LastOfUsers
<1>11. ASSUME NEW name, ~Has(users, name), Layers(name) # {} PROVE In(name, Value(name))
  <2>1. Below(name, Value(name)) /\ \A j \in 1..Len(users) : users[j].name # name
    BY <1>1, <1>3, <1>11, LastOfUsers
  <2> QED
    BY <1>4, <2>1
<1>12. ASSUME NEW name, NEW value, In(name, value)
       PROVE  Has(users, name) \/ Layers(name) # {}
  <2>1. CASE LastIs(users, Len(users), name, value)
    BY <1>1, <2>1, LastOfUsers
  <2>2. CASE Below(name, value)
    BY <1>3, <2>2
  <2> QED
    BY <1>4, <1>12, <2>1, <2>2
<1>13. \A name : name \in Names(items) <=> \E value : In(name, value)
  <2>1. ASSUME NEW name \in Names(items) PROVE \E value : In(name, value)
    <3>1. PICK k \in DOMAIN items : items[k].name = name
      BY DEF Names
    <3> QED
      BY <1>7, <3>1
  <2> QED
    BY <1>7, <2>1 DEF Has
<1>14. \A name : name \in Names(items) <=> Has(users, name) \/ Layers(name) # {}
  BY <1>10, <1>11, <1>12, <1>13
<1>15. Names(items) = {name \in names : Layers(name) # {}} \cup Names(users)
  BY <1>6, <1>14 DEF Has
<1>16. ASSUME NEW k \in DOMAIN items
       PROVE  items[k].value = IF Has(users, items[k].name)
                               THEN LastOf(users, items[k].name)
                               ELSE Value(items[k].name)
  <2>1. PICK name, value : name = items[k].name /\ value = items[k].value
    OBVIOUS
  <2>2. In(name, value)
    BY <1>7, <2>1
  <2>3. CASE Has(users, name)
    BY <1>8, <1>10, <2>1, <2>2, <2>3
  <2>4. CASE ~Has(users, name)
    <3>1. In(name, Value(name))
      BY <1>11, <1>12, <2>2, <2>4
    <3> QED
      BY <1>8, <2>1, <2>2, <2>4, <3>1
  <2> QED
    BY <2>3, <2>4
<1> QED
  BY <1>7, <1>9, <1>15, <1>16

\* What a server's objects hold in the end, for any templates, servers, lists of
\* variables and number of items: every variable, port, mount, volume and trigger
\* that counts in some layer the server asks for or that the KieApp sets, once, with
\* the value of the last layer that gives it one, the KieApp's own variables last.
\* With at most one server with JMS, and but for those behind it, as LastLayerWins
\* says.
THEOREM LastLayersWin == Spec => []LastLayerWins
<1> DEFINE IInv == Given /\ Progress /\ InFront /\ Layering /\ Filled /\ Finished
<1>1. Init => IInv
  <2>1. Init => InFront /\ Layering /\ Filled /\ Finished
    BY DEF Init, InFront, Layering, Filled, Finished, Merging
  <2> QED
    BY <2>1, GivenAtFirst, ProgressAtFirst
<1>2. IInv /\ [Next]_vars => IInv'
  BY GivenStays, ProgressStep, FrontStep, LayeringStep, FilledStep, FinishedStep
<1>3. IInv => LastLayerWins
  <2> SUFFICES ASSUME Given, Progress, Finished, SingleContainers, AtMostOneJms,
                      pc = "done", NEW i \in DOMAIN servers, NEW kind \in Kinds,
                      ~InheritsJms(i), NEW n \in DOMAIN servers[i].lists[kind],
                      Marks(i, kind, servers[i].lists[kind][n].name) = {},
                      NEW part \in PartsOf(kind)
               PROVE  ItemsAsLayered(i, kind, servers[i].lists[kind][n], part)
    BY DEF LastLayerWins, AtMostOneJms
  <2>1. i \in DOMAIN cr.servers
    BY DEF Progress, Merging
  <2>2. PICK object : object = servers[i].lists[kind][n]
    OBVIOUS
  <2>3. IsConsolidated(cr.env, kind, object, LayersOf(i), HiddenLayers(i))
    <3>1. IsConsolidated(cr.env, kind, object, MergedLayers(i), HiddenLayers(i))
      BY <2>1, <2>2 DEF Finished, ServerConsolidated
    <3> QED
      BY <2>1, <3>1, OwnLayers
  <2>4. Unmarked(kind, LayersOf(i), object.name)
    BY <2>1, <2>2, MarksAndMentions
  <2>5. UsersVariables(kind, object, part) = VariablesFor(cr.env, kind, object, part)
    BY DEF UsersVariables, VariablesFor
  <2>6. HasParts(kind, object)
    BY <2>3 DEF IsConsolidated
  <2>7. PICK below :
           /\ FromLayers(kind, object.name, part, below, LayersOf(i), HiddenLayers(i))
           /\ UsersOver(UsersVariables(kind, object, part), kind, part, below,
                        object.parts[part])
    BY <2>3, <2>4, <2>5 DEF IsConsolidated
  <2>8. ItemsAsLayered(i, kind, object, part)
    BY <2>1, <2>6, <2>7, PartAsLayered
  <2> QED
    BY <2>2, <2>8
<1> QED
  BY <1>1, <1>2, <1>3, PTL DEF Spec
=============================================================================
