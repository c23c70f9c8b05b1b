------------------------- MODULE ServersConfigProofs -------------------------
(***************************************************************************)
(* Every server set gets a name, and every server is found again, for any   *)
(* number of sets, deployments and edits.                                   *)
(***************************************************************************)
EXTENDS ServersConfig, FiniteSetTheorems, SequenceTheorems, TLAPS

(* Numbers and orders *)

\* Every set of numbers has a least one.
LEMMA MinOfNumbers ==
    ASSUME NEW numbers \in SUBSET Nat, numbers # {}
    PROVE  Min(numbers) \in numbers /\ \A n \in numbers : Min(numbers) <= n
<1> DEFINE less == OpToRel(<, Nat)
<1>1. IsWellFoundedOn(less, Nat)
  BY NatLessThanWellFounded
<1>2. \A m, n \in Nat : m < n => <<m, n>> \in less
  BY DEF OpToRel
<1> HIDE DEF less
<1>3. \E m \in numbers : \A n \in numbers : ~(<<n, m>> \in less)
  BY <1>1, WFMin
<1>4. \E m \in numbers : \A n \in numbers : m <= n
  <2>1. PICK m \in numbers : \A n \in numbers : ~(<<n, m>> \in less)
    BY <1>3
  <2>2. \A n \in numbers : ~(n < m)
    BY <1>2, <2>1
  <2>3. \A n \in numbers : m \in Nat /\ n \in Nat
    OBVIOUS
  <2> QED
    BY <2>2, <2>3
<1> QED
  BY <1>4 DEF Min

LEMMA Interval ==
    ASSUME NEW n \in Nat
    PROVE  IsFiniteSet(1..n) /\ Cardinality(1..n) = n
<1>1. /\ IsFiniteSet(1..n)
      /\ Cardinality(1..n) = IF 1 > n THEN 0 ELSE n - 1 + 1
  BY FS_Interval
<1> QED
  BY <1>1

LEMMA FunctionIsSeq ==
    ASSUME NEW S, NEW n \in Nat, NEW f \in [1..n -> S]
    PROVE  f \in Seq(S) /\ Len(f) = n /\ DOMAIN f = 1..n
OBVIOUS

\* Where the items of two sequences are when the second is appended.
LEMMA Appended ==
    ASSUME NEW S, NEW s \in Seq(S), NEW t \in Seq(S)
    PROVE  /\ Len(s \o t) = Len(s) + Len(t)
           /\ \A i \in 1..Len(s) : (s \o t)[i] = s[i]
           /\ \A d \in 1..Len(t) : (s \o t)[Len(s) + d] = t[d]
<1>1. Len(s) \in Nat /\ Len(t) \in Nat
  BY LenProperties
<1>2. /\ Len(s \o t) = Len(s) + Len(t)
      /\ \A i \in 1..Len(s) + Len(t) :
            (s \o t)[i] = IF i <= Len(s) THEN s[i] ELSE t[i - Len(s)]
  BY ConcatProperties
<1>3. \A d \in 1..Len(t) : (s \o t)[Len(s) + d] = t[d]
  <2> TAKE d \in 1..Len(t)
  <2>1. PICK i \in 1..Len(s) + Len(t) : i = Len(s) + d /\ ~(i <= Len(s)) /\ i - Len(s) = d
    BY <1>1
  <2>2. (s \o t)[i] = t[i - Len(s)]
    BY <1>2, <2>1
  <2> QED
    BY <2>1, <2>2
<1>4. \A i \in 1..Len(s) : (s \o t)[i] = s[i]
  BY <1>1, <1>2
<1> QED
  BY <1>2, <1>3, <1>4

\* The elements of a finite total order have the places 0, 1, 2, ... in it: the
\* numbers of elements below them.
LEMMA PlacesInOrder ==
    ASSUME NEW D, IsFiniteSet(D), NEW below \in [D -> SUBSET D],
           \A i \in D : i \notin below[i],
           \A i, j \in D : i = j \/ i \in below[j] \/ j \in below[i],
           \A i, j \in D : j \in below[i] => below[j] \subseteq below[i]
    PROVE  /\ Cardinality(D) \in Nat
           /\ \A i \in D : Cardinality(below[i]) \in 0..Cardinality(D) - 1
           /\ \A i, j \in D : j \in below[i] => Cardinality(below[j]) < Cardinality(below[i])
           /\ \A i, j \in D : Cardinality(below[i]) = Cardinality(below[j]) => i = j
           /\ \A n \in 0..Cardinality(D) - 1 : \E i \in D : Cardinality(below[i]) = n
<1> DEFINE size == Cardinality(D)
           place == [i \in D |-> Cardinality(below[i])]
<1>1. size \in Nat
  BY FS_CardinalityType
<1>2. \A i \in D : IsFiniteSet(below[i]) /\ Cardinality(below[i]) \in 0..size - 1
  <2> TAKE i \in D
  <2>1. below[i] \in SUBSET D /\ below[i] # D
    OBVIOUS
  <2>2. /\ IsFiniteSet(below[i]) /\ Cardinality(below[i]) <= size
        /\ size # Cardinality(below[i])
    BY <2>1, FS_Subset
  <2>3. Cardinality(below[i]) \in Nat
    BY <2>2, FS_CardinalityType
  <2> QED
    BY <1>1, <2>2, <2>3
<1>3. \A i, j \in D : j \in below[i] => Cardinality(below[j]) < Cardinality(below[i])
  <2> TAKE i, j \in D
  <2> HAVE j \in below[i]
  <2>1. below[j] \in SUBSET below[i] /\ below[j] # below[i]
    OBVIOUS
  <2>2. /\ Cardinality(below[j]) <= Cardinality(below[i])
        /\ Cardinality(below[j]) # Cardinality(below[i])
    BY <1>2, <2>1, FS_Subset
  <2> QED
    BY <1>1, <1>2, <2>2
<1>4. \A i, j \in D : Cardinality(below[i]) = Cardinality(below[j]) => i = j
  BY <1>1, <1>2, <1>3
<1>5. \A n \in 0..size - 1 : \E i \in D : Cardinality(below[i]) = n
  <2>1. place \in Injection(D, 0..size - 1)
    <3>1. place \in [D -> 0..size - 1]
      BY <1>2
    <3>2. \A i, j \in D : place[i] = place[j] => i = j
      BY <1>4
    <3> QED
      BY <3>1, <3>2 DEF Injection, IsInjective
  <2>2. IsFiniteSet(0..size - 1) /\ Cardinality(0..size - 1) = size
    <3> HIDE DEF size
    <3>1. /\ IsFiniteSet(0..size - 1)
          /\ Cardinality(0..size - 1) = IF 0 > size - 1 THEN 0 ELSE size - 1 - 0 + 1
      BY <1>1, FS_Interval
    <3> QED
      BY <1>1, <3>1
  <2> HIDE DEF place
  <2>3. place \in Surjection(D, 0..size - 1)
    BY <2>1, <2>2, FS_Injection
  <2>4. \A n \in 0..size - 1 : \E i \in D : place[i] = n
    BY <2>3 DEF Surjection
  <2> QED
    BY <2>4 DEF place
<1> QED
  BY <1>1, <1>2, <1>3, <1>4, <1>5

-----------------------------------------------------------------------------
(* serverSortBlanks *)

NamedFirst(list) ==
    \A i, j \in DOMAIN list : i < j /\ Named(list[j]) => Named(list[i])

\* Sorting keeps every set, and puts it where Precedes says.
LEMMA SortedSets ==
    ASSUME NEW S, NEW list \in Seq(S)
    PROVE  /\ SortBlanks(list) \in Seq(S) /\ Len(SortBlanks(list)) = Len(list)
           /\ \A i \in DOMAIN list :
                 /\ Place(list, i) \in DOMAIN list
                 /\ SortBlanks(list)[Place(list, i)] = list[i]
           /\ NamedFirst(SortBlanks(list))
<1> DEFINE D == DOMAIN list
           first == {i \in D : Named(list[i])}
           below == [i \in D |-> {j \in D : Precedes(list, j, i)}]
           sorted == SortBlanks(list)
<1>1. Len(list) \in Nat /\ D = 1..Len(list) /\ list \in [D -> S]
  BY LenProperties
<1>2. IsFiniteSet(D) /\ Cardinality(D) = Len(list)
  BY <1>1, Interval
<1>3. below = [i \in D |-> IF i \in first THEN {j \in first : j < i}
                           ELSE {j \in D : j < i \/ j \in first}]
  BY DEF Precedes
<1>4. \A i \in D : Place(list, i) = 1 + Cardinality(below[i])
  BY DEF Place
<1> HIDE DEF below
<1>5. first \subseteq D /\ D \subseteq Int
  BY <1>1
<1> HIDE DEF first
<1>6. /\ below \in [D -> SUBSET D]
      /\ \A i \in D : i \notin below[i]
      /\ \A i, j \in D : i = j \/ i \in below[j] \/ j \in below[i]
      /\ \A i, j \in D : j \in below[i] => below[j] \subseteq below[i]
  <2>1. \A i, j \in D : j \in below[i] <=> IF i \in first THEN j \in first /\ j < i
                                           ELSE j < i \/ j \in first
    BY <1>3, <1>5
  <2>2. below \in [D -> SUBSET D]
    BY <1>3, <1>5
  <2> HIDE DEF D
  <2>3. \A i \in D : i \notin below[i]
    BY <1>5, <2>1
  <2>4. \A i, j \in D : i = j \/ i \in below[j] \/ j \in below[i]
    BY <1>5, <2>1
  <2>5. \A i, j, k \in D : j \in below[i] /\ k \in below[j] => k \in below[i]
    BY <1>5, <2>1
  <2> QED
    BY <2>2, <2>3, <2>4, <2>5
<1> HIDE DEF D
<1>7. /\ \A i \in D : Cardinality(below[i]) \in 0..Len(list) - 1
      /\ \A i, j \in D : j \in below[i] => Cardinality(below[j]) < Cardinality(below[i])
      /\ \A i, j \in D : Cardinality(below[i]) = Cardinality(below[j]) => i = j
      /\ \A n \in 0..Len(list) - 1 : \E i \in D : Cardinality(below[i]) = n
  BY <1>2, <1>6, PlacesInOrder
<1>8. \A i \in D : Place(list, i) \in D
  BY <1>1, <1>4, <1>7
<1>9. \A i, j \in D : Place(list, i) = Place(list, j) => i = j
  BY <1>1, <1>4, <1>7
<1>10. \A n \in D : \E i \in D : Place(list, i) = n
  <2> TAKE n \in D
  <2>1. n - 1 \in 0..Len(list) - 1
    BY <1>1
  <2>2. PICK i \in D : Cardinality(below[i]) = n - 1
    BY <1>7, <2>1
  <2>3. Place(list, i) = n
    BY <1>1, <1>4, <2>2
  <2> QED
    BY <2>3
<1>11. sorted = [n \in D |-> list[CHOOSE i \in D : Place(list, i) = n]]
  BY DEF SortBlanks, D
<1> HIDE DEF sorted
<1>12. sorted \in [D -> S]
  BY <1>1, <1>10, <1>11
<1>13. \A i \in D : sorted[Place(list, i)] = list[i]
  BY <1>8, <1>9, <1>11
<1>14. sorted \in Seq(S) /\ Len(sorted) = Len(list)
  BY <1>1, <1>12
<1>15. \A i, j \in D : Named(list[j]) /\ ~Named(list[i]) => Place(list, j) < Place(list, i)
  <2> TAKE i, j \in D
  <2> HAVE Named(list[j]) /\ ~Named(list[i])
  <2>1. j \in below[i]
    BY <1>3 DEF first
  <2>2. /\ Cardinality(below[j]) < Cardinality(below[i])
        /\ Cardinality(below[j]) \in Nat /\ Cardinality(below[i]) \in Nat
    BY <1>7, <2>1
  <2>3. /\ Place(list, j) = 1 + Cardinality(below[j])
        /\ Place(list, i) = 1 + Cardinality(below[i])
    BY <1>4
  <2> QED
    BY <2>2, <2>3
<1>16. NamedFirst(sorted)
  <2> SUFFICES ASSUME NEW m \in D, NEW n \in D, m < n, Named(sorted[n])
               PROVE  Named(sorted[m])
    BY <1>12 DEF NamedFirst
  <2>1. PICK i, j \in D : Place(list, i) = m /\ Place(list, j) = n
    BY <1>10
  <2>2. sorted[m] = list[i] /\ sorted[n] = list[j]
    BY <1>13, <2>1
  <2>3. ~(n < m)
    BY <1>1
  <2> QED
    BY <1>15, <2>1, <2>2, <2>3
<1> QED
  BY <1>8, <1>13, <1>14, <1>16 DEF sorted, D

\* A list in order stays as it is.
LEMMA SortedAlready ==
    ASSUME NEW S, NEW list \in Seq(S), NamedFirst(list)
    PROVE  SortBlanks(list) = list
<1>1. Len(list) \in Nat /\ DOMAIN list = 1..Len(list)
  BY LenProperties
<1>2. \A i \in 1..Len(list) : Place(list, i) = i
  <2> TAKE i \in 1..Len(list)
  <2>1. \A j \in 1..Len(list) : Precedes(list, j, i) <=> j < i
    BY <1>1 DEF NamedFirst, Precedes
  <2>2. {j \in DOMAIN list : Precedes(list, j, i)} = 1..i - 1
    BY <1>1, <2>1
  <2>3. i - 1 \in Nat
    BY <1>1
  <2>4. Cardinality(1..i - 1) = i - 1
    BY <2>3, Interval
  <2>5. Place(list, i) = 1 + Cardinality(1..i - 1)
    BY <2>2 DEF Place
  <2> QED
    BY <1>1, <2>4, <2>5
<1>3. /\ SortBlanks(list) \in Seq(S) /\ Len(SortBlanks(list)) = Len(list)
      /\ \A i \in 1..Len(list) : SortBlanks(list)[i] = list[i]
  BY <1>1, <1>2, SortedSets
<1> QED
  BY <1>3, SeqEqual

\* The k-th set with a name is sorted to the k-th place.
LEMMA NamedSetsPlace ==
    ASSUME NEW S, NEW list \in Seq(S), NEW i \in DOMAIN list, Named(list[i])
    PROVE  Place(list, i) = NamedUpto(list, i)
<1> DEFINE before == {j \in DOMAIN list : Precedes(list, j, i)}
<1>1. Len(list) \in Nat /\ DOMAIN list = 1..Len(list)
  BY LenProperties
<1>2. {j \in 1..i : Named(list[j])} = before \cup {i}
  BY <1>1 DEF Precedes
<1>3. i \notin before /\ before \subseteq 1..Len(list)
  BY <1>1 DEF Precedes
<1>4. IsFiniteSet(before)
  <2>1. IsFiniteSet(1..Len(list))
    BY <1>1, Interval
  <2> HIDE DEF before
  <2> QED
    BY <1>3, <2>1, FS_Subset
<1>5. Cardinality(before) \in Nat
  BY <1>4, FS_CardinalityType
<1>6. Cardinality(before \cup {i}) = Cardinality(before) + 1
  <2> HIDE DEF before
  <2> QED
    BY <1>3, <1>4, FS_AddElement
<1>7. NamedUpto(list, i) = Cardinality(before) + 1
  BY <1>2, <1>6 DEF NamedUpto
<1>8. Place(list, i) = 1 + Cardinality(before)
  BY DEF Place
<1> HIDE DEF before
<1> QED
  BY <1>5, <1>7, <1>8

-----------------------------------------------------------------------------
(* JMS settings *)

\* "clean empty values" removes one item at most.
LEMMA RemovedItem ==
    ASSUME NEW S, NEW list \in Seq(S), NEW i \in DOMAIN list
    PROVE  RemoveAt(list, i) \in Seq(S) /\ Len(RemoveAt(list, i)) = Len(list) - 1
<1>1. Len(list) \in Nat /\ i \in 1..Len(list) /\ \A j \in 1..Len(list) : list[j] \in S
  BY LenProperties
<1>2. SubSeq(list, 1, i - 1) \in Seq(S) /\ Len(SubSeq(list, 1, i - 1)) = i - 1
  BY <1>1, SubSeqProperties
<1>3. /\ SubSeq(list, i + 1, Len(list)) \in Seq(S)
      /\ Len(SubSeq(list, i + 1, Len(list))) = Len(list) - i
  BY <1>1, SubSeqProperties
<1>4. /\ SubSeq(list, 1, i - 1) \o SubSeq(list, i + 1, Len(list)) \in Seq(S)
      /\ Len(SubSeq(list, 1, i - 1) \o SubSeq(list, i + 1, Len(list)))
           = (i - 1) + (Len(list) - i)
  BY <1>2, <1>3, ConcatProperties
<1>5. RemoveAt(list, i) = SubSeq(list, 1, i - 1) \o SubSeq(list, i + 1, Len(list))
  BY DEF RemoveAt
<1>6. (i - 1) + (Len(list) - i) = Len(list) - 1
  BY <1>1
<1> QED
  BY <1>4, <1>5, <1>6

\* getJmsConfig completes JMS settings to JMS settings, and once only.
LEMMA CompletedJms ==
    ASSUME NEW jms \in Jms \cup {NoJms}, NEW generated \in Credentials
    PROVE  /\ CompleteJms(jms, generated) \in Jms \cup {NoJms}
           /\ \A g \in Credentials :
                 CompleteJms(CompleteJms(jms, generated), g) = CompleteJms(jms, generated)
<1> DEFINE done == CompleteJms(jms, generated)
<1> SUFFICES ASSUME Integrated(jms)
             PROVE  /\ done \in Jms
                    /\ \A g \in Credentials : CompleteJms(done, g) = done
  BY DEF CompleteJms
<1> DEFINE list == QueuesList(jms)
           empty == {i \in DOMAIN list : list[i] = NoQueue}
<1>1. jms \in Jms
  BY DEF Integrated
<1>2. \A role \in Role : QueueFor(jms, role) \in QueueName
  BY <1>1 DEF Jms, QueueFor, QueueName
<1>3. list \in Seq(QueueName) /\ Len(list) = 5
  <2>1. \A i \in 1..5 : Roles[i] \in Role
    BY DEF Role, Roles
  <2>2. DOMAIN Roles = 1..5
    BY DEF Roles
  <2>3. list \in [1..5 -> QueueName]
    BY <1>2, <2>1, <2>2 DEF QueuesList, QueueName
  <2> HIDE DEF list
  <2> QED
    BY <2>3, FunctionIsSeq
<1> HIDE DEF list
<1>4. empty # {} => Min(empty) \in DOMAIN list
  <2>1. empty \in SUBSET Nat
    BY <1>3, LenProperties
  <2> HIDE DEF empty
  <2>2. empty # {} => Min(empty) \in empty
    BY <2>1, MinOfNumbers
  <2> QED
    BY <2>2 DEF empty
<1>5. CleanedQueues(jms) \in Seq(QueueName) /\ CleanedQueues(jms) # <<>>
  <2>1. CleanedQueues(jms) = IF empty = {} THEN list ELSE RemoveAt(list, Min(empty))
    BY DEF CleanedQueues, list
  <2> HIDE DEF empty
  <2>2. CASE empty = {}
    BY <1>3, <2>1, <2>2, EmptySeq
  <2>3. CASE empty # {}
    <3>1. /\ RemoveAt(list, Min(empty)) \in Seq(QueueName)
          /\ Len(RemoveAt(list, Min(empty))) = 5 - 1
      BY <1>3, <1>4, <2>3, RemovedItem
    <3>2. PICK shorter \in Seq(QueueName) :
              shorter = RemoveAt(list, Min(empty)) /\ Len(shorter) = 4
      BY <3>1
    <3>3. shorter # <<>>
      BY <3>2, EmptySeq
    <3> QED
      BY <2>1, <2>3, <3>2, <3>3
  <2> QED
    BY <2>2, <2>3
<1>6. [role \in Role |-> QueueFor(jms, role)] \in [Role -> QueueName]
  BY <1>2
<1>7. done = [jms EXCEPT !.executor = IF @ = "unset" THEN "on" ELSE @,
                         !.queue = [role \in Role |-> QueueFor(jms, role)],
                         !.credentials = IF @ = NoCredentials THEN generated ELSE @,
                         !.amqQueues = IF @ = <<>> THEN CleanedQueues(jms) ELSE @]
  BY DEF CompleteJms
<1> HIDE DEF done
<1>8. /\ done \in Jms
      /\ done.executor # "unset" /\ done.amqQueues # <<>>
      /\ done.queue = [role \in Role |-> QueueFor(jms, role)]
  BY <1>1, <1>5, <1>6, <1>7 DEF Jms
<1>9. done.credentials # NoCredentials
  BY <1>1, <1>7, CredentialsAssumption DEF Jms, CredentialsAssumption
<1>10. [role \in Role |-> QueueFor(done, role)] = done.queue
  <2>1. \A role \in Role : QueueFor(done, role) = done.queue[role]
    BY <1>8 DEF QueueFor
  <2> QED
    BY <1>8, <2>1
<1>11. ASSUME NEW g \in Credentials
       PROVE  CompleteJms(done, g) = done
  <2>1. CASE ~Integrated(done)
    BY <2>1 DEF CompleteJms
  <2>2. CASE Integrated(done)
    <3>1. CompleteJms(done, g) =
            [done EXCEPT !.executor = done.executor, !.queue = done.queue,
                         !.credentials = done.credentials, !.amqQueues = done.amqQueues]
      BY <1>8, <1>9, <1>10, <2>2 DEF CompleteJms
    <3> QED
      BY <1>8, <3>1 DEF Jms
  <2> QED
    BY <2>1, <2>2
<1> QED
  BY <1>8, <1>11

-----------------------------------------------------------------------------
(* Names *)

\* The sets users write and passes store.
StoredSet == {set \in ServerSet : set.name = NoName \/ IsChosen(set.name)}

LEMMA GeneratedNames ==
    /\ \A k \in Nat : IsChosen(Generated(k)) /\ Generated(k) # NoName
    /\ \A j, k \in Nat : Generated(j) = Generated(k) => j = k
<1>1. \A k \in Nat : Generated(k) \in Name
  <2> TAKE k \in Nat
  <2>1. <<k + 1>> \in Seq(Nat)
    OBVIOUS
  <2> QED
    BY <2>1, StemsAssumption DEF Generated, Name, StemsAssumption
<1>2. \A k \in Nat : Generated(k).suffix = <<k + 1>> /\ <<k + 1>> # <<>>
  BY DEF Generated
<1>3. \A j, k \in Nat : <<j + 1>> = <<k + 1>> => j = k
  OBVIOUS
<1> QED
  BY <1>1, <1>2, <1>3, SetsAssumption DEF IsChosen, SetsAssumption

\* getKieDeploymentName returns a name.
LEMMA DeploymentNames ==
    ASSUME NEW name \in Name \cup {NoName}, NEW k \in Nat, NEW d \in Nat
    PROVE  DeploymentName(name, k, d) \in Name
<1> DEFINE base == IF name = NoName THEN Generated(k) ELSE name
<1>1. base \in Name
  BY GeneratedNames DEF IsChosen
<1>2. DeploymentName(name, k, d) =
          IF d = 0 THEN base ELSE [base EXCEPT !.suffix = Append(@, d + 1)]
  BY DEF DeploymentName
<1> HIDE DEF base
<1>3. Append(base.suffix, d + 1) \in Seq(Nat)
  BY <1>1 DEF Name
<1> QED
  BY <1>1, <1>2, <1>3 DEF Name

\* Of the names of a set's servers only the first, the set's own, can be one
\* that getServersConfig would generate.
LEMMA OnlyOwnNameIsGenerated ==
    ASSUME NEW name, IsChosen(name), NEW k, NEW d \in Nat, NEW j \in Nat,
           DeploymentName(name, k, d) = Generated(j)
    PROVE  name = Generated(j)
<1>1. name \in Name /\ name # NoName
  BY SetsAssumption DEF IsChosen, SetsAssumption
<1>2. CASE d = 0
  BY <1>1, <1>2 DEF DeploymentName
<1>3. CASE d # 0
  <2>1. [name EXCEPT !.suffix = Append(@, d + 1)] = Generated(j)
    BY <1>1, <1>3 DEF DeploymentName
  <2>2. name.stem = "kieserver" /\ Append(name.suffix, d + 1) = <<j + 1>>
    BY <1>1, <2>1 DEF Name, Generated
  <2>3. name.suffix \in Seq(Nat) /\ name.suffix # <<>>
    BY <1>1, <2>2 DEF IsChosen, Name
  <2>4. Len(name.suffix) \in Nat \ {0}
    BY <2>3, EmptySeq
  <2>5. Len(Append(name.suffix, d + 1)) = Len(name.suffix) + 1
    BY <2>3, AppendProperties
  <2>6. Len(Append(name.suffix, d + 1)) = 1
    BY <2>2
  <2> QED
    BY <2>4, <2>5, <2>6
<1> QED
  BY <1>2, <1>3

-----------------------------------------------------------------------------
(* Types *)

\* TypeOK with what it rests on: users choose no bare "kieserver", and there are
\* no brokers before mergeJms.
Typed ==
    /\ stored \in Seq(StoredSet)
    /\ sets \in Seq(StoredSet)
    /\ next \in 1..Len(sets) + 1
    /\ usedNames \subseteq Name /\ unsetNames \in Nat
    /\ servers \in Seq(Server)
    /\ brokers \subseteq DOMAIN servers /\ (pc = "configure" => brokers = {})
    /\ pc \in {"idle", "configure", "mergeJms", "done", "failed"}
    /\ edits \in 0..MaxEdits

LEMMA TypedIsEnough == Typed => TypeOK
<1>1. StoredSet \subseteq ServerSet
  BY DEF StoredSet
<1> QED
  BY <1>1, SeqMonotonic DEF Typed, TypeOK

\* What getServersConfig makes of a set's name.
LEMMA NamesOfSet ==
    ASSUME Typed, NEW set \in StoredSet
    PROVE  /\ UnsetNamesAfter(set) \in Nat
           /\ NameOf(set) = NoName \/ IsChosen(NameOf(set))
           /\ Named(set) => NameOf(set) = set.name
           /\ FreeAttempts # {} => NameOf(set) # NoName
<1>1. unsetNames \in Nat /\ Len(sets) \in Nat
  BY DEF Typed
<1>2. FreeAttempts \in SUBSET Nat
  BY <1>1 DEF FreeAttempts, Attempts
<1>3. FreeAttempts # {} => Min(FreeAttempts) \in Nat
  BY <1>2, MinOfNumbers
<1>4. UnsetNamesAfter(set) \in Nat
  BY <1>1, <1>3 DEF UnsetNamesAfter
<1>5. IsChosen(Generated(UnsetNamesAfter(set))) /\ Generated(UnsetNamesAfter(set)) # NoName
  BY <1>4, GeneratedNames
<1>6. set.name = NoName \/ IsChosen(set.name)
  BY DEF StoredSet
<1> QED
  BY <1>4, <1>5, <1>6 DEF NameOf, Named

LEMMA NamesOfServers ==
    ASSUME Typed, NEW set \in StoredSet
    PROVE  /\ DeploymentsOf(set) \in Nat
           /\ ServerNames(set) \in [1..DeploymentsOf(set) -> Name]
<1>1. DeploymentsOf(set) \in Nat
  BY DEF StoredSet, ServerSet, DeploymentsOf
<1>2. UnsetNamesAfter(set) \in Nat /\ NameOf(set) \in Name \cup {NoName}
  BY NamesOfSet DEF IsChosen
<1>3. \A d \in 1..DeploymentsOf(set) :
          DeploymentName(NameOf(set), UnsetNamesAfter(set), d - 1) \in Name
  <2> TAKE d \in 1..DeploymentsOf(set)
  <2>1. d - 1 \in Nat
    BY <1>1
  <2> QED
    BY <1>2, <2>1, DeploymentNames
<1> QED
  BY <1>1, <1>3 DEF ServerNames

LEMMA CompletedSets ==
    ASSUME Typed, NEW set \in StoredSet, NEW generated \in Credentials
    PROVE  /\ Completed(set, generated) \in StoredSet
           /\ Completed(set, generated).name = NameOf(set)
           /\ Completed(set, generated).deployments = DeploymentsOf(set)
           /\ Completed(set, generated).build = set.build
           /\ Completed(set, generated).database = set.database
<1> DEFINE jms == IF DeploymentsOf(set) = 0 \/ Rejected(set, 1) THEN set.jms
                  ELSE CompleteJms(set.jms, generated)
<1>1. set \in ServerSet
  BY DEF StoredSet
<1>2. NameOf(set) = NoName \/ (IsChosen(NameOf(set)) /\ NameOf(set) \in Name)
  BY NamesOfSet DEF IsChosen
<1>3. DeploymentsOf(set) \in Nat
  BY NamesOfServers
<1>4. jms \in Jms \cup {NoJms}
  BY <1>1, CompletedJms DEF ServerSet
<1>5. Completed(set, generated) =
          [set EXCEPT !.name = NameOf(set), !.deployments = DeploymentsOf(set), !.jms = jms]
  BY DEF Completed
<1> HIDE DEF jms
<1>6. /\ Completed(set, generated) \in ServerSet
      /\ Completed(set, generated).name = NameOf(set)
      /\ Completed(set, generated).deployments = DeploymentsOf(set)
      /\ Completed(set, generated).build = set.build
      /\ Completed(set, generated).database = set.database
  BY <1>1, <1>2, <1>3, <1>4, <1>5 DEF ServerSet
<1> QED
  BY <1>2, <1>6 DEF StoredSet

LEMMA NewServers ==
    ASSUME Typed, NEW set \in StoredSet, NEW jms \in Jms \cup {NoJms}
    PROVE  /\ ServersOf(set, jms) \in Seq(Server)
           /\ Len(ServersOf(set, jms)) = DeploymentsOf(set)
           /\ \A d \in 1..DeploymentsOf(set) :
                 ServersOf(set, jms)[d] =
                   [set |-> next, name |-> ServerNames(set)[d],
                    jms |-> IF Integrated(jms) THEN jms ELSE NoJms]
<1>1. next \in Nat
  BY DEF Typed
<1>2. /\ DeploymentsOf(set) \in Nat
      /\ ServerNames(set) \in [1..DeploymentsOf(set) -> Name]
  BY NamesOfServers
<1>3. \A d \in 1..DeploymentsOf(set) :
          [set |-> next, name |-> ServerNames(set)[d],
           jms |-> IF Integrated(jms) THEN jms ELSE NoJms] \in Server
  BY <1>1, <1>2 DEF Server
<1>4. ServersOf(set, jms) \in [1..DeploymentsOf(set) -> Server]
  BY <1>3 DEF ServersOf
<1>5. ServersOf(set, jms) \in Seq(Server) /\ Len(ServersOf(set, jms)) = DeploymentsOf(set)
  BY <1>2, <1>4, FunctionIsSeq
<1> QED
  BY <1>5 DEF ServersOf

\* A round of getServersConfig: what it does to the set, and either an error or
\* the set's servers.
LEMMA RoundTaken ==
    ASSUME Typed, ConfigureSet
    PROVE  LET set == sets[next]
               done == sets'[next]
           IN  /\ set \in StoredSet /\ done \in StoredSet
               /\ done.name = NameOf(set) /\ done.deployments = DeploymentsOf(set)
               /\ sets' \in Seq(StoredSet) /\ Len(sets') = Len(sets)
               /\ \A i \in 1..Len(sets) : i # next => sets'[i] = sets[i]
               /\ unsetNames' \in Nat
               /\ \/ /\ pc' = "failed" /\ servers' = <<>>
                     /\ UNCHANGED <<next, usedNames>>
                  \/ /\ pc' = "configure" /\ next' = next + 1
                     /\ usedNames' = usedNames \cup Range(ServerNames(set))
                     /\ servers' = servers \o ServersOf(set, done.jms)
               /\ done.jms \in Jms \cup {NoJms}
               /\ done.build = set.build /\ done.database = set.database
               /\ pc' = "failed" <=> \E d \in 1..DeploymentsOf(set) : Rejected(set, d)
               /\ \E generated \in Credentials : done = Completed(set, generated)
<1> DEFINE set == sets[next]
<1>1. PICK generated \in Credentials :
          /\ sets' = [sets EXCEPT ![next] = Completed(set, generated)]
          /\ unsetNames' = UnsetNamesAfter(set)
          /\ \/ /\ \E d \in 1..DeploymentsOf(set) : Rejected(set, d)
                /\ pc' = "failed" /\ servers' = <<>>
                /\ UNCHANGED <<next, usedNames>>
             \/ /\ ~\E d \in 1..DeploymentsOf(set) : Rejected(set, d)
                /\ pc' = pc /\ next' = next + 1
                /\ usedNames' = usedNames \cup Range(ServerNames(set))
                /\ servers' = servers \o ServersOf(set, Completed(set, generated).jms)
  BY DEF ConfigureSet
<1>2. /\ pc = "configure" /\ next \in 1..Len(sets) /\ Len(sets) \in Nat
      /\ sets \in Seq(StoredSet) /\ set \in StoredSet
  BY DEF ConfigureSet, Typed
<1> HIDE DEF set
<1>3. /\ Completed(set, generated) \in StoredSet
      /\ Completed(set, generated).name = NameOf(set)
      /\ Completed(set, generated).deployments = DeploymentsOf(set)
      /\ Completed(set, generated).build = set.build
      /\ Completed(set, generated).database = set.database
  BY <1>2, CompletedSets
<1>4. Completed(set, generated).jms \in Jms \cup {NoJms}
  BY <1>3 DEF StoredSet, ServerSet
<1>5. /\ sets' \in Seq(StoredSet) /\ Len(sets') = Len(sets)
      /\ \A i \in 1..Len(sets) :
            sets'[i] = IF i = next THEN Completed(set, generated) ELSE sets[i]
  BY <1>1, <1>2, <1>3, ExceptSeq
<1>6. sets'[next] = Completed(set, generated)
  BY <1>2, <1>5
<1>7. unsetNames' \in Nat
  BY <1>1, <1>2, NamesOfSet
<1> QED
  BY <1>1, <1>2, <1>3, <1>4, <1>5, <1>6, <1>7 DEF set

LEMMA UserSetsAreStored ==
    /\ UserSets \subseteq StoredSet
    /\ Seq(UserSets) \subseteq Seq(StoredSet)
    /\ BlankSet \in StoredSet
<1>1. UserSets \subseteq StoredSet
  BY SetsAssumption DEF SetsAssumption, StoredSet
<1>2. BlankSet \in StoredSet
  BY DEF StoredSet, BlankSet, ServerSet
<1> QED
  BY <1>1, <1>2, SeqMonotonic

LEMMA BeginTypes ==
    ASSUME Typed, Begin
    PROVE  Typed' /\ sets' \in Seq(StoredSet) /\ Len(sets') \in Nat
<1>1. (IF stored = <<>> THEN <<BlankSet>> ELSE stored) \in Seq(StoredSet)
  BY UserSetsAreStored DEF Typed
<1>2. sets' \in Seq(StoredSet) /\ Len(sets') \in Nat
  BY <1>1, SortedSets, LenProperties DEF Begin
<1> QED
  BY <1>2 DEF Begin, Typed

LEMMA ConfigureTypes == ASSUME Typed, ConfigureSet PROVE Typed'
<1>1. /\ pc = "configure" /\ next \in 1..Len(sets) /\ Len(sets) \in Nat
      /\ servers \in Seq(Server) /\ brokers = {} /\ UNCHANGED <<stored, brokers, edits>>
  BY DEF ConfigureSet, Typed
<1>2. sets[next] \in StoredSet /\ sets' \in Seq(StoredSet) /\ Len(sets') = Len(sets)
  BY RoundTaken
<1>3. unsetNames' \in Nat
  BY RoundTaken
<1>4. CASE pc' = "failed" /\ servers' = <<>> /\ UNCHANGED <<next, usedNames>>
  BY <1>1, <1>2, <1>3, <1>4 DEF Typed
<1>5. ASSUME pc' = "configure", next' = next + 1,
             usedNames' = usedNames \cup Range(ServerNames(sets[next])),
             NEW jms \in Jms \cup {NoJms},
             servers' = servers \o ServersOf(sets[next], jms)
      PROVE  Typed'
  <2>1. Range(ServerNames(sets[next])) \subseteq Name
    BY <1>2, NamesOfServers DEF Range
  <2>2. servers' \in Seq(Server)
    BY <1>1, <1>2, <1>5, NewServers, ConcatProperties
  <2>3. next' \in 1..Len(sets') + 1
    BY <1>1, <1>2, <1>5
  <2>4. usedNames' \subseteq Name
    BY <1>5, <2>1 DEF Typed
  <2> QED
    BY <1>1, <1>2, <1>3, <1>5, <2>2, <2>3, <2>4 DEF Typed
<1> QED
  BY <1>4, <1>5, RoundTaken

LEMMA EditTypes ==
    ASSUME Typed, UserAdds \/ UserRemoves \/ UserRescales \/ UserClearsName
    PROVE  Typed'
<1>1. Edit
  BY DEF UserAdds, UserRemoves, UserRescales, UserClearsName
<1>2. edits' \in 0..MaxEdits /\ UNCHANGED <<local, pc>>
  BY <1>1, BoundsAssumption DEF Edit, Typed, BoundsAssumption
<1>3. stored \in Seq(StoredSet)
  BY DEF Typed
<1>4. stored' \in Seq(StoredSet)
  <2>1. CASE UserAdds
    BY <1>3, <2>1, UserSetsAreStored, AppendProperties DEF UserAdds
  <2>2. CASE UserRemoves
    BY <1>3, <2>2, RemovedItem DEF UserRemoves
  <2>3. CASE UserRescales
    <3>1. PICK i \in DOMAIN stored, d \in 0..MaxDeployments :
              stored' = [stored EXCEPT ![i].deployments = d]
      BY <2>3 DEF UserRescales
    <3>2. [stored[i] EXCEPT !.deployments = d] \in StoredSet
      BY <1>3, BoundsAssumption DEF StoredSet, ServerSet, BoundsAssumption
    <3>3. stored' = [stored EXCEPT ![i] = [stored[i] EXCEPT !.deployments = d]]
      BY <3>1
    <3> QED
      BY <1>3, <3>2, <3>3, ExceptSeq
  <2>4. CASE UserClearsName
    <3>1. PICK i \in DOMAIN stored : stored' = [stored EXCEPT ![i].name = NoName]
      BY <2>4 DEF UserClearsName
    <3>2. [stored[i] EXCEPT !.name = NoName] \in StoredSet
      BY <1>3 DEF StoredSet, ServerSet
    <3>3. stored' = [stored EXCEPT ![i] = [stored[i] EXCEPT !.name = NoName]]
      BY <3>1
    <3> QED
      BY <1>3, <3>2, <3>3, ExceptSeq
  <2> QED
    BY <2>1, <2>2, <2>3, <2>4
<1> QED
  BY <1>2, <1>4 DEF Typed, local

LEMMA TypedAtFirst == Init => Typed
<1> SUFFICES ASSUME Init PROVE Typed
  OBVIOUS
<1>1. PICK m \in 0..MaxSets : stored \in [1..m -> UserSets]
  BY DEF Init, BoundedSeq, SeqOf
<1>2. m \in Nat
  BY BoundsAssumption DEF BoundsAssumption
<1>3. stored \in Seq(StoredSet)
  BY <1>1, <1>2, FunctionIsSeq, UserSetsAreStored
<1>4. <<>> \in Seq(StoredSet) /\ <<>> \in Seq(Server)
  BY EmptySeq
<1> QED
  BY <1>3, <1>4, BoundsAssumption DEF Init, Typed, BoundsAssumption

LEMMA TypedStep == Typed /\ [Next]_vars => Typed'
<1> SUFFICES ASSUME Typed, [Next]_vars PROVE Typed'
  OBVIOUS
<1>1. CASE Begin
  BY <1>1, BeginTypes
<1>2. CASE ConfigureSet
  BY <1>2, ConfigureTypes
<1>3. CASE Configured
  BY <1>3 DEF Configured, Typed, local
<1>4. CASE MergeJms
  BY <1>4 DEF MergeJms, Typed
<1>5. CASE Store
  BY <1>5 DEF Store, Typed, local
<1>6. CASE UserAdds \/ UserRemoves \/ UserRescales \/ UserClearsName
  BY <1>6, EditTypes
<1>7. CASE UNCHANGED vars
  BY <1>7 DEF vars, Typed
<1> QED
  BY <1>1, <1>2, <1>3, <1>4, <1>5, <1>6, <1>7 DEF Next, Pass

\* Every variable keeps its type, in particular every server has a name.
THEOREM TypeCorrect == Spec => []TypeOK
<1> QED
  BY TypedAtFirst, TypedStep, TypedIsEnough, PTL DEF Spec

-----------------------------------------------------------------------------
(* Every set gets a name *)

\* A generated name is used only if it is the name of a set already done: the
\* names of further deployments are never generated ones.
UsedBySets ==
    pc = "configure" =>
        \A k \in Nat : Generated(k) \in usedNames =>
            \E i \in 1..next - 1 : sets[i].name = Generated(k)

\* As many attempts as sets suffice: each set done before uses up at most one
\* generated name.
LEMMA OneAttemptIsFree ==
    ASSUME Typed, UsedBySets, pc = "configure", next <= Len(sets)
    PROVE  FreeAttempts # {}
<1> DEFINE owner == [k \in Attempts |->
                       CHOOSE i \in 1..next - 1 : sets[i].name = Generated(k)]
<1>1. /\ next \in 1..Len(sets) /\ Len(sets) \in Nat /\ unsetNames \in Nat
      /\ Attempts \subseteq Nat
  BY DEF Typed, Attempts
<1> SUFFICES ASSUME FreeAttempts = {} PROVE FALSE
  OBVIOUS
<1>2. \A k \in Attempts : \E i \in 1..next - 1 : sets[i].name = Generated(k)
  BY <1>1 DEF FreeAttempts, UsedBySets
<1>3. owner \in [Attempts -> 1..next - 1]
  BY <1>2
<1>4. \A k \in Attempts : sets[owner[k]].name = Generated(k)
  BY <1>2
<1> HIDE DEF owner
<1>5. IsFiniteSet(Attempts) /\ Cardinality(Attempts) = Len(sets)
  <2>1. unsetNames \in Int /\ unsetNames + Len(sets) - 1 \in Int
    BY <1>1
  <2>2. /\ IsFiniteSet(unsetNames .. unsetNames + Len(sets) - 1)
        /\ Cardinality(unsetNames .. unsetNames + Len(sets) - 1)
             = IF unsetNames > unsetNames + Len(sets) - 1 THEN 0
               ELSE unsetNames + Len(sets) - 1 - unsetNames + 1
    BY <2>1, FS_Interval
  <2> QED
    BY <1>1, <2>2 DEF Attempts
<1>6. /\ IsFiniteSet(1..next - 1)
      /\ Cardinality(1..next - 1) < Cardinality(Attempts)
  <2>1. next - 1 \in Nat
    BY <1>1
  <2>2. IsFiniteSet(1..next - 1) /\ Cardinality(1..next - 1) = next - 1
    BY <2>1, Interval
  <2> QED
    BY <1>1, <1>5, <2>2
<1>7. PICK j, k \in Attempts : j # k /\ owner[j] = owner[k]
  BY <1>3, <1>5, <1>6, FS_PigeonHole
<1>8. Generated(j) = Generated(k)
  BY <1>4, <1>7
<1> QED
  BY <1>1, <1>7, <1>8, GeneratedNames

\* So a round that meets no error gives the set a name of its own.
LEMMA RoundNames ==
    ASSUME Typed, UsedBySets, ConfigureSet
    PROVE  /\ IsChosen(NameOf(sets[next]))
           /\ sets'[next].name = NameOf(sets[next])
           /\ \A i \in 1..next - 1 : sets'[i] = sets[i]
<1>1. pc = "configure" /\ next \in 1..Len(sets) /\ Len(sets) \in Nat
  BY DEF ConfigureSet, Typed
<1>2. sets[next] \in StoredSet /\ sets'[next].name = NameOf(sets[next])
  BY RoundTaken
<1>3. \A i \in 1..Len(sets) : i # next => sets'[i] = sets[i]
  BY RoundTaken
<1>4. NameOf(sets[next]) # NoName
  <2>1. FreeAttempts # {}
    BY <1>1, OneAttemptIsFree
  <2> QED
    BY <1>2, <2>1, NamesOfSet
<1>5. \A i \in 1..next - 1 : sets'[i] = sets[i]
  BY <1>1, <1>3
<1> QED
  BY <1>2, <1>4, <1>5, NamesOfSet

LEMMA RoundUses ==
    ASSUME Typed, UsedBySets, ConfigureSet
    PROVE  UsedBySets'
<1>1. CASE pc' = "failed"
  BY <1>1 DEF UsedBySets
<1>2. CASE /\ pc' = "configure" /\ next' = next + 1
           /\ usedNames' = usedNames \cup Range(ServerNames(sets[next]))
  <2>1. next \in 1..Len(sets) /\ Len(sets) \in Nat /\ pc = "configure"
    BY DEF ConfigureSet, Typed
  <2>2. next' - 1 = next
    BY <1>2, <2>1
  <2> SUFFICES ASSUME NEW k \in Nat, Generated(k) \in usedNames'
               PROVE  \E i \in 1..next : sets'[i].name = Generated(k)
    BY <2>2 DEF UsedBySets
  <2>3. CASE Generated(k) \in usedNames
    <3>1. PICK i \in 1..next - 1 : sets[i].name = Generated(k)
      BY <2>1, <2>3 DEF UsedBySets
    <3>2. i \in 1..next /\ sets'[i] = sets[i]
      BY <2>1, <3>1, RoundNames
    <3> QED
      BY <3>1, <3>2
  <2>4. CASE Generated(k) \in Range(ServerNames(sets[next]))
    <3>1. sets[next] \in StoredSet
      BY RoundTaken
    <3>2. /\ DeploymentsOf(sets[next]) \in Nat
          /\ DOMAIN ServerNames(sets[next]) = 1..DeploymentsOf(sets[next])
      BY <3>1, NamesOfServers
    <3>3. PICK d \in 1..DeploymentsOf(sets[next]) :
              ServerNames(sets[next])[d] = Generated(k)
      BY <2>4, <3>2 DEF Range
    <3>4. DeploymentName(NameOf(sets[next]), UnsetNamesAfter(sets[next]), d - 1)
            = Generated(k)
      BY <3>3 DEF ServerNames
    <3>5. d - 1 \in Nat
      BY <3>2
    <3>6. NameOf(sets[next]) = Generated(k)
      BY <3>4, <3>5, RoundNames, OnlyOwnNameIsGenerated
    <3>7. sets'[next].name = Generated(k) /\ next \in 1..next
      BY <2>1, <3>6, RoundNames
    <3> QED
      BY <3>7
  <2> QED
    BY <1>2, <2>3, <2>4
<1> QED
  BY <1>1, <1>2, RoundTaken

LEMMA RoundKeepsNamed ==
    ASSUME Typed, UsedBySets, EverySetIsNamed, ConfigureSet
    PROVE  EverySetIsNamed'
<1>1. next \in 1..Len(sets) /\ Len(sets) \in Nat /\ pc = "configure"
  BY DEF ConfigureSet, Typed
<1>2. Named(sets'[next])
  BY RoundNames, SetsAssumption DEF Named, IsChosen, SetsAssumption
<1>3. \A i \in 1..next - 1 : Named(sets'[i])
  BY <1>1, RoundNames DEF EverySetIsNamed, Named
<1>4. \A i \in 1..next : Named(sets'[i])
  BY <1>1, <1>2, <1>3
<1>5. pc' = "failed" \/ next' = next + 1
  BY RoundTaken
<1>6. CASE pc' = "failed"
  BY <1>6 DEF EverySetIsNamed
<1>7. CASE next' = next + 1
  <2>1. next' - 1 = next
    BY <1>1, <1>7
  <2> QED
    BY <1>4, <2>1 DEF EverySetIsNamed, Named
<1> QED
  BY <1>5, <1>6, <1>7

LEMMA NamedStep ==
    Typed /\ UsedBySets /\ EverySetIsNamed /\ [Next]_vars
        => UsedBySets' /\ EverySetIsNamed'
<1> SUFFICES ASSUME Typed, UsedBySets, EverySetIsNamed, [Next]_vars
             PROVE  UsedBySets' /\ EverySetIsNamed'
  OBVIOUS
<1>1. CASE Begin
  BY <1>1 DEF Begin, UsedBySets, EverySetIsNamed
<1>2. CASE ConfigureSet
  BY <1>2, RoundUses, RoundKeepsNamed
<1>3. CASE Configured
  BY <1>3 DEF Configured, local, UsedBySets, EverySetIsNamed, Named
<1>4. CASE MergeJms
  BY <1>4 DEF MergeJms, UsedBySets, EverySetIsNamed, Named
<1>5. CASE Store
  BY <1>5 DEF Store, UsedBySets, EverySetIsNamed
<1>6. CASE UserAdds \/ UserRemoves \/ UserRescales \/ UserClearsName
  <2>1. pc' = "idle"
    BY <1>6 DEF UserAdds, UserRemoves, UserRescales, UserClearsName, Edit
  <2> QED
    BY <2>1 DEF UsedBySets, EverySetIsNamed
<1>7. CASE UNCHANGED vars
  BY <1>7 DEF vars, UsedBySets, EverySetIsNamed, Named
<1> QED
  BY <1>1, <1>2, <1>3, <1>4, <1>5, <1>6, <1>7 DEF Next, Pass

LEMMA NamedAtFirst == Init => UsedBySets /\ EverySetIsNamed
  BY DEF Init, UsedBySets, EverySetIsNamed

\* No set that getServersConfig is done with is left without a name, however
\* many sets there are and whatever names users chose.
THEOREM AttemptsSuffice == Spec => []EverySetIsNamed
<1> QED
  BY TypedAtFirst, TypedStep, NamedAtFirst, NamedStep, PTL DEF Spec

-----------------------------------------------------------------------------
(* Every server is found again *)

\* The deployments of the first m sets, and the first k of set m.
DeploymentsUpto(list, m) ==
    {p \in [set : 1..m, index : Nat] : p.index < list[p.set].deployments}

FirstOf(m, k) == {[set |-> m, index |-> d] : d \in 0..k - 1}

Preceding(list, m, k) == DeploymentsUpto(list, m - 1) \cup FirstOf(m, k)

LEMMA FirstOfSet ==
    ASSUME NEW m, NEW k \in Nat
    PROVE  IsFiniteSet(FirstOf(m, k)) /\ Cardinality(FirstOf(m, k)) = k
<1> DEFINE position == [d \in 1..k |-> [set |-> m, index |-> d - 1]]
<1>1. IsFiniteSet(1..k) /\ Cardinality(1..k) = k
  BY Interval
<1>2. \A d \in 1..k : position[d] \in FirstOf(m, k)
  <2> TAKE d \in 1..k
  <2>1. d - 1 \in 0..k - 1
    OBVIOUS
  <2> QED
    BY <2>1 DEF FirstOf
<1>3. \A p \in FirstOf(m, k) : \E d \in 1..k : position[d] = p
  <2> TAKE p \in FirstOf(m, k)
  <2>1. PICK e \in 0..k - 1 : p = [set |-> m, index |-> e]
    BY DEF FirstOf
  <2>2. e + 1 \in 1..k /\ e + 1 - 1 = e
    BY <2>1
  <2> QED
    BY <2>1, <2>2
<1>4. \A d, e \in 1..k : position[d] = position[e] => d = e
  <2> TAKE d, e \in 1..k
  <2>1. position[d].index = d - 1 /\ position[e].index = e - 1
    OBVIOUS
  <2> QED
    BY <2>1
<1>5. position \in [1..k -> FirstOf(m, k)]
  BY <1>2
<1> HIDE DEF position
<1>6. position \in Bijection(1..k, FirstOf(m, k))
  BY <1>3, <1>4, <1>5 DEF Bijection, Injection, IsInjective, Surjection
<1> QED
  BY <1>1, <1>6, FS_Bijection DEF ExistsBijection

LEMMA PrecedingOnes ==
    ASSUME NEW list, NEW m \in Nat \ {0}, NEW k \in Nat,
           IsFiniteSet(DeploymentsUpto(list, m - 1))
    PROVE  /\ IsFiniteSet(Preceding(list, m, k))
           /\ Cardinality(Preceding(list, m, k))
                = Cardinality(DeploymentsUpto(list, m - 1)) + k
<1>1. DeploymentsUpto(list, m - 1) \cap FirstOf(m, k) = {}
  <2>1. \A p \in DeploymentsUpto(list, m - 1) : p.set # m
    BY DEF DeploymentsUpto
  <2>2. \A p \in FirstOf(m, k) : p.set = m
    BY DEF FirstOf
  <2> QED
    BY <2>1, <2>2
<1>2. IsFiniteSet(FirstOf(m, k)) /\ Cardinality(FirstOf(m, k)) = k
  BY FirstOfSet
<1>3. Cardinality(DeploymentsUpto(list, m - 1)) \in Nat
  BY FS_CardinalityType
<1>4. /\ IsFiniteSet(DeploymentsUpto(list, m - 1) \cup FirstOf(m, k))
      /\ Cardinality(DeploymentsUpto(list, m - 1) \cup FirstOf(m, k))
           = Cardinality(DeploymentsUpto(list, m - 1)) + Cardinality(FirstOf(m, k))
               - Cardinality(DeploymentsUpto(list, m - 1) \cap FirstOf(m, k))
  BY <1>2, FS_Union
<1>5. Cardinality(DeploymentsUpto(list, m - 1) \cap FirstOf(m, k)) = 0
  BY <1>1, FS_EmptySet
<1> QED
  BY <1>2, <1>3, <1>4, <1>5 DEF Preceding

\* One set more.
LEMMA OneSetMore ==
    ASSUME NEW list, NEW m \in Nat \ {0}, list[m].deployments \in Nat
    PROVE  DeploymentsUpto(list, m) = Preceding(list, m, list[m].deployments)
<1>1. \A p : p \in DeploymentsUpto(list, m) <=>
                p \in DeploymentsUpto(list, m - 1) \cup FirstOf(m, list[m].deployments)
  <2> TAKE p
  <2>1. p \in DeploymentsUpto(list, m) <=>
            /\ p \in [set : 1..m, index : Nat] /\ p.index < list[p.set].deployments
    BY DEF DeploymentsUpto
  <2>2. p \in DeploymentsUpto(list, m - 1) <=>
            /\ p \in [set : 1..m - 1, index : Nat] /\ p.index < list[p.set].deployments
    BY DEF DeploymentsUpto
  <2>3. p \in FirstOf(m, list[m].deployments) <=>
            /\ p \in [set : {m}, index : Nat] /\ p.index < list[m].deployments
    BY DEF FirstOf
  <2>4. 1..m = 1..m - 1 \cup {m}
    OBVIOUS
  <2> QED
    BY <2>1, <2>2, <2>3, <2>4
<1> QED
  BY <1>1 DEF Preceding

\* The sets beyond do not matter.
LEMMA SameDeployments ==
    ASSUME NEW list, NEW other, NEW m,
           \A i \in 1..m : other[i].deployments = list[i].deployments
    PROVE  DeploymentsUpto(other, m) = DeploymentsUpto(list, m)
  BY DEF DeploymentsUpto

Passing == pc \in {"configure", "mergeJms", "done"}

\* The sets a pass is done with are complete, all of them after the loop.
SetsDone ==
    /\ Passing => \A i \in 1..next - 1 : sets[i].deployments \in Nat
    /\ pc \in {"mergeJms", "done"} => next = Len(sets) + 1

\* The server of deployment p; server i of those made is the one of p.
ServerOf(list, p) ==
    [set |-> p.set,
     name |-> DeploymentName(list[p.set].name, 0, p.index),
     jms |-> IF Integrated(list[p.set].jms) THEN list[p.set].jms ELSE NoJms]

StandsFor(list, made, i, p) ==
    /\ Cardinality(Preceding(list, p.set, p.index)) = i - 1
    /\ made[i] = ServerOf(list, p)

\* The servers made are those of the first m sets, in order.
InPlace(list, m, made) ==
    /\ IsFiniteSet(DeploymentsUpto(list, m))
    /\ Cardinality(DeploymentsUpto(list, m)) = Len(made)
    /\ \A i \in 1..Len(made) :
          \E p \in DeploymentsUpto(list, m) : StandsFor(list, made, i, p)

ServersInPlace == Passing => InPlace(sets, next - 1, servers)

\* A round that meets no error appends one server for each deployment.
LEMMA RoundAppends ==
    ASSUME Typed, UsedBySets, SetsDone, ServersInPlace, ConfigureSet, pc' # "failed"
    PROVE  SetsDone' /\ ServersInPlace'
<1> DEFINE set == sets[next]
           jms == sets'[next].jms
           count == DeploymentsOf(set)
           size == Len(servers)
<1>1. /\ pc = "configure" /\ next \in 1..Len(sets) /\ Len(sets) \in Nat
      /\ servers \in Seq(Server) /\ size \in Nat
  BY LenProperties DEF ConfigureSet, Typed
<1>2. servers' = servers \o ServersOf(set, jms) /\ jms \in Jms \cup {NoJms}
  BY RoundTaken
<1>3. /\ set \in StoredSet /\ sets'[next].deployments = count
      /\ pc' = "configure" /\ next' = next + 1
  BY RoundTaken
<1>4. count \in Nat
  BY <1>3, NamesOfServers
<1>5. /\ \A i \in 1..next - 1 : sets'[i] = sets[i]
      /\ sets'[next].name = NameOf(set) /\ NameOf(set) # NoName
  BY RoundNames, SetsAssumption DEF IsChosen, SetsAssumption
<1>6. /\ ServersOf(set, jms) \in Seq(Server) /\ Len(ServersOf(set, jms)) = count
      /\ \A d \in 1..count : ServersOf(set, jms)[d] =
            [set |-> next, name |-> ServerNames(set)[d],
             jms |-> IF Integrated(jms) THEN jms ELSE NoJms]
  BY <1>2, <1>3, NewServers
<1>7. \A d \in 1..count : ServerNames(set)[d] = DeploymentName(NameOf(set), 0, d - 1)
  BY <1>5 DEF ServerNames, DeploymentName
<1> HIDE DEF set, jms, count
<1>8. /\ Len(servers') = size + count
      /\ \A i \in 1..size : servers'[i] = servers[i]
      /\ \A d \in 1..count : servers'[size + d] = ServersOf(set, jms)[d]
  <2>1. PICK added \in Seq(Server) : added = ServersOf(set, jms)
    BY <1>6
  <2>2. servers' = servers \o added /\ Len(added) = count
    BY <1>2, <1>6, <2>1
  <2>3. /\ Len(servers \o added) = size + Len(added)
        /\ \A i \in 1..size : (servers \o added)[i] = servers[i]
        /\ \A d \in 1..Len(added) : (servers \o added)[size + d] = added[d]
    BY <1>1, Appended
  <2> QED
    BY <2>1, <2>2, <2>3
<1> HIDE DEF size
<1>9. next' - 1 = next /\ next \in Nat \ {0}
  BY <1>1, <1>3
<1>10. /\ IsFiniteSet(DeploymentsUpto(sets, next - 1))
       /\ Cardinality(DeploymentsUpto(sets, next - 1)) = size
       /\ \A i \in 1..size : \E p \in DeploymentsUpto(sets, next - 1) : StandsFor(sets, servers, i, p)
       /\ \A i \in 1..next - 1 : sets[i].deployments \in Nat
  BY <1>1 DEF ServersInPlace, InPlace, SetsDone, Passing, size
<1>11. SetsDone'
  <2>1. \A i \in 1..next : sets'[i].deployments \in Nat
    BY <1>1, <1>3, <1>4, <1>5, <1>10
  <2> QED
    BY <1>3, <1>9, <2>1 DEF SetsDone
<1>12. \A m \in 0..next - 1 : DeploymentsUpto(sets', m) = DeploymentsUpto(sets, m)
  <2> TAKE m \in 0..next - 1
  <2>1. \A i \in 1..m : sets'[i].deployments = sets[i].deployments
    BY <1>1, <1>5
  <2> QED
    BY <2>1, SameDeployments
<1>13. DeploymentsUpto(sets', next - 1) = DeploymentsUpto(sets, next - 1)
  <2>1. next - 1 \in 0..next - 1
    BY <1>9
  <2> QED
    BY <1>12, <2>1
<1>14. /\ DeploymentsUpto(sets', next) = Preceding(sets', next, count)
       /\ \A k \in Nat : /\ IsFiniteSet(Preceding(sets', next, k))
                         /\ Cardinality(Preceding(sets', next, k)) = size + k
  BY <1>3, <1>4, <1>9, <1>10, <1>13, OneSetMore, PrecedingOnes
<1>15. ASSUME NEW i \in 1..size
       PROVE  \E p \in DeploymentsUpto(sets', next) : StandsFor(sets', servers', i, p)
  <2>1. PICK p \in DeploymentsUpto(sets, next - 1) : StandsFor(sets, servers, i, p)
    BY <1>10
  <2>2. p.set \in 1..next - 1
    BY <2>1 DEF DeploymentsUpto
  <2>3. p.set - 1 \in 0..next - 1 /\ sets'[p.set] = sets[p.set]
    BY <1>5, <1>9, <2>2
  <2>4. Preceding(sets', p.set, p.index) = Preceding(sets, p.set, p.index)
    BY <1>12, <2>3 DEF Preceding
  <2>5. p \in DeploymentsUpto(sets', next)
    BY <1>13, <1>14, <2>1 DEF Preceding
  <2>6. servers'[i] = servers[i]
    BY <1>8
  <2> QED
    BY <2>1, <2>3, <2>4, <2>5, <2>6 DEF StandsFor, ServerOf
<1>16. ASSUME NEW i, NEW d \in 1..count, i = size + d
       PROVE  \E p \in DeploymentsUpto(sets', next) : StandsFor(sets', servers', i, p)
  <2>1. d - 1 \in Nat /\ d - 1 \in 0..count - 1
    BY <1>4
  <2>2. PICK p : p = [set |-> next, index |-> d - 1]
    OBVIOUS
  <2>3. p \in DeploymentsUpto(sets', next)
    BY <1>14, <2>1, <2>2 DEF Preceding, FirstOf
  <2>4. Cardinality(Preceding(sets', p.set, p.index)) = i - 1
    <3>1. Cardinality(Preceding(sets', next, d - 1)) = size + (d - 1)
      BY <1>14, <2>1
    <3>2. size \in Nat
      BY <1>1 DEF size
    <3> QED
      BY <1>16, <2>1, <2>2, <3>1, <3>2
  <2>5. servers'[i] = ServerOf(sets', p)
    <3>1. servers'[i] = [set |-> next, name |-> ServerNames(set)[d],
                         jms |-> IF Integrated(jms) THEN jms ELSE NoJms]
      BY <1>6, <1>8, <1>16
    <3>2. ServerNames(set)[d] = DeploymentName(sets'[next].name, 0, d - 1)
      BY <1>5, <1>7
    <3> QED
      BY <2>2, <3>1, <3>2 DEF ServerOf, jms
  <2>6. StandsFor(sets', servers', i, p)
    BY <2>2, <2>4, <2>5 DEF StandsFor
  <2> QED
    BY <2>3, <2>6
<1>17. \A i \in 1..size + count : \E p \in DeploymentsUpto(sets', next) : StandsFor(sets', servers', i, p)
  <2> TAKE i \in 1..size + count
  <2>1. size \in Nat
    BY <1>1 DEF size
  <2>2. CASE i <= size
    <3>1. i \in 1..size
      BY <1>4, <2>1, <2>2
    <3> QED
      BY <1>15, <3>1
  <2>3. CASE ~(i <= size)
    <3>1. i - size \in 1..count /\ i = size + (i - size)
      BY <1>4, <2>1, <2>3
    <3> QED
      BY <1>16, <3>1
  <2> QED
    BY <2>2, <2>3
<1>18. ServersInPlace'
  <2>1. /\ IsFiniteSet(DeploymentsUpto(sets', next'- 1))
        /\ Cardinality(DeploymentsUpto(sets', next'- 1)) = Len(servers')
    BY <1>4, <1>8, <1>9, <1>14
  <2>2. \A i \in 1..Len(servers') :
            \E p \in DeploymentsUpto(sets', next'- 1) : StandsFor(sets', servers', i, p)
    BY <1>8, <1>9, <1>17
  <2> QED
    BY <2>1, <2>2 DEF ServersInPlace, InPlace
<1> QED
  BY <1>11, <1>18

LEMMA InPlaceStep ==
    Typed /\ UsedBySets /\ SetsDone /\ ServersInPlace /\ [Next]_vars
        => SetsDone' /\ ServersInPlace'
<1> SUFFICES ASSUME Typed, UsedBySets, SetsDone, ServersInPlace, [Next]_vars
             PROVE  SetsDone' /\ ServersInPlace'
  OBVIOUS
<1> USE DEF Passing
<1>1. CASE Begin
  <2>1. next' - 1 = 0 /\ servers' = <<>> /\ pc' = "configure"
    BY <1>1 DEF Begin
  <2>2. DeploymentsUpto(sets', 0) = {}
    BY DEF DeploymentsUpto
  <2>3. IsFiniteSet(DeploymentsUpto(sets', 0)) /\ Cardinality(DeploymentsUpto(sets', 0)) = 0
    BY <2>2, FS_EmptySet
  <2> QED
    BY <2>1, <2>3 DEF SetsDone, ServersInPlace, InPlace
<1>2. CASE ConfigureSet
  <2>1. CASE pc' = "failed"
    BY <2>1 DEF SetsDone, ServersInPlace
  <2> QED
    BY <1>2, <2>1, RoundAppends
<1>3. CASE Configured
  <2>1. next = Len(sets) + 1 /\ pc = "configure"
    BY <1>3 DEF Configured, Typed
  <2> QED
    BY <1>3, <2>1 DEF Configured, local, SetsDone, ServersInPlace
<1>4. CASE MergeJms
  BY <1>4 DEF MergeJms, SetsDone, ServersInPlace
<1>5. CASE Store
  BY <1>5 DEF Store, SetsDone, ServersInPlace
<1>6. CASE UserAdds \/ UserRemoves \/ UserRescales \/ UserClearsName
  <2>1. pc' = "idle"
    BY <1>6 DEF UserAdds, UserRemoves, UserRescales, UserClearsName, Edit
  <2> QED
    BY <2>1 DEF SetsDone, ServersInPlace
<1>7. CASE UNCHANGED vars
  BY <1>7 DEF vars, SetsDone, ServersInPlace
<1> QED
  BY <1>1, <1>2, <1>3, <1>4, <1>5, <1>6, <1>7 DEF Next, Pass

LEMMA InPlaceAtFirst == Init => SetsDone /\ ServersInPlace
  BY DEF Init, SetsDone, ServersInPlace, Passing

\* What GetServerSet counts: the deployments of all sets, and those before one.
LEMMA CountedPositions ==
    ASSUME NEW list, NEW m \in Nat, DOMAIN list = 1..m,
           \A i \in 1..m : list[i].deployments \in Nat
    PROVE  /\ Positions(list) = DeploymentsUpto(list, m)
           /\ \A p \in Positions(list) :
                 Before(list, p) = Preceding(list, p.set, p.index)
<1>1. Positions(list) = UNION {FirstOf(i, list[i].deployments) : i \in 1..m}
  BY DEF Positions, FirstOf
<1>2. \A i, p : i \in 1..m =>
          (p \in FirstOf(i, list[i].deployments) <=>
             p \in [set : {i}, index : Nat] /\ p.index < list[i].deployments)
  BY DEF FirstOf
<1>3. \A p : p \in Positions(list) <=>
                \E i \in 1..m : p \in FirstOf(i, list[i].deployments)
  BY <1>1
<1>4. \A p : p \in DeploymentsUpto(list, m) <=>
                /\ p \in [set : 1..m, index : Nat]
                /\ p.index < list[p.set].deployments
  BY DEF DeploymentsUpto
<1>5. ASSUME NEW p \in Positions(list)
      PROVE  p \in DeploymentsUpto(list, m)
  <2>1. PICK i \in 1..m : p \in FirstOf(i, list[i].deployments)
    BY <1>3
  <2>2. p \in [set : {i}, index : Nat] /\ p.index < list[i].deployments
    BY <1>2, <2>1
  <2>3. p \in [set : 1..m, index : Nat] /\ p.set = i
    BY <2>2
  <2> QED
    BY <1>4, <2>2, <2>3
<1>6. ASSUME NEW p \in DeploymentsUpto(list, m)
      PROVE  p \in Positions(list)
  <2>1. p \in [set : 1..m, index : Nat] /\ p.index < list[p.set].deployments
    BY <1>4
  <2>2. p.set \in 1..m /\ p \in [set : {p.set}, index : Nat]
    BY <2>1
  <2> QED
    BY <1>2, <1>3, <2>1, <2>2
<1>7. Positions(list) = DeploymentsUpto(list, m)
  BY <1>5, <1>6
<1>8. ASSUME NEW p \in Positions(list)
      PROVE  Before(list, p) = Preceding(list, p.set, p.index)
  <2>1. p \in [set : 1..m, index : Nat] /\ p.index < list[p.set].deployments
    BY <1>4, <1>7
  <2>2. \A q : q \in Before(list, p) <=>
                  /\ q \in [set : 1..m, index : Nat] /\ q.index < list[q.set].deployments
                  /\ q.set < p.set \/ (q.set = p.set /\ q.index < p.index)
    BY <1>4, <1>7 DEF Before
  <2>3. \A q : q \in DeploymentsUpto(list, p.set - 1) <=>
                  /\ q \in [set : 1..p.set - 1, index : Nat]
                  /\ q.index < list[q.set].deployments
    BY DEF DeploymentsUpto
  <2>4. \A q : q \in FirstOf(p.set, p.index) <=>
                  q \in [set : {p.set}, index : Nat] /\ q.index < p.index
    BY <2>1 DEF FirstOf
  <2>5. p.set \in 1..m /\ p.index \in Nat /\ list[p.set].deployments \in Nat
    BY <2>1
  <2>6. ASSUME NEW q, q \in Before(list, p)
        PROVE  q \in DeploymentsUpto(list, p.set - 1) \cup FirstOf(p.set, p.index)
    BY <2>2, <2>3, <2>4, <2>5, <2>6
  <2>7. ASSUME NEW q \in DeploymentsUpto(list, p.set - 1)
        PROVE  q \in Before(list, p)
    BY <2>2, <2>3, <2>5
  <2>8. ASSUME NEW q \in FirstOf(p.set, p.index)
        PROVE  q \in Before(list, p)
    <3>1. q \in [set : {p.set}, index : Nat] /\ q.index < p.index
      BY <2>4
    <3>2. q.set = p.set /\ q \in [set : 1..m, index : Nat]
      BY <2>5, <3>1
    <3>3. q.index < list[q.set].deployments
      BY <2>1, <2>5, <3>1, <3>2
    <3> QED
      BY <2>2, <3>1, <3>2, <3>3
  <2> QED
    BY <2>6, <2>7, <2>8 DEF Preceding
<1> QED
  BY <1>7, <1>8

\* A position is determined by how many come before it.
LEMMA OnePosition ==
    ASSUME NEW list, NEW m \in Nat, DOMAIN list = 1..m,
           \A i \in 1..m : list[i].deployments \in Nat,
           IsFiniteSet(Positions(list)),
           NEW p \in Positions(list), NEW q \in Positions(list),
           Cardinality(Before(list, p)) = Cardinality(Before(list, q))
    PROVE  p = q
<1> DEFINE D == Positions(list)
           below == [r \in D |-> Before(list, r)]
<1>1. D \subseteq [set : 1..m, index : Nat]
  BY CountedPositions DEF DeploymentsUpto
<1>2. \A r, s \in D : s \in Before(list, r) <=>
                        s.set < r.set \/ (s.set = r.set /\ s.index < r.index)
  BY DEF Before
<1>3. \A r \in D : below[r] = Before(list, r) /\ below[r] \subseteq D
  BY DEF Before
<1> HIDE DEF D, below
<1>4. \A r \in D : /\ r.set \in Nat /\ r.index \in Nat
                   /\ r = [set |-> r.set, index |-> r.index]
  BY <1>1
<1>5. \A r \in D : r \notin below[r]
  BY <1>2, <1>3, <1>4
<1>6. \A r, s \in D : r = s \/ r \in below[s] \/ s \in below[r]
  <2> TAKE r, s \in D
  <2>1. r.set = s.set /\ r.index = s.index => r = s
    BY <1>4
  <2>2. r.set \in Nat /\ r.index \in Nat /\ s.set \in Nat /\ s.index \in Nat
    BY <1>4
  <2> QED
    BY <1>2, <1>3, <2>1, <2>2
<1>7. \A r, s, t \in D : s \in below[r] /\ t \in below[s] => t \in below[r]
  <2> TAKE r, s, t \in D
  <2>1. /\ r.set \in Nat /\ r.index \in Nat /\ s.set \in Nat /\ s.index \in Nat
        /\ t.set \in Nat /\ t.index \in Nat
    BY <1>4
  <2> QED
    BY <1>2, <1>3, <2>1
<1>8. \A r, s \in D : s \in below[r] => below[s] \subseteq below[r]
  BY <1>3, <1>7
<1>9. below \in [D -> SUBSET D]
  BY <1>3 DEF below
<1>10. IsFiniteSet(D) /\ p \in D /\ q \in D
  BY DEF D
<1>11. \A r, s \in D : Cardinality(below[r]) = Cardinality(below[s]) => r = s
  BY <1>5, <1>6, <1>8, <1>9, <1>10, PlacesInOrder
<1> QED
  BY <1>3, <1>10, <1>11

LEMMA FoundAtLast ==
    ASSUME Typed, EverySetIsNamed, SetsDone, ServersInPlace
    PROVE  ServersAreFound
<1> SUFFICES ASSUME pc = "done" PROVE ServersAreFound
  BY DEF ServersAreFound
<1>1. /\ next - 1 = Len(sets) /\ Len(sets) \in Nat /\ DOMAIN sets = 1..Len(sets)
      /\ sets \in Seq(StoredSet) /\ DOMAIN servers = 1..Len(servers)
      /\ \A i \in 1..Len(sets) : sets[i].deployments \in Nat
  BY LenProperties DEF SetsDone, Passing, Typed
<1>2. /\ Positions(sets) = DeploymentsUpto(sets, Len(sets))
      /\ \A p \in Positions(sets) : Before(sets, p) = Preceding(sets, p.set, p.index)
  BY <1>1, CountedPositions
<1>3. /\ IsFiniteSet(Positions(sets)) /\ Cardinality(Positions(sets)) = Len(servers)
      /\ \A i \in DOMAIN servers : \E p \in Positions(sets) : StandsFor(sets, servers, i, p)
  BY <1>1, <1>2 DEF ServersInPlace, InPlace, Passing
<1>4. ASSUME NEW i \in DOMAIN servers
      PROVE  GetServerSet(sets, i) = [set |-> servers[i].set, name |-> servers[i].name]
  <2>1. PICK p \in Positions(sets) : StandsFor(sets, servers, i, p)
    BY <1>3
  <2>2. Cardinality(Before(sets, p)) = i - 1
    BY <1>2, <2>1 DEF StandsFor
  <2>3. \A q \in Positions(sets) : Cardinality(Before(sets, q)) = i - 1 => q = p
    BY <1>1, <1>3, <2>2, OnePosition
  <2>4. PositionOf(sets, i) = p
    BY <2>2, <2>3 DEF PositionOf
  <2>5. p.set \in 1..Len(sets)
    BY <1>2 DEF DeploymentsUpto
  <2>6. sets[p.set].name # NoName
    BY <1>1, <2>5 DEF EverySetIsNamed, Named
  <2>7. \A k : DeploymentName(sets[p.set].name, k, p.index) = servers[i].name
    BY <2>1, <2>6 DEF StandsFor, ServerOf, DeploymentName
  <2> QED
    BY <2>1, <2>4, <2>7 DEF GetServerSet, StandsFor, ServerOf
<1> QED
  BY <1>3, <1>4 DEF ServersAreFound

\* GetServerSet and getServersConfig agree on the set and the name of every
\* server, however many sets and deployments there are.
THEOREM EveryServerIsFound == Spec => []ServersAreFound
<1>1. Typed /\ EverySetIsNamed /\ SetsDone /\ ServersInPlace => ServersAreFound
  BY FoundAtLast
<1> QED
  BY <1>1, TypedAtFirst, TypedStep, NamedAtFirst, NamedStep, InPlaceAtFirst,
     InPlaceStep, PTL DEF Spec

-----------------------------------------------------------------------------
(* Names are kept *)

\* The sets in hand are the stored ones, sorted: the k-th of the sets that had a
\* name is the k-th still, under that name.
NamesInHand ==
    pc # "idle" =>
        /\ Len(sets) = IF stored = <<>> THEN 1 ELSE Len(stored)
        /\ \A i \in DOMAIN stored : Named(stored[i]) =>
              /\ NamedUpto(stored, i) \in DOMAIN sets
              /\ sets[NamedUpto(stored, i)].name = stored[i].name

LEMMA BeginKeepsNames == ASSUME Typed, Begin PROVE NamesInHand'
<1> DEFINE list == IF stored = <<>> THEN <<BlankSet>> ELSE stored
<1>1. stored \in Seq(StoredSet) /\ list \in Seq(StoredSet)
  BY UserSetsAreStored DEF Typed
<1>2. Len(list) = IF stored = <<>> THEN 1 ELSE Len(stored)
  OBVIOUS
<1>3. \A i \in DOMAIN stored : i \in DOMAIN list /\ list[i] = stored[i] /\ list = stored
  BY <1>1
<1>4. sets' = SortBlanks(list) /\ UNCHANGED stored
  BY DEF Begin
<1> HIDE DEF list
<1>5. /\ Len(sets') = Len(list) /\ sets' \in Seq(StoredSet)
      /\ \A i \in DOMAIN list : /\ Place(list, i) \in DOMAIN list
                                /\ sets'[Place(list, i)] = list[i]
  BY <1>1, <1>4, SortedSets
<1>6. DOMAIN sets' = DOMAIN list
  BY <1>1, <1>5, LenProperties
<1>7. \A i \in DOMAIN list : Named(list[i]) => Place(list, i) = NamedUpto(list, i)
  BY <1>1, NamedSetsPlace
<1>8. ASSUME NEW i \in DOMAIN stored, Named(stored[i])
      PROVE  /\ NamedUpto(stored, i) \in DOMAIN sets'
             /\ sets'[NamedUpto(stored, i)].name = stored[i].name
  BY <1>3, <1>5, <1>6, <1>7, <1>8
<1> QED
  BY <1>2, <1>4, <1>5, <1>8 DEF NamesInHand, Named, NamedUpto

LEMMA RoundKeepsNames == ASSUME Typed, NamesInHand, ConfigureSet PROVE NamesInHand'
<1>1. /\ pc = "configure" /\ UNCHANGED stored
      /\ DOMAIN sets = 1..Len(sets) /\ next \in DOMAIN sets
  BY LenProperties DEF ConfigureSet, Typed
<1>2. /\ sets[next] \in StoredSet /\ sets'[next].name = NameOf(sets[next])
      /\ sets' \in Seq(StoredSet) /\ Len(sets') = Len(sets)
      /\ \A i \in 1..Len(sets) : i # next => sets'[i] = sets[i]
  BY RoundTaken
<1>3. DOMAIN sets' = DOMAIN sets
  BY <1>1, <1>2, LenProperties
<1>4. \A k \in DOMAIN sets : Named(sets[k]) => sets'[k].name = sets[k].name
  BY <1>1, <1>2, NamesOfSet
<1>5. ASSUME NEW i \in DOMAIN stored, Named(stored[i])
      PROVE  /\ NamedUpto(stored, i) \in DOMAIN sets'
             /\ sets'[NamedUpto(stored, i)].name = stored[i].name
  BY <1>1, <1>3, <1>4, <1>5 DEF NamesInHand, Named
<1> QED
  BY <1>1, <1>2, <1>5 DEF NamesInHand, Named, NamedUpto

LEMMA NamesStep == Typed /\ NamesInHand /\ [Next]_vars => NamesInHand'
<1> SUFFICES ASSUME Typed, NamesInHand, [Next]_vars PROVE NamesInHand'
  OBVIOUS
<1>1. CASE Begin
  BY <1>1, BeginKeepsNames
<1>2. CASE ConfigureSet
  BY <1>2, RoundKeepsNames
<1>3. CASE Configured
  BY <1>3 DEF Configured, local, NamesInHand, Named, NamedUpto
<1>4. CASE MergeJms
  BY <1>4 DEF MergeJms, NamesInHand, Named, NamedUpto
<1>5. CASE Store \/ UserAdds \/ UserRemoves \/ UserRescales \/ UserClearsName
  <2>1. pc' = "idle"
    BY <1>5 DEF Store, UserAdds, UserRemoves, UserRescales, UserClearsName, Edit
  <2> QED
    BY <2>1 DEF NamesInHand
<1>6. CASE UNCHANGED vars
  BY <1>6 DEF vars, NamesInHand, Named, NamedUpto
<1> QED
  BY <1>1, <1>2, <1>3, <1>4, <1>5, <1>6 DEF Next, Pass

\* Whatever a pass stores, after an error too, it keeps the names of the sets
\* that had one, in their order and in front.
THEOREM StoringKeepsNames == Spec => NamesAreKept
<1>1. Init => NamesInHand
  BY DEF Init, NamesInHand
<1>2. NamesInHand /\ [Next]_vars =>
          [(pc \in {"done", "failed"}) => KeepsNames]_vars
  <2> SUFFICES ASSUME NamesInHand, Next, pc \in {"done", "failed"}
               PROVE  KeepsNames
    OBVIOUS
  <2>1. stored' = sets
    BY DEF Next, Pass, Begin, ConfigureSet, Configured, MergeJms, Store, UserAdds,
           UserRemoves, UserRescales, UserClearsName, Edit
  <2> QED
    BY <2>1 DEF NamesInHand, KeepsNames
<1> QED
  BY <1>1, <1>2, TypedAtFirst, TypedStep, NamesStep, PTL DEF Spec, NamesAreKept

-----------------------------------------------------------------------------
(* A pass repeats the one before *)

\* The names that the servers of the first m sets have, and what getServersConfig
\* refuses because of them; both can be told from the completed sets.
UsedUpto(list, m) ==
    {DeploymentName(list[p.set].name, 0, p.index) : p \in DeploymentsUpto(list, m)}

Refused(list, m, d) ==
    \/ DeploymentName(list[m].name, 0, d - 1) \in UsedUpto(list, m - 1)
    \/ list[m].build /\ list[m].deployments > 1
    \/ list[m].database = "incomplete"

Fails(list, m) == \E d \in 1..list[m].deployments : Refused(list, m, d)

\* Nothing is left to complete in set m.
Settled(list, m) ==
    /\ Named(list[m]) /\ list[m].deployments \in Nat
    /\ \/ list[m].deployments = 0 \/ Refused(list, m, 1)
       \/ \A g \in Credentials : CompleteJms(list[m].jms, g) = list[m].jms

SucceedsUpto(list, m) == \A i \in 1..m : Settled(list, i) /\ ~Fails(list, i)

FailsAt(list, m) ==
    /\ m \in 1..Len(list)
    /\ SucceedsUpto(list, m - 1)
    /\ Settled(list, m) /\ Fails(list, m)

\* Whether a set is settled depends on the sets up to it only.
LEMMA SameVerdict ==
    ASSUME NEW list, NEW other, NEW m \in Nat \ {0},
           \A i \in 1..m : other[i] = list[i]
    PROVE  /\ UsedUpto(other, m) = UsedUpto(list, m)
           /\ \A d : Refused(other, m, d) <=> Refused(list, m, d)
           /\ Settled(other, m) <=> Settled(list, m)
           /\ Fails(other, m) <=> Fails(list, m)
<1>1. \A k \in 0..m : UsedUpto(other, k) = UsedUpto(list, k)
  <2> TAKE k \in 0..m
  <2>1. \A i \in 1..k : other[i] = list[i]
    OBVIOUS
  <2>2. DeploymentsUpto(other, k) = DeploymentsUpto(list, k)
    BY <2>1, SameDeployments
  <2>3. \A p \in DeploymentsUpto(list, k) : other[p.set] = list[p.set]
    BY <2>1 DEF DeploymentsUpto
  <2> QED
    BY <2>2, <2>3 DEF UsedUpto
<1>2. UsedUpto(other, m) = UsedUpto(list, m) /\ UsedUpto(other, m - 1) = UsedUpto(list, m - 1)
  <2>1. m \in 0..m /\ m - 1 \in 0..m
    OBVIOUS
  <2> QED
    BY <1>1, <2>1
<1>3. other[m] = list[m]
  OBVIOUS
<1>4. \A d : Refused(other, m, d) <=> Refused(list, m, d)
  BY <1>2, <1>3 DEF Refused
<1> QED
  BY <1>2, <1>3, <1>4 DEF Settled, Fails

LEMMA SameSuccess ==
    ASSUME NEW list, NEW other, NEW m \in Nat,
           \A i \in 1..m : other[i] = list[i], SucceedsUpto(list, m)
    PROVE  SucceedsUpto(other, m)
<1> SUFFICES ASSUME NEW i \in 1..m PROVE Settled(other, i) /\ ~Fails(other, i)
  BY DEF SucceedsUpto
<1>1. i \in Nat \ {0} /\ \A j \in 1..i : other[j] = list[j]
  OBVIOUS
<1> QED
  BY <1>1, SameVerdict DEF SucceedsUpto

\* The names used so far are those of the sets so far.
NamesCounted == pc = "configure" => usedNames = UsedUpto(sets, next - 1)

\* What getServersConfig rejects can be told from any list that has the set in
\* hand completed.
LEMMA RejectedIsRefused ==
    ASSUME Typed, NamesCounted, pc = "configure", next \in 1..Len(sets),
           NameOf(sets[next]) # NoName, NEW list,
           \A i \in 1..next - 1 : list[i] = sets[i],
           list[next].name = NameOf(sets[next]),
           list[next].deployments = DeploymentsOf(sets[next]),
           list[next].build = sets[next].build,
           list[next].database = sets[next].database,
           NEW d \in 1..DeploymentsOf(sets[next])
    PROVE  Rejected(sets[next], d) <=> Refused(list, next, d)
<1>1. next - 1 \in Nat
  BY DEF Typed
<1>2. UsedUpto(list, next - 1) = UsedUpto(sets, next - 1)
  <2>1. DeploymentsUpto(list, next - 1) = DeploymentsUpto(sets, next - 1)
    BY SameDeployments
  <2>2. \A p \in DeploymentsUpto(sets, next - 1) : list[p.set] = sets[p.set]
    BY DEF DeploymentsUpto
  <2> QED
    BY <2>1, <2>2 DEF UsedUpto
<1>3. usedNames = UsedUpto(list, next - 1)
  BY <1>2 DEF NamesCounted
<1>4. ServerNames(sets[next])[d] = DeploymentName(list[next].name, 0, d - 1)
  BY DEF ServerNames, DeploymentName
<1> QED
  BY <1>3, <1>4 DEF Rejected, Refused

\* A round leaves its set settled, also when it ends in an error, and ends in an
\* error just when the list it leaves says so.
LEMMA RoundSettles ==
    ASSUME Typed, UsedBySets, NamesCounted, ConfigureSet
    PROVE  /\ Settled(sets', next)
           /\ pc' = "failed" <=> Fails(sets', next)
           /\ NamesCounted'
<1> DEFINE set == sets[next]
           done == sets'[next]
<1>1. /\ pc = "configure" /\ next \in 1..Len(sets) /\ Len(sets) \in Nat
      /\ next \in Nat \ {0}
  BY DEF ConfigureSet, Typed
<1>2. /\ set \in StoredSet /\ done \in StoredSet /\ DeploymentsOf(set) \in Nat
      /\ done.name = NameOf(set) /\ done.deployments = DeploymentsOf(set)
      /\ done.build = set.build /\ done.database = set.database
      /\ pc' = "failed" <=> \E d \in 1..DeploymentsOf(set) : Rejected(set, d)
  BY RoundTaken, NamesOfServers
<1>3. PICK generated \in Credentials : done = Completed(set, generated)
  BY RoundTaken
<1>4. NameOf(set) # NoName /\ \A i \in 1..next - 1 : sets'[i] = sets[i]
  BY RoundNames, SetsAssumption DEF IsChosen, SetsAssumption
<1>5. \A d \in 1..DeploymentsOf(set) : Rejected(set, d) <=> Refused(sets', next, d)
  <2> PICK list : list = sets'
    OBVIOUS
  <2> QED
    BY <1>1, <1>2, <1>4, RejectedIsRefused
<1>6. set.jms \in Jms \cup {NoJms}
  BY <1>2 DEF StoredSet, ServerSet
<1>7. \/ DeploymentsOf(set) = 0 \/ Rejected(set, 1)
      \/ done.jms = CompleteJms(set.jms, generated)
  BY <1>2, <1>3 DEF Completed, StoredSet, ServerSet
<1> HIDE DEF set, done
<1>8. Settled(sets', next)
  <2>1. sets'[next] = done
    BY DEF done
  <2>2. DeploymentsOf(set) # 0 /\ Rejected(set, 1) => Refused(sets', next, 1)
    <3>1. DeploymentsOf(set) # 0 => 1 \in 1..DeploymentsOf(set)
      BY <1>2
    <3> QED
      BY <1>5, <3>1
  <2>3. \/ done.deployments = 0 \/ Refused(sets', next, 1)
        \/ \A g \in Credentials : CompleteJms(done.jms, g) = done.jms
    BY <1>2, <1>6, <1>7, <2>2, CompletedJms
  <2> QED
    BY <1>2, <1>4, <2>1, <2>3 DEF Settled, Named
<1>9. pc' = "failed" <=> Fails(sets', next)
  <2>1. sets'[next].deployments = DeploymentsOf(set)
    BY <1>2 DEF done
  <2> QED
    BY <1>2, <1>5, <2>1 DEF Fails
<1>10. NamesCounted'
  <2> SUFFICES ASSUME pc' = "configure" PROVE usedNames' = UsedUpto(sets', next' - 1)
    BY DEF NamesCounted
  <2>1. next' - 1 = next /\ usedNames' = usedNames \cup Range(ServerNames(set))
    BY <1>1, RoundTaken DEF set
  <2>2. PICK list : list = sets'
    OBVIOUS
  <2>3. DeploymentsUpto(list, next)
          = DeploymentsUpto(sets, next - 1) \cup FirstOf(next, DeploymentsOf(set))
    <3>1. DeploymentsUpto(list, next) = Preceding(list, next, DeploymentsOf(set))
      BY <1>1, <1>2, <2>2, OneSetMore DEF done
    <3>2. DeploymentsUpto(list, next - 1) = DeploymentsUpto(sets, next - 1)
      BY <1>1, <1>4, <2>2, SameDeployments
    <3> QED
      BY <3>1, <3>2 DEF Preceding
  <2>4. \A p \in DeploymentsUpto(sets, next - 1) : list[p.set] = sets[p.set]
    BY <1>4, <2>2 DEF DeploymentsUpto
  <2>5. list[next].name = NameOf(set)
    BY <1>2, <2>2 DEF done
  <2>6. Range(ServerNames(set))
          = {DeploymentName(list[p.set].name, 0, p.index) :
               p \in FirstOf(next, DeploymentsOf(set))}
    <3>1. \A d \in 1..DeploymentsOf(set) :
              ServerNames(set)[d] = DeploymentName(list[next].name, 0, d - 1)
      BY <1>4, <2>5 DEF ServerNames, DeploymentName
    <3>2. DOMAIN ServerNames(set) = 1..DeploymentsOf(set)
      BY DEF ServerNames
    <3>3. ASSUME NEW d \in 1..DeploymentsOf(set)
          PROVE  \E p \in FirstOf(next, DeploymentsOf(set)) :
                    DeploymentName(list[p.set].name, 0, p.index) = ServerNames(set)[d]
      <4>1. d - 1 \in 0..DeploymentsOf(set) - 1
        BY <1>2
      <4>2. [set |-> next, index |-> d - 1] \in FirstOf(next, DeploymentsOf(set))
        BY <4>1 DEF FirstOf
      <4> QED
        BY <3>1, <4>2
    <3>4. ASSUME NEW p \in FirstOf(next, DeploymentsOf(set))
          PROVE  \E d \in 1..DeploymentsOf(set) :
                    DeploymentName(list[p.set].name, 0, p.index) = ServerNames(set)[d]
      <4>1. PICK e \in 0..DeploymentsOf(set) - 1 : p = [set |-> next, index |-> e]
        BY DEF FirstOf
      <4>2. e + 1 \in 1..DeploymentsOf(set) /\ e + 1 - 1 = e
        BY <1>2, <4>1
      <4> QED
        BY <3>1, <4>1, <4>2
    <3> QED
      BY <3>2, <3>3, <3>4 DEF Range
  <2>7. UsedUpto(list, next) = UsedUpto(sets, next - 1) \cup Range(ServerNames(set))
    BY <2>3, <2>4, <2>6 DEF UsedUpto
  <2> QED
    BY <1>1, <2>1, <2>2, <2>7 DEF NamesCounted
<1> QED
  BY <1>8, <1>9, <1>10

\* A round over a settled set changes nothing.
LEMMA SettledRound ==
    ASSUME Typed, UsedBySets, NamesCounted, ConfigureSet, Settled(sets, next)
    PROVE  sets' = sets
<1> DEFINE set == sets[next]
<1>1. /\ pc = "configure" /\ next \in 1..Len(sets) /\ sets \in Seq(StoredSet)
  BY DEF ConfigureSet, Typed
<1>2. /\ set \in StoredSet /\ sets' \in Seq(StoredSet) /\ Len(sets') = Len(sets)
      /\ \A i \in 1..Len(sets) : i # next => sets'[i] = sets[i]
  BY RoundTaken
<1>3. PICK generated \in Credentials : sets'[next] = Completed(set, generated)
  BY RoundTaken
<1>4. NameOf(set) = set.name /\ set.name # NoName
  BY <1>2, NamesOfSet DEF Settled, Named
<1>5. DeploymentsOf(set) = set.deployments /\ set.deployments \in Nat
  BY SetsAssumption DEF Settled, DeploymentsOf, SetsAssumption
<1>6. set.deployments # 0 => (Rejected(set, 1) <=> Refused(sets, next, 1))
  <2> SUFFICES ASSUME set.deployments # 0
               PROVE  Rejected(set, 1) <=> Refused(sets, next, 1)
    OBVIOUS
  <2>1. 1 \in 1..DeploymentsOf(set)
    BY <1>5
  <2> QED
    BY <1>1, <1>4, <1>5, <2>1, RejectedIsRefused
<1>7. \/ set.deployments = 0 \/ Refused(sets, next, 1)
      \/ CompleteJms(set.jms, generated) = set.jms
  BY DEF Settled
<1> HIDE DEF set
<1>8. (IF DeploymentsOf(set) = 0 \/ Rejected(set, 1) THEN set.jms
       ELSE CompleteJms(set.jms, generated)) = set.jms
  BY <1>5, <1>6, <1>7
<1>9. Completed(set, generated)
        = [set EXCEPT !.name = set.name, !.deployments = set.deployments, !.jms = set.jms]
  BY <1>4, <1>5, <1>8 DEF Completed
<1>10. Completed(set, generated) = set
  BY <1>2, <1>9 DEF StoredSet, ServerSet
<1>11. \A i \in 1..Len(sets) : sets'[i] = sets[i]
  BY <1>2, <1>3, <1>10 DEF set
<1> QED
  BY <1>1, <1>2, <1>11, SeqEqual

\* mergeJms
BrokersOf(made) == {i \in DOMAIN made : \E j \in 1..i : Integrated(made[j].jms)}

\* What a pass establishes: the sets it is done with are settled, and it fails
\* at the first one that has an error.
PassSettles ==
    /\ pc # "idle" => sets # <<>> /\ NamedFirst(sets)
    /\ NamesCounted
    /\ Passing => SucceedsUpto(sets, next - 1)
    /\ pc = "done" => brokers = BrokersOf(servers)
    /\ pc = "failed" => servers = <<>> /\ brokers = {} /\ FailsAt(sets, next)

LEMMA BeginSettles == ASSUME Typed, Begin PROVE PassSettles'
<1> DEFINE list == IF stored = <<>> THEN <<BlankSet>> ELSE stored
<1>1. list \in Seq(StoredSet) /\ Len(list) # 0
  <2>1. stored \in Seq(StoredSet) /\ BlankSet \in StoredSet
    BY UserSetsAreStored DEF Typed
  <2> QED
    BY <2>1, EmptySeq
<1>2. /\ sets' = SortBlanks(list) /\ pc' = "configure" /\ next' - 1 = 0
      /\ usedNames' = {}
  BY DEF Begin
<1> HIDE DEF list
<1>3. PICK sorted \in Seq(StoredSet) :
          sorted = sets' /\ Len(sorted) = Len(list) /\ NamedFirst(sorted)
  BY <1>1, <1>2, SortedSets
<1>4. sorted # <<>>
  BY <1>1, <1>3, EmptySeq
<1>5. UsedUpto(sorted, 0) = {} /\ SucceedsUpto(sorted, 0)
  BY DEF UsedUpto, DeploymentsUpto, SucceedsUpto
<1>6. sets' # <<>> /\ NamedFirst(sets')
  BY <1>3, <1>4
<1>7. usedNames' = UsedUpto(sets', next' - 1) /\ SucceedsUpto(sets', next' - 1)
  BY <1>2, <1>3, <1>5
<1> QED
  BY <1>2, <1>6, <1>7 DEF PassSettles, NamesCounted

LEMMA RoundGoesOn ==
    ASSUME Typed, UsedBySets, EverySetIsNamed, PassSettles, ConfigureSet
    PROVE  PassSettles'
<1>1. /\ pc = "configure" /\ next \in 1..Len(sets) /\ Len(sets) \in Nat
      /\ next \in Nat \ {0} /\ sets \in Seq(StoredSet) /\ brokers = {}
      /\ UNCHANGED brokers /\ NamesCounted
  BY DEF ConfigureSet, Typed, PassSettles
<1>2. /\ sets' \in Seq(StoredSet) /\ Len(sets') = Len(sets)
      /\ \A i \in 1..Len(sets) : i # next => sets'[i] = sets[i]
      /\ sets'[next].name = NameOf(sets[next])
  BY RoundTaken
<1>3. DOMAIN sets' = 1..Len(sets) /\ DOMAIN sets = 1..Len(sets)
  BY <1>1, <1>2, LenProperties
<1>4. sets' # <<>> /\ NamedFirst(sets')
  <2>1. Len(sets') # 0
    BY <1>1, <1>2
  <2>2. Named(sets'[next]) /\ \A i \in 1..next - 1 : sets'[i] = sets[i]
    BY RoundNames, SetsAssumption DEF Named, IsChosen, SetsAssumption
  <2>3. \A i \in 1..next : Named(sets'[i])
    BY <1>1, <2>2 DEF EverySetIsNamed
  <2>4. \A i \in next + 1..Len(sets) : sets'[i] = sets[i]
    BY <1>1, <1>2
  <2>5. ASSUME NEW i \in 1..Len(sets), NEW j \in 1..Len(sets), i < j, Named(sets'[j])
        PROVE  Named(sets'[i])
    <3>1. CASE i <= next
      BY <2>3, <3>1
    <3>2. CASE ~(i <= next)
      <4>1. i \in next + 1..Len(sets) /\ j \in next + 1..Len(sets)
        BY <1>1, <2>5, <3>2
      <4>2. Named(sets[i])
        BY <1>1, <1>3, <2>4, <2>5, <4>1 DEF PassSettles, NamedFirst
      <4> QED
        BY <2>4, <4>1, <4>2
    <3> QED
      BY <3>1, <3>2
  <2>6. NamedFirst(sets')
    BY <1>3, <2>5 DEF NamedFirst
  <2> QED
    BY <2>1, <2>6
<1>5. SucceedsUpto(sets', next - 1)
  <2>1. next - 1 \in Nat /\ SucceedsUpto(sets, next - 1)
    BY <1>1 DEF PassSettles, Passing
  <2>2. \A i \in 1..next - 1 : sets'[i] = sets[i]
    BY RoundNames, <1>1
  <2>3. PICK list : list = sets'
    OBVIOUS
  <2> QED
    BY <2>1, <2>2, <2>3, SameSuccess
<1>6. Settled(sets', next) /\ NamesCounted' /\ (pc' = "failed" <=> Fails(sets', next))
  BY <1>1, RoundSettles
<1>7. CASE pc' = "failed"
  <2>1. servers' = <<>> /\ next' = next /\ brokers' = {}
    BY <1>1, <1>7, RoundTaken
  <2>2. FailsAt(sets', next')
    BY <1>1, <1>2, <1>5, <1>6, <1>7, <2>1 DEF FailsAt
  <2> QED
    BY <1>4, <1>6, <1>7, <2>1, <2>2 DEF PassSettles, Passing
<1>8. CASE pc' # "failed"
  <2>1. pc' = "configure" /\ next' - 1 = next
    BY <1>1, <1>8, RoundTaken
  <2>2. SucceedsUpto(sets', next)
    <3>1. ~Fails(sets', next)
      BY <1>6, <1>8
    <3>2. \A i \in 1..next : i \in 1..next - 1 \/ i = next
      BY <1>1
    <3> QED
      BY <1>5, <1>6, <3>1, <3>2 DEF SucceedsUpto
  <2> QED
    BY <1>4, <1>6, <2>1, <2>2 DEF PassSettles, Passing
<1> QED
  BY <1>7, <1>8

LEMMA SettlesStep ==
    Typed /\ UsedBySets /\ EverySetIsNamed /\ PassSettles /\ [Next]_vars
        => PassSettles'
<1> SUFFICES ASSUME Typed, UsedBySets, EverySetIsNamed, PassSettles, [Next]_vars
             PROVE  PassSettles'
  OBVIOUS
<1> USE DEF Passing, NamesCounted
<1>1. CASE Begin
  BY <1>1, BeginSettles
<1>2. CASE ConfigureSet
  BY <1>2, RoundGoesOn
<1>3. CASE Configured
  BY <1>3 DEF Configured, local, PassSettles
<1>4. CASE MergeJms
  BY <1>4 DEF MergeJms, PassSettles, BrokersOf
<1>5. CASE Store \/ UserAdds \/ UserRemoves \/ UserRescales \/ UserClearsName
  <2>1. pc' = "idle"
    BY <1>5 DEF Store, UserAdds, UserRemoves, UserRescales, UserClearsName, Edit
  <2> QED
    BY <2>1 DEF PassSettles
<1>6. CASE UNCHANGED vars
  BY <1>6 DEF vars, PassSettles
<1> QED
  BY <1>1, <1>2, <1>3, <1>4, <1>5, <1>6 DEF Next, Pass

\* The sets determine the servers.
LEMMA SameServers ==
    ASSUME NEW list \in Seq(StoredSet), NEW made \in Seq(Server), NEW again \in Seq(Server),
           \A i \in 1..Len(list) : list[i].deployments \in Nat,
           InPlace(list, Len(list), made), InPlace(list, Len(list), again)
    PROVE  made = again
<1>1. Len(list) \in Nat /\ DOMAIN list = 1..Len(list)
  BY LenProperties
<1>2. /\ Positions(list) = DeploymentsUpto(list, Len(list))
      /\ \A p \in Positions(list) : Before(list, p) = Preceding(list, p.set, p.index)
  BY <1>1, CountedPositions
<1>3. /\ IsFiniteSet(Positions(list)) /\ Len(made) = Len(again)
      /\ \A i \in 1..Len(made) :
            /\ \E p \in Positions(list) : StandsFor(list, made, i, p)
            /\ \E p \in Positions(list) : StandsFor(list, again, i, p)
  BY <1>2 DEF InPlace
<1>4. ASSUME NEW i \in 1..Len(made)
      PROVE  made[i] = again[i]
  <2>1. PICK p \in Positions(list) : StandsFor(list, made, i, p)
    BY <1>3
  <2>2. PICK q \in Positions(list) : StandsFor(list, again, i, q)
    BY <1>3
  <2>3. Cardinality(Before(list, p)) = Cardinality(Before(list, q))
    BY <1>2, <2>1, <2>2 DEF StandsFor
  <2>4. p = q
    BY <1>1, <1>3, <2>3, OnePosition
  <2> QED
    BY <2>1, <2>2, <2>4 DEF StandsFor
<1> QED
  BY <1>3, <1>4, SeqEqual

\* What the outcome of a pass is like.
Ended(outcome) ==
    /\ outcome = [sets |-> outcome.sets, servers |-> outcome.servers,
                  brokers |-> outcome.brokers, end |-> outcome.end]
    /\ outcome.sets \in Seq(StoredSet) /\ outcome.sets # <<>> /\ NamedFirst(outcome.sets)
    /\ \/ /\ outcome.end = "done"
          /\ SucceedsUpto(outcome.sets, Len(outcome.sets))
          /\ outcome.servers \in Seq(Server)
          /\ InPlace(outcome.sets, Len(outcome.sets), outcome.servers)
          /\ outcome.brokers = BrokersOf(outcome.servers)
       \/ /\ outcome.end = "failed"
          /\ \E m \in 1..Len(outcome.sets) : FailsAt(outcome.sets, m)
          /\ outcome.servers = <<>> /\ outcome.brokers = {}

LEMMA PassEnds ==
    ASSUME Typed, SetsDone, ServersInPlace, PassSettles, pc \in {"done", "failed"}
    PROVE  Ended(Outcome)
<1>1. /\ sets \in Seq(StoredSet) /\ sets # <<>> /\ NamedFirst(sets)
      /\ servers \in Seq(Server)
  BY DEF Typed, PassSettles
<1>2. CASE pc = "done"
  <2>1. next - 1 = Len(sets)
    <3>1. Len(sets) \in Nat
      BY <1>1, LenProperties
    <3> QED
      BY <1>2, <3>1 DEF SetsDone
  <2>2. /\ SucceedsUpto(sets, Len(sets)) /\ InPlace(sets, Len(sets), servers)
        /\ brokers = BrokersOf(servers)
    BY <1>2, <2>1 DEF PassSettles, ServersInPlace, Passing
  <2> QED
    BY <1>1, <1>2, <2>2 DEF Ended, Outcome
<1>3. CASE pc = "failed"
  <2>1. FailsAt(sets, next) /\ servers = <<>> /\ brokers = {} /\ next \in 1..Len(sets)
    BY <1>3 DEF PassSettles, FailsAt
  <2> QED
    BY <1>1, <1>3, <2>1 DEF Ended, Outcome
<1> QED
  BY <1>2, <1>3

\* A pass over the sets that the last one has stored follows it step by step.
Repeating ==
    last # NoPass =>
        /\ Ended(last)
        /\ last.sets = IF pc = "idle" THEN stored ELSE sets
        /\ pc = "failed" => last.end = "failed"
        /\ pc \in {"mergeJms", "done"} => last.end = "done"

LEMMA BeginRepeats ==
    ASSUME Typed, Repeating, Begin, last # NoPass
    PROVE  Repeating'
<1>1. /\ pc = "idle" /\ stored = last.sets /\ Ended(last) /\ last' = last
      /\ pc' = "configure" /\ stored # <<>> /\ NamedFirst(stored) /\ stored \in Seq(StoredSet)
  BY DEF Begin, Repeating, Ended
<1>2. sets' = stored
  BY <1>1, SortedAlready DEF Begin
<1> QED
  BY <1>1, <1>2 DEF Repeating

LEMMA RoundRepeats ==
    ASSUME Typed, UsedBySets, PassSettles, Repeating, ConfigureSet, last # NoPass
    PROVE  Repeating'
<1>1. /\ pc = "configure" /\ next \in 1..Len(sets) /\ Len(sets) \in Nat
      /\ next \in Nat /\ last' = last /\ NamesCounted /\ SucceedsUpto(sets, next - 1)
  BY DEF ConfigureSet, Typed, PassSettles, Passing
<1>2. last.sets = sets /\ Ended(last)
  BY <1>1 DEF Repeating
<1>3. \/ last.end = "done" /\ Settled(sets, next) /\ ~Fails(sets, next)
      \/ last.end = "failed" /\ Settled(sets, next)
  <2>1. CASE last.end = "done"
    BY <1>1, <1>2, <2>1 DEF Ended, SucceedsUpto
  <2>2. CASE last.end # "done"
    <3>1. last.end = "failed" /\ \E m \in 1..Len(sets) : FailsAt(sets, m)
      BY <1>2, <2>2 DEF Ended
    <3>2. PICK m \in 1..Len(sets) : FailsAt(sets, m)
      BY <3>1
    <3>3. ~(m \in 1..next - 1)
      BY <1>1, <3>2 DEF FailsAt, SucceedsUpto
    <3>4. m = next \/ next \in 1..m - 1
      BY <1>1, <3>3
    <3>5. Settled(sets, next)
      BY <3>2, <3>4 DEF FailsAt, SucceedsUpto
    <3> QED
      BY <3>1, <3>5
  <2> QED
    BY <2>1, <2>2
<1>4. sets' = sets
  BY <1>1, <1>3, SettledRound
<1>5. pc' \in {"configure", "failed"}
  BY RoundTaken
<1>6. pc' = "failed" => last.end = "failed"
  <2> SUFFICES ASSUME pc' = "failed" PROVE last.end = "failed"
    OBVIOUS
  <2>1. Fails(sets', next)
    BY <1>1, RoundSettles
  <2> QED
    BY <1>3, <1>4, <2>1
<1> QED
  BY <1>1, <1>2, <1>4, <1>5, <1>6 DEF Repeating

LEMMA ConfiguredRepeats ==
    ASSUME Typed, PassSettles, Repeating, Configured, last # NoPass
    PROVE  Repeating'
<1>1. /\ pc = "configure" /\ next = Len(sets) + 1 /\ Len(sets) \in Nat
      /\ pc' = "mergeJms" /\ UNCHANGED <<sets, last>>
  BY DEF Configured, Typed, local
<1>2. last.sets = sets /\ Ended(last) /\ SucceedsUpto(sets, Len(sets))
  <2>1. next - 1 = Len(sets)
    BY <1>1
  <2> QED
    BY <1>1, <2>1 DEF Repeating, PassSettles, Passing
<1>3. last.end = "done"
  BY <1>2 DEF Ended, FailsAt, SucceedsUpto
<1> QED
  BY <1>1, <1>2, <1>3 DEF Repeating

LEMMA RepeatsStep ==
    /\ Typed /\ UsedBySets /\ SetsDone /\ ServersInPlace /\ PassSettles /\ Repeating
    /\ [Next]_vars
    => Repeating'
<1> SUFFICES ASSUME Typed, UsedBySets, SetsDone, ServersInPlace, PassSettles,
                    Repeating, [Next]_vars
             PROVE  Repeating'
  OBVIOUS
<1>1. CASE last = NoPass /\ (Begin \/ ConfigureSet \/ Configured \/ MergeJms)
  BY <1>1 DEF Repeating, Begin, ConfigureSet, Configured, MergeJms
<1>2. CASE last # NoPass /\ Begin
  BY <1>2, BeginRepeats
<1>3. CASE last # NoPass /\ ConfigureSet
  BY <1>3, RoundRepeats
<1>4. CASE last # NoPass /\ Configured
  BY <1>4, ConfiguredRepeats
<1>5. CASE last # NoPass /\ MergeJms
  BY <1>5 DEF MergeJms, Repeating
<1>6. CASE Store
  <2>1. pc' = "idle" /\ stored' = sets /\ last' = Outcome /\ pc \in {"done", "failed"}
    BY <1>6 DEF Store
  <2>2. Ended(Outcome) /\ Outcome.sets = sets
    BY <2>1, PassEnds DEF Outcome
  <2>3. Ended(last')
    BY <2>1, <2>2
  <2> QED
    BY <2>1, <2>2, <2>3 DEF Repeating
<1>7. CASE UserAdds \/ UserRemoves \/ UserRescales \/ UserClearsName
  <2>1. last' = NoPass
    BY <1>7 DEF UserAdds, UserRemoves, UserRescales, UserClearsName, Edit
  <2> QED
    BY <2>1 DEF Repeating
<1>8. CASE UNCHANGED vars
  BY <1>8 DEF vars, Repeating
<1> QED
  BY <1>1, <1>2, <1>3, <1>4, <1>5, <1>6, <1>7, <1>8 DEF Next, Pass

LEMMA RepeatedAtLast ==
    ASSUME Typed, SetsDone, ServersInPlace, PassSettles, Repeating
    PROVE  SecondPassChangesNothing
<1> SUFFICES ASSUME pc \in {"done", "failed"}, last # NoPass PROVE Outcome = last
  BY DEF SecondPassChangesNothing
<1>1. Ended(Outcome) /\ Ended(last) /\ last.sets = sets /\ last.end = pc
  BY PassEnds DEF Repeating
<1>2. /\ Outcome.sets = sets /\ Outcome.servers = servers
      /\ Outcome.brokers = brokers /\ Outcome.end = pc
  BY DEF Outcome
<1>3. last.servers = servers /\ last.brokers = brokers
  <2>1. CASE pc = "failed"
    BY <1>1, <1>2, <2>1 DEF Ended
  <2>2. CASE pc = "done"
    <3>1. /\ sets \in Seq(StoredSet) /\ \A i \in 1..Len(sets) : sets[i].deployments \in Nat
          /\ servers \in Seq(Server) /\ InPlace(sets, Len(sets), servers)
          /\ brokers = BrokersOf(servers)
      BY <1>1, <1>2, <2>2 DEF Ended, SucceedsUpto, Settled
    <3>2. /\ last.servers \in Seq(Server) /\ InPlace(sets, Len(sets), last.servers)
          /\ last.brokers = BrokersOf(last.servers)
      BY <1>1, <2>2 DEF Ended
    <3>3. last.servers = servers
      BY <3>1, <3>2, SameServers
    <3> QED
      BY <3>1, <3>2, <3>3
  <2> QED
    BY <2>1, <2>2
<1> QED
  BY <1>1, <1>3 DEF Outcome, Ended

\* A pass over the sets that the last one has stored ends with the same sets,
\* servers and brokers, and in the same way, however many sets there are and
\* whether the last one succeeded or failed.
THEOREM PassesRepeat == Spec => []SecondPassChangesNothing
<1>1. Init => PassSettles /\ Repeating
  BY DEF Init, PassSettles, Repeating, NamesCounted, Passing
<1>2. Typed /\ SetsDone /\ ServersInPlace /\ PassSettles /\ Repeating
          => SecondPassChangesNothing
  BY RepeatedAtLast
<1> QED
  BY <1>1, <1>2, TypedAtFirst, TypedStep, NamedAtFirst, NamedStep, InPlaceAtFirst,
     InPlaceStep, SettlesStep, RepeatsStep, PTL DEF Spec
=============================================================================
