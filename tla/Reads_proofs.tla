---------------------------- MODULE Reads_proofs ----------------------------
(***************************************************************************)
(* Theorems about Reads: walks through the pages of either store, and the  *)
(* hybrid ranking, for any records, values, filters and limits.            *)
(***************************************************************************)
EXTENDS Reads, FiniteSetTheorems, FunctionTheorems, SequenceTheorems, TLAPS

----------------------------------------------------------------------------
(* Sorting *)

\* An order that puts the elements of the set one after the other.
Total(order, S) ==
  /\ \A i \in S : <<i, i>> \notin order
  /\ \A i, j \in S : i # j => <<i, j>> \in order \/ <<j, i>> \in order
  /\ \A i, j, k \in S : <<i, j>> \in order /\ <<j, k>> \in order => <<i, k>> \in order

AheadOf(S, order, i) == {j \in S : <<j, i>> \in order}

\* How many elements are ahead of one.
Rank(S, order, i) == Cardinality(AheadOf(S, order, i))

LEMMA FiniteCount ==
  ASSUME NEW S, IsFiniteSet(S), NEW T \in SUBSET S
  PROVE  /\ IsFiniteSet(T) /\ Cardinality(T) \in Nat /\ Cardinality(S) \in Nat
         /\ Cardinality(T) <= Cardinality(S)
         /\ T # S => Cardinality(T) < Cardinality(S)
<1>1. IsFiniteSet(T) /\ Cardinality(T) <= Cardinality(S)
      /\ (Cardinality(S) = Cardinality(T) => S = T)
  BY FS_Subset
<1>2. Cardinality(T) \in Nat /\ Cardinality(S) \in Nat
  BY <1>1, FS_CardinalityType
<1> QED
  BY <1>1, <1>2

LEMMA UpTo ==
  ASSUME NEW n \in Nat
  PROVE  IsFiniteSet(1..n) /\ Cardinality(1..n) = n
<1>1. 1 \in Int /\ n \in Int
  OBVIOUS
<1>2. IsFiniteSet(1..n) /\ Cardinality(1..n) = IF 1 > n THEN 0 ELSE n - 1 + 1
  BY <1>1, FS_Interval
<1>3. n = IF 1 > n THEN 0 ELSE n - 1 + 1
  OBVIOUS
<1> QED
  BY <1>2, <1>3

\* What is ahead has fewer ahead of it, and every number of them occurs.
LEMMA RanksAre ==
  ASSUME NEW S, IsFiniteSet(S), NEW order, Total(order, S)
  PROVE  /\ Cardinality(S) \in Nat
         /\ \A i \in S : Rank(S, order, i) \in 0..(Cardinality(S) - 1)
         /\ \A i, j \in S : <<i, j>> \in order => Rank(S, order, i) < Rank(S, order, j)
         /\ \A i, j \in S : Rank(S, order, i) = Rank(S, order, j) => i = j
         /\ \A k \in 1..Cardinality(S) : \E i \in S : Rank(S, order, i) = k - 1
<1>1. Cardinality(S) \in Nat
  BY FS_CardinalityType
<1>2. ASSUME NEW i \in S
      PROVE  Rank(S, order, i) \in 0..(Cardinality(S) - 1)
  <2>1. AheadOf(S, order, i) \subseteq S /\ i \notin AheadOf(S, order, i)
    BY DEF AheadOf, Total
  <2>2. AheadOf(S, order, i) # S
    BY <2>1
  <2> QED
    BY <1>1, <2>1, <2>2, FiniteCount DEF Rank
<1>3. ASSUME NEW i \in S, NEW j \in S, <<i, j>> \in order
      PROVE  Rank(S, order, i) < Rank(S, order, j)
  <2>1. AheadOf(S, order, i) \subseteq AheadOf(S, order, j)
    BY <1>3 DEF AheadOf, Total
  <2>2. i \in AheadOf(S, order, j) /\ i \notin AheadOf(S, order, i)
    BY <1>3 DEF AheadOf, Total
  <2>3. IsFiniteSet(AheadOf(S, order, j))
    BY FiniteCount DEF AheadOf
  <2> QED
    BY <2>1, <2>2, <2>3, FiniteCount DEF Rank
<1>4. \A i, j \in S : Rank(S, order, i) = Rank(S, order, j) => i = j
  <2> TAKE i, j \in S
  <2>1. Rank(S, order, i) \in Nat /\ Rank(S, order, j) \in Nat
    BY <1>2, <1>1
  <2>2. <<i, j>> \in order => Rank(S, order, i) < Rank(S, order, j)
    BY <1>3
  <2>3. <<j, i>> \in order => Rank(S, order, j) < Rank(S, order, i)
    BY <1>3
  <2>4. i # j => <<i, j>> \in order \/ <<j, i>> \in order
    BY DEF Total
  <2> QED
    BY <2>1, <2>2, <2>3, <2>4
<1>5. \A k \in 1..Cardinality(S) : \E i \in S : Rank(S, order, i) = k - 1
  <2> DEFINE to == 0..(Cardinality(S) - 1)
             f == [i \in S |-> Rank(S, order, i)]
  <2>1. f \in Injection(S, to)
    BY <1>2, <1>4 DEF Injection, IsInjective
  <2>2. IsFiniteSet(to) /\ Cardinality(to) = Cardinality(S)
    <3>1. 0 \in Int /\ Cardinality(S) - 1 \in Int
      BY <1>1
    <3>2. IsFiniteSet(to) /\ Cardinality(to) =
            IF 0 > Cardinality(S) - 1 THEN 0 ELSE (Cardinality(S) - 1) - 0 + 1
      BY <3>1, FS_Interval
    <3> QED
      BY <1>1, <3>2
  <2>3. \A k \in 1..Cardinality(S) : k - 1 \in to
    BY <1>1
  <2> HIDE DEF to
  <2>4. f \in Surjection(S, to)
    BY <2>1, <2>2, FS_Injection
  <2>5. \A x \in to : \E i \in S : f[i] = x
    BY <2>4 DEF Surjection
  <2> QED
    BY <2>3, <2>5
<1> QED
  BY <1>1, <1>2, <1>3, <1>4, <1>5

\* Sorting puts every element at the place its rank says.
LEMMA SortedIs ==
  ASSUME NEW S, IsFiniteSet(S), NEW order, Total(order, S)
  PROVE  /\ Cardinality(S) \in Nat
         /\ Sorted(S, order) \in Seq(S) /\ Len(Sorted(S, order)) = Cardinality(S)
         /\ \A k \in 1..Cardinality(S) :
              /\ Sorted(S, order)[k] \in S
              /\ Rank(S, order, Sorted(S, order)[k]) = k - 1
         /\ \A i \in S : /\ Rank(S, order, i) + 1 \in 1..Cardinality(S)
                         /\ Sorted(S, order)[Rank(S, order, i) + 1] = i
<1> DEFINE at(k) == CHOOSE i \in S : Rank(S, order, i) = k - 1
           N == Cardinality(S)
<1>1. N \in Nat
  BY RanksAre
<1>2. Sorted(S, order) = [k \in 1..N |-> at(k)]
  BY DEF Sorted, Rank, AheadOf
<1> HIDE DEF N
<1>3. \A k \in 1..N : at(k) \in S /\ Rank(S, order, at(k)) = k - 1
  <2>1. \A k \in 1..N : \E i \in S : Rank(S, order, i) = k - 1
    BY RanksAre DEF N
  <2> QED
    BY <2>1
<1> HIDE DEF at
<1>4. [k \in 1..N |-> at(k)] \in Seq(S) /\ Len([k \in 1..N |-> at(k)]) = N
  BY <1>1, <1>3
<1>5. ASSUME NEW i \in S
      PROVE  Rank(S, order, i) + 1 \in 1..N /\ at(Rank(S, order, i) + 1) = i
  <2>1. Rank(S, order, i) \in 0..(N - 1)
    BY RanksAre DEF N
  <2>2. Rank(S, order, i) + 1 \in 1..N /\ (Rank(S, order, i) + 1) - 1 = Rank(S, order, i)
    BY <1>1, <2>1
  <2>3. at(Rank(S, order, i) + 1) \in S
        /\ Rank(S, order, at(Rank(S, order, i) + 1)) = Rank(S, order, i)
    BY <1>3, <2>2
  <2> QED
    BY <2>2, <2>3, RanksAre
<1> QED
  BY <1>1, <1>2, <1>3, <1>4, <1>5 DEF N

\* In the sorted sequence the places are in the order.
LEMMA SortedOrder ==
  ASSUME NEW S, IsFiniteSet(S), NEW order, Total(order, S),
         NEW m \in 1..Cardinality(S), NEW n \in 1..Cardinality(S)
  PROVE  /\ Sorted(S, order)[m] \in S
         /\ <<Sorted(S, order)[m], Sorted(S, order)[n]>> \in order <=> m < n
         /\ Sorted(S, order)[m] = Sorted(S, order)[n] => m = n
<1> DEFINE i == Sorted(S, order)[m]
           j == Sorted(S, order)[n]
<1>1. /\ i \in S /\ j \in S /\ Cardinality(S) \in Nat
      /\ Rank(S, order, i) = m - 1 /\ Rank(S, order, j) = n - 1
  BY SortedIs
<1> HIDE DEF i, j
<1>2. <<i, j>> \in order => m - 1 < n - 1
  BY <1>1, RanksAre
<1>3. <<j, i>> \in order => n - 1 < m - 1
  BY <1>1, RanksAre
<1>4. i = j => m - 1 = n - 1
  BY <1>1
<1>5. i # j => <<i, j>> \in order \/ <<j, i>> \in order
  BY <1>1 DEF Total
<1> QED
  BY <1>1, <1>2, <1>3, <1>4, <1>5 DEF i, j

\* A sequence of all elements in the order is the sorted one.
LEMMA SortedOnly ==
  ASSUME NEW S, NEW order, Total(order, S), NEW s \in Seq(S),
         \A i \in S : \E n \in 1..Len(s) : s[n] = i,
         \A m, n \in 1..Len(s) : m < n => <<s[m], s[n]>> \in order
  PROVE  /\ IsFiniteSet(S) /\ Cardinality(S) = Len(s)
         /\ s = Sorted(S, order)
<1>1. Len(s) \in Nat /\ DOMAIN s = 1..Len(s) /\ \A n \in 1..Len(s) : s[n] \in S
  OBVIOUS
<1>2. ASSUME NEW m \in 1..Len(s), NEW n \in 1..Len(s)
      PROVE  /\ <<s[m], s[n]>> \in order <=> m < n
             /\ s[m] = s[n] => m = n
  <2>1. m < n \/ n < m \/ m = n
    BY <1>1
  <2>2. n < m => <<s[n], s[m]>> \in order
    OBVIOUS
  <2>3. m < n => <<s[m], s[n]>> \in order
    OBVIOUS
  <2>4. <<s[m], s[m]>> \notin order
    BY <1>1 DEF Total
  <2>5. ~(<<s[m], s[n]>> \in order /\ <<s[n], s[m]>> \in order)
    BY <1>1, <2>4 DEF Total
  <2> QED
    BY <1>1, <2>1, <2>2, <2>3, <2>4, <2>5
<1>3. IsFiniteSet(S) /\ Cardinality(S) = Len(s)
  <2>0. s \in [1..Len(s) -> S]
    BY <1>1
  <2>1. s \in Injection(1..Len(s), S)
    <3>1. \A m, n \in DOMAIN s : s[m] = s[n] => m = n
      BY <1>1, <1>2
    <3> QED
      BY <2>0, <3>1 DEF Injection, IsInjective
  <2>2. s \in Surjection(1..Len(s), S)
    BY <2>0 DEF Surjection
  <2>3. IsFiniteSet(1..Len(s)) /\ Cardinality(1..Len(s)) = Len(s)
    BY <1>1, UpTo
  <2>4. ExistsBijection(1..Len(s), S)
    BY <2>1, <2>2 DEF ExistsBijection, Bijection
  <2> QED
    BY <2>3, <2>4, FS_Bijection
<1>4. ASSUME NEW n \in 1..Len(s) PROVE Rank(S, order, s[n]) = n - 1
  <2> DEFINE f == [m \in 1..(n - 1) |-> s[m]]
             ahead == AheadOf(S, order, s[n])
  <2>1. \A m \in 1..(n - 1) : m \in 1..Len(s) /\ m < n
    BY <1>1
  <2>2. \A i \in ahead : \E m \in 1..(n - 1) : s[m] = i
    <3> TAKE i \in ahead
    <3>1. i \in S /\ <<i, s[n]>> \in order
      BY DEF AheadOf
    <3>2. PICK m \in 1..Len(s) : s[m] = i
      BY <3>1
    <3>3. m < n
      BY <1>2, <3>1, <3>2
    <3>4. m \in 1..(n - 1)
      BY <1>1, <3>3
    <3> QED
      BY <3>2, <3>4
  <2>3. \A m \in 1..(n - 1) : s[m] \in ahead
    BY <1>1, <1>2, <2>1 DEF AheadOf
  <2>4. \A k, m \in 1..(n - 1) : s[k] = s[m] => k = m
    BY <1>2, <2>1
  <2> HIDE DEF ahead
  <2>5. f \in Injection(1..(n - 1), ahead)
    BY <2>3, <2>4 DEF Injection, IsInjective
  <2>6. f \in Surjection(1..(n - 1), ahead)
    BY <2>2, <2>3 DEF Surjection
  <2>7. ExistsBijection(1..(n - 1), ahead)
    BY <2>5, <2>6 DEF ExistsBijection, Bijection
  <2>8. IsFiniteSet(1..(n - 1)) /\ Cardinality(1..(n - 1)) = n - 1
    <3>1. n - 1 \in Nat
      BY <1>1
    <3> QED
      BY <3>1, UpTo
  <2>9. Cardinality(ahead) = n - 1
    BY <2>7, <2>8, FS_Bijection
  <2> QED
    BY <2>9 DEF Rank, ahead
<1>5. ASSUME NEW n \in 1..Len(s) PROVE Sorted(S, order)[n] = s[n]
  <2>1. (n - 1) + 1 = n
    BY <1>1
  <2> QED
    BY <1>1, <1>3, <1>4, <2>1, SortedIs
<1>6. /\ Sorted(S, order) \in Seq(S) /\ Len(Sorted(S, order)) = Len(s)
  BY <1>3, SortedIs
<1> QED
  BY <1>1, <1>3, <1>5, <1>6

----------------------------------------------------------------------------
(* The order of a structured search *)

ValuesOK == value \in [Ids -> Values \cup {Null}]

\* What a key of the cursor can be.
Keys == {v.key : v \in Values} \cup {Null}

Absent(i) == value[i] = Null

\* SqlBefore, with what equal values imply left out.
Precedes(sort, descending, i, j) ==
  \/ ~sort /\ Beyond(descending, j, i)
  \/ sort /\ ~Absent(i) /\ Absent(j)
  \/ sort /\ Absent(i) /\ Absent(j) /\ Beyond(descending, j, i)
  \/ sort /\ ~Absent(i) /\ ~Absent(j) /\ Beyond(descending, value[j].key, value[i].key)
  \/ sort /\ ~Absent(i) /\ ~Absent(j) /\ value[j].key = value[i].key
       /\ Beyond(descending, j, i)

LEMMA KeysAre ==
  ASSUME ValuesOK, NEW i \in Ids
  PROVE  /\ i \in Nat /\ Null \notin Nat
         /\ ~Absent(i) => value[i].key \in Nat /\ KeyOf(i) = value[i].key
         /\ Absent(i) => KeyOf(i) = Null
         /\ KeyOf(i) \in Keys
<1>1. value[i] \in Values \cup {Null}
  BY DEF ValuesOK
<1>2. Null \notin Nat /\ i \in Nat /\ Values \subseteq [key : Nat, json : Nat]
  BY SearchConstants
<1>3. CASE value[i] = Null
  BY <1>2, <1>3 DEF Absent, KeyOf, Keys
<1>4. CASE value[i] # Null
  <2>1. value[i] \in Values /\ value[i].key \in Nat
    BY <1>1, <1>2, <1>4
  <2> QED
    BY <1>2, <1>4, <2>1 DEF Absent, KeyOf, Keys
<1> QED
  BY <1>3, <1>4

LEMMA BeforeIs ==
  ASSUME ValuesOK, NEW sort \in BOOLEAN, NEW descending \in BOOLEAN,
         NEW i \in Ids, NEW j \in Ids
  PROVE  SqlBefore(sort, descending, i, j) <=> Precedes(sort, descending, i, j)
<1>1. /\ ~Absent(i) => value[i].key \in Nat
      /\ ~Absent(j) => value[j].key \in Nat
      /\ i \in Nat /\ j \in Nat
  BY KeysAre
<1>2. CASE ~sort
  BY <1>2 DEF SqlBefore, Precedes
<1>3. CASE sort /\ value[i] = value[j]
  BY <1>1, <1>3 DEF SqlBefore, Precedes, Absent, Beyond
<1>4. CASE sort /\ value[i] # value[j]
  <2>1. CASE Absent(i) \/ Absent(j)
    BY <1>4, <2>1 DEF SqlBefore, Precedes, Absent
  <2>2. CASE ~Absent(i) /\ ~Absent(j)
    BY <1>1, <1>4, <2>2 DEF SqlBefore, Precedes, Absent, Beyond
  <2> QED
    BY <2>1, <2>2
<1> QED
  BY <1>2, <1>3, <1>4

LEMMA BeyondOrders ==
  ASSUME NEW descending \in BOOLEAN, NEW a \in Nat, NEW b \in Nat, NEW c \in Nat
  PROVE  /\ ~Beyond(descending, a, a)
         /\ a # b => Beyond(descending, a, b) \/ Beyond(descending, b, a)
         /\ Beyond(descending, a, b) /\ Beyond(descending, b, c) => Beyond(descending, a, c)
         /\ ~(Beyond(descending, a, b) /\ Beyond(descending, b, a))
BY DEF Beyond

LEMMA PrecedesTransitive ==
  ASSUME ValuesOK, NEW sort \in BOOLEAN, NEW descending \in BOOLEAN,
         NEW i \in Ids, NEW j \in Ids, NEW k \in Ids,
         Precedes(sort, descending, i, j), Precedes(sort, descending, j, k)
  PROVE  Precedes(sort, descending, i, k)
<1>1. /\ i \in Nat /\ j \in Nat /\ k \in Nat
      /\ ~Absent(i) => value[i].key \in Nat
      /\ ~Absent(j) => value[j].key \in Nat
      /\ ~Absent(k) => value[k].key \in Nat
  BY KeysAre
<1>2. Beyond(descending, k, j) /\ Beyond(descending, j, i) => Beyond(descending, k, i)
  BY <1>1, BeyondOrders
<1>3. CASE ~sort
  BY <1>2, <1>3 DEF Precedes
<1>4. CASE sort /\ Absent(k)
  BY <1>2, <1>4 DEF Precedes
<1>5. CASE sort /\ ~Absent(k)
  <2>1. ~Absent(i) /\ ~Absent(j)
    BY <1>5 DEF Precedes
  <2>2. value[i].key \in Nat /\ value[j].key \in Nat /\ value[k].key \in Nat
    BY <1>1, <1>5, <2>1
  <2>3. \/ Beyond(descending, value[j].key, value[i].key)
        \/ value[j].key = value[i].key /\ Beyond(descending, j, i)
    BY <1>5, <2>1 DEF Precedes
  <2>4. \/ Beyond(descending, value[k].key, value[j].key)
        \/ value[k].key = value[j].key /\ Beyond(descending, k, j)
    BY <1>5, <2>1 DEF Precedes
  <2>5. \/ Beyond(descending, value[k].key, value[i].key)
        \/ value[k].key = value[i].key /\ Beyond(descending, k, i)
    BY <1>2, <2>2, <2>3, <2>4, BeyondOrders
  <2> QED
    BY <1>5, <2>1, <2>5 DEF Precedes
<1> QED
  BY <1>3, <1>4, <1>5

\* The order is total, with or without a sort, in either direction.
LEMMA SqlOrderTotal ==
  ASSUME ValuesOK, NEW sort \in BOOLEAN, NEW descending \in BOOLEAN, NEW S \in SUBSET Ids
  PROVE  /\ Total(SqlOrder(sort, descending), S)
         /\ \A i, j \in Ids : <<i, j>> \in SqlOrder(sort, descending)
                                <=> Precedes(sort, descending, i, j)
<1> DEFINE order == SqlOrder(sort, descending)
<1>1. ASSUME NEW i \in Ids, NEW j \in Ids
      PROVE  <<i, j>> \in order <=> Precedes(sort, descending, i, j)
  BY BeforeIs DEF SqlOrder
<1> HIDE DEF order
<1>2. ASSUME NEW i \in S PROVE <<i, i>> \notin order
  <2>1. ~Precedes(sort, descending, i, i)
    BY KeysAre, BeyondOrders DEF Precedes
  <2> QED
    BY <1>1, <2>1
<1>3. ASSUME NEW i \in S, NEW j \in S, i # j
      PROVE  <<i, j>> \in order \/ <<j, i>> \in order
  <2>1. /\ i \in Nat /\ j \in Nat
        /\ ~Absent(i) => value[i].key \in Nat
        /\ ~Absent(j) => value[j].key \in Nat
    BY KeysAre
  <2>2. Beyond(descending, i, j) \/ Beyond(descending, j, i)
    BY <1>3, <2>1, BeyondOrders
  <2>3. ~Absent(i) /\ ~Absent(j) /\ value[i].key # value[j].key =>
          \/ Beyond(descending, value[i].key, value[j].key)
          \/ Beyond(descending, value[j].key, value[i].key)
    BY <2>1, BeyondOrders
  <2>4. Precedes(sort, descending, i, j) \/ Precedes(sort, descending, j, i)
    BY <2>2, <2>3 DEF Precedes
  <2> QED
    BY <1>1, <2>4
<1>4. ASSUME NEW i \in S, NEW j \in S, NEW k \in S, <<i, j>> \in order, <<j, k>> \in order
      PROVE  <<i, k>> \in order
  <2>1. Precedes(sort, descending, i, k)
    BY <1>1, <1>4, PrecedesTransitive
  <2> QED
    BY <1>1, <2>1
<1>5. Total(order, S)
  BY <1>2, <1>3, <1>4 DEF Total
<1> QED
  BY <1>1, <1>5 DEF order

\* The keyset condition says what comes after the cursor's record.
LEMMA AfterIs ==
  ASSUME ValuesOK, NEW sort \in BOOLEAN, NEW descending \in BOOLEAN,
         NEW cursor \in Ids, NEW i \in Ids
  PROVE  AfterCursor(i, sort, descending, cursor, KeyOf(cursor))
           <=> Precedes(sort, descending, cursor, i)
<1>1. cursor # Null
  BY SearchConstants
<1>2. CASE ~sort
  BY <1>1, <1>2 DEF AfterCursor, Precedes
<1>3. CASE sort /\ Absent(cursor)
  BY <1>1, <1>3 DEF AfterCursor, Precedes, KeyOf, Absent
<1>4. CASE sort /\ ~Absent(cursor)
  <2>1. KeyOf(cursor) = value[cursor].key /\ KeyOf(cursor) # Null
    BY <1>4, KeysAre
  <2> QED
    BY <1>1, <1>4, <2>1 DEF AfterCursor, AfterKey, Precedes, Absent
<1> QED
  BY <1>2, <1>3, <1>4

\* What comes after a record that comes after the cursor comes after the cursor.
LEMMA AfterUp ==
  ASSUME ValuesOK, NEW sort \in BOOLEAN, NEW descending \in BOOLEAN,
         NEW cursor \in Ids \cup {Null}, NEW key \in Keys, NEW i \in Ids, NEW j \in Ids,
         AfterCursor(j, sort, descending, cursor, key), Precedes(sort, descending, j, i)
  PROVE  AfterCursor(i, sort, descending, cursor, key)
<1>1. CASE cursor = Null
  BY <1>1 DEF AfterCursor
<1>2. CASE cursor # Null
  <2>1. /\ cursor \in Nat /\ i \in Nat /\ j \in Nat
        /\ ~Absent(i) => value[i].key \in Nat
        /\ ~Absent(j) => value[j].key \in Nat
    BY <1>2, KeysAre
  <2>2. key # Null => key \in Nat
    BY SearchConstants DEF Keys
  <2>3. Beyond(descending, j, cursor) /\ Beyond(descending, i, j)
          => Beyond(descending, i, cursor)
    BY <2>1, BeyondOrders
  <2>4. CASE ~sort
    BY <1>2, <2>3, <2>4 DEF AfterCursor, Precedes
  <2>5. CASE sort /\ Absent(i)
    BY <1>2, <2>3, <2>5 DEF AfterCursor, AfterKey, Precedes, Absent
  <2>6. CASE sort /\ ~Absent(i)
    <3>1. ~Absent(j)
      BY <2>6 DEF Precedes
    <3>2. key # Null /\ AfterKey(j, descending, cursor, key)
      BY <1>2, <2>6, <3>1 DEF AfterCursor, Absent
    <3>3. \/ Beyond(descending, value[j].key, key)
          \/ value[j].key = key /\ Beyond(descending, j, cursor)
      BY <3>2 DEF AfterKey
    <3>4. \/ Beyond(descending, value[i].key, value[j].key)
          \/ value[i].key = value[j].key /\ Beyond(descending, i, j)
      BY <2>6, <3>1 DEF Precedes
    <3>5. key \in Nat /\ value[i].key \in Nat /\ value[j].key \in Nat
      BY <2>1, <2>2, <2>6, <3>1, <3>2
    <3>6. \/ Beyond(descending, value[i].key, key)
          \/ value[i].key = key /\ Beyond(descending, i, cursor)
      BY <2>3, <3>3, <3>4, <3>5, BeyondOrders
    <3> QED
      BY <2>6, <3>2, <3>6 DEF AfterCursor, AfterKey, Absent
  <2> QED
    BY <2>4, <2>5, <2>6
<1> QED
  BY <1>1, <1>2

----------------------------------------------------------------------------
(* One page *)

\* Orders that agree on the elements of a set sort it alike.
LEMMA SortedAlike ==
  ASSUME NEW S, IsFiniteSet(S), NEW order, NEW other, Total(order, S),
         \A i, j \in S : <<i, j>> \in other <=> <<i, j>> \in order
  PROVE  Sorted(S, other) = Sorted(S, order)
<1>1. Total(other, S)
  BY DEF Total
<1> DEFINE s == Sorted(S, other)
<1>2. /\ Cardinality(S) \in Nat /\ s \in Seq(S) /\ Len(s) = Cardinality(S)
      /\ \A i \in S : /\ Rank(S, other, i) + 1 \in 1..Cardinality(S)
                      /\ s[Rank(S, other, i) + 1] = i
  BY <1>1, SortedIs
<1>3. \A i \in S : \E n \in 1..Len(s) : s[n] = i
  BY <1>2
<1>4. ASSUME NEW m \in 1..Len(s), NEW n \in 1..Len(s), m < n
      PROVE  <<s[m], s[n]>> \in order
  <2>1. m \in 1..Cardinality(S) /\ n \in 1..Cardinality(S)
    BY <1>2
  <2>2. s[m] \in S /\ s[n] \in S
    BY <1>1, <2>1, SortedIs
  <2>3. <<s[m], s[n]>> \in other
    BY <1>1, <1>4, <2>1, SortedOrder
  <2> QED
    BY <2>2, <2>3
<1> HIDE DEF s
<1>5. s = Sorted(S, order)
  BY <1>2, <1>3, <1>4, SortedOnly
<1> QED
  BY <1>5 DEF s

LEMMA Joined ==
  ASSUME NEW S, NEW a \in Seq(S), NEW b \in Seq(S)
  PROVE  /\ a \o b \in Seq(S) /\ Len(a \o b) = Len(a) + Len(b)
         /\ Len(a) \in Nat /\ Len(b) \in Nat
         /\ \A n \in 1..Len(a) : n \in 1..Len(a \o b) /\ (a \o b)[n] = a[n]
         /\ \A n \in 1..Len(b) : Len(a) + n \in 1..Len(a \o b) /\ (a \o b)[Len(a) + n] = b[n]
         /\ \A m \in 1..Len(a \o b) :
              \/ m \in 1..Len(a) /\ (a \o b)[m] = a[m]
              \/ m > Len(a) /\ m - Len(a) \in 1..Len(b) /\ (a \o b)[m] = b[m - Len(a)]
<1>1. /\ a \o b \in Seq(S) /\ Len(a \o b) = Len(a) + Len(b)
      /\ Len(a) \in Nat /\ Len(b) \in Nat
  OBVIOUS
<1>2. ASSUME NEW n \in 1..Len(a)
      PROVE  n \in 1..Len(a \o b) /\ (a \o b)[n] = a[n]
  BY <1>1
<1>3. ASSUME NEW n \in 1..Len(b)
      PROVE  Len(a) + n \in 1..Len(a \o b) /\ (a \o b)[Len(a) + n] = b[n]
  <2>1. /\ Len(a) + n \in 1..Len(a) + Len(b) /\ Len(a) + n \notin 1..Len(a)
        /\ Len(a) + n - Len(a) = n
    BY <1>1
  <2> QED
    BY <1>1, <2>1
<1>4. ASSUME NEW m \in 1..Len(a \o b)
      PROVE  \/ m \in 1..Len(a) /\ (a \o b)[m] = a[m]
             \/ m > Len(a) /\ m - Len(a) \in 1..Len(b) /\ (a \o b)[m] = b[m - Len(a)]
  <2>1. CASE m \in 1..Len(a)
    BY <1>2, <2>1
  <2>2. CASE m \notin 1..Len(a)
    <3>1. m > Len(a) /\ m - Len(a) \in 1..Len(b) /\ Len(a) + (m - Len(a)) = m
      BY <1>1, <2>2
    <3>2. (a \o b)[Len(a) + (m - Len(a))] = b[m - Len(a)]
      BY <1>3, <3>1
    <3> QED
      BY <3>1, <3>2
  <2> QED
    BY <2>1, <2>2
<1> QED
  BY <1>1, <1>2, <1>3, <1>4

\* The list of the in-memory store, the present and the missing sorted apart,
\* is in the order of PostgreSQL.
LEMMA SortedMemoryIs ==
  ASSUME ValuesOK, NEW sort \in BOOLEAN, NEW descending \in BOOLEAN, NEW found \in SUBSET Ids
  PROVE  SortedMemory(found, sort, descending) = Sorted(found, SqlOrder(sort, descending))
<1> DEFINE order == SqlOrder(sort, descending)
           less(i, j) == \/ value[i].key < value[j].key
                         \/ value[i].key = value[j].key /\ i < j
           byKey == {p \in Ids \X Ids :
                       IF descending THEN less(p[2], p[1]) ELSE less(p[1], p[2])}
           byId == {p \in Ids \X Ids : Beyond(descending, p[2], p[1])}
           present == {i \in found : value[i] # Null}
           missing == found \ present
<1>1. /\ SortedMemory(found, sort, descending)
           = IF sort THEN Sorted(present, byKey) \o Sorted(missing, byId)
             ELSE Sorted(found, byId)
  BY DEF SortedMemory
<1>2. \A S \in SUBSET Ids : IsFiniteSet(S) /\ Total(order, S)
  <2>1. \A S \in SUBSET Ids : IsFiniteSet(S)
    BY SearchConstants, FiniteCount
  <2> QED
    BY <2>1, SqlOrderTotal
<1>3. \A i, j \in Ids : <<i, j>> \in order <=> Precedes(sort, descending, i, j)
  <2>1. Ids \in SUBSET Ids
    OBVIOUS
  <2> QED
    BY <2>1, SqlOrderTotal
<1>4. \A i, j \in Ids : <<i, j>> \in byId <=> Beyond(descending, j, i)
  OBVIOUS
<1>5. ASSUME NEW i \in present, NEW j \in present
      PROVE  /\ i \in Ids /\ j \in Ids /\ ~Absent(i) /\ ~Absent(j)
             /\ <<i, j>> \in byKey <=>
                  \/ Beyond(descending, value[j].key, value[i].key)
                  \/ value[j].key = value[i].key /\ Beyond(descending, j, i)
  <2>1. i \in Ids /\ j \in Ids /\ ~Absent(i) /\ ~Absent(j)
    BY DEF Absent
  <2>2. /\ i \in Nat /\ j \in Nat /\ value[i].key \in Nat /\ value[j].key \in Nat
    BY <2>1, KeysAre
  <2>3. <<i, j>> \in byKey <=> IF descending THEN less(j, i) ELSE less(i, j)
    BY <2>1
  <2> QED
    BY <2>1, <2>2, <2>3 DEF Beyond
<1>6. \A i \in missing : i \in Ids /\ Absent(i)
  BY DEF Absent
<1>7. /\ present \in SUBSET found /\ missing \in SUBSET found /\ found \in SUBSET Ids
      /\ found = present \cup missing
      /\ present \in SUBSET Ids /\ missing \in SUBSET Ids
  OBVIOUS
<1> HIDE DEF order, byKey, byId, present, missing, less
<1>8. CASE ~sort
  <2>1. \A i, j \in found : <<i, j>> \in byId <=> <<i, j>> \in order
    BY <1>3, <1>4, <1>7, <1>8 DEF Precedes
  <2>2. Sorted(found, byId) = Sorted(found, order)
    BY <1>2, <1>7, <2>1, SortedAlike
  <2> QED
    BY <1>1, <1>8, <2>2 DEF order
<1>9. CASE sort
  <2> DEFINE a == Sorted(present, order)
             b == Sorted(missing, order)
             s == a \o b
  <2>1. Sorted(present, byKey) = a
    <3>1. \A i, j \in present : <<i, j>> \in byKey <=> <<i, j>> \in order
      BY <1>3, <1>5, <1>9 DEF Precedes
    <3> QED
      BY <1>2, <1>7, <3>1, SortedAlike
  <2>2. Sorted(missing, byId) = b
    <3>1. \A i, j \in missing : <<i, j>> \in byId <=> <<i, j>> \in order
      BY <1>3, <1>4, <1>6, <1>9 DEF Precedes
    <3> QED
      BY <1>2, <1>7, <3>1, SortedAlike
  <2>3. /\ a \in Seq(present) /\ b \in Seq(missing)
        /\ \A i \in present : \E n \in 1..Len(a) : a[n] = i
        /\ \A i \in missing : \E n \in 1..Len(b) : b[n] = i
    <3>1. /\ IsFiniteSet(present) /\ Total(order, present)
          /\ IsFiniteSet(missing) /\ Total(order, missing)
      BY <1>2, <1>7
    <3>2. /\ a \in Seq(present) /\ Len(a) = Cardinality(present)
          /\ \A i \in present : /\ Rank(present, order, i) + 1 \in 1..Cardinality(present)
                                /\ a[Rank(present, order, i) + 1] = i
      BY <3>1, SortedIs
    <3>3. /\ b \in Seq(missing) /\ Len(b) = Cardinality(missing)
          /\ \A i \in missing : /\ Rank(missing, order, i) + 1 \in 1..Cardinality(missing)
                                /\ b[Rank(missing, order, i) + 1] = i
      BY <3>1, SortedIs
    <3> QED
      BY <3>2, <3>3
  <2>4. /\ \A m, n \in 1..Len(a) : m < n => <<a[m], a[n]>> \in order
        /\ \A m, n \in 1..Len(b) : m < n => <<b[m], b[n]>> \in order
    <3>1. /\ IsFiniteSet(present) /\ Total(order, present)
          /\ IsFiniteSet(missing) /\ Total(order, missing)
      BY <1>2, <1>7
    <3>2. Len(a) = Cardinality(present) /\ Len(b) = Cardinality(missing)
      BY <3>1, SortedIs
    <3> QED
      BY <3>1, <3>2, SortedOrder
  <2> HIDE DEF a, b
  <2>5. a \in Seq(found) /\ b \in Seq(found)
    BY <1>7, <2>3
  <2>6. /\ s \in Seq(found) /\ Len(s) = Len(a) + Len(b)
        /\ Len(a) \in Nat /\ Len(b) \in Nat
        /\ \A n \in 1..Len(a) : n \in 1..Len(s) /\ s[n] = a[n] /\ a[n] \in present
        /\ \A n \in 1..Len(b) : Len(a) + n \in 1..Len(s) /\ s[Len(a) + n] = b[n]
                                /\ b[n] \in missing
    <3>1. \A n \in 1..Len(a) : a[n] \in present
      BY <2>3
    <3>2. \A n \in 1..Len(b) : b[n] \in missing
      BY <2>3
    <3> QED
      BY <2>5, <3>1, <3>2, Joined
  <2>7. ASSUME NEW m \in 1..Len(s)
        PROVE  \/ m \in 1..Len(a) /\ s[m] = a[m] /\ a[m] \in present
               \/ /\ m - Len(a) \in 1..Len(b) /\ s[m] = b[m - Len(a)]
                  /\ b[m - Len(a)] \in missing /\ m > Len(a)
    <3>1. CASE m \in 1..Len(a)
      BY <2>6, <3>1
    <3>2. CASE m \notin 1..Len(a)
      <4>1. m > Len(a) /\ m - Len(a) \in 1..Len(b) /\ Len(a) + (m - Len(a)) = m
        BY <2>6, <3>2
      <4>2. s[Len(a) + (m - Len(a))] = b[m - Len(a)] /\ b[m - Len(a)] \in missing
        BY <2>6, <4>1
      <4> QED
        BY <4>1, <4>2
    <3> QED
      BY <3>1, <3>2
  <2>8. \A i \in found : \E n \in 1..Len(s) : s[n] = i
    <3> TAKE i \in found
    <3>1. CASE i \in present
      BY <2>3, <2>6, <3>1
    <3>2. CASE i \in missing
      BY <2>3, <2>6, <3>2
    <3> QED
      BY <1>7, <3>1, <3>2
  <2> HIDE DEF s
  <2>9. ASSUME NEW m \in 1..Len(s), NEW n \in 1..Len(s), m < n
        PROVE  <<s[m], s[n]>> \in order
    <3>0. Len(a) \in Nat /\ Len(b) \in Nat /\ Len(s) \in Nat
      BY <2>6
    <3>1. CASE m \in 1..Len(a) /\ n \in 1..Len(a)
      <4>1. s[m] = a[m] /\ s[n] = a[n]
        BY <2>6, <3>1
      <4> QED
        BY <2>4, <2>9, <3>1, <4>1
    <3>2. CASE m \in 1..Len(a) /\ n \notin 1..Len(a)
      <4>1. s[m] \in present /\ s[n] \in missing
        BY <2>7, <3>2, <3>0
      <4>2. s[m] \in Ids /\ s[n] \in Ids /\ ~Absent(s[m]) /\ Absent(s[n])
        BY <1>5, <1>6, <4>1
      <4> QED
        BY <1>3, <1>9, <4>2 DEF Precedes
    <3>3. CASE m \notin 1..Len(a)
      <4>1. n \notin 1..Len(a)
        BY <2>9, <3>0, <3>3
      <4>2. /\ m - Len(a) \in 1..Len(b) /\ s[m] = b[m - Len(a)]
            /\ n - Len(a) \in 1..Len(b) /\ s[n] = b[n - Len(a)]
        BY <2>7, <3>3, <4>1
      <4>3. m - Len(a) < n - Len(a)
        BY <2>9, <3>0
      <4> QED
        BY <2>4, <4>2, <4>3
    <3> QED
      BY <3>1, <3>2, <3>3
  <2>10. s = Sorted(found, order)
    BY <1>2, <1>7, <2>6, <2>8, <2>9, SortedOnly
  <2> QED
    BY <1>1, <1>9, <2>1, <2>2, <2>10 DEF s, order
<1> QED
  BY <1>8, <1>9

\* What a page of PostgreSQL is cut from.
Rest(filter, sort, descending, cursor, key) ==
  {i \in FoundSql(filter) : AfterCursor(i, sort, descending, cursor, key)}

PlaceKey(cursor) == IF cursor = Null THEN Null ELSE KeyOf(cursor)

\* Behind the cursor's place in the list is what the keyset condition leaves.
LEMMA PagesAreEqual ==
  ASSUME ValuesOK, active \subseteq Ids, NEW limit, NEW filter,
         NEW sort \in BOOLEAN, NEW descending \in BOOLEAN,
         NEW cursor \in FoundMemory(filter) \cup {Null}
  PROVE  PageMemory(limit, filter, sort, descending, cursor)
           = PageSql(limit, filter, sort, descending, cursor, PlaceKey(cursor))
<1> DEFINE found == FoundMemory(filter)
           order == SqlOrder(sort, descending)
           matches == Sorted(found, order)
           place == IF cursor = Null THEN 0
                    ELSE CHOOSE n \in DOMAIN matches : matches[n] = cursor
           rest == Rest(filter, sort, descending, cursor, PlaceKey(cursor))
           s == SubSeq(matches, place + 1, Len(matches))
<1>1. FoundSql(filter) = found /\ found \subseteq Ids
  BY DEF FoundSql, FoundMemory, PassesSql, PassesMemory
<1>2. PageMemory(limit, filter, sort, descending, cursor) = FirstOf(s, limit)
  <2>1. SortedMemory(FoundMemory(filter), sort, descending) = matches
    BY <1>1, SortedMemoryIs
  <2> QED
    BY <2>1 DEF PageMemory
<1>3. PageSql(limit, filter, sort, descending, cursor, PlaceKey(cursor))
        = FirstOf(Sorted(rest, order), limit)
  BY DEF PageSql, Rest
<1>4. /\ IsFiniteSet(found) /\ Total(order, found)
      /\ \A i, j \in Ids : <<i, j>> \in order <=> Precedes(sort, descending, i, j)
  BY <1>1, SearchConstants, FiniteCount, SqlOrderTotal
<1>5. /\ Cardinality(found) \in Nat
      /\ matches \in Seq(found) /\ Len(matches) = Cardinality(found)
      /\ \A i \in found : \E n \in 1..Len(matches) : matches[n] = i
  <2>1. /\ Cardinality(found) \in Nat
        /\ matches \in Seq(found) /\ Len(matches) = Cardinality(found)
        /\ \A i \in found : /\ Rank(found, order, i) + 1 \in 1..Cardinality(found)
                            /\ matches[Rank(found, order, i) + 1] = i
    BY <1>4, SortedIs
  <2> QED
    BY <2>1
<1>6. \A m, n \in 1..Len(matches) : <<matches[m], matches[n]>> \in order <=> m < n
  BY <1>4, <1>5, SortedOrder
<1>7. rest \subseteq found /\ Total(order, rest)
  BY <1>1, <1>4, SqlOrderTotal DEF Rest
<1>8. place \in 0..Len(matches) /\ (cursor # Null => place \in 1..Len(matches) /\ matches[place] = cursor)
  <2>1. CASE cursor = Null
    BY <1>5, <2>1
  <2>2. CASE cursor # Null
    <3>1. \E n \in DOMAIN matches : matches[n] = cursor
      BY <1>5, <2>2
    <3>2. place \in DOMAIN matches /\ matches[place] = cursor
      BY <2>2, <3>1
    <3> QED
      BY <1>5, <3>2
  <2> QED
    BY <2>1, <2>2
<1> HIDE DEF matches, place
<1>9. ASSUME NEW n \in 1..Len(matches)
      PROVE  matches[n] \in rest <=> place < n
  <2>1. matches[n] \in found /\ matches[n] \in Ids
    BY <1>1, <1>5
  <2>2. CASE cursor = Null
    <3>1. place = 0
      BY <2>2 DEF place
    <3> QED
      BY <1>1, <1>5, <2>1, <2>2, <3>1 DEF Rest, AfterCursor
  <2>3. CASE cursor # Null
    <3>1. cursor \in Ids /\ cursor = matches[place] /\ place \in 1..Len(matches)
      BY <1>1, <1>8, <2>3
    <3>2. matches[n] \in rest <=> Precedes(sort, descending, cursor, matches[n])
      <4>1. PlaceKey(cursor) = KeyOf(cursor)
        BY <2>3 DEF PlaceKey
      <4> QED
        BY <1>1, <2>1, <3>1, <4>1, AfterIs DEF Rest
    <3>3. Precedes(sort, descending, cursor, matches[n]) <=> place < n
      BY <1>4, <1>6, <2>1, <3>1
    <3> QED
      BY <3>2, <3>3
  <2> QED
    BY <2>2, <2>3
<1> HIDE DEF rest
<1>10. /\ Len(s) = Len(matches) - place /\ Len(s) \in Nat
       /\ \A k \in 1..Len(s) : /\ place + k \in 1..Len(matches)
                               /\ s[k] = matches[place + k] /\ s[k] \in rest
  <2>1. s = [k \in 1..(Len(matches) - place) |-> matches[place + k]]
    <3>1. \A k \in 1..(Len(matches) - place) : (place + 1) + k - 1 = place + k
      BY <1>5, <1>8
    <3>2. Len(matches) - (place + 1) + 1 = Len(matches) - place
      BY <1>5, <1>8
    <3> QED
      BY <1>5, <1>8, <3>1, <3>2
  <2>2. Len(matches) - place \in Nat
    BY <1>5, <1>8
  <2>3. \A k \in 1..(Len(matches) - place) : place + k \in 1..Len(matches) /\ place < place + k
    BY <1>5, <1>8
  <2> HIDE DEF s
  <2>4. Len(s) = Len(matches) - place
    BY <2>1, <2>2
  <2> QED
    BY <1>9, <2>1, <2>2, <2>3, <2>4
<1>11. s \in Seq(rest)
  <2>1. s = [k \in 1..Len(s) |-> s[k]]
    BY <1>5, <1>8
  <2> HIDE DEF s
  <2>2. [k \in 1..Len(s) |-> s[k]] \in Seq(rest)
    BY <1>10
  <2> QED
    BY <2>1, <2>2
<1> HIDE DEF s
<1>12. \A i \in rest : \E k \in 1..Len(s) : s[k] = i
  <2> TAKE i \in rest
  <2>1. PICK n \in 1..Len(matches) : matches[n] = i
    BY <1>5, <1>7
  <2>2. place < n
    BY <1>9, <2>1
  <2>3. n - place \in 1..Len(s) /\ place + (n - place) = n
    BY <1>5, <1>8, <1>10, <2>2
  <2>4. s[n - place] = i
    BY <1>10, <2>1, <2>3
  <2> QED
    BY <2>3, <2>4
<1>13. ASSUME NEW m \in 1..Len(s), NEW n \in 1..Len(s), m < n
       PROVE  <<s[m], s[n]>> \in order
  <2>1. place + m < place + n
    BY <1>5, <1>8, <1>10, <1>13
  <2> QED
    BY <1>6, <1>10, <2>1
<1>14. s = Sorted(rest, order)
  <2> HIDE DEF order
  <2> QED
    BY <1>7, <1>11, <1>12, <1>13, SortedOnly
<1> QED
  BY <1>2, <1>3, <1>14

\* The first records of a set, as many as a limit allows.
FrontOf(page, rest, limit, sort, descending) ==
  /\ rest \subseteq Ids /\ page \in Seq(rest) /\ Len(page) \in 0..limit /\ limit >= 1
  /\ \A m, n \in 1..Len(page) : m < n => Precedes(sort, descending, page[m], page[n])
  /\ \A m, n \in 1..Len(page) : page[m] = page[n] => m = n
  /\ Len(page) # limit => \A i \in rest : \E n \in 1..Len(page) : page[n] = i
  /\ Len(page) = limit =>
       /\ Last(page) \in rest
       /\ \A i \in rest : (\E n \in 1..Len(page) : page[n] = i)
                            <=> ~Precedes(sort, descending, Last(page), i)

\* A page takes its records from the front of what is left, in the order.
LEMMA PageIs ==
  ASSUME ValuesOK, active \subseteq Ids, NEW limit \in Limits, NEW filter \in Filters \cup {Null},
         NEW sort \in BOOLEAN, NEW descending \in BOOLEAN,
         NEW cursor \in Ids \cup {Null}, NEW key \in Keys
  PROVE  FrontOf(PageSql(limit, filter, sort, descending, cursor, key),
                 Rest(filter, sort, descending, cursor, key), limit, sort, descending)
<1> DEFINE rest == Rest(filter, sort, descending, cursor, key)
           page == PageSql(limit, filter, sort, descending, cursor, key)
           order == SqlOrder(sort, descending)
           all == Sorted(rest, order)
           size == IF Len(all) < limit THEN Len(all) ELSE limit
<1>1. page = SubSeq(all, 1, size)
  BY DEF PageSql, Rest, FirstOf
<1>2. rest \subseteq Ids /\ limit \in Nat /\ limit >= 1
  <2>1. rest \subseteq Ids
    BY DEF Rest, FoundSql
  <2>2. limit \in 1..50
    BY SearchConstants
  <2> QED
    BY <2>1, <2>2
<1>3. /\ IsFiniteSet(rest) /\ Total(order, rest)
      /\ \A i, j \in rest : <<i, j>> \in order <=> Precedes(sort, descending, i, j)
  <2>1. rest \in SUBSET Ids
    BY <1>2
  <2>2. IsFiniteSet(rest)
    BY <2>1, SearchConstants, FiniteCount
  <2>3. /\ Total(order, rest)
        /\ \A i, j \in Ids : <<i, j>> \in order <=> Precedes(sort, descending, i, j)
    BY <2>1, SqlOrderTotal
  <2> QED
    BY <2>1, <2>2, <2>3
<1> HIDE DEF order, rest, page
<1>4. /\ Cardinality(rest) \in Nat
      /\ all \in Seq(rest) /\ Len(all) = Cardinality(rest)
      /\ \A i \in rest : /\ Rank(rest, order, i) + 1 \in 1..Cardinality(rest)
                         /\ all[Rank(rest, order, i) + 1] = i
  BY <1>3, SortedIs
<1>5. /\ \A n \in 1..Len(all) : all[n] \in rest
      /\ \A i \in rest : \E n \in 1..Len(all) : all[n] = i
  BY <1>4
<1>6. \A m, n \in 1..Len(all) :
        /\ Precedes(sort, descending, all[m], all[n]) <=> m < n
        /\ all[m] = all[n] => m = n
  <2> TAKE m, n \in 1..Len(all)
  <2>1. m \in 1..Cardinality(rest) /\ n \in 1..Cardinality(rest)
    BY <1>4
  <2>2. all[m] \in rest /\ all[n] \in rest
    BY <1>5
  <2>3. /\ <<all[m], all[n]>> \in order <=> m < n
        /\ all[m] = all[n] => m = n
    BY <1>3, <2>1, SortedOrder
  <2> QED
    BY <1>3, <2>2, <2>3
<1> HIDE DEF all
<1>7. Len(all) \in Nat /\ size \in 0..Len(all) /\ size <= limit /\ (size # limit => size = Len(all))
  BY <1>2, <1>4
<1> HIDE DEF size
<1>8. page \in Seq(rest) /\ Len(page) = size /\ \A n \in 1..size : page[n] = all[n]
  <2>1. page = [k \in 1..size |-> all[k]]
    <3>1. /\ \A k \in 1..size : 1 + k - 1 = k
          /\ size - 1 + 1 = size
      BY <1>7
    <3> QED
      BY <1>1, <1>4, <1>7, <3>1
  <2>2. \A k \in 1..size : all[k] \in rest
    BY <1>5, <1>7
  <2>3. [k \in 1..size |-> all[k]] \in Seq(rest) /\ Len([k \in 1..size |-> all[k]]) = size
    BY <1>7, <2>2
  <2> QED
    BY <2>1, <2>3
<1>9. \A n \in 1..size : n \in 1..Len(all)
  BY <1>7
<1>10. /\ \A m, n \in 1..Len(page) : m < n => Precedes(sort, descending, page[m], page[n])
       /\ \A m, n \in 1..Len(page) : page[m] = page[n] => m = n
  BY <1>6, <1>8, <1>9
<1>11. Len(page) # limit => \A i \in rest : \E n \in 1..Len(page) : page[n] = i
  BY <1>5, <1>7, <1>8
<1>12. ASSUME Len(page) = limit
       PROVE  /\ Last(page) \in rest
              /\ \A i \in rest : (\E n \in 1..Len(page) : page[n] = i)
                                   <=> ~Precedes(sort, descending, Last(page), i)
  <2>1. size = limit /\ size \in 1..Len(all) /\ size \in 1..size
    BY <1>2, <1>7, <1>8, <1>12
  <2>2. Last(page) = all[size] /\ Last(page) \in rest
    BY <1>5, <1>8, <2>1 DEF Last
  <2>3. ASSUME NEW i \in rest
        PROVE  (\E n \in 1..Len(page) : page[n] = i)
                 <=> ~Precedes(sort, descending, Last(page), i)
    <3>1. PICK k \in 1..Len(all) : all[k] = i
      BY <1>5
    <3>2. Precedes(sort, descending, Last(page), i) <=> size < k
      BY <1>6, <2>1, <2>2, <3>1
    <3>3. (\E n \in 1..Len(page) : page[n] = i) <=> k \in 1..size
      <4>1. ASSUME NEW n \in 1..size, page[n] = i PROVE k = n
        BY <1>6, <1>8, <1>9, <3>1, <4>1
      <4> QED
        BY <1>8, <3>1, <4>1
    <3>4. k \in 1..size <=> ~(size < k)
      BY <1>7, <3>1
    <3> QED
      BY <3>2, <3>3, <3>4
  <2> QED
    BY <2>2, <2>3
<1> QED
  BY <1>2, <1>7, <1>8, <1>10, <1>11, <1>12 DEF FrontOf, page, rest

----------------------------------------------------------------------------
(* The walk *)

NotIn(s, i) == \A n \in 1..Len(s) : s[n] # i

OnceIn(s, i) == \E n \in 1..Len(s) : s[n] = i /\ \A m \in 1..Len(s) : s[m] = i => m = n

\* The key of the place where a walk goes on: the one it has read, or the one
\* it would read now.
PlaceOf(p) == IF p.pc = "read" THEN p.key ELSE PlaceKey(p.cursor)

\* Whether the walk has yet to come to a record.
Pending(p, i) == AfterCursor(i, p.sort, p.descending, p.cursor, PlaceOf(p))

\* What has been shown lies before the place and what is to come behind it.
ShownSoFar(p, i) ==
  /\ p.pc \in {"next", "read"} =>
       IF Pending(p, i) THEN NotIn(p.shown, i) ELSE OnceIn(p.shown, i)
  /\ p.pc = "done" => OnceIn(p.shown, i)

\* In the order of ids, what was shown is in that order.
ShownInOrder(p) ==
  \A m, n \in 1..Len(p.shown) : m < n => Beyond(p.descending, p.shown[n], p.shown[m])

Walking(p) ==
  /\ steady \subseteq Found(p.filter)
  /\ p.pc = "next" /\ p.cursor = Null => p.shown = <<>>
  /\ ~p.sort => ShownInOrder(p)
  /\ (moved => ~p.sort) => \A i \in steady : ShownSoFar(p, i)

\* The inductive invariant of a walk.
WalkInv == TypeOK /\ (pager # Idle => Walking(pager))

\* A walk after one more page, see Show.
Shown(p, page) ==
  [p EXCEPT !.shown = @ \o page, !.key = Null,
            !.cursor = IF Len(page) = p.limit THEN Last(page) ELSE Null,
            !.pc = IF Len(page) = p.limit THEN "next" ELSE "done"]

LEMMA FoundAlike ==
  ASSUME NEW filter
  PROVE  Found(filter) = FoundSql(filter) /\ FoundMemory(filter) = FoundSql(filter)
         /\ Found(filter) \subseteq active
BY DEF Found, FoundSql, FoundMemory, PassesSql, PassesMemory

\* What is shown next is what was shown, and the page.
LEMMA PageShown ==
  ASSUME WalkInv, NEW p, p = pager, p # Idle, p.pc \in {"next", "read"}, NEW page,
         page = PageSql(p.limit, p.filter, p.sort, p.descending, p.cursor, PlaceOf(p)),
         NEW q, q = Shown(p, page)
  PROVE  /\ q \in Pager /\ q # Idle /\ (q.cursor # Null => q.cursor = Last(q.shown))
         /\ q.pc # "read" /\ Walking(q)
<1> DEFINE rest == Rest(p.filter, p.sort, p.descending, p.cursor, PlaceOf(p))
<1>1. /\ p \in Pager /\ ValuesOK /\ active \subseteq Ids
      /\ p.cursor # Null => p.cursor = Last(p.shown)
      /\ p.pc = "read" => p.sort /\ p.cursor # Null
      /\ steady \subseteq FoundSql(p.filter) /\ Walking(p)
  <2>1. steady \subseteq FoundSql(p.filter) /\ Walking(p)
    BY FoundAlike DEF WalkInv, Walking
  <2> QED
    BY <2>1 DEF WalkInv, TypeOK, ValuesOK
<1>2. /\ p.limit \in Limits /\ p.sort \in BOOLEAN /\ p.descending \in BOOLEAN
      /\ p.cursor \in Ids \cup {Null} /\ p.shown \in Seq(Ids) /\ p.key \in Keys
      /\ p.filter \in Filters \cup {Null}
  BY <1>1 DEF Pager, Keys
<1>3. PlaceOf(p) \in Keys
  <2>1. Null \in Keys
    BY DEF Keys
  <2> QED
    BY <1>1, <1>2, <2>1, KeysAre DEF PlaceOf, PlaceKey
<1>4. /\ rest \subseteq Ids /\ page \in Seq(rest) /\ Len(page) \in 0..p.limit /\ p.limit >= 1
      /\ \A m, n \in 1..Len(page) : m < n => Precedes(p.sort, p.descending, page[m], page[n])
      /\ \A m, n \in 1..Len(page) : page[m] = page[n] => m = n
      /\ Len(page) # p.limit => \A i \in rest : \E n \in 1..Len(page) : page[n] = i
      /\ Len(page) = p.limit =>
           /\ Last(page) \in rest
           /\ \A i \in rest : (\E n \in 1..Len(page) : page[n] = i)
                                <=> ~Precedes(p.sort, p.descending, Last(page), i)
  <2>1. PlaceOf(p) \in Keys
    BY <1>3
  <2>2. FrontOf(page, rest, p.limit, p.sort, p.descending)
    <3>1. ValuesOK /\ active \subseteq Ids
      BY <1>1
    <3>2. PICK limit \in Limits, filter \in Filters \cup {Null}, cursor \in Ids \cup {Null},
               sort \in BOOLEAN, descending \in BOOLEAN :
            /\ limit = p.limit /\ filter = p.filter /\ cursor = p.cursor
            /\ sort = p.sort /\ descending = p.descending
      BY <1>2
    <3>3. PICK key \in Keys : key = PlaceOf(p)
      BY <2>1
    <3>4. FrontOf(PageSql(limit, filter, sort, descending, cursor, key),
                  Rest(filter, sort, descending, cursor, key), limit, sort, descending)
      BY <3>1, PageIs
    <3> QED
      BY <3>2, <3>3, <3>4
  <2> HIDE DEF rest
  <2> QED
    BY <2>2 DEF FrontOf
<1>5. \A i \in FoundSql(p.filter) : i \in rest <=> Pending(p, i)
  BY DEF Rest, Pending
<1>6. \A i \in rest : i \in Ids /\ Pending(p, i)
  BY <1>4, <1>5 DEF Rest, Pending
<1> HIDE DEF rest
<1>7. page \in Seq(Ids) /\ \A n \in 1..Len(page) : page[n] \in rest
  BY <1>4
<1>8. PICK old : old = p.shown
  OBVIOUS
<1>9. PICK now : now = q.shown
  OBVIOUS
<1>10. now = old \o page /\ old \in Seq(Ids)
  BY <1>1, <1>2, <1>8, <1>9 DEF Pager, Shown
<1>11. /\ now \in Seq(Ids) /\ Len(old) \in Nat /\ Len(page) \in Nat
       /\ Len(now) = Len(old) + Len(page)
       /\ \A n \in 1..Len(old) : n \in 1..Len(now) /\ now[n] = old[n]
       /\ \A n \in 1..Len(page) : Len(old) + n \in 1..Len(now) /\ now[Len(old) + n] = page[n]
       /\ \A m \in 1..Len(now) :
            \/ m \in 1..Len(old) /\ now[m] = old[m]
            \/ m > Len(old) /\ m - Len(old) \in 1..Len(page) /\ now[m] = page[m - Len(old)]
  BY <1>7, <1>10, Joined
<1>12. /\ q.limit = p.limit /\ q.sort = p.sort /\ q.descending = p.descending
       /\ q.filter = p.filter /\ q.key = Null
       /\ q.cursor = IF Len(page) = p.limit THEN Last(page) ELSE Null
       /\ q.pc = IF Len(page) = p.limit THEN "next" ELSE "done"
  BY <1>1 DEF Pager, Shown
<1>13. q.cursor \in Ids \cup {Null} /\ (q.pc = "next" => q.cursor \in rest)
  BY <1>4, <1>12
<1>14. q \in Pager /\ q # Idle
  <2>1. q \in Pager
    <3>1. q = [pc |-> q.pc, limit |-> q.limit, sort |-> q.sort, descending |-> q.descending,
               filter |-> q.filter, cursor |-> q.cursor, key |-> q.key, shown |-> now]
      BY <1>1, <1>9 DEF Pager, Shown
    <3>2. q.key \in {v.key : v \in Values} \cup {Null}
      BY <1>12
    <3>3. q.pc \in {"next", "read", "done", "raised", "failed"}
      BY <1>12
    <3>4. /\ q.limit \in Limits /\ q.sort \in BOOLEAN /\ q.descending \in BOOLEAN
          /\ q.filter \in Filters \cup {Null} /\ q.cursor \in Ids \cup {Null} /\ now \in Seq(Ids)
      BY <1>2, <1>11, <1>12, <1>13
    <3> QED
      BY <3>1, <3>2, <3>3, <3>4 DEF Pager
  <2>2. q.pc # "idle"
    BY <1>12
  <2>3. Idle.pc = "idle"
    BY DEF Idle
  <2> QED
    BY <2>1, <2>2, <2>3
<1>15. q.cursor # Null => q.cursor = Last(now)
  <2> HAVE q.cursor # Null
  <2>1. Len(page) = p.limit /\ q.cursor = page[Len(page)] /\ Len(page) \in 1..Len(page)
    BY <1>4, <1>12 DEF Last
  <2>2. now[Len(now)] = page[Len(page)]
    BY <1>11, <2>1
  <2> QED
    BY <2>1, <2>2 DEF Last
<1>16. ASSUME ~p.sort PROVE ShownInOrder(q)
  <2> SUFFICES ASSUME NEW m \in 1..Len(now), NEW n \in 1..Len(now), m < n
               PROVE  Beyond(p.descending, now[n], now[m])
    BY <1>9, <1>12 DEF ShownInOrder
  <2>1. \A k, l \in 1..Len(old) : k < l => Beyond(p.descending, old[l], old[k])
    BY <1>1, <1>8, <1>16 DEF Walking, ShownInOrder
  <2>2. CASE n \in 1..Len(old)
    <3>1. m \in 1..Len(old)
      BY <1>11, <2>2
    <3>2. now[m] = old[m] /\ now[n] = old[n]
      BY <1>11, <2>2, <3>1
    <3> QED
      BY <2>1, <2>2, <3>1, <3>2
  <2>3. CASE n \notin 1..Len(old)
    <3>1. /\ n - Len(old) \in 1..Len(page) /\ now[n] = page[n - Len(old)]
          /\ now[n] \in rest
      BY <1>7, <1>11, <2>3
    <3>2. CASE m \in 1..Len(old)
      <4>1. p.cursor # Null /\ p.pc = "next"
        <5>1. p.pc = "next"
          BY <1>1, <1>16
        <5>2. old # <<>>
          BY <1>11, <3>2
        <5> QED
          BY <1>1, <1>8, <5>1, <5>2 DEF Walking
      <4>2. Beyond(p.descending, now[n], p.cursor)
        BY <1>6, <1>16, <3>1, <4>1 DEF Pending, AfterCursor
      <4>3. p.cursor = old[Len(old)] /\ Len(old) \in 1..Len(old)
        BY <1>1, <1>8, <1>11, <3>2, <4>1 DEF Last
      <4>4. now[m] = old[m]
        BY <1>11, <3>2
      <4>5. now[m] = p.cursor \/ Beyond(p.descending, p.cursor, now[m])
        <5>1. m = Len(old) \/ m < Len(old)
          BY <1>11, <3>2
        <5> QED
          BY <2>1, <3>2, <4>3, <4>4, <5>1
      <4>6. now[n] \in Nat /\ now[m] \in Nat /\ p.cursor \in Nat
        <5>1. Ids \subseteq Nat
          BY SearchConstants
        <5>2. now[n] \in Ids /\ now[m] \in Ids
          BY <1>11
        <5> QED
          BY <1>2, <4>1, <5>1, <5>2
      <4> QED
        BY <1>2, <4>2, <4>5, <4>6, BeyondOrders
    <3>3. CASE m \notin 1..Len(old)
      <4>1. m - Len(old) \in 1..Len(page) /\ now[m] = page[m - Len(old)]
        BY <1>11, <3>3
      <4>2. m - Len(old) < n - Len(old)
        BY <1>11
      <4>3. Precedes(p.sort, p.descending, now[m], now[n])
        <5>1. \A k, l \in 1..Len(page) :
                k < l => Precedes(p.sort, p.descending, page[k], page[l])
          BY <1>4
        <5> QED
          BY <3>1, <4>1, <4>2, <5>1
      <4> QED
        BY <1>16, <4>3 DEF Precedes
    <3> QED
      BY <3>2, <3>3
  <2> QED
    BY <2>2, <2>3
<1>17. ASSUME NEW i \in steady, moved => ~p.sort PROVE ShownSoFar(q, i)
  <2>1. /\ i \in FoundSql(p.filter) /\ i \in Ids
        /\ IF Pending(p, i) THEN NotIn(old, i) ELSE OnceIn(old, i)
    <3>1. i \in FoundSql(p.filter) /\ ShownSoFar(p, i) /\ i \in Ids
      BY <1>1, <1>17 DEF Walking, FoundSql
    <3> QED
      BY <1>8, <3>1 DEF ShownSoFar
  <2>2. CASE i \in rest /\ \E n \in 1..Len(page) : page[n] = i
    <3>1. NotIn(old, i)
      BY <1>6, <2>1, <2>2
    <3>2. PICK n \in 1..Len(page) : page[n] = i
      BY <2>2
    <3>3. Len(old) + n \in 1..Len(now) /\ now[Len(old) + n] = i
      BY <1>11, <3>2
    <3>4. ASSUME NEW m \in 1..Len(now), now[m] = i PROVE m = Len(old) + n
      <4>1. m \notin 1..Len(old)
        BY <1>11, <3>1, <3>4 DEF NotIn
      <4>2. m - Len(old) \in 1..Len(page) /\ page[m - Len(old)] = i
        BY <1>11, <3>4, <4>1
      <4>3. m - Len(old) = n
        <5>1. \A k, l \in 1..Len(page) : page[k] = page[l] => k = l
          BY <1>4
        <5> QED
          BY <3>2, <4>2, <5>1
      <4> QED
        BY <1>11, <4>3
    <3>5. OnceIn(now, i)
      BY <3>3, <3>4 DEF OnceIn
    <3>6. q.pc = "next" => ~Pending(q, i)
      <4> HAVE q.pc = "next"
      <4>1. Len(page) = p.limit /\ q.cursor = Last(page) /\ q.cursor \in Ids
        BY <1>6, <1>12, <1>13
      <4>2. ~Precedes(p.sort, p.descending, q.cursor, i)
        BY <1>4, <2>2, <4>1
      <4>3. PlaceOf(q) = KeyOf(q.cursor)
        <5>1. q.cursor # Null
          BY <4>1, SearchConstants
        <5> QED
          BY <5>1 DEF PlaceOf, PlaceKey
      <4> QED
        BY <1>1, <1>2, <1>12, <2>1, <4>1, <4>2, <4>3, AfterIs DEF Pending
    <3> QED
      BY <1>9, <1>12, <3>5, <3>6 DEF ShownSoFar
  <2>3. CASE i \in rest /\ ~\E n \in 1..Len(page) : page[n] = i
    <3>1. NotIn(old, i)
      BY <1>6, <2>1, <2>3
    <3>2. NotIn(now, i)
      <4> SUFFICES ASSUME NEW m \in 1..Len(now) PROVE now[m] # i
        BY DEF NotIn
      <4> QED
        BY <1>11, <2>3, <3>1 DEF NotIn
    <3>3. Len(page) = p.limit
      BY <1>4, <2>3
    <3>4. q.pc = "next" /\ q.cursor = Last(page) /\ q.cursor \in Ids
      BY <1>6, <1>12, <1>13, <3>3
    <3>5. Precedes(p.sort, p.descending, q.cursor, i)
      BY <1>4, <2>3, <3>3, <3>4
    <3>6. PlaceOf(q) = KeyOf(q.cursor)
      <4>1. q.cursor # Null
        BY <3>4, SearchConstants
      <4> QED
        BY <3>4, <4>1 DEF PlaceOf, PlaceKey
    <3>7. Pending(q, i)
      BY <1>1, <1>2, <1>12, <2>1, <3>4, <3>5, <3>6, AfterIs DEF Pending
    <3> QED
      BY <1>9, <3>2, <3>4, <3>7 DEF ShownSoFar
  <2>4. CASE i \notin rest
    <3>1. ~Pending(p, i)
      BY <1>5, <2>1, <2>4
    <3>2. PICK n \in 1..Len(old) : /\ old[n] = i
                                       /\ \A m \in 1..Len(old) : old[m] = i => m = n
      BY <2>1, <3>1 DEF OnceIn
    <3>3. n \in 1..Len(now) /\ now[n] = i
      BY <1>11, <3>2
    <3>4. ASSUME NEW m \in 1..Len(now), now[m] = i PROVE m = n
      BY <1>7, <1>11, <2>4, <3>2, <3>4
    <3>5. OnceIn(now, i)
      BY <3>3, <3>4 DEF OnceIn
    <3>6. q.pc = "next" => ~Pending(q, i)
      <4> HAVE q.pc = "next"
      <4>1. q.cursor \in rest /\ q.cursor \in Ids /\ Pending(p, q.cursor)
        BY <1>6, <1>13
      <4>2. PlaceOf(q) = KeyOf(q.cursor)
        <5>1. q.cursor # Null
          BY <4>1, SearchConstants
        <5> QED
          BY <5>1 DEF PlaceOf, PlaceKey
      <4>3. Precedes(p.sort, p.descending, q.cursor, i) => Pending(p, i)
        BY <1>1, <1>2, <1>3, <2>1, <4>1, AfterUp DEF Pending
      <4>4. Pending(q, i) <=> Precedes(p.sort, p.descending, q.cursor, i)
        BY <1>1, <1>2, <1>12, <2>1, <4>1, <4>2, AfterIs DEF Pending
      <4> QED
        BY <3>1, <4>3, <4>4
    <3> QED
      BY <1>9, <1>12, <3>5, <3>6 DEF ShownSoFar
  <2> QED
    BY <2>2, <2>3, <2>4
<1>18. Walking(q)
  <2>1. steady \subseteq Found(q.filter)
    BY <1>1, <1>12, FoundAlike
  <2>2. ~(q.pc = "next" /\ q.cursor = Null)
    <3>1. Null \notin Ids
      BY SearchConstants
    <3> QED
      BY <1>6, <1>13, <3>1
  <2> QED
    BY <1>12, <1>16, <1>17, <2>1, <2>2 DEF Walking
<1> QED
  BY <1>9, <1>12, <1>14, <1>15, <1>18

\* A page is resumed only at a record shown last.
Resumable(p) ==
  /\ p # Idle
  /\ p.cursor # Null => p.cursor = Last(p.shown)
  /\ p.pc = "read" => p.sort /\ p.cursor # Null

\* A step of the walk leaves the records as they are.
Reading == UNCHANGED data /\ moved' = moved

LEMMA ReadingKeeps ==
  ASSUME TypeOK, Reading, NEW q \in Pager, Resumable(q), pager' = q, steady' \subseteq active
  PROVE  /\ TypeOK'
         /\ Found(q.filter)' = Found(q.filter)
         /\ \A i : Pending(q, i)' <=> Pending(q, i)
<1>1. value' = value /\ active' = active /\ store' = store /\ moved' = moved
      /\ gone' = gone /\ changes' = changes
  BY DEF data, Reading
<1>2. TypeOK'
  BY <1>1 DEF TypeOK, Pager, Resumable
<1>3. /\ Found(q.filter)' = Found(q.filter)
      /\ \A i : Pending(q, i)' <=> Pending(q, i)
  BY <1>1 DEF Found, FoundSql, FoundMemory, Pending, PlaceOf, PlaceKey, KeyOf,
              AfterCursor, AfterKey
<1> QED
  BY <1>2, <1>3

LEMMA WalkGoesOn ==
  ASSUME TypeOK, Reading, NEW q \in Pager, Resumable(q), Walking(q),
         pager' = q, steady' = steady
  PROVE  WalkInv'
<1>1. steady' \subseteq active /\ moved' = moved
  BY DEF TypeOK, Reading
<1>2. /\ TypeOK'
      /\ Found(q.filter)' = Found(q.filter)
      /\ \A i : Pending(q, i)' <=> Pending(q, i)
  BY <1>1, ReadingKeeps
<1>3. Walking(q)'
  BY <1>1, <1>2 DEF Walking, ShownSoFar
<1> QED
  BY <1>2, <1>3 DEF WalkInv

LEMMA StartStep ==
  ASSUME WalkInv, NEW limit \in Limits, NEW sort \in BOOLEAN, NEW descending \in BOOLEAN,
         NEW filter \in Filters \cup {Null}, Start(limit, sort, descending, filter)
  PROVE  WalkInv'
<1> DEFINE q == [pc |-> "next", limit |-> limit, sort |-> sort, descending |-> descending,
                 filter |-> filter, cursor |-> Null, key |-> Null, shown |-> <<>>]
<1>1. TypeOK /\ Reading /\ pager' = q /\ steady' = Found(q.filter)
  BY DEF WalkInv, Start, Reading
<1>2. q \in Pager /\ q.pc = "next" /\ q.cursor = Null /\ q.shown = <<>>
  <2>1. <<>> \in Seq(Ids)
    OBVIOUS
  <2> QED
    BY <2>1 DEF Pager
<1>3. q # Idle
  BY <1>2 DEF Idle
<1>4. steady' \subseteq active
  BY <1>1, FoundAlike
<1>5. Resumable(q) /\ ShownInOrder(q) /\ q.pc # "read" /\ q.pc # "done"
  BY <1>2, <1>3 DEF Resumable, ShownInOrder
<1>6. \A i : Pending(q, i) /\ NotIn(q.shown, i)
  BY <1>2 DEF Pending, AfterCursor, NotIn
<1> HIDE DEF q
<1>7. /\ TypeOK'
      /\ Found(q.filter)' = Found(q.filter)
      /\ \A i : Pending(q, i)' <=> Pending(q, i)
  BY <1>1, <1>2, <1>4, <1>5, ReadingKeeps
<1>8. Walking(q)'
  BY <1>1, <1>2, <1>5, <1>6, <1>7 DEF Walking, ShownSoFar
<1> QED
  BY <1>1, <1>7, <1>8 DEF WalkInv

LEMMA ReadCursorStep ==
  ASSUME WalkInv, ReadCursor
  PROVE  WalkInv'
<1>1. PICK p : p = pager
  OBVIOUS
<1>2. /\ TypeOK /\ p # Idle /\ p.pc = "next" /\ p.sort /\ p.cursor # Null
      /\ p \in Pager /\ p.cursor = Last(p.shown) /\ Walking(p) /\ ValuesOK
      /\ Reading /\ steady' = steady
  BY <1>1 DEF WalkInv, TypeOK, ReadCursor, At, ValuesOK, Reading
<1>3. CASE p.cursor \in FoundSql(p.filter)
  <2> DEFINE q == [p EXCEPT !.pc = "read", !.key = KeyOf(p.cursor)]
  <2>1. pager' = q
    BY <1>1, <1>3 DEF ReadCursor
  <2>2. /\ q.pc = "read" /\ q.limit = p.limit /\ q.sort = p.sort
        /\ q.descending = p.descending /\ q.filter = p.filter
        /\ q.cursor = p.cursor /\ q.shown = p.shown /\ q.key = KeyOf(p.cursor)
    BY <1>2 DEF Pager
  <2>3. q \in Pager /\ q # Idle
    <3>1. p.cursor \in Ids
      BY <1>2 DEF Pager
    <3>2. KeyOf(p.cursor) \in {v.key : v \in Values} \cup {Null}
      BY <1>2, <3>1, KeysAre DEF Keys
    <3>3. q \in Pager
      BY <1>2, <3>2 DEF Pager
    <3> QED
      BY <2>2, <3>3 DEF Idle
  <2> HIDE DEF q
  <2>4. \A i : Pending(q, i) <=> Pending(p, i)
    <3>1. PlaceOf(q) = PlaceOf(p)
      BY <1>2, <2>2 DEF PlaceOf, PlaceKey
    <3> QED
      BY <2>2, <3>1 DEF Pending
  <2>5. Walking(q)
    BY <1>2, <2>2, <2>4 DEF Walking, ShownSoFar, ShownInOrder
  <2>6. Resumable(q)
    BY <1>2, <2>2, <2>3 DEF Resumable
  <2> QED
    BY <1>2, <2>1, <2>3, <2>5, <2>6, WalkGoesOn
<1>4. CASE p.cursor \notin FoundSql(p.filter)
  <2> DEFINE q == [p EXCEPT !.pc = "raised"]
  <2>1. pager' = q
    BY <1>1, <1>4 DEF ReadCursor
  <2>2. /\ q.pc = "raised" /\ q.limit = p.limit /\ q.sort = p.sort
        /\ q.descending = p.descending /\ q.filter = p.filter
        /\ q.cursor = p.cursor /\ q.shown = p.shown /\ q \in Pager
    BY <1>2 DEF Pager
  <2>3. q # Idle
    BY <2>2 DEF Idle
  <2> HIDE DEF q
  <2>4. Walking(q)
    BY <1>2, <2>2 DEF Walking, ShownSoFar, ShownInOrder
  <2>5. Resumable(q)
    BY <1>2, <2>1, <2>2, <2>3 DEF Resumable
  <2> QED
    BY <1>2, <2>1, <2>2, <2>3, <2>4, <2>5, WalkGoesOn
<1> QED
  BY <1>3, <1>4

\* A page that is shown, whichever store it comes from.
LEMMA ShowStep ==
  ASSUME WalkInv, At("next") \/ At("read"), NEW page,
         page = PageSql(pager.limit, pager.filter, pager.sort, pager.descending,
                        pager.cursor, PlaceOf(pager)),
         Show(page), UNCHANGED <<data, steady, moved>>
  PROVE  WalkInv'
<1>1. PICK p : p = pager
  OBVIOUS
<1>2. PICK q : q = Shown(p, page)
  OBVIOUS
<1>3. p # Idle /\ p.pc \in {"next", "read"}
  BY <1>1 DEF At
<1>4. /\ q \in Pager /\ q # Idle /\ (q.cursor # Null => q.cursor = Last(q.shown))
      /\ q.pc # "read" /\ Walking(q)
  BY <1>1, <1>2, <1>3, PageShown
<1>5. pager' = q
  BY <1>1, <1>2 DEF Show, Shown
<1>6. TypeOK /\ steady' = steady /\ Reading
  BY DEF WalkInv, Reading
<1>7. Resumable(q)
  BY <1>4 DEF Resumable
<1> QED
  BY <1>4, <1>5, <1>6, <1>7, WalkGoesOn

LEMMA ReadPageStep ==
  ASSUME WalkInv, ReadPage
  PROVE  WalkInv'
<1>1. pager.key = PlaceOf(pager) \/ (At("next") /\ ~(pager.sort /\ pager.cursor # Null))
  BY DEF ReadPage, At, PlaceOf
<1>2. PageSql(pager.limit, pager.filter, pager.sort, pager.descending, pager.cursor, pager.key)
        = PageSql(pager.limit, pager.filter, pager.sort, pager.descending, pager.cursor,
                  PlaceOf(pager))
  <2>1. CASE pager.key = PlaceOf(pager)
    BY <2>1
  <2>2. CASE At("next") /\ ~(pager.sort /\ pager.cursor # Null)
    <3>1. \A i : AfterCursor(i, pager.sort, pager.descending, pager.cursor, pager.key)
                   <=> AfterCursor(i, pager.sort, pager.descending, pager.cursor, PlaceOf(pager))
      BY <2>2 DEF AfterCursor
    <3> QED
      BY <3>1 DEF PageSql
  <2> QED
    BY <1>1, <2>1, <2>2
<1>3. At("next") \/ At("read")
  BY DEF ReadPage
<1> QED
  BY <1>2, <1>3, ShowStep DEF ReadPage

LEMMA ReadMemoryStep ==
  ASSUME WalkInv, ReadMemory
  PROVE  WalkInv'
<1>1. PICK p : p = pager
  OBVIOUS
<1>2. /\ TypeOK /\ p # Idle /\ p.pc = "next" /\ p \in Pager /\ Walking(p)
      /\ p.cursor # Null => p.cursor = Last(p.shown)
      /\ ValuesOK /\ active \subseteq Ids
      /\ Reading /\ steady' = steady
  BY <1>1 DEF WalkInv, TypeOK, ReadMemory, At, ValuesOK, Reading
<1>3. ASSUME NEW pc \in {"failed", "raised"}, pager' = [p EXCEPT !.pc = pc]
      PROVE  WalkInv'
  <2> DEFINE q == [p EXCEPT !.pc = pc]
  <2>1. /\ q.pc = pc /\ q.limit = p.limit /\ q.sort = p.sort
        /\ q.descending = p.descending /\ q.filter = p.filter
        /\ q.cursor = p.cursor /\ q.shown = p.shown /\ q \in Pager
    BY <1>2 DEF Pager
  <2>2. q # Idle /\ q.pc # "read" /\ q.pc # "next" /\ q.pc # "done"
    BY <2>1 DEF Idle
  <2>3. pager' = q
    BY <1>3
  <2> HIDE DEF q
  <2>4. Walking(q)
    BY <1>2, <2>1, <2>2 DEF Walking, ShownSoFar, ShownInOrder
  <2>5. Resumable(q)
    BY <1>2, <2>1, <2>2, <2>3 DEF Resumable
  <2> QED
    BY <1>2, <2>1, <2>2, <2>3, <2>4, <2>5, WalkGoesOn
<1>4. CASE Fails(p.filter)
  BY <1>1, <1>3, <1>4 DEF ReadMemory
<1>5. CASE ~Fails(p.filter) /\ p.cursor \notin FoundMemory(p.filter) \cup {Null}
  BY <1>1, <1>3, <1>5 DEF ReadMemory
<1>6. CASE ~Fails(p.filter) /\ p.cursor \in FoundMemory(p.filter) \cup {Null}
  <2>1. Show(PageMemory(p.limit, p.filter, p.sort, p.descending, p.cursor))
    BY <1>1, <1>6 DEF ReadMemory
  <2>2. PICK sort \in BOOLEAN, descending \in BOOLEAN, cursor \in FoundMemory(p.filter) \cup {Null} :
          sort = p.sort /\ descending = p.descending /\ cursor = p.cursor
    BY <1>2, <1>6 DEF Pager
  <2>3. PageMemory(p.limit, p.filter, sort, descending, cursor)
          = PageSql(p.limit, p.filter, sort, descending, cursor, PlaceKey(cursor))
    BY <1>2, PagesAreEqual
  <2>4. PlaceOf(p) = PlaceKey(cursor)
    BY <1>2, <2>2 DEF PlaceOf
  <2>5. PageMemory(p.limit, p.filter, p.sort, p.descending, p.cursor)
          = PageSql(p.limit, p.filter, p.sort, p.descending, p.cursor, PlaceOf(p))
    BY <2>2, <2>3, <2>4
  <2>6. At("next") /\ UNCHANGED <<data, steady, moved>>
    BY DEF ReadMemory
  <2> QED
    BY <1>1, <2>1, <2>5, <2>6, ShowStep
<1> QED
  BY <1>4, <1>5, <1>6

\* Records that change are no longer steady; the place of a walk stays where it
\* was unless the cursor's record is the one that changed.
LEMMA DisturbedStep ==
  ASSUME WalkInv, NEW me \in Ids, Disturbed(me), ValuesOK',
         active' \subseteq Ids, gone' \subseteq Ids \ active', active \ {me} \subseteq active',
         \A j \in Ids \ {me} : value'[j] = value[j]
  PROVE  WalkInv'
<1>1. PICK p : p = pager
  OBVIOUS
<1>2. /\ pager' = p /\ store' = store /\ steady' = steady \ {me}
      /\ moved' = (moved \/ (At("next") /\ p.cursor = me)) /\ changes' \in 0..MaxChanges
      /\ TypeOK /\ steady \subseteq active /\ active \subseteq Ids
  <2>1. changes' \in 0..MaxChanges
    BY SearchConstants DEF Disturbed, WalkInv, TypeOK
  <2> QED
    BY <1>1, <2>1 DEF Disturbed, WalkInv, TypeOK
<1>3. TypeOK'
  <2>1. steady' \subseteq active' /\ moved' \in BOOLEAN
    BY <1>2 DEF TypeOK
  <2> QED
    BY <1>1, <1>2, <2>1 DEF TypeOK, ValuesOK, Pager
<1>4. ASSUME p # Idle PROVE Walking(p)'
  <2>1. Walking(p) /\ p \in Pager
    BY <1>1, <1>4 DEF WalkInv, TypeOK
  <2>2. \A j \in steady' : j \in steady /\ j \in Ids /\ j # me /\ j \in active /\ j \in active'
                           /\ value'[j] = value[j]
    BY <1>2
  <2>3. steady' \subseteq Found(p.filter)'
    <3> SUFFICES ASSUME NEW j \in steady' PROVE j \in Found(p.filter)'
      OBVIOUS
    <3>1. j \in Found(p.filter)
      BY <2>1, <2>2 DEF Walking
    <3>2. PassesSql(p.filter, value[j])
      BY <3>1, FoundAlike DEF FoundSql
    <3>3. j \in FoundSql(p.filter)' /\ j \in FoundMemory(p.filter)'
      BY <2>2, <3>2 DEF FoundSql, FoundMemory, PassesSql, PassesMemory
    <3> QED
      BY <3>3 DEF Found
  <2>4. ASSUME moved' => ~p.sort, NEW j \in steady', p.pc \in {"next", "read"}
        PROVE  Pending(p, j)' <=> Pending(p, j)
    <3>1. CASE ~p.sort
      BY <3>1 DEF Pending, AfterCursor
    <3>2. CASE p.sort
      <4>1. p.pc = "next" => p.cursor # me
        BY <1>1, <1>2, <1>4, <2>4, <3>2 DEF At
      <4>2. p.cursor \in Ids \cup {Null}
        BY <2>1 DEF Pager
      <4>3. PlaceOf(p)' = PlaceOf(p)
        BY <2>4, <4>1, <4>2 DEF PlaceOf, PlaceKey, KeyOf
      <4> QED
        BY <2>2, <4>3 DEF Pending, AfterCursor, AfterKey
    <3> QED
      BY <2>1, <3>1, <3>2 DEF Pager
  <2>5. ASSUME moved' => ~p.sort, NEW j \in steady'
        PROVE  ShownSoFar(p, j)'
    <3>1. ShownSoFar(p, j)
      BY <1>2, <2>1, <2>2, <2>5 DEF Walking
    <3>2. p.pc \in {"next", "read"} => (Pending(p, j)' <=> Pending(p, j))
      BY <2>4, <2>5
    <3> QED
      BY <3>1, <3>2 DEF ShownSoFar
  <2> QED
    BY <2>1, <2>3, <2>5 DEF Walking
<1> QED
  BY <1>2, <1>3, <1>4 DEF WalkInv

LEMMA MeanwhileStep ==
  ASSUME WalkInv, NEW i \in Ids, NEW v \in Values \cup {Null},
         Create(i, v) \/ Update(i, v) \/ Close(i)
  PROVE  WalkInv'
<1>1. /\ value \in [Ids -> Values \cup {Null}]
      /\ active \subseteq Ids /\ gone \subseteq Ids \ active
  BY DEF WalkInv, TypeOK
<1>2. CASE Create(i, v) \/ Update(i, v)
  <2>1. /\ Disturbed(i) /\ value' = [value EXCEPT ![i] = v] /\ gone' = gone
        /\ active' = active \cup {i} \/ active' = active
        /\ i \in active' /\ i \notin gone
    BY <1>1, <1>2 DEF Create, Update
  <2>2. ValuesOK' /\ \A j \in Ids \ {i} : value'[j] = value[j]
    BY <1>1, <2>1 DEF ValuesOK
  <2>3. active' \subseteq Ids /\ gone' \subseteq Ids \ active' /\ active \ {i} \subseteq active'
    BY <1>1, <2>1
  <2> QED
    BY <2>1, <2>2, <2>3, DisturbedStep
<1>3. CASE Close(i)
  <2>1. /\ Disturbed(i) /\ value' = value
        /\ active' = active \ {i} /\ gone' = gone \cup {i} /\ i \in active
    BY <1>3 DEF Close
  <2>2. ValuesOK' /\ \A j \in Ids \ {i} : value'[j] = value[j]
    BY <1>1, <2>1 DEF ValuesOK
  <2>3. active' \subseteq Ids /\ gone' \subseteq Ids \ active' /\ active \ {i} \subseteq active'
    BY <1>1, <2>1
  <2> QED
    BY <2>1, <2>2, <2>3, DisturbedStep
<1> QED
  BY <1>2, <1>3

LEMMA WalkInit ==
  ASSUME Init
  PROVE  WalkInv
<1>1. 0 \in 0..MaxChanges
  BY SearchConstants
<1> QED
  BY <1>1 DEF Init, WalkInv, TypeOK

LEMMA WalkKept ==
  ASSUME WalkInv, [Next]_vars
  PROVE  WalkInv'
<1>1. CASE UNCHANGED vars
  <2>1. PICK p : p = pager
    OBVIOUS
  <2>2. /\ pager' = p /\ value' = value /\ active' = active /\ store' = store /\ gone' = gone
        /\ changes' = changes /\ steady' = steady /\ moved' = moved
    BY <1>1, <2>1 DEF vars
  <2>3. TypeOK'
    BY <2>1, <2>2 DEF WalkInv, TypeOK, Pager
  <2>4. Walking(p) => Walking(p)'
    BY <2>2 DEF Walking, ShownSoFar, Found, FoundSql, FoundMemory, Pending, PlaceOf,
                PlaceKey, KeyOf, AfterCursor, AfterKey
  <2> QED
    BY <2>1, <2>2, <2>3, <2>4 DEF WalkInv
<1>2. ASSUME NEW limit \in Limits, NEW sort \in BOOLEAN, NEW descending \in BOOLEAN,
             NEW filter \in Filters \cup {Null}, Start(limit, sort, descending, filter)
      PROVE  WalkInv'
  BY <1>2, StartStep
<1>3. CASE Page
  BY <1>3, ReadCursorStep, ReadPageStep, ReadMemoryStep DEF Page
<1>4. ASSUME NEW i \in Ids, \/ \E v \in Values \cup {Null} : Create(i, v) \/ Update(i, v)
                            \/ Close(i)
      PROVE  WalkInv'
  BY <1>4, MeanwhileStep
<1> QED
  BY <1>1, <1>2, <1>3, <1>4 DEF Next

LEMMA WalksShowAll ==
  ASSUME WalkInv
  PROVE  NoneMissed
<1>1. TypeOK
  BY DEF WalkInv
<1>2. ASSUME At("done"), moved => ~pager.sort PROVE ShownOnce
  <2>1. pager \in Pager /\ pager # Idle /\ pager.pc = "done" /\ Walking(pager)
    BY <1>1, <1>2 DEF At, WalkInv, TypeOK
  <2>2. \A i \in steady : OnceIn(pager.shown, i)
    BY <1>2, <2>1 DEF Walking, ShownSoFar
  <2>3. PICK s \in Seq(Ids) : s = pager.shown
    BY <2>1 DEF Pager
  <2>4. ASSUME NEW i \in steady
        PROVE  Times(i) = 1
    <3>1. PICK n \in 1..Len(s) : s[n] = i /\ \A m \in 1..Len(s) : s[m] = i => m = n
      BY <2>2, <2>3 DEF OnceIn
    <3>2. {m \in DOMAIN s : s[m] = i} = {n}
      BY <3>1
    <3> QED
      BY <2>3, <3>2, FS_Singleton DEF Times
  <2> QED
    BY <2>4 DEF ShownOnce
<1>3. ASSUME pager # Idle, ~pager.sort PROVE IsInjective(pager.shown)
  <2>1. PICK s \in Seq(Ids) : s = pager.shown
    BY <1>1, <1>3 DEF TypeOK, Pager
  <2>2. ShownInOrder(pager) /\ pager.descending \in BOOLEAN
    BY <1>1, <1>3 DEF WalkInv, Walking, TypeOK, Pager
  <2>3. ASSUME NEW m \in 1..Len(s), NEW n \in 1..Len(s), m < n
        PROVE  s[m] # s[n]
    <3>1. Beyond(pager.descending, s[n], s[m])
      BY <2>1, <2>2, <2>3 DEF ShownInOrder
    <3>2. s[n] \in Nat
      BY SearchConstants
    <3> QED
      BY <3>1, <3>2 DEF Beyond
  <2>4. \A m, n \in 1..Len(s) : s[m] = s[n] => m = n
    <3> TAKE m, n \in 1..Len(s)
    <3>1. m < n \/ n < m \/ m = n
      OBVIOUS
    <3> QED
      BY <2>3, <3>1
  <2> QED
    BY <2>1, <2>4 DEF IsInjective
<1> QED
  BY <1>1, <1>2, <1>3 DEF NoneMissed

LEMMA StoresAgree ==
  ASSUME WalkInv
  PROVE  PagesAgree
<1> SUFFICES ASSUME NEW limit \in Limits, NEW sort \in BOOLEAN, NEW descending \in BOOLEAN,
                    NEW filter \in Filters \cup {Null},
                    NEW cursor \in FoundMemory(filter) \cup {Null}
             PROVE  PageSql(limit, filter, sort, descending, cursor,
                            IF cursor = Null THEN Null ELSE KeyOf(cursor))
                      = PageMemory(limit, filter, sort, descending, cursor)
  BY DEF PagesAgree
<1>1. ValuesOK /\ active \subseteq Ids
  BY DEF WalkInv, TypeOK, ValuesOK
<1>2. PageMemory(limit, filter, sort, descending, cursor)
        = PageSql(limit, filter, sort, descending, cursor, PlaceKey(cursor))
  BY <1>1, PagesAreEqual
<1> QED
  BY <1>2 DEF PlaceKey

----------------------------------------------------------------------------
(* The ranking of a text search *)

\* What the two queries found.
RankTypes ==
  /\ words \in Seq(Ids) /\ Len(words) <= TextLimit
  /\ \A m, n \in 1..Len(words) : words[m] = words[n] => m = n
  /\ DOMAIN distance \subseteq Ids
  /\ \A i \in DOMAIN distance : distance[i] \in 0..8

\* The inductive invariant of a ranking.
RankInv ==
  /\ RankTypes
  /\ results # <<>> => results = FirstOf(Sorted(R!Ranked, R!Better), TextLimit)

LEMMA SameOrders ==
  /\ \A S, order : R!Sorted(S, order) = Sorted(S, order)
  /\ \A s, limit : R!FirstOf(s, limit) = FirstOf(s, limit)
<1>1. \A S, order : R!Sorted(S, order) = Sorted(S, order)
  BY DEF R!Sorted, Sorted, R!Cardinality, Cardinality
<1>2. \A s, limit : R!FirstOf(s, limit) = FirstOf(s, limit)
  BY DEF R!FirstOf, FirstOf
<1> QED
  BY <1>1, <1>2

LEMMA TextLimits ==
  /\ TextLimit \in Nat /\ TextLimit >= 1
  /\ Scale \in Nat /\ Scale > 0 /\ MaxDistance \in 0..8
  /\ \A place \in 1..TextLimit : Scale % (60 + place) = 0
BY RankConstants DEF R!RankingConstants

\* The place of a record in a list without repetitions.
LEMMA PlaceIs ==
  ASSUME NEW s \in Seq(Ids), \A m, n \in 1..Len(s) : s[m] = s[n] => m = n, NEW i
  PROVE  /\ R!Place(s, i) \in 0..Len(s)
         /\ R!Place(s, i) # 0 => s[R!Place(s, i)] = i
         /\ \A n \in 1..Len(s) : s[n] = i => R!Place(s, i) = n
<1>1. Len(s) \in Nat /\ DOMAIN s = 1..Len(s)
  OBVIOUS
<1>2. CASE \E n \in 1..Len(s) : s[n] = i
  <2>1. R!Place(s, i) = CHOOSE n \in 1..Len(s) : s[n] = i
    BY <1>1, <1>2 DEF R!Place
  <2>2. R!Place(s, i) \in 1..Len(s) /\ s[R!Place(s, i)] = i
    BY <1>2, <2>1
  <2> QED
    BY <1>1, <2>2
<1>3. CASE ~\E n \in 1..Len(s) : s[n] = i
  <2>1. R!Place(s, i) = 0
    BY <1>1, <1>3 DEF R!Place
  <2> QED
    BY <1>1, <1>3, <2>1
<1> QED
  BY <1>2, <1>3

LEMMA SmallerDivisor ==
  ASSUME NEW a \in Nat, NEW b \in Nat, a < b, NEW x \in Nat, NEW y \in Nat,
         x * a = y * b, x * a > 0
  PROVE  x > y
<1>1. SUFFICES ASSUME x <= y PROVE FALSE
  OBVIOUS
<1>2. y > 0 /\ a > 0
  OBVIOUS
<1>3. x * a <= y * a
  BY <1>1
<1>4. y * a < y * b
  BY <1>2
<1> QED
  BY <1>3, <1>4

\* A better place counts for more.
LEMMA ReciprocalIs ==
  /\ R!Reciprocal(0) = 0
  /\ \A m \in 1..TextLimit : R!Reciprocal(m) \in Nat /\ R!Reciprocal(m) > 0
  /\ \A m, n \in 1..TextLimit : m < n => R!Reciprocal(m) > R!Reciprocal(n)
<1>1. R!Reciprocal(0) = 0
  BY DEF R!Reciprocal
<1>2. ASSUME NEW m \in 1..TextLimit
      PROVE  /\ R!Reciprocal(m) \in Nat /\ R!Reciprocal(m) > 0
             /\ R!Reciprocal(m) * (60 + m) = Scale
  <2>1. m \in Nat /\ m # 0 /\ 60 + m > 0 /\ Scale % (60 + m) = 0 /\ Scale \in Nat /\ Scale > 0
    BY TextLimits
  <2>2. R!Reciprocal(m) = Scale \div (60 + m)
    BY <2>1 DEF R!Reciprocal
  <2>3. Scale = (Scale \div (60 + m)) * (60 + m)
    BY <2>1
  <2>4. Scale \div (60 + m) \in Nat
    BY <2>1
  <2> QED
    BY <2>1, <2>2, <2>3, <2>4
<1>3. ASSUME NEW m \in 1..TextLimit, NEW n \in 1..TextLimit, m < n
      PROVE  R!Reciprocal(m) > R!Reciprocal(n)
  <2>1. 60 + m \in Nat /\ 60 + n \in Nat /\ 60 + m < 60 + n /\ Scale > 0
    BY <1>3, TextLimits
  <2> QED
    BY <1>2, <2>1, SmallerDivisor
<1> QED
  BY <1>1, <1>2, <1>3

LEMMA ProductsGrow ==
  ASSUME NEW a \in Nat, NEW b \in Nat, a >= b, NEW x \in Nat, NEW y \in Nat, x >= y
  PROVE  /\ a * x \in Nat /\ b * y \in Nat /\ a * x >= b * y
         /\ a > 0 /\ x > y => a * x > b * y
<1>1. a * x \in Nat /\ b * y \in Nat /\ a * y \in Nat
  OBVIOUS
<1>2. a * y >= b * y
  OBVIOUS
<1>3. a * x >= a * y
  OBVIOUS
<1>4. a > 0 /\ x > y => a * x > a * y
  OBVIOUS
<1> QED
  BY <1>1, <1>2, <1>3, <1>4

LEMMA FirstIs ==
  ASSUME NEW S, NEW s \in Seq(S), NEW limit \in Nat
  PROVE  /\ FirstOf(s, limit) \in Seq(S)
         /\ Len(FirstOf(s, limit)) = IF Len(s) < limit THEN Len(s) ELSE limit
         /\ \A n \in 1..Len(FirstOf(s, limit)) :
              n \in 1..Len(s) /\ FirstOf(s, limit)[n] = s[n]
         /\ Len(s) <= limit => FirstOf(s, limit) = s
<1> DEFINE size == IF Len(s) < limit THEN Len(s) ELSE limit
<1>1. Len(s) \in Nat /\ size \in 0..Len(s) /\ size \in Nat
  OBVIOUS
<1>2. FirstOf(s, limit) = SubSeq(s, 1, size)
  BY DEF FirstOf
<1> HIDE DEF size
<1>3. SubSeq(s, 1, size) = [k \in 1..size |-> s[k]]
  <2>1. (\A k \in 1..size : 1 + k - 1 = k) /\ size - 1 + 1 = size
    BY <1>1
  <2> QED
    BY <1>1, <2>1
<1>4. \A k \in 1..size : k \in 1..Len(s) /\ s[k] \in S
  BY <1>1
<1>5. [k \in 1..size |-> s[k]] \in Seq(S) /\ Len([k \in 1..size |-> s[k]]) = size
  BY <1>1, <1>4
<1>6. size = Len(s) => [k \in 1..size |-> s[k]] = s
  BY <1>1
<1>7. Len(s) <= limit => size = Len(s)
  BY <1>1 DEF size
<1> QED
  BY <1>2, <1>3, <1>4, <1>5, <1>6, <1>7 DEF size

Closer(i, j) ==
  \/ distance[i] < distance[j]
  \/ distance[i] = distance[j] /\ i < j

LEMMA NearerTotal ==
  ASSUME RankTypes
  PROVE  /\ IsFiniteSet(DOMAIN distance) /\ Total(R!Nearer, DOMAIN distance)
         /\ \A i, j \in DOMAIN distance :
              <<i, j>> \in R!Nearer <=> Closer(i, j)
<1> DEFINE D == DOMAIN distance
<1>1. /\ D \subseteq Ids
      /\ \A i \in D : i \in Nat /\ distance[i] \in Nat
  <2>1. Ids \subseteq Nat
    BY SearchConstants
  <2>2. \A n \in 0..8 : n \in Nat
    OBVIOUS
  <2>3. D \subseteq Ids /\ \A i \in D : distance[i] \in 0..8
    BY DEF RankTypes
  <2> HIDE DEF D
  <2> QED
    BY <2>1, <2>2, <2>3
<1>2. IsFiniteSet(D)
  BY <1>1, SearchConstants, FiniteCount
<1>3. \A i, j \in D : <<i, j>> \in R!Nearer <=> Closer(i, j)
  BY <1>1 DEF R!Nearer, Closer
<1> HIDE DEF D
<1>4. Total(R!Nearer, D)
  <2>1. \A i \in D : <<i, i>> \notin R!Nearer
    BY <1>1, <1>3 DEF Closer
  <2>2. \A i, j \in D : i # j => <<i, j>> \in R!Nearer \/ <<j, i>> \in R!Nearer
    BY <1>1, <1>3 DEF Closer
  <2>3. ASSUME NEW i \in D, NEW j \in D, NEW k \in D,
               <<i, j>> \in R!Nearer, <<j, k>> \in R!Nearer
        PROVE  <<i, k>> \in R!Nearer
    BY <1>1, <1>3, <2>3 DEF Closer
  <2> QED
    BY <2>1, <2>2, <2>3 DEF Total
<1> QED
  BY <1>2, <1>3, <1>4 DEF D

\* The places among the near ones follow the distances.
LEMMA NearIs ==
  ASSUME RankTypes, NEW i \in Ids, NEW j \in Ids
  PROVE  /\ R!NearPlace(i) \in 0..TextLimit
         /\ R!NearPlace(i) # 0 =>
              i \in DOMAIN distance /\ distance[i] \in 0..8 /\ distance[i] <= MaxDistance /\ embedded
         /\ R!NearPlace(i) # 0 /\ R!NearPlace(i) < R!NearPlace(j) => Closer(i, j)
         /\ R!NearPlace(i) # 0 /\ R!NearPlace(i) = R!NearPlace(j) => i = j
<1> DEFINE D == DOMAIN distance
           all == Sorted(D, R!Nearer)
           v == R!VectorSearch
<1>1. /\ IsFiniteSet(D) /\ Total(R!Nearer, D) /\ D \subseteq Ids
      /\ \A k, l \in D : <<k, l>> \in R!Nearer <=> Closer(k, l)
  BY NearerTotal DEF RankTypes
<1>2. TextLimit \in Nat
  BY TextLimits
<1>3. /\ v \in Seq(D) /\ Len(v) <= TextLimit
      /\ \A m, n \in 1..Len(v) : m < n => <<v[m], v[n]>> \in R!Nearer
      /\ \A m, n \in 1..Len(v) : v[m] = v[n] => m = n
      /\ ~embedded => v = <<>>
  <2>1. CASE ~embedded
    <3>1. v = <<>>
      BY <2>1 DEF R!VectorSearch
    <3> QED
      BY <1>2, <3>1
  <2>2. CASE embedded
    <3>1. v = FirstOf(all, TextLimit)
      BY <2>2, SameOrders DEF R!VectorSearch
    <3>2. Cardinality(D) \in Nat /\ all \in Seq(D) /\ Len(all) = Cardinality(D)
      BY <1>1, SortedIs
    <3> HIDE DEF D, v
    <3>3. \A m, n \in 1..Len(all) : /\ <<all[m], all[n]>> \in R!Nearer <=> m < n
                                    /\ all[m] = all[n] => m = n
      BY <1>1, <3>2, SortedOrder
    <3> HIDE DEF all
    <3>4. /\ v \in Seq(D) /\ Len(v) <= TextLimit
          /\ \A n \in 1..Len(v) : n \in 1..Len(all) /\ v[n] = all[n]
      BY <1>2, <3>1, <3>2, FirstIs
    <3> QED
      BY <2>2, <3>3, <3>4
  <2> QED
    BY <2>1, <2>2
<1>4. v \in Seq(Ids)
  BY <1>1, <1>3
<1>5. ASSUME NEW k
      PROVE  /\ R!Place(v, k) \in 0..Len(v)
             /\ R!Place(v, k) # 0 => v[R!Place(v, k)] = k
  BY <1>3, <1>4, PlaceIs
<1>6. ASSUME NEW k \in Ids, R!NearPlace(k) # 0
      PROVE  /\ k \in D /\ distance[k] <= MaxDistance
             /\ R!NearPlace(k) \in 1..Len(v) /\ v[R!NearPlace(k)] = k
  <2>1. k \in D /\ distance[k] <= MaxDistance /\ R!NearPlace(k) = R!Place(v, k)
    BY <1>6 DEF R!NearPlace
  <2> QED
    BY <1>5, <1>6, <2>1
<1> HIDE DEF v, D
<1>7. R!NearPlace(i) \in 0..TextLimit /\ Len(v) \in Nat
  BY <1>2, <1>3, <1>6
<1>8. R!NearPlace(i) # 0 => /\ i \in DOMAIN distance /\ distance[i] \in 0..8
                            /\ distance[i] <= MaxDistance /\ embedded
  <2>1. ASSUME R!NearPlace(i) # 0 PROVE embedded
    <3>1. v # <<>>
      BY <1>6, <2>1
    <3> QED
      BY <1>3, <3>1
  <2> QED
    BY <1>6, <2>1 DEF RankTypes, D
<1>9. ASSUME R!NearPlace(i) # 0, R!NearPlace(i) < R!NearPlace(j)
      PROVE  Closer(i, j)
  <2>1. R!NearPlace(j) # 0
    BY <1>7, <1>9
  <2>2. <<i, j>> \in R!Nearer
    BY <1>3, <1>6, <1>9, <2>1
  <2> QED
    BY <1>1, <1>6, <1>9, <2>1, <2>2
<1> QED
  BY <1>6, <1>7, <1>8, <1>9

WordPlace(i) == R!Place(words, i)

ByWords(i) == 8 * R!Reciprocal(WordPlace(i))

ByVector(i) ==
  IF R!NearPlace(i) = 0 THEN 0
  ELSE (8 - distance[i]) * R!Reciprocal(R!NearPlace(i))

LEMMA WordPlaceIs ==
  ASSUME RankTypes
  PROVE  /\ \A i \in Ids : /\ WordPlace(i) \in 0..TextLimit
                           /\ WordPlace(i) # 0 => words[WordPlace(i)] = i
                           /\ i \in R!ToSet(words) <=> WordPlace(i) # 0
         /\ \A n \in 1..Len(words) : words[n] \in Ids /\ WordPlace(words[n]) = n
         /\ Len(words) \in Nat /\ Len(words) <= TextLimit
<1>1. /\ words \in Seq(Ids) /\ Len(words) \in Nat /\ Len(words) <= TextLimit
      /\ \A m, n \in 1..Len(words) : words[m] = words[n] => m = n
      /\ TextLimit \in Nat /\ DOMAIN words = 1..Len(words)
  BY TextLimits DEF RankTypes
<1>2. ASSUME NEW i
      PROVE  /\ WordPlace(i) \in 0..Len(words)
             /\ WordPlace(i) # 0 => words[WordPlace(i)] = i
             /\ \A n \in 1..Len(words) : words[n] = i => WordPlace(i) = n
  BY <1>1, PlaceIs DEF WordPlace
<1>3. ASSUME NEW i \in Ids
      PROVE  i \in R!ToSet(words) <=> WordPlace(i) # 0
  <2>1. i \in R!ToSet(words) <=> \E n \in 1..Len(words) : words[n] = i
    BY <1>1 DEF R!ToSet
  <2> QED
    BY <1>1, <1>2, <2>1
<1>4. \A i \in Ids : WordPlace(i) \in 0..TextLimit
  BY <1>1, <1>2
<1>5. \A n \in 1..Len(words) : words[n] \in Ids /\ WordPlace(words[n]) = n
  BY <1>1, <1>2
<1> QED
  BY <1>1, <1>2, <1>3, <1>4, <1>5

\* What a record scores by its words.
LEMMA ByWordsIs ==
  ASSUME RankTypes, NEW i \in Ids, NEW j \in Ids
  PROVE  /\ ByWords(i) \in Nat
         /\ R!NotBehind(WordPlace(i), WordPlace(j)) =>
              /\ ByWords(i) >= ByWords(j)
              /\ WordPlace(i) # WordPlace(j) => ByWords(i) > ByWords(j)
<1> DEFINE r(p) == R!Reciprocal(p)
<1>1. WordPlace(i) \in 0..TextLimit /\ WordPlace(j) \in 0..TextLimit /\ TextLimit \in Nat
  BY WordPlaceIs, TextLimits
<1>2. \A p \in 0..TextLimit : r(p) \in Nat
  BY <1>1, ReciprocalIs
<1>3. R!NotBehind(WordPlace(i), WordPlace(j)) /\ WordPlace(i) # WordPlace(j)
        => r(WordPlace(i)) > r(WordPlace(j))
  <2> HAVE R!NotBehind(WordPlace(i), WordPlace(j)) /\ WordPlace(i) # WordPlace(j)
  <2>1. CASE WordPlace(j) = 0
    <3>1. WordPlace(i) \in 1..TextLimit
      BY <1>1, <2>1
    <3> QED
      BY <2>1, <3>1, ReciprocalIs
  <2>2. CASE WordPlace(j) # 0
    <3>1. WordPlace(i) \in 1..TextLimit /\ WordPlace(j) \in 1..TextLimit
          /\ WordPlace(i) < WordPlace(j)
      BY <1>1, <2>2 DEF R!NotBehind
    <3> QED
      BY <3>1, ReciprocalIs
  <2> QED
    BY <2>1, <2>2
<1>4. r(WordPlace(i)) \in Nat /\ r(WordPlace(j)) \in Nat
  BY <1>1, <1>2
<1> QED
  BY <1>3, <1>4 DEF ByWords

\* What a record scores by its vector: nothing at the greatest distance.
LEMMA ByVectorIs ==
  ASSUME RankTypes, NEW i \in Ids, NEW j \in Ids
  PROVE  /\ ByVector(i) \in Nat
         /\ R!NotBehind(R!NearPlace(i), R!NearPlace(j)) =>
              /\ ByVector(i) >= ByVector(j)
              /\ R!NearPlace(i) # R!NearPlace(j) /\ distance[i] < 8 => ByVector(i) > ByVector(j)
<1> DEFINE r(p) == R!Reciprocal(p)
<1>1. /\ R!NearPlace(i) \in 0..TextLimit /\ R!NearPlace(j) \in 0..TextLimit /\ TextLimit \in Nat
      /\ R!NearPlace(i) # 0 => distance[i] \in 0..8
      /\ R!NearPlace(j) # 0 => distance[j] \in 0..8
  BY NearIs, TextLimits
<1>2. /\ R!NearPlace(i) # 0 => r(R!NearPlace(i)) \in Nat /\ r(R!NearPlace(i)) > 0
      /\ R!NearPlace(j) # 0 => r(R!NearPlace(j)) \in Nat /\ r(R!NearPlace(j)) > 0
  BY <1>1, ReciprocalIs
<1> HIDE DEF r
<1>3. /\ R!NearPlace(i) # 0 => 8 - distance[i] \in Nat
      /\ R!NearPlace(j) # 0 => 8 - distance[j] \in Nat
  BY <1>1
<1>4. /\ R!NearPlace(i) # 0 => ByVector(i) = (8 - distance[i]) * r(R!NearPlace(i))
      /\ R!NearPlace(j) # 0 => ByVector(j) = (8 - distance[j]) * r(R!NearPlace(j))
      /\ R!NearPlace(i) = 0 => ByVector(i) = 0
      /\ R!NearPlace(j) = 0 => ByVector(j) = 0
  BY DEF ByVector, r
<1>5. ByVector(i) \in Nat
  BY <1>2, <1>3, <1>4
<1>6. ASSUME R!NotBehind(R!NearPlace(i), R!NearPlace(j))
      PROVE  /\ ByVector(i) >= ByVector(j)
             /\ R!NearPlace(i) # R!NearPlace(j) /\ distance[i] < 8 => ByVector(i) > ByVector(j)
  <2>1. CASE R!NearPlace(j) = 0 /\ R!NearPlace(i) = 0
    BY <1>4, <2>1
  <2>2. CASE R!NearPlace(j) = 0 /\ R!NearPlace(i) # 0
    <3>1. PICK a \in Nat, x \in Nat : /\ a = 8 - distance[i] /\ x = r(R!NearPlace(i)) /\ x > 0
                                      /\ distance[i] < 8 => a > 0
      BY <1>1, <1>2, <1>3, <2>2
    <3>2. a * x \in Nat /\ (a > 0 => a * x > 0)
      BY <3>1
    <3> QED
      BY <1>4, <2>2, <3>1, <3>2
  <2>3. CASE R!NearPlace(j) # 0
    <3>1. R!NearPlace(i) # 0 /\ R!NearPlace(i) <= R!NearPlace(j)
      BY <1>1, <1>6, <2>3 DEF R!NotBehind
    <3>2. distance[i] <= distance[j]
      <4>1. CASE R!NearPlace(i) < R!NearPlace(j)
        <5>1. Closer(i, j)
          BY <3>1, <4>1, NearIs
        <5> QED
          BY <1>1, <2>3, <3>1, <5>1 DEF Closer
      <4>2. CASE R!NearPlace(i) = R!NearPlace(j)
        <5>1. i = j
          BY <3>1, <4>2, NearIs
        <5> QED
          BY <1>1, <2>3, <5>1
      <4> QED
        BY <1>1, <3>1, <4>1, <4>2
    <3>3. /\ r(R!NearPlace(i)) >= r(R!NearPlace(j))
          /\ R!NearPlace(i) # R!NearPlace(j) => r(R!NearPlace(i)) > r(R!NearPlace(j))
      <4>1. R!NearPlace(i) \in 1..TextLimit /\ R!NearPlace(j) \in 1..TextLimit
        BY <1>1, <2>3, <3>1
      <4>2. R!NearPlace(i) # R!NearPlace(j) => r(R!NearPlace(i)) > r(R!NearPlace(j))
        <5>1. R!NearPlace(i) # R!NearPlace(j) => R!NearPlace(i) < R!NearPlace(j)
          BY <3>1, <4>1
        <5> QED
          BY <4>1, <5>1, ReciprocalIs DEF r
      <4>3. R!NearPlace(i) = R!NearPlace(j) => r(R!NearPlace(i)) = r(R!NearPlace(j))
        BY DEF r
      <4> QED
        BY <1>2, <2>3, <3>1, <4>2, <4>3
    <3>4. PICK a \in Nat, b \in Nat, x \in Nat, y \in Nat :
            /\ a = 8 - distance[i] /\ x = r(R!NearPlace(i))
            /\ b = 8 - distance[j] /\ y = r(R!NearPlace(j))
      BY <1>2, <1>3, <2>3, <3>1
    <3>5. a >= b /\ x >= y /\ (distance[i] < 8 => a > 0)
          /\ (R!NearPlace(i) # R!NearPlace(j) => x > y)
      BY <1>1, <2>3, <3>1, <3>2, <3>3, <3>4
    <3>6. a * x >= b * y /\ (a > 0 /\ x > y => a * x > b * y)
      BY <3>5, ProductsGrow
    <3>7. ByVector(i) = a * x /\ ByVector(j) = b * y
      BY <1>4, <2>3, <3>1, <3>4
    <3> QED
      BY <3>5, <3>6, <3>7
  <2> QED
    BY <2>1, <2>2, <2>3
<1> QED
  BY <1>5, <1>6

LEMMA BetterTotal ==
  ASSUME RankTypes
  PROVE  /\ \A i \in Ids : R!Score(i) = ByWords(i) + ByVector(i) /\ R!Score(i) \in Nat
         /\ \A i, j \in Ids : <<i, j>> \in R!Better <=>
              (R!Score(i) > R!Score(j) \/ (R!Score(i) = R!Score(j) /\ i < j))
         /\ R!Ranked \subseteq Ids /\ IsFiniteSet(R!Ranked) /\ Total(R!Better, R!Ranked)
<1>1. \A i \in Ids : R!Score(i) = ByWords(i) + ByVector(i) /\ R!Score(i) \in Nat
  <2> TAKE i \in Ids
  <2>1. ByWords(i) \in Nat /\ ByVector(i) \in Nat
    BY ByWordsIs, ByVectorIs
  <2>2. R!Score(i) = ByWords(i) + ByVector(i)
    BY DEF R!Score, ByWords, ByVector, WordPlace
  <2> QED
    BY <2>1, <2>2
<1>2. \A i, j \in Ids : <<i, j>> \in R!Better <=>
        (R!Score(i) > R!Score(j) \/ (R!Score(i) = R!Score(j) /\ i < j))
  BY DEF R!Better
<1>3. R!Ranked \subseteq Ids
  <2>1. \A i \in R!ToSet(words) : i \in Ids
    BY DEF R!ToSet, RankTypes
  <2> QED
    BY <2>1 DEF R!Ranked
<1>4. IsFiniteSet(R!Ranked) /\ Ids \subseteq Nat
  BY <1>3, SearchConstants, FiniteCount
<1>5. Total(R!Better, R!Ranked)
  <2>1. \A i \in R!Ranked : <<i, i>> \notin R!Better
    BY <1>1, <1>2, <1>3, <1>4
  <2>2. ASSUME NEW i \in R!Ranked, NEW j \in R!Ranked, i # j
        PROVE  <<i, j>> \in R!Better \/ <<j, i>> \in R!Better
    <3>1. i \in Ids /\ j \in Ids /\ i \in Nat /\ j \in Nat
      BY <1>3, <1>4
    <3>2. R!Score(i) \in Nat /\ R!Score(j) \in Nat
      BY <1>1, <3>1
    <3> QED
      BY <1>2, <2>2, <3>1, <3>2
  <2>3. ASSUME NEW i \in R!Ranked, NEW j \in R!Ranked, NEW k \in R!Ranked,
               <<i, j>> \in R!Better, <<j, k>> \in R!Better
        PROVE  <<i, k>> \in R!Better
    <3>1. i \in Ids /\ j \in Ids /\ k \in Ids /\ i \in Nat /\ j \in Nat /\ k \in Nat
      BY <1>3, <1>4
    <3>2. R!Score(i) \in Nat /\ R!Score(j) \in Nat /\ R!Score(k) \in Nat
      BY <1>1, <3>1
    <3> QED
      BY <1>2, <2>3, <3>1, <3>2
  <2> QED
    BY <2>1, <2>2, <2>3 DEF Total
<1> QED
  BY <1>1, <1>2, <1>3, <1>4, <1>5

\* Evidence that no list contradicts decides, down to the ties.
LEMMA EvidenceDecides ==
  ASSUME RankTypes, NEW i \in R!Ranked, NEW j \in R!Ranked,
         R!NotBehind(WordPlace(i), WordPlace(j)),
         R!NotBehind(R!NearPlace(i), R!NearPlace(j)),
         WordPlace(i) # WordPlace(j) \/ R!NearPlace(i) # R!NearPlace(j)
  PROVE  <<i, j>> \in R!Better
<1>1. /\ i \in Ids /\ j \in Ids
      /\ <<i, j>> \in R!Better <=>
           (R!Score(i) > R!Score(j) \/ (R!Score(i) = R!Score(j) /\ i < j))
      /\ R!Score(i) = ByWords(i) + ByVector(i) /\ R!Score(j) = ByWords(j) + ByVector(j)
  BY BetterTotal
<1>2. /\ ByWords(i) \in Nat /\ ByWords(i) >= ByWords(j)
      /\ WordPlace(i) # WordPlace(j) => ByWords(i) > ByWords(j)
  BY <1>1, ByWordsIs
<1>3. /\ ByVector(i) \in Nat /\ ByVector(i) >= ByVector(j)
      /\ R!NearPlace(i) # R!NearPlace(j) /\ distance[i] < 8 => ByVector(i) > ByVector(j)
  BY <1>1, ByVectorIs
<1>4. ByWords(j) \in Nat /\ ByVector(j) \in Nat
  BY <1>1, ByWordsIs, ByVectorIs
<1>5. CASE WordPlace(i) # WordPlace(j)
  BY <1>1, <1>2, <1>3, <1>4, <1>5
<1>6. CASE WordPlace(i) = WordPlace(j)
  <2>1. WordPlace(i) = 0 /\ WordPlace(j) = 0
    <3>1. WordPlace(i) # 0 => i = j
      BY <1>1, <1>6, WordPlaceIs
    <3> QED
      BY <1>6, <3>1
  <2>2. R!NearPlace(j) # 0
    BY <1>1, <2>1, WordPlaceIs DEF R!Ranked
  <2>3. R!NearPlace(i) # 0 /\ R!NearPlace(i) < R!NearPlace(j)
    <3>1. R!NearPlace(i) \in 0..TextLimit /\ R!NearPlace(j) \in 0..TextLimit /\ TextLimit \in Nat
      BY <1>1, NearIs, TextLimits
    <3> QED
      BY <1>6, <2>2, <3>1 DEF R!NotBehind
  <2>4. Closer(i, j) /\ distance[i] \in 0..8 /\ distance[j] \in 0..8
    BY <1>1, <2>2, <2>3, NearIs
  <2>5. CASE distance[i] < 8
    BY <1>1, <1>2, <1>3, <1>4, <2>3, <2>5
  <2>6. CASE distance[i] = 8
    <3>1. distance[j] = 8 /\ i < j
      BY <2>4, <2>6 DEF Closer
    <3>2. ByVector(i) = 0 /\ ByVector(j) = 0
      <4>1. R!Reciprocal(R!NearPlace(i)) \in Nat /\ R!Reciprocal(R!NearPlace(j)) \in Nat
        <5>1. R!NearPlace(i) \in 1..TextLimit /\ R!NearPlace(j) \in 1..TextLimit
          BY <1>1, <2>2, <2>3, NearIs, TextLimits
        <5> QED
          BY <5>1, ReciprocalIs
      <4> QED
        BY <2>2, <2>3, <2>6, <3>1, <4>1 DEF ByVector
    <3>3. ByWords(i) = ByWords(j)
      BY <1>6 DEF ByWords
    <3> QED
      BY <1>1, <1>2, <3>1, <3>2, <3>3
  <2> QED
    BY <2>4, <2>5, <2>6
<1> QED
  BY <1>5, <1>6

LEMMA EvidenceHolds ==
  ASSUME RankInv
  PROVE  R!RanksByEvidence
<1> DEFINE all == Sorted(R!Ranked, R!Better)
<1> SUFFICES ASSUME results # <<>>, NEW i \in R!Ranked, NEW j \in R!Ranked,
                    R!NotBehind(R!Place(words, i), R!Place(words, j)),
                    R!NotBehind(R!NearPlace(i), R!NearPlace(j)),
                    \/ R!Place(words, i) # R!Place(words, j)
                    \/ R!NearPlace(i) # R!NearPlace(j),
                    R!Place(results, j) # 0
             PROVE  R!Place(results, i) \in 1..(R!Place(results, j) - 1)
  BY DEF R!RanksByEvidence
<1>1. RankTypes /\ results = FirstOf(all, TextLimit) /\ TextLimit \in Nat
  BY TextLimits DEF RankInv
<1>2. <<i, j>> \in R!Better
  BY <1>1, EvidenceDecides DEF WordPlace
<1>3. R!Ranked \subseteq Ids /\ IsFiniteSet(R!Ranked) /\ Total(R!Better, R!Ranked)
  BY <1>1, BetterTotal
<1>4. /\ Cardinality(R!Ranked) \in Nat
      /\ all \in Seq(R!Ranked) /\ Len(all) = Cardinality(R!Ranked)
      /\ \A k \in R!Ranked : /\ Rank(R!Ranked, R!Better, k) + 1 \in 1..Cardinality(R!Ranked)
                             /\ all[Rank(R!Ranked, R!Better, k) + 1] = k
  BY <1>3, SortedIs
<1>5. \A m, n \in 1..Len(all) : /\ <<all[m], all[n]>> \in R!Better <=> m < n
                                /\ all[m] = all[n] => m = n
  BY <1>3, <1>4, SortedOrder
<1>6. \E n \in 1..Len(all) : all[n] = i
  BY <1>4
<1> HIDE DEF all
<1>7. /\ results \in Seq(R!Ranked) /\ Len(results) \in Nat
      /\ \A n \in 1..Len(results) : n \in 1..Len(all) /\ results[n] = all[n]
      /\ Len(results) = IF Len(all) < TextLimit THEN Len(all) ELSE TextLimit
  BY <1>1, <1>4, FirstIs
<1>8. results \in Seq(Ids) /\ \A m, n \in 1..Len(results) : results[m] = results[n] => m = n
  <2>1. results \in Seq(Ids)
    BY <1>3, <1>7
  <2>2. \A m, n \in 1..Len(results) : results[m] = results[n] => m = n
    BY <1>5, <1>7
  <2> QED
    BY <2>1, <2>2
<1>9. /\ R!Place(results, j) \in 1..Len(results) /\ results[R!Place(results, j)] = j
      /\ \A n \in 1..Len(results) : results[n] = i => R!Place(results, i) = n
  <2>1. /\ R!Place(results, j) \in 0..Len(results)
        /\ R!Place(results, j) # 0 => results[R!Place(results, j)] = j
    BY <1>8, PlaceIs
  <2>2. \A n \in 1..Len(results) : results[n] = i => R!Place(results, i) = n
    BY <1>8, PlaceIs
  <2> QED
    BY <1>7, <2>1, <2>2
<1>10. PICK m \in 1..Len(all) : all[m] = i
  BY <1>6
<1>11. PICK n \in 1..Len(results) : n = R!Place(results, j)
  BY <1>9
<1>12. n \in 1..Len(all) /\ all[n] = j
  BY <1>7, <1>9, <1>11
<1>13. m < n
  BY <1>2, <1>5, <1>10, <1>12
<1>14. m \in 1..Len(results) /\ results[m] = i
  <2>1. m \in 1..Len(results)
    BY <1>7, <1>13
  <2> QED
    BY <1>7, <1>10, <2>1
<1>15. R!Place(results, i) = m
  BY <1>9, <1>14
<1> QED
  BY <1>7, <1>11, <1>13, <1>15

LEMMA WordsHold ==
  ASSUME RankInv
  PROVE  R!FallsBackToWords
<1> SUFFICES ASSUME results # <<>>,
                    ~embedded \/ \A i \in DOMAIN distance : distance[i] > MaxDistance
             PROVE  results = words
  BY DEF R!FallsBackToWords
<1>1. /\ RankTypes /\ results = FirstOf(Sorted(R!Ranked, R!Better), TextLimit)
      /\ TextLimit \in Nat /\ MaxDistance \in 0..8
  BY TextLimits DEF RankInv
<1>2. /\ R!Ranked \subseteq Ids /\ Total(R!Better, R!Ranked)
      /\ \A i \in Ids : R!Score(i) = ByWords(i) + ByVector(i)
      /\ \A i, j \in Ids : <<i, j>> \in R!Better <=>
           (R!Score(i) > R!Score(j) \/ (R!Score(i) = R!Score(j) /\ i < j))
  BY <1>1, BetterTotal
<1>3. \A i \in Ids : R!NearPlace(i) = 0
  <2> TAKE i \in Ids
  <2>1. R!NearPlace(i) # 0 =>
          i \in DOMAIN distance /\ distance[i] \in 0..8 /\ distance[i] <= MaxDistance /\ embedded
    BY <1>1, NearIs
  <2> QED
    BY <1>1, <2>1
<1>4. /\ \A n \in 1..Len(words) : words[n] \in Ids /\ WordPlace(words[n]) = n
      /\ Len(words) \in Nat /\ Len(words) <= TextLimit
  BY <1>1, WordPlaceIs
<1>5. /\ \A n \in 1..Len(words) : words[n] \in R!Ranked
      /\ \A i \in R!Ranked : \E n \in 1..Len(words) : words[n] = i
  <2>1. words \in Seq(Ids) /\ DOMAIN words = 1..Len(words)
    BY <1>1 DEF RankTypes
  <2>2. \A i : i \in R!ToSet(words) <=> \E n \in 1..Len(words) : words[n] = i
    BY <2>1 DEF R!ToSet
  <2> QED
    BY <1>3, <2>2 DEF R!Ranked
<1>6. words \in Seq(R!Ranked)
  <2>1. words \in Seq(Ids)
    BY <1>1 DEF RankTypes
  <2> QED
    BY <1>5, <2>1
<1>7. ASSUME NEW m \in 1..Len(words), NEW n \in 1..Len(words), m < n
      PROVE  <<words[m], words[n]>> \in R!Better
  <2>1. PICK i \in Ids : i = words[m]
    BY <1>4
  <2>2. PICK j \in Ids : j = words[n]
    BY <1>4
  <2>3. WordPlace(i) = m /\ WordPlace(j) = n
    BY <1>4, <2>1, <2>2
  <2>4. R!NotBehind(WordPlace(i), WordPlace(j)) /\ WordPlace(i) # WordPlace(j)
    BY <1>4, <1>7, <2>3 DEF R!NotBehind
  <2>5. ByWords(i) > ByWords(j) /\ ByWords(i) \in Nat /\ ByWords(j) \in Nat
    BY <1>1, <2>4, ByWordsIs
  <2>6. ByVector(i) = 0 /\ ByVector(j) = 0
    BY <1>3 DEF ByVector
  <2>7. R!Score(i) > R!Score(j)
    BY <1>2, <2>5, <2>6
  <2> QED
    BY <1>2, <2>1, <2>2, <2>7
<1>8. words = Sorted(R!Ranked, R!Better)
  BY <1>2, <1>5, <1>6, <1>7, SortedOnly
<1>9. FirstOf(words, TextLimit) = words
  BY <1>1, <1>4, <1>6, FirstIs
<1> QED
  BY <1>1, <1>8, <1>9

LEMMA RankInit ==
  ASSUME ReadsInit
  PROVE  RankInv
<1>1. CASE activity = "search"
  BY <1>1, TextLimits DEF ReadsInit, RankInv, RankTypes
<1>2. CASE activity = "rank"
  <2>1. /\ words \in UNION {[1..n -> Ids] : n \in 0..TextLimit}
        /\ \A m, n \in DOMAIN words : words[m] = words[n] => m = n
        /\ distance \in UNION {[near -> Distances] : near \in SUBSET Ids}
        /\ results = <<>>
    BY <1>2 DEF ReadsInit, R!Init, R!IsInjective
  <2>2. PICK n \in 0..TextLimit : words \in [1..n -> Ids]
    BY <2>1
  <2>3. PICK near \in SUBSET Ids : distance \in [near -> Distances]
    BY <2>1
  <2>4. n \in Nat /\ n <= TextLimit
    BY TextLimits
  <2>5. words \in Seq(Ids) /\ Len(words) = n
    BY <2>2, <2>4
  <2>6. Distances \subseteq 0..8
    BY RankConstants DEF R!RankingConstants
  <2> QED
    BY <2>1, <2>2, <2>3, <2>4, <2>5, <2>6 DEF RankInv, RankTypes
<1> QED
  BY <1>1, <1>2 DEF ReadsInit

LEMMA RankKept ==
  ASSUME RankInv, [ReadsNext]_reads
  PROVE  RankInv'
<1>1. CASE UNCHANGED ranking
  BY <1>1 DEF ranking, RankInv, RankTypes, R!Ranked, R!Better, R!Score, R!NearPlace,
              R!VectorSearch, R!Nearer
<1>2. CASE R!HybridRank
  <2>1. /\ words' = words /\ distance' = distance /\ embedded' = embedded
        /\ results' = FirstOf(Sorted(R!Ranked, R!Better), TextLimit)
    BY <1>2, SameOrders DEF R!HybridRank
  <2>2. R!Ranked' = R!Ranked /\ R!Better' = R!Better
    BY <2>1 DEF R!Ranked, R!Better, R!Score, R!NearPlace, R!VectorSearch, R!Nearer
  <2>3. RankTypes'
    BY <2>1 DEF RankInv, RankTypes
  <2> QED
    BY <2>1, <2>2, <2>3 DEF RankInv
<1> QED
  BY <1>1, <1>2 DEF ReadsNext, reads, R!Next, ranking

----------------------------------------------------------------------------

\* What every read keeps: a walk has shown what lies before its place, once, and
\* nothing behind it; a ranking holds the front of the order by score.
THEOREM ReadsConsistent == ReadsSpec => [](WalkInv /\ RankInv)
<1>1. ReadsInit => WalkInv /\ RankInv
  BY WalkInit, RankInit DEF ReadsInit
<1>2. WalkInv /\ RankInv /\ [ReadsNext]_reads => (WalkInv /\ RankInv)'
  <2> SUFFICES ASSUME WalkInv, RankInv, [ReadsNext]_reads
               PROVE  (WalkInv /\ RankInv)'
    OBVIOUS
  <2>1. [Next]_vars
    BY DEF ReadsNext, reads
  <2> QED
    BY <2>1, WalkKept, RankKept
<1> QED
  BY <1>1, <1>2, PTL DEF ReadsSpec

\* A walk through the pages of either store that ends has shown every record
\* that did not change exactly once, for any pages, sorts, filters and changes.
THEOREM WalksMissNothing == ReadsSpec => []NoneMissed
<1>1. WalkInv => NoneMissed
  BY WalksShowAll
<1> QED
  BY <1>1, ReadsConsistent, PTL

\* Both stores cut the same page out of the same records.
THEOREM StoresPageAlike == ReadsSpec => []PagesAgree
<1>1. WalkInv => PagesAgree
  BY StoresAgree
<1> QED
  BY <1>1, ReadsConsistent, PTL

\* Neither list of a hybrid search can be played out against the other, and
\* without a near vector the words decide alone.
THEOREM RanksAreSound == ReadsSpec => []RankingSound
<1>1. RankInv => RankingSound
  BY EvidenceHolds, WordsHold DEF RankingSound
<1> QED
  BY <1>1, ReadsConsistent, PTL

=============================================================================
