------------------------- MODULE VectorIndexProofs -------------------------
(***************************************************************************)
(* The array and the position table of BruteForceIndex always describe     *)
(* each other, so it implements a map with an exact search.  The HNSW      *)
(* index holds the same entries until an id is added again while another   *)
(* deleted slot carries its label, and what load returns comes from one    *)
(* save.                                                                   *)
(***************************************************************************)
EXTENDS HnswIndex, FiniteSetTheorems, TLAPS

Record == [id : Id, values : Vec]

\* Facts about a stored id that upsert and erase start from.
LEMMA Tables ==
    ASSUME IndexTablesInv
    PROVE  /\ records \in Seq(Record) /\ Len(records) \in Nat
           /\ positions \in [Id -> Int]
           /\ \A i \in 1..Len(records) :
                 /\ records[i] \in Record
                 /\ records[i].id \in Id /\ records[i].values \in Vec
                 /\ positions[records[i].id] = i - 1
           /\ \A id \in Id : positions[id] # NotFound =>
                 /\ positions[id] + 1 \in 1..Len(records)
                 /\ records[positions[id] + 1].id = id
  <1>1. /\ records \in Seq(Record) /\ positions \in [Id -> Int]
        /\ Len(records) \in Nat
    BY DEF IndexTablesInv, TypeOK, Record
  <1>2. \A i \in 1..Len(records) : records[i] \in Record
    BY <1>1
  <1>3. \A i \in 1..Len(records) : records[i].id \in Id /\ records[i].values \in Vec
    BY <1>2 DEF Record
  <1>4. \A i \in 1..Len(records) : positions[records[i].id] = i - 1
    BY DEF IndexTablesInv, TablesAgree
  <1>5. ASSUME NEW id \in Id, positions[id] # NotFound
        PROVE  positions[id] + 1 \in 1..Len(records) /\ records[positions[id] + 1].id = id
    BY <1>1, <1>5 DEF IndexTablesInv, TablesAgree, Stored
  <1> QED
    BY <1>1, <1>2, <1>3, <1>4, <1>5

\* The tables after an upsert of an id that is stored, or is not.
LEMMA UpsertKeepsTables ==
    ASSUME IndexTablesInv, NEW id \in Id, NEW v \in Vec, Upsert(id, v)
    PROVE  IndexTablesInv'
  <1> DEFINE n == Len(records)  p == positions[id] + 1
  <1> USE Tables
  <1>1. CASE positions[id] # NotFound
    <2>1. /\ p \in 1..n /\ positions' = positions
          /\ records' = [records EXCEPT ![p].values = v]
      BY <1>1 DEF Upsert
    <2>2. /\ records' \in Seq(Record) /\ Len(records') = n
          /\ \A i \in 1..n : records'[i].id = records[i].id
      <3>1. [records[p] EXCEPT !.values = v] \in Record /\ records[p].id = [records[p] EXCEPT !.values = v].id
        BY <2>1 DEF Record
      <3>2. records' = [records EXCEPT ![p] = [records[p] EXCEPT !.values = v]]
        BY <2>1
      <3> HIDE DEF p
      <3> QED
        BY <2>1, <3>1, <3>2
    <2> QED
      BY <2>1, <2>2 DEF IndexTablesInv, TypeOK, TablesAgree, Stored, Record
  <1>2. CASE positions[id] = NotFound
    <2> DEFINE r == [id |-> id, values |-> v]
    <2>1. /\ positions' = [positions EXCEPT ![id] = n]
          /\ records' = Append(records, r) /\ r \in Record
      BY <1>2 DEF Upsert, Record
    <2>2. /\ records' \in Seq(Record) /\ Len(records') = n + 1
          /\ records'[n + 1] = r /\ \A i \in 1..n : records'[i] = records[i]
      BY <2>1
    <2>3. \A i \in 1..n : records[i].id # id
      BY <1>2 DEF NotFound
    <2>4. TypeOK'
      BY <2>1, <2>2 DEF TypeOK, Record
    <2>5. ASSUME NEW i \in 1..Len(records') PROVE positions'[records'[i].id] = i - 1
      BY <2>1, <2>2, <2>3
    <2>6. ASSUME NEW j \in Id, positions'[j] # NotFound
          PROVE  positions'[j] \in 0..(Len(records') - 1) /\ records'[positions'[j] + 1].id = j
      <3>1. CASE j = id
        BY <3>1, <2>1, <2>2
      <3>2. CASE j # id
        BY <3>2, <2>1, <2>2, <2>6
      <3> QED
        BY <3>1, <3>2
    <2> QED
      BY <2>4, <2>5, <2>6 DEF IndexTablesInv, TablesAgree, Stored
  <1> QED
    BY <1>1, <1>2

\* What erase of a stored id does to the array and to the positions.
LEMMA EraseEffect ==
    ASSUME IndexTablesInv, NEW id \in Id, positions[id] # NotFound, Erase(id)
    PROVE  LET n == Len(records)  p == positions[id] + 1
           IN  /\ n \in Nat \ {0} /\ p \in 1..n
               /\ records' \in Seq(Record) /\ Len(records') = n - 1
               /\ \A i \in 1..(n - 1) : records'[i] = IF i = p THEN records[n] ELSE records[i]
               /\ positions' \in [Id -> Int]
               /\ \A j \in Id : positions'[j] = IF j = id THEN NotFound
                                                ELSE IF j = records[n].id THEN p - 1
                                                ELSE positions[j]
  <1> DEFINE n == Len(records)  p == positions[id] + 1
  <1> USE Tables
  <1>1. n \in Nat \ {0} /\ p \in 1..n /\ records[n].id \in Id
    OBVIOUS
  <1>2. /\ records' = [i \in 1..(n - 1) |-> IF i = p THEN records[n] ELSE records[i]]
        /\ positions' = [positions EXCEPT ![records[n].id] = positions[id], ![id] = NotFound]
    BY DEF Erase, Filled, Repositioned, Last
  <1>3. records' \in Seq(Record) /\ Len(records') = n - 1
    <2>1. \A i \in 1..(n - 1) : (IF i = p THEN records[n] ELSE records[i]) \in Record
      BY <1>1
    <2>2. records' \in [1..(n - 1) -> Record]
      BY <1>2, <2>1
    <2> QED
      BY <1>1, <1>2, <2>2
  <1>4. positions' \in [Id -> Int]
    BY <1>1, <1>2 DEF NotFound
  <1> QED
    BY <1>1, <1>2, <1>3, <1>4

LEMMA EraseKeepsTables ==
    ASSUME IndexTablesInv, NEW id \in Id, Erase(id) PROVE IndexTablesInv'
  <1>1. CASE positions[id] = NotFound
    BY <1>1 DEF Erase, IndexTablesInv, TypeOK, TablesAgree, Stored
  <1>2. CASE positions[id] # NotFound
    <2> DEFINE n == Len(records)  p == positions[id] + 1
    <2> USE Tables
    <2>1. /\ n \in Nat \ {0} /\ p \in 1..n
          /\ records' \in Seq(Record) /\ Len(records') = n - 1
          /\ \A i \in 1..(n - 1) : records'[i] = IF i = p THEN records[n] ELSE records[i]
          /\ positions' \in [Id -> Int]
          /\ \A j \in Id : positions'[j] = IF j = id THEN NotFound
                                           ELSE IF j = records[n].id THEN p - 1
                                           ELSE positions[j]
      BY <1>2, EraseEffect
    <2>2. ASSUME NEW i \in 1..Len(records') PROVE positions'[records'[i].id] = i - 1
      <3>1. i \in 1..(n - 1) /\ i \in 1..n /\ n \in 1..n
        BY <2>1
      <3>2. /\ records[i].id \in Id /\ positions[records[i].id] = i - 1
            /\ records[n].id \in Id /\ positions[records[n].id] = n - 1
        BY <3>1
      <3>3. positions[id] = p - 1 /\ p \in Int
        BY <2>1
      <3>4. CASE i = p
        <4>1. records'[i] = records[n] /\ records[n].id # id
          BY <3>1, <3>2, <3>3, <3>4, <2>1
        <4> QED
          BY <4>1, <3>2, <3>4, <2>1
      <3>5. CASE i # p
        <4>1. records'[i] = records[i] /\ records[i].id # id /\ records[i].id # records[n].id
          BY <3>1, <3>2, <3>3, <3>5, <2>1
        <4> QED
          BY <4>1, <3>2, <2>1
      <3> QED
        BY <3>4, <3>5
    <2>3. ASSUME NEW j \in Id, positions'[j] # NotFound
          PROVE  positions'[j] \in 0..(Len(records') - 1) /\ records'[positions'[j] + 1].id = j
      <3>1. j # id
        BY <2>1, <2>3
      <3>2. CASE j = records[n].id
        BY <3>1, <3>2, <2>1, <1>2
      <3>3. CASE j # records[n].id
        <4> DEFINE q == positions[j] + 1
        <4>1. positions'[j] = positions[j] /\ positions[j] # NotFound
          BY <3>1, <3>3, <2>1, <2>3
        <4>2. q \in 1..n /\ records[q].id = j /\ positions[j] \in Int
          BY <4>1
        <4>3. records[p].id = id
          BY <1>2
        <4>4. q # n /\ q # p
          BY <4>2, <4>3, <3>1, <3>3
        <4>5. q \in 1..(n - 1)
          BY <4>2, <4>4, <2>1
        <4>6. records'[q] = records[q]
          BY <4>4, <4>5, <2>1
        <4> QED
          BY <4>1, <4>2, <4>5, <4>6, <2>1
      <3> QED
        BY <3>2, <3>3
    <2> QED
      BY <2>1, <2>2, <2>3 DEF IndexTablesInv, TypeOK, TablesAgree, Stored, Record
  <1> QED
    BY <1>1, <1>2

\* The map the tables stand for.
Entries == [id \in Stored |-> records[positions[id] + 1].values]

LEMMA UpsertOfMap ==
    ASSUME IndexTablesInv, NEW id \in Id, NEW v \in Vec, Upsert(id, v)
    PROVE  Map!Upsert(id, v)
  <1> DEFINE n == Len(records)  p == positions[id] + 1
  <1> USE Tables
  <1>1. CASE positions[id] # NotFound
    <2>1. /\ p \in 1..n /\ positions' = positions
          /\ records' = [records EXCEPT ![p].values = v]
      BY <1>1 DEF Upsert
    <2>2. Stored' = Stored /\ id \in Stored
      BY <2>1, <1>1 DEF Stored
    <2>3. ASSUME NEW i \in Stored
          PROVE  records'[positions'[i] + 1].values =
                    IF i = id THEN v ELSE records[positions[i] + 1].values
      <3>1. positions[i] + 1 \in 1..n /\ records[positions[i] + 1].id = i
        BY <2>3 DEF Stored
      <3>2. CASE i = id
        BY <3>2, <2>1 DEF Record
      <3>3. CASE i # id
        <4>1. positions[i] + 1 # p
          BY <3>1, <3>3, <1>1
        <4> QED
          BY <4>1, <3>1, <3>3, <2>1
      <3> QED
        BY <3>2, <3>3
    <2>4. Entries' = [i \in Stored \cup {id} |-> IF i = id THEN v ELSE Entries[i]]
      BY <2>2, <2>3 DEF Entries
    <2> QED
      BY <2>2, <2>4 DEF Map!Upsert, Entries, Upsert
  <1>2. CASE positions[id] = NotFound
    <2> DEFINE r == [id |-> id, values |-> v]
    <2>1. /\ positions' = [positions EXCEPT ![id] = n]
          /\ records' = Append(records, r) /\ r \in Record
      BY <1>2 DEF Upsert, Record
    <2>2. /\ records'[n + 1] = r /\ \A i \in 1..n : records'[i] = records[i]
      BY <2>1
    <2>3. Stored' = Stored \cup {id} /\ id \notin Stored
      BY <2>1, <1>2 DEF Stored, NotFound
    <2>4. ASSUME NEW i \in Stored'
          PROVE  records'[positions'[i] + 1].values =
                    IF i = id THEN v ELSE records[positions[i] + 1].values
      <3>1. CASE i = id
        BY <3>1, <2>1, <2>2
      <3>2. CASE i # id
        <4>1. i \in Stored /\ i \in Id /\ positions'[i] = positions[i]
          BY <3>2, <2>1, <2>3, <2>4 DEF Stored
        <4>2. positions[i] + 1 \in 1..n
          BY <4>1 DEF Stored
        <4> QED
          BY <4>1, <4>2, <3>2, <2>2
      <3> QED
        BY <3>1, <3>2
    <2>5. Entries' = [i \in Stored \cup {id} |-> IF i = id THEN v ELSE Entries[i]]
      BY <2>3, <2>4 DEF Entries
    <2> QED
      BY <2>5 DEF Map!Upsert, Entries, Upsert
  <1> QED
    BY <1>1, <1>2

LEMMA EraseOfMap ==
    ASSUME IndexTablesInv, NEW id \in Id, Erase(id) PROVE Map!Erase(id)
  <1>1. CASE positions[id] = NotFound
    <2>1. records' = records /\ positions' = positions /\ id \notin Stored
      BY <1>1 DEF Erase, Stored
    <2>2. Stored' = Stored /\ Stored \ {id} = Stored
      BY <2>1 DEF Stored
    <2>3. Entries' = [i \in Stored \ {id} |-> Entries[i]]
      BY <2>1, <2>2 DEF Entries
    <2> QED
      BY <2>3 DEF Map!Erase, Entries, Erase
  <1>2. CASE positions[id] # NotFound
    <2> DEFINE n == Len(records)  p == positions[id] + 1
    <2> USE Tables
    <2>1. /\ n \in Nat \ {0} /\ p \in 1..n
          /\ \A i \in 1..(n - 1) : records'[i] = IF i = p THEN records[n] ELSE records[i]
          /\ \A j \in Id : positions'[j] = IF j = id THEN NotFound
                                           ELSE IF j = records[n].id THEN p - 1
                                           ELSE positions[j]
      BY <1>2, EraseEffect
    <2>2. /\ n \in 1..n /\ records[n].id \in Id /\ positions[records[n].id] = n - 1
          /\ records[p].id = id /\ p - 1 # NotFound
      BY <2>1, <1>2 DEF NotFound
    <2>3. Stored' = Stored \ {id}
      <3>1. ASSUME NEW j \in Id PROVE positions'[j] # NotFound <=> j # id /\ positions[j] # NotFound
        BY <2>1, <2>2 DEF NotFound
      <3> QED
        BY <3>1 DEF Stored
    <2>4. ASSUME NEW j \in Stored \ {id}
          PROVE  records'[positions'[j] + 1].values = records[positions[j] + 1].values
      <3> DEFINE q == positions[j] + 1
      <3>1. j \in Id /\ j # id /\ q \in 1..n /\ records[q].id = j /\ positions[j] \in Int
        BY <2>4 DEF Stored
      <3>2. q # p
        BY <3>1, <2>2
      <3>3. CASE j = records[n].id
        <4>1. q = n /\ p \in 1..(n - 1) /\ positions'[j] + 1 = p
          BY <3>1, <3>2, <3>3, <2>1, <2>2
        <4> QED
          BY <4>1, <2>1
      <3>4. CASE j # records[n].id
        <4>1. q # n
          BY <3>1, <3>4
        <4>2. q \in 1..(n - 1) /\ positions'[j] = positions[j]
          BY <4>1, <3>1, <3>4, <2>1
        <4>3. records'[q] = records[q]
          BY <4>2, <3>2, <2>1
        <4> QED
          BY <4>2, <4>3
      <3> QED
        BY <3>3, <3>4
    <2>5. Entries' = [i \in Stored \ {id} |-> Entries[i]]
      BY <2>3, <2>4 DEF Entries
    <2> QED
      BY <2>5 DEF Map!Erase, Entries, Erase
  <1> QED
    BY <1>1, <1>2

\* The array and the position table describe each other after every
\* sequence of upserts, erases and searches.
THEOREM TablesInvariant == Spec => []IndexTablesInv
  <1>1. Init => IndexTablesInv
    BY DEF Init, IndexTablesInv, TypeOK, TablesAgree, Stored, NotFound
  <1>2. IndexTablesInv /\ [Next]_vars => IndexTablesInv'
    <2> SUFFICES ASSUME IndexTablesInv, [Next]_vars PROVE IndexTablesInv'
      OBVIOUS
    <2>1. ASSUME NEW id \in Id, NEW v \in Vec, Upsert(id, v) PROVE IndexTablesInv'
      BY <2>1, UpsertKeepsTables
    <2>2. ASSUME NEW id \in Id, Erase(id) PROVE IndexTablesInv'
      BY <2>2, EraseKeepsTables
    <2>3. CASE UNCHANGED <<records, positions>>
      BY <2>3 DEF IndexTablesInv, TypeOK, TablesAgree, Stored
    <2>4. ASSUME NEW q \in Query, NEW k \in 0..MaxK, Search(q, k) PROVE IndexTablesInv'
      BY <2>3, <2>4 DEF Search
    <2>5. CASE UNCHANGED vars
      BY <2>3, <2>5 DEF vars
    <2> QED
      BY <2>1, <2>2, <2>4, <2>5 DEF Next
  <1> QED
    BY <1>1, <1>2, PTL DEF Spec

-----------------------------------------------------------------------------
(***************************************************************************)
(* The exact search.                                                       *)
(***************************************************************************)
Hit == [id : Nat, score : Int]

\* Hits of different ids are never equally good.
LEMMA BetterIsTotal ==
    ASSUME NEW h \in Hit, NEW g \in Hit, h.id # g.id, ~Better(g, h)
    PROVE  Better(h, g)
  <1>1. h.id \in Nat /\ g.id \in Nat /\ h.score \in Int /\ g.score \in Int
    BY DEF Hit
  <1> QED
    BY <1>1 DEF Better

LEMMA BetterIsTransitive ==
    ASSUME NEW f \in Hit, NEW g \in Hit, NEW h \in Hit, Better(f, g), Better(g, h)
    PROVE  Better(f, h)
  <1>1. /\ f.id \in Nat /\ g.id \in Nat /\ h.id \in Nat
        /\ f.score \in Int /\ g.score \in Int /\ h.score \in Int
    BY DEF Hit
  <1> QED
    BY <1>1 DEF Better

LEMMA BetterIsIrreflexive == ASSUME NEW h \in Hit PROVE ~Better(h, h)
  <1>1. h.id \in Nat /\ h.score \in Int
    BY DEF Hit
  <1> QED
    BY <1>1 DEF Better

\* A list of hits of different ids, the hits in it and its first k.
DistinctHits(all, n) ==
    /\ n \in Nat
    /\ all \in [1..n -> Hit]
    /\ \A i, j \in 1..n : all[i].id = all[j].id => i = j

HitsIn(all, n) == {all[i] : i \in 1..n}

FirstOf(s, k) == IF Len(s) > k THEN SubSeq(s, 1, k) ELSE s

\* VectorMap counts with the same operator.
LEMMA SameCardinality == \A S : Map!Cardinality(S) = Cardinality(S)
  BY DEF Map!Cardinality, Cardinality, Map!IsFiniteSet, IsFiniteSet

\* What sorting a list of hits of different ids yields: each hit once, best
\* first.
LEMMA SortedFacts ==
    ASSUME NEW n, NEW all, DistinctHits(all, n), NEW s \in Sorted(all)
    PROVE  /\ s \in [1..n -> HitsIn(all, n)]
           /\ \A i, j \in 1..n : i < j => Better(s[i], s[j])
           /\ \A i \in 1..n : \E j \in 1..n : s[j] = all[i]
  <1> USE DEF DistinctHits, HitsIn
  <1>1. Len(all) = n
    OBVIOUS
  <1>2. /\ s \in [1..n -> {all[i] : i \in 1..n}]
        /\ \A h \in {all[i] : i \in 1..n} :
              Cardinality({i \in 1..n : s[i] = h}) = Cardinality({i \in 1..n : all[i] = h})
        /\ \A i, j \in 1..n : i < j => ~Better(s[j], s[i])
    BY <1>1 DEF Sorted
  <1>3. ASSUME NEW i \in 1..n PROVE \E x : {j \in 1..n : s[j] = all[i]} = {x}
    <2>1. {j \in 1..n : all[j] = all[i]} = {i}
      OBVIOUS
    <2>2. Cardinality({j \in 1..n : s[j] = all[i]}) = Cardinality({j \in 1..n : all[j] = all[i]})
      BY <1>2
    <2>3. Cardinality({i}) = 1
      BY FS_Singleton
    <2>4. Cardinality({j \in 1..n : s[j] = all[i]}) = 1
      BY <2>1, <2>2, <2>3
    <2>5. IsFiniteSet({j \in 1..n : s[j] = all[i]})
      BY FS_Interval, FS_Subset
    <2> QED
      BY <2>4, <2>5, FS_Singleton
  <1>4. ASSUME NEW i \in 1..n, NEW j \in 1..n, i < j PROVE Better(s[i], s[j])
    <2>1. PICK a \in 1..n : s[i] = all[a]
      BY <1>2
    <2>2. PICK b \in 1..n : s[j] = all[b]
      BY <1>2
    <2>3. a # b
      <3>1. SUFFICES ASSUME a = b PROVE FALSE
        OBVIOUS
      <3>2. PICK x : {l \in 1..n : s[l] = all[a]} = {x}
        BY <1>3
      <3>3. i = x /\ j = x
        BY <2>1, <2>2, <3>1, <3>2
      <3> QED
        BY <1>4, <3>3
    <2>4. s[i].id # s[j].id
      BY <2>1, <2>2, <2>3
    <2>5. s[i] \in Hit /\ s[j] \in Hit
      BY <2>1, <2>2
    <2>6. ~Better(s[j], s[i])
      BY <1>2, <1>4
    <2> QED
      BY <2>4, <2>5, <2>6, BetterIsTotal
  <1>5. ASSUME NEW i \in 1..n PROVE \E j \in 1..n : s[j] = all[i]
    BY <1>3
  <1> QED
    BY <1>2, <1>4, <1>5

\* As many hits as there are records.
LEMMA NumberOfHits ==
    ASSUME NEW n, NEW all, DistinctHits(all, n)
    PROVE  IsFiniteSet(HitsIn(all, n)) /\ Cardinality(HitsIn(all, n)) = n
  <1> DEFINE H == HitsIn(all, n)
  <1> USE DEF DistinctHits, HitsIn
  <1>1. all \in Injection(1..n, H)
    BY DEF Injection, IsInjective
  <1>2. all \in Surjection(1..n, H)
    BY DEF Surjection
  <1>3. ExistsBijection(1..n, H)
    BY <1>1, <1>2 DEF ExistsBijection, Bijection
  <1>4. IsFiniteSet(1..n) /\ Cardinality(1..n) = n
    BY FS_Interval
  <1> HIDE DEF HitsIn
  <1> QED
    BY <1>3, <1>4, FS_Bijection

\* The first k of the sorted hits are the answer a map would give.
LEMMA SortedIsTopK ==
    ASSUME NEW n, NEW all, DistinctHits(all, n), NEW s \in Sorted(all), NEW k \in Nat
    PROVE  Map!IsTopK(FirstOf(s, k), HitsIn(all, n), k)
  <1> DEFINE H == HitsIn(all, n)
             m == IF n > k THEN k ELSE n
             answer == FirstOf(s, k)
  <1>1. /\ s \in [1..n -> H]
        /\ \A i, j \in 1..n : i < j => Better(s[i], s[j])
        /\ \A i \in 1..n : \E j \in 1..n : s[j] = all[i]
    BY SortedFacts
  <1>2. Len(s) = n /\ Cardinality(H) = n /\ s \in Seq(H) /\ n \in Nat
    <2>1. n \in Nat
      BY DEF DistinctHits
    <2>2. Cardinality(H) = n
      BY NumberOfHits
    <2> HIDE DEF H
    <2> QED
      BY <1>1, <2>1, <2>2
  <1>3. m \in Nat /\ m <= n /\ Len(answer) = m /\ \A i \in 1..m : answer[i] = s[i]
    BY <1>2 DEF FirstOf
  <1>4. Len(answer) = IF Cardinality(H) < k THEN Cardinality(H) ELSE k
    BY <1>2, <1>3
  <1> HIDE DEF answer, m
  <1>5. ASSUME NEW i \in 1..m
        PROVE  /\ answer[i] \in H
               /\ \A h \in H : Map!Better(h, answer[i]) => \E j \in 1..(i - 1) : answer[j] = h
               /\ \A j \in 1..(i - 1) : Map!Better(answer[j], answer[i])
    <2>1. i \in 1..n /\ answer[i] = s[i] /\ s[i] \in H
      <3>1. i \in 1..n
        BY <1>2, <1>3
      <3> QED
        BY <1>1, <1>3, <3>1
    <2>2. ASSUME NEW h \in H, Better(h, s[i]) PROVE \E j \in 1..(i - 1) : answer[j] = h
      <3>1. PICK j \in 1..n : s[j] = h
        BY <1>1 DEF HitsIn
      <3>2. h \in Hit /\ s[i] \in Hit
        BY <2>1 DEF HitsIn, DistinctHits
      <3>3. ~(i < j)
        <4>1. ASSUME Better(s[i], h) PROVE FALSE
          BY <2>2, <3>2, <4>1, BetterIsTransitive, BetterIsIrreflexive
        <4> QED
          BY <1>1, <2>1, <3>1, <4>1
      <3>4. i # j
        BY <2>2, <3>1, <3>2, BetterIsIrreflexive
      <3>5. j \in 1..(i - 1) /\ j \in 1..m
        BY <1>3, <2>1, <3>3, <3>4
      <3> QED
        BY <1>3, <3>1, <3>5
    <2>3. ASSUME NEW j \in 1..(i - 1) PROVE Better(answer[j], answer[i])
      <3>1. j \in 1..m /\ j \in 1..n /\ j < i
        BY <1>2, <1>3, <2>1
      <3> QED
        BY <1>1, <1>3, <2>1, <3>1
    <2> QED
      BY <2>1, <2>2, <2>3 DEF Better, Map!Better
  <1>6. \A i \in 1..Len(answer) :
           /\ answer[i] \in H
           /\ \A h \in H : Map!Better(h, answer[i]) => \E j \in 1..(i - 1) : answer[j] = h
           /\ \A j \in 1..(i - 1) : Map!Better(answer[j], answer[i])
    BY <1>3, <1>5
  <1>7. Map!IsTopK(answer, H, k)
    BY <1>4, <1>6, SameCardinality DEF Map!IsTopK
  <1> QED
    BY <1>7 DEF answer

\* The hits the map would be searched for are those of the records.
LEMMA HitsOfTheMap ==
    ASSUME IndexTablesInv, NEW q \in Query
    PROVE  LET all == [i \in 1..Len(records) |->
                          [id |-> records[i].id, score |-> Score[q][records[i].values]]]
           IN  /\ DistinctHits(all, Len(records))
               /\ Map!AllHits(q) = HitsIn(all, Len(records))
  <1> DEFINE n == Len(records)
             all == [i \in 1..n |-> [id |-> records[i].id, score |-> Score[q][records[i].values]]]
  <1>1. /\ n \in Nat
        /\ \A i \in 1..n : /\ records[i].id \in Id /\ records[i].values \in Vec
                           /\ positions[records[i].id] = i - 1
        /\ \A id \in Id : positions[id] # NotFound =>
              positions[id] + 1 \in 1..n /\ records[positions[id] + 1].id = id
    BY Tables
  <1>2. all \in [1..n -> Hit]
    <2>1. ASSUME NEW i \in 1..n
          PROVE  [id |-> records[i].id, score |-> Score[q][records[i].values]] \in Hit
      BY <1>1, VectorAssumption DEF Hit
    <2> QED
      BY <2>1
  <1>3. ASSUME NEW i \in 1..n, NEW j \in 1..n, all[i].id = all[j].id PROVE i = j
    <2>1. records[i].id = records[j].id
      BY <1>3
    <2>2. i - 1 = j - 1
      BY <1>1, <2>1
    <2> QED
      BY <2>2
  <1>4. Map!AllHits(q) = {[id |-> id, score |-> Score[q][Entries[id]]] : id \in Stored}
    BY DEF Map!AllHits, Entries
  <1>5. ASSUME NEW id \in Stored
        PROVE  [id |-> id, score |-> Score[q][Entries[id]]] \in {all[i] : i \in 1..n}
    <2>1. positions[id] + 1 \in 1..n /\ records[positions[id] + 1].id = id
      BY <1>1 DEF Stored
    <2>2. Entries[id] = records[positions[id] + 1].values
      BY DEF Entries
    <2>3. all[positions[id] + 1] = [id |-> id, score |-> Score[q][Entries[id]]]
      BY <2>1, <2>2
    <2> QED
      BY <2>1, <2>3
  <1>6. ASSUME NEW i \in 1..n
        PROVE  all[i] \in {[id |-> id, score |-> Score[q][Entries[id]]] : id \in Stored}
    <2>1. records[i].id \in Stored
      BY <1>1 DEF Stored, NotFound
    <2>2. positions[records[i].id] + 1 = i
      BY <1>1
    <2>3. Entries[records[i].id] = records[i].values
      BY <2>1, <2>2 DEF Entries
    <2> QED
      BY <2>1, <2>3
  <1> HIDE DEF all
  <1>7. Map!AllHits(q) = HitsIn(all, n)
    BY <1>4, <1>5, <1>6 DEF HitsIn
  <1>8. DistinctHits(all, n)
    BY <1>1, <1>2, <1>3 DEF DistinctHits
  <1> QED
    BY <1>7, <1>8 DEF all

LEMMA SearchOfMap ==
    ASSUME IndexTablesInv, NEW q \in Query, NEW k \in 0..MaxK, Search(q, k)
    PROVE  Map!Search(q, k)
  <1> DEFINE n == Len(records)
             all == [i \in 1..n |-> [id |-> records[i].id, score |-> Score[q][records[i].values]]]
  <1>1. PICK s \in Sorted(all) : hits' = FirstOf(s, k)
    BY DEF Search, FirstOf
  <1>2. records' = records /\ positions' = positions /\ Stored' = Stored
    BY DEF Search, Stored
  <1>3. DistinctHits(all, n) /\ Map!AllHits(q) = HitsIn(all, n)
    BY HitsOfTheMap
  <1>4. k \in Nat
    BY VectorAssumption
  <1> HIDE DEF all, n
  <1>5. Map!IsTopK(hits', Map!AllHits(q), k)
    BY <1>1, <1>3, <1>4, SortedIsTopK
  <1> QED
    BY <1>2, <1>5 DEF Map!Search

\* The index of no records is the empty map.
LEMMA InitOfMap == ASSUME Init PROVE Map!Init
  <1>1. Stored = {} /\ hits = << >>
    BY DEF Init, Stored
  <1> QED
    BY <1>1 DEF Map!Init

LEMMA StepOfMap ==
    ASSUME IndexTablesInv, [Next]_vars PROVE [Map!Next]_(Map!mapVars)
  <1>1. ASSUME NEW id \in Id, NEW v \in Vec, Upsert(id, v) PROVE Map!Next
    BY <1>1, UpsertOfMap DEF Map!Next
  <1>2. ASSUME NEW id \in Id, Erase(id) PROVE Map!Next
    BY <1>2, EraseOfMap DEF Map!Next
  <1>3. ASSUME NEW q \in Query, NEW k \in 0..MaxK, Search(q, k) PROVE Map!Next
    BY <1>3, SearchOfMap DEF Map!Next
  <1>4. CASE UNCHANGED vars
    BY <1>4 DEF vars, Map!mapVars, Stored
  <1> QED
    BY <1>1, <1>2, <1>3, <1>4 DEF Next

\* The brute-force index implements a map with an exact search: an upsert
\* replaces, an erase leaves the other ids alone, a search answers with the
\* best entries, ties by id.
THEOREM IndexIsAVectorMap == Spec => ImplementsVectorMap
  <1>1. IndexTablesInv /\ [Next]_vars => [Map!Next]_(Map!mapVars)
    BY StepOfMap
  <1>2. Init => Map!Init
    BY InitOfMap
  <1> QED
    BY <1>1, <1>2, TablesInvariant, PTL DEF Spec, ImplementsVectorMap, Map!Spec

-----------------------------------------------------------------------------
(***************************************************************************)
(* The HNSW index beside it.                                               *)
(***************************************************************************)
Slot == [label : Id, vec : Vec, deleted : BOOLEAN]

LibraryType ==
    /\ slots \in Seq(Slot)
    /\ lookup \in [Id -> Nat]
    /\ \A id \in Id : lookup[id] # NoSlot => lookup[id] \in 1..Len(slots)
    /\ crossed \in BOOLEAN
    /\ activeIds = Stored

\* The slots and the label table describe each other, and the labels found
\* at a slot that is not deleted are the entries of the baseline.
SlotsPaired ==
    /\ \A s \in 1..Len(slots) : lookup[slots[s].label] = s
    /\ \A id \in Id : lookup[id] # NoSlot => slots[lookup[id]].label = id
    /\ \A id \in Id : id \in Stored <=> IsLive(id)
    /\ \A id \in Stored : slots[lookup[id]].vec = Entries[id]

InjectiveLabels(sl) == \A s, t \in 1..Len(sl) : sl[s].label = sl[t].label => s = t

FilesAgree ==
    (graphFile # NoFile /\ metaFile # NoFile) =>
        /\ graphFile.slots \in Seq(Slot)
        /\ InjectiveLabels(graphFile.slots)
        /\ metaFile.ids = LiveLabels(graphFile.slots)
        /\ metaFile.model = graphFile.model

\* What is on disk at each step of save().
FilesInPlace ==
    /\ saving # "remove metadata" /\ ~torn /\ ~crossed => FilesAgree
    /\ saving # "ended" => ~torn
    /\ saving = "rename graph" => graphFile = NoFile
    /\ saving \in {"remove metadata", "rename metadata"} =>
          graphFile = [slots |-> slots, model |-> model]
    /\ saving = "rename metadata" => metaFile = NoFile

HnswInv ==
    /\ IndexTablesInv
    /\ LibraryType
    /\ ~crossed => SlotsPaired
    /\ FilesInPlace
    /\ LoadsOneSave

LEMMA MapOfBaseline == BaselineMap = Entries /\ DOMAIN BaselineMap = Stored
  BY DEF BaselineMap, Entries

\* Every step is a step of the brute-force index or leaves it alone.
LEMMA StepOfBaseline == ASSUME [HnswNext]_hnswVars PROVE [Next]_vars
  BY DEF HnswNext, hnswVars, UpsertBoth, EraseBoth, StartSave, RemoveGraph,
         SearchBaseline, RenameGraph, RemoveMetadata, RenameMetadata, Interrupt, Load,
         Ended, Next

LEMMA TablesKept == ASSUME IndexTablesInv, [Next]_vars PROVE IndexTablesInv'
  <1>1. CASE UNCHANGED <<records, positions>>
    BY <1>1 DEF IndexTablesInv, TypeOK, TablesAgree, Stored
  <1> QED
    BY <1>1, UpsertKeepsTables, EraseKeepsTables DEF Next, Search, vars

\* The entries of the baseline after an upsert and after an erase.
LEMMA BaselineUpsert ==
    ASSUME IndexTablesInv, NEW id \in Id, NEW v \in Vec, Upsert(id, v)
    PROVE  /\ Stored' = Stored \cup {id}
           /\ \A i \in Stored' : Entries'[i] = IF i = id THEN v ELSE Entries[i]
  <1>1. Entries' = [i \in DOMAIN Entries \cup {id} |-> IF i = id THEN v ELSE Entries[i]]
    BY UpsertOfMap DEF Map!Upsert, Entries
  <1>2. DOMAIN Entries = Stored /\ DOMAIN Entries' = Stored'
    BY DEF Entries
  <1> QED
    BY <1>1, <1>2

LEMMA BaselineErase ==
    ASSUME IndexTablesInv, NEW id \in Id, Erase(id)
    PROVE  /\ Stored' = Stored \ {id}
           /\ \A i \in Stored' : Entries'[i] = Entries[i]
  <1>1. Entries' = [i \in DOMAIN Entries \ {id} |-> Entries[i]]
    BY EraseOfMap DEF Map!Erase, Entries
  <1>2. DOMAIN Entries = Stored /\ DOMAIN Entries' = Stored'
    BY DEF Entries
  <1> QED
    BY <1>1, <1>2

\* Facts about the slots that each operation starts from.
LEMMA SlotFacts ==
    ASSUME LibraryType
    PROVE  /\ Len(slots) \in Nat
           /\ \A s \in 1..Len(slots) :
                 /\ slots[s] \in Slot /\ slots[s].label \in Id
                 /\ slots[s].vec \in Vec /\ slots[s].deleted \in BOOLEAN
  <1>1. slots \in Seq(Slot)
    BY DEF LibraryType
  <1>2. \A s \in 1..Len(slots) : slots[s] \in Slot
    BY <1>1
  <1> QED
    BY <1>1, <1>2 DEF Slot

LEMMA ReplaceKeepsSlots ==
    ASSUME IndexTablesInv, LibraryType, ~crossed => SlotsPaired,
           NEW id \in Id, NEW v \in Vec, id \notin activeIds, ReplaceDeleted(id, v),
           activeIds' = activeIds \cup {id}, Upsert(id, v)
    PROVE  LibraryType' /\ (~crossed' => SlotsPaired')
  <1> USE SlotFacts DEF NoSlot
  <1>1. PICK d \in Dead :
           /\ slots' = [slots EXCEPT ![d] = Point(id, v)]
           /\ lookup' = [lookup EXCEPT ![slots[d].label] = NoSlot, ![id] = d]
           /\ crossed' = (crossed \/ \E s \in Dead \ {d} : slots[s].label = id)
    BY DEF ReplaceDeleted
  <1> DEFINE n == Len(slots)
             x == slots[d].label
             p == Point(id, v)
  <1>2. d \in 1..n /\ slots[d].deleted /\ x \in Id /\ d \in Nat \ {0}
    BY DEF Dead
  <1>3. p \in Slot /\ p.label = id /\ p.vec = v /\ ~p.deleted
    BY DEF Point, Slot
  <1>4. /\ slots \in Seq(Slot) /\ lookup \in [Id -> Nat] /\ crossed \in BOOLEAN
        /\ \A i \in Id : lookup[i] # 0 => lookup[i] \in 1..n
        /\ activeIds = Stored
    BY DEF LibraryType
  <1> HIDE DEF p
  <1>5. /\ slots' \in Seq(Slot) /\ Len(slots') = n /\ slots'[d] = p
        /\ \A s \in 1..n : s # d => slots'[s] = slots[s]
    BY <1>1, <1>2, <1>3, <1>4 DEF p
  <1>6. /\ lookup' \in [Id -> Nat] /\ lookup'[id] = d
        /\ x # id => lookup'[x] = 0
        /\ \A i \in Id : (i # id /\ i # x) => lookup'[i] = lookup[i]
    BY <1>1, <1>2, <1>4
  <1>7. /\ Stored' = Stored \cup {id}
        /\ \A i \in Stored' : Entries'[i] = IF i = id THEN v ELSE Entries[i]
    BY BaselineUpsert
  <1>8. LibraryType'
    <2>1. \A i \in Id : lookup'[i] # 0 => lookup'[i] \in 1..n
      BY <1>2, <1>4, <1>6
    <2>2. crossed' \in BOOLEAN
      BY <1>1
    <2> QED
      BY <1>4, <1>5, <1>6, <1>7, <2>1, <2>2 DEF LibraryType
  <1>9. ASSUME ~crossed' PROVE SlotsPaired'
    <2>1. ~crossed /\ \A s \in Dead \ {d} : slots[s].label # id
      BY <1>1, <1>9
    <2>2. /\ \A s \in 1..n : lookup[slots[s].label] = s
          /\ \A i \in Id : lookup[i] # 0 => slots[lookup[i]].label = i
          /\ \A i \in Id : i \in Stored <=> (lookup[i] # 0 /\ ~slots[lookup[i]].deleted)
          /\ \A i \in Stored : slots[lookup[i]].vec = Entries[i]
      BY <2>1 DEF SlotsPaired, IsLive
    <2>3. lookup[x] = d /\ x \notin Stored /\ id \notin Stored
      BY <1>2, <1>4, <2>2
    <2>4. ASSUME NEW s \in 1..n PROVE lookup'[slots'[s].label] = s
      <3>1. CASE s = d
        BY <3>1, <1>3, <1>5, <1>6
      <3>2. CASE s # d
        <4>1. slots'[s] = slots[s] /\ lookup[slots[s].label] = s /\ slots[s].label \in Id
          BY <3>2, <1>5, <2>2
        <4>2. slots[s].label # x
          BY <4>1, <3>2, <2>3
        <4>3. slots[s].label # id
          <5>1. SUFFICES ASSUME slots[s].label = id PROVE FALSE
            OBVIOUS
          <5>2. lookup[id] = s /\ slots[s].deleted
            BY <4>1, <5>1, <2>2, <2>3
          <5> QED
            BY <5>1, <5>2, <3>2, <2>1 DEF Dead
        <4> QED
          BY <4>1, <4>2, <4>3, <1>6
      <3> QED
        BY <3>1, <3>2
    <2>5. ASSUME NEW i \in Id, i # id, i # x
          PROVE  /\ lookup'[i] = lookup[i]
                 /\ lookup[i] # 0 => slots'[lookup[i]] = slots[lookup[i]]
      <3>1. lookup'[i] = lookup[i]
        BY <2>5, <1>6
      <3>2. lookup[i] # 0 => lookup[i] # d /\ lookup[i] \in 1..n
        BY <2>5, <2>2, <1>4
      <3> QED
        BY <3>1, <3>2, <1>5
    <2>6. ASSUME NEW i \in Id
          PROVE  /\ lookup'[i] # 0 => slots'[lookup'[i]].label = i
                 /\ i \in Stored' <=> (lookup'[i] # 0 /\ ~slots'[lookup'[i]].deleted)
                 /\ i \in Stored' => slots'[lookup'[i]].vec = Entries'[i]
      <3>1. CASE i = id
        BY <3>1, <1>2, <1>3, <1>5, <1>6, <1>7
      <3>2. CASE i # id /\ i = x
        BY <3>2, <1>6, <1>7, <2>3
      <3>3. CASE i # id /\ i # x
        <4>1. i \in Stored' <=> i \in Stored
          BY <3>3, <1>7
        <4> QED
          BY <4>1, <3>3, <1>7, <2>2, <2>5
      <3> QED
        BY <3>1, <3>2, <3>3
    <2>7. Stored' \subseteq Id
      BY DEF Stored
    <2> QED
      BY <1>5, <2>4, <2>6, <2>7 DEF SlotsPaired, IsLive
  <1> QED
    BY <1>8, <1>9

LEMMA UpdateKeepsSlots ==
    ASSUME IndexTablesInv, LibraryType, ~crossed => SlotsPaired,
           NEW id \in Id, NEW v \in Vec, UpdatePoint(id, v),
           activeIds' = activeIds \cup {id}, Upsert(id, v)
    PROVE  LibraryType' /\ (~crossed' => SlotsPaired')
  <1> USE SlotFacts DEF NoSlot
  <1> DEFINE n == Len(slots)
             d == lookup[id]
             p == [slots[d] EXCEPT !.vec = v]
  <1>1. /\ slots \in Seq(Slot) /\ lookup \in [Id -> Nat] /\ crossed \in BOOLEAN
        /\ \A i \in Id : lookup[i] # 0 => lookup[i] \in 1..n
        /\ activeIds = Stored
    BY DEF LibraryType
  <1>2. /\ d \in 1..n /\ ~slots[d].deleted /\ lookup' = lookup /\ crossed' = crossed
        /\ slots' = [slots EXCEPT ![d] = p]
    BY <1>1 DEF UpdatePoint, IsLive
  <1>3. p \in Slot /\ p.label = slots[d].label /\ p.deleted = slots[d].deleted /\ p.vec = v
    BY <1>2 DEF Slot
  <1> HIDE DEF p, d
  <1>4. /\ slots' \in Seq(Slot) /\ Len(slots') = n /\ slots'[d] = p
        /\ \A s \in 1..n : s # d => slots'[s] = slots[s]
    BY <1>1, <1>2, <1>3
  <1>5. /\ \A s \in 1..n : slots'[s].label = slots[s].label /\ slots'[s].deleted = slots[s].deleted
        /\ \A s \in 1..n : slots'[s].vec = IF s = d THEN v ELSE slots[s].vec
    BY <1>3, <1>4
  <1>6. /\ Stored' = Stored \cup {id} /\ Stored' \subseteq Id
        /\ \A i \in Stored' : Entries'[i] = IF i = id THEN v ELSE Entries[i]
    BY BaselineUpsert DEF Stored
  <1>7. LibraryType'
    BY <1>1, <1>2, <1>4, <1>6 DEF LibraryType
  <1>8. ASSUME ~crossed' PROVE SlotsPaired'
    <2>1. /\ \A s \in 1..n : lookup[slots[s].label] = s
          /\ \A i \in Id : lookup[i] # 0 => slots[lookup[i]].label = i
          /\ \A i \in Id : i \in Stored <=> (lookup[i] # 0 /\ ~slots[lookup[i]].deleted)
          /\ \A i \in Stored : slots[lookup[i]].vec = Entries[i]
      BY <1>2, <1>8 DEF SlotsPaired, IsLive
    <2>2. id \in Stored
      BY <1>2, <2>1 DEF d
    <2>3. \A s \in 1..n : lookup'[slots'[s].label] = s
      BY <1>2, <1>5, <2>1
    <2>4. ASSUME NEW i \in Id
          PROVE  /\ lookup'[i] # 0 => slots'[lookup'[i]].label = i
                 /\ i \in Stored' <=> (lookup'[i] # 0 /\ ~slots'[lookup'[i]].deleted)
      BY <1>1, <1>2, <1>5, <1>6, <2>1, <2>2
    <2>5. ASSUME NEW i \in Stored' PROVE slots'[lookup'[i]].vec = Entries'[i]
      <3>1. i \in Stored /\ i \in Id /\ lookup[i] \in 1..n
        BY <1>1, <1>6, <2>1, <2>2
      <3>2. CASE i = id
        BY <3>1, <3>2, <1>2, <1>5, <1>6 DEF d
      <3>3. CASE i # id
        <4>1. lookup[i] # d
          BY <3>1, <3>3, <2>1, <1>2 DEF d
        <4> QED
          BY <3>1, <3>3, <4>1, <1>2, <1>5, <1>6, <2>1
      <3> QED
        BY <3>2, <3>3
    <2> QED
      BY <1>4, <2>3, <2>4, <2>5 DEF SlotsPaired, IsLive
  <1> QED
    BY <1>7, <1>8

LEMMA NewKeepsSlots ==
    ASSUME IndexTablesInv, LibraryType, ~crossed => SlotsPaired,
           NEW id \in Id, NEW v \in Vec, NewPoint(id, v),
           activeIds' = activeIds \cup {id}, Upsert(id, v)
    PROVE  LibraryType' /\ (~crossed' => SlotsPaired')
  <1> USE SlotFacts DEF NoSlot
  <1> DEFINE n == Len(slots)
             p == Point(id, v)
  <1>1. /\ slots \in Seq(Slot) /\ lookup \in [Id -> Nat] /\ crossed \in BOOLEAN
        /\ \A i \in Id : lookup[i] # 0 => lookup[i] \in 1..n
        /\ activeIds = Stored
    BY DEF LibraryType
  <1>2. p \in Slot /\ p.label = id /\ p.vec = v /\ ~p.deleted
    BY DEF Point, Slot
  <1>3. /\ lookup[id] = 0 /\ crossed' = crossed
        /\ slots' = Append(slots, p)
        /\ lookup' = [lookup EXCEPT ![id] = n + 1]
    BY DEF NewPoint
  <1> HIDE DEF p
  <1>4. /\ slots' \in Seq(Slot) /\ Len(slots') = n + 1 /\ slots'[n + 1] = p
        /\ \A s \in 1..n : slots'[s] = slots[s]
    BY <1>1, <1>2, <1>3
  <1>5. /\ lookup' \in [Id -> Nat] /\ lookup'[id] = n + 1
        /\ \A i \in Id : i # id => lookup'[i] = lookup[i]
    BY <1>1, <1>3
  <1>6. /\ Stored' = Stored \cup {id} /\ Stored' \subseteq Id
        /\ \A i \in Stored' : Entries'[i] = IF i = id THEN v ELSE Entries[i]
    BY BaselineUpsert DEF Stored
  <1>7. LibraryType'
    <2>1. \A i \in Id : lookup'[i] # 0 => lookup'[i] \in 1..(n + 1)
      BY <1>1, <1>5
    <2> QED
      BY <1>1, <1>3, <1>4, <1>5, <1>6, <2>1 DEF LibraryType
  <1>8. ASSUME ~crossed' PROVE SlotsPaired'
    <2>1. /\ \A s \in 1..n : lookup[slots[s].label] = s
          /\ \A i \in Id : lookup[i] # 0 => slots[lookup[i]].label = i
          /\ \A i \in Id : i \in Stored <=> (lookup[i] # 0 /\ ~slots[lookup[i]].deleted)
          /\ \A i \in Stored : slots[lookup[i]].vec = Entries[i]
      BY <1>3, <1>8 DEF SlotsPaired, IsLive
    <2>2. ASSUME NEW s \in 1..(n + 1) PROVE lookup'[slots'[s].label] = s
      <3>1. CASE s = n + 1
        BY <3>1, <1>2, <1>4, <1>5
      <3>2. CASE s # n + 1
        <4>1. s \in 1..n /\ slots'[s] = slots[s] /\ slots[s].label \in Id
          BY <3>2, <1>4
        <4>2. lookup[slots[s].label] = s /\ slots[s].label # id
          BY <4>1, <2>1, <1>3
        <4> QED
          BY <4>1, <4>2, <1>5
      <3> QED
        BY <3>1, <3>2
    <2>3. ASSUME NEW i \in Id
          PROVE  /\ lookup'[i] # 0 => slots'[lookup'[i]].label = i
                 /\ i \in Stored' <=> (lookup'[i] # 0 /\ ~slots'[lookup'[i]].deleted)
                 /\ i \in Stored' => slots'[lookup'[i]].vec = Entries'[i]
      <3>1. CASE i = id
        BY <3>1, <1>2, <1>4, <1>5, <1>6
      <3>2. CASE i # id
        <4>1. /\ lookup'[i] = lookup[i]
              /\ i \in Stored' <=> i \in Stored
              /\ lookup[i] # 0 => slots'[lookup[i]] = slots[lookup[i]]
          BY <3>2, <1>1, <1>4, <1>5, <1>6
        <4> QED
          BY <4>1, <3>2, <1>6, <2>1
      <3> QED
        BY <3>1, <3>2
    <2> QED
      BY <1>4, <1>6, <2>2, <2>3 DEF SlotsPaired, IsLive
  <1> QED
    BY <1>7, <1>8

LEMMA UpsertKeepsSlots ==
    ASSUME IndexTablesInv, LibraryType, ~crossed => SlotsPaired,
           NEW id \in Id, NEW v \in Vec, UpsertBoth(id, v)
    PROVE  LibraryType' /\ (~crossed' => SlotsPaired')
  <1>1. activeIds' = activeIds \cup {id} /\ Upsert(id, v)
    BY DEF UpsertBoth
  <1>2. AddPoint(id, v, id \notin activeIds)
    BY DEF UpsertBoth, IsNewOrReactivated
  <1>3. CASE id \notin activeIds /\ Dead # {}
    <2>1. ReplaceDeleted(id, v)
      BY <1>2, <1>3 DEF AddPoint
    <2> QED
      BY <1>1, <1>3, <2>1, ReplaceKeepsSlots
  <1>4. CASE ~(id \notin activeIds /\ Dead # {})
    <2>1. UpdatePoint(id, v) \/ NewPoint(id, v)
      BY <1>2, <1>4 DEF AddPoint
    <2> QED
      BY <1>1, <2>1, UpdateKeepsSlots, NewKeepsSlots
  <1> QED
    BY <1>3, <1>4

LEMMA EraseKeepsSlots ==
    ASSUME IndexTablesInv, LibraryType, ~crossed => SlotsPaired,
           NEW id \in Id, EraseBoth(id)
    PROVE  LibraryType' /\ (~crossed' => SlotsPaired')
  <1> USE SlotFacts DEF NoSlot
  <1> DEFINE n == Len(slots)
             d == lookup[id]
             p == [slots[d] EXCEPT !.deleted = TRUE]
  <1>1. /\ slots \in Seq(Slot) /\ lookup \in [Id -> Nat] /\ crossed \in BOOLEAN
        /\ \A i \in Id : lookup[i] # 0 => lookup[i] \in 1..n
        /\ activeIds = Stored
    BY DEF LibraryType
  <1>2. /\ Stored' = Stored \ {id} /\ Stored' \subseteq Id
        /\ \A i \in Stored' : Entries'[i] = Entries[i]
    BY BaselineErase DEF Stored, EraseBoth
  <1>3. lookup' = lookup /\ crossed' = crossed
    BY DEF EraseBoth
  <1>4. CASE id \notin activeIds
    <2>1. slots' = slots /\ activeIds' = activeIds /\ Stored' = Stored
      BY <1>1, <1>2, <1>4 DEF EraseBoth
    <2>2. LibraryType'
      BY <1>1, <1>3, <2>1 DEF LibraryType
    <2>3. ASSUME ~crossed' PROVE SlotsPaired'
      BY <1>2, <1>3, <2>1, <2>3 DEF SlotsPaired, IsLive
    <2> QED
      BY <2>2, <2>3
  <1>5. CASE id \in activeIds
    <2>1. /\ d \in 1..n /\ activeIds' = activeIds \ {id}
          /\ slots' = [slots EXCEPT ![d] = p]
      BY <1>1, <1>5 DEF EraseBoth, IsLive, WithoutId
    <2>2. p \in Slot /\ p.label = slots[d].label /\ p.vec = slots[d].vec /\ p.deleted
      BY <2>1 DEF Slot
    <2> HIDE DEF p, d
    <2>3. /\ slots' \in Seq(Slot) /\ Len(slots') = n /\ slots'[d] = p
          /\ \A s \in 1..n : s # d => slots'[s] = slots[s]
      BY <1>1, <2>1, <2>2
    <2>4. \A s \in 1..n : slots'[s].label = slots[s].label /\ slots'[s].vec = slots[s].vec
      BY <2>2, <2>3
    <2>5. LibraryType'
      BY <1>1, <1>2, <1>3, <2>1, <2>3 DEF LibraryType
    <2>6. ASSUME ~crossed' PROVE SlotsPaired'
      <3>1. /\ \A s \in 1..n : lookup[slots[s].label] = s
            /\ \A i \in Id : lookup[i] # 0 => slots[lookup[i]].label = i
            /\ \A i \in Id : i \in Stored <=> (lookup[i] # 0 /\ ~slots[lookup[i]].deleted)
            /\ \A i \in Stored : slots[lookup[i]].vec = Entries[i]
        BY <1>3, <2>6 DEF SlotsPaired, IsLive
      <3>2. \A s \in 1..n : lookup'[slots'[s].label] = s
        BY <1>3, <2>4, <3>1
      <3>3. ASSUME NEW i \in Id
            PROVE  /\ lookup'[i] # 0 => slots'[lookup'[i]].label = i
                   /\ i \in Stored' <=> (lookup'[i] # 0 /\ ~slots'[lookup'[i]].deleted)
                   /\ i \in Stored' => slots'[lookup'[i]].vec = Entries'[i]
        <4>1. CASE i = id
          BY <4>1, <1>2, <1>3, <2>1, <2>2, <2>3, <2>4, <3>1 DEF d
        <4>2. CASE i # id
          <5>1. lookup[i] # 0 => lookup[i] # d /\ lookup[i] \in 1..n
            BY <4>2, <1>1, <2>1, <3>1 DEF d
          <5>2. lookup[i] # 0 => slots'[lookup[i]] = slots[lookup[i]]
            BY <5>1, <2>3
          <5> QED
            BY <4>2, <5>2, <1>2, <1>3, <3>1
        <4> QED
          BY <4>1, <4>2
      <3> QED
        BY <1>2, <2>3, <3>2, <3>3 DEF SlotsPaired, IsLive
    <2> QED
      BY <2>5, <2>6
  <1> QED
    BY <1>4, <1>5

\* Without crossed labels, what a search can find is what the baseline stores.
LEMMA LiveAreStored ==
    ASSUME LibraryType, SlotsPaired
    PROVE  /\ LiveLabels(slots) = Stored
           /\ InjectiveLabels(slots)
  <1>1. ASSUME NEW s \in 1..Len(slots), ~slots[s].deleted PROVE slots[s].label \in Stored
    BY <1>1, SlotFacts DEF SlotsPaired, IsLive, NoSlot
  <1>2. ASSUME NEW id \in Stored
        PROVE  /\ lookup[id] \in 1..Len(slots)
               /\ slots[lookup[id]].label = id /\ ~slots[lookup[id]].deleted
    BY <1>2 DEF SlotsPaired, LibraryType, IsLive, Stored
  <1>3. LiveLabels(slots) = Stored
    BY <1>1, <1>2 DEF LiveLabels
  <1> QED
    BY <1>3 DEF InjectiveLabels, SlotsPaired

\* A label that occurs once is found at its slot.
LEMMA LoadIndexFinds ==
    ASSUME NEW sl \in Seq(Slot), InjectiveLabels(sl), NEW t \in 1..Len(sl)
    PROVE  LoadIndex(sl)[sl[t].label] = t
  <1> DEFINE at == {s \in 1..Len(sl) : sl[s].label = sl[t].label}
  <1>1. sl[t].label \in Id
    <2>1. sl[t] \in Slot
      OBVIOUS
    <2> QED
      BY <2>1 DEF Slot
  <1>2. at = {t}
    BY DEF InjectiveLabels
  <1>3. LoadIndex(sl)[sl[t].label] =
           IF at = {} THEN NoSlot ELSE CHOOSE s \in at : \A r \in at : r <= s
    BY <1>1 DEF LoadIndex
  <1> HIDE DEF at
  <1>4. (CHOOSE s \in at : \A r \in at : r <= s) = t
    BY <1>2
  <1> QED
    BY <1>2, <1>3, <1>4

\* A step that leaves the library and the baseline alone.
LEMMA SlotsKept ==
    ASSUME LibraryType, ~crossed => SlotsPaired, UNCHANGED <<records, positions, library>>
    PROVE  LibraryType' /\ (~crossed' => SlotsPaired')
  BY DEF LibraryType, SlotsPaired, IsLive, Entries, Stored, library

\* A step that leaves the disk alone, and the slots while they are saved.
LEMMA DiskKept ==
    ASSUME FilesInPlace, LoadsOneSave, UNCHANGED disk, ~crossed' => ~crossed,
           saving = "no" \/ slots' = slots
    PROVE  FilesInPlace' /\ LoadsOneSave'
  BY DEF FilesInPlace, LoadsOneSave, FilesAgree, disk

LEMMA CrossedStays ==
    ASSUME NEW id \in Id, (\E v \in Vec : UpsertBoth(id, v)) \/ EraseBoth(id)
    PROVE  ~crossed' => ~crossed
  BY DEF UpsertBoth, AddPoint, ReplaceDeleted, UpdatePoint, NewPoint, EraseBoth

\* The steps of save().
LEMMA SaveKeepsFiles ==
    ASSUME LibraryType, ~crossed => SlotsPaired, FilesInPlace, LoadsOneSave,
           StartSave \/ RemoveGraph \/ RenameGraph \/ RemoveMetadata \/ RenameMetadata
    PROVE  FilesInPlace' /\ LoadsOneSave'
  <1>1. /\ loaded' = loaded /\ torn' = torn /\ slots' = slots /\ model' = model
        /\ crossed' = crossed
    BY DEF StartSave, RemoveGraph, RenameGraph, RemoveMetadata, RenameMetadata, library
  <1>2. LoadsOneSave'
    BY <1>1 DEF LoadsOneSave
  <1>3. ~torn
    BY DEF StartSave, RemoveGraph, RenameGraph, RemoveMetadata, RenameMetadata, FilesInPlace
  <1>4. ~torn'
    BY <1>1, <1>3
  <1>5. /\ saving' # "remove metadata" /\ ~crossed => FilesAgree'
        /\ saving' = "rename graph" => graphFile' = NoFile
        /\ saving' \in {"remove metadata", "rename metadata"} =>
              graphFile' = [slots |-> slots, model |-> model]
        /\ saving' = "rename metadata" => metaFile' = NoFile
    <2>1. CASE StartSave
      <3>1. saving = "no" /\ saving' = "remove graph" /\ UNCHANGED <<graphFile, metaFile>>
        BY <2>1 DEF StartSave
      <3>2. ~crossed => FilesAgree
        BY <1>3, <3>1 DEF FilesInPlace
      <3> QED
        BY <3>1, <3>2 DEF FilesAgree
    <2>2. CASE RemoveGraph
      BY <2>2 DEF RemoveGraph, FilesAgree
    <2>3. CASE RenameGraph
      BY <2>3 DEF RenameGraph
    <2>4. CASE RemoveMetadata
      BY <2>4 DEF RemoveMetadata, FilesInPlace, FilesAgree
    <2>5. CASE RenameMetadata
      <3>1. /\ graphFile' = [slots |-> slots, model |-> model]
            /\ metaFile' = [ids |-> activeIds, model |-> model]
            /\ saving' = "ended"
        BY <2>5 DEF RenameMetadata, FilesInPlace
      <3>2. ASSUME ~crossed
            PROVE  /\ slots \in Seq(Slot) /\ InjectiveLabels(slots)
                   /\ activeIds = LiveLabels(slots)
        BY <3>2, LiveAreStored DEF LibraryType
      <3>3. ~crossed => FilesAgree'
        BY <3>1, <3>2 DEF FilesAgree
      <3> QED
        BY <3>1, <3>3
    <2> QED
      BY <2>1, <2>2, <2>3, <2>4, <2>5
  <1> QED
    BY <1>1, <1>2, <1>4, <1>5 DEF FilesInPlace

LEMMA InterruptKeepsFiles ==
    ASSUME FilesInPlace, LoadsOneSave, Interrupt
    PROVE  FilesInPlace' /\ LoadsOneSave'
  <1>1. /\ saving # "ended" /\ ~torn /\ saving' = "ended" /\ crossed' = crossed
        /\ torn' = (saving = "remove metadata" /\ metaFile # NoFile)
        /\ graphFile' = graphFile /\ metaFile' = metaFile /\ loaded' = loaded
    BY DEF Interrupt, FilesInPlace, library
  <1>2. LoadsOneSave'
    BY <1>1 DEF LoadsOneSave
  <1>3. ~torn' /\ ~crossed => FilesAgree'
    BY <1>1 DEF FilesInPlace, FilesAgree
  <1> QED
    BY <1>1, <1>2, <1>3 DEF FilesInPlace

LEMMA LoadKeepsFiles ==
    ASSUME FilesInPlace, LoadsOneSave, NEW m \in Model, Load(m)
    PROVE  FilesInPlace' /\ LoadsOneSave'
  <1> DEFINE sl == graphFile.slots
  <1>1. /\ saving \in {"no", "ended"} /\ metaFile # NoFile /\ metaFile.model = m
        /\ graphFile # NoFile
        /\ loaded' = [slots |-> sl, lookup |-> LoadIndex(sl), ids |-> metaFile.ids,
                      model |-> graphFile.model, expected |-> m]
        /\ UNCHANGED <<slots, crossed, graphFile, metaFile, saving, model, torn>>
    BY DEF Load, MetadataMatches, library
  <1>2. FilesInPlace'
    BY <1>1 DEF FilesInPlace, FilesAgree
  <1>3. ASSUME ~torn, ~crossed
        PROVE  /\ sl \in Seq(Slot) /\ InjectiveLabels(sl)
               /\ metaFile.ids = LiveLabels(sl) /\ metaFile.model = graphFile.model
    BY <1>1, <1>3 DEF FilesInPlace, FilesAgree
  <1> HIDE DEF sl
  <1>4. ASSUME ~torn, ~crossed, NEW id \in LiveLabels(sl)
        PROVE  /\ LoadIndex(sl)[id] \in 1..Len(sl)
               /\ sl[LoadIndex(sl)[id]].label = id
               /\ ~sl[LoadIndex(sl)[id]].deleted
    <2>1. PICK t \in 1..Len(sl) : sl[t].label = id /\ ~sl[t].deleted
      BY <1>4 DEF LiveLabels
    <2>2. LoadIndex(sl)[sl[t].label] = t
      BY <1>3, <1>4, LoadIndexFinds
    <2> QED
      BY <2>1, <2>2
  <1>5. LoadsOneSave'
    BY <1>1, <1>3, <1>4 DEF LoadsOneSave
  <1> QED
    BY <1>2, <1>5

\* The inductive invariant of the two indexes and of the files of a save.
THEOREM HnswInvariant == HnswSpec => []HnswInv
  <1>1. HnswInit => HnswInv
    <2> SUFFICES ASSUME HnswInit PROVE HnswInv
      OBVIOUS
    <2>1. IndexTablesInv
      BY DEF HnswInit, Init, IndexTablesInv, TypeOK, TablesAgree, Stored, NotFound
    <2>2. Stored = {}
      BY DEF HnswInit, Init, Stored
    <2>3. slots = << >> /\ lookup = [id \in Id |-> NoSlot] /\ activeIds = {} /\ ~crossed
      BY DEF HnswInit
    <2>4. slots \in Seq(Slot) /\ Len(slots) = 0
      BY <2>3
    <2>5. LibraryType
      <3>1. crossed \in BOOLEAN
        BY DEF HnswInit
      <3>2. lookup \in [Id -> Nat] /\ \A id \in Id : lookup[id] = NoSlot
        BY <2>3 DEF NoSlot
      <3>3. activeIds = Stored
        BY <2>2, <2>3
      <3> QED
        BY <2>4, <3>1, <3>2, <3>3 DEF LibraryType
    <2>6. SlotsPaired
      BY <2>2, <2>3, <2>4 DEF SlotsPaired, IsLive
    <2>7. FilesAgree
      <3>1. CASE graphFile = NoFile
        BY <3>1 DEF FilesAgree
      <3>2. CASE \E e \in Earlier :
                    /\ graphFile = e
                    /\ metaFile = [ids |-> LiveLabels(e.slots), model |-> e.model]
        <4>1. PICK e \in Earlier :
                    /\ graphFile = e
                    /\ metaFile = [ids |-> LiveLabels(e.slots), model |-> e.model]
          BY <3>2
        <4>2. e.slots \in Seq(Slot) /\ InjectiveLabels(e.slots)
          BY HnswAssumption DEF InjectiveLabels, Slot
        <4> QED
          BY <4>1, <4>2 DEF FilesAgree
      <3> QED
        BY <3>1, <3>2 DEF HnswInit
    <2>8. FilesInPlace /\ LoadsOneSave
      BY <2>7 DEF HnswInit, FilesInPlace, LoadsOneSave
    <2> QED
      BY <2>1, <2>5, <2>6, <2>8 DEF HnswInv
  <1>2. HnswInv /\ [HnswNext]_hnswVars => HnswInv'
    <2> SUFFICES ASSUME HnswInv, [HnswNext]_hnswVars PROVE HnswInv'
      OBVIOUS
    <2>1. /\ IndexTablesInv /\ LibraryType /\ FilesInPlace /\ LoadsOneSave
          /\ ~crossed => SlotsPaired
      BY DEF HnswInv
    <2>2. IndexTablesInv'
      BY <2>1, StepOfBaseline, TablesKept
    <2>3. ASSUME NEW id \in Id, NEW v \in Vec, UpsertBoth(id, v) PROVE HnswInv'
      <3>1. LibraryType' /\ (~crossed' => SlotsPaired')
        BY <2>1, <2>3, UpsertKeepsSlots
      <3>2. FilesInPlace' /\ LoadsOneSave'
        BY <2>1, <2>3, CrossedStays, DiskKept DEF UpsertBoth
      <3> QED
        BY <2>2, <3>1, <3>2 DEF HnswInv
    <2>4. ASSUME NEW id \in Id, EraseBoth(id) PROVE HnswInv'
      <3>1. LibraryType' /\ (~crossed' => SlotsPaired')
        BY <2>1, <2>4, EraseKeepsSlots
      <3>2. FilesInPlace' /\ LoadsOneSave'
        BY <2>1, <2>4, CrossedStays, DiskKept DEF EraseBoth
      <3> QED
        BY <2>2, <3>1, <3>2 DEF HnswInv
    <2>5. CASE StartSave \/ RemoveGraph \/ RenameGraph \/ RemoveMetadata \/ RenameMetadata
      <3>1. UNCHANGED <<records, positions, library>>
        BY <2>5 DEF StartSave, RemoveGraph, RenameGraph, RemoveMetadata, RenameMetadata, vars
      <3> QED
        BY <2>1, <2>2, <2>5, <3>1, SlotsKept, SaveKeepsFiles DEF HnswInv
    <2>6. CASE Interrupt
      BY <2>1, <2>2, <2>6, SlotsKept, InterruptKeepsFiles DEF HnswInv, Interrupt, vars
    <2>7. ASSUME NEW m \in Model, Load(m) PROVE HnswInv'
      BY <2>1, <2>2, <2>7, SlotsKept, LoadKeepsFiles DEF HnswInv, Load, vars
    <2>8. CASE UNCHANGED hnswVars
      <3>1. crossed' = crossed /\ slots' = slots
        BY <2>8 DEF hnswVars, library
      <3> QED
        BY <2>1, <2>2, <2>8, <3>1, SlotsKept, DiskKept DEF HnswInv, hnswVars, vars
    <2>9. ASSUME NEW q \in Query, NEW k \in 0..MaxK, SearchBaseline(q, k) PROVE HnswInv'
      <3>1. UNCHANGED <<records, positions, library, disk>>
        BY <2>9 DEF SearchBaseline, Search
      <3>2. crossed' = crossed /\ slots' = slots
        BY <3>1 DEF library
      <3> QED
        BY <2>1, <2>2, <3>1, <3>2, SlotsKept, DiskKept DEF HnswInv
    <2> QED
      BY <2>3, <2>4, <2>5, <2>6, <2>7, <2>8, <2>9 DEF HnswNext, Ended
  <1> QED
    BY <1>1, <1>2, PTL DEF HnswSpec

\* With no deleted slot there are as many slots as entries.
LEMMA AllLive ==
    ASSUME LibraryType, SlotsPaired, Dead = {}
    PROVE  Len(slots) = Cardinality(Stored)
  <1> DEFINE n == Len(slots)
             label == [s \in 1..n |-> slots[s].label]
             S == Stored
  <1>1. LiveLabels(slots) = S
    BY LiveAreStored
  <1>2. \A s \in 1..n : slots[s].label \in S /\ ~slots[s].deleted
    BY <1>1 DEF LiveLabels, Dead
  <1>3. \A id \in S : \E s \in 1..n : slots[s].label = id
    BY <1>1 DEF LiveLabels
  <1>4. n \in Nat /\ \A s, t \in 1..n : slots[s].label = slots[t].label => s = t
    BY SlotFacts, LiveAreStored DEF InjectiveLabels
  <1> HIDE DEF n, S
  <1>5. label \in Bijection(1..n, S)
    BY <1>2, <1>3, <1>4 DEF Bijection, Injection, IsInjective, Surjection
  <1>6. ExistsBijection(1..n, S)
    BY <1>5 DEF ExistsBijection
  <1>7. IsFiniteSet(1..n) /\ Cardinality(1..n) = n
    BY <1>4, FS_Interval
  <1>8. Cardinality(S) = n
    BY <1>6, <1>7, FS_Bijection
  <1> QED
    BY <1>8 DEF n, S

\* Until an id is added while another deleted slot carries its label, the
\* HNSW index holds what a map would hold, finds it, and never runs out of
\* room on deleted slots.
THEOREM BackendsHoldTheSame == HnswSpec => []BackendsAgree
  <1>1. HnswInv => BackendsAgree
    <2> SUFFICES ASSUME HnswInv, ~crossed PROVE BackendsAgree
      BY DEF BackendsAgree
    <2>1. LibraryType /\ SlotsPaired /\ activeIds = Stored /\ BaselineMap = Entries
      BY MapOfBaseline DEF HnswInv, LibraryType
    <2>2. ASSUME NEW id \in Stored
          PROVE  /\ id \in Id /\ lookup[id] \in 1..Len(slots) /\ IsLive(id)
                 /\ slots[lookup[id]].label = id
                 /\ slots[lookup[id]].vec = Entries[id]
      BY <2>1, <2>2 DEF SlotsPaired, LibraryType, IsLive, Stored
    <2>3. LivePoints = {<<id, Entries[id]>> : id \in Stored}
      <3>1. ASSUME NEW s \in (1..Len(slots)) \ Dead
            PROVE  slots[s].label \in Stored /\ slots[s].vec = Entries[slots[s].label]
        BY <2>1, <3>1, SlotFacts DEF Dead, SlotsPaired, IsLive, NoSlot
      <3>2. ASSUME NEW id \in Stored PROVE lookup[id] \in (1..Len(slots)) \ Dead
        BY <2>2, <3>2 DEF Dead, IsLive
      <3> QED
        BY <2>2, <3>1, <3>2 DEF LivePoints
    <2>4. ASSUME NEW id \in Id \ activeIds, Cardinality(activeIds) < MaxElements
          PROVE  Accepts(id, IsNewOrReactivated(id))
      <3>1. CASE Dead # {}
        BY <2>4, <3>1 DEF Accepts, IsNewOrReactivated
      <3>2. CASE Dead = {}
        <4>1. lookup[id] = NoSlot
          BY <2>1, <2>4, <3>2 DEF SlotsPaired, LibraryType, IsLive, Dead
        <4>2. Len(slots) < MaxElements
          BY <2>1, <2>4, <3>2, AllLive
        <4> QED
          BY <3>2, <4>1, <4>2 DEF Accepts
      <3> QED
        BY <3>1, <3>2
    <2> QED
      BY <2>1, <2>2, <2>3, <2>4 DEF BackendsAgree
  <1> QED
    BY <1>1, HnswInvariant, PTL

\* Under the same proviso, and unless a save was cut off between its renames,
\* load() returns the ids and the slots of one save, of the model it was
\* asked for, and finds each id at its slot.
THEOREM LoadReturnsOneSave == HnswSpec => []LoadsOneSave
  <1>1. HnswInv => LoadsOneSave
    BY DEF HnswInv
  <1> QED
    BY <1>1, HnswInvariant, PTL
=============================================================================
