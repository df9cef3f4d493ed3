------------------------------ MODULE LruProofs ------------------------------
(***************************************************************************)
(* Proofs about Lru, for any set of keys, any sizes and any threads, also  *)
(* infinitely many of each.  The invariant Inv relates the list to the     *)
(* true order of use: the list is that order with the entries that are     *)
(* gone left out.  Sequences of keys are compared by what comes before     *)
(* what (Before), which the operations change in simple ways.              *)
(***************************************************************************)
EXTENDS Lru, SequenceTheorems, FiniteSetTheorems, TLAPS

\* s holds nothing twice.
Distinct(s) == \A i, j \in 1..Len(s) : s[i] = s[j] => i = j

Elements(s) == {s[i] : i \in 1..Len(s)}

\* a comes before b in s.
Before(s, a, b) == \E i, j \in 1..Len(s) : i < j /\ s[i] = a /\ s[j] = b

-----------------------------------------------------------------------------
(* What the operators on lists do.                                         *)

\* A list that holds nothing twice has as many entries as elements.
LEMMA LengthIsCount ==
  ASSUME NEW S, NEW s \in Seq(S), Distinct(s)
  PROVE  /\ IsFiniteSet(Elements(s))
         /\ Cardinality(Elements(s)) = Len(s)
<1>1. Len(s) \in Nat /\ s \in [1..Len(s) -> Elements(s)]
  BY LenProperties DEF Elements
<1>2. s \in Bijection(1..Len(s), Elements(s))
  BY <1>1 DEF Distinct, Elements, Bijection, Injection, Surjection, IsInjective
<1>3. IsFiniteSet(1..Len(s)) /\ Cardinality(1..Len(s)) = Len(s)
  BY <1>1, FS_Interval
<1> QED
  BY <1>2, <1>3, FS_Bijection DEF ExistsBijection

\* Without takes its key out of a list and leaves the rest in its order.
LEMMA WithoutKey ==
  ASSUME NEW S, NEW s \in Seq(S), Distinct(s), NEW k
  PROVE  /\ Without(s, k) \in Seq(S)
         /\ Distinct(Without(s, k))
         /\ Elements(Without(s, k)) = Elements(s) \ {k}
         /\ \A a, b : Before(Without(s, k), a, b)
                        <=> Before(s, a, b) /\ a # k /\ b # k
<1> DEFINE here == {i \in 1..Len(s) : s[i] = k}
           at == CHOOSE i \in here : TRUE
           w == [i \in 1..Len(s)-1 |-> IF i < at THEN s[i] ELSE s[i+1]]
<1>0. Len(s) \in Nat /\ \A i \in 1..Len(s) : s[i] \in S
  BY LenProperties, ElementOfSeq
<1>1. CASE here = {}
  <2>1. Without(s, k) = s
    BY <1>1 DEF Without
  <2>2. k \notin Elements(s)
    BY <1>1 DEF Elements
  <2>3. \A a, b : Before(s, a, b) => a # k /\ b # k
    BY <1>1 DEF Before
  <2> QED BY <2>1, <2>2, <2>3
<1>2. CASE here # {}
  <2>1. Without(s, k) = w
    BY <1>2 DEF Without
  <2>2. at \in 1..Len(s) /\ s[at] = k
    BY <1>2
  <2>3. \A i \in 1..Len(s) : s[i] = k <=> i = at
    BY <2>2 DEF Distinct
  <2> HIDE DEF at
  <2>4. Len(s) - 1 \in Nat
    BY <2>2, <1>0
  <2>5. \A i \in 1..Len(s)-1 : w[i] \in S
    BY <1>0, <2>2
  <2>6. w \in Seq(S) /\ Len(w) = Len(s) - 1
    BY <2>4, <2>5, LenProperties
  <2>7. \A i \in 1..Len(w) : w[i] = s[IF i < at THEN i ELSE i + 1]
    BY <2>6
  <2> HIDE DEF w
  \* from a place in s to the place in w, and back
  <2> DEFINE to(i) == IF i < at THEN i ELSE i - 1
             from(i) == IF i < at THEN i ELSE i + 1
  <2>8. \A i \in 1..Len(w) : /\ from(i) \in 1..Len(s)
                             /\ from(i) # at
                             /\ w[i] = s[from(i)]
                             /\ to(from(i)) = i
    BY <1>0, <2>2, <2>6, <2>7
  <2>9. ASSUME NEW i \in 1..Len(s), i # at
        PROVE  to(i) \in 1..Len(w) /\ w[to(i)] = s[i]
    <3>1. CASE i < at
      <4>1. to(i) = i
        BY <3>1
      <4>2. i \in 1..Len(w)
        BY <1>0, <2>2, <2>6, <3>1
      <4> QED BY <2>7, <3>1, <4>1, <4>2
    <3>2. CASE ~(i < at)
      <4>1. to(i) = i - 1
        BY <3>2
      <4>2. i - 1 \in 1..Len(w) /\ ~(i - 1 < at) /\ (i - 1) + 1 = i
        BY <1>0, <2>2, <2>6, <2>9, <3>2
      <4>3. w[i - 1] = s[(i - 1) + 1]
        BY <2>7, <4>2
      <4> QED BY <4>1, <4>2, <4>3
    <3> QED BY <3>1, <3>2
  <2>10. \A i, j \in 1..Len(w) : i < j => from(i) < from(j)
    BY <1>0, <2>2, <2>6
  <2>11. \A i, j \in 1..Len(s) : i < j /\ i # at /\ j # at => to(i) < to(j)
    BY <1>0, <2>2
  <2> HIDE DEF to, from
  <2>12. Distinct(w)
    BY <2>8 DEF Distinct
  <2>13. Elements(w) = Elements(s) \ {k}
    BY <2>3, <2>8, <2>9 DEF Elements
  <2>14. ASSUME NEW a, NEW b
         PROVE  Before(w, a, b) <=> Before(s, a, b) /\ a # k /\ b # k
    <3>1. Before(w, a, b) => Before(s, a, b) /\ a # k /\ b # k
      BY <2>3, <2>8, <2>10 DEF Before
    <3>2. Before(s, a, b) /\ a # k /\ b # k => Before(w, a, b)
      BY <2>2, <2>9, <2>11 DEF Before
    <3> QED BY <3>1, <3>2
  <2> QED BY <2>1, <2>6, <2>12, <2>13, <2>14
<1> QED BY <1>1, <1>2

\* Append puts a new key behind all others.
LEMMA AppendKey ==
  ASSUME NEW S, NEW s \in Seq(S), Distinct(s), NEW k \in S, k \notin Elements(s)
  PROVE  /\ Append(s, k) \in Seq(S)
         /\ Distinct(Append(s, k))
         /\ Elements(Append(s, k)) = Elements(s) \cup {k}
         /\ \A a, b : Before(Append(s, k), a, b)
                        <=> Before(s, a, b) \/ (a \in Elements(s) /\ b = k)
<1> DEFINE t == Append(s, k)
<1>1. /\ t \in Seq(S) /\ Len(t) = Len(s) + 1 /\ Len(s) \in Nat
      /\ \A i \in 1..Len(s) : t[i] = s[i]
      /\ t[Len(s) + 1] = k
  BY AppendProperties, LenProperties
<1> HIDE DEF t
<1>2. \A i \in 1..Len(t) : i \in 1..Len(s) \/ i = Len(s) + 1
  BY <1>1
<1>3. \A i \in 1..Len(s) : i \in 1..Len(t) /\ i < Len(t) /\ i # Len(t)
  BY <1>1
<1>4. Len(t) \in 1..Len(t) /\ t[Len(t)] = k
  BY <1>1
<1>5. \A i \in 1..Len(s) : s[i] # k
  BY DEF Elements
<1>6. Distinct(t)
  BY <1>1, <1>2, <1>5 DEF Distinct
<1>7. Elements(t) = Elements(s) \cup {k}
  BY <1>1, <1>2, <1>3, <1>4 DEF Elements
<1>8. ASSUME NEW a, NEW b
      PROVE  Before(t, a, b) <=> Before(s, a, b) \/ (a \in Elements(s) /\ b = k)
  <2>1. Before(t, a, b) => Before(s, a, b) \/ (a \in Elements(s) /\ b = k)
    BY <1>1, <1>2 DEF Before, Elements
  <2>2. Before(s, a, b) => Before(t, a, b)
    BY <1>1, <1>3 DEF Before
  <2>3. a \in Elements(s) /\ b = k => Before(t, a, b)
    BY <1>1, <1>3, <1>4 DEF Before, Elements
  <2> QED BY <2>1, <2>2, <2>3
<1> QED BY <1>1, <1>6, <1>7, <1>8 DEF t

\* Touched makes its key the last.
LEMMA TouchedKey ==
  ASSUME NEW S, NEW s \in Seq(S), Distinct(s), NEW k \in S
  PROVE  /\ Touched(s, k) \in Seq(S)
         /\ Distinct(Touched(s, k))
         /\ Elements(Touched(s, k)) = Elements(s) \cup {k}
         /\ \A a, b : Before(Touched(s, k), a, b)
                        <=> \/ Before(s, a, b) /\ a # k /\ b # k
                            \/ a \in Elements(s) \ {k} /\ b = k
<1> DEFINE w == Without(s, k)
<1>1. /\ w \in Seq(S) /\ Distinct(w) /\ Elements(w) = Elements(s) \ {k}
      /\ \A a, b : Before(w, a, b) <=> Before(s, a, b) /\ a # k /\ b # k
  BY WithoutKey
<1> HIDE DEF w
<1>2. k \notin Elements(w)
  BY <1>1
<1>3. /\ Append(w, k) \in Seq(S)
      /\ Distinct(Append(w, k))
      /\ Elements(Append(w, k)) = Elements(w) \cup {k}
      /\ \A a, b : Before(Append(w, k), a, b)
                     <=> Before(w, a, b) \/ (a \in Elements(w) /\ b = k)
  BY <1>1, <1>2, AppendKey
<1>4. Touched(s, k) = Append(w, k)
  BY DEF Touched, w
<1> QED BY <1>1, <1>3, <1>4

\* SubSeq drops the first keys and leaves the rest in its order.
LEMMA DropKeys ==
  ASSUME NEW S, NEW s \in Seq(S), Distinct(s), NEW n \in 0..Len(s)
  PROVE  LET t == SubSeq(s, n + 1, Len(s)) IN
         /\ t \in Seq(S) /\ Distinct(t) /\ Len(t) = Len(s) - n
         /\ Elements(t) = Elements(s) \ {s[i] : i \in 1..n}
         /\ \A a, b : Before(t, a, b) => Before(s, a, b)
         /\ \A a \in Elements(s), b \in Elements(t) : a \notin Elements(t) => Before(s, a, b)
<1> DEFINE t == SubSeq(s, n + 1, Len(s))
<1>0. Len(s) \in Nat /\ n \in Nat /\ n <= Len(s)
  BY LenProperties
<1>1. t \in Seq(S)
  BY <1>0, SubSeqProperties
<1>2. Len(t) = Len(s) - n
  BY <1>0, SubSeqProperties
<1>3. \A i \in 1..Len(t) : t[i] = s[i + n]
  BY <1>0, <1>2, SubSeqProperties
<1> HIDE DEF t
<1>4. \A i \in 1..Len(t) : i + n \in (n+1)..Len(s) /\ i + n \in 1..Len(s)
  BY <1>0, <1>2
<1>5. \A i \in (n+1)..Len(s) : i - n \in 1..Len(t) /\ t[i - n] = s[i] /\ i \in 1..Len(s)
  BY <1>0, <1>2, <1>3
<1>6. \A i \in 1..Len(s) : i \in 1..n \/ i \in (n+1)..Len(s)
  BY <1>0
<1>7. \A i \in 1..n, j \in (n+1)..Len(s) : i # j /\ i < j /\ i \in 1..Len(s)
  BY <1>0
<1>8. Distinct(t)
  BY <1>0, <1>2, <1>3, <1>4 DEF Distinct
<1>9. Elements(t) = Elements(s) \ {s[i] : i \in 1..n}
  <2>1. ASSUME NEW i \in 1..Len(t) PROVE t[i] \in Elements(s) \ {s[j] : j \in 1..n}
    BY <1>3, <1>4, <1>7 DEF Distinct, Elements
  <2>2. ASSUME NEW i \in 1..Len(s), s[i] \notin {s[j] : j \in 1..n} PROVE s[i] \in Elements(t)
    BY <2>2, <1>5, <1>6 DEF Elements
  <2> QED BY <2>1, <2>2 DEF Elements
<1>10. ASSUME NEW a, NEW b, Before(t, a, b) PROVE Before(s, a, b)
  <2>1. PICK i, j \in 1..Len(t) : i < j /\ t[i] = a /\ t[j] = b
    BY <1>10 DEF Before
  <2>2. i + n < j + n
    BY <2>1, <1>0
  <2> QED BY <2>1, <2>2, <1>3, <1>4 DEF Before
<1>11. ASSUME NEW a \in Elements(s), NEW b \in Elements(t), a \notin Elements(t)
       PROVE  Before(s, a, b)
  <2>1. PICK i \in 1..Len(s) : s[i] = a
    BY DEF Elements
  <2>2. i \in 1..n
    BY <2>1, <1>5, <1>6, <1>11 DEF Elements
  <2>3. PICK j \in 1..Len(t) : t[j] = b
    BY DEF Elements
  <2>4. j + n \in (n+1)..Len(s) /\ s[j + n] = b
    BY <2>3, <1>3, <1>4
  <2> QED BY <2>1, <2>2, <2>4, <1>5, <1>7 DEF Before
<1> QED BY <1>1, <1>2, <1>8, <1>9, <1>10, <1>11 DEF t

\* Position compares as Before does.
LEMMA PositionIsBefore ==
  ASSUME NEW S, NEW s \in Seq(S), Distinct(s), NEW a, NEW b, Before(s, a, b)
  PROVE  Position(s, a) < Position(s, b)
<1>1. PICK i, j \in 1..Len(s) : i < j /\ s[i] = a /\ s[j] = b
  BY DEF Before
<1>2. Position(s, a) = i
  BY <1>1 DEF Position, Distinct
<1>3. Position(s, b) = j
  BY <1>1 DEF Position, Distinct
<1> QED BY <1>1, <1>2, <1>3

-----------------------------------------------------------------------------
(* The invariant.                                                          *)

EntryTypes ==
  /\ order \in Seq(Keys)
  /\ size \in Sizes
  /\ used \in Seq(Keys)

\* The list holds the keys of the map, each once.
ListIsMap ==
  /\ Distinct(order)
  /\ queue = Elements(order)

\* The list is in the order of the last uses.
ListIsRecency ==
  /\ Distinct(used)
  /\ Elements(order) \subseteq Elements(used)
  /\ \A a, b : Before(order, a, b) => Before(used, a, b)

Entries == EntryTypes /\ ListIsMap /\ ListIsRecency /\ WithinSize

CallTypes ==
  /\ pc \in [Threads -> {"idle", "awake", "asleep", "expired"}]
  /\ call \in [Threads -> [op : Ops \cup {"none"}, key : Keys \cup {0}, before : Nat]]
  /\ \A t \in Threads : call[t].op \in {"wait", "find", "append"} => call[t].key \in Keys
  /\ \A t \in Threads : pc[t] # "idle" => call[t].op # "none"

Inv == Entries /\ CallTypes /\ NobodySleepsOverEntry

\* The map is finite, however many keys there are.
LEMMA MapIsFinite ==
  ASSUME Entries
  PROVE  /\ IsFiniteSet(queue)
         /\ Cardinality(queue) = Len(order)
         /\ Cardinality(queue) \in Nat
         /\ queue \subseteq Keys
         /\ size \in Nat
<1>1. order \in Seq(Keys) /\ Distinct(order) /\ queue = Elements(order)
  BY DEF Entries, EntryTypes, ListIsMap
<1>2. IsFiniteSet(queue) /\ Cardinality(queue) = Len(order)
  BY <1>1, LengthIsCount
<1>3. Len(order) \in Nat /\ \A i \in 1..Len(order) : order[i] \in Keys
  BY <1>1, LenProperties, ElementOfSeq
<1>4. queue \subseteq Keys
  BY <1>1, <1>3 DEF Elements
<1>5. size \in Nat
  BY LruAssumption DEF Entries, EntryTypes
<1> QED BY <1>2, <1>3, <1>4, <1>5

\* resize leaves at most n entries, and those that were used last.
LEMMA ShrinkKeepsLast ==
  ASSUME NEW s \in Seq(Keys), Distinct(s), NEW n \in Nat,
         Shrink(Elements(s), s, n)
  PROVE  /\ order' \in Seq(Keys) /\ Distinct(order')
         /\ queue' = Elements(order')
         /\ Cardinality(queue') = Len(s) - Excess(Elements(s), n)
         /\ Cardinality(queue') <= n
         /\ queue' \subseteq Elements(s)
         /\ Len(s) <= n => queue' = Elements(s)
         /\ \A a, b : Before(order', a, b) => Before(s, a, b)
         /\ \A a \in Elements(s) \ queue', b \in queue' : Before(s, a, b)
<1> DEFINE e == Excess(Elements(s), n)
<1>1. Cardinality(Elements(s)) = Len(s) /\ Len(s) \in Nat
  BY LengthIsCount, LenProperties
<1>2. e = IF Len(s) > n THEN Len(s) - n ELSE 0
  BY <1>1 DEF Excess
<1>3. e \in 0..Len(s) /\ Len(s) - e <= n
  BY <1>1, <1>2
<1> HIDE DEF e
<1>4. order' = SubSeq(s, e + 1, Len(s)) /\ queue' = Elements(s) \ {s[i] : i \in 1..e}
  BY DEF Shrink, e
<1>5. /\ order' \in Seq(Keys) /\ Distinct(order') /\ Len(order') = Len(s) - e
      /\ queue' = Elements(order')
      /\ \A a, b : Before(order', a, b) => Before(s, a, b)
      /\ \A a \in Elements(s), b \in queue' : a \notin queue' => Before(s, a, b)
  BY <1>3, <1>4, DropKeys
<1>6. Cardinality(queue') = Len(order')
  BY <1>5, LengthIsCount
<1>7. Len(s) <= n => queue' = Elements(s)
  <2>1. Len(s) <= n => 1..e = {}
    BY <1>1, <1>2
  <2> QED BY <2>1, <1>4
<1> QED BY <1>3, <1>4, <1>5, <1>6, <1>7 DEF e

\* fetch keeps the invariant of the entries, and the entries.
LEMMA UseKeeps ==
  ASSUME Entries, NEW k \in queue, Use(k)
  PROVE  Entries' /\ queue' = queue
<1>1. k \in Keys
  BY MapIsFinite
<1>2. /\ order' \in Seq(Keys) /\ Distinct(order')
      /\ Elements(order') = Elements(order) \cup {k}
      /\ \A a, b : Before(order', a, b)
                     <=> \/ Before(order, a, b) /\ a # k /\ b # k
                         \/ a \in Elements(order) \ {k} /\ b = k
  BY <1>1, TouchedKey DEF Use, Entries, EntryTypes, ListIsMap
<1>3. /\ used' \in Seq(Keys) /\ Distinct(used')
      /\ Elements(used') = Elements(used) \cup {k}
      /\ \A a, b : Before(used', a, b)
                     <=> \/ Before(used, a, b) /\ a # k /\ b # k
                         \/ a \in Elements(used) \ {k} /\ b = k
  BY <1>1, TouchedKey DEF Use, Entries, EntryTypes, ListIsRecency
<1>4. queue' = queue /\ size' = size
  BY DEF Use
<1>5. \A a, b : Before(order', a, b) => Before(used', a, b)
  BY <1>2, <1>3 DEF Entries, ListIsRecency
<1> QED
  BY <1>2, <1>3, <1>4, <1>5
     DEF Entries, EntryTypes, ListIsMap, ListIsRecency, WithinSize

\* append keeps the invariant of the entries; only a full lru loses any, and
\* then the one used least recently.
LEMMA PutKeeps ==
  ASSUME Entries, NEW k \in Keys, Put(k), size' = size
  PROVE  /\ Entries'
         /\ Cardinality(queue) <= Cardinality(queue')
         /\ HasRoom => queue \subseteq queue'
         /\ queue' \subseteq queue => queue' = queue
         /\ \A gone \in queue \ queue', kept \in queue \cap queue' :
              Before(used, gone, kept)
<1>1. /\ used' \in Seq(Keys) /\ Distinct(used')
      /\ Elements(used') = Elements(used) \cup {k}
      /\ \A a, b : Before(used', a, b)
                     <=> \/ Before(used, a, b) /\ a # k /\ b # k
                         \/ a \in Elements(used) \ {k} /\ b = k
  BY TouchedKey DEF Put, Entries, EntryTypes, ListIsRecency
<1>2. CASE k \in queue
  <2>1. Use(k)
    BY <1>2 DEF Put, Use
  <2> QED BY <1>2, <2>1, UseKeeps, MapIsFinite
<1>3. CASE k \notin queue
  <2>0. k \notin Elements(order)
    BY <1>3 DEF Entries, ListIsMap
  <2>1. /\ Append(order, k) \in Seq(Keys)
        /\ Distinct(Append(order, k))
        /\ Elements(Append(order, k)) = Elements(order) \cup {k}
        /\ \A a, b : Before(Append(order, k), a, b)
                       <=> Before(order, a, b) \/ (a \in Elements(order) /\ b = k)
    BY <2>0, AppendKey DEF Entries, EntryTypes, ListIsMap
  <2>2. Len(Append(order, k)) = Cardinality(queue) + 1
    BY AppendProperties, MapIsFinite DEF Entries, EntryTypes
  <2>3. Shrink(Elements(Append(order, k)), Append(order, k), size)
    BY <1>3, <2>1 DEF Put, Entries, ListIsMap
  <2> DEFINE t == Append(order, k)
  <2> HIDE DEF t
  <2>4. /\ order' \in Seq(Keys) /\ Distinct(order')
        /\ queue' = Elements(order')
        /\ Cardinality(queue') = Len(t) - Excess(Elements(t), size)
        /\ Cardinality(queue') <= size
        /\ queue' \subseteq Elements(t)
        /\ Len(t) <= size => queue' = Elements(t)
        /\ \A a, b : Before(order', a, b) => Before(t, a, b)
        /\ \A a \in Elements(t) \ queue', b \in queue' : Before(t, a, b)
    BY <2>1, <2>3, MapIsFinite, ShrinkKeepsLast DEF t
  <2>5. Cardinality(Elements(t)) = Len(t)
    BY <2>1, LengthIsCount DEF t
  <2>6. Cardinality(queue) <= Cardinality(queue')
    BY <2>2, <2>4, <2>5, MapIsFinite DEF t, Excess, Entries, WithinSize
  <2>7. HasRoom => queue' = queue \cup {k}
    BY <2>1, <2>2, <2>4, MapIsFinite DEF t, HasRoom, Entries, ListIsMap
  <2>8. queue' \subseteq queue \cup {k}
    BY <2>1, <2>4 DEF t, Entries, ListIsMap
  <2>9. queue' \subseteq queue => queue' = queue
    <3> SUFFICES ASSUME queue' \subseteq queue PROVE queue' = queue
      OBVIOUS
    <3>1. /\ IsFiniteSet(queue')
          /\ Cardinality(queue') <= Cardinality(queue)
          /\ Cardinality(queue) = Cardinality(queue') => queue = queue'
      BY FS_Subset, MapIsFinite
    <3>2. Cardinality(queue') \in Nat /\ Cardinality(queue) \in Nat
      BY <3>1, FS_CardinalityType, MapIsFinite
    <3> QED BY <3>1, <3>2, <2>6
  <2>10. \A a, b : Before(order', a, b) => Before(used', a, b)
    <3>1. \A a, b : Before(order, a, b) => a # k /\ b # k
      BY <2>0 DEF Before, Elements
    <3> QED BY <3>1, <2>0, <2>1, <2>4, <1>1 DEF t, Entries, ListIsRecency
  <2>11. \A gone \in queue \ queue', kept \in queue \cap queue' : Before(used, gone, kept)
    BY <2>0, <2>1, <2>4 DEF t, Entries, ListIsMap, ListIsRecency
  <2>12. Entries'
    BY <1>1, <2>1, <2>4, <2>8, <2>10
       DEF t, Entries, EntryTypes, ListIsMap, ListIsRecency, WithinSize
  <2> QED BY <2>6, <2>7, <2>9, <2>11, <2>12
<1> QED BY <1>2, <1>3

\* remove and clear keep the invariant of the entries.
LEMMA RemoveKeeps ==
  ASSUME Entries, NEW k \in Keys, Remove(k)
  PROVE  Entries' /\ queue' \subseteq queue
<1>1. /\ order' \in Seq(Keys) /\ Distinct(order')
      /\ Elements(order') = Elements(order) \ {k}
      /\ \A a, b : Before(order', a, b) => Before(order, a, b)
  BY WithoutKey DEF Remove, Entries, EntryTypes, ListIsMap
<1>2. queue' = queue \ {k} /\ used' = used /\ size' = size
  BY DEF Remove
<1>3. Cardinality(queue') <= Cardinality(queue) /\ Cardinality(queue') \in Nat
  BY <1>2, FS_Subset, FS_CardinalityType, MapIsFinite
<1>4. WithinSize'
  BY <1>2, <1>3, MapIsFinite DEF Entries, WithinSize
<1> QED
  BY <1>1, <1>2, <1>4 DEF Entries, EntryTypes, ListIsMap, ListIsRecency

\* clear leaves nothing.
LEMMA ClearKeeps ==
  ASSUME Entries, Clear
  PROVE  Entries' /\ queue' = {}
<1>1. order' = <<>> /\ queue' = {} /\ used' = used /\ size' = size
  BY DEF Clear
<1>2. /\ order' \in Seq(Keys) /\ Distinct(order') /\ Elements(order') = {}
      /\ \A a, b : ~Before(order', a, b)
  BY <1>1 DEF Distinct, Elements, Before
<1>3. WithinSize'
  BY <1>1, FS_EmptySet, MapIsFinite DEF WithinSize
<1> QED
  BY <1>1, <1>2, <1>3 DEF Entries, EntryTypes, ListIsMap, ListIsRecency

\* resize keeps the invariant of the entries, and those used last.
LEMMA ResizeKeeps ==
  ASSUME Entries, NEW n \in Sizes, Resize(n)
  PROVE  /\ Entries'
         /\ queue' \subseteq queue
         /\ \A gone \in queue \ queue', kept \in queue \cap queue' :
              Before(used, gone, kept)
<1>1. n \in Nat /\ Shrink(Elements(order), order, n) /\ used' = used /\ size' = n
  BY LruAssumption DEF Resize, Entries, ListIsMap
<1>2. /\ order' \in Seq(Keys) /\ Distinct(order')
      /\ queue' = Elements(order')
      /\ Cardinality(queue') <= n
      /\ queue' \subseteq Elements(order)
      /\ \A a, b : Before(order', a, b) => Before(order, a, b)
      /\ \A a \in Elements(order) \ queue', b \in queue' : Before(order, a, b)
  BY <1>1, ShrinkKeepsLast DEF Entries, EntryTypes, ListIsMap
<1> QED
  BY <1>1, <1>2 DEF Entries, EntryTypes, ListIsMap, ListIsRecency, WithinSize


\* Every step keeps the invariant of the entries.
LEMMA EntriesStep == Entries /\ CallTypes /\ [Next]_vars => Entries'
<1> SUFFICES ASSUME Entries, CallTypes, [Next]_vars PROVE Entries'
  OBVIOUS
<1>0. UNCHANGED entries => Entries'
  BY DEF entries, Entries, EntryTypes, ListIsMap, ListIsRecency, WithinSize
<1>1. ASSUME NEW k \in Keys, AppendEntry(k) PROVE Entries'
  BY <1>1, PutKeeps DEF AppendEntry
<1>2. ASSUME NEW k \in Keys, Fetch(k) PROVE Entries'
  BY <1>2, UseKeeps DEF Fetch
<1>3. ASSUME NEW k \in Keys, Remove(k) PROVE Entries'
  BY <1>3, RemoveKeeps
<1>4. ASSUME NEW u \in Keys, NEW l \in Keys, HighestInRange(u, l) PROVE Entries'
  BY <1>4, UseKeeps DEF HighestInRange
<1>5. CASE Clear
  BY <1>5, ClearKeeps
<1>6. ASSUME NEW n \in Sizes, Resize(n) PROVE Entries'
  BY <1>6, ResizeKeeps
<1>7. ASSUME NEW t \in Threads, Succeed(t) PROVE Entries'
  <2>1. CASE call[t].op = "wait" /\ Use(call[t].key)
    <3>1. call[t].key \in queue
      BY <1>7, <2>1 DEF Succeed, Satisfied
    <3> QED BY <2>1, <3>1, UseKeeps
  <2> QED BY <1>0, <1>7, <2>1 DEF Succeed
<1>8. ASSUME NEW t \in Threads, AppendIfNotFull(t) PROVE Entries'
  BY <1>8, PutKeeps DEF AppendIfNotFull, CallTypes
<1>9. ASSUME NEW t \in Threads,
             \/ \E op \in Ops, k \in Keys \cup {0} : Enter(t, op, k)
             \/ Sleep(t) \/ Expire(t) \/ SpuriousWake(t) \/ GiveUp(t)
      PROVE  Entries'
  BY <1>0, <1>9 DEF Enter, Sleep, Expire, SpuriousWake, GiveUp
<1>10. CASE UNCHANGED vars
  BY <1>0, <1>10 DEF vars, entries
<1> QED
  BY <1>1, <1>2, <1>3, <1>4, <1>5, <1>6, <1>7, <1>8, <1>9, <1>10 DEF Next

\* Notifying moves sleepers to awake and nobody else.
LEMMA NotifiedTypes ==
  ASSUME CallTypes, NEW ops
  PROVE  /\ Notified(ops) \in [Threads -> {"idle", "awake", "asleep", "expired"}]
         /\ \A t \in Threads : Notified(ops)[t] = "asleep"
                                 => pc[t] = "asleep" /\ call[t].op \notin ops
         /\ \A t \in Threads : Notified(ops)[t] # "idle" => pc[t] # "idle"
BY DEF CallTypes, Notified

\* Every step keeps the types of the calls.
LEMMA CallTypesStep == Entries /\ CallTypes /\ [Next]_vars => CallTypes'
<1> SUFFICES ASSUME Entries, CallTypes, [Next]_vars PROVE CallTypes'
  OBVIOUS
<1>1. ASSUME NEW k \in Keys, AppendEntry(k) PROVE CallTypes'
  BY <1>1, NotifiedTypes DEF AppendEntry, CallTypes, CondNotified
<1>2. ASSUME NEW k \in Keys, Fetch(k) PROVE CallTypes'
  BY <1>2 DEF Fetch, CallTypes
<1>3. ASSUME NEW k \in Keys, Remove(k) PROVE CallTypes'
  BY <1>3, NotifiedTypes DEF Remove, CallTypes, SpaceNotified
<1>4. ASSUME NEW u \in Keys, NEW l \in Keys, HighestInRange(u, l) PROVE CallTypes'
  BY <1>4 DEF HighestInRange, CallTypes
<1>5. CASE Clear
  BY <1>5, NotifiedTypes DEF Clear, CallTypes, SpaceNotified
<1>6. ASSUME NEW n \in Sizes, Resize(n) PROVE CallTypes'
  BY <1>6 DEF Resize, CallTypes
<1>7. ASSUME NEW t \in Threads, NEW op \in Ops, NEW k \in Keys \cup {0}, Enter(t, op, k)
      PROVE  CallTypes'
  <2>1. [op |-> op, key |-> k, before |-> Cardinality(queue)]
           \in [op : Ops \cup {"none"}, key : Keys \cup {0}, before : Nat]
    BY MapIsFinite
  <2>2. op \in {"wait", "find", "append"} => k \in Keys
    BY <1>7 DEF Enter
  <2>3. call' \in [Threads -> [op : Ops \cup {"none"}, key : Keys \cup {0}, before : Nat]]
    BY <1>7, <2>1 DEF Enter, CallTypes
  <2>4. \A u \in Threads : call'[u].op \in {"wait", "find", "append"} => call'[u].key \in Keys
    BY <1>7, <2>2 DEF Enter, CallTypes
  <2>5. \A u \in Threads : pc'[u] # "idle" => call'[u].op # "none"
    BY <1>7 DEF Enter, CallTypes, Ops
  <2> QED BY <1>7, <2>3, <2>4, <2>5 DEF Enter, CallTypes
<1>8. ASSUME NEW t \in Threads, NEW n \in [Threads -> {"idle", "awake", "asleep", "expired"}],
             \A u \in Threads : n[u] # "idle" => pc[u] # "idle",
             Leaves(t, n)
      PROVE  CallTypes'
  BY <1>8 DEF Leaves, CallTypes, NoCall
<1>9. ASSUME NEW t \in Threads, Succeed(t) \/ GiveUp(t) PROVE CallTypes'
  BY <1>8, <1>9 DEF Succeed, GiveUp, CallTypes
<1>10. ASSUME NEW t \in Threads, AppendIfNotFull(t) PROVE CallTypes'
  BY <1>8, <1>10, NotifiedTypes DEF AppendIfNotFull, CondNotified
<1>11. ASSUME NEW t \in Threads, Sleep(t) \/ Expire(t) \/ SpuriousWake(t) PROVE CallTypes'
  BY <1>11 DEF Sleep, Expire, SpuriousWake, CallTypes
<1>12. CASE UNCHANGED vars
  BY <1>12 DEF vars, CallTypes
<1> QED
  BY <1>1, <1>2, <1>3, <1>4, <1>5, <1>6, <1>7, <1>9, <1>10, <1>11, <1>12 DEF Next

\* Every step keeps the sleepers away from entries that are there: only
\* append adds an entry, and it wakes all who wait for one.
LEMMA SleepersStep ==
  Entries /\ CallTypes /\ NobodySleepsOverEntry /\ [Next]_vars => NobodySleepsOverEntry'
<1> SUFFICES ASSUME Entries, CallTypes, NobodySleepsOverEntry, [Next]_vars
             PROVE  NobodySleepsOverEntry'
  OBVIOUS
<1>0. ASSUME queue' \subseteq queue,
             \A t \in Threads : pc'[t] = "asleep" => pc[t] = "asleep" /\ call'[t] = call[t]
      PROVE  NobodySleepsOverEntry'
  BY <1>0 DEF NobodySleepsOverEntry
<1>1. ASSUME NEW k \in Keys, AppendEntry(k) PROVE NobodySleepsOverEntry'
  BY <1>1, NotifiedTypes DEF AppendEntry, CondNotified, NobodySleepsOverEntry
<1>2. ASSUME NEW k \in Keys, Fetch(k) PROVE NobodySleepsOverEntry'
  BY <1>0, <1>2 DEF Fetch, Use
<1>3. ASSUME NEW k \in Keys, Remove(k) PROVE NobodySleepsOverEntry'
  BY <1>0, <1>3, NotifiedTypes DEF Remove, SpaceNotified
<1>4. ASSUME NEW u \in Keys, NEW l \in Keys, HighestInRange(u, l)
      PROVE  NobodySleepsOverEntry'
  BY <1>0, <1>4 DEF HighestInRange, Use
<1>5. CASE Clear
  BY <1>5 DEF Clear, NobodySleepsOverEntry
<1>6. ASSUME NEW n \in Sizes, Resize(n) PROVE NobodySleepsOverEntry'
  BY <1>0, <1>6, ResizeKeeps DEF Resize
<1>7. ASSUME NEW t \in Threads, NEW op \in Ops, NEW k \in Keys \cup {0}, Enter(t, op, k)
      PROVE  NobodySleepsOverEntry'
  BY <1>0, <1>7 DEF Enter, entries, CallTypes
<1>8. ASSUME NEW t \in Threads, Sleep(t) PROVE NobodySleepsOverEntry'
  BY <1>8 DEF Sleep, Satisfied, entries, CallTypes, NobodySleepsOverEntry
<1>9. ASSUME NEW t \in Threads, Succeed(t) \/ GiveUp(t) PROVE NobodySleepsOverEntry'
  <2>1. queue' = queue
    BY <1>9 DEF Succeed, GiveUp, Use, entries
  <2> QED BY <1>0, <1>9, <2>1 DEF Succeed, GiveUp, Leaves, CallTypes
<1>10. ASSUME NEW t \in Threads, AppendIfNotFull(t) PROVE NobodySleepsOverEntry'
  BY <1>10, NotifiedTypes
     DEF AppendIfNotFull, CondNotified, Leaves, CallTypes, NobodySleepsOverEntry
<1>11. ASSUME NEW t \in Threads, Expire(t) \/ SpuriousWake(t) PROVE NobodySleepsOverEntry'
  BY <1>0, <1>11 DEF Expire, SpuriousWake, entries, CallTypes
<1>12. CASE UNCHANGED vars
  BY <1>12 DEF vars, NobodySleepsOverEntry
<1> QED
  BY <1>1, <1>2, <1>3, <1>4, <1>5, <1>6, <1>7, <1>8, <1>9, <1>10, <1>11, <1>12 DEF Next

\* The invariant holds initially.
LEMMA InvInit == Init => Inv
<1> SUFFICES ASSUME Init PROVE Inv
  OBVIOUS
<1>1. order = <<>> /\ used = <<>> /\ queue = {} /\ size \in Sizes
  BY DEF Init
<1>2. Entries
  BY <1>1, FS_EmptySet, LruAssumption
     DEF Entries, EntryTypes, ListIsMap, ListIsRecency, WithinSize, Distinct, Elements, Before
<1>3. CallTypes
  BY DEF Init, CallTypes, NoCall
<1>4. NobodySleepsOverEntry
  BY DEF Init, NobodySleepsOverEntry
<1> QED BY <1>2, <1>3, <1>4 DEF Inv

\* The invariant of the lru.
THEOREM Invariant == Spec => []Inv
<1>1. Inv /\ [Next]_vars => Inv'
  BY EntriesStep, CallTypesStep, SleepersStep DEF Inv
<1> QED BY InvInit, <1>1, PTL DEF Spec

-----------------------------------------------------------------------------
(* The properties.                                                         *)

\* Map, list and size always agree with each other.
THEOREM MapAndListAgree == Spec => []Consistent
<1>1. Inv => Consistent
  <2> SUFFICES ASSUME Inv PROVE Consistent
    OBVIOUS
  <2>1. TypeOK
    BY MapIsFinite DEF Inv, Entries, EntryTypes, CallTypes, TypeOK
  <2>2. MapMatchesList
    BY DEF Inv, Entries, ListIsMap, Distinct, Elements, MapMatchesList
  <2> QED BY <2>1, <2>2 DEF Inv, Entries, Consistent
<1> QED BY <1>1, Invariant, PTL

\* Nobody sleeps waiting for an entry that is there.
THEOREM EntriesAreNotSleptOver == Spec => []NobodySleepsOverEntry
BY Invariant, PTL DEF Inv

\* The steps that leave the map alone.
LEMMA SameEntries ==
  /\ \A k, l \in Keys : Fetch(k) \/ HighestInRange(k, l) => queue' = queue
  /\ \A t \in Threads :
       \/ \E op \in Ops, k \in Keys \cup {0} : Enter(t, op, k)
       \/ Sleep(t) \/ Succeed(t) \/ Expire(t) \/ SpuriousWake(t) \/ GiveUp(t)
       => queue' = queue
BY DEF Fetch, HighestInRange, Use, Enter, Sleep, Succeed, Expire, SpuriousWake, GiveUp, entries

\* Who takes entries out wakes all who wait for room; a new size does not.
THEOREM RoomWakes == Spec => RoomIsAnnounced
<1>1. Inv /\ [Next]_vars =>
        [size' = size /\ Cardinality(queue') < Cardinality(queue) =>
           \A t \in Threads : pc'[t] = "asleep" => call'[t].op \in {"wait", "find"}]_vars
  <2> SUFFICES ASSUME Inv, Next, size' = size, Cardinality(queue') < Cardinality(queue),
                      NEW t \in Threads, pc'[t] = "asleep"
               PROVE  call'[t].op \in {"wait", "find"}
    OBVIOUS
  <2>0. Entries /\ CallTypes
    BY DEF Inv
  <2>1. Cardinality(queue) \in Nat /\ queue' # queue
    BY <2>0, MapIsFinite
  \* remove and clear
  <2>2. ASSUME pc' = SpaceNotified, call' = call PROVE call'[t].op \in {"wait", "find"}
    <3>1. pc[t] = "asleep" /\ call[t].op \notin {"append", "space", "remove"}
      BY <2>0, <2>2, NotifiedTypes DEF SpaceNotified
    <3> QED BY <2>0, <2>2, <3>1 DEF CallTypes, Ops
  \* append takes no more out than it puts in
  <2>3. ASSUME NEW k \in Keys, Put(k) PROVE FALSE
    <3>1. Cardinality(queue) <= Cardinality(queue') /\ Entries'
      BY <2>0, <2>3, PutKeeps
    <3>2. Cardinality(queue') \in Nat
      BY <3>1, LengthIsCount, LenProperties DEF Entries, EntryTypes, ListIsMap
    <3> QED BY <2>1, <3>1, <3>2
  <2>4. ASSUME NEW k \in Keys, AppendEntry(k) PROVE FALSE
    BY <2>3, <2>4 DEF AppendEntry
  <2>5. ASSUME NEW u \in Threads, AppendIfNotFull(u) PROVE FALSE
    BY <2>0, <2>3, <2>5 DEF AppendIfNotFull, CallTypes
  <2>6. ASSUME NEW n \in Sizes, Resize(n) PROVE FALSE
    BY <2>6 DEF Resize
  <2>7. ASSUME queue' = queue PROVE FALSE
    BY <2>1, <2>7
  <2>8. CASE Clear \/ \E k \in Keys : Remove(k)
    BY <2>2, <2>8 DEF Clear, Remove
  <2> QED
    BY <2>4, <2>5, <2>6, <2>7, <2>8, SameEntries DEF Next
<1> QED BY <1>1, Invariant, PTL DEF Spec, RoomIsAnnounced

\* A call of append_if_not_full that returns has pushed nothing out.
LEMMA AppendIfNotFullStep ==
  Inv /\ [Next]_vars =>
    [\A t \in Threads :
       call[t].op = "append" /\ call'[t].op = "none" => queue \subseteq queue']_vars
<1> SUFFICES ASSUME Inv, Next, NEW t \in Threads, call[t].op = "append", call'[t].op = "none"
             PROVE  queue \subseteq queue'
  OBVIOUS
<1>0. Entries /\ CallTypes
  BY DEF Inv
<1>1. call'[t] # call[t]
  OBVIOUS
<1>2. ASSUME NEW u \in Threads, AppendIfNotFull(u) PROVE queue \subseteq queue'
  BY <1>0, <1>2, PutKeeps DEF AppendIfNotFull, CallTypes
<1>3. ASSUME NEW u \in Threads, Succeed(u) \/ GiveUp(u) PROVE queue \subseteq queue'
  BY <1>3 DEF Succeed, GiveUp, Use, entries
<1>4. ASSUME NEW u \in Threads, NEW op \in Ops, NEW k \in Keys \cup {0}, Enter(u, op, k)
      PROVE  queue \subseteq queue'
  BY <1>4 DEF Enter, entries
<1>5. ASSUME NEW u \in Threads, Sleep(u) \/ Expire(u) \/ SpuriousWake(u)
      PROVE  queue \subseteq queue'
  BY <1>5 DEF Sleep, Expire, SpuriousWake, entries
<1>6. ASSUME call' = call PROVE FALSE
  BY <1>1, <1>6
<1> QED
  BY <1>2, <1>3, <1>4, <1>5, <1>6
     DEF Next, AppendEntry, Fetch, Remove, HighestInRange, Clear, Resize

\* An entry that is pushed out by append or resize was not used after one
\* that stays.
LEMMA EvictionStep ==
  Inv /\ [Next]_vars =>
    [size' # size \/ ~(queue' \subseteq queue) =>
       \A gone \in queue \ queue', kept \in queue \cap queue' :
         Position(used, gone) < Position(used, kept)]_vars
<1> SUFFICES ASSUME Inv, Next, size' # size \/ ~(queue' \subseteq queue),
                    NEW gone \in queue \ queue', NEW kept \in queue \cap queue'
             PROVE  Before(used, gone, kept)
  BY PositionIsBefore DEF Inv, Entries, EntryTypes, ListIsRecency
<1>0. Entries /\ CallTypes
  BY DEF Inv
<1>1. queue' # queue
  OBVIOUS
<1>2. ASSUME NEW k \in Keys, Put(k), size' = size PROVE Before(used, gone, kept)
  BY <1>0, <1>2, PutKeeps
<1>3. ASSUME NEW k \in Keys, AppendEntry(k) PROVE Before(used, gone, kept)
  BY <1>2, <1>3 DEF AppendEntry
<1>4. ASSUME NEW t \in Threads, AppendIfNotFull(t) PROVE Before(used, gone, kept)
  BY <1>0, <1>2, <1>4 DEF AppendIfNotFull, CallTypes
<1>5. ASSUME NEW n \in Sizes, Resize(n) PROVE Before(used, gone, kept)
  BY <1>0, <1>5, ResizeKeeps
<1>6. ASSUME Clear \/ \E k \in Keys : Remove(k) PROVE FALSE
  BY <1>6 DEF Clear, Remove
<1> QED BY <1>1, <1>3, <1>4, <1>5, <1>6, SameEntries DEF Next

\* Only who is entitled to evicts, and what was used least recently.
THEOREM LeastRecentlyUsedGoes == Spec => EvictsLeastRecentlyUsed
BY Invariant, AppendIfNotFullStep, EvictionStep, PTL
   DEF Spec, EvictsLeastRecentlyUsed, AppendIfNotFullEvictsNothing, EvictsOldestFirst
=============================================================================
