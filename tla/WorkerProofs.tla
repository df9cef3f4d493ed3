---------------------------- MODULE WorkerProofs ----------------------------
(***************************************************************************)
(* Proofs about Worker, for any finite set of jobs of either sort, any     *)
(* priorities and any order in which make_heap leaves the array.  Places   *)
(* says where a job may be; the rest follows the running job, the client   *)
(* that cancels and the client that waits.                                 *)
(***************************************************************************)
EXTENDS Worker, SequenceTheorems, FiniteSetTheorems, TLAPS

\* The jobs in an array, and that none is there twice.
Elements(s) == {s[i] : i \in DOMAIN s}
Distinct(s) == \A i, k \in DOMAIN s : s[i] = s[k] => i = k

\* A job nobody has added is nowhere, and a one-shot job in a single place.
Places ==
  /\ Distinct(heap)
  /\ \A j \in unused : /\ j \notin InHeap /\ j \notin timed /\ j # current
                       /\ j \notin done /\ j \notin gone /\ j \notin cancelled
  /\ \A j \in OneShot :
       /\ j \in InHeap => j \notin timed
       /\ j \in InHeap \/ j \in timed => j # current /\ j \notin done /\ j \notin gone
       /\ j \notin unused =>
            j \in InHeap \/ j \in timed \/ j \in done \/ j \in gone \/ j = current

\* What is said of m_current_job: it has been run unless its turn begins.
CurrentFits ==
  /\ pc \in {"popped", "running", "signalled", "checked", "callback"} => current \in Jobs
  /\ pc \notin {"popped", "running"} /\ current \in Jobs => current \in done
  /\ pc \in {"popped", "running"} /\ current \in OneShot =>
       current \notin done /\ current \notin gone /\ current \notin cancelled

\* A cancelled one-shot job is in no queue.
CancelFits ==
  /\ canceller.at = "waiting" => canceller.job \in Jobs
  /\ \A j \in OneShot : j \in cancelled => j \notin InHeap /\ j \notin timed

\* Where the thread rests: the running job is in the heap no more, between two
\* rounds there is no running job, and reoccurring jobs come to the heap when
\* the thread has waked, and not before.
RestFits ==
  /\ current \notin InHeap
  /\ pc \in {"idle", "asleep", "awake", "exited"} => current = NoJob
  /\ pc \in {"asleep", "awake"} => InHeap \subseteq OneShot

\* The awaited jobs whose signal is to come in this round of the thread, ...
Turn == IF pc \in {"popped", "running"} THEN {current} ELSE {}
Pending == awaited \cap (InHeap \cup Turn)

\* ... and the end of the wait, as far as one-shot jobs go.
Settled == \A j \in OneShot : j \in promised => j \in done \/ j \in gone

\* The client in wait_for_all_jobs_completed is owed a signal for each job that
\* is pending.  It may have counted one too many only when a round is over, and
\* then no one-shot job is pending.
WaitFits ==
  /\ \A j \in awaited \cup promised : /\ j \notin unused
                                      /\ j \in OneShot => j \notin timed
  /\ waiter = "waiting" =>
       \/ Settled
       \/ /\ Cardinality(Pending) <= owed
          /\ \A j \in OneShot : j \in promised => j \in done \/ j \in gone \/ j \in Pending
          /\ pc \in {"asleep", "awake"} => awaited \subseteq OneShot
  /\ waiter = "true" => Settled

Inv == TypeOK /\ Places /\ CurrentFits /\ CancelFits /\ RestFits /\ WaitFits

-----------------------------------------------------------------------------
(* The array.                                                              *)

\* make_heap leaves the jobs it was given, each one once.
LEMMA MadeHeap ==
  ASSUME NEW S \in SUBSET Jobs, NEW p, NEW h \in MakeHeap(S, p)
  PROVE  h \in Seq(Jobs) /\ Distinct(h) /\ Elements(h) = S
<1>1. IsFiniteSet(S) /\ Cardinality(S) \in Nat
  BY WorkerAssumption, FS_Subset, FS_CardinalityType
<1> DEFINE n == Cardinality(S)
<1>2. h \in [1..n -> S] /\ \A i, k \in 1..n : h[i] = h[k] => i = k
  BY DEF MakeHeap
<1>3. h \in Injection(1..n, S)
  BY <1>2 DEF Injection, IsInjective
<1>4. Cardinality(1..n) = n
  BY <1>1, FS_Interval
<1>5. h \in Surjection(1..n, S)
  BY <1>1, <1>3, <1>4, FS_Injection
<1>6. Elements(h) = S
  BY <1>2, <1>5 DEF Elements, Surjection
<1>7. h \in [1..n -> Jobs]
  BY <1>2
<1>8. h \in Seq(Jobs)
  BY <1>1, <1>7, SeqDef
<1> QED BY <1>2, <1>6, <1>8 DEF Distinct

\* pop_back.
LEMMA PoppedHeap ==
  ASSUME NEW s \in Seq(Jobs), Distinct(s), s # <<>>
  PROVE  LET r == SubSeq(s, 1, Len(s) - 1)
             j == s[Len(s)]
         IN  /\ r \in Seq(Jobs) /\ Distinct(r)
             /\ j \in Elements(s) /\ Elements(r) = Elements(s) \ {j}
<1> DEFINE r == SubSeq(s, 1, Len(s) - 1)
           j == s[Len(s)]
<1>1. /\ Len(s) \in Nat /\ Len(s) # 0 /\ DOMAIN s = 1..Len(s)
      /\ \A i \in 1..Len(s) : s[i] \in Jobs
  BY LenProperties, EmptySeq, ElementOfSeq
<1>2. /\ r \in Seq(Jobs) /\ Len(r) = Len(s) - 1 /\ DOMAIN r = 1..Len(s)-1
      /\ \A i \in 1..Len(s)-1 : r[i] = s[i]
  <2>1. /\ 1 \in Int /\ Len(s)-1 \in Int
        /\ \A i \in 1 .. (Len(s)-1) : s[i] \in Jobs
    BY <1>1
  <2>2. /\ r \in Seq(Jobs)
        /\ Len(r) = IF 1 <= Len(s)-1 THEN Len(s)-1-1+1 ELSE 0
        /\ \A i \in 1..Len(s)-1-1+1 : r[i] = s[1+i-1]
    BY <2>1, SubSeqProperties
  <2>3. Len(r) = Len(s) - 1 /\ Len(s)-1-1+1 = Len(s)-1
    BY <1>1, <2>2
  <2>4. \A i \in 1..Len(s)-1 : r[i] = s[i]
    BY <1>1, <2>2, <2>3
  <2> HIDE DEF r
  <2> QED BY <2>2, <2>3, <2>4, LenProperties
<1> HIDE DEF r
<1>3. Distinct(r)
  BY <1>1, <1>2 DEF Distinct
<1>4. Len(s) \in 1..Len(s)
  BY <1>1
<1>5. \A i \in 1..Len(s) : s[i] = s[Len(s)] => i = Len(s)
  BY <1>1, <1>4 DEF Distinct
<1>6. Elements(r) = Elements(s) \ {j}
  <2>0. Len(s) \in Nat
    BY <1>1
  <2>1. \A i \in 1..Len(s)-1 : i \in 1..Len(s) /\ i # Len(s)
    BY <2>0
  <2>2. \A i \in 1..Len(s) : i # Len(s) => i \in 1..Len(s)-1
    BY <2>0
  <2>3. \A x \in Elements(r) : x \in Elements(s) \ {j}
    BY <1>1, <1>2, <1>5, <2>1 DEF Elements
  <2>4. \A x \in Elements(s) : x # j => x \in Elements(r)
    BY <1>1, <1>2, <2>2 DEF Elements
  <2> QED BY <2>3, <2>4
<1>7. j \in Elements(s)
  BY <1>1, <1>4 DEF Elements
<1> QED BY <1>2, <1>3, <1>6, <1>7 DEF r

\* find and erase.
LEMMA ErasedHeap ==
  ASSUME NEW s \in Seq(Jobs), Distinct(s), NEW j
  PROVE  /\ Without(s, j) \in Seq(Jobs) /\ Distinct(Without(s, j))
         /\ Elements(Without(s, j)) = Elements(s) \ {j}
<1> DEFINE here == {i \in 1..Len(s) : s[i] = j}
           found == CHOOSE i \in here : \A h \in here : i <= h
           r == [i \in 1..Len(s)-1 |-> IF i < found THEN s[i] ELSE s[i+1]]
<1>1. Len(s) \in Nat /\ DOMAIN s = 1..Len(s) /\ \A i \in 1..Len(s) : s[i] \in Jobs
  BY LenProperties, ElementOfSeq
<1>2. CASE here = {}
  <2>1. Without(s, j) = s
    BY <1>2 DEF Without
  <2> QED BY <2>1, <1>1, <1>2 DEF Elements
<1>3. CASE here # {}
  <2>1. Without(s, j) = r
    BY <1>3 DEF Without
  <2>2. PICK at \in 1..Len(s) : s[at] = j
    BY <1>3
  <2>3. \A i \in 1..Len(s) : s[i] = j => i = at
    BY <1>1, <2>2 DEF Distinct
  <2>4. here = {at}
    BY <2>2, <2>3
  <2>5. found = at
    BY <2>2, <2>4
  <2>6. /\ r \in [1..Len(s)-1 -> Jobs] /\ Len(s)-1 \in Nat
        /\ \A i \in 1..Len(s)-1 : r[i] = IF i < at THEN s[i] ELSE s[i+1]
    <3> HIDE DEF found
    <3>1. \A i \in 1..Len(s)-1 : i \in 1..Len(s) /\ i+1 \in 1..Len(s)
      BY <1>1
    <3>2. \A i \in 1..Len(s)-1 : s[i] \in Jobs /\ s[i+1] \in Jobs
      BY <1>1, <3>1
    <3>3. r = [i \in 1..Len(s)-1 |-> IF i < at THEN s[i] ELSE s[i+1]]
      BY <2>5
    <3>4. Len(s)-1 \in Nat
      BY <1>1
    <3> QED BY <3>2, <3>3, <3>4
  <2>7. r \in Seq(Jobs) /\ DOMAIN r = 1..Len(s)-1
    BY <2>6, SeqDef
  <2> HIDE DEF r, here, found
  <2> DEFINE from(i) == IF i < at THEN i ELSE i + 1
             to(i) == IF i < at THEN i ELSE i - 1
  <2>8. \A i \in 1..Len(s)-1 : from(i) \in 1..Len(s) /\ from(i) # at /\ r[i] = s[from(i)]
    BY <1>1, <2>2, <2>6
  <2>9. ASSUME NEW i \in 1..Len(s), i # at
        PROVE  to(i) \in 1..Len(s)-1 /\ r[to(i)] = s[i]
    <3>1. CASE i < at
      <4>1. to(i) = i /\ i \in 1..Len(s)-1
        BY <1>1, <2>2, <3>1
      <4> QED BY <2>6, <3>1, <4>1
    <3>2. CASE ~(i < at)
      <4>1. to(i) = i - 1
        BY <3>2
      <4>2. i - 1 \in 1..Len(s)-1 /\ ~(i - 1 < at) /\ (i - 1) + 1 = i
        BY <1>1, <2>2, <2>9, <3>2
      <4>3. r[i - 1] = s[(i - 1) + 1]
        BY <2>6, <4>2
      <4> QED BY <4>1, <4>2, <4>3
    <3> QED BY <3>1, <3>2
  <2>10. \A i, k \in 1..Len(s)-1 : from(i) = from(k) => i = k
    BY <1>1, <2>2
  <2> HIDE DEF from, to
  <2>11. Distinct(r)
    <3> SUFFICES ASSUME NEW i \in 1..Len(s)-1, NEW k \in 1..Len(s)-1, r[i] = r[k]
                 PROVE  i = k
      BY <2>7 DEF Distinct
    <3>1. s[from(i)] = s[from(k)] /\ from(i) \in DOMAIN s /\ from(k) \in DOMAIN s
      BY <1>1, <2>8
    <3>2. from(i) = from(k)
      BY <3>1 DEF Distinct
    <3> QED BY <2>10, <3>2
  <2>12. Elements(r) = Elements(s) \ {j}
    <3>1. \A x : x \in Elements(s) <=> \E i \in 1..Len(s) : x = s[i]
      BY <1>1 DEF Elements
    <3>2. \A x : x \in Elements(r) <=> \E i \in 1..Len(s)-1 : x = r[i]
      BY <2>7 DEF Elements
    <3>3. ASSUME NEW x \in Elements(r)  PROVE x \in Elements(s) /\ x # j
      <4>1. PICK i \in 1..Len(s)-1 : x = r[i]
        BY <3>2
      <4>2. from(i) \in 1..Len(s) /\ from(i) # at /\ x = s[from(i)]
        BY <2>8, <4>1
      <4> QED BY <2>3, <3>1, <4>2
    <3>4. ASSUME NEW x \in Elements(s), x # j  PROVE x \in Elements(r)
      <4>1. PICK i \in 1..Len(s) : x = s[i]
        BY <3>1
      <4>2. i # at
        BY <2>2, <3>4, <4>1
      <4>3. to(i) \in 1..Len(s)-1 /\ r[to(i)] = x
        BY <2>9, <4>1, <4>2
      <4> QED BY <3>2, <4>3
    <3> QED BY <3>3, <3>4
  <2> QED BY <2>1, <2>7, <2>11, <2>12
<1> QED BY <1>2, <1>3

\* The empty array.
LEMMA EmptyHeap == <<>> \in Seq(Jobs) /\ Distinct(<<>>) /\ Elements(<<>>) = {}
BY EmptySeq DEF Distinct, Elements

-----------------------------------------------------------------------------
(* What a step makes of the heap.                                          *)

\* What each change of m_heap leaves: nothing happens to it, ...
LEMMA HeapKept ==
  ASSUME TypeOK, Distinct(heap), heap' = heap
  PROVE  heap' \in Seq(Jobs) /\ Distinct(heap') /\ InHeap' = InHeap
BY DEF TypeOK, InHeap

\* ... it is made of other jobs, ...
LEMMA HeapMade ==
  ASSUME NEW S \in SUBSET Jobs, NEW p, heap' \in MakeHeap(S, p)
  PROVE  heap' \in Seq(Jobs) /\ Distinct(heap') /\ InHeap' = S
<1>1. heap' \in Seq(Jobs) /\ Distinct(heap') /\ Elements(heap') = S
  BY MadeHeap
<1> QED BY <1>1 DEF InHeap, Elements

\* ... cleared, ...
LEMMA HeapCleared ==
  ASSUME heap' = <<>>
  PROVE  heap' \in Seq(Jobs) /\ Distinct(heap') /\ InHeap' = {}
BY EmptyHeap DEF InHeap, Elements

\* ... its last job is taken, ...
LEMMA HeapPopped ==
  ASSUME TypeOK, Distinct(heap), PopJob
  PROVE  /\ heap' \in Seq(Jobs) /\ Distinct(heap')
         /\ current' \in InHeap /\ InHeap' = InHeap \ {current'}
<1>1. heap \in Seq(Jobs) /\ heap # <<>>
  BY DEF TypeOK, PopJob
<1>2. heap' = SubSeq(heap, 1, Len(heap) - 1) /\ current' = heap[Len(heap)]
  BY DEF PopJob
<1> QED BY <1>1, <1>2, PoppedHeap DEF InHeap, Elements

\* ... or one job is erased.
LEMMA HeapErased ==
  ASSUME TypeOK, Distinct(heap), NEW j, heap' = Without(heap, j)
  PROVE  heap' \in Seq(Jobs) /\ Distinct(heap') /\ InHeap' = InHeap \ {j}
<1>1. heap \in Seq(Jobs)
  BY DEF TypeOK
<1>2. /\ heap' \in Seq(Jobs) /\ Distinct(heap')
      /\ Elements(heap') = Elements(heap) \ {j}
  BY <1>1, ErasedHeap
<1> QED BY <1>2 DEF InHeap, Elements

\* What is queued is a job.
LEMMA QueuedAreJobs == TypeOK => InHeap \subseteq Jobs
BY LenProperties, ElementOfSeq DEF TypeOK, InHeap

-----------------------------------------------------------------------------
(* The client that waits.                                                  *)

\* There are finitely many jobs to count.
LEMMA PendingCounted ==
  ASSUME TypeOK
  PROVE  /\ IsFiniteSet(Pending) /\ Cardinality(Pending) \in Nat
         /\ IsFiniteSet(awaited) /\ Cardinality(awaited) \in Nat
<1>1. awaited \subseteq Jobs /\ Pending \subseteq Jobs
  BY DEF TypeOK, Pending
<1> QED BY <1>1, WorkerAssumption, FS_Subset, FS_CardinalityType

\* A step of others leaves the client where it was when no job becomes pending
\* and no one-shot job stops pending but by running or being taken out.
LEMMA WaitKept ==
  ASSUME TypeOK, WaitFits, UNCHANGED waiting,
         unused' \subseteq unused,
         \A j \in OneShot : j \notin unused /\ j \notin timed => j \notin timed',
         \A j \in OneShot : j \in done \/ j \in gone => j \in done' \/ j \in gone',
         Pending' \subseteq Pending,
         \A j \in OneShot : j \in Pending => j \in Pending' \/ j \in done' \/ j \in gone',
         pc' \in {"asleep", "awake"} => pc \in {"asleep", "awake"} \/ Pending = {}
  PROVE  WaitFits'
<1>1. /\ IsFiniteSet(Pending) /\ Cardinality(Pending) \in Nat
      /\ Cardinality(Pending') \in Nat /\ Cardinality(Pending') <= Cardinality(Pending)
  BY PendingCounted, FS_Subset, FS_CardinalityType
<1>2. awaited' = awaited /\ owed' = owed /\ promised' = promised /\ waiter' = waiter
  BY DEF waiting
<1>3. \A j \in awaited' \cup promised' : j \notin unused' /\ (j \in OneShot => j \notin timed')
  BY <1>2 DEF WaitFits
<1>4. Settled => Settled'
  BY <1>2 DEF Settled, OneShot
<1>5. waiter = "waiting" /\ ~Settled => Pending # {}
  BY DEF WaitFits, Settled
<1>6. owed \in Nat
  BY DEF TypeOK
<1>7. ASSUME waiter = "waiting", ~Settled
      PROVE  /\ Cardinality(Pending') <= owed'
             /\ \A j \in OneShot : j \in promised' => j \in done' \/ j \in gone' \/ j \in Pending'
             /\ pc' \in {"asleep", "awake"} => awaited' \subseteq OneShot
  <2>1. Cardinality(Pending) <= owed
    BY <1>7 DEF WaitFits
  <2>2. Cardinality(Pending') <= owed'
    BY <1>1, <1>2, <1>6, <2>1
  <2> QED BY <1>2, <1>5, <1>7, <2>2 DEF WaitFits, OneShot
<1> HIDE DEF Settled
<1> QED BY <1>2, <1>3, <1>4, <1>7 DEF WaitFits

-----------------------------------------------------------------------------
(* Every step keeps the invariant.                                         *)

\* Every step keeps the invariant: one case for each action.
LEMMA Step ==
  ASSUME Inv, [Next]_vars
  PROVE  Inv'
<1> USE WorkerAssumption DEF Inv
<1> USE DEF OneShot, ThreadPCs, WakeFree, Notify, queues, flags, clients, waiting
<1>a. TypeOK /\ Distinct(heap) /\ InHeap \subseteq Jobs
  BY QueuedAreJobs DEF Places
<1>1. ASSUME PopJob  PROVE Inv'
  <2>h. /\ heap' \in Seq(Jobs) /\ Distinct(heap')
        /\ current' \in InHeap /\ InHeap' = InHeap \ {current'}
    BY <1>1, <1>a, HeapPopped
  <2>1. TypeOK'
    BY <1>1, <1>a, <2>h DEF PopJob, TypeOK
  <2>2. Places'
    BY <1>1, <1>a, <2>h DEF PopJob, TypeOK, Places, CurrentFits, CancelFits
  <2>3. CurrentFits'
    BY <1>1, <1>a, <2>h DEF PopJob, TypeOK, Places, CurrentFits, CancelFits
  <2>4. CancelFits'
    BY <1>1, <1>a, <2>h DEF PopJob, TypeOK, Places, CurrentFits, CancelFits
  <2>5. RestFits'
    BY <1>1, <1>a, <2>h DEF PopJob, TypeOK, Places, CurrentFits, RestFits
  <2>6. WaitFits'
    BY <1>1, <1>a, <2>h, WaitKept
    DEF PopJob, TypeOK, Places, CurrentFits, RestFits, WaitFits, Pending, Turn
  <2> QED BY <2>1, <2>2, <2>3, <2>4, <2>5, <2>6
<1>2. ASSUME RunJob  PROVE Inv'
  <2>h. heap' \in Seq(Jobs) /\ Distinct(heap') /\ InHeap' = InHeap
    BY <1>2, <1>a, HeapKept DEF RunJob
  <2>1. TypeOK'
    BY <1>2, <1>a, <2>h DEF RunJob, TypeOK
  <2>2. Places'
    BY <1>2, <1>a, <2>h DEF RunJob, TypeOK, Places, CurrentFits, CancelFits
  <2>3. CurrentFits'
    BY <1>2, <1>a, <2>h DEF RunJob, TypeOK, Places, CurrentFits
  <2>4. CancelFits'
    BY <1>2, <1>a, <2>h DEF RunJob, TypeOK, Places, CurrentFits, CancelFits
  <2>5. RestFits'
    BY <1>2, <1>a, <2>h DEF RunJob, TypeOK, Places, CurrentFits, RestFits
  <2>6. WaitFits'
    BY <1>2, <1>a, <2>h, WaitKept
    DEF RunJob, TypeOK, Places, CurrentFits, RestFits, WaitFits, Pending, Turn
  <2> QED BY <2>1, <2>2, <2>3, <2>4, <2>5, <2>6
<1>3. ASSUME FinishJob  PROVE Inv'
  <2>h. heap' \in Seq(Jobs) /\ Distinct(heap') /\ InHeap' = InHeap
    BY <1>3, <1>a, HeapKept DEF FinishJob
  <2>1. TypeOK'
    BY <1>3, <1>a, <2>h DEF FinishJob, TypeOK, CurrentFits
  <2>2. Places'
    BY <1>3, <1>a, <2>h DEF FinishJob, TypeOK, Places, CurrentFits, CancelFits
  <2>3. CurrentFits'
    BY <1>3, <1>a, <2>h DEF FinishJob, TypeOK, Places, CurrentFits
  <2>4. CancelFits'
    BY <1>3, <1>a, <2>h DEF FinishJob, TypeOK, Places, CurrentFits, CancelFits
  <2>5. RestFits'
    BY <1>3, <1>a, <2>h DEF FinishJob, TypeOK, Places, CurrentFits, RestFits
  <2>6. WaitFits'
    <3>1. Pending' = Pending \ {current} /\ current \in Jobs /\ Turn = {current}
      BY <1>3, <1>a, <2>h DEF FinishJob, CurrentFits, RestFits, Pending, Turn
    <3>2. IsFiniteSet(Pending) /\ Cardinality(Pending) \in Nat /\ owed \in Nat
      BY <1>a, PendingCounted DEF TypeOK
    <3>3. Cardinality(Pending') = IF current \in awaited THEN Cardinality(Pending) - 1
                                                         ELSE Cardinality(Pending)
      <4>1. CASE current \in awaited
        <5>1. current \in Pending
          BY <3>1, <4>1 DEF Pending
        <5> QED BY <3>1, <3>2, <4>1, <5>1, FS_RemoveElement
      <4>2. CASE current \notin awaited
        <5>1. Pending \ {current} = Pending
          BY <4>2 DEF Pending
        <5> QED BY <3>1, <4>2, <5>1
      <4> QED BY <4>1, <4>2
    <3>4. Cardinality(Pending) <= owed => Cardinality(Pending') <= owed'
      <4>1. owed' = IF current \in awaited /\ owed > 0 THEN owed - 1 ELSE owed
        BY <1>3 DEF FinishJob
      <4> QED BY <3>2, <3>3, <4>1
    <3>5. Settled => Settled'
      BY <1>3 DEF FinishJob, Settled
    <3>6. \A j \in OneShot : j \in promised /\ (j \in done \/ j \in gone \/ j \in Pending) =>
             j \in done' \/ j \in gone' \/ j \in Pending'
      BY <1>3, <3>1 DEF FinishJob
    <3> HIDE DEF Settled, OneShot
    <3> QED BY <1>3, <3>4, <3>5, <3>6 DEF FinishJob, WaitFits
  <2> QED BY <2>1, <2>2, <2>3, <2>4, <2>5, <2>6
<1>4. ASSUME CheckStop  PROVE Inv'
  <2>h. heap' \in Seq(Jobs) /\ Distinct(heap') /\ InHeap' = InHeap
    BY <1>4, <1>a, HeapKept DEF CheckStop
  <2>1. TypeOK'
    BY <1>4, <1>a, <2>h DEF CheckStop, TypeOK
  <2>2. Places'
    BY <1>4, <1>a, <2>h DEF CheckStop, TypeOK, Places, CurrentFits, CancelFits
  <2>3. CurrentFits'
    BY <1>4, <1>a, <2>h DEF CheckStop, TypeOK, Places, CurrentFits
  <2>4. CancelFits'
    BY <1>4, <1>a, <2>h DEF CheckStop, TypeOK, Places, CurrentFits, CancelFits
  <2>5. RestFits'
    BY <1>4, <1>a, <2>h DEF CheckStop, TypeOK, Places, CurrentFits, RestFits
  <2>6. WaitFits'
    BY <1>4, <1>a, <2>h, WaitKept
    DEF CheckStop, TypeOK, Places, CurrentFits, RestFits, WaitFits, Pending, Turn
  <2> QED BY <2>1, <2>2, <2>3, <2>4, <2>5, <2>6
<1>5. ASSUME CheckReschedule  PROVE Inv'
  <2>h. heap' \in Seq(Jobs) /\ Distinct(heap') /\ InHeap' = InHeap
    BY <1>5, <1>a, HeapKept DEF CheckReschedule
  <2>1. TypeOK'
    BY <1>5, <1>a, <2>h DEF CheckReschedule, TypeOK
  <2>2. Places'
    BY <1>5, <1>a, <2>h DEF CheckReschedule, TypeOK, Places, CurrentFits, CancelFits
  <2>3. CurrentFits'
    BY <1>5, <1>a, <2>h DEF CheckReschedule, TypeOK, Places, CurrentFits
  <2>4. CancelFits'
    BY <1>5, <1>a, <2>h DEF CheckReschedule, TypeOK, Places, CurrentFits, CancelFits
  <2>5. RestFits'
    BY <1>5, <1>a, <2>h DEF CheckReschedule, TypeOK, Places, CurrentFits, RestFits
  <2>6. WaitFits'
    BY <1>5, <1>a, <2>h, WaitKept
    DEF CheckReschedule, TypeOK, Places, CurrentFits, RestFits, WaitFits, Pending, Turn
  <2> QED BY <2>1, <2>2, <2>3, <2>4, <2>5, <2>6
<1>6. ASSUME ReportJob  PROVE Inv'
  <2>h. heap' \in Seq(Jobs) /\ Distinct(heap') /\ InHeap' = InHeap
    BY <1>6, <1>a, HeapKept DEF ReportJob
  <2>1. TypeOK'
    BY <1>6, <1>a, <2>h DEF ReportJob, TypeOK
  <2>2. Places'
    BY <1>6, <1>a, <2>h DEF ReportJob, TypeOK, Places, CurrentFits, CancelFits
  <2>3. CurrentFits'
    BY <1>6, <1>a, <2>h DEF ReportJob, TypeOK, Places, CurrentFits
  <2>4. CancelFits'
    BY <1>6, <1>a, <2>h DEF ReportJob, TypeOK, Places, CurrentFits, CancelFits
  <2>5. RestFits'
    BY <1>6, <1>a, <2>h DEF ReportJob, TypeOK, Places, CurrentFits, RestFits
  <2>6. WaitFits'
    BY <1>6, <1>a, <2>h, WaitKept
    DEF ReportJob, TypeOK, Places, CurrentFits, RestFits, WaitFits, Pending, Turn
  <2> QED BY <2>1, <2>2, <2>3, <2>4, <2>5, <2>6
<1>7. ASSUME LeaveWork  PROVE Inv'
  <2>h. heap' \in Seq(Jobs) /\ Distinct(heap') /\ InHeap' = InHeap
    BY <1>7, <1>a, HeapKept DEF LeaveWork
  <2>1. TypeOK'
    BY <1>7, <1>a, <2>h DEF LeaveWork, TypeOK
  <2>2. Places'
    BY <1>7, <1>a, <2>h DEF LeaveWork, TypeOK, Places, CurrentFits, CancelFits
  <2>3. CurrentFits'
    BY <1>7, <1>a, <2>h DEF LeaveWork, TypeOK, Places, CurrentFits
  <2>4. CancelFits'
    BY <1>7, <1>a, <2>h DEF LeaveWork, TypeOK, Places, CurrentFits, CancelFits
  <2>5. RestFits'
    BY <1>7, <1>a, <2>h DEF LeaveWork, TypeOK, Places, CurrentFits, RestFits
  <2>6. WaitFits'
    BY <1>7, <1>a, <2>h, WaitKept
    DEF LeaveWork, TypeOK, Places, CurrentFits, RestFits, WaitFits, Pending, Turn
  <2> QED BY <2>1, <2>2, <2>3, <2>4, <2>5, <2>6
<1>8. ASSUME ResetCurrent  PROVE Inv'
  <2>h. heap' \in Seq(Jobs) /\ Distinct(heap') /\ InHeap' = InHeap
    BY <1>8, <1>a, HeapKept DEF ResetCurrent
  <2>1. TypeOK'
    BY <1>8, <1>a, <2>h DEF ResetCurrent, TypeOK
  <2>2. Places'
    BY <1>8, <1>a, <2>h DEF ResetCurrent, TypeOK, Places, CurrentFits, CancelFits
  <2>3. CurrentFits'
    BY <1>8, <1>a, <2>h DEF ResetCurrent, TypeOK, Places, CurrentFits
  <2>4. CancelFits'
    BY <1>8, <1>a, <2>h DEF ResetCurrent, TypeOK, Places, CurrentFits, CancelFits
  <2>5. RestFits'
    BY <1>8, <1>a, <2>h DEF ResetCurrent, TypeOK, Places, CurrentFits, RestFits
  <2>6. WaitFits'
    BY <1>8, <1>a, <2>h, WaitKept
    DEF ResetCurrent, TypeOK, Places, CurrentFits, RestFits, WaitFits, Pending, Turn
  <2> QED BY <2>1, <2>2, <2>3, <2>4, <2>5, <2>6
<1>9. ASSUME Idle  PROVE Inv'
  <2>h. heap' \in Seq(Jobs) /\ Distinct(heap') /\ InHeap' = InHeap
    BY <1>9, <1>a, HeapKept DEF Idle
  <2>e. heap = <<>> => InHeap = {}
    BY EmptyHeap DEF InHeap, Elements
  <2>1. TypeOK'
    BY <1>9, <1>a, <2>h DEF Idle, TypeOK
  <2>2. Places'
    BY <1>9, <1>a, <2>h DEF Idle, TypeOK, Places, CurrentFits, CancelFits
  <2>3. CurrentFits'
    BY <1>9, <1>a, <2>h DEF Idle, TypeOK, Places, CurrentFits
  <2>4. CancelFits'
    BY <1>9, <1>a, <2>h DEF Idle, TypeOK, Places, CurrentFits, CancelFits
  <2>5. RestFits'
    BY <1>9, <1>a, <2>h, <2>e DEF Idle, TypeOK, Places, CurrentFits, RestFits
  <2>6. WaitFits'
    BY <1>9, <1>a, <2>h, <2>e, WaitKept
    DEF Idle, TypeOK, Places, CurrentFits, RestFits, WaitFits, Pending, Turn
  <2> QED BY <2>1, <2>2, <2>3, <2>4, <2>5, <2>6
<1>10. ASSUME WakeForTimedJob  PROVE Inv'
  <2>h. heap' \in Seq(Jobs) /\ Distinct(heap') /\ InHeap' = InHeap
    BY <1>10, <1>a, HeapKept DEF WakeForTimedJob
  <2>1. TypeOK'
    BY <1>10, <1>a, <2>h DEF WakeForTimedJob, TypeOK
  <2>2. Places'
    BY <1>10, <1>a, <2>h DEF WakeForTimedJob, TypeOK, Places, CurrentFits, CancelFits
  <2>3. CurrentFits'
    BY <1>10, <1>a, <2>h DEF WakeForTimedJob, TypeOK, Places, CurrentFits
  <2>4. CancelFits'
    BY <1>10, <1>a, <2>h DEF WakeForTimedJob, TypeOK, Places, CurrentFits, CancelFits
  <2>5. RestFits'
    BY <1>10, <1>a, <2>h DEF WakeForTimedJob, TypeOK, Places, CurrentFits, RestFits
  <2>6. WaitFits'
    BY <1>10, <1>a, <2>h, WaitKept
    DEF WakeForTimedJob, TypeOK, Places, CurrentFits, RestFits, WaitFits, Pending, Turn
  <2> QED BY <2>1, <2>2, <2>3, <2>4, <2>5, <2>6
<1>11. ASSUME MoveTimedJobs  PROVE Inv'
  <2>h. heap' \in Seq(Jobs) /\ Distinct(heap') /\ InHeap' = InHeap \cup due
    <3>1. CASE due = {}
      BY <1>11, <1>a, <3>1, HeapKept DEF MoveTimedJobs
    <3>2. CASE due # {}
      <4>1. InHeap \cup due \in SUBSET Jobs /\ heap' \in MakeHeap(InHeap \cup due, prio)
        BY <1>11, <1>a, <3>2 DEF MoveTimedJobs, TypeOK
      <4> QED BY <1>11, <1>a, <4>1, HeapMade
    <3> QED BY <3>1, <3>2
  <2>1. TypeOK'
    BY <1>11, <1>a, <2>h DEF MoveTimedJobs, TypeOK
  <2>2. Places'
    BY <1>11, <1>a, <2>h DEF MoveTimedJobs, TypeOK, Places, CurrentFits, CancelFits
  <2>3. CurrentFits'
    BY <1>11, <1>a, <2>h DEF MoveTimedJobs, TypeOK, Places, CurrentFits
  <2>4. CancelFits'
    BY <1>11, <1>a, <2>h DEF MoveTimedJobs, TypeOK, Places, CurrentFits, CancelFits
  <2>5. RestFits'
    BY <1>11, <1>a, <2>h DEF MoveTimedJobs, TypeOK, Places, CurrentFits, RestFits
  <2>6. WaitFits'
    <3>1. CASE awaited \subseteq OneShot
      BY <1>11, <1>a, <2>h, <3>1, WaitKept
      DEF MoveTimedJobs, TypeOK, Places, CurrentFits, RestFits, WaitFits, Pending, Turn
    <3>2. CASE waiter # "waiting" \/ Settled
      BY <1>11, <1>a, <2>h, <3>2 DEF MoveTimedJobs, TypeOK, WaitFits, Settled
    <3> QED BY <1>11, <3>1, <3>2 DEF MoveTimedJobs, WaitFits
  <2> QED BY <2>1, <2>2, <2>3, <2>4, <2>5, <2>6
<1>12. ASSUME CancelDone  PROVE Inv'
  <2>h. heap' \in Seq(Jobs) /\ Distinct(heap') /\ InHeap' = InHeap
    BY <1>12, <1>a, HeapKept DEF CancelDone
  <2>1. TypeOK'
    BY <1>12, <1>a, <2>h DEF CancelDone, TypeOK
  <2>2. Places'
    BY <1>12, <1>a, <2>h DEF CancelDone, TypeOK, Places, CurrentFits, CancelFits
  <2>3. CurrentFits'
    BY <1>12, <1>a, <2>h DEF CancelDone, TypeOK, Places, CurrentFits
  <2>4. CancelFits'
    BY <1>12, <1>a, <2>h DEF CancelDone, TypeOK, Places, CurrentFits, CancelFits
  <2>5. RestFits'
    BY <1>12, <1>a, <2>h DEF CancelDone, TypeOK, Places, CurrentFits, RestFits
  <2>6. WaitFits'
    BY <1>12, <1>a, <2>h, WaitKept
    DEF CancelDone, TypeOK, Places, CurrentFits, RestFits, WaitFits, Pending, Turn
  <2> QED BY <2>1, <2>2, <2>3, <2>4, <2>5, <2>6
<1>13. ASSUME CancelTimeout  PROVE Inv'
  <2>h. heap' \in Seq(Jobs) /\ Distinct(heap') /\ InHeap' = InHeap
    BY <1>13, <1>a, HeapKept DEF CancelTimeout
  <2>1. TypeOK'
    BY <1>13, <1>a, <2>h DEF CancelTimeout, TypeOK
  <2>2. Places'
    BY <1>13, <1>a, <2>h DEF CancelTimeout, TypeOK, Places, CurrentFits, CancelFits
  <2>3. CurrentFits'
    BY <1>13, <1>a, <2>h DEF CancelTimeout, TypeOK, Places, CurrentFits
  <2>4. CancelFits'
    BY <1>13, <1>a, <2>h DEF CancelTimeout, TypeOK, Places, CurrentFits, CancelFits
  <2>5. RestFits'
    BY <1>13, <1>a, <2>h DEF CancelTimeout, TypeOK, Places, CurrentFits, RestFits
  <2>6. WaitFits'
    BY <1>13, <1>a, <2>h, WaitKept
    DEF CancelTimeout, TypeOK, Places, CurrentFits, RestFits, WaitFits, Pending, Turn
  <2> QED BY <2>1, <2>2, <2>3, <2>4, <2>5, <2>6
<1>14. ASSUME ClearQueue  PROVE Inv'
  <2>h. heap' \in Seq(Jobs) /\ Distinct(heap') /\ InHeap' = {}
    BY <1>14, HeapCleared DEF ClearQueue
  <2>1. TypeOK'
    BY <1>14, <1>a, <2>h DEF ClearQueue, TypeOK
  <2>2. Places'
    BY <1>14, <1>a, <2>h DEF ClearQueue, TypeOK, Places, CurrentFits, CancelFits
  <2>3. CurrentFits'
    BY <1>14, <1>a, <2>h DEF ClearQueue, TypeOK, Places, CurrentFits
  <2>4. CancelFits'
    BY <1>14, <1>a, <2>h DEF ClearQueue, TypeOK, Places, CurrentFits, CancelFits
  <2>5. RestFits'
    BY <1>14, <1>a, <2>h DEF ClearQueue, TypeOK, Places, CurrentFits, RestFits
  <2>6. WaitFits'
    BY <1>14, <1>a, <2>h, WaitKept
    DEF ClearQueue, TypeOK, Places, CurrentFits, RestFits, WaitFits, Pending, Turn
  <2> QED BY <2>1, <2>2, <2>3, <2>4, <2>5, <2>6
<1>15. ASSUME StopCancel  PROVE Inv'
  <2>h. heap' \in Seq(Jobs) /\ Distinct(heap') /\ InHeap' = InHeap
    BY <1>15, <1>a, HeapKept DEF StopCancel
  <2>1. TypeOK'
    BY <1>15, <1>a, <2>h DEF StopCancel, TypeOK
  <2>2. Places'
    BY <1>15, <1>a, <2>h DEF StopCancel, TypeOK, Places, CurrentFits, CancelFits
  <2>3. CurrentFits'
    BY <1>15, <1>a, <2>h DEF StopCancel, TypeOK, Places, CurrentFits
  <2>4. CancelFits'
    BY <1>15, <1>a, <2>h DEF StopCancel, TypeOK, Places, CurrentFits, CancelFits
  <2>5. RestFits'
    BY <1>15, <1>a, <2>h DEF StopCancel, TypeOK, Places, CurrentFits, RestFits
  <2>6. WaitFits'
    BY <1>15, <1>a, <2>h, WaitKept
    DEF StopCancel, TypeOK, Places, CurrentFits, RestFits, WaitFits, Pending, Turn
  <2> QED BY <2>1, <2>2, <2>3, <2>4, <2>5, <2>6
<1>16. ASSUME StopClear  PROVE Inv'
  <2>h. heap' \in Seq(Jobs) /\ Distinct(heap') /\ InHeap' = {}
    BY <1>16, HeapCleared DEF StopClear
  <2>1. TypeOK'
    BY <1>16, <1>a, <2>h DEF StopClear, TypeOK
  <2>2. Places'
    BY <1>16, <1>a, <2>h DEF StopClear, TypeOK, Places, CurrentFits, CancelFits
  <2>3. CurrentFits'
    BY <1>16, <1>a, <2>h DEF StopClear, TypeOK, Places, CurrentFits
  <2>4. CancelFits'
    BY <1>16, <1>a, <2>h DEF StopClear, TypeOK, Places, CurrentFits, CancelFits
  <2>5. RestFits'
    BY <1>16, <1>a, <2>h DEF StopClear, TypeOK, Places, CurrentFits, RestFits
  <2>6. WaitFits'
    BY <1>16, <1>a, <2>h, WaitKept
    DEF StopClear, TypeOK, Places, CurrentFits, RestFits, WaitFits, Pending, Turn
  <2> QED BY <2>1, <2>2, <2>3, <2>4, <2>5, <2>6
<1>17. ASSUME StopFlag  PROVE Inv'
  <2>h. heap' \in Seq(Jobs) /\ Distinct(heap') /\ InHeap' = InHeap
    BY <1>17, <1>a, HeapKept DEF StopFlag
  <2>1. TypeOK'
    BY <1>17, <1>a, <2>h DEF StopFlag, TypeOK
  <2>2. Places'
    BY <1>17, <1>a, <2>h DEF StopFlag, TypeOK, Places, CurrentFits, CancelFits
  <2>3. CurrentFits'
    BY <1>17, <1>a, <2>h DEF StopFlag, TypeOK, Places, CurrentFits
  <2>4. CancelFits'
    BY <1>17, <1>a, <2>h DEF StopFlag, TypeOK, Places, CurrentFits, CancelFits
  <2>5. RestFits'
    BY <1>17, <1>a, <2>h DEF StopFlag, TypeOK, Places, CurrentFits, RestFits
  <2>6. WaitFits'
    BY <1>17, <1>a, <2>h, WaitKept
    DEF StopFlag, TypeOK, Places, CurrentFits, RestFits, WaitFits, Pending, Turn
  <2> QED BY <2>1, <2>2, <2>3, <2>4, <2>5, <2>6
<1>18. ASSUME StopJoin  PROVE Inv'
  <2>h. heap' \in Seq(Jobs) /\ Distinct(heap') /\ InHeap' = InHeap
    BY <1>18, <1>a, HeapKept DEF StopJoin
  <2>1. TypeOK'
    BY <1>18, <1>a, <2>h DEF StopJoin, TypeOK
  <2>2. Places'
    BY <1>18, <1>a, <2>h DEF StopJoin, TypeOK, Places, CurrentFits, CancelFits
  <2>3. CurrentFits'
    BY <1>18, <1>a, <2>h DEF StopJoin, TypeOK, Places, CurrentFits
  <2>4. CancelFits'
    BY <1>18, <1>a, <2>h DEF StopJoin, TypeOK, Places, CurrentFits, CancelFits
  <2>5. RestFits'
    BY <1>18, <1>a, <2>h DEF StopJoin, TypeOK, Places, CurrentFits, RestFits
  <2>6. WaitFits'
    BY <1>18, <1>a, <2>h, WaitKept
    DEF StopJoin, TypeOK, Places, CurrentFits, RestFits, WaitFits, Pending, Turn
  <2> QED BY <2>1, <2>2, <2>3, <2>4, <2>5, <2>6
<1>19. ASSUME ClearReturns  PROVE Inv'
  <2>h. heap' \in Seq(Jobs) /\ Distinct(heap') /\ InHeap' = InHeap
    BY <1>19, <1>a, HeapKept DEF ClearReturns
  <2>1. TypeOK'
    BY <1>19, <1>a, <2>h DEF ClearReturns, TypeOK
  <2>2. Places'
    BY <1>19, <1>a, <2>h DEF ClearReturns, TypeOK, Places, CurrentFits, CancelFits
  <2>3. CurrentFits'
    BY <1>19, <1>a, <2>h DEF ClearReturns, TypeOK, Places, CurrentFits
  <2>4. CancelFits'
    BY <1>19, <1>a, <2>h DEF ClearReturns, TypeOK, Places, CurrentFits, CancelFits
  <2>5. RestFits'
    BY <1>19, <1>a, <2>h DEF ClearReturns, TypeOK, Places, CurrentFits, RestFits
  <2>6. WaitFits'
    BY <1>19, <1>a, <2>h, WaitKept
    DEF ClearReturns, TypeOK, Places, CurrentFits, RestFits, WaitFits, Pending, Turn
  <2> QED BY <2>1, <2>2, <2>3, <2>4, <2>5, <2>6
<1>20. ASSUME StopTimeout  PROVE Inv'
  <2>h. heap' \in Seq(Jobs) /\ Distinct(heap') /\ InHeap' = InHeap
    BY <1>20, <1>a, HeapKept DEF StopTimeout
  <2>1. TypeOK'
    BY <1>20, <1>a, <2>h DEF StopTimeout, TypeOK
  <2>2. Places'
    BY <1>20, <1>a, <2>h DEF StopTimeout, TypeOK, Places, CurrentFits, CancelFits
  <2>3. CurrentFits'
    BY <1>20, <1>a, <2>h DEF StopTimeout, TypeOK, Places, CurrentFits
  <2>4. CancelFits'
    BY <1>20, <1>a, <2>h DEF StopTimeout, TypeOK, Places, CurrentFits, CancelFits
  <2>5. RestFits'
    BY <1>20, <1>a, <2>h DEF StopTimeout, TypeOK, Places, CurrentFits, RestFits
  <2>6. WaitFits'
    BY <1>20, <1>a, <2>h, WaitKept
    DEF StopTimeout, TypeOK, Places, CurrentFits, RestFits, WaitFits, Pending, Turn
  <2> QED BY <2>1, <2>2, <2>3, <2>4, <2>5, <2>6
<1>21. ASSUME WakeForNothing  PROVE Inv'
  <2>h. heap' \in Seq(Jobs) /\ Distinct(heap') /\ InHeap' = InHeap
    BY <1>21, <1>a, HeapKept DEF WakeForNothing
  <2>1. TypeOK'
    BY <1>21, <1>a, <2>h DEF WakeForNothing, TypeOK
  <2>2. Places'
    BY <1>21, <1>a, <2>h DEF WakeForNothing, TypeOK, Places, CurrentFits, CancelFits
  <2>3. CurrentFits'
    BY <1>21, <1>a, <2>h DEF WakeForNothing, TypeOK, Places, CurrentFits
  <2>4. CancelFits'
    BY <1>21, <1>a, <2>h DEF WakeForNothing, TypeOK, Places, CurrentFits, CancelFits
  <2>5. RestFits'
    BY <1>21, <1>a, <2>h DEF WakeForNothing, TypeOK, Places, CurrentFits, RestFits
  <2>6. WaitFits'
    BY <1>21, <1>a, <2>h, WaitKept
    DEF WakeForNothing, TypeOK, Places, CurrentFits, RestFits, WaitFits, Pending, Turn
  <2> QED BY <2>1, <2>2, <2>3, <2>4, <2>5, <2>6
<1>22. ASSUME WaitForAll  PROVE Inv'
  <2>h. heap' \in Seq(Jobs) /\ Distinct(heap') /\ InHeap' = InHeap
    BY <1>22, <1>a, HeapKept DEF WaitForAll
  <2>1. TypeOK'
    <3>1. awaited' \subseteq Jobs /\ owed' = Cardinality(awaited')
      BY <1>22, <1>a DEF WaitForAll, TypeOK
    <3>2. owed' \in Nat
      BY <3>1, WorkerAssumption, FS_Subset, FS_CardinalityType
    <3> QED BY <1>22, <1>a, <2>h, <3>1, <3>2 DEF WaitForAll, TypeOK
  <2>2. Places'
    BY <1>22, <1>a, <2>h DEF WaitForAll, TypeOK, Places, CurrentFits, CancelFits
  <2>3. CurrentFits'
    BY <1>22, <1>a, <2>h DEF WaitForAll, TypeOK, Places, CurrentFits
  <2>4. CancelFits'
    BY <1>22, <1>a, <2>h DEF WaitForAll, TypeOK, Places, CurrentFits, CancelFits
  <2>5. RestFits'
    BY <1>22, <1>a, <2>h DEF WaitForAll, TypeOK, Places, CurrentFits, RestFits
  <2>6. WaitFits'
    <3>1. /\ promised' = (InHeap \cup {current}) \ {NoJob}
          /\ awaited' = promised' \ done /\ owed' = Cardinality(awaited')
          /\ UNCHANGED <<current, pc, done, gone, timed, unused>>
      BY <1>22 DEF WaitForAll
    <3>2. Pending' \subseteq awaited' /\ awaited' \subseteq Jobs
      BY <1>a, <3>1 DEF TypeOK, Pending
    <3>3. Cardinality(Pending') <= owed'
      BY <3>1, <3>2, WorkerAssumption, FS_Subset
    <3>4. \A j \in awaited' \cup promised' : j \notin unused' /\ (j \in OneShot => j \notin timed')
      BY <1>a, <3>1 DEF TypeOK, Places, CurrentFits
    <3>5. \A j \in OneShot : j \in promised' => j \in done' \/ j \in gone' \/ j \in Pending'
      BY <1>a, <2>h, <3>1 DEF TypeOK, CurrentFits, Pending, Turn
    <3>6. pc' \in {"asleep", "awake"} => awaited' \subseteq OneShot
      BY <1>a, <3>1, <3>2 DEF RestFits
    <3>7. waiter' = "waiting"
      BY <1>22 DEF WaitForAll
    <3> QED BY <3>3, <3>4, <3>5, <3>6, <3>7 DEF WaitFits
  <2> QED BY <2>1, <2>2, <2>3, <2>4, <2>5, <2>6
<1>23. ASSUME WaitDone  PROVE Inv'
  <2>h. heap' \in Seq(Jobs) /\ Distinct(heap') /\ InHeap' = InHeap
    BY <1>23, <1>a, HeapKept DEF WaitDone
  <2>1. TypeOK'
    BY <1>23, <1>a, <2>h DEF WaitDone, TypeOK
  <2>2. Places'
    BY <1>23, <1>a, <2>h DEF WaitDone, TypeOK, Places, CurrentFits, CancelFits
  <2>3. CurrentFits'
    BY <1>23, <1>a, <2>h DEF WaitDone, TypeOK, Places, CurrentFits
  <2>4. CancelFits'
    BY <1>23, <1>a, <2>h DEF WaitDone, TypeOK, Places, CurrentFits, CancelFits
  <2>5. RestFits'
    BY <1>23, <1>a, <2>h DEF WaitDone, TypeOK, Places, CurrentFits, RestFits
  <2>6. WaitFits'
    <3>1. IsFiniteSet(Pending) /\ Cardinality(Pending) \in Nat
      BY <1>a, PendingCounted
    <3>2. Cardinality(Pending) <= owed => Pending = {}
      BY <1>23, <3>1, FS_EmptySet DEF WaitDone
    <3>3. Settled /\ Settled'
      BY <1>23, <3>2 DEF WaitDone, WaitFits, Settled
    <3> QED BY <1>23, <3>3 DEF WaitDone, WaitFits
  <2> QED BY <2>1, <2>2, <2>3, <2>4, <2>5, <2>6
<1>24. ASSUME WaitTimeout  PROVE Inv'
  <2>h. heap' \in Seq(Jobs) /\ Distinct(heap') /\ InHeap' = InHeap
    BY <1>24, <1>a, HeapKept DEF WaitTimeout
  <2>1. TypeOK'
    BY <1>24, <1>a, <2>h DEF WaitTimeout, TypeOK
  <2>2. Places'
    BY <1>24, <1>a, <2>h DEF WaitTimeout, TypeOK, Places, CurrentFits, CancelFits
  <2>3. CurrentFits'
    BY <1>24, <1>a, <2>h DEF WaitTimeout, TypeOK, Places, CurrentFits
  <2>4. CancelFits'
    BY <1>24, <1>a, <2>h DEF WaitTimeout, TypeOK, Places, CurrentFits, CancelFits
  <2>5. RestFits'
    BY <1>24, <1>a, <2>h DEF WaitTimeout, TypeOK, Places, CurrentFits, RestFits
  <2>6. WaitFits'
    BY <1>24, <1>a, <2>h, WaitKept
    DEF WaitTimeout, TypeOK, Places, CurrentFits, RestFits, WaitFits, Pending, Turn
  <2> QED BY <2>1, <2>2, <2>3, <2>4, <2>5, <2>6
<1>25. ASSUME NEW j \in Jobs, AddJob(j)  PROVE Inv'
  <2>s. InHeap \cup {j} \in SUBSET Jobs /\ heap' \in MakeHeap(InHeap \cup {j}, prio)
    BY <1>25, <1>a DEF AddJob
  <2>h. heap' \in Seq(Jobs) /\ Distinct(heap') /\ InHeap' = InHeap \cup {j}
    BY <1>25, <1>a, <2>s, HeapMade
  <2>1. TypeOK'
    BY <1>25, <1>a, <2>h DEF AddJob, TypeOK
  <2>2. Places'
    BY <1>25, <1>a, <2>h DEF AddJob, TypeOK, Places, CurrentFits, CancelFits
  <2>3. CurrentFits'
    BY <1>25, <1>a, <2>h DEF AddJob, TypeOK, Places, CurrentFits
  <2>4. CancelFits'
    BY <1>25, <1>a, <2>h DEF AddJob, TypeOK, Places, CurrentFits, CancelFits
  <2>5. RestFits'
    BY <1>25, <1>a, <2>h DEF AddJob, TypeOK, Places, CurrentFits, RestFits
  <2>6. WaitFits'
    <3>1. j \in unused /\ j \notin awaited /\ UNCHANGED <<waiting, current, timed, done, gone>>
          /\ unused' \subseteq unused
      BY <1>25, <1>a DEF AddJob, WaitFits, clients, flags
    <3>2. pc' = pc \/ (pc = "asleep" /\ pc' = "awake")
      BY <1>25 DEF AddJob, Notify
    <3>3. Pending' = Pending
      BY <2>h, <3>1, <3>2 DEF Pending, Turn, waiting
    <3> QED BY <1>a, <3>1, <3>2, <3>3, WaitKept
  <2> QED BY <2>1, <2>2, <2>3, <2>4, <2>5, <2>6
<1>26. ASSUME NEW j \in Jobs, AddJobWithHighestPriority(j)  PROVE Inv'
  <2>s. InHeap \cup {j} \in SUBSET Jobs /\ heap' \in MakeHeap(InHeap \cup {j}, prio')
    BY <1>26, <1>a DEF AddJobWithHighestPriority
  <2>h. heap' \in Seq(Jobs) /\ Distinct(heap') /\ InHeap' = InHeap \cup {j}
    BY <1>26, <1>a, <2>s, HeapMade
  <2>1. TypeOK'
    BY <1>26, <1>a, <2>h DEF AddJobWithHighestPriority, TypeOK
  <2>2. Places'
    BY <1>26, <1>a, <2>h DEF AddJobWithHighestPriority, TypeOK, Places, CurrentFits, CancelFits
  <2>3. CurrentFits'
    BY <1>26, <1>a, <2>h DEF AddJobWithHighestPriority, TypeOK, Places, CurrentFits
  <2>4. CancelFits'
    BY <1>26, <1>a, <2>h DEF AddJobWithHighestPriority, TypeOK, Places, CurrentFits, CancelFits
  <2>5. RestFits'
    BY <1>26, <1>a, <2>h DEF AddJobWithHighestPriority, TypeOK, Places, CurrentFits, RestFits
  <2>6. WaitFits'
    <3>1. j \in unused /\ j \notin awaited /\ UNCHANGED <<waiting, current, timed, done, gone>>
          /\ unused' \subseteq unused
      BY <1>26, <1>a DEF AddJobWithHighestPriority, WaitFits, clients, flags
    <3>2. pc' = pc \/ (pc = "asleep" /\ pc' = "awake")
      BY <1>26 DEF AddJobWithHighestPriority, Notify
    <3>3. Pending' = Pending
      BY <2>h, <3>1, <3>2 DEF Pending, Turn, waiting
    <3> QED BY <1>a, <3>1, <3>2, <3>3, WaitKept
  <2> QED BY <2>1, <2>2, <2>3, <2>4, <2>5, <2>6
<1>27. ASSUME NEW j \in Jobs, AddTimedJob(j)  PROVE Inv'
  <2>h. heap' \in Seq(Jobs) /\ Distinct(heap') /\ InHeap' = InHeap
    BY <1>27, <1>a, HeapKept DEF AddTimedJob
  <2>1. TypeOK'
    BY <1>27, <1>a, <2>h DEF AddTimedJob, TypeOK
  <2>2. Places'
    BY <1>27, <1>a, <2>h DEF AddTimedJob, TypeOK, Places, CurrentFits, CancelFits
  <2>3. CurrentFits'
    BY <1>27, <1>a, <2>h DEF AddTimedJob, TypeOK, Places, CurrentFits
  <2>4. CancelFits'
    BY <1>27, <1>a, <2>h DEF AddTimedJob, TypeOK, Places, CurrentFits, CancelFits
  <2>5. RestFits'
    BY <1>27, <1>a, <2>h DEF AddTimedJob, TypeOK, Places, CurrentFits, RestFits
  <2>6. WaitFits'
    BY <1>27, <1>a, <2>h, WaitKept
    DEF AddTimedJob, TypeOK, Places, CurrentFits, RestFits, WaitFits, Pending, Turn
  <2> QED BY <2>1, <2>2, <2>3, <2>4, <2>5, <2>6
<1>28. ASSUME NEW j \in Jobs, BecomeDue(j)  PROVE Inv'
  <2>h. heap' \in Seq(Jobs) /\ Distinct(heap') /\ InHeap' = InHeap
    BY <1>28, <1>a, HeapKept DEF BecomeDue
  <2>1. TypeOK'
    BY <1>28, <1>a, <2>h DEF BecomeDue, TypeOK
  <2>2. Places'
    BY <1>28, <1>a, <2>h DEF BecomeDue, TypeOK, Places, CurrentFits, CancelFits
  <2>3. CurrentFits'
    BY <1>28, <1>a, <2>h DEF BecomeDue, TypeOK, Places, CurrentFits
  <2>4. CancelFits'
    BY <1>28, <1>a, <2>h DEF BecomeDue, TypeOK, Places, CurrentFits, CancelFits
  <2>5. RestFits'
    BY <1>28, <1>a, <2>h DEF BecomeDue, TypeOK, Places, CurrentFits, RestFits
  <2>6. WaitFits'
    BY <1>28, <1>a, <2>h, WaitKept
    DEF BecomeDue, TypeOK, Places, CurrentFits, RestFits, WaitFits, Pending, Turn
  <2> QED BY <2>1, <2>2, <2>3, <2>4, <2>5, <2>6
<1>29. ASSUME NEW j \in Jobs, CancelCurrent(j)  PROVE Inv'
  <2>h. heap' \in Seq(Jobs) /\ Distinct(heap') /\ InHeap' = InHeap
    BY <1>29, <1>a, HeapKept DEF CancelCurrent
  <2>1. TypeOK'
    BY <1>29, <1>a, <2>h DEF CancelCurrent, TypeOK
  <2>2. Places'
    BY <1>29, <1>a, <2>h DEF CancelCurrent, TypeOK, Places, CurrentFits, CancelFits
  <2>3. CurrentFits'
    BY <1>29, <1>a, <2>h DEF CancelCurrent, TypeOK, Places, CurrentFits
  <2>4. CancelFits'
    BY <1>29, <1>a, <2>h DEF CancelCurrent, TypeOK, Places, CurrentFits, CancelFits
  <2>5. RestFits'
    BY <1>29, <1>a, <2>h DEF CancelCurrent, TypeOK, Places, CurrentFits, RestFits
  <2>6. WaitFits'
    BY <1>29, <1>a, <2>h, WaitKept
    DEF CancelCurrent, TypeOK, Places, CurrentFits, RestFits, WaitFits, Pending, Turn
  <2> QED BY <2>1, <2>2, <2>3, <2>4, <2>5, <2>6
<1>30. ASSUME NEW j \in Jobs, CancelQueued(j)  PROVE Inv'
  <2>h. heap' \in Seq(Jobs) /\ Distinct(heap') /\ InHeap' = InHeap \ {j}
    BY <1>30, <1>a, HeapErased DEF CancelQueued
  <2>1. TypeOK'
    BY <1>30, <1>a, <2>h DEF CancelQueued, TypeOK
  <2>2. Places'
    BY <1>30, <1>a, <2>h DEF CancelQueued, TypeOK, Places, CurrentFits, CancelFits
  <2>3. CurrentFits'
    BY <1>30, <1>a, <2>h DEF CancelQueued, TypeOK, Places, CurrentFits
  <2>4. CancelFits'
    BY <1>30, <1>a, <2>h DEF CancelQueued, TypeOK, Places, CurrentFits, CancelFits
  <2>5. RestFits'
    BY <1>30, <1>a, <2>h DEF CancelQueued, TypeOK, Places, CurrentFits, RestFits
  <2>6. WaitFits'
    BY <1>30, <1>a, <2>h, WaitKept
    DEF CancelQueued, TypeOK, Places, CurrentFits, RestFits, WaitFits, Pending, Turn
  <2> QED BY <2>1, <2>2, <2>3, <2>4, <2>5, <2>6
<1>31. ASSUME NEW j \in Jobs, RemoveReoccurring(j)  PROVE Inv'
  <2>h. heap' \in Seq(Jobs) /\ Distinct(heap') /\ InHeap' = InHeap
    BY <1>31, <1>a, HeapKept DEF RemoveReoccurring
  <2>1. TypeOK'
    BY <1>31, <1>a, <2>h DEF RemoveReoccurring, TypeOK
  <2>2. Places'
    BY <1>31, <1>a, <2>h DEF RemoveReoccurring, TypeOK, Places, CurrentFits, CancelFits
  <2>3. CurrentFits'
    BY <1>31, <1>a, <2>h DEF RemoveReoccurring, TypeOK, Places, CurrentFits
  <2>4. CancelFits'
    BY <1>31, <1>a, <2>h DEF RemoveReoccurring, TypeOK, Places, CurrentFits, CancelFits
  <2>5. RestFits'
    BY <1>31, <1>a, <2>h DEF RemoveReoccurring, TypeOK, Places, CurrentFits, RestFits
  <2>6. WaitFits'
    BY <1>31, <1>a, <2>h, WaitKept
    DEF RemoveReoccurring, TypeOK, Places, CurrentFits, RestFits, WaitFits, Pending, Turn
  <2> QED BY <2>1, <2>2, <2>3, <2>4, <2>5, <2>6
<1>32. ASSUME UNCHANGED vars  PROVE Inv'
  <2>h. heap' \in Seq(Jobs) /\ Distinct(heap') /\ InHeap' = InHeap
    BY <1>32, <1>a, HeapKept DEF vars
  <2> QED
    BY <1>32, <1>a, <2>h DEF vars, TypeOK, Places, CurrentFits, CancelFits, RestFits, WaitFits,
           Settled, Pending, Turn
<1> QED
  BY <1>1, <1>2, <1>3, <1>4, <1>5, <1>6, <1>7, <1>8, <1>9, <1>10, <1>11, <1>12, <1>13, <1>14, <1>15, <1>16, <1>17, <1>18, <1>19, <1>20, <1>21, <1>22, <1>23, <1>24, <1>25, <1>26, <1>27, <1>28, <1>29, <1>30, <1>31, <1>32 DEF Next, Thread, Stopper, Terminated

\* The invariant holds initially.
LEMMA Start == Init => Inv
<1> SUFFICES ASSUME Init PROVE Inv
  OBVIOUS
<1>1. heap \in Seq(Jobs) /\ Distinct(heap) /\ InHeap = {}
  BY EmptyHeap DEF Init, InHeap, Elements
<1> QED
  BY <1>1, WorkerAssumption
  DEF Init, Inv, TypeOK, Places, CurrentFits, CancelFits, RestFits, WaitFits, OneShot, ThreadPCs

-----------------------------------------------------------------------------
(* The theorems.                                                           *)

\* The invariant of the worker's thread and its clients.
THEOREM Invariant == Spec => []Inv
<1>1. Init => Inv
  BY Start
<1>2. Inv /\ [Next]_vars => Inv'
  BY Step
<1> QED BY <1>1, <1>2, PTL DEF Spec

\* Worker never loses a job and never runs a one-shot job twice: m_heap,
\* m_timed_jobs and m_current_job agree with what clients added, cancelled
\* and cleared, for any number of jobs.
THEOREM BooksAreKept == Spec => []Accounted
<1>1. Inv => Accounted
  BY DEF Inv, TypeOK, Places, CurrentFits, Distinct, Accounted, OneShotRunsOnce,
         NoJobIsLost, OneShot
<1> QED BY <1>1, Invariant, PTL

\* After cancel_and_remove_job has returned true a one-shot job does not run,
\* whether the call found it running, in the heap or among the timed jobs.
THEOREM CancelledIsOver == Spec => []CancelledOneShotIsOver
<1>1. Inv => CancelledOneShotIsOver
  BY DEF Inv, CurrentFits, CancelFits, CancelledOneShotIsOver
<1> QED BY <1>1, Invariant, PTL

\* wait_for_all_jobs_completed, which counts signals, returns true only when
\* each one-shot job that was running or in the heap at the call has been run or
\* was taken out by a client, whatever reoccurring jobs ran meanwhile.
THEOREM WaitedIsDone == Spec => []WaitedJobsAreDone
<1>1. Inv => WaitedJobsAreDone
  BY DEF Inv, TypeOK, WaitFits, Settled, WaitedJobsAreDone, OneShot
<1> QED BY <1>1, Invariant, PTL
=============================================================================
