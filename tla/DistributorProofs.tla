-------------------------- MODULE DistributorProofs --------------------------
(***************************************************************************)
(* Proofs about Distributor, for media and queues of any length and any    *)
(* number of threads, as long as no wait is cut short by its time-out (if  *)
(* it is, the properties do not hold: see the run distributor_slow).  Then *)
(* the monitor and the client are never at work together, a clone is in    *)
(* graphs_ or out in a job, and a scheduled frame is queued, being decoded *)
(* or about to be queued.                                                  *)
(***************************************************************************)
EXTENDS Distributor, SequenceTheorems, FiniteSetTheorems, TLAPS

Distinct(s) == \A i, k \in 1..Len(s) : s[i] = s[k] => i = k

\* The threads that run a job.
Out == {t \in Threads : run[t] # Free}

\* The client is inside do_fetch, and inside its threaded part.
Threaded == {"looking", "deciding", "searching", "jumping", "cleaning", "planning",
             "adding", "adding_one", "peeking", "peeking_one",
             "enqueueing", "enqueueing_one", "waiting"}
Fetching == Threaded \cup {"looking_directly", "direct"}

Peeking == main \in {"peeking", "peeking_one"}
Enqueueing == main \in {"enqueueing", "enqueueing_one"}
Adding == main \in {"adding", "adding_one"} \/ Peeking \/ Enqueueing

CallTypes ==
  /\ main \in Phases
  /\ position \in Positions
  /\ requested \in Int /\ expected \in Int /\ direction \in Int /\ previous \in Int
  /\ active \in {0, 1}
  /\ initialised \in BOOLEAN
  /\ Adding => requested \in Positions

FrameTypes ==
  /\ lru \in Seq(Positions)
  /\ size \in {Queue, DefaultSize}
  /\ mine = Current \/ mine \in Seq(Positions)

WorkTypes ==
  /\ graphs \in Int
  /\ scheduled \subseteq Positions
  /\ jobs \in Seq(Positions)
  /\ run \in [Threads -> {Free} \cup [frame : Positions,
                                      at : {"decoding", "stored", "failed"}]]

ClockTypes ==
  /\ pool \in BOOLEAN
  /\ overdue \in BOOLEAN
  /\ enrolled \in BOOLEAN
  /\ monitor \in {"rest", "due", "cleaning", "dangling"}

\* The monitor does not take anything down while the client is in do_fetch.
MonitorFits ==
  /\ main \in Fetching => ~overdue
  /\ monitor = "cleaning" => main = "idle"
  /\ ~late

\* Where the clones are.
ClonesFit ==
  /\ main \in Threaded => initialised
  /\ main = "destroyed" => ~initialised
  /\ initialised => graphs = Count - Cardinality(Out)
  /\ ~initialised => graphs = 0 /\ Quiet
  /\ ~pool => Quiet

\* Every job queued or running is scheduled, and no two are for one frame.
JobsFit ==
  /\ Distinct(jobs)
  /\ Keys(jobs) \subseteq scheduled
  /\ \A u \in Out : run[u].frame \in scheduled /\ run[u].frame \notin Keys(jobs)
  /\ \A u, v \in Out : run[u].frame = run[v].frame => u = v
  /\ Peeking => requested \notin scheduled
  /\ Enqueueing => /\ requested \in scheduled /\ requested \notin Keys(jobs)
                   /\ \A u \in Out : run[u].frame # requested

\* Nothing else is scheduled, but what the client is about to queue.
ScheduleFits ==
  MutexFree =>
    \A p \in scheduled : \/ p \in Keys(jobs)
                         \/ \E u \in Out : run[u].frame = p
                         \/ Enqueueing /\ p = requested

Types == CallTypes /\ FrameTypes /\ WorkTypes /\ ClockTypes
Inv == Types /\ MonitorFits /\ ClonesFit /\ JobsFit /\ ScheduleFits

-----------------------------------------------------------------------------
(* Lists.                                                                  *)

\* A list of different frames, with one more at its end.
LEMMA KeysOfAppend ==
  ASSUME NEW S, NEW s \in Seq(S), Distinct(s), NEW p \in S, p \notin Keys(s)
  PROVE  /\ Append(s, p) \in Seq(S) /\ Distinct(Append(s, p))
         /\ Keys(Append(s, p)) = Keys(s) \cup {p}
<1> DEFINE w == Append(s, p)
<1>1. /\ w \in Seq(S) /\ Len(w) = Len(s) + 1 /\ Len(s) \in Nat
      /\ \A i \in 1..Len(s) : w[i] = s[i]
      /\ w[Len(s) + 1] = p
  BY AppendProperties, LenProperties
<1> HIDE DEF w
<1>2. \A i \in 1..Len(w) : i \in 1..Len(s) \/ i = Len(s) + 1
  BY <1>1
<1>3. \A i \in 1..Len(s) : i \in 1..Len(w)
  BY <1>1
<1>4. Len(w) \in 1..Len(w) /\ w[Len(w)] = p
  BY <1>1
<1>5. \A i \in 1..Len(s) : s[i] # p
  BY DEF Keys
<1>6. Distinct(w)
  BY <1>1, <1>2, <1>5 DEF Distinct
<1>7. Keys(w) = Keys(s) \cup {p}
  BY <1>1, <1>2, <1>3, <1>4 DEF Keys
<1> QED BY <1>1, <1>6, <1>7 DEF w

\* The list without its first frame.
LEMMA KeysOfTail ==
  ASSUME NEW S, NEW s \in Seq(S), Distinct(s), s # <<>>
  PROVE  /\ Head(s) \in S /\ Head(s) \in Keys(s)
         /\ Tail(s) \in Seq(S) /\ Distinct(Tail(s))
         /\ Keys(Tail(s)) = Keys(s) \ {Head(s)}
<1> DEFINE w == Tail(s)
<1>1. /\ w \in Seq(S) /\ Len(w) = Len(s) - 1 /\ Head(s) \in S
      /\ \A i \in 1..Len(w) : w[i] = s[i+1]
  BY HeadTailProperties
<1>2. Len(s) \in Nat \ {0} /\ Head(s) = s[1]
  BY EmptySeq
<1> HIDE DEF w
<1>3. /\ \A i \in 1..Len(w) : i+1 \in 1..Len(s) /\ i+1 # 1
      /\ \A i \in 1..Len(s) : i # 1 => i-1 \in 1..Len(w) /\ i-1+1 = i
      /\ 1 \in 1..Len(s)
  BY <1>1, <1>2
<1>4. \A i, k \in 1..Len(w) : i+1 = k+1 => i = k
  BY <1>1, <1>2
<1>5. Distinct(w)
  BY <1>1, <1>3, <1>4 DEF Distinct
<1>6. \A q \in Keys(w) : q \in Keys(s) /\ q # s[1]
  BY <1>1, <1>3 DEF Keys, Distinct
<1>7. \A q \in Keys(s) : q # s[1] => q \in Keys(w)
  <2> SUFFICES ASSUME NEW i \in 1..Len(s), s[i] # s[1]  PROVE s[i] \in Keys(w)
    BY DEF Keys
  <2>1. i-1 \in 1..Len(w) /\ w[i-1] = s[i]
    BY <1>1, <1>3
  <2> QED BY <2>1 DEF Keys
<1>8. s[1] \in Keys(s)
  BY <1>3 DEF Keys
<1> QED BY <1>1, <1>2, <1>5, <1>6, <1>7, <1>8 DEF w

\* The empty list.
LEMMA KeysOfNone == <<>> \in Seq(Positions) /\ Distinct(<<>>) /\ Keys(<<>>) = {}
BY EmptySeq DEF Distinct, Keys

\* What is kept of the lru is a list of frames again, ...
LEMMA NewestType ==
  ASSUME NEW S, NEW s \in Seq(S), NEW n \in Nat
  PROVE  Newest(s, n) \in Seq(S)
<1>1. Len(s) \in Nat /\ \A i \in 1..Len(s) : s[i] \in S
  BY LenProperties, ElementOfSeq
<1> DEFINE m == Greater(Len(s) - n, 0) + 1
<1>2. m \in Int /\ m >= 1
  BY <1>1 DEF Greater
<1> HIDE DEF m
<1>3. \A i \in m..Len(s) : s[i] \in S
  BY <1>1, <1>2
<1>4. SubSeq(s, m, Len(s)) \in Seq(S)
  BY <1>1, <1>2, <1>3, SubSeqProperties
<1> QED BY <1>4 DEF Newest, m

\* ... so is the lru with one frame used last, ...
LEMMA TouchedType ==
  ASSUME NEW S, NEW s \in Seq(S), NEW p \in S
  PROVE  Touched(s, p) \in Seq(S)
<1>1. Len(s) \in Nat /\ \A i \in 1..Len(s) : s[i] \in S
  BY LenProperties, ElementOfSeq
<1> DEFINE at == CHOOSE i \in 1..Len(s) : s[i] = p
           w == [i \in 1..Len(s) |->
                   IF i < at THEN s[i] ELSE IF i < Len(s) THEN s[i+1] ELSE p]
<1>2. Touched(s, p) = w
  BY DEF Touched
<1> HIDE DEF at
<1>3. \A i \in 1..Len(s) : i < Len(s) => i+1 \in 1..Len(s)
  BY <1>1
<1>4. w \in [1..Len(s) -> S]
  BY <1>1, <1>3
<1> QED BY <1>1, <1>2, <1>4, SeqDef

\* ... and the lru with one more frame.
LEMMA AppendedType ==
  ASSUME NEW S, NEW s \in Seq(S), NEW p \in S, size \in Nat
  PROVE  Appended(s, p) \in Seq(S)
<1>1. Append(s, p) \in Seq(S)
  BY AppendProperties
<1> QED BY <1>1, TouchedType, NewestType DEF Appended

-----------------------------------------------------------------------------
(* Threads and waits.                                                      *)

\* The pool is quiet when nothing is queued and no thread is out.
LEMMA QuietIsNoneOut == WorkTypes => (Quiet <=> jobs = <<>> /\ Out = {})
BY DEF WorkTypes, Quiet, Out

\* A free thread is at no frame.
LEMMA Freed == Free.frame = NoFrame /\ Free.at = "free"
BY DEF Free

\* A thread that is not free decodes a frame of the media.
LEMMA OutIsAtFrame ==
  ASSUME WorkTypes, NEW t \in Threads
  PROVE  /\ t \in Out => run[t].frame \in Positions
         /\ t \in Out <=> run[t].at \in {"decoding", "stored", "failed"}
<1>1. CASE run[t] = Free
  BY <1>1, Freed DEF Out
<1>2. CASE run[t] \in [frame : Positions, at : {"decoding", "stored", "failed"}]
  <2>1. run[t].at # "free"
    BY <1>2
  <2>2. run[t] # Free
    BY <2>1, Freed
  <2> QED BY <1>2, <2>2 DEF Out
<1> QED BY <1>1, <1>2 DEF WorkTypes

\* A job that starts takes the first frame from the queue to a free thread.
LEMMA StartMoves ==
  ASSUME WorkTypes, Distinct(jobs), NEW t \in Threads, StartJob(t)
  PROVE  /\ t \notin Out /\ Out' = Out \cup {t}
         /\ Head(jobs) \in Positions /\ Head(jobs) \in Keys(jobs)
         /\ jobs' \in Seq(Positions) /\ Distinct(jobs') /\ Keys(jobs') = Keys(jobs) \ {Head(jobs)}
         /\ run' = [run EXCEPT ![t] = [frame |-> Head(jobs), at |-> "decoding"]]
         /\ run'[t].frame = Head(jobs)
         /\ \A u \in Threads : u # t => run'[u] = run[u]
<1>1. /\ Head(jobs) \in Positions /\ Head(jobs) \in Keys(jobs)
      /\ jobs' \in Seq(Positions) /\ Distinct(jobs') /\ Keys(jobs') = Keys(jobs) \ {Head(jobs)}
  BY KeysOfTail DEF WorkTypes, StartJob
<1>2. /\ run' = [run EXCEPT ![t] = [frame |-> Head(jobs), at |-> "decoding"]]
      /\ run'[t] = [frame |-> Head(jobs), at |-> "decoding"]
      /\ \A u \in Threads : u # t => run'[u] = run[u]
  BY DEF WorkTypes, StartJob
<1>3. run'[t] # Free
  BY <1>2, Freed
<1>4. t \notin Out /\ Out' = Out \cup {t}
  BY <1>2, <1>3 DEF Out, StartJob
<1> QED BY <1>1, <1>2, <1>4

\* Storing a frame, or failing to, leaves every thread at its frame.
LEMMA StoreMoves ==
  ASSUME WorkTypes, NEW t \in Threads, StoreFrame(t) \/ Throw(t)
  PROVE  /\ t \in Out /\ Out' = Out
         /\ \A u \in Threads : run'[u].frame = run[u].frame
         /\ run' \in [Threads -> {Free} \cup [frame : Positions,
                                              at : {"decoding", "stored", "failed"}]]
<1>1. t \in Out /\ run[t] \in [frame : Positions, at : {"decoding", "stored", "failed"}]
  <2>1. run[t].at = "decoding"
    BY DEF StoreFrame, Throw
  <2>2. t \in Out
    BY <2>1, OutIsAtFrame
  <2> QED BY <2>2 DEF WorkTypes, Out
<1>2. PICK what \in {"stored", "failed"} : run' = [run EXCEPT ![t].at = what]
  BY DEF StoreFrame, Throw
<1>3. /\ run'[t] \in [frame : Positions, at : {"decoding", "stored", "failed"}]
      /\ run'[t].frame = run[t].frame /\ run'[t].at = what
      /\ \A u \in Threads : u # t => run'[u] = run[u]
  BY <1>1, <1>2 DEF WorkTypes
<1>4. run'[t] # Free
  BY <1>3, Freed
<1>5. Out' = Out
  BY <1>1, <1>3, <1>4 DEF Out
<1>6. \A u \in Threads : run'[u].frame = run[u].frame
  BY <1>3
<1>7. run' \in [Threads -> {Free} \cup [frame : Positions,
                                        at : {"decoding", "stored", "failed"}]]
  BY <1>2, <1>3 DEF WorkTypes
<1> QED BY <1>1, <1>5, <1>6, <1>7

\* The clone is returned and the thread is free again.
LEMMA ReturnMoves ==
  ASSUME WorkTypes, NEW t \in Threads, ReturnGraph(t)
  PROVE  /\ t \in Out /\ Out' = Out \ {t}
         /\ run' = [run EXCEPT ![t] = Free]
         /\ \A u \in Threads : u # t => run'[u] = run[u]
<1>1. t \in Out
  <2>1. run[t].at \in {"stored", "failed"}
    BY DEF ReturnGraph
  <2> QED BY <2>1, OutIsAtFrame
<1>2. /\ run' = [run EXCEPT ![t] = Free] /\ run'[t] = Free
      /\ \A u \in Threads : u # t => run'[u] = run[u]
  BY DEF WorkTypes, ReturnGraph
<1> QED BY <1>1, <1>2 DEF Out

\* A wait that no time-out ends finds the pool at rest.
LEMMA WaitIsOver ==
  ASSUME Types, ClonesFit, MonitorFits, ~Slow, Waited
  PROVE  Quiet /\ jobs = <<>> /\ Out = {} /\ ~late'
<1>1. Quiet
  BY DEF Waited, ClonesFit
<1> QED BY <1>1, QuietIsNoneOut DEF Waited, MonitorFits, Types

-----------------------------------------------------------------------------
(* Every step keeps the invariant.                                         *)

\* Positions are whole numbers, ...
LEMMA WholePositions == \A p \in Positions : p \in Int
BY DistributorAssumption DEF Positions

\* ... and there is a first one.
LEMMA FirstPosition == 0 \in Positions
BY DistributorAssumption DEF Positions

\* What the client is about to schedule is in the media.
LEMMA ReachIsInMedia ==
  ASSUME CallTypes, InReach(requested)
  PROVE  requested \in Positions
<1>1. Abs(direction) \in Int /\ Queue \div 2 \in Int
  BY DistributorAssumption DEF CallTypes, Abs
<1>2. Reach \in Int
  BY <1>1 DEF Reach
<1> HIDE DEF Reach
<1> QED
  BY <1>2, DistributorAssumption DEF CallTypes, InReach, Positions, Greater, Lesser

\* The direction of play is a number, ...
LEMMA TurnedType ==
  ASSUME CallTypes, Turned
  PROVE  direction' \in Int
<1>1. position \in Int /\ previous \in Int
  BY WholePositions DEF CallTypes
<1>2. position - previous \in Int
  BY <1>1
<1> QED BY <1>2 DEF Turned

\* ... and so is the next frame asked for, after one was added.
LEMMA AddedType ==
  ASSUME CallTypes, NEW one, Added(one)
  PROVE  direction' \in Int /\ requested' \in Int /\ main' \in {"waiting", "planning"}
<1>1. requested + direction \in Int
  BY DEF CallTypes
<1>2. CASE one
  BY <1>2, TurnedType DEF CallTypes, Added, AddedOne
<1>3. CASE ~one
  BY <1>1, <1>3 DEF CallTypes, Added, AddedNext
<1> QED BY <1>2, <1>3

\* The client.
LEMMA CallTypesStep ==
  ASSUME Inv, ~Slow, [Next]_vars
  PROVE  CallTypes'
<1> USE DistributorAssumption DEF Inv, Types, CallTypes, Phases, Holding, Adding, Peeking, Enqueueing, call, work, frames, clock, watch, vars
<1>1. ASSUME NEW p \in Positions, Fetch(p)  PROVE CallTypes'
  BY <1>1 DEF Fetch
<1>2. ASSUME LookUp  PROVE CallTypes'
  BY <1>2 DEF LookUp
<1>3. ASSUME FetchDirectly  PROVE CallTypes'
  BY <1>3, FirstPosition, WholePositions DEF FetchDirectly, EndFetch
<1>4. ASSUME DecideExpected  PROVE CallTypes'
  BY <1>4 DEF DecideExpected
<1>5. ASSUME DecideScheduled  PROVE CallTypes'
  BY <1>5, TurnedType DEF DecideScheduled
<1>6. ASSUME DecideCached  PROVE CallTypes'
  BY <1>6, TurnedType DEF DecideCached
<1>7. ASSUME Jump  PROVE CallTypes'
  BY <1>7 DEF Jump
<1>8. ASSUME Jumped  PROVE CallTypes'
  BY <1>8, WholePositions DEF Jumped
<1>9. ASSUME Plan  PROVE CallTypes'
  <2>1. InReach(requested) => requested \in Positions
    BY ReachIsInMedia
  <2> QED BY <1>9, <2>1 DEF Plan
<1>10. ASSUME AddScheduled  PROVE CallTypes'
  BY <1>10, AddedType DEF AddScheduled
<1>11. ASSUME AddCached  PROVE CallTypes'
  BY <1>11, AddedType DEF AddCached
<1>12. ASSUME Enqueue  PROVE CallTypes'
  BY <1>12, AddedType DEF Enqueue
<1>13. ASSUME GetFrame  PROVE CallTypes'
  BY <1>13, FirstPosition, WholePositions DEF GetFrame, Finish, EndFetch
<1>14. ASSUME GetNothing  PROVE CallTypes'
  BY <1>14, FirstPosition, WholePositions DEF GetNothing, Finish, EndFetch
<1>15. ASSUME Sync  PROVE CallTypes'
  BY <1>15 DEF Sync, Begin
<1>16. ASSUME SyncGraphs  PROVE CallTypes'
  BY <1>16 DEF SyncGraphs
<1>17. ASSUME Destroy  PROVE CallTypes'
  BY <1>17 DEF Destroy, Begin
<1>18. ASSUME Released  PROVE CallTypes'
  BY <1>18 DEF Released, ReleasePool
<1>19. ASSUME TimePasses  PROVE CallTypes'
  BY <1>19 DEF TimePasses
<1>20. ASSUME MonitorDue  PROVE CallTypes'
  BY <1>20 DEF MonitorDue
<1>21. ASSUME Monitor  PROVE CallTypes'
  BY <1>21 DEF Monitor
<1>22. ASSUME MonitorReleases  PROVE CallTypes'
  BY <1>22 DEF MonitorReleases, ReleasePool
<1>23. ASSUME NEW a \in {0, 1}, SetActive(a)  PROVE CallTypes'
  BY <1>23 DEF SetActive, Begin
<1>24. ASSUME NEW t \in Threads, StartJob(t)  PROVE CallTypes'
  BY <1>24 DEF StartJob
<1>25. ASSUME NEW t \in Threads, StoreFrame(t)  PROVE CallTypes'
  BY <1>25 DEF StoreFrame
<1>26. ASSUME NEW t \in Threads, Throw(t)  PROVE CallTypes'
  BY <1>26 DEF Throw
<1>27. ASSUME NEW t \in Threads, ReturnGraph(t)  PROVE CallTypes'
  BY <1>27 DEF ReturnGraph
<1>28. ASSUME UNCHANGED vars  PROVE CallTypes'
  BY <1>28
<1> QED
  BY <1>1, <1>2, <1>3, <1>4, <1>5, <1>6, <1>7, <1>8, <1>9, <1>10, <1>11, <1>12, <1>13, <1>14, <1>15, <1>16, <1>17, <1>18, <1>19, <1>20, <1>21, <1>22, <1>23, <1>24, <1>25, <1>26, <1>27, <1>28 DEF Next, Client, Thread, Destroyed

\* A new lru is an empty list.
LEMMA NoLru == <<>> \in Seq(Positions)
BY EmptySeq

\* The lru.
LEMMA FrameTypesStep ==
  ASSUME Inv, ~Slow, [Next]_vars
  PROVE  FrameTypes'
<1> USE DistributorAssumption DEF Inv, Types, FrameTypes, CallTypes, Holding, call, work, frames, clock, watch, vars
<1>1. ASSUME NEW p \in Positions, Fetch(p)  PROVE FrameTypes'
  BY <1>1, NoLru DEF Fetch, Deallocate
<1>2. ASSUME LookUp  PROVE FrameTypes'
  BY <1>2, NewestType DEF LookUp
<1>3. ASSUME FetchDirectly  PROVE FrameTypes'
  BY <1>3, TouchedType, AppendedType DEF FetchDirectly, Finish, EndFetch, Mine, DefaultSize
<1>4. ASSUME DecideExpected  PROVE FrameTypes'
  BY <1>4 DEF DecideExpected
<1>5. ASSUME DecideScheduled  PROVE FrameTypes'
  BY <1>5 DEF DecideScheduled
<1>6. ASSUME DecideCached  PROVE FrameTypes'
  BY <1>6, TouchedType DEF DecideCached, Peeking, Adding, Enqueueing
<1>7. ASSUME Jump  PROVE FrameTypes'
  BY <1>7 DEF Jump
<1>8. ASSUME Jumped  PROVE FrameTypes'
  BY <1>8 DEF Jumped
<1>9. ASSUME Plan  PROVE FrameTypes'
  BY <1>9 DEF Plan
<1>10. ASSUME AddScheduled  PROVE FrameTypes'
  BY <1>10 DEF AddScheduled
<1>11. ASSUME AddCached  PROVE FrameTypes'
  BY <1>11, TouchedType DEF AddCached, Peeking, Adding, Enqueueing
<1>12. ASSUME Enqueue  PROVE FrameTypes'
  BY <1>12 DEF Enqueue
<1>13. ASSUME GetFrame  PROVE FrameTypes'
  BY <1>13, TouchedType, AppendedType DEF GetFrame, Finish, EndFetch, Mine, DefaultSize
<1>14. ASSUME GetNothing  PROVE FrameTypes'
  BY <1>14, TouchedType, AppendedType DEF GetNothing, Finish, EndFetch, Mine, DefaultSize
<1>15. ASSUME Sync  PROVE FrameTypes'
  BY <1>15 DEF Sync, Begin
<1>16. ASSUME SyncGraphs  PROVE FrameTypes'
  BY <1>16 DEF SyncGraphs
<1>17. ASSUME Destroy  PROVE FrameTypes'
  BY <1>17 DEF Destroy, Begin
<1>18. ASSUME Released  PROVE FrameTypes'
  BY <1>18, NoLru DEF Released, ReleasePool, Deallocate
<1>19. ASSUME TimePasses  PROVE FrameTypes'
  BY <1>19 DEF TimePasses
<1>20. ASSUME MonitorDue  PROVE FrameTypes'
  BY <1>20 DEF MonitorDue
<1>21. ASSUME Monitor  PROVE FrameTypes'
  BY <1>21 DEF Monitor
<1>22. ASSUME MonitorReleases  PROVE FrameTypes'
  BY <1>22, NoLru DEF MonitorReleases, ReleasePool, Deallocate
<1>23. ASSUME NEW a \in {0, 1}, SetActive(a)  PROVE FrameTypes'
  BY <1>23 DEF SetActive, Begin
<1>24. ASSUME NEW t \in Threads, StartJob(t)  PROVE FrameTypes'
  BY <1>24 DEF StartJob
<1>25. ASSUME NEW t \in Threads, StoreFrame(t)  PROVE FrameTypes'
  <2>1. run[t].frame \in Positions
    BY <1>25, StoreMoves, OutIsAtFrame
  <2>2. Appended(lru, run[t].frame) \in Seq(Positions)
    BY <2>1, AppendedType DEF DefaultSize
  <2> QED BY <1>25, <2>2 DEF StoreFrame
<1>26. ASSUME NEW t \in Threads, Throw(t)  PROVE FrameTypes'
  BY <1>26 DEF Throw
<1>27. ASSUME NEW t \in Threads, ReturnGraph(t)  PROVE FrameTypes'
  BY <1>27 DEF ReturnGraph
<1>28. ASSUME UNCHANGED vars  PROVE FrameTypes'
  BY <1>28
<1> QED
  BY <1>1, <1>2, <1>3, <1>4, <1>5, <1>6, <1>7, <1>8, <1>9, <1>10, <1>11, <1>12, <1>13, <1>14, <1>15, <1>16, <1>17, <1>18, <1>19, <1>20, <1>21, <1>22, <1>23, <1>24, <1>25, <1>26, <1>27, <1>28 DEF Next, Client, Thread, Destroyed

\* The clones wanted can be counted.
LEMMA Counted == Count \in Nat
BY DistributorAssumption, FS_CardinalityType DEF Count

\* The pool and the clones.
LEMMA WorkTypesStep ==
  ASSUME Inv, ~Slow, [Next]_vars
  PROVE  WorkTypes'
<1> USE DistributorAssumption DEF Inv, Types, CallTypes, WorkTypes, call, work, frames, clock, watch, vars
<1>1. ASSUME NEW p \in Positions, Fetch(p)  PROVE WorkTypes'
  <2>1. graphs' \in Int
    <3>1. graphs' = Count \/ graphs' = graphs
      BY <1>1 DEF Fetch
    <3> QED BY <3>1, Counted
  <2>2. scheduled' \subseteq Positions
    BY <1>1 DEF Fetch
  <2> QED BY <1>1, <2>1, <2>2 DEF Fetch
<1>2. ASSUME LookUp  PROVE WorkTypes'
  BY <1>2 DEF LookUp
<1>3. ASSUME FetchDirectly  PROVE WorkTypes'
  BY <1>3 DEF FetchDirectly
<1>4. ASSUME DecideExpected  PROVE WorkTypes'
  BY <1>4 DEF DecideExpected
<1>5. ASSUME DecideScheduled  PROVE WorkTypes'
  BY <1>5 DEF DecideScheduled
<1>6. ASSUME DecideCached  PROVE WorkTypes'
  BY <1>6 DEF DecideCached
<1>7. ASSUME Jump  PROVE WorkTypes'
  BY <1>7, NoLru DEF Jump, ClearJobs
<1>8. ASSUME Jumped  PROVE WorkTypes'
  BY <1>8 DEF Jumped
<1>9. ASSUME Plan  PROVE WorkTypes'
  BY <1>9 DEF Plan
<1>10. ASSUME AddScheduled  PROVE WorkTypes'
  BY <1>10 DEF AddScheduled
<1>11. ASSUME AddCached  PROVE WorkTypes'
  BY <1>11 DEF AddCached, Adding, Peeking
<1>12. ASSUME Enqueue  PROVE WorkTypes'
  BY <1>12, AppendProperties DEF Enqueue, Adding, Enqueueing
<1>13. ASSUME GetFrame  PROVE WorkTypes'
  BY <1>13 DEF GetFrame, Finish
<1>14. ASSUME GetNothing  PROVE WorkTypes'
  BY <1>14 DEF GetNothing, Finish
<1>15. ASSUME Sync  PROVE WorkTypes'
  BY <1>15, NoLru DEF Sync, Begin, ClearJobs
<1>16. ASSUME SyncGraphs  PROVE WorkTypes'
  BY <1>16 DEF SyncGraphs
<1>17. ASSUME Destroy  PROVE WorkTypes'
  BY <1>17, NoLru DEF Destroy, Begin, ClearJobs
<1>18. ASSUME Released  PROVE WorkTypes'
  BY <1>18, Counted DEF Released, ReleasePool
<1>19. ASSUME TimePasses  PROVE WorkTypes'
  BY <1>19 DEF TimePasses
<1>20. ASSUME MonitorDue  PROVE WorkTypes'
  BY <1>20 DEF MonitorDue
<1>21. ASSUME Monitor  PROVE WorkTypes'
  BY <1>21, NoLru DEF Monitor, ClearJobs
<1>22. ASSUME MonitorReleases  PROVE WorkTypes'
  BY <1>22, Counted DEF MonitorReleases, ReleasePool
<1>23. ASSUME NEW a \in {0, 1}, SetActive(a)  PROVE WorkTypes'
  BY <1>23, NoLru DEF SetActive, Begin, ClearJobs
<1>24. ASSUME NEW t \in Threads, StartJob(t)  PROVE WorkTypes'
  BY <1>24, StartMoves DEF StartJob, JobsFit
<1>25. ASSUME NEW t \in Threads, StoreFrame(t)  PROVE WorkTypes'
  BY <1>25, StoreMoves DEF StoreFrame
<1>26. ASSUME NEW t \in Threads, Throw(t)  PROVE WorkTypes'
  BY <1>26, StoreMoves DEF Throw
<1>27. ASSUME NEW t \in Threads, ReturnGraph(t)  PROVE WorkTypes'
  BY <1>27, ReturnMoves DEF ReturnGraph
<1>28. ASSUME UNCHANGED vars  PROVE WorkTypes'
  BY <1>28
<1> QED
  BY <1>1, <1>2, <1>3, <1>4, <1>5, <1>6, <1>7, <1>8, <1>9, <1>10, <1>11, <1>12, <1>13, <1>14, <1>15, <1>16, <1>17, <1>18, <1>19, <1>20, <1>21, <1>22, <1>23, <1>24, <1>25, <1>26, <1>27, <1>28 DEF Next, Client, Thread, Destroyed

\* The clock and the monitor.
LEMMA ClockTypesStep ==
  ASSUME Inv, ~Slow, [Next]_vars
  PROVE  ClockTypes'
<1> USE DistributorAssumption DEF Inv, Types, ClockTypes, call, work, frames, clock, watch, vars
<1>1. ASSUME NEW p \in Positions, Fetch(p)  PROVE ClockTypes'
  BY <1>1 DEF Fetch
<1>2. ASSUME LookUp  PROVE ClockTypes'
  BY <1>2 DEF LookUp
<1>3. ASSUME FetchDirectly  PROVE ClockTypes'
  BY <1>3 DEF FetchDirectly
<1>4. ASSUME DecideExpected  PROVE ClockTypes'
  BY <1>4 DEF DecideExpected
<1>5. ASSUME DecideScheduled  PROVE ClockTypes'
  BY <1>5 DEF DecideScheduled
<1>6. ASSUME DecideCached  PROVE ClockTypes'
  BY <1>6 DEF DecideCached
<1>7. ASSUME Jump  PROVE ClockTypes'
  BY <1>7 DEF Jump
<1>8. ASSUME Jumped  PROVE ClockTypes'
  BY <1>8 DEF Jumped
<1>9. ASSUME Plan  PROVE ClockTypes'
  BY <1>9 DEF Plan
<1>10. ASSUME AddScheduled  PROVE ClockTypes'
  BY <1>10 DEF AddScheduled
<1>11. ASSUME AddCached  PROVE ClockTypes'
  BY <1>11 DEF AddCached
<1>12. ASSUME Enqueue  PROVE ClockTypes'
  BY <1>12 DEF Enqueue
<1>13. ASSUME GetFrame  PROVE ClockTypes'
  BY <1>13 DEF GetFrame, Finish
<1>14. ASSUME GetNothing  PROVE ClockTypes'
  BY <1>14 DEF GetNothing, Finish
<1>15. ASSUME Sync  PROVE ClockTypes'
  BY <1>15 DEF Sync, Begin
<1>16. ASSUME SyncGraphs  PROVE ClockTypes'
  BY <1>16 DEF SyncGraphs
<1>17. ASSUME Destroy  PROVE ClockTypes'
  BY <1>17 DEF Destroy, Begin
<1>18. ASSUME Released  PROVE ClockTypes'
  BY <1>18 DEF Released, ReleasePool
<1>19. ASSUME TimePasses  PROVE ClockTypes'
  BY <1>19 DEF TimePasses
<1>20. ASSUME MonitorDue  PROVE ClockTypes'
  BY <1>20 DEF MonitorDue
<1>21. ASSUME Monitor  PROVE ClockTypes'
  BY <1>21 DEF Monitor
<1>22. ASSUME MonitorReleases  PROVE ClockTypes'
  BY <1>22 DEF MonitorReleases, ReleasePool
<1>23. ASSUME NEW a \in {0, 1}, SetActive(a)  PROVE ClockTypes'
  BY <1>23 DEF SetActive, Begin
<1>24. ASSUME NEW t \in Threads, StartJob(t)  PROVE ClockTypes'
  BY <1>24 DEF StartJob
<1>25. ASSUME NEW t \in Threads, StoreFrame(t)  PROVE ClockTypes'
  BY <1>25 DEF StoreFrame
<1>26. ASSUME NEW t \in Threads, Throw(t)  PROVE ClockTypes'
  BY <1>26 DEF Throw
<1>27. ASSUME NEW t \in Threads, ReturnGraph(t)  PROVE ClockTypes'
  BY <1>27 DEF ReturnGraph
<1>28. ASSUME UNCHANGED vars  PROVE ClockTypes'
  BY <1>28
<1> QED
  BY <1>1, <1>2, <1>3, <1>4, <1>5, <1>6, <1>7, <1>8, <1>9, <1>10, <1>11, <1>12, <1>13, <1>14, <1>15, <1>16, <1>17, <1>18, <1>19, <1>20, <1>21, <1>22, <1>23, <1>24, <1>25, <1>26, <1>27, <1>28 DEF Next, Client, Thread, Destroyed

\* The monitor keeps off the client.
LEMMA MonitorStep ==
  ASSUME Inv, ~Slow, [Next]_vars
  PROVE  MonitorFits'
<1> USE DistributorAssumption DEF Inv, Types, CallTypes, ClockTypes, MonitorFits, Phases, Holding, MutexFree, Fetching, Threaded, call, work, frames, clock, watch, vars
<1>1. ASSUME NEW p \in Positions, Fetch(p)  PROVE MonitorFits'
  BY <1>1 DEF Fetch
<1>2. ASSUME LookUp  PROVE MonitorFits'
  BY <1>2 DEF LookUp
<1>3. ASSUME FetchDirectly  PROVE MonitorFits'
  BY <1>3 DEF FetchDirectly, Finish, EndFetch
<1>4. ASSUME DecideExpected  PROVE MonitorFits'
  BY <1>4 DEF DecideExpected
<1>5. ASSUME DecideScheduled  PROVE MonitorFits'
  BY <1>5 DEF DecideScheduled
<1>6. ASSUME DecideCached  PROVE MonitorFits'
  BY <1>6 DEF DecideCached
<1>7. ASSUME Jump  PROVE MonitorFits'
  BY <1>7 DEF Jump
<1>8. ASSUME Jumped  PROVE MonitorFits'
  BY <1>8, WaitIsOver DEF Jumped
<1>9. ASSUME Plan  PROVE MonitorFits'
  BY <1>9 DEF Plan
<1>10. ASSUME AddScheduled  PROVE MonitorFits'
  BY <1>10 DEF AddScheduled, Added, AddedOne, AddedNext
<1>11. ASSUME AddCached  PROVE MonitorFits'
  BY <1>11 DEF AddCached, Added, AddedOne, AddedNext
<1>12. ASSUME Enqueue  PROVE MonitorFits'
  BY <1>12 DEF Enqueue, Added, AddedOne, AddedNext
<1>13. ASSUME GetFrame  PROVE MonitorFits'
  BY <1>13 DEF GetFrame, Finish, EndFetch
<1>14. ASSUME GetNothing  PROVE MonitorFits'
  BY <1>14 DEF GetNothing, Finish, EndFetch
<1>15. ASSUME Sync  PROVE MonitorFits'
  BY <1>15 DEF Sync, Begin
<1>16. ASSUME SyncGraphs  PROVE MonitorFits'
  BY <1>16, WaitIsOver DEF SyncGraphs
<1>17. ASSUME Destroy  PROVE MonitorFits'
  BY <1>17 DEF Destroy, Begin
<1>18. ASSUME Released  PROVE MonitorFits'
  BY <1>18, WaitIsOver DEF Released
<1>19. ASSUME TimePasses  PROVE MonitorFits'
  BY <1>19 DEF TimePasses
<1>20. ASSUME MonitorDue  PROVE MonitorFits'
  BY <1>20 DEF MonitorDue
<1>21. ASSUME Monitor  PROVE MonitorFits'
  BY <1>21 DEF Monitor
<1>22. ASSUME MonitorReleases  PROVE MonitorFits'
  BY <1>22, WaitIsOver DEF MonitorReleases
<1>23. ASSUME NEW a \in {0, 1}, SetActive(a)  PROVE MonitorFits'
  BY <1>23 DEF SetActive, Begin
<1>24. ASSUME NEW t \in Threads, StartJob(t)  PROVE MonitorFits'
  BY <1>24 DEF StartJob
<1>25. ASSUME NEW t \in Threads, StoreFrame(t)  PROVE MonitorFits'
  BY <1>25 DEF StoreFrame
<1>26. ASSUME NEW t \in Threads, Throw(t)  PROVE MonitorFits'
  BY <1>26 DEF Throw
<1>27. ASSUME NEW t \in Threads, ReturnGraph(t)  PROVE MonitorFits'
  BY <1>27 DEF ReturnGraph
<1>28. ASSUME UNCHANGED vars  PROVE MonitorFits'
  BY <1>28
<1> QED
  BY <1>1, <1>2, <1>3, <1>4, <1>5, <1>6, <1>7, <1>8, <1>9, <1>10, <1>11, <1>12, <1>13, <1>14, <1>15, <1>16, <1>17, <1>18, <1>19, <1>20, <1>21, <1>22, <1>23, <1>24, <1>25, <1>26, <1>27, <1>28 DEF Next, Client, Thread, Destroyed

\* As many clones are out as threads run jobs.
LEMMA OutIsCounted ==
  /\ IsFiniteSet(Out) /\ Cardinality(Out) \in Nat /\ Cardinality(Out) <= Count
  /\ Out = {} => Cardinality(Out) = 0
  /\ \A t \in Threads \ Out : Cardinality(Out \cup {t}) = Cardinality(Out) + 1
  /\ \A t \in Out : Cardinality(Out \ {t}) = Cardinality(Out) - 1
<1>1. IsFiniteSet(Threads) /\ Out \subseteq Threads
  BY DistributorAssumption DEF Out
<1>2. IsFiniteSet(Out) /\ Cardinality(Out) <= Count
  BY <1>1, FS_Subset DEF Count
<1>3. Cardinality(Out) \in Nat
  BY <1>2, FS_CardinalityType
<1> QED BY <1>2, <1>3, FS_EmptySet, FS_AddElement, FS_RemoveElement

\* The clones.
LEMMA ClonesStep ==
  ASSUME Inv, ~Slow, [Next]_vars
  PROVE  ClonesFit'
<1> USE DistributorAssumption DEF Inv, Types, CallTypes, ClockTypes, MonitorFits, ClonesFit, Holding, Threaded, call, work, frames, clock, watch, vars
<1>a. run' = run => Out' = Out
  BY DEF Out
<1>b. run' = run /\ jobs' \in {jobs, <<>>} /\ Quiet => Quiet'
  BY DEF Quiet
<1>c. Quiet <=> jobs = <<>> /\ Out = {}
  BY QuietIsNoneOut
<1>1. ASSUME NEW p \in Positions, Fetch(p)  PROVE ClonesFit'
  BY <1>1, <1>a, <1>b, <1>c, Counted, OutIsCounted DEF Fetch
<1>2. ASSUME LookUp  PROVE ClonesFit'
  BY <1>2, <1>a, <1>b, <1>c DEF LookUp
<1>3. ASSUME FetchDirectly  PROVE ClonesFit'
  BY <1>3, <1>a, <1>b, <1>c DEF FetchDirectly, Finish, EndFetch
<1>4. ASSUME DecideExpected  PROVE ClonesFit'
  BY <1>4, <1>a, <1>b, <1>c DEF DecideExpected
<1>5. ASSUME DecideScheduled  PROVE ClonesFit'
  BY <1>5, <1>a, <1>b, <1>c DEF DecideScheduled
<1>6. ASSUME DecideCached  PROVE ClonesFit'
  BY <1>6, <1>a, <1>b, <1>c DEF DecideCached
<1>7. ASSUME Jump  PROVE ClonesFit'
  BY <1>7, <1>a, <1>b, <1>c DEF Jump, ClearJobs
<1>8. ASSUME Jumped  PROVE ClonesFit'
  BY <1>8, <1>a, <1>b, <1>c, WaitIsOver DEF Jumped
<1>9. ASSUME Plan  PROVE ClonesFit'
  BY <1>9, <1>a, <1>b, <1>c DEF Plan
<1>10. ASSUME AddScheduled  PROVE ClonesFit'
  BY <1>10, <1>a, <1>b, <1>c DEF AddScheduled, Added, AddedOne, AddedNext
<1>11. ASSUME AddCached  PROVE ClonesFit'
  BY <1>11, <1>a, <1>b, <1>c DEF AddCached, Added, AddedOne, AddedNext
<1>12. ASSUME Enqueue  PROVE ClonesFit'
  BY <1>12, <1>a, <1>b, <1>c DEF Enqueue, Added, AddedOne, AddedNext
<1>13. ASSUME GetFrame  PROVE ClonesFit'
  BY <1>13, <1>a, <1>b, <1>c DEF GetFrame, Finish, EndFetch
<1>14. ASSUME GetNothing  PROVE ClonesFit'
  BY <1>14, <1>a, <1>b, <1>c DEF GetNothing, Finish, EndFetch
<1>15. ASSUME Sync  PROVE ClonesFit'
  BY <1>15, <1>a, <1>b, <1>c DEF Sync, Begin, ClearJobs
<1>16. ASSUME SyncGraphs  PROVE ClonesFit'
  BY <1>16, <1>a, <1>b, <1>c, WaitIsOver DEF SyncGraphs
<1>17. ASSUME Destroy  PROVE ClonesFit'
  BY <1>17, <1>a, <1>b, <1>c DEF Destroy, Begin, ClearJobs
<1>18. ASSUME Released  PROVE ClonesFit'
  BY <1>18, <1>a, <1>b, <1>c, WaitIsOver DEF Released, ReleasePool
<1>19. ASSUME TimePasses  PROVE ClonesFit'
  BY <1>19, <1>a, <1>b, <1>c DEF TimePasses
<1>20. ASSUME MonitorDue  PROVE ClonesFit'
  BY <1>20, <1>a, <1>b, <1>c DEF MonitorDue
<1>21. ASSUME Monitor  PROVE ClonesFit'
  BY <1>21, <1>a, <1>b, <1>c DEF Monitor, ClearJobs
<1>22. ASSUME MonitorReleases  PROVE ClonesFit'
  BY <1>22, <1>a, <1>b, <1>c, WaitIsOver DEF MonitorReleases, ReleasePool
<1>23. ASSUME NEW a \in {0, 1}, SetActive(a)  PROVE ClonesFit'
  BY <1>23, <1>a, <1>b, <1>c DEF SetActive, Begin, ClearJobs
<1>24. ASSUME NEW t \in Threads, StartJob(t)  PROVE ClonesFit'
  <2>1. initialised /\ pool
    BY <1>24 DEF StartJob, Quiet
  <2>2. Cardinality(Out') = Cardinality(Out) + 1
    BY <1>24, StartMoves, OutIsCounted DEF JobsFit
  <2>3. graphs' = Count - Cardinality(Out')
    BY <1>24, <2>1, <2>2, Counted, OutIsCounted DEF StartJob
  <2> QED BY <1>24, <2>1, <2>3 DEF StartJob
<1>25. ASSUME NEW t \in Threads, StoreFrame(t)  PROVE ClonesFit'
  <2>1. t \in Out /\ Out' = Out
    BY <1>25, StoreMoves
  <2>2. initialised /\ pool
    BY <1>c, <2>1
  <2> QED BY <1>25, <2>1, <2>2 DEF StoreFrame
<1>26. ASSUME NEW t \in Threads, Throw(t)  PROVE ClonesFit'
  <2>1. t \in Out /\ Out' = Out
    BY <1>26, StoreMoves
  <2>2. initialised /\ pool
    BY <1>c, <2>1
  <2> QED BY <1>26, <2>1, <2>2 DEF Throw
<1>27. ASSUME NEW t \in Threads, ReturnGraph(t)  PROVE ClonesFit'
  <2>1. t \in Out /\ Cardinality(Out') = Cardinality(Out) - 1
    BY <1>27, ReturnMoves, OutIsCounted
  <2>2. initialised /\ pool
    BY <1>c, <2>1
  <2>3. graphs' = Count - Cardinality(Out')
    BY <1>27, <2>1, <2>2, Counted, OutIsCounted DEF ReturnGraph
  <2> QED BY <1>27, <2>2, <2>3 DEF ReturnGraph
<1>28. ASSUME UNCHANGED vars  PROVE ClonesFit'
  BY <1>28, <1>a, <1>b
<1> QED
  BY <1>1, <1>2, <1>3, <1>4, <1>5, <1>6, <1>7, <1>8, <1>9, <1>10, <1>11, <1>12, <1>13, <1>14, <1>15, <1>16, <1>17, <1>18, <1>19, <1>20, <1>21, <1>22, <1>23, <1>24, <1>25, <1>26, <1>27, <1>28 DEF Next, Client, Thread, Destroyed

\* The jobs.
LEMMA JobsStep ==
  ASSUME Inv, ~Slow, [Next]_vars
  PROVE  JobsFit'
<1> USE DistributorAssumption DEF Inv, Types, MonitorFits, ClonesFit, JobsFit, Holding, Threaded, Peeking, Enqueueing, call, work, frames, clock, watch, vars
<1>a. run' = run => Out' = Out
  BY DEF Out
<1>c. Quiet <=> jobs = <<>> /\ Out = {}
  BY QuietIsNoneOut
<1>d. Distinct(<<>>) /\ Keys(<<>>) = {}
  BY KeysOfNone
<1>1. ASSUME NEW p \in Positions, Fetch(p)  PROVE JobsFit'
  BY <1>1, <1>a, <1>c, <1>d DEF Fetch
<1>2. ASSUME LookUp  PROVE JobsFit'
  BY <1>2, <1>a DEF LookUp
<1>3. ASSUME FetchDirectly  PROVE JobsFit'
  BY <1>3, <1>a DEF FetchDirectly, Finish, EndFetch
<1>4. ASSUME DecideExpected  PROVE JobsFit'
  BY <1>4, <1>a DEF DecideExpected
<1>5. ASSUME DecideScheduled  PROVE JobsFit'
  BY <1>5, <1>a DEF DecideScheduled
<1>6. ASSUME DecideCached  PROVE JobsFit'
  BY <1>6, <1>a DEF DecideCached
<1>7. ASSUME Jump  PROVE JobsFit'
  BY <1>7, <1>a, <1>d DEF Jump, ClearJobs
<1>8. ASSUME Jumped  PROVE JobsFit'
  BY <1>8, <1>a, <1>d, WaitIsOver DEF Jumped
<1>9. ASSUME Plan  PROVE JobsFit'
  BY <1>9, <1>a DEF Plan
<1>10. ASSUME AddScheduled  PROVE JobsFit'
  BY <1>10, <1>a DEF AddScheduled, Added, AddedOne, AddedNext
<1>11. ASSUME AddCached  PROVE JobsFit'
  BY <1>11, <1>a DEF AddCached, Added, AddedOne, AddedNext
<1>12. ASSUME Enqueue  PROVE JobsFit'
  <2>1. Distinct(jobs') /\ Keys(jobs') = Keys(jobs) \cup {requested}
    BY <1>12, KeysOfAppend DEF Enqueue, CallTypes, WorkTypes, Adding
  <2>2. main' \in {"waiting", "planning"}
    BY <1>12, AddedType DEF Enqueue
  <2> QED BY <1>12, <1>a, <2>1, <2>2 DEF Enqueue
<1>13. ASSUME GetFrame  PROVE JobsFit'
  BY <1>13, <1>a DEF GetFrame, Finish, EndFetch
<1>14. ASSUME GetNothing  PROVE JobsFit'
  BY <1>14, <1>a DEF GetNothing, Finish, EndFetch
<1>15. ASSUME Sync  PROVE JobsFit'
  BY <1>15, <1>a, <1>d DEF Sync, Begin, ClearJobs
<1>16. ASSUME SyncGraphs  PROVE JobsFit'
  BY <1>16, <1>a, <1>d, WaitIsOver DEF SyncGraphs
<1>17. ASSUME Destroy  PROVE JobsFit'
  BY <1>17, <1>a, <1>d DEF Destroy, Begin, ClearJobs
<1>18. ASSUME Released  PROVE JobsFit'
  BY <1>18, <1>a, <1>d, WaitIsOver DEF Released, ReleasePool
<1>19. ASSUME TimePasses  PROVE JobsFit'
  BY <1>19, <1>a DEF TimePasses
<1>20. ASSUME MonitorDue  PROVE JobsFit'
  BY <1>20, <1>a DEF MonitorDue
<1>21. ASSUME Monitor  PROVE JobsFit'
  BY <1>21, <1>a, <1>d DEF Monitor, ClearJobs
<1>22. ASSUME MonitorReleases  PROVE JobsFit'
  BY <1>22, <1>a, <1>d, WaitIsOver DEF MonitorReleases, ReleasePool
<1>23. ASSUME NEW a \in {0, 1}, SetActive(a)  PROVE JobsFit'
  BY <1>23, <1>a, <1>d DEF SetActive, Begin, ClearJobs
<1>24. ASSUME NEW t \in Threads, StartJob(t)  PROVE JobsFit'
  <2>1. /\ t \notin Out /\ Out' = Out \cup {t}
        /\ Head(jobs) \in Keys(jobs)
        /\ Distinct(jobs') /\ Keys(jobs') = Keys(jobs) \ {Head(jobs)}
        /\ run'[t].frame = Head(jobs)
        /\ \A u \in Out : run'[u].frame = run[u].frame
    BY <1>24, StartMoves DEF Out
  <2>2. UNCHANGED <<main, requested, scheduled>>
    BY <1>24 DEF StartJob
  <2> QED BY <2>1, <2>2
<1>25. ASSUME NEW t \in Threads, StoreFrame(t)  PROVE JobsFit'
  <2>1. Out' = Out /\ \A u \in Out : run'[u].frame = run[u].frame
    BY <1>25, StoreMoves DEF Out
  <2>2. UNCHANGED <<main, requested, jobs, scheduled>>
    BY <1>25 DEF StoreFrame
  <2> QED BY <2>1, <2>2
<1>26. ASSUME NEW t \in Threads, Throw(t)  PROVE JobsFit'
  <2>1. Out' = Out /\ \A u \in Out : run'[u].frame = run[u].frame
    BY <1>26, StoreMoves DEF Out
  <2>2. UNCHANGED <<main, requested, jobs, scheduled>>
    BY <1>26 DEF Throw
  <2> QED BY <2>1, <2>2
<1>27. ASSUME NEW t \in Threads, ReturnGraph(t)  PROVE JobsFit'
  <2>1. /\ t \in Out /\ Out' = Out \ {t}
        /\ \A u \in Out' : run'[u].frame = run[u].frame
    BY <1>27, ReturnMoves DEF Out
  <2>2. UNCHANGED <<main, requested, jobs>> /\ scheduled' = scheduled \ {run[t].frame}
    BY <1>27 DEF ReturnGraph
  <2> QED BY <2>1, <2>2
<1>28. ASSUME UNCHANGED vars  PROVE JobsFit'
  BY <1>28, <1>a
<1> QED
  BY <1>1, <1>2, <1>3, <1>4, <1>5, <1>6, <1>7, <1>8, <1>9, <1>10, <1>11, <1>12, <1>13, <1>14, <1>15, <1>16, <1>17, <1>18, <1>19, <1>20, <1>21, <1>22, <1>23, <1>24, <1>25, <1>26, <1>27, <1>28 DEF Next, Client, Thread, Destroyed

\* The schedule.
LEMMA ScheduleStep ==
  ASSUME Inv, ~Slow, [Next]_vars
  PROVE  ScheduleFits'
<1> USE DistributorAssumption DEF Inv, Types, MonitorFits, ClonesFit, JobsFit, ScheduleFits, MutexFree, Holding, Threaded, Fetching, Peeking, Enqueueing, call, work, frames, clock, watch, vars
<1>a. run' = run => Out' = Out
  BY DEF Out
<1>c. Quiet <=> jobs = <<>> /\ Out = {}
  BY QuietIsNoneOut
<1>1. ASSUME NEW p \in Positions, Fetch(p)  PROVE ScheduleFits'
  BY <1>1, <1>a, <1>c DEF Fetch
<1>2. ASSUME LookUp  PROVE ScheduleFits'
  BY <1>2, <1>a DEF LookUp
<1>3. ASSUME FetchDirectly  PROVE ScheduleFits'
  BY <1>3, <1>a DEF FetchDirectly, Finish, EndFetch
<1>4. ASSUME DecideExpected  PROVE ScheduleFits'
  BY <1>4, <1>a DEF DecideExpected
<1>5. ASSUME DecideScheduled  PROVE ScheduleFits'
  BY <1>5, <1>a DEF DecideScheduled
<1>6. ASSUME DecideCached  PROVE ScheduleFits'
  BY <1>6, <1>a DEF DecideCached
<1>7. ASSUME Jump  PROVE ScheduleFits'
  BY <1>7 DEF Jump
<1>8. ASSUME Jumped  PROVE ScheduleFits'
  BY <1>8, WaitIsOver DEF Jumped
<1>9. ASSUME Plan  PROVE ScheduleFits'
  BY <1>9, <1>a DEF Plan
<1>10. ASSUME AddScheduled  PROVE ScheduleFits'
  BY <1>10, <1>a DEF AddScheduled, Added, AddedOne, AddedNext
<1>11. ASSUME AddCached  PROVE ScheduleFits'
  BY <1>11, <1>a DEF AddCached, Added, AddedOne, AddedNext
<1>12. ASSUME Enqueue  PROVE ScheduleFits'
  <2>1. Keys(jobs') = Keys(jobs) \cup {requested}
    BY <1>12, KeysOfAppend DEF Enqueue, CallTypes, WorkTypes, Adding
  <2>2. main' \in {"waiting", "planning"}
    BY <1>12, AddedType DEF Enqueue
  <2> QED BY <1>12, <1>a, <2>1, <2>2 DEF Enqueue
<1>13. ASSUME GetFrame  PROVE ScheduleFits'
  BY <1>13, <1>a DEF GetFrame, Finish, EndFetch
<1>14. ASSUME GetNothing  PROVE ScheduleFits'
  BY <1>14, <1>a DEF GetNothing, Finish, EndFetch
<1>15. ASSUME Sync  PROVE ScheduleFits'
  BY <1>15 DEF Sync, Begin
<1>16. ASSUME SyncGraphs  PROVE ScheduleFits'
  BY <1>16, WaitIsOver DEF SyncGraphs
<1>17. ASSUME Destroy  PROVE ScheduleFits'
  BY <1>17 DEF Destroy, Begin
<1>18. ASSUME Released  PROVE ScheduleFits'
  BY <1>18, WaitIsOver DEF Released, ReleasePool
<1>19. ASSUME TimePasses  PROVE ScheduleFits'
  BY <1>19, <1>a DEF TimePasses
<1>20. ASSUME MonitorDue  PROVE ScheduleFits'
  BY <1>20, <1>a DEF MonitorDue
<1>21. ASSUME Monitor  PROVE ScheduleFits'
  BY <1>21, <1>a DEF Monitor
<1>22. ASSUME MonitorReleases  PROVE ScheduleFits'
  BY <1>22, WaitIsOver DEF MonitorReleases, ReleasePool
<1>23. ASSUME NEW a \in {0, 1}, SetActive(a)  PROVE ScheduleFits'
  BY <1>23 DEF SetActive, Begin
<1>24. ASSUME NEW t \in Threads, StartJob(t)  PROVE ScheduleFits'
  <2>1. /\ Out' = Out \cup {t} /\ Keys(jobs') = Keys(jobs) \ {Head(jobs)}
        /\ run'[t].frame = Head(jobs) /\ \A u \in Out : run'[u].frame = run[u].frame
    BY <1>24, StartMoves DEF Out
  <2>2. UNCHANGED <<main, monitor, requested, scheduled>>
    BY <1>24 DEF StartJob
  <2> QED BY <2>1, <2>2
<1>25. ASSUME NEW t \in Threads, StoreFrame(t)  PROVE ScheduleFits'
  <2>1. Out' = Out /\ \A u \in Out : run'[u].frame = run[u].frame
    BY <1>25, StoreMoves DEF Out
  <2>2. UNCHANGED <<main, monitor, requested, jobs, scheduled>>
    BY <1>25 DEF StoreFrame
  <2> QED BY <2>1, <2>2
<1>26. ASSUME NEW t \in Threads, Throw(t)  PROVE ScheduleFits'
  <2>1. Out' = Out /\ \A u \in Out : run'[u].frame = run[u].frame
    BY <1>26, StoreMoves DEF Out
  <2>2. UNCHANGED <<main, monitor, requested, jobs, scheduled>>
    BY <1>26 DEF Throw
  <2> QED BY <2>1, <2>2
<1>27. ASSUME NEW t \in Threads, ReturnGraph(t)  PROVE ScheduleFits'
  <2>1. /\ t \in Out /\ Out' = Out \ {t}
        /\ \A u \in Out' : run'[u].frame = run[u].frame
    BY <1>27, ReturnMoves DEF Out
  <2>2. UNCHANGED <<main, monitor, requested, jobs>> /\ scheduled' = scheduled \ {run[t].frame}
    BY <1>27 DEF ReturnGraph
  <2> QED BY <2>1, <2>2
<1>28. ASSUME UNCHANGED vars  PROVE ScheduleFits'
  BY <1>28, <1>a
<1> QED
  BY <1>1, <1>2, <1>3, <1>4, <1>5, <1>6, <1>7, <1>8, <1>9, <1>10, <1>11, <1>12, <1>13, <1>14, <1>15, <1>16, <1>17, <1>18, <1>19, <1>20, <1>21, <1>22, <1>23, <1>24, <1>25, <1>26, <1>27, <1>28 DEF Next, Client, Thread, Destroyed

\* The invariant holds initially.
LEMMA Start == Init => Inv
<1> SUFFICES ASSUME Init PROVE Inv
  OBVIOUS
<1> USE DEF Init
<1>1. Out = {}
  BY DEF Out
<1>2. jobs = <<>> /\ jobs \in Seq(Positions) /\ Distinct(jobs) /\ Keys(jobs) = {}
  BY KeysOfNone
<1>3. Quiet
  BY <1>2 DEF Quiet
<1>4. CallTypes
  <2>1. main \in Phases /\ ~Adding
    BY DEF Phases, Adding, Peeking, Enqueueing
  <2>2. initialised \in BOOLEAN
    OBVIOUS
  <2> QED BY <2>1, <2>2, FirstPosition DEF CallTypes
<1>5. FrameTypes /\ WorkTypes /\ ClockTypes
  <2>1. FrameTypes
    BY NoLru DEF FrameTypes
  <2>2. WorkTypes
    BY <1>2 DEF WorkTypes
  <2>3. pool \in BOOLEAN /\ overdue \in BOOLEAN /\ enrolled \in BOOLEAN
    OBVIOUS
  <2> QED BY <2>1, <2>2, <2>3 DEF ClockTypes
<1>6. MonitorFits /\ ClonesFit
  BY <1>3 DEF MonitorFits, ClonesFit, Fetching, Threaded
<1>7. JobsFit /\ ScheduleFits
  BY <1>1, <1>2 DEF JobsFit, ScheduleFits, Peeking, Enqueueing
<1> QED BY <1>4, <1>5, <1>6, <1>7 DEF Inv, Types

-----------------------------------------------------------------------------
(* The theorems.                                                           *)

\* The invariant of the filter and its pool, its lru and the monitor.
THEOREM Invariant == ASSUME ~Slow PROVE Spec => []Inv
<1>1. Init => Inv
  BY Start
<1>2. Inv /\ [Next]_vars => Inv'
  BY CallTypesStep, FrameTypesStep, WorkTypesStep, ClockTypesStep, MonitorStep,
     ClonesStep, JobsStep, ScheduleStep DEF Inv, Types
<1> QED BY <1>1, <1>2, PTL DEF Spec

\* scheduled_ is what the pool has to do, no less and no more: what a job
\* erases is there, and no frame stays scheduled without a job.
THEOREM ScheduleIsKept == ASSUME ~Slow PROVE Spec => []ScheduleIsTrue
<1>1. Inv => TypeOK
  <2> SUFFICES ASSUME Inv PROVE TypeOK
    OBVIOUS
  <2>1. {requested, expected, direction, previous, graphs} \subseteq Int
    BY DEF Inv, Types, CallTypes, WorkTypes
  <2>2. {initialised, pool, overdue, enrolled} \subseteq BOOLEAN
    BY Zenon DEF Inv, Types, CallTypes, ClockTypes
  <2>3. run \in [Threads -> [frame : Positions \cup {NoFrame},
                             at : {"free", "decoding", "stored", "failed"}]]
    BY DEF Inv, Types, WorkTypes, Free
  <2> QED
    BY <2>1, <2>2, <2>3 DEF Inv, Types, CallTypes, WorkTypes, FrameTypes, ClockTypes, TypeOK
<1>2. Inv => ScheduledUntilReturned
  BY DEF Inv, JobsFit, ScheduledUntilReturned, Out
<1>3. Inv => NothingStaysScheduled
  <2> SUFFICES ASSUME Inv, MutexFree, NEW p \in scheduled
               PROVE  p \in Keys(jobs) \cup {run[t].frame : t \in Threads}
                           \cup (IF Enqueueing THEN {requested} ELSE {})
    BY DEF NothingStaysScheduled, Enqueueing
  <2> QED BY DEF Inv, ScheduleFits, Out
<1>4. Inv => ScheduleIsTrue
  BY <1>1, <1>2, <1>3 DEF ScheduleIsTrue
<1> QED BY <1>4, Invariant, PTL

\* No frame is decoded by two jobs, or queued while it is decoded.
THEOREM EachFrameOnce == ASSUME ~Slow PROVE Spec => []NoFrameTwice
<1>1. Inv => NoFrameTwice
  <2> SUFFICES ASSUME Inv PROVE NoFrameTwice
    OBVIOUS
  <2>1. \A i, j \in 1..Len(jobs) : jobs[i] = jobs[j] => i = j
    BY DEF Inv, JobsFit, Distinct
  <2>2. ASSUME NEW p \in Positions, NEW t \in Decoding(p)  PROVE t \in Out
    <3>1. p # NoFrame
      BY DistributorAssumption DEF Positions
    <3> QED BY <2>2, <3>1, Freed DEF Decoding, Out
  <2>3. ASSUME NEW p \in Positions  PROVE Cardinality(Decoding(p)) <= 1
    <3>1. CASE Decoding(p) = {}
      BY <3>1, FS_EmptySet
    <3>2. CASE Decoding(p) # {}
      <4>1. PICK t : t \in Decoding(p)
        BY <3>2
      <4>2. \A u \in Decoding(p) : u = t
        BY <2>2, <4>1 DEF Inv, JobsFit, Decoding
      <4>3. Decoding(p) = {t}
        BY <4>1, <4>2
      <4>4. Cardinality({t}) = 1
        BY FS_Singleton
      <4> QED BY <4>3, <4>4
    <3> QED BY <3>1, <3>2
  <2>4. ASSUME NEW p \in Keys(jobs)  PROVE Decoding(p) = {}
    <3>1. p \in Positions
      BY LenProperties, ElementOfSeq DEF Inv, Types, WorkTypes, Keys
    <3> QED BY <2>2, <3>1 DEF Inv, JobsFit, Decoding
  <2> QED BY <2>1, <2>3, <2>4 DEF NoFrameTwice
<1> QED BY <1>1, Invariant, PTL

\* A job finds a clone in graphs_, sync finds them all there, and no decode_job
\* outlives the filter.  Nothing is said of the monitor job, which may.
THEOREM ClonesAreSafe == ASSUME ~Slow PROVE Spec => ClonesAreKept
<1>1. Inv => GraphForEveryJob
  BY Counted, OutIsCounted DEF Inv, ClonesFit, GraphForEveryJob
<1>2. Inv => NoJobOutlivesTheFilter
  BY DEF Inv, ClonesFit, NoJobOutlivesTheFilter, Quiet
<1>3. Inv /\ [Next]_vars =>
        [main = "syncing" /\ main' # main /\ initialised /\ ~late' => graphs = Count]_vars
  <2> SUFFICES ASSUME Inv, Next, main = "syncing", main' # main, initialised
               PROVE  graphs = Count
    BY DEF vars
  <2>1. SyncGraphs
    BY DEF Next, Client, Thread, Destroyed, Begin, Sync, SetActive, Destroy, Fetch,
           LookUp, FetchDirectly, DecideExpected, DecideScheduled, DecideCached,
           Jump, Jumped, Plan, AddScheduled, AddCached, Enqueue, GetFrame,
           GetNothing, Released, StartJob, StoreFrame, Throw, ReturnGraph,
           TimePasses, MonitorDue, Monitor, MonitorReleases, vars
  <2>2. Out = {}
    BY <2>1, WaitIsOver DEF Inv, SyncGraphs
  <2> QED BY <2>2, Counted, OutIsCounted DEF Inv, ClonesFit
<1>4. Spec => SyncReachesEveryClone
  BY <1>3, Invariant, PTL DEF Spec, SyncReachesEveryClone
<1> QED BY <1>1, <1>2, <1>4, Invariant, PTL DEF ClonesAreKept

==============================================================================
