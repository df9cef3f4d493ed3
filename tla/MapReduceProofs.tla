--------------------------- MODULE MapReduceProofs ---------------------------
(***************************************************************************)
(* Proofs about MapReduce, for any number of frames, any finite pool and   *)
(* any set of frames that cannot be decoded.  The hard part is the bound   *)
(* on what is decoded ahead, since frames planned before a jump come late, *)
(* into the new window or outside of it, and since the window may fall     *)
(* behind the client.  Surplus counts the jobs and frames that nobody      *)
(* planned: only a jump may leave any, and no step adds to them.           *)
(***************************************************************************)
EXTENDS MapReduce, SequenceTheorems, FiniteSetTheorems, TLAPS

Decoding == {"imaging", "streaming"}
Working == {"image", "stream"} \cup Decoding
States == {Absent, Asleep} \cup [frame : Positions, at : Working \cup {"over"}]

Types ==
  /\ main \in {"idle", "planning", "waiting", "asleep", "arrived", "filling"}
  /\ position \in Positions /\ begun \in BOOLEAN
  /\ incr \in {-1, 1} /\ frameno \in -1..Frames
  /\ left \in 0..2 * Threads /\ forgotten \in BOOLEAN
  /\ map \subseteq Positions
  /\ jobs \in Seq(Positions)
  /\ run \in [Workers -> States]
  /\ decoders \in Nat /\ created \in Nat

\* Where the client is in the window: a plan starts at its position and goes
\* on by one frame for each job; a job is added under the loop's conditions.
Plan ==
  /\ main = "planning" =>
       frameno = IF incr = 1 THEN position + (2 * Threads - left)
                             ELSE position - (2 * Threads - left)
  /\ forgotten => main \in {"planning", "filling"} /\ More

\* The workers f has at one of the stages P, and the frames they are at.
In(f, P) == {w \in Workers : f[w].at \in P}
Held(f) == {f[w].frame : w \in In(f, Working)}

DecodersCounted ==
  /\ created = decoders + Cardinality(In(run, Decoding))
  /\ created <= Threads

\* The next frame the client has to get, the first of the window.
First ==
  IF main \in {"arrived", "filling"} THEN position + incr
  ELSE IF main = "idle" THEN Expected ELSE position

\* How far the client is beyond the window.
Gap ==
  IF incr = 1 THEN IF frameno < First THEN First - frameno ELSE 0
  ELSE IF First < frameno THEN frameno - First ELSE 0

Present == InWork \cup map

\* The jobs in hand, queued or with a worker.
Hands == Len(jobs) + Cardinality(In(run, Working))

\* The jobs in hand and the frames, with the gap they will go to, beyond one
\* for each frame of the window.
SurplusIsBounded ==
  Hands + Cardinality(map) + Gap <= Threads + Cardinality(Window \cap Present)

EndIsBounded == incr = 1 => frameno <= position + 2 * Threads + 1

Inv ==
  /\ Types /\ Plan /\ DecodersCounted
  /\ NoPlannedFrameLost /\ EndIsBounded /\ SurplusIsBounded

-----------------------------------------------------------------------------
(* Counting workers and jobs.                                              *)

\* The pool is not empty, and its parts can be counted.
LEMMA Counts ==
  ASSUME NEW f, NEW P
  PROVE  /\ Threads \in Nat \ {0}
         /\ IsFiniteSet(In(f, P))
         /\ Cardinality(In(f, P)) \in Nat
         /\ Cardinality(In(f, P)) <= Threads
BY MapReduceAssumption, FS_Subset, FS_CardinalityType, FS_EmptySet DEF In, Threads

\* Sets of positions can be counted.
LEMMA PositionCounts ==
  ASSUME NEW S \in SUBSET Positions
  PROVE  IsFiniteSet(S) /\ Cardinality(S) \in Nat
<1>1. IsFiniteSet(Positions)
  BY MapReduceAssumption, FS_Interval DEF Positions
<1> QED BY <1>1, FS_Subset, FS_CardinalityType

\* g differs from f at w alone.
SameBut(f, g, w) == \A v \in Workers \ {w} : g[v] = f[v]

\* The count of P follows the move of w.
CountMoved(f, g, w, P) ==
  Cardinality(In(g, P)) = Cardinality(In(f, P)) + (IF g[w].at \in P THEN 1 ELSE 0)
                                                - (IF f[w].at \in P THEN 1 ELSE 0)

\* The frames held follow the move of w.
HeldMoved(f, g, w) ==
  /\ Held(g) \subseteq Held(f) \cup (IF g[w].at \in Working THEN {g[w].frame} ELSE {})
  /\ Held(f) \subseteq Held(g) \cup (IF f[w].at \in Working THEN {f[w].frame} ELSE {})
  /\ g[w].at \in Working => g[w].frame \in Held(g)
  /\ f[w].at \in Working => f[w].frame \in Held(f)

\* One worker moves from one stage to another.
LEMMA MoveCount ==
  ASSUME NEW f, NEW g, NEW w \in Workers, SameBut(f, g, w), NEW P
  PROVE  CountMoved(f, g, w, P)
<1> USE DEF SameBut, CountMoved
<1>1. IsFiniteSet(In(f, P)) /\ Cardinality(In(f, P)) \in Nat
  BY Counts
<1>2. CASE g[w].at \in P /\ f[w].at \notin P
  <2>1. In(g, P) = In(f, P) \cup {w} /\ w \notin In(f, P)
    BY <1>2 DEF In
  <2>2. Cardinality(In(g, P)) = Cardinality(In(f, P)) + 1
    BY <2>1, <1>1, FS_AddElement
  <2> QED BY <2>2, <1>1, <1>2
<1>3. CASE g[w].at \notin P /\ f[w].at \in P
  <2>1. In(g, P) = In(f, P) \ {w} /\ w \in In(f, P)
    BY <1>3 DEF In
  <2>2. Cardinality(In(g, P)) = Cardinality(In(f, P)) - 1
    BY <2>1, <1>1, FS_RemoveElement
  <2> QED BY <2>2, <1>1, <1>3
<1>4. CASE (g[w].at \in P) = (f[w].at \in P)
  <2>1. In(g, P) = In(f, P)
    BY <1>4 DEF In
  <2> QED BY <2>1, <1>1, <1>4
<1> QED BY <1>2, <1>3, <1>4

\* What one worker's step changes of the frames in the workers' hands.
LEMMA MoveHeld ==
  ASSUME NEW f, NEW g, NEW w \in Workers, SameBut(f, g, w)
  PROVE  HeldMoved(f, g, w)
BY DEF Held, In, SameBut, HeldMoved

\* What a queue of jobs holds, when one is added and when one is taken.
LEMMA JobsAdded ==
  ASSUME NEW s \in Seq(Positions), NEW p \in Positions
  PROVE  /\ Append(s, p) \in Seq(Positions)
         /\ Len(Append(s, p)) = Len(s) + 1
         /\ Len(s) \in Nat
         /\ Ends(Append(s, p)) = Ends(s) \cup {p}
<1>1. /\ Append(s, p) \in Seq(Positions) /\ Len(Append(s, p)) = Len(s) + 1
      /\ \A i \in 1..Len(s) : Append(s, p)[i] = s[i]
      /\ Append(s, p)[Len(s) + 1] = p
      /\ Len(s) \in Nat
  BY AppendProperties, LenProperties
<1>2. 1..Len(s) + 1 = 1..Len(s) \cup {Len(s) + 1}
  BY <1>1
<1> QED BY <1>1, <1>2 DEF Ends

\* A queue of jobs without its first.
LEMMA JobTaken ==
  ASSUME NEW s \in Seq(Positions), s # <<>>
  PROVE  /\ Tail(s) \in Seq(Positions)
         /\ Len(Tail(s)) = Len(s) - 1
         /\ Len(s) \in Nat
         /\ Head(s) \in Positions
         /\ Ends(s) = {Head(s)} \cup Ends(Tail(s))
<1>1. /\ Tail(s) \in Seq(Positions) /\ Len(Tail(s)) = Len(s) - 1
      /\ \A i \in 1..Len(Tail(s)) : Tail(s)[i] = s[i + 1]
      /\ Head(s) \in Positions /\ Head(s) = s[1]
      /\ Len(s) \in Nat /\ Len(s) > 0
  BY HeadTailProperties, LenProperties, EmptySeq
<1>2. \A i \in 1..Len(s) : i = 1 \/ (i - 1 \in 1..Len(Tail(s)) /\ s[i] = Tail(s)[i - 1])
  BY <1>1
<1>3. \A i \in 1..Len(Tail(s)) : i + 1 \in 1..Len(s)
  BY <1>1
<1>4. 1 \in 1..Len(s)
  BY <1>1
<1> QED BY <1>1, <1>2, <1>3, <1>4 DEF Ends

\* What is in work, in terms of the above, now and after a step.
LEMMA HeldIs ==
  ASSUME NEW f \in [Workers -> States]
  PROVE  /\ Held(f) = {f[w].frame : w \in {v \in Workers : f[v].at \notin {"absent", "asleep", "over"}}}
         /\ Held(f) \subseteq Positions
<1>1. \A s \in States : s.at \notin {"absent", "asleep", "over"} <=> s.at \in Working
  BY DEF States, Absent, Asleep, Job, Working, Decoding
<1>2. \A s \in States : s.at \in Working => s.frame \in Positions
  BY DEF States, Absent, Asleep, Job, Working, Decoding
<1> QED BY <1>1, <1>2 DEF Held, In

\* Frames in work are queued or in the hands of a worker.
LEMMA InWorkIs ==
  /\ Types => /\ InWork = Ends(jobs) \cup Held(run)
              /\ InWork \subseteq Positions
  /\ Types' => /\ InWork' = Ends(jobs') \cup Held(run')
               /\ InWork' \subseteq Positions
<1>1. \A s \in Seq(Positions) : Ends(s) \subseteq Positions
  BY ElementOfSeq DEF Ends
<1>2. Types => InWork = Ends(jobs) \cup Held(run) /\ Held(run) \subseteq Positions
  BY HeldIs DEF InWork, Types
<1>3. Types' => InWork' = Ends(jobs') \cup Held(run') /\ Held(run') \subseteq Positions
  BY HeldIs DEF InWork, Types
<1>4. (Types => jobs \in Seq(Positions)) /\ (Types' => jobs' \in Seq(Positions))
  BY DEF Types
<1> QED BY <1>1, <1>2, <1>3, <1>4

-----------------------------------------------------------------------------
(* Types, plan and decoders.                                               *)

\* Of the parameter to Fetch.
LEMMA Fetchable == \A p \in Jumps \cup ({Expected} \cap Positions) : p \in Positions
BY MapReduceAssumption DEF Positions

\* What a job or a sleeping worker is.
LEMMA StateTypes ==
  /\ Absent \in States /\ Asleep \in States
  /\ \A p \in Positions : Job(p, "image") \in States
  /\ Absent.at \notin Working /\ Asleep.at \notin Working
  /\ \A p \in Positions : Job(p, "image").at = "image" /\ Job(p, "image").frame = p
  /\ \A s \in States : s.at \in Working \cup {"over"} =>
       /\ s.frame \in Positions
       /\ \A at \in Working \cup {"over"} : [s EXCEPT !.at = at] \in States
  /\ \A s \in States : s = Absent => s.at = "absent"
BY DEF States, Absent, Asleep, Job, Working, Decoding

\* Every step keeps the types.
LEMMA TypesStep == Types /\ Plan /\ [Next]_vars => Types'
<1> SUFFICES ASSUME Types, Plan, [Next]_vars PROVE Types'
  OBVIOUS
<1>0. Threads \in Nat \ {0}
  BY Counts
<1>1. ASSUME NEW p \in Positions, Fetch(p) PROVE Types'
  <2>1. p \in -1..Frames /\ 2 * Threads \in 0..2 * Threads
    BY <1>0, MapReduceAssumption DEF Positions
  <2>2. <<>> \in Seq(Positions)
    BY EmptySeq
  <2> QED BY <1>1, <2>1, <2>2 DEF Fetch, Types, lazy
<1>2. CASE Forget
  BY <1>2 DEF Forget, Types, pool, lazy
<1>3. CASE Enqueue
  <2>1. frameno \in Positions /\ left > 0
    BY <1>3 DEF Enqueue, Plan, More
  <2>2. frameno' \in -1..Frames
    BY <1>3, <2>1, MapReduceAssumption DEF Enqueue, Types, Positions
  <2>3. left' \in 0..2 * Threads
    BY <1>0, <1>3, <2>1 DEF Enqueue, Types
  <2>4. jobs' \in Seq(Positions)
    BY <1>3, <2>1, JobsAdded DEF Enqueue, Types
  <2>5. run' \in [Workers -> States]
    BY <1>3, <2>1, StateTypes DEF Enqueue, Types
  <2> QED BY <1>3, <2>2, <2>3, <2>4, <2>5 DEF Enqueue, Types, lazy
<1>4. CASE Planned
  BY <1>4 DEF Planned, Types, pool, lazy
<1>5. CASE Arrive
  BY <1>5 DEF Arrive, Types, pool, lazy
<1>6. CASE Ask
  <2>1. {w \in Workers : run[w] \in {Absent, Asleep}} \in SUBSET Workers
    OBVIOUS
  <2>2. left' \in Nat /\ left' <= Threads
    BY <1>6, <2>1, FS_Subset, FS_CardinalityType, MapReduceAssumption DEF Ask, Threads
  <2>3. left' \in 0..2 * Threads
    BY <1>0, <2>2
  <2> QED BY <1>6, <2>3 DEF Ask, Types, pool, lazy
<1>7. CASE Return
  BY <1>0, <1>7 DEF Return, Types, pool, lazy
<1>8. ASSUME NEW w \in Workers, Take(w) PROVE Types'
  <2>1. jobs' \in Seq(Positions)
    BY <1>8, JobTaken DEF Take, Types
  <2>2. run' \in [Workers -> States]
    BY <1>8, JobTaken, StateTypes DEF Take, Types
  <2> QED BY <1>8, <2>1, <2>2 DEF Take, Types, client, lazy
<1>9. ASSUME NEW w \in Workers, Obtain(w) PROVE Types'
  <2>1. run' \in [Workers -> States]
    <3>1. [run[w] EXCEPT !.at = IF @ = "image" THEN "imaging" ELSE "streaming"] \in States
      BY <1>9, StateTypes DEF Obtain, Types, Working, Decoding
    <3> QED BY <1>9, <3>1 DEF Obtain, Types
  <2>2. decoders' \in Nat /\ created' \in Nat
    BY <1>9 DEF Obtain, Types
  <2> QED BY <1>9, <2>1, <2>2 DEF Obtain, Types, client
<1>10. ASSUME NEW w \in Workers, Image(w) PROVE Types'
  <2>1. run' \in [Workers -> States]
    <3>1. [run[w] EXCEPT !.at = IF run[w].frame \in Broken THEN "over" ELSE "stream"] \in States
      BY <1>10, StateTypes DEF Image, Types, Working, Decoding
    <3> QED BY <1>10, <3>1 DEF Image, Types
  <2> QED BY <1>10, <2>1 DEF Image, GiveBack, Types, client
<1>11. ASSUME NEW w \in Workers, Store(w) PROVE Types'
  <2>1. run[w].frame \in Positions /\ [run[w] EXCEPT !.at = "over"] \in States
    BY <1>11, StateTypes DEF Store, Types, Working, Decoding
  <2>2. run' \in [Workers -> States]
    BY <1>11, <2>1 DEF Store, Types
  <2> QED BY <1>11, <2>1, <2>2 DEF Store, GiveBack, Notified, Types
<1>12. CASE UNCHANGED vars
  BY <1>12 DEF vars, client, pool, lazy, Types
<1> QED
  BY <1>1, <1>2, <1>3, <1>4, <1>5, <1>6, <1>7, <1>8, <1>9, <1>10, <1>11, <1>12, Fetchable
     DEF Next, ClientStep, WorkerStep

\* Every step keeps the plan, and the window ends where the loops end it.
LEMMA PlanStep ==
  Types /\ Plan /\ EndIsBounded /\ [Next]_vars => Plan' /\ EndIsBounded'
<1> SUFFICES ASSUME Types, Plan, EndIsBounded, [Next]_vars PROVE Plan' /\ EndIsBounded'
  OBVIOUS
<1>0. /\ Threads \in Nat \ {0}
      /\ position \in Int /\ frameno \in Int /\ left \in Int /\ incr \in {-1, 1}
  BY Counts, MapReduceAssumption DEF Types, Positions
<1>1. ASSUME NEW p \in Positions, Fetch(p) PROVE Plan' /\ EndIsBounded'
  <2>1. ~forgotten'
    BY <1>1 DEF Fetch, Plan
  <2>2. CASE ~begun \/ p # Expected
    <3>1. p \in Int
      BY MapReduceAssumption DEF Positions
    <3> QED BY <1>0, <1>1, <2>1, <2>2, <3>1 DEF Fetch, Plan, EndIsBounded
  <2>3. CASE begun /\ p = Expected
    BY <1>0, <1>1, <2>1, <2>3 DEF Fetch, Plan, EndIsBounded, Expected
  <2> QED BY <2>2, <2>3 DEF Types
<1>2. CASE Forget
  BY <1>2 DEF Forget, Plan, EndIsBounded, More
<1>3. CASE Enqueue
  <2>1. main \in {"planning", "filling"} /\ More
    BY <1>3 DEF Enqueue, Plan
  <2> QED BY <1>0, <1>3, <2>1 DEF Enqueue, Plan, EndIsBounded, More
<1>4. CASE Planned
  BY <1>4 DEF Planned, Plan, EndIsBounded
<1>5. CASE Arrive
  BY <1>5 DEF Arrive, Plan, EndIsBounded
<1>6. CASE Ask
  BY <1>6 DEF Ask, Plan, EndIsBounded
<1>7. CASE Return
  BY <1>7 DEF Return, Plan, EndIsBounded
<1>8. ASSUME NEW w \in Workers, Take(w) \/ Obtain(w) \/ Image(w) PROVE Plan' /\ EndIsBounded'
  BY <1>8 DEF Take, Obtain, Image, client, Plan, EndIsBounded, More
<1>9. ASSUME NEW w \in Workers, Store(w) PROVE Plan' /\ EndIsBounded'
  BY <1>9 DEF Store, Notified, Plan, EndIsBounded, More
<1>10. CASE UNCHANGED vars
  BY <1>10 DEF vars, client, Plan, EndIsBounded, More
<1> QED
  BY <1>1, <1>2, <1>3, <1>4, <1>5, <1>6, <1>7, <1>8, <1>9, <1>10, Fetchable
     DEF Next, ClientStep, WorkerStep

\* Every step keeps the count of the decoders: one is made only when none is
\* free, for a worker that holds none.
LEMMA DecodersStep == Types /\ DecodersCounted /\ [Next]_vars => DecodersCounted'
<1> SUFFICES ASSUME Types, DecodersCounted, [Next]_vars PROVE DecodersCounted'
  OBVIOUS
<1>0. \A f, P : Cardinality(In(f, P)) \in Nat /\ Cardinality(In(f, P)) <= Threads
  BY Counts
<1> DEFINE n == Cardinality(In(run, Decoding))
<1>1. ASSUME UNCHANGED <<run, decoders, created>> PROVE DecodersCounted'
  BY <1>1 DEF DecodersCounted
<1>2. ASSUME NEW w \in Workers, SameBut(run, run', w)
      PROVE  n' = n + (IF run'[w].at \in Decoding THEN 1 ELSE 0)
                    - (IF run[w].at \in Decoding THEN 1 ELSE 0)
  BY <1>2, MoveCount DEF CountMoved
<1>3. n \in Nat /\ n' \in Nat /\ n' <= Threads
  BY <1>0
<1>4. DecodersCounted <=> created = decoders + n /\ created <= Threads
  BY DEF DecodersCounted
<1>5. DecodersCounted' <=> created' = decoders' + n' /\ created' <= Threads
  BY DEF DecodersCounted
<1> HIDE DEF n
<1>6. CASE Enqueue
  <2>1. CASE \E w \in Workers : run[w] = Absent
    <3> DEFINE w == CHOOSE v \in Workers : run[v] = Absent
    <3>1. w \in Workers /\ run[w] = Absent /\ run' = [run EXCEPT ![w] = Job(frameno, "image")]
      BY <1>6, <2>1 DEF Enqueue
    <3> HIDE DEF w
    <3>2. run[w].at \notin Decoding /\ run'[w].at \notin Decoding
      BY <3>1 DEF Types, Absent, Job, Decoding
    <3>3. SameBut(run, run', w)
      BY <3>1 DEF SameBut, Types
    <3>4. n' = n
      BY <1>2, <1>3, <3>1, <3>2, <3>3
    <3> QED BY <1>4, <1>5, <1>6, <3>4 DEF Enqueue, lazy
  <2>2. CASE ~\E w \in Workers : run[w] = Absent
    BY <1>1, <1>6, <2>2 DEF Enqueue, lazy
  <2> QED BY <2>1, <2>2
<1>7. ASSUME NEW w \in Workers, Take(w) PROVE DecodersCounted'
  <2>1. run[w].at \notin Decoding /\ run'[w].at \notin Decoding
    BY <1>7 DEF Take, Types, Asleep, Job, Decoding
  <2>2. SameBut(run, run', w)
    BY <1>7 DEF Take, SameBut, Types
  <2>3. n' = n
    BY <1>2, <1>3, <2>1, <2>2
  <2> QED BY <1>4, <1>5, <1>7, <2>3 DEF Take, lazy
<1>8. ASSUME NEW w \in Workers, Obtain(w) PROVE DecodersCounted'
  <2>1. run[w].at \notin Decoding /\ run'[w].at \in Decoding
    BY <1>8 DEF Obtain, Types, States, Absent, Asleep, Job, Working, Decoding
  <2>2. SameBut(run, run', w)
    BY <1>8 DEF Obtain, SameBut, Types
  <2>3. n' = n + 1
    BY <1>2, <1>3, <2>1, <2>2
  <2> QED BY <1>3, <1>4, <1>5, <1>8, <2>3 DEF Obtain, Types
<1>9. ASSUME NEW w \in Workers, Image(w) \/ Store(w) PROVE DecodersCounted'
  <2>1. run[w].at \in Decoding /\ run'[w].at \notin Decoding
    BY <1>9 DEF Image, Store, Types, States, Absent, Asleep, Job, Working, Decoding
  <2>2. SameBut(run, run', w)
    BY <1>9 DEF Image, Store, SameBut, Types
  <2>3. n' = n - 1
    BY <1>2, <1>3, <2>1, <2>2
  <2> QED BY <1>3, <1>4, <1>5, <1>9, <2>3 DEF Image, Store, GiveBack, Types
<1>10. ASSUME NEW p \in Positions, Fetch(p) PROVE DecodersCounted'
  BY <1>1, <1>10 DEF Fetch, lazy
<1>11. CASE Forget \/ Planned \/ Arrive \/ Ask \/ Return \/ UNCHANGED vars
  BY <1>1, <1>11 DEF Forget, Planned, Arrive, Ask, Return, vars, pool, lazy
<1> QED
  BY <1>6, <1>7, <1>8, <1>9, <1>10, <1>11, Fetchable DEF Next, ClientStep, WorkerStep

-----------------------------------------------------------------------------
(* The window.                                                             *)

\* One worker moves and the queue may change: what is in hand afterwards.
LEMMA MoveHands ==
  ASSUME Types, Types', NEW w \in Workers, SameBut(run, run', w)
  PROVE  /\ Hands' = Hands + Len(jobs') - Len(jobs)
                           + (IF run'[w].at \in Working THEN 1 ELSE 0)
                           - (IF run[w].at \in Working THEN 1 ELSE 0)
         /\ Hands \in Nat /\ Len(jobs) \in Nat /\ Len(jobs') \in Nat
<1>1. CountMoved(run, run', w, Working)
  BY MoveCount
<1>2. /\ Len(jobs) \in Nat /\ Len(jobs') \in Nat
      /\ Cardinality(In(run, Working)) \in Nat /\ Cardinality(In(run', Working)) \in Nat
  BY Counts, LenProperties DEF Types
<1> QED BY <1>1, <1>2 DEF Hands, CountMoved

\* What one worker's step changes of the frames in work.
LEMMA MoveInWork ==
  ASSUME Types, Types', NEW w \in Workers, SameBut(run, run', w)
  PROVE  /\ InWork = Ends(jobs) \cup Held(run)
         /\ InWork' = Ends(jobs') \cup Held(run')
         /\ Held(run') \subseteq Held(run) \cup (IF run'[w].at \in Working THEN {run'[w].frame} ELSE {})
         /\ Held(run) \subseteq Held(run') \cup (IF run[w].at \in Working THEN {run[w].frame} ELSE {})
         /\ run'[w].at \in Working => run'[w].frame \in Held(run')
         /\ run[w].at \in Working => run[w].frame \in Held(run)
BY MoveHeld, InWorkIs DEF HeldMoved

\* A worker that takes a job or a decoder changes nothing of what is in hand.
LEMMA TakeHands ==
  ASSUME Types, Types', NEW w \in Workers, Take(w) \/ Obtain(w)
  PROVE  InWork' = InWork /\ Hands' = Hands
<1>0. SameBut(run, run', w)
  BY DEF Types, Take, Obtain, SameBut
<1>1. CASE jobs' = jobs /\ run'[w].frame = run[w].frame
           /\ run[w].at \in Working /\ run'[w].at \in Working
  <2>1. Hands' = Hands
    BY <1>0, <1>1, MoveHands
  <2>2. InWork' = InWork
    BY <1>0, <1>1, MoveInWork
  <2> QED BY <2>1, <2>2
<1>2. CASE jobs' = jobs /\ run[w].at \notin Working /\ run'[w].at \notin Working
  <2>1. Hands' = Hands
    BY <1>0, <1>2, MoveHands
  <2>2. InWork' = InWork
    BY <1>0, <1>2, MoveInWork
  <2> QED BY <2>1, <2>2
<1>3. CASE jobs # <<>> /\ jobs' = Tail(jobs) /\ run'[w] = Job(Head(jobs), "image")
           /\ run[w].at \notin Working
  <2>1. run'[w].frame = Head(jobs) /\ run'[w].at \in Working
    BY <1>3, JobTaken, StateTypes DEF Types, Job, Working
  <2>2. Ends(jobs) = {Head(jobs)} \cup Ends(jobs') /\ Len(jobs') = Len(jobs) - 1
    BY <1>3, JobTaken DEF Types
  <2>3. Hands' = Hands
    BY <1>0, <1>3, <2>1, <2>2, MoveHands
  <2>4. InWork' = InWork
    BY <1>0, <1>3, <2>1, <2>2, MoveInWork
  <2> QED BY <2>3, <2>4
<1>4. CASE Take(w)
  <2>1. run[w].at \notin Working
    BY <1>4 DEF Take, Working, Decoding
  <2>2. CASE jobs = <<>>
    <3>1. jobs' = jobs /\ run'[w] = Asleep
      BY <1>4, <2>2 DEF Take, Types
    <3> QED BY <1>2, <2>1, <3>1, StateTypes
  <2>3. CASE jobs # <<>>
    BY <1>3, <1>4, <2>1, <2>3 DEF Take, Types
  <2> QED BY <2>2, <2>3
<1>5. CASE Obtain(w)
  BY <1>1, <1>5 DEF Obtain, Types, Working, Decoding
<1> QED BY <1>4, <1>5

\* A worker that ends its job has one less in hand, and its frame may be gone
\* from what is in work.
LEMMA EndHands ==
  ASSUME Types, Types', NEW w \in Workers, run[w].at \in Working,
         SameBut(run, run', w), run'[w].at \notin Working, jobs' = jobs
  PROVE  /\ InWork' \subseteq InWork
         /\ InWork \subseteq InWork' \cup {run[w].frame}
         /\ run[w].frame \in InWork
         /\ Hands' = Hands - 1
<1>1. Hands' = Hands - 1
  BY MoveHands
<1>2. /\ InWork' \subseteq InWork
      /\ InWork \subseteq InWork' \cup {run[w].frame}
      /\ run[w].frame \in InWork
  BY MoveInWork
<1> QED BY <1>1, <1>2

\* A failed decoding ends the job, any other one leaves it in hand.
LEMMA ImageHands ==
  ASSUME Types, Types', NEW w \in Workers, Image(w)
  PROVE  \/ InWork' = InWork /\ Hands' = Hands
         \/ \E p \in Broken : /\ InWork' \subseteq InWork
                              /\ InWork \subseteq InWork' \cup {p}
                              /\ Hands' = Hands - 1
<1>0. /\ SameBut(run, run', w)
      /\ run[w].at \in Working
      /\ jobs' = jobs
  BY DEF SameBut, Types, Image, Working, Decoding
<1>1. CASE run[w].frame \in Broken
  <2>1. run'[w].at \notin Working
    BY <1>1 DEF Image, Types, Working, Decoding
  <2> QED BY <1>0, <1>1, <2>1, EndHands
<1>2. CASE run[w].frame \notin Broken
  <2>1. run'[w].at \in Working /\ run'[w].frame = run[w].frame
    BY <1>2 DEF Image, Types, Working
  <2>2. Hands' = Hands
    BY <1>0, <2>1, MoveHands
  <2>3. InWork' = InWork
    BY <1>0, <2>1, MoveInWork
  <2> QED BY <2>2, <2>3
<1> QED BY <1>1, <1>2

\* The end of a job leaves its frame in the map.
LEMMA StoreHands ==
  ASSUME Types, Types', NEW w \in Workers, Store(w)
  PROVE  /\ InWork' \subseteq InWork
         /\ InWork \subseteq InWork' \cup {run[w].frame}
         /\ run[w].frame \in InWork
         /\ Hands' = Hands - 1
<1>1. /\ SameBut(run, run', w) /\ jobs' = jobs
      /\ run[w].at \in Working /\ run'[w].at \notin Working
  BY DEF Store, SameBut, Types, Working, Decoding
<1> QED BY <1>1, EndHands

\* add_job puts one more job in hand.
LEMMA EnqueueHands ==
  ASSUME Types, Types', frameno \in Positions, Enqueue
  PROVE  InWork' = InWork \cup {frameno} /\ Hands' = Hands + 1
<1>1. CASE \E w \in Workers : run[w] = Absent
  <2> DEFINE w == CHOOSE v \in Workers : run[v] = Absent
  <2>1. w \in Workers /\ run[w] = Absent /\ run' = [run EXCEPT ![w] = Job(frameno, "image")]
        /\ jobs' = jobs
    BY <1>1 DEF Enqueue
  <2> HIDE DEF w
  <2>2. /\ run[w].at \notin Working
        /\ run'[w].at \in Working /\ run'[w].frame = frameno
        /\ SameBut(run, run', w)
    BY <2>1, StateTypes DEF SameBut, Types, Working
  <2>0. w \in Workers /\ jobs' = jobs
    BY <2>1
  <2>3. Hands' = Hands + 1
    BY <2>0, <2>2, MoveHands
  <2>4. InWork' = InWork \cup {frameno}
    BY <2>0, <2>2, MoveInWork
  <2> QED BY <2>3, <2>4
<1>2. CASE ~\E w \in Workers : run[w] = Absent
  <2>1. jobs' = Append(jobs, frameno) /\ run' = run
    BY <1>2 DEF Enqueue
  <2>2. Len(jobs') = Len(jobs) + 1 /\ Len(jobs) \in Nat /\ Ends(jobs') = Ends(jobs) \cup {frameno}
    BY <2>1, JobsAdded DEF Types
  <2>3. Cardinality(In(run, Working)) \in Nat
    BY Counts
  <2>4. Hands' = Hands + 1
    <3>1. Cardinality(In(run', Working)) = Cardinality(In(run, Working))
      BY <2>1
    <3> QED BY <3>1, <2>2, <2>3 DEF Hands
  <2>5. InWork' = InWork \cup {frameno}
    BY <2>1, <2>2, InWorkIs
  <2> QED BY <2>4, <2>5
<1> QED BY <1>1, <1>2

\* Where the window is, now and after a step.
LEMMA WindowIs ==
  /\ \A p : p \in Window <=> p \in Positions /\ IF incr = 1 THEN First <= p /\ p < frameno
                                                ELSE frameno < p /\ p <= First
  /\ \A p : p \in Window' <=> p \in Positions /\ IF incr' = 1 THEN First' <= p /\ p < frameno'
                                                 ELSE frameno' < p /\ p <= First'
BY DEF Window, First

\* The counters are numbers arithmetic applies to.
LEMMA Numbers ==
  ASSUME Types
  PROVE  /\ position \in Int /\ frameno \in Int /\ incr \in {-1, 1} /\ left \in Int
         /\ First \in Int /\ Gap \in Nat
         /\ Positions \subseteq Int /\ 0 \in Int
<1>1. position \in Int /\ frameno \in Int /\ incr \in {-1, 1} /\ left \in Int
  BY MapReduceAssumption, Counts DEF Types, Positions
<1>2. First \in Int
  BY <1>1 DEF First, Expected
<1> QED BY <1>1, <1>2 DEF Gap, Positions

\* Steps that move neither the client nor frameno_ leave the window.
LEMMA SameWindow ==
  ASSUME First' = First, incr' = incr, frameno' = frameno
  PROVE  Window' = Window /\ Gap' = Gap
<1>1. Window' = Window
  BY WindowIs
<1> QED BY <1>1 DEF Gap

\* A new plan starts with an empty window.
LEMMA FetchWindow ==
  ASSUME Types, Types', NEW p \in Positions, Fetch(p)
  PROVE  IF begun /\ p = Expected
         THEN Window' = Window /\ Gap' = Gap /\ map' = map /\ jobs' = jobs
         ELSE Window' = {} /\ Gap' = 0 /\ map' = {} /\ jobs' = <<>>
<1>1. CASE begun /\ p = Expected
  <2>1. First' = First /\ incr' = incr /\ frameno' = frameno
    BY <1>1 DEF Fetch, First
  <2> QED BY <1>1, <2>1, SameWindow DEF Fetch
<1>2. CASE ~(begun /\ p = Expected)
  <2>1. First' = frameno' /\ map' = {} /\ jobs' = <<>>
    BY <1>2 DEF Fetch, First, Types
  <2>2. frameno' \in Int
    BY MapReduceAssumption DEF Types
  <2>3. Window' = {}
    BY <2>1, <2>2, WindowIs DEF Positions
  <2>4. Gap' = 0
    <3>1. ~(frameno' < First') /\ ~(First' < frameno')
      BY <2>1, <2>2
    <3> QED BY <3>1 DEF Gap
  <2> QED BY <1>2, <2>1, <2>3, <2>4
<1> QED BY <1>1, <1>2

\* A job added widens the window by its frame, or the gap narrows.
LEMMA EnqueueWindow ==
  ASSUME Types, frameno \in Positions, Enqueue
  PROVE  \/ /\ Gap = 0 /\ Gap' = 0
            /\ frameno \notin Window /\ Window' = Window \cup {frameno}
         \/ /\ Gap' = Gap - 1
            /\ Window = {} /\ Window' = {}
<1>1. First' = First /\ incr' = incr /\ frameno' = frameno + incr
  BY DEF Enqueue, First, Expected
<1>2. CASE incr = 1 /\ First <= frameno
  <2>1. Gap = 0 /\ Gap' = 0
    BY <1>1, <1>2, Numbers DEF Gap
  <2>2. frameno \notin Window /\ Window' = Window \cup {frameno}
    BY <1>1, <1>2, Numbers, WindowIs
  <2> QED BY <2>1, <2>2
<1>3. CASE incr = 1 /\ frameno < First
  <2>1. Gap' = Gap - 1
    BY <1>1, <1>3, Numbers DEF Gap
  <2>2. Window = {} /\ Window' = {}
    BY <1>1, <1>3, Numbers, WindowIs
  <2> QED BY <2>1, <2>2
<1>4. CASE incr = -1 /\ frameno <= First
  <2>1. Gap = 0 /\ Gap' = 0
    BY <1>1, <1>4, Numbers DEF Gap
  <2>2. frameno \notin Window /\ Window' = Window \cup {frameno}
    BY <1>1, <1>4, Numbers, WindowIs
  <2> QED BY <2>1, <2>2
<1>5. CASE incr = -1 /\ First < frameno
  <2>1. Gap' = Gap - 1
    BY <1>1, <1>5, Numbers DEF Gap
  <2>2. Window = {} /\ Window' = {}
    BY <1>1, <1>5, Numbers, WindowIs
  <2> QED BY <2>1, <2>2
<1> QED BY <1>2, <1>3, <1>4, <1>5, Numbers

\* The frame handed out was the first of the window, or the gap widens.
LEMMA ArriveWindow ==
  ASSUME Types, Arrive, position \in map
  PROVE  \/ /\ Gap' = Gap
            /\ position \in Window /\ Window' = Window \ {position}
         \/ /\ Gap' = Gap + 1
            /\ Window = {} /\ Window' = {}
<1>1. First = position /\ First' = position + incr /\ incr' = incr /\ frameno' = frameno
  BY DEF Arrive, First
<1>0. position \in Positions
  BY DEF Types
<1>2. CASE incr = 1 /\ First < frameno
  <2>1. Gap' = Gap
    BY <1>1, <1>2, Numbers DEF Gap
  <2>2. position \in Window /\ Window' = Window \ {position}
    BY <1>0, <1>1, <1>2, Numbers, WindowIs
  <2> QED BY <2>1, <2>2
<1>3. CASE incr = 1 /\ frameno <= First
  <2>1. Gap' = Gap + 1
    BY <1>1, <1>3, Numbers DEF Gap
  <2>2. Window = {} /\ Window' = {}
    BY <1>1, <1>3, Numbers, WindowIs
  <2> QED BY <2>1, <2>2
<1>4. CASE incr = -1 /\ frameno < First
  <2>1. Gap' = Gap
    BY <1>1, <1>4, Numbers DEF Gap
  <2>2. position \in Window /\ Window' = Window \ {position}
    BY <1>0, <1>1, <1>4, Numbers, WindowIs
  <2> QED BY <2>1, <2>2
<1>5. CASE incr = -1 /\ First <= frameno
  <2>1. Gap' = Gap + 1
    BY <1>1, <1>5, Numbers DEF Gap
  <2>2. Window = {} /\ Window' = {}
    BY <1>1, <1>5, Numbers, WindowIs
  <2> QED BY <2>1, <2>2
<1> QED BY <1>2, <1>3, <1>4, <1>5, Numbers

\* Taking from or adding to a set of positions.
LEMMA CountSteps ==
  ASSUME NEW S \in SUBSET Positions, NEW T \in SUBSET Positions
  PROVE  /\ Cardinality(S) \in Nat /\ Cardinality(T) \in Nat
         /\ S \subseteq T => Cardinality(S) <= Cardinality(T)
         /\ \A p : S \subseteq T \cup {p} => Cardinality(S) <= Cardinality(T) + 1
         /\ \A p : p \notin T /\ S = T \cup {p} => Cardinality(S) = Cardinality(T) + 1
         /\ \A p : p \in T /\ S = T \ {p} => Cardinality(S) = Cardinality(T) - 1
<1>1. /\ IsFiniteSet(S) /\ Cardinality(S) \in Nat
      /\ IsFiniteSet(T) /\ Cardinality(T) \in Nat
  BY PositionCounts
<1>2. S \subseteq T => Cardinality(S) <= Cardinality(T)
  BY <1>1, FS_Subset
<1>3. ASSUME NEW p PROVE /\ IsFiniteSet(T \cup {p})
                         /\ Cardinality(T \cup {p}) = IF p \in T THEN Cardinality(T) ELSE Cardinality(T) + 1
                         /\ Cardinality(T \ {p}) = IF p \in T THEN Cardinality(T) - 1 ELSE Cardinality(T)
  BY <1>1, FS_AddElement, FS_RemoveElement
<1>4. ASSUME NEW p, S \subseteq T \cup {p} PROVE Cardinality(S) <= Cardinality(T) + 1
  <2>1. Cardinality(S) <= Cardinality(T \cup {p})
    BY <1>3, <1>4, FS_Subset
  <2>2. Cardinality(T \cup {p}) = IF p \in T THEN Cardinality(T) ELSE Cardinality(T) + 1
    BY <1>3
  <2> QED BY <2>1, <2>2, <1>1
<1> QED BY <1>1, <1>2, <1>3, <1>4

\* Every step keeps the planned frames.
LEMMA LostStep ==
  Types /\ Types' /\ Plan /\ NoPlannedFrameLost /\ [Next]_vars => NoPlannedFrameLost'
<1> SUFFICES ASSUME Types, Types', Plan, NoPlannedFrameLost, [Next]_vars
             PROVE  NoPlannedFrameLost'
  OBVIOUS
<1>0. ASSUME First' = First, incr' = incr, frameno' = frameno PROVE Window' = Window
  BY <1>0, SameWindow
<1>1. ASSUME NEW p \in Positions, Fetch(p) PROVE NoPlannedFrameLost'
  <2>1. CASE begun /\ p = Expected
    <3>1. Window' = Window /\ map' = map /\ InWork' = InWork
      BY <1>1, <2>1, FetchWindow DEF Fetch, InWork
    <3> QED BY <3>1 DEF NoPlannedFrameLost
  <2>2. CASE ~(begun /\ p = Expected)
    BY <1>1, <2>2, FetchWindow DEF NoPlannedFrameLost
  <2> QED BY <2>1, <2>2
<1>2. CASE Forget
  <2>1. Window' = Window /\ InWork' = InWork /\ map' = map \ {frameno}
    BY <1>0, <1>2 DEF Forget, First, Expected, pool, InWork
  <2>2. frameno \notin Window
    BY Numbers, WindowIs
  <2> QED BY <2>1, <2>2 DEF NoPlannedFrameLost
<1>3. CASE Enqueue
  <2>1. frameno \in Positions
    BY <1>3 DEF Enqueue, Plan, More
  <2>2. InWork' = InWork \cup {frameno} /\ map' = map
    BY <1>3, <2>1, EnqueueHands DEF Enqueue
  <2>3. Window' \subseteq Window \cup {frameno}
    BY <1>3, <2>1, EnqueueWindow
  <2> QED BY <2>2, <2>3 DEF NoPlannedFrameLost
<1>4. CASE Arrive
  <2>1. InWork' = InWork
    BY <1>4 DEF Arrive, pool, InWork
  <2>2. CASE position \in map
    <3>1. map' = map \ {position} /\ Window' \subseteq Window \ {position}
      BY <1>4, <2>2, ArriveWindow DEF Arrive
    <3> QED BY <2>1, <3>1 DEF NoPlannedFrameLost
  <2>3. CASE position \notin map
    <3>1. map' = map /\ Window' = Window
      BY <1>0, <1>4, <2>3 DEF Arrive, First
    <3> QED BY <2>1, <3>1 DEF NoPlannedFrameLost
  <2> QED BY <2>2, <2>3
<1>5. CASE Planned \/ Ask \/ Return
  <2>1. First' = First /\ incr' = incr /\ frameno' = frameno
    BY <1>5 DEF Planned, Ask, Return, First, Expected
  <2>2. InWork' = InWork /\ map' = map
    BY <1>5 DEF Planned, Ask, Return, pool, InWork
  <2> QED BY <1>0, <2>1, <2>2 DEF NoPlannedFrameLost
<1>6. ASSUME NEW w \in Workers, Take(w) \/ Obtain(w) \/ Image(w) PROVE NoPlannedFrameLost'
  <2>1. Window' = Window /\ map' = map
    BY <1>0, <1>6 DEF Take, Obtain, Image, client, First, Expected
  <2>2. InWork \ Broken \subseteq InWork'
    BY <1>6, TakeHands, ImageHands
  <2> QED BY <2>1, <2>2 DEF NoPlannedFrameLost
<1>7. ASSUME NEW w \in Workers, Store(w) PROVE NoPlannedFrameLost'
  <2>1. Window' = Window
    BY <1>0, <1>7 DEF Store, Notified, First, Expected
  <2>2. InWork \subseteq InWork' \cup {run[w].frame}
    BY <1>7, StoreHands
  <2>3. map' = map \cup {run[w].frame}
    BY <1>7 DEF Store
  <2> QED BY <2>1, <2>2, <2>3 DEF NoPlannedFrameLost
<1>8. CASE UNCHANGED vars
  <2>1. Window' = Window /\ map' = map /\ InWork' = InWork
    BY <1>0, <1>8 DEF vars, client, pool, First, Expected, InWork
  <2> QED BY <2>1 DEF NoPlannedFrameLost
<1> QED
  BY <1>1, <1>2, <1>3, <1>4, <1>5, <1>6, <1>7, <1>8, Fetchable DEF Next, ClientStep, WorkerStep

\* Every step but a jump keeps the surplus, and a jump leaves no more of it
\* than there are workers.
LEMMA SurplusStep ==
  Types /\ Types' /\ Plan /\ SurplusIsBounded /\ [Next]_vars => SurplusIsBounded'
<1> SUFFICES ASSUME Types, Types', Plan, SurplusIsBounded, [Next]_vars
             PROVE  SurplusIsBounded'
  OBVIOUS
<1> DEFINE inside == Window \cap Present
           m == Cardinality(map)
           n == Cardinality(inside)
<1>0. /\ SurplusIsBounded <=> Hands + m + Gap <= Threads + n
      /\ SurplusIsBounded' <=> Hands' + m' + Gap' <= Threads + n'
  BY DEF SurplusIsBounded
<1>1. map \in SUBSET Positions /\ map' \in SUBSET Positions
  BY DEF Types
<1>2. inside \in SUBSET Positions /\ inside' \in SUBSET Positions
  BY WindowIs
<1>3. /\ m \in Nat /\ m' \in Nat /\ n \in Nat /\ n' \in Nat
      /\ Hands \in Nat /\ Gap \in Nat /\ Threads \in Nat
  <2>1. m \in Nat /\ m' \in Nat /\ n \in Nat /\ n' \in Nat
    BY <1>1, <1>2, PositionCounts
  <2>2. Len(jobs) \in Nat /\ Cardinality(In(run, Working)) \in Nat
    BY LenProperties, Counts DEF Types
  <2>3. Hands \in Nat /\ Gap \in Nat /\ Threads \in Nat
    BY <2>2, Counts, Numbers DEF Hands
  <2> QED BY <2>1, <2>3
<1>4. ASSUME First' = First, incr' = incr, frameno' = frameno PROVE Window' = Window /\ Gap' = Gap
  BY <1>4, SameWindow
<1>5. ASSUME Window' = Window, Gap' = Gap, map' = map, InWork' = InWork, Hands' = Hands
      PROVE  SurplusIsBounded'
  <2>1. n' = n /\ m' = m
    BY <1>5 DEF Present
  <2> QED BY <1>0, <1>3, <1>5, <2>1
<1>6. ASSUME UNCHANGED pool PROVE Hands' = Hands /\ InWork' = InWork
  BY <1>6 DEF pool, Hands, InWork
<1>7. ASSUME NEW p \in Positions, Fetch(p) PROVE SurplusIsBounded'
  <2>1. CASE begun /\ p = Expected
    <3>1. UNCHANGED pool
      BY <1>7, <2>1 DEF Fetch, pool
    <3> QED BY <1>5, <1>6, <1>7, <2>1, <3>1, FetchWindow
  <2>2. CASE ~(begun /\ p = Expected)
    <3>1. Gap' = 0 /\ map' = {} /\ jobs' = <<>>
      BY <1>7, <2>2, FetchWindow
    <3>2. m' = 0
      BY <3>1, FS_EmptySet
    <3>3. Hands' <= Threads /\ Hands' \in Nat
      BY <3>1, Counts, EmptySeq DEF Hands
    <3>4. Gap' = 0
      BY <3>1
    <3> QED BY <1>0, <1>3, <3>2, <3>3, <3>4
  <2> QED BY <2>1, <2>2
<1>8. CASE Forget
  <2>1. /\ Window' = Window /\ Gap' = Gap /\ map' = map \ {frameno}
        /\ Hands' = Hands /\ InWork' = InWork
    BY <1>4, <1>6, <1>8 DEF Forget, First, Expected
  <2>2. frameno \notin Window
    BY Numbers, WindowIs
  <2>3. inside' = inside
    BY <2>1, <2>2 DEF Present
  <2>4. m' <= m
    BY <1>1, <2>1, CountSteps
  <2>5. n' = n /\ Hands' = Hands /\ Gap' = Gap
    BY <2>1, <2>3
  <2> QED BY <1>0, <1>3, <2>4, <2>5
<1>9. CASE Enqueue
  <2>1. frameno \in Positions
    BY <1>9 DEF Enqueue, Plan, More
  <2>2. InWork' = InWork \cup {frameno} /\ Hands' = Hands + 1 /\ map' = map
    BY <1>9, <2>1, EnqueueHands DEF Enqueue
  <2>3. CASE Gap = 0 /\ Gap' = 0 /\ frameno \notin Window /\ Window' = Window \cup {frameno}
    <3>1. frameno \notin inside /\ inside' = inside \cup {frameno}
      BY <2>2, <2>3 DEF Present
    <3>2. n' = n + 1
      BY <1>2, <3>1, CountSteps
    <3>3. m' = m
      BY <2>2
    <3> QED BY <1>0, <1>3, <2>2, <2>3, <3>2, <3>3
  <2>4. CASE Gap' = Gap - 1 /\ Window = {} /\ Window' = {}
    <3>1. n' = n /\ m' = m
      BY <2>2, <2>4
    <3> QED BY <1>0, <1>3, <2>2, <2>4, <3>1
  <2> QED BY <1>9, <2>1, <2>3, <2>4, EnqueueWindow
<1>10. CASE Arrive /\ position \in map
  <2>1. map' = map \ {position} /\ InWork' = InWork /\ Hands' = Hands
    BY <1>6, <1>10 DEF Arrive
  <2>2. m' = m - 1
    BY <1>1, <1>10, <2>1, CountSteps
  <2>3. CASE Gap' = Gap /\ position \in Window /\ Window' = Window \ {position}
    <3>1. position \in inside /\ inside' = inside \ {position}
      BY <1>10, <2>1, <2>3 DEF Present
    <3>2. n' = n - 1
      BY <1>2, <3>1, CountSteps
    <3> QED BY <1>0, <1>3, <2>1, <2>2, <2>3, <3>2
  <2>4. CASE Gap' = Gap + 1 /\ Window = {} /\ Window' = {}
    <3>1. n' = n
      BY <2>4
    <3> QED BY <1>0, <1>3, <2>1, <2>2, <2>4, <3>1
  <2> QED BY <1>10, <2>3, <2>4, ArriveWindow
<1>11. CASE Arrive /\ position \notin map
  <2>1. First' = First /\ incr' = incr /\ frameno' = frameno /\ map' = map /\ UNCHANGED pool
    BY <1>11 DEF Arrive, First
  <2> QED BY <1>4, <1>5, <1>6, <2>1
<1>12. CASE Planned \/ Ask \/ Return
  <2>1. First' = First /\ incr' = incr /\ frameno' = frameno /\ map' = map /\ UNCHANGED pool
    BY <1>12 DEF Planned, Ask, Return, First, Expected
  <2> QED BY <1>4, <1>5, <1>6, <2>1
<1>13. ASSUME NEW w \in Workers, Take(w) \/ Obtain(w) PROVE SurplusIsBounded'
  <2>1. First' = First /\ incr' = incr /\ frameno' = frameno /\ map' = map
    BY <1>13 DEF Take, Obtain, client, First, Expected
  <2> QED BY <1>4, <1>5, <1>13, <2>1, TakeHands
<1>14. ASSUME NEW w \in Workers, Image(w) PROVE SurplusIsBounded'
  <2>1. First' = First /\ incr' = incr /\ frameno' = frameno /\ map' = map
    BY <1>14 DEF Image, client, First, Expected
  <2>2. Window' = Window /\ Gap' = Gap
    BY <1>4, <2>1
  <2>3. CASE InWork' = InWork /\ Hands' = Hands
    BY <1>5, <2>1, <2>2, <2>3
  <2>4. ASSUME NEW p \in Broken, InWork \subseteq InWork' \cup {p}, Hands' = Hands - 1
        PROVE  SurplusIsBounded'
    <3>1. inside \subseteq inside' \cup {p}
      BY <2>1, <2>2, <2>4 DEF Present
    <3>2. n <= n' + 1
      BY <1>2, <3>1, CountSteps
    <3>3. m' = m
      BY <2>1
    <3>4. Hands' = Hands - 1 /\ Gap' = Gap
      BY <2>2, <2>4
    <3> QED BY <1>0, <1>3, <3>2, <3>3, <3>4
  <2> QED BY <1>14, <2>3, <2>4, ImageHands
<1>15. ASSUME NEW w \in Workers, Store(w) PROVE SurplusIsBounded'
  <2>1. Window' = Window /\ Gap' = Gap
    BY <1>4, <1>15 DEF Store, Notified, First, Expected
  <2>2. /\ InWork' \subseteq InWork /\ InWork \subseteq InWork' \cup {run[w].frame}
        /\ run[w].frame \in InWork /\ Hands' = Hands - 1
    BY <1>15, StoreHands
  <2>3. map' = map \cup {run[w].frame}
    BY <1>15 DEF Store
  <2>4. inside' = inside
    BY <2>1, <2>2, <2>3 DEF Present
  <2>5. m' <= m + 1
    BY <1>1, <2>3, CountSteps
  <2>6. n' = n /\ Hands' = Hands - 1 /\ Gap' = Gap
    BY <2>1, <2>2, <2>4
  <2> QED BY <1>0, <1>3, <2>5, <2>6
<1>16. CASE UNCHANGED vars
  <2>1. First' = First /\ incr' = incr /\ frameno' = frameno /\ map' = map /\ UNCHANGED pool
    BY <1>16 DEF vars, client, First, Expected
  <2> QED BY <1>4, <1>5, <1>6, <2>1
<1> QED
  BY <1>7, <1>8, <1>9, <1>10, <1>11, <1>12, <1>13, <1>14, <1>15, <1>16, Fetchable
     DEF Next, ClientStep, WorkerStep

\* The invariant holds initially.
LEMMA InvInit == Init => Inv
<1> SUFFICES ASSUME Init PROVE Inv
  OBVIOUS
<1>0. Threads \in Nat \ {0} /\ Cardinality({}) = 0 /\ 0 \in Positions /\ 0 \in Int
  BY Counts, FS_EmptySet, MapReduceAssumption DEF Positions
<1>1. Types
  <2>1. left \in 0..2 * Threads /\ frameno \in -1..Frames
    BY <1>0, MapReduceAssumption DEF Init
  <2>2. jobs \in Seq(Positions)
    BY EmptySeq DEF Init
  <2>3. run \in [Workers -> States]
    BY StateTypes DEF Init
  <2> QED BY <1>0, <2>1, <2>2, <2>3 DEF Init, Types
<1>2. Plan /\ EndIsBounded
  <2>1. Plan
    BY DEF Init, Plan
  <2>2. EndIsBounded
    BY <1>0 DEF Init, EndIsBounded
  <2> QED BY <2>1, <2>2
<1>3. In(run, Decoding) = {} /\ In(run, Working) = {}
  BY DEF Init, In, Absent, Job, Decoding, Working
<1>4. DecodersCounted
  <2>1. Cardinality(In(run, Decoding)) = 0 /\ decoders = 0 /\ created = 0
    BY <1>0, <1>3 DEF Init
  <2> QED BY <1>0, <2>1 DEF DecodersCounted
<1>5. Window = {}
  <2>1. First = 0 /\ incr = 1 /\ frameno = 0
    BY DEF Init, First, Expected
  <2> QED BY <1>1, <2>1, Numbers, WindowIs
<1>6. SurplusIsBounded
  <2>1. Gap = 0
    BY DEF Init, Gap, First, Expected
  <2>2. Hands = 0
    <3>1. Len(jobs) = 0
      BY EmptySeq DEF Init
    <3> QED BY <1>0, <1>3, <3>1 DEF Hands
  <2>3. Cardinality(map) = 0
    BY <1>0 DEF Init
  <2>4. Window \cap Present = {}
    BY <1>5
  <2> QED BY <1>0, <2>1, <2>2, <2>3, <2>4 DEF SurplusIsBounded
<1> QED BY <1>1, <1>2, <1>4, <1>5, <1>6 DEF Inv, NoPlannedFrameLost

\* The invariant of the filter.
THEOREM Invariant == Spec => []Inv
<1>1. Inv /\ [Next]_vars => Inv'
  BY TypesStep, PlanStep, DecodersStep, LostStep, SurplusStep DEF Inv
<1> QED BY InvInit, <1>1, PTL DEF Spec

-----------------------------------------------------------------------------
(* The properties.                                                         *)

\* Every decoder is free or with one worker; none is made beyond the threads.
THEOREM DecodersAreAccounted == Spec => []DecodersAccounted
<1>1. Types => TypeOK
  <2>1. \A s \in States : \/ s \in {Absent, Asleep}
                          \/ /\ s.frame \in Positions
                             /\ s.at \in {"image", "imaging", "stream", "streaming", "over"}
    BY DEF States, Working, Decoding
  <2> QED BY <2>1 DEF Types, TypeOK
<1>2. Inv => DecodersAccounted
  BY <1>1 DEF Inv, DecodersCounted, DecodersAccounted, In, Decoding
<1> QED BY <1>2, Invariant, PTL

\* There are no more frames in work than jobs in hand.
LEMMA WorkIsInHand ==
  ASSUME Types
  PROVE  /\ IsFiniteSet(InWork)
         /\ Cardinality(InWork) <= Hands
<1>1. Len(jobs) \in Nat
  BY LenProperties DEF Types
<1>2. IsFiniteSet(Ends(jobs)) /\ Cardinality(Ends(jobs)) <= Len(jobs)
  <2>1. jobs \in [1..Len(jobs) -> Ends(jobs)]
    BY LenProperties DEF Types, Ends
  <2>2. jobs \in Surjection(1..Len(jobs), Ends(jobs))
    <3>1. \A e \in Ends(jobs) : \E i \in 1..Len(jobs) : jobs[i] = e
      BY DEF Ends
    <3> HIDE DEF Ends
    <3> QED BY <2>1, <3>1 DEF Surjection
  <2>3. IsFiniteSet(1..Len(jobs)) /\ Cardinality(1..Len(jobs)) = Len(jobs)
    <3> DEFINE n == Len(jobs)
    <3> HIDE DEF n
    <3>1. n \in Nat /\ n \in Int /\ 1 \in Int
      BY <1>1 DEF n
    <3>2. /\ IsFiniteSet(1..n)
          /\ Cardinality(1..n) = IF 1 > n THEN 0 ELSE n - 1 + 1
      BY <3>1, FS_Interval
    <3>3. Cardinality(1..n) = n
      BY <3>1, <3>2
    <3> QED BY <3>2, <3>3 DEF n
  <2> QED BY <2>2, <2>3, FS_Surjection
<1>3. IsFiniteSet(Held(run)) /\ Cardinality(Held(run)) <= Cardinality(In(run, Working))
  <2> DEFINE at == In(run, Working)
             f == [w \in at |-> run[w].frame]
  <2>1. f \in Surjection(at, Held(run))
    <3>1. Held(run) = {run[w].frame : w \in at}
      BY DEF Held
    <3> HIDE DEF at
    <3>2. f \in [at -> Held(run)]
      BY <3>1
    <3>3. \A h \in Held(run) : \E w \in at : f[w] = h
      BY <3>1
    <3> QED BY <3>2, <3>3 DEF Surjection
  <2> HIDE DEF f
  <2>2. IsFiniteSet(In(run, Working))
    BY Counts
  <2> QED BY <2>1, <2>2, FS_Surjection
<1>4. InWork = Ends(jobs) \cup Held(run)
  BY InWorkIs
<1>5. /\ Cardinality(Ends(jobs)) \in Nat /\ Cardinality(Held(run)) \in Nat
      /\ Cardinality(In(run, Working)) \in Nat
      /\ Cardinality(Ends(jobs) \cap Held(run)) \in Nat
  BY <1>2, <1>3, Counts, FS_CardinalityType, FS_Intersection
<1>6. /\ IsFiniteSet(InWork)
      /\ Cardinality(InWork) = Cardinality(Ends(jobs)) + Cardinality(Held(run))
                                 - Cardinality(Ends(jobs) \cap Held(run))
  BY <1>2, <1>3, <1>4, FS_Union
<1> QED BY <1>1, <1>2, <1>3, <1>5, <1>6 DEF Hands

\* The window of frames decoded ahead is kept: all of it, and little more.
THEOREM TheWindowIsKept == Spec => []WindowIsKept
<1>1. Inv => AheadIsBounded
  <2> SUFFICES ASSUME Inv PROVE Cardinality((map \cup InWork) \ Window) <= Threads
    BY DEF Inv, EndIsBounded, AheadIsBounded
  <2>0. Types /\ SurplusIsBounded
    BY DEF Inv
  <2>1. IsFiniteSet(InWork) /\ Cardinality(InWork) <= Hands /\ Cardinality(InWork) \in Nat
    BY <2>0, WorkIsInHand, FS_CardinalityType
  <2>2. IsFiniteSet(map) /\ Cardinality(map) \in Nat
    BY <2>0, PositionCounts DEF Types
  <2>3. /\ IsFiniteSet(Present) /\ Cardinality(Present) \in Nat
        /\ Cardinality(InWork \cap map) \in Nat
        /\ Cardinality(Present) = Cardinality(InWork) + Cardinality(map) - Cardinality(InWork \cap map)
    BY <2>1, <2>2, FS_Union, FS_CardinalityType, FS_Intersection DEF Present
  <2>4. Cardinality(Present \ Window) = Cardinality(Present) - Cardinality(Present \cap Window)
    BY <2>3, FS_Difference
  <2>5. Present \cap Window = Window \cap Present /\ (map \cup InWork) \ Window = Present \ Window
    BY DEF Present
  <2>6. Cardinality(Window \cap Present) \in Nat
    BY <2>3, FS_Intersection, FS_CardinalityType
  <2>7. Hands \in Nat /\ Gap \in Nat /\ Threads \in Nat
    <3>1. Len(jobs) \in Nat /\ Cardinality(In(run, Working)) \in Nat
      BY <2>0, LenProperties, Counts DEF Types
    <3> QED BY <2>0, <3>1, Counts, Numbers DEF Hands
  <2>8. Cardinality(Present \ Window) = Cardinality(Present) - Cardinality(Window \cap Present)
    BY <2>4, <2>5
  <2>9. Cardinality(Present \ Window) <= Threads
    BY <2>0, <2>1, <2>2, <2>3, <2>6, <2>7, <2>8 DEF SurplusIsBounded
  <2> QED BY <2>5, <2>9
<1>2. Inv => WindowIsKept
  BY <1>1 DEF Inv, WindowIsKept
<1> QED BY <1>2, Invariant, PTL
=============================================================================
