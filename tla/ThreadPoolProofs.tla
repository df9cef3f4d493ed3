-------------------------- MODULE ThreadPoolProofs --------------------------
(***************************************************************************)
(* Proofs about ThreadPool, for any set of jobs and any finite number of   *)
(* workers.  The inductive invariant Inv adds to the properties of         *)
(* ThreadPool the two facts the code relies on without stating them:       *)
(* m_idle_workers counts exactly the threads that are not busy, and the    *)
(* jobs' states agree with the queue and the workers' heaps.               *)
(***************************************************************************)
EXTENDS ThreadPool, FiniteSetTheorems, TLAPS

IdlePCs == {"absent", "waiting", "woken", "left"}
NotBusyPCs == IdlePCs \cup {"exited"}

\* m_idle_workers counts the threads not created yet, those inside cond_.wait
\* and those that have left job_done for good; a thread that has exited is
\* counted if it left job_done first, and not if it was stopped before.
IdleCounts ==
  /\ Cardinality(At(IdlePCs)) <= idle
  /\ idle <= Cardinality(At(NotBusyPCs))

\* A queued job is in the queue, exactly once.
QueueInv ==
  /\ \A j \in Jobs : status[j] = "queued" => \E i \in 1..Len(queue) : queue[i] = j
  /\ \A i \in 1..Len(queue) : status[queue[i]] = "queued"
  /\ \A i, k \in 1..Len(queue) : queue[i] = queue[k] => i = k

\* A job that has left the queue is with one worker until it is done.
WorkInv ==
  /\ \A j \in Jobs : status[j] = "assigned" => \E w \in At({"loop"}) : work[w] = j
  /\ \A j \in Jobs : status[j] = "running" => \E w \in At({"running"}) : work[w] = j
  /\ \A w \in Workers : work[w] # NoJob =>
       \/ pc[w] = "loop" /\ status[work[w]] = "assigned"
       \/ pc[w] = "running" /\ status[work[w]] = "running"
  /\ \A w \in At({"running"}) : work[w] # NoJob
  /\ \A v, w \in Workers : work[v] = work[w] /\ work[v] # NoJob => v = w

Types ==
  /\ queue \in Seq(Jobs)
  /\ idle \in Nat
  /\ terminating \in BOOLEAN
  /\ pc \in [Workers -> PCs]
  /\ work \in [Workers -> Jobs \cup {NoJob}]
  /\ status \in [Jobs -> Statuses]
  /\ stage \in [Workers -> Stages]
  /\ waiter \in {"out", "waiting", "woken", "true", "false"}
  /\ pledge \subseteq Jobs

Base == Types /\ IdleCounts /\ QueueInv /\ WorkInv
-----------------------------------------------------------------------------
(* Counting threads.                                                       *)

\* The workers f puts at one of the places P.
In(f, P) == {w \in Workers : f[w] \in P}

\* At is In of the current places, and finite.
LEMMA AtFinite ==
  ASSUME NEW f, NEW P
  PROVE  /\ IsFiniteSet(In(f, P))
         /\ Cardinality(In(f, P)) \in Nat
         /\ Cardinality(In(f, P)) <= MaxWorkers
         /\ Cardinality(In(f, P)) = MaxWorkers => In(f, P) = Workers
         /\ Cardinality(In(f, P)) = 0 <=> In(f, P) = {}
BY PoolAssumption, FS_Subset, FS_CardinalityType, FS_EmptySet DEF In, MaxWorkers

\* g differs from f at w alone.
SameBut(f, g, w) == \A v \in Workers \ {w} : g[v] = f[v]

\* The count of P follows the move of w from f[w] to g[w].
CountMoved(f, g, w, P) ==
  Cardinality(In(g, P)) = Cardinality(In(f, P)) + (IF g[w] \in P THEN 1 ELSE 0)
                                                - (IF f[w] \in P THEN 1 ELSE 0)

\* One thread moves: the count of P changes by at most one.
LEMMA MoveCount ==
  ASSUME NEW f, NEW g, NEW w \in Workers, NEW P, SameBut(f, g, w)
  PROVE  CountMoved(f, g, w, P)
<1> USE DEF SameBut, CountMoved
<1>1. IsFiniteSet(In(f, P)) /\ Cardinality(In(f, P)) \in Nat
  BY AtFinite
<1>2. CASE g[w] \in P /\ f[w] \notin P
  <2>1. In(g, P) = In(f, P) \cup {w} /\ w \notin In(f, P)
    BY <1>2 DEF In
  <2>2. Cardinality(In(g, P)) = Cardinality(In(f, P)) + 1
    BY <2>1, <1>1, FS_AddElement
  <2> QED BY <2>2, <1>1, <1>2
<1>3. CASE g[w] \notin P /\ f[w] \in P
  <2>1. In(g, P) = In(f, P) \ {w} /\ w \in In(f, P)
    BY <1>3 DEF In
  <2>2. Cardinality(In(g, P)) = Cardinality(In(f, P)) - 1
    BY <2>1, <1>1, FS_RemoveElement
  <2> QED BY <2>2, <1>1, <1>3
<1>4. CASE (g[w] \in P) = (f[w] \in P)
  <2>1. In(g, P) = In(f, P)
    BY <1>4 DEF In
  <2> QED BY <2>1, <1>1, <1>4
<1> QED BY <1>2, <1>3, <1>4

\* At, now and after a step, in terms of In.
LEMMA AtIsIn == \A P : At(P) = In(pc, P) /\ At(P)' = In(pc', P)
BY DEF At, In

\* What one thread's move does to the two bounds of m_idle_workers.
LEMMA IdleMove ==
  ASSUME NEW w \in Workers, \A v \in Workers \ {w} : pc'[v] = pc[v]
  PROVE  /\ Cardinality(In(pc', IdlePCs)) =
              Cardinality(In(pc, IdlePCs)) + (IF pc'[w] \in IdlePCs THEN 1 ELSE 0)
                                           - (IF pc[w] \in IdlePCs THEN 1 ELSE 0)
         /\ Cardinality(In(pc', NotBusyPCs)) =
              Cardinality(In(pc, NotBusyPCs)) + (IF pc'[w] \in NotBusyPCs THEN 1 ELSE 0)
                                              - (IF pc[w] \in NotBusyPCs THEN 1 ELSE 0)
         /\ Cardinality(In(pc, IdlePCs)) \in Nat
         /\ Cardinality(In(pc, NotBusyPCs)) \in Nat
<1>0. SameBut(pc, pc', w)
  BY DEF SameBut
<1>1. CountMoved(pc, pc', w, IdlePCs)
  BY <1>0, MoveCount
<1>2. CountMoved(pc, pc', w, NotBusyPCs)
  BY <1>0, MoveCount
<1>3. Cardinality(In(pc, IdlePCs)) \in Nat
  BY AtFinite
<1>4. Cardinality(In(pc, NotBusyPCs)) \in Nat
  BY AtFinite
<1> QED BY <1>1, <1>2, <1>3, <1>4 DEF CountMoved

\* IdleCounts in terms of In.
LEMMA IdleCountsIn ==
  /\ IdleCounts <=> /\ Cardinality(In(pc, IdlePCs)) <= idle
                    /\ idle <= Cardinality(In(pc, NotBusyPCs))
  /\ IdleCounts' <=> /\ Cardinality(In(pc', IdlePCs)) <= idle'
                     /\ idle' <= Cardinality(In(pc', NotBusyPCs))
BY AtIsIn DEF IdleCounts

\* Every step keeps the types.
LEMMA TypesStep == Types /\ [Next]_vars => Types'
<1> SUFFICES ASSUME Types, [Next]_vars PROVE Types'
  OBVIOUS
<1> USE DEF Types, PCs, Statuses, Stages
<1>1. ASSUME NEW j \in Jobs, FindPoolFull(j) PROVE Types'
  BY <1>1 DEF FindPoolFull, pool, threads, vars
<1>2. ASSUME NEW j \in Jobs, Enqueue(j) PROVE Types'
  <2>1. pc' \in [Workers -> PCs]
    BY <1>2 DEF Enqueue, NotifyOne, PCs, At
  <2> QED BY <2>1, <1>2 DEF Enqueue
<1>3. ASSUME NEW j \in Jobs, NEW w \in Workers, AddToNewWorker(j, w) PROVE Types'
  BY <1>3 DEF AddToNewWorker, pool, threads, vars
<1>4. CASE ClearJobs
  BY <1>4 DEF ClearJobs, pool, threads, vars
<1>5. CASE WaitForAll
  BY <1>5 DEF WaitForAll, InState, pool, threads
<1>6. CASE WaitAgain
  BY <1>6 DEF WaitAgain, pool, threads, vars
<1>7. CASE WaitTimeout
  BY <1>7 DEF WaitTimeout, pool, threads, vars
<1>8. ASSUME NEW w \in Workers, StartJob(w) PROVE Types'
  BY <1>8 DEF StartJob, pool, threads, vars
<1>9. ASSUME NEW w \in Workers, FinishJob(w) PROVE Types'
  BY <1>9 DEF FinishJob, pool, threads, vars
<1>10. ASSUME NEW w \in Workers, ReportJob(w) PROVE Types'
  BY <1>10 DEF ReportJob, pool, threads, vars
<1>11. ASSUME NEW w \in Workers, TakeJob(w) PROVE Types'
  BY <1>11 DEF TakeJob, InJobDone, IdleWithout
<1>12. ASSUME NEW w \in Workers, GoIdle(w) PROVE Types'
  BY <1>12 DEF GoIdle, InJobDone, IdleWithout, NotifyWaiter
<1>13. ASSUME NEW w \in Workers, Spin(w) PROVE Types'
  BY <1>13 DEF Spin, InJobDone, IdleWithout
<1>14. ASSUME NEW w \in Workers, ExitThread(w) PROVE Types'
  BY <1>14 DEF ExitThread, pool, threads, vars
<1>15. ASSUME NEW w \in Workers, SpuriousWake(w) PROVE Types'
  BY <1>15 DEF SpuriousWake, pool, threads, vars
<1>16. CASE Terminate
  BY <1>16 DEF Terminate, pool, threads, vars
<1>17. ASSUME NEW w \in Workers, StopCancel(w) PROVE Types'
  BY <1>17 DEF StopCancel, pool, threads, vars
<1>18. ASSUME NEW w \in Workers, StopFlag(w) PROVE Types'
  BY <1>18 DEF StopFlag, pool, threads, vars
<1>19. ASSUME NEW w \in Workers, StopJoin(w) PROVE Types'
  BY <1>19 DEF StopJoin, pool, threads, vars
<1>20. ASSUME NEW w \in Workers, StopTimeout(w) PROVE Types'
  BY <1>20 DEF StopTimeout, pool, threads, vars
<1>21. CASE UNCHANGED vars
  BY <1>21 DEF vars
<1> QED
  BY <1>1, <1>2, <1>3, <1>4, <1>5, <1>6, <1>7, <1>8, <1>9, <1>10, <1>11, <1>12, <1>13, <1>14, <1>15, <1>16, <1>17, <1>18, <1>19, <1>20, <1>21
     DEF Next, AddJob, Thread, Stop, Done

\* Every step keeps the count of idle threads.
LEMMA IdleStep == Types /\ IdleCounts /\ [Next]_vars => IdleCounts'
<1> SUFFICES ASSUME Types /\ IdleCounts, [Next]_vars PROVE IdleCounts'
  OBVIOUS
<1>1. ASSUME NEW j \in Jobs, FindPoolFull(j) PROVE IdleCounts'
  BY <1>1, IdleCountsIn DEF FindPoolFull, pool, threads, vars
<1>2. ASSUME NEW j \in Jobs, Enqueue(j) PROVE IdleCounts'
  <2>1. CASE pc' = pc
    BY <2>1, <1>2, IdleCountsIn DEF Enqueue
  <2>2. ASSUME NEW w \in At({"waiting"}), pc' = [pc EXCEPT ![w] = "woken"]
        PROVE  IdleCounts'
    <3>1. w \in Workers /\ pc[w] = "waiting"
      BY <2>2 DEF At
    <3>2. In(pc', IdlePCs) = In(pc, IdlePCs) /\ In(pc', NotBusyPCs) = In(pc, NotBusyPCs)
      BY <3>1, <2>2 DEF In, IdlePCs, NotBusyPCs, Types
    <3> QED BY <3>2, <1>2, IdleCountsIn DEF Enqueue
  <2> QED BY <2>1, <2>2, <1>2 DEF Enqueue, NotifyOne
<1>3. ASSUME NEW j \in Jobs, NEW w \in Workers, AddToNewWorker(j, w) PROVE IdleCounts'
  <2>1. /\ Cardinality(In(pc', IdlePCs)) = Cardinality(In(pc, IdlePCs)) - 1
        /\ Cardinality(In(pc', NotBusyPCs)) = Cardinality(In(pc, NotBusyPCs)) - 1
    <3>1. pc'[w] = "loop" /\ \A v \in Workers \ {w} : pc'[v] = pc[v]
      BY <1>3 DEF AddToNewWorker, Types
    <3>2. /\ pc'[w] \notin IdlePCs
          /\ pc'[w] \notin NotBusyPCs
          /\ pc[w] \in IdlePCs
          /\ pc[w] \in NotBusyPCs
      BY <3>1, <1>3 DEF AddToNewWorker, IdlePCs, NotBusyPCs
    <3> QED BY <3>1, <3>2, IdleMove
  <2>2. /\ Cardinality(In(pc, IdlePCs)) \in Nat
        /\ Cardinality(In(pc, NotBusyPCs)) \in Nat
    BY AtFinite
  <2> QED BY <2>1, <2>2, <1>3, IdleCountsIn DEF AddToNewWorker, Types, pool
<1>4. CASE ClearJobs
  BY <1>4, IdleCountsIn DEF ClearJobs, pool, threads, vars
<1>5. CASE WaitForAll
  BY <1>5, IdleCountsIn DEF WaitForAll, pool, threads, vars
<1>6. CASE WaitAgain
  BY <1>6, IdleCountsIn DEF WaitAgain, pool, threads, vars
<1>7. CASE WaitTimeout
  BY <1>7, IdleCountsIn DEF WaitTimeout, pool, threads, vars
<1>8. ASSUME NEW w \in Workers, StartJob(w) PROVE IdleCounts'
  <2>1. /\ Cardinality(In(pc', IdlePCs)) = Cardinality(In(pc, IdlePCs))
        /\ Cardinality(In(pc', NotBusyPCs)) = Cardinality(In(pc, NotBusyPCs))
    <3>1. pc'[w] = "running" /\ \A v \in Workers \ {w} : pc'[v] = pc[v]
      BY <1>8 DEF StartJob, Types
    <3>2. /\ pc'[w] \notin IdlePCs
          /\ pc'[w] \notin NotBusyPCs
          /\ pc[w] \notin IdlePCs
          /\ pc[w] \notin NotBusyPCs
      BY <3>1, <1>8 DEF StartJob, IdlePCs, NotBusyPCs
    <3> QED BY <3>1, <3>2, IdleMove
  <2>2. /\ Cardinality(In(pc, IdlePCs)) \in Nat
        /\ Cardinality(In(pc, NotBusyPCs)) \in Nat
    BY AtFinite
  <2> QED BY <2>1, <2>2, <1>8, IdleCountsIn DEF StartJob, Types, pool
<1>9. ASSUME NEW w \in Workers, FinishJob(w) PROVE IdleCounts'
  <2>1. /\ Cardinality(In(pc', IdlePCs)) = Cardinality(In(pc, IdlePCs))
        /\ Cardinality(In(pc', NotBusyPCs)) = Cardinality(In(pc, NotBusyPCs))
    <3>1. pc'[w] = "finished" /\ \A v \in Workers \ {w} : pc'[v] = pc[v]
      BY <1>9 DEF FinishJob, Types
    <3>2. /\ pc'[w] \notin IdlePCs
          /\ pc'[w] \notin NotBusyPCs
          /\ pc[w] \notin IdlePCs
          /\ pc[w] \notin NotBusyPCs
      BY <3>1, <1>9 DEF FinishJob, IdlePCs, NotBusyPCs
    <3> QED BY <3>1, <3>2, IdleMove
  <2>2. /\ Cardinality(In(pc, IdlePCs)) \in Nat
        /\ Cardinality(In(pc, NotBusyPCs)) \in Nat
    BY AtFinite
  <2> QED BY <2>1, <2>2, <1>9, IdleCountsIn DEF FinishJob, Types, pool
<1>10. ASSUME NEW w \in Workers, ReportJob(w) PROVE IdleCounts'
  <2>1. /\ Cardinality(In(pc', IdlePCs)) = Cardinality(In(pc, IdlePCs))
        /\ Cardinality(In(pc', NotBusyPCs)) = Cardinality(In(pc, NotBusyPCs))
            + (IF Stopping(w) THEN 1 ELSE 0)
    <3>1. pc'[w] = (IF Stopping(w) THEN "exited" ELSE "callback") /\ \A v \in Workers \ {w} : pc'[v] = pc[v]
      BY <1>10 DEF ReportJob, Stopping, Types
    <3>2. /\ pc'[w] \notin IdlePCs
          /\ pc'[w] \in NotBusyPCs <=> Stopping(w)
          /\ pc[w] \notin IdlePCs
          /\ pc[w] \notin NotBusyPCs
      BY <3>1, <1>10 DEF ReportJob, Stopping, IdlePCs, NotBusyPCs
    <3> QED BY <3>1, <3>2, IdleMove
  <2>2. /\ Cardinality(In(pc, IdlePCs)) \in Nat
        /\ Cardinality(In(pc, NotBusyPCs)) \in Nat
    BY AtFinite
  <2> QED BY <2>1, <2>2, <1>10, IdleCountsIn DEF ReportJob, Stopping, Types, pool
<1>11. ASSUME NEW w \in Workers, TakeJob(w) PROVE IdleCounts'
  <2>1. /\ Cardinality(In(pc', IdlePCs)) = Cardinality(In(pc, IdlePCs))
            + (IF pc[w] = "woken" THEN -1 ELSE 0)
        /\ Cardinality(In(pc', NotBusyPCs)) = Cardinality(In(pc, NotBusyPCs))
            + (IF pc[w] = "woken" THEN -1 ELSE 0)
    <3>1. pc'[w] = "loop" /\ \A v \in Workers \ {w} : pc'[v] = pc[v]
      BY <1>11 DEF TakeJob, InJobDone, IdleWithout, Types
    <3>2. /\ pc'[w] \notin IdlePCs
          /\ pc'[w] \notin NotBusyPCs
          /\ pc[w] \in IdlePCs <=> (pc[w] = "woken")
          /\ pc[w] \in NotBusyPCs <=> (pc[w] = "woken")
      BY <3>1, <1>11 DEF TakeJob, InJobDone, IdleWithout, IdlePCs, NotBusyPCs
    <3> QED BY <3>1, <3>2, IdleMove
  <2>2. /\ Cardinality(In(pc, IdlePCs)) \in Nat
        /\ Cardinality(In(pc, NotBusyPCs)) \in Nat
    BY AtFinite
  <2> QED BY <2>1, <2>2, <1>11, IdleCountsIn DEF TakeJob, InJobDone, IdleWithout, Types, pool
<1>12. ASSUME NEW w \in Workers, GoIdle(w) PROVE IdleCounts'
  <2>1. /\ Cardinality(In(pc', IdlePCs)) = Cardinality(In(pc, IdlePCs))
            + (IF pc[w] = "woken" THEN 0 ELSE 1)
        /\ Cardinality(In(pc', NotBusyPCs)) = Cardinality(In(pc, NotBusyPCs))
            + (IF pc[w] = "woken" THEN 0 ELSE 1)
    <3>1. pc'[w] = (IF terminating THEN "left" ELSE "waiting") /\ \A v \in Workers \ {w} : pc'[v] = pc[v]
      BY <1>12 DEF GoIdle, InJobDone, IdleWithout, Types
    <3>2. /\ pc'[w] \in IdlePCs
          /\ pc'[w] \in NotBusyPCs
          /\ pc[w] \in IdlePCs <=> (pc[w] = "woken")
          /\ pc[w] \in NotBusyPCs <=> (pc[w] = "woken")
      BY <3>1, <1>12 DEF GoIdle, InJobDone, IdleWithout, IdlePCs, NotBusyPCs
    <3> QED BY <3>1, <3>2, IdleMove
  <2>2. /\ Cardinality(In(pc, IdlePCs)) \in Nat
        /\ Cardinality(In(pc, NotBusyPCs)) \in Nat
    BY AtFinite
  <2> QED BY <2>1, <2>2, <1>12, IdleCountsIn DEF GoIdle, InJobDone, IdleWithout, Types, pool
<1>13. ASSUME NEW w \in Workers, Spin(w) PROVE IdleCounts'
  <2>1. /\ Cardinality(In(pc', IdlePCs)) = Cardinality(In(pc, IdlePCs))
            + (IF pc[w] = "woken" THEN -1 ELSE 0)
        /\ Cardinality(In(pc', NotBusyPCs)) = Cardinality(In(pc, NotBusyPCs))
            + (IF pc[w] = "woken" THEN -1 ELSE 0)
    <3>1. pc'[w] = "spinning" /\ \A v \in Workers \ {w} : pc'[v] = pc[v]
      BY <1>13 DEF Spin, InJobDone, IdleWithout, Types
    <3>2. /\ pc'[w] \notin IdlePCs
          /\ pc'[w] \notin NotBusyPCs
          /\ pc[w] \in IdlePCs <=> (pc[w] = "woken")
          /\ pc[w] \in NotBusyPCs <=> (pc[w] = "woken")
      BY <3>1, <1>13 DEF Spin, InJobDone, IdleWithout, IdlePCs, NotBusyPCs
    <3> QED BY <3>1, <3>2, IdleMove
  <2>2. /\ Cardinality(In(pc, IdlePCs)) \in Nat
        /\ Cardinality(In(pc, NotBusyPCs)) \in Nat
    BY AtFinite
  <2> QED BY <2>1, <2>2, <1>13, IdleCountsIn DEF Spin, InJobDone, IdleWithout, Types, pool
<1>14. ASSUME NEW w \in Workers, ExitThread(w) PROVE IdleCounts'
  <2>1. /\ Cardinality(In(pc', IdlePCs)) = Cardinality(In(pc, IdlePCs))
            + (IF pc[w] = "left" THEN -1 ELSE 0)
        /\ Cardinality(In(pc', NotBusyPCs)) = Cardinality(In(pc, NotBusyPCs))
            + (IF pc[w] = "left" THEN 0 ELSE 1)
    <3>1. pc'[w] = "exited" /\ \A v \in Workers \ {w} : pc'[v] = pc[v]
      BY <1>14 DEF ExitThread, Types
    <3>2. /\ pc'[w] \notin IdlePCs
          /\ pc'[w] \in NotBusyPCs
          /\ pc[w] \in IdlePCs <=> (pc[w] = "left")
          /\ pc[w] \in NotBusyPCs <=> (pc[w] = "left")
      BY <3>1, <1>14 DEF ExitThread, IdlePCs, NotBusyPCs
    <3> QED BY <3>1, <3>2, IdleMove
  <2>2. /\ Cardinality(In(pc, IdlePCs)) \in Nat
        /\ Cardinality(In(pc, NotBusyPCs)) \in Nat
    BY AtFinite
  <2> QED BY <2>1, <2>2, <1>14, IdleCountsIn DEF ExitThread, Types, pool
<1>15. ASSUME NEW w \in Workers, SpuriousWake(w) PROVE IdleCounts'
  <2>1. /\ Cardinality(In(pc', IdlePCs)) = Cardinality(In(pc, IdlePCs))
        /\ Cardinality(In(pc', NotBusyPCs)) = Cardinality(In(pc, NotBusyPCs))
    <3>1. pc'[w] = "woken" /\ \A v \in Workers \ {w} : pc'[v] = pc[v]
      BY <1>15 DEF SpuriousWake, Types
    <3>2. /\ pc'[w] \in IdlePCs
          /\ pc'[w] \in NotBusyPCs
          /\ pc[w] \in IdlePCs
          /\ pc[w] \in NotBusyPCs
      BY <3>1, <1>15 DEF SpuriousWake, IdlePCs, NotBusyPCs
    <3> QED BY <3>1, <3>2, IdleMove
  <2>2. /\ Cardinality(In(pc, IdlePCs)) \in Nat
        /\ Cardinality(In(pc, NotBusyPCs)) \in Nat
    BY AtFinite
  <2> QED BY <2>1, <2>2, <1>15, IdleCountsIn DEF SpuriousWake, Types, pool
<1>16. CASE Terminate
  <2>1. In(pc', IdlePCs) = In(pc, IdlePCs) /\ In(pc', NotBusyPCs) = In(pc, NotBusyPCs)
    BY <1>16 DEF Terminate, In, IdlePCs, NotBusyPCs, Types
  <2> QED BY <2>1, <1>16, IdleCountsIn DEF Terminate
<1>17. ASSUME NEW w \in Workers, StopCancel(w) PROVE IdleCounts'
  BY <1>17, IdleCountsIn DEF StopCancel, pool, threads, vars
<1>18. ASSUME NEW w \in Workers, StopFlag(w) PROVE IdleCounts'
  BY <1>18, IdleCountsIn DEF StopFlag, pool, threads, vars
<1>19. ASSUME NEW w \in Workers, StopJoin(w) PROVE IdleCounts'
  BY <1>19, IdleCountsIn DEF StopJoin, pool, threads, vars
<1>20. ASSUME NEW w \in Workers, StopTimeout(w) PROVE IdleCounts'
  BY <1>20, IdleCountsIn DEF StopTimeout, pool, threads, vars
<1>21. CASE UNCHANGED vars
  BY <1>21, IdleCountsIn DEF vars
<1> QED
  BY <1>1, <1>2, <1>3, <1>4, <1>5, <1>6, <1>7, <1>8, <1>9, <1>10, <1>11, <1>12, <1>13, <1>14, <1>15, <1>16, <1>17, <1>18, <1>19, <1>20, <1>21
     DEF Next, AddJob, Thread, Stop, Done

\* Every step keeps the queue and the states of its jobs in agreement.
LEMMA QueueStep == Types /\ QueueInv /\ WorkInv /\ [Next]_vars => QueueInv'
<1> SUFFICES ASSUME Types /\ QueueInv /\ WorkInv, [Next]_vars PROVE QueueInv'
  OBVIOUS
<1>1. ASSUME NEW j \in Jobs, FindPoolFull(j) PROVE QueueInv'
  BY <1>1 DEF FindPoolFull, pool, threads, vars, QueueInv, WorkInv, Types
<1>2. ASSUME NEW j \in Jobs, Enqueue(j) PROVE QueueInv'
  <2>1. /\ Len(queue') = Len(queue) + 1 /\ Len(queue) \in Nat
        /\ \A i \in 1..Len(queue) : queue'[i] = queue[i]
        /\ queue'[Len(queue) + 1] = j
    BY <1>2 DEF Enqueue, Types
  <2>2. /\ status[j] = "adding"
        /\ status'[j] = "queued"
        /\ \A k \in Jobs \ {j} : status'[k] = status[k]
    BY <1>2 DEF Enqueue, Types
  <2>3. \A i \in 1..Len(queue) : queue[i] \in Jobs
    BY DEF Types
  <2> QED BY <2>1, <2>2, <2>3 DEF QueueInv
<1>3. ASSUME NEW j \in Jobs, NEW w \in Workers, AddToNewWorker(j, w) PROVE QueueInv'
  BY <1>3 DEF AddToNewWorker, pool, threads, vars, QueueInv, WorkInv, Types
<1>4. CASE ClearJobs
  BY <1>4 DEF ClearJobs, pool, threads, vars, QueueInv, WorkInv, Types
<1>5. CASE WaitForAll
  BY <1>5 DEF WaitForAll, pool, threads, vars, QueueInv, WorkInv, Types
<1>6. CASE WaitAgain
  BY <1>6 DEF WaitAgain, pool, threads, vars, QueueInv, WorkInv, Types
<1>7. CASE WaitTimeout
  BY <1>7 DEF WaitTimeout, pool, threads, vars, QueueInv, WorkInv, Types
<1>8. ASSUME NEW w \in Workers, StartJob(w) PROVE QueueInv'
  <2>1. work[w] \in Jobs /\ status[work[w]] = "assigned"
    BY <1>8 DEF StartJob, WorkInv, Types
  <2> QED BY <1>8, <2>1 DEF StartJob, pool, QueueInv, Types
<1>9. ASSUME NEW w \in Workers, FinishJob(w) PROVE QueueInv'
  <2>1. work[w] \in Jobs /\ status[work[w]] = "running"
    BY <1>9 DEF FinishJob, WorkInv, Types, At
  <2> QED BY <1>9, <2>1 DEF FinishJob, pool, QueueInv, Types
<1>10. ASSUME NEW w \in Workers, ReportJob(w) PROVE QueueInv'
  BY <1>10 DEF ReportJob, pool, threads, vars, QueueInv, WorkInv, Types
<1>11. ASSUME NEW w \in Workers, TakeJob(w) PROVE QueueInv'
  <2>1. /\ Len(queue) \in Nat /\ Len(queue) > 0
        /\ Len(queue') = Len(queue) - 1
        /\ \A i \in 1..Len(queue') : queue'[i] = queue[i + 1]
        /\ \A i \in 1..Len(queue) : queue[i] \in Jobs
        /\ Head(queue) = queue[1]
    BY <1>11 DEF TakeJob, Types
  <2>2. /\ status'[queue[1]] = "assigned"
        /\ \A k \in Jobs \ {queue[1]} : status'[k] = status[k]
    BY <1>11, <2>1 DEF TakeJob, Types
  <2>3. ASSUME NEW k \in Jobs, status'[k] = "queued"
        PROVE  \E i \in 1..Len(queue') : queue'[i] = k
    <3>1. k # queue[1] /\ status[k] = "queued"
      BY <2>2, <2>3
    <3>2. PICK i \in 1..Len(queue) : queue[i] = k
      BY <3>1 DEF QueueInv
    <3>3. i # 1 /\ i - 1 \in 1..Len(queue') /\ (i - 1) + 1 = i
      BY <3>1, <3>2, <2>1
    <3> QED BY <3>2, <3>3, <2>1
  <2>4. ASSUME NEW i \in 1..Len(queue') PROVE status'[queue'[i]] = "queued"
    <3>1. i + 1 \in 1..Len(queue) /\ 1 \in 1..Len(queue) /\ i + 1 # 1
      BY <2>1
    <3>2. queue[i + 1] # queue[1] /\ status[queue[i + 1]] = "queued"
      BY <3>1 DEF QueueInv
    <3> QED BY <3>1, <3>2, <2>1, <2>2
  <2>5. ASSUME NEW i \in 1..Len(queue'), NEW k \in 1..Len(queue'), queue'[i] = queue'[k]
        PROVE  i = k
    <3>1. i + 1 \in 1..Len(queue) /\ k + 1 \in 1..Len(queue) /\ queue[i + 1] = queue[k + 1]
      BY <2>1, <2>5
    <3>2. i + 1 = k + 1
      BY <3>1 DEF QueueInv
    <3> QED BY <3>2, <2>1
  <2> QED BY <2>3, <2>4, <2>5 DEF QueueInv
<1>12. ASSUME NEW w \in Workers, GoIdle(w) PROVE QueueInv'
  BY <1>12 DEF GoIdle, QueueInv
<1>13. ASSUME NEW w \in Workers, Spin(w) PROVE QueueInv'
  BY <1>13 DEF Spin, pool, threads, vars, QueueInv, WorkInv, Types
<1>14. ASSUME NEW w \in Workers, ExitThread(w) PROVE QueueInv'
  BY <1>14 DEF ExitThread, pool, threads, vars, QueueInv, WorkInv, Types
<1>15. ASSUME NEW w \in Workers, SpuriousWake(w) PROVE QueueInv'
  BY <1>15 DEF SpuriousWake, pool, threads, vars, QueueInv, WorkInv, Types
<1>16. CASE Terminate
  BY <1>16 DEF Terminate, pool, threads, vars, QueueInv, WorkInv, Types
<1>17. ASSUME NEW w \in Workers, StopCancel(w) PROVE QueueInv'
  <2>1. \A k \in Jobs : k = work[w] => status[k] = "assigned"
    BY <1>17, PoolAssumption DEF StopCancel, WorkInv, Types
  <2> QED BY <1>17, <2>1 DEF StopCancel, pool, QueueInv, Types
<1>18. ASSUME NEW w \in Workers, StopFlag(w) PROVE QueueInv'
  BY <1>18 DEF StopFlag, pool, threads, vars, QueueInv, WorkInv, Types
<1>19. ASSUME NEW w \in Workers, StopJoin(w) PROVE QueueInv'
  BY <1>19 DEF StopJoin, pool, threads, vars, QueueInv, WorkInv, Types
<1>20. ASSUME NEW w \in Workers, StopTimeout(w) PROVE QueueInv'
  BY <1>20 DEF StopTimeout, pool, threads, vars, QueueInv, WorkInv, Types
<1>21. CASE UNCHANGED vars
  BY <1>21 DEF vars, QueueInv
<1> QED
  BY <1>1, <1>2, <1>3, <1>4, <1>5, <1>6, <1>7, <1>8, <1>9, <1>10, <1>11, <1>12, <1>13, <1>14, <1>15, <1>16, <1>17, <1>18, <1>19, <1>20, <1>21
     DEF Next, AddJob, Thread, Stop, Done

\* Every step keeps each job that left the queue with exactly one worker.
LEMMA WorkStep == Types /\ QueueInv /\ WorkInv /\ [Next]_vars => WorkInv'
<1> SUFFICES ASSUME Types /\ QueueInv /\ WorkInv, [Next]_vars PROVE WorkInv'
  OBVIOUS
<1>1. ASSUME NEW j \in Jobs, FindPoolFull(j) PROVE WorkInv'
  BY <1>1 DEF FindPoolFull, pool, threads, vars, WorkInv, Types, At, PCs
<1>2. ASSUME NEW j \in Jobs, Enqueue(j) PROVE WorkInv'
  <2>1. \A v \in Workers : pc'[v] = pc[v] \/ (pc[v] = "waiting" /\ pc'[v] = "woken")
    <3>1. CASE At({"waiting"}) = {}
      BY <1>2, <3>1 DEF Enqueue, NotifyOne
    <3>2. CASE At({"waiting"}) # {}
      <4>1. PICK x \in At({"waiting"}) : pc' = [pc EXCEPT ![x] = "woken"]
        BY <1>2, <3>2 DEF Enqueue, NotifyOne
      <4> QED BY <4>1 DEF At, Types
    <3> QED BY <3>1, <3>2
  <2> QED BY <1>2, <2>1 DEF Enqueue, WorkInv, Types, At
<1>3. ASSUME NEW j \in Jobs, NEW w \in Workers, AddToNewWorker(j, w) PROVE WorkInv'
  <2>1. work[w] = NoJob /\ \A v \in Workers : work[v] # j
    BY <1>3, PoolAssumption DEF AddToNewWorker, WorkInv
  <2> QED BY <1>3, <2>1, PoolAssumption DEF AddToNewWorker, WorkInv, Types, At
<1>4. CASE ClearJobs
  BY <1>4 DEF ClearJobs, pool, threads, vars, WorkInv, Types, At, PCs
<1>5. CASE WaitForAll
  BY <1>5 DEF WaitForAll, pool, threads, vars, WorkInv, Types, At, PCs
<1>6. CASE WaitAgain
  BY <1>6 DEF WaitAgain, pool, threads, vars, WorkInv, Types, At, PCs
<1>7. CASE WaitTimeout
  BY <1>7 DEF WaitTimeout, pool, threads, vars, WorkInv, Types, At, PCs
<1>8. ASSUME NEW w \in Workers, StartJob(w) PROVE WorkInv'
  BY <1>8 DEF StartJob, pool, threads, vars, WorkInv, Types, At, PCs
<1>9. ASSUME NEW w \in Workers, FinishJob(w) PROVE WorkInv'
  BY <1>9 DEF FinishJob, pool, threads, vars, WorkInv, Types, At, PCs
<1>10. ASSUME NEW w \in Workers, ReportJob(w) PROVE WorkInv'
  BY <1>10 DEF ReportJob, pool, threads, vars, WorkInv, Types, At, PCs
<1>11. ASSUME NEW w \in Workers, TakeJob(w) PROVE WorkInv'
  <2>1. /\ Head(queue) \in Jobs
        /\ status[Head(queue)] = "queued"
    BY <1>11 DEF TakeJob, Types, QueueInv
  <2>2. \A v \in Workers : work[v] # Head(queue)
    BY <2>1, PoolAssumption DEF WorkInv
  <2>3. pc[w] \notin {"loop", "running"} /\ work[w] = NoJob
    BY <1>11 DEF TakeJob, InJobDone, WorkInv
  <2> QED BY <1>11, <2>1, <2>2, <2>3, PoolAssumption DEF TakeJob, WorkInv, Types, At
<1>12. ASSUME NEW w \in Workers, GoIdle(w) PROVE WorkInv'
  BY <1>12 DEF GoIdle, InJobDone, WorkInv, Types, At
<1>13. ASSUME NEW w \in Workers, Spin(w) PROVE WorkInv'
  BY <1>13 DEF Spin, InJobDone, WorkInv, Types, At
<1>14. ASSUME NEW w \in Workers, ExitThread(w) PROVE WorkInv'
  <2>1. /\ pc[w] # "running" /\ work[w] = NoJob /\ pc'[w] = "exited"
        /\ \A v \in Workers \ {w} : pc'[v] = pc[v]
        /\ work' = work /\ status' = status
    BY <1>14 DEF ExitThread, WorkInv, Types
  <2>2. \A v \in Workers : work[v] # NoJob => v # w /\ pc'[v] = pc[v]
    BY <2>1
  <2>3. \A k \in Jobs : status[k] = "assigned" => \E v \in At({"loop"})' : work[v] = k
    BY <2>2, PoolAssumption DEF WorkInv, At
  <2>4. \A k \in Jobs : status[k] = "running" => \E v \in At({"running"})' : work[v] = k
    BY <2>2, PoolAssumption DEF WorkInv, At
  <2>5. \A v \in At({"running"})' : work[v] # NoJob
    BY <2>1 DEF WorkInv, At
  <2> QED BY <2>1, <2>2, <2>3, <2>4, <2>5 DEF WorkInv
<1>15. ASSUME NEW w \in Workers, SpuriousWake(w) PROVE WorkInv'
  BY <1>15 DEF SpuriousWake, pool, threads, vars, WorkInv, Types, At, PCs
<1>16. CASE Terminate
  BY <1>16 DEF Terminate, pool, threads, vars, WorkInv, Types, At, PCs
<1>17. ASSUME NEW w \in Workers, StopCancel(w) PROVE WorkInv'
  BY <1>17 DEF StopCancel, pool, threads, vars, WorkInv, Types, At, PCs
<1>18. ASSUME NEW w \in Workers, StopFlag(w) PROVE WorkInv'
  BY <1>18 DEF StopFlag, pool, threads, vars, WorkInv, Types, At, PCs
<1>19. ASSUME NEW w \in Workers, StopJoin(w) PROVE WorkInv'
  BY <1>19 DEF StopJoin, pool, threads, vars, WorkInv, Types, At, PCs
<1>20. ASSUME NEW w \in Workers, StopTimeout(w) PROVE WorkInv'
  BY <1>20 DEF StopTimeout, pool, threads, vars, WorkInv, Types, At, PCs
<1>21. CASE UNCHANGED vars
  BY <1>21 DEF vars, WorkInv, At
<1> QED
  BY <1>1, <1>2, <1>3, <1>4, <1>5, <1>6, <1>7, <1>8, <1>9, <1>10, <1>11, <1>12, <1>13, <1>14, <1>15, <1>16, <1>17, <1>18, <1>19, <1>20, <1>21
     DEF Next, AddJob, Thread, Stop, Done

-----------------------------------------------------------------------------
(* Work conservation.                                                      *)

\* Termination has woken every sleeping worker, and none falls asleep again.
TerminatingWakes == terminating => At({"waiting"}) = {}

Awake == {"woken"}
Asleep == {"waiting"}

\* One thread's move changes the number of woken threads by at most one.
LEMMA AwakeMove ==
  ASSUME NEW w \in Workers, \A v \in Workers \ {w} : pc'[v] = pc[v]
  PROVE  /\ Cardinality(In(pc', Awake)) =
              Cardinality(In(pc, Awake)) + (IF pc'[w] \in Awake THEN 1 ELSE 0)
                                         - (IF pc[w] \in Awake THEN 1 ELSE 0)
         /\ Cardinality(In(pc, Awake)) \in Nat
         /\ Cardinality(In(pc', Awake)) \in Nat
<1>0. SameBut(pc, pc', w)
  BY DEF SameBut
<1>1. CountMoved(pc, pc', w, Awake)
  BY <1>0, MoveCount
<1>2. Cardinality(In(pc, Awake)) \in Nat
  BY AtFinite
<1>3. Cardinality(In(pc', Awake)) \in Nat
  BY AtFinite
<1> QED BY <1>1, <1>2, <1>3 DEF CountMoved

Conserving == TerminatingWakes /\ WorkConserving

\* Conserving in terms of In.
LEMMA ConservingIn ==
  /\ Conserving <=>
       /\ terminating => In(pc, Asleep) = {}
       /\ In(pc, Asleep) # {} => Cardinality(In(pc, Awake)) >= Len(queue)
  /\ Conserving' <=>
       /\ terminating' => In(pc', Asleep) = {}
       /\ In(pc', Asleep) # {} => Cardinality(In(pc', Awake)) >= Len(queue')
BY AtIsIn DEF Conserving, TerminatingWakes, WorkConserving, Asleep, Awake

\* Every step conserves work.
LEMMA ConservingStep == Types /\ Conserving /\ [Next]_vars => Conserving'
<1> SUFFICES ASSUME Types /\ Conserving, [Next]_vars PROVE Conserving'
  OBVIOUS
<1>1. ASSUME NEW j \in Jobs, FindPoolFull(j) PROVE Conserving'
  BY <1>1, ConservingIn DEF FindPoolFull, pool, threads, vars
<1>2. ASSUME NEW j \in Jobs, Enqueue(j) PROVE Conserving'
  <2>1. CASE At({"waiting"}) = {}
    <3>1. pc' = pc
      BY <2>1, <1>2 DEF Enqueue, NotifyOne
    <3>2. In(pc, Asleep) = {}
      BY <2>1, AtIsIn DEF Asleep
    <3> QED BY <3>1, <3>2, ConservingIn
  <2>2. CASE At({"waiting"}) # {}
    <3>1. PICK w \in At({"waiting"}) : pc' = [pc EXCEPT ![w] = "woken"]
      BY <2>2, <1>2 DEF Enqueue, NotifyOne
    <3>2. /\ w \in Workers /\ pc'[w] \in Awake /\ pc[w] \notin Awake /\ pc[w] \in Asleep
          /\ \A v \in Workers \ {w} : pc'[v] = pc[v]
      BY <3>1 DEF At, Awake, Asleep, Types
    <3>3. Cardinality(In(pc', Awake)) = Cardinality(In(pc, Awake)) + 1
      BY <3>2, AwakeMove
    <3>4. In(pc, Asleep) # {}
      BY <3>2 DEF In
    <3>5. Len(queue') = Len(queue) + 1 /\ Len(queue) \in Nat /\ terminating' = terminating
      BY <1>2 DEF Enqueue, Types
    <3>6. Cardinality(In(pc, Awake)) \in Nat /\ ~terminating
      BY <3>2, <3>4, AwakeMove, ConservingIn
    <3> QED BY <3>3, <3>4, <3>5, <3>6, ConservingIn
  <2> QED BY <2>1, <2>2
<1>3. ASSUME NEW j \in Jobs, NEW w \in Workers, AddToNewWorker(j, w) PROVE Conserving'
  <2>1. /\ \A v \in Workers \ {w} : pc'[v] = pc[v]
        /\ pc[w] \notin Asleep \cup Awake /\ pc'[w] \notin Asleep \cup Awake
    BY <1>3 DEF AddToNewWorker, Types, Asleep, Awake
  <2>2. In(pc', Asleep) = In(pc, Asleep) /\ In(pc', Awake) = In(pc, Awake)
    BY <2>1 DEF In
  <2> QED BY <2>2, <1>3, ConservingIn DEF AddToNewWorker, pool
<1>4. CASE ClearJobs
  <2>1. Len(queue') = 0 /\ terminating' = terminating /\ pc' = pc
    BY <1>4 DEF ClearJobs, threads
  <2>2. Cardinality(In(pc, Awake)) \in Nat
    BY AtFinite
  <2> QED BY <2>1, <2>2, ConservingIn
<1>5. CASE WaitForAll
  BY <1>5, ConservingIn DEF WaitForAll, pool, threads, vars
<1>6. CASE WaitAgain
  BY <1>6, ConservingIn DEF WaitAgain, pool, threads, vars
<1>7. CASE WaitTimeout
  BY <1>7, ConservingIn DEF WaitTimeout, pool, threads, vars
<1>8. ASSUME NEW w \in Workers, StartJob(w) PROVE Conserving'
  <2>1. /\ \A v \in Workers \ {w} : pc'[v] = pc[v]
        /\ pc[w] \notin Asleep \cup Awake /\ pc'[w] \notin Asleep \cup Awake
    BY <1>8 DEF StartJob, Types, Asleep, Awake
  <2>2. In(pc', Asleep) = In(pc, Asleep) /\ In(pc', Awake) = In(pc, Awake)
    BY <2>1 DEF In
  <2> QED BY <2>2, <1>8, ConservingIn DEF StartJob, pool
<1>9. ASSUME NEW w \in Workers, FinishJob(w) PROVE Conserving'
  <2>1. /\ \A v \in Workers \ {w} : pc'[v] = pc[v]
        /\ pc[w] \notin Asleep \cup Awake /\ pc'[w] \notin Asleep \cup Awake
    BY <1>9 DEF FinishJob, Types, Asleep, Awake
  <2>2. In(pc', Asleep) = In(pc, Asleep) /\ In(pc', Awake) = In(pc, Awake)
    BY <2>1 DEF In
  <2> QED BY <2>2, <1>9, ConservingIn DEF FinishJob, pool
<1>10. ASSUME NEW w \in Workers, ReportJob(w) PROVE Conserving'
  <2>1. /\ \A v \in Workers \ {w} : pc'[v] = pc[v]
        /\ pc[w] \notin Asleep \cup Awake /\ pc'[w] \notin Asleep \cup Awake
    BY <1>10 DEF ReportJob, Types, Asleep, Awake
  <2>2. In(pc', Asleep) = In(pc, Asleep) /\ In(pc', Awake) = In(pc, Awake)
    BY <2>1 DEF In
  <2> QED BY <2>2, <1>10, ConservingIn DEF ReportJob, pool
<1>11. ASSUME NEW w \in Workers, TakeJob(w) PROVE Conserving'
  <2>1. /\ \A v \in Workers \ {w} : pc'[v] = pc[v]
        /\ pc[w] \notin Asleep /\ pc'[w] \notin Asleep /\ pc'[w] \notin Awake
    BY <1>11 DEF TakeJob, InJobDone, Types, Asleep, Awake
  <2>2. In(pc', Asleep) = In(pc, Asleep)
    BY <2>1 DEF In
  <2>3. /\ Cardinality(In(pc', Awake)) >= Cardinality(In(pc, Awake)) - 1
        /\ Cardinality(In(pc, Awake)) \in Nat /\ Cardinality(In(pc', Awake)) \in Nat
    BY <2>1, AwakeMove
  <2>4. Len(queue') = Len(queue) - 1 /\ Len(queue) \in Nat
    BY <1>11 DEF TakeJob, Types
  <2>5. terminating' = terminating
    BY <1>11 DEF TakeJob
  <2> QED BY <2>2, <2>3, <2>4, <2>5, ConservingIn
<1>12. ASSUME NEW w \in Workers, GoIdle(w) PROVE Conserving'
  <2>1. Len(queue') = 0 /\ terminating' = terminating
    BY <1>12 DEF GoIdle
  <2>2. Cardinality(In(pc', Awake)) \in Nat
    BY AtFinite
  <2>3. terminating => In(pc', Asleep) = {}
    <3>1. terminating => In(pc, Asleep) = {}
      BY ConservingIn
    <3>2. terminating => pc'[w] \notin Asleep /\ \A v \in Workers \ {w} : pc'[v] = pc[v]
      BY <1>12 DEF GoIdle, Types, Asleep
    <3> QED BY <3>1, <3>2 DEF In
  <2> QED BY <2>1, <2>2, <2>3, ConservingIn
<1>13. ASSUME NEW w \in Workers, Spin(w) PROVE Conserving'
  <2>1. In(pc, Asleep) = {} /\ pc'[w] \notin Asleep /\ \A v \in Workers \ {w} : pc'[v] = pc[v]
    BY <1>13, ConservingIn DEF Spin, Types, Asleep
  <2>2. In(pc', Asleep) = {}
    BY <2>1 DEF In
  <2> QED BY <2>2, ConservingIn
<1>14. ASSUME NEW w \in Workers, ExitThread(w) PROVE Conserving'
  <2>1. /\ \A v \in Workers \ {w} : pc'[v] = pc[v]
        /\ pc[w] \notin Asleep \cup Awake /\ pc'[w] \notin Asleep \cup Awake
    BY <1>14 DEF ExitThread, Types, Asleep, Awake
  <2>2. In(pc', Asleep) = In(pc, Asleep) /\ In(pc', Awake) = In(pc, Awake)
    BY <2>1 DEF In
  <2> QED BY <2>2, <1>14, ConservingIn DEF ExitThread, pool
<1>15. ASSUME NEW w \in Workers, SpuriousWake(w) PROVE Conserving'
  <2>1. /\ \A v \in Workers \ {w} : pc'[v] = pc[v]
        /\ pc[w] \in Asleep /\ pc[w] \notin Awake /\ pc'[w] \in Awake
    BY <1>15 DEF SpuriousWake, Types, Asleep, Awake
  <2>2. /\ Cardinality(In(pc', Awake)) = Cardinality(In(pc, Awake)) + 1
        /\ Cardinality(In(pc, Awake)) \in Nat
    BY <2>1, AwakeMove
  <2>3. In(pc, Asleep) # {}
    BY <2>1 DEF In
  <2>4. queue' = queue /\ terminating' = terminating /\ Len(queue) \in Nat
    BY <1>15 DEF SpuriousWake, pool, Types
  <2> QED BY <2>2, <2>3, <2>4, ConservingIn
<1>16. CASE Terminate
  <2>1. In(pc', Asleep) = {}
    BY <1>16 DEF Terminate, In, Asleep, Types
  <2> QED BY <2>1, ConservingIn
<1>17. ASSUME NEW w \in Workers, StopCancel(w) PROVE Conserving'
  BY <1>17, ConservingIn DEF StopCancel, pool, threads, vars
<1>18. ASSUME NEW w \in Workers, StopFlag(w) PROVE Conserving'
  BY <1>18, ConservingIn DEF StopFlag, pool, threads, vars
<1>19. ASSUME NEW w \in Workers, StopJoin(w) PROVE Conserving'
  BY <1>19, ConservingIn DEF StopJoin, pool, threads, vars
<1>20. ASSUME NEW w \in Workers, StopTimeout(w) PROVE Conserving'
  BY <1>20, ConservingIn DEF StopTimeout, pool, threads, vars
<1>21. CASE UNCHANGED vars
  BY <1>21, ConservingIn DEF vars
<1> QED
  BY <1>1, <1>2, <1>3, <1>4, <1>5, <1>6, <1>7, <1>8, <1>9, <1>10, <1>11, <1>12, <1>13, <1>14, <1>15, <1>16, <1>17, <1>18, <1>19, <1>20, <1>21
     DEF Next, AddJob, Thread, Stop, Done

-----------------------------------------------------------------------------
(* wait_for_all_jobs_completed.                                            *)

Final == {"done", "cleared", "dropped"}
Unaccepted == {"new", "adding"}

\* Jobs only move forward: an accepted one stays accepted, an ended one ended.
Forward ==
  \A k \in Jobs :
    /\ status[k] \in Final => status'[k] \in Final
    /\ status[k] \notin Unaccepted => status'[k] \notin Unaccepted

\* Every step moves jobs forward.
LEMMA ForwardStep == Types /\ QueueInv /\ WorkInv /\ [Next]_vars => Forward
<1> SUFFICES ASSUME Types /\ QueueInv /\ WorkInv, [Next]_vars PROVE Forward
  OBVIOUS
<1> USE DEF Forward, Final, Unaccepted
<1>1. ASSUME NEW j \in Jobs, FindPoolFull(j) PROVE Forward
  BY <1>1 DEF FindPoolFull, pool, threads, vars, Types
<1>2. ASSUME NEW j \in Jobs, Enqueue(j) PROVE Forward
  BY <1>2 DEF Enqueue, pool, threads, vars, Types
<1>3. ASSUME NEW j \in Jobs, NEW w \in Workers, AddToNewWorker(j, w) PROVE Forward
  BY <1>3 DEF AddToNewWorker, pool, threads, vars, Types
<1>4. CASE ClearJobs
  BY <1>4 DEF ClearJobs, pool, threads, vars, Types
<1>5. CASE WaitForAll
  BY <1>5 DEF WaitForAll, pool, threads, vars, Types
<1>6. CASE WaitAgain
  BY <1>6 DEF WaitAgain, pool, threads, vars, Types
<1>7. CASE WaitTimeout
  BY <1>7 DEF WaitTimeout, pool, threads, vars, Types
<1>8. ASSUME NEW w \in Workers, StartJob(w) PROVE Forward
  <2>1. work[w] \in Jobs /\ status[work[w]] = "assigned"
    BY <1>8 DEF StartJob, WorkInv, Types
  <2> QED BY <1>8, <2>1 DEF StartJob, Types
<1>9. ASSUME NEW w \in Workers, FinishJob(w) PROVE Forward
  <2>1. work[w] \in Jobs /\ status[work[w]] = "running"
    BY <1>9 DEF FinishJob, WorkInv, Types, At
  <2> QED BY <1>9, <2>1 DEF FinishJob, Types
<1>10. ASSUME NEW w \in Workers, ReportJob(w) PROVE Forward
  BY <1>10 DEF ReportJob, pool, threads, vars, Types
<1>11. ASSUME NEW w \in Workers, TakeJob(w) PROVE Forward
  <2>1. Head(queue) \in Jobs /\ status[Head(queue)] = "queued"
    BY <1>11 DEF TakeJob, Types, QueueInv
  <2> QED BY <2>1, <1>11 DEF TakeJob, Types
<1>12. ASSUME NEW w \in Workers, GoIdle(w) PROVE Forward
  BY <1>12 DEF GoIdle, pool, threads, vars, Types
<1>13. ASSUME NEW w \in Workers, Spin(w) PROVE Forward
  BY <1>13 DEF Spin, pool, threads, vars, Types
<1>14. ASSUME NEW w \in Workers, ExitThread(w) PROVE Forward
  BY <1>14 DEF ExitThread, pool, threads, vars, Types
<1>15. ASSUME NEW w \in Workers, SpuriousWake(w) PROVE Forward
  BY <1>15 DEF SpuriousWake, pool, threads, vars, Types
<1>16. CASE Terminate
  BY <1>16 DEF Terminate, pool, threads, vars, Types
<1>17. ASSUME NEW w \in Workers, StopCancel(w) PROVE Forward
  <2>1. \A k \in Jobs : status'[k] = IF k = work[w] THEN "dropped" ELSE status[k]
    BY <1>17 DEF StopCancel, Types
  <2> QED BY <2>1
<1>18. ASSUME NEW w \in Workers, StopFlag(w) PROVE Forward
  BY <1>18 DEF StopFlag, pool, threads, vars, Types
<1>19. ASSUME NEW w \in Workers, StopJoin(w) PROVE Forward
  BY <1>19 DEF StopJoin, pool, threads, vars, Types
<1>20. ASSUME NEW w \in Workers, StopTimeout(w) PROVE Forward
  BY <1>20 DEF StopTimeout, pool, threads, vars, Types
<1>21. CASE UNCHANGED vars
  BY <1>21 DEF vars
<1> QED
  BY <1>1, <1>2, <1>3, <1>4, <1>5, <1>6, <1>7, <1>8, <1>9, <1>10, <1>11, <1>12, <1>13, <1>14, <1>15, <1>16, <1>17, <1>18, <1>19, <1>20, <1>21
     DEF Next, AddJob, Thread, Stop, Done

\* Only the client's own tests of the condition make its call return true.
WaiterKept ==
  \/ WaitForAll
  \/ WaitAgain
  \/ pledge' = pledge /\ (waiter' = "true" => waiter = "true")

\* Every step is one of those tests or does not make the call return true.
LEMMA WaiterStep == [Next]_vars => WaiterKept
<1> SUFFICES ASSUME [Next]_vars PROVE WaiterKept
  OBVIOUS
<1>1. ASSUME NEW j \in Jobs, FindPoolFull(j) PROVE WaiterKept
  BY <1>1 DEF FindPoolFull, pool, threads, vars, WaiterKept
<1>2. ASSUME NEW j \in Jobs, Enqueue(j) PROVE WaiterKept
  BY <1>2 DEF Enqueue, pool, threads, vars, WaiterKept
<1>3. ASSUME NEW j \in Jobs, NEW w \in Workers, AddToNewWorker(j, w) PROVE WaiterKept
  BY <1>3 DEF AddToNewWorker, pool, threads, vars, WaiterKept
<1>4. CASE ClearJobs
  BY <1>4 DEF ClearJobs, pool, threads, vars, WaiterKept
<1>5. CASE WaitForAll
  BY <1>5 DEF WaiterKept
<1>6. CASE WaitAgain
  BY <1>6 DEF WaiterKept
<1>7. CASE WaitTimeout
  BY <1>7 DEF WaitTimeout, pool, threads, vars, WaiterKept
<1>8. ASSUME NEW w \in Workers, StartJob(w) PROVE WaiterKept
  BY <1>8 DEF StartJob, pool, threads, vars, WaiterKept
<1>9. ASSUME NEW w \in Workers, FinishJob(w) PROVE WaiterKept
  BY <1>9 DEF FinishJob, pool, threads, vars, WaiterKept
<1>10. ASSUME NEW w \in Workers, ReportJob(w) PROVE WaiterKept
  BY <1>10 DEF ReportJob, pool, threads, vars, WaiterKept
<1>11. ASSUME NEW w \in Workers, TakeJob(w) PROVE WaiterKept
  BY <1>11 DEF TakeJob, pool, threads, vars, WaiterKept
<1>12. ASSUME NEW w \in Workers, GoIdle(w) PROVE WaiterKept
  BY <1>12 DEF GoIdle, NotifyWaiter, WaiterKept
<1>13. ASSUME NEW w \in Workers, Spin(w) PROVE WaiterKept
  BY <1>13 DEF Spin, pool, threads, vars, WaiterKept
<1>14. ASSUME NEW w \in Workers, ExitThread(w) PROVE WaiterKept
  BY <1>14 DEF ExitThread, pool, threads, vars, WaiterKept
<1>15. ASSUME NEW w \in Workers, SpuriousWake(w) PROVE WaiterKept
  BY <1>15 DEF SpuriousWake, pool, threads, vars, WaiterKept
<1>16. CASE Terminate
  BY <1>16 DEF Terminate, pool, threads, vars, WaiterKept
<1>17. ASSUME NEW w \in Workers, StopCancel(w) PROVE WaiterKept
  BY <1>17 DEF StopCancel, pool, threads, vars, WaiterKept
<1>18. ASSUME NEW w \in Workers, StopFlag(w) PROVE WaiterKept
  BY <1>18 DEF StopFlag, pool, threads, vars, WaiterKept
<1>19. ASSUME NEW w \in Workers, StopJoin(w) PROVE WaiterKept
  BY <1>19 DEF StopJoin, pool, threads, vars, WaiterKept
<1>20. ASSUME NEW w \in Workers, StopTimeout(w) PROVE WaiterKept
  BY <1>20 DEF StopTimeout, pool, threads, vars, WaiterKept
<1>21. CASE UNCHANGED vars
  BY <1>21 DEF vars, WaiterKept
<1> QED
  BY <1>1, <1>2, <1>3, <1>4, <1>5, <1>6, <1>7, <1>8, <1>9, <1>10, <1>11, <1>12, <1>13, <1>14, <1>15, <1>16, <1>17, <1>18, <1>19, <1>20, <1>21
     DEF Next, AddJob, Thread, Stop, Done

\* When every thread is counted idle and the queue is empty, no accepted job
\* is left to do.
LEMMA Settled ==
  ASSUME Base, ~Unfinished
  PROVE  \A k \in Jobs : status[k] \in Final \cup Unaccepted
<1>1. queue = <<>> /\ idle >= MaxWorkers
  BY PoolAssumption, FS_CardinalityType DEF Base, Types, Unfinished, MaxWorkers
<1>2. idle <= Cardinality(In(pc, NotBusyPCs))
  BY IdleCountsIn DEF Base
<1>3. /\ Cardinality(In(pc, NotBusyPCs)) \in Nat
      /\ Cardinality(In(pc, NotBusyPCs)) <= MaxWorkers
      /\ MaxWorkers \in Nat
  BY AtFinite, PoolAssumption, FS_CardinalityType DEF MaxWorkers
<1>4. Cardinality(In(pc, NotBusyPCs)) = MaxWorkers
  BY <1>1, <1>2, <1>3 DEF Base, Types
<1>5. In(pc, NotBusyPCs) = Workers
  BY <1>4, AtFinite
<1>6. At({"loop"}) = {} /\ At({"running"}) = {}
  BY <1>5 DEF In, At, NotBusyPCs, IdlePCs
<1>7. \A k \in Jobs : status[k] \notin {"assigned", "running"}
  BY <1>6 DEF Base, WorkInv
<1>8. \A k \in Jobs : status[k] # "queued"
  BY <1>1 DEF Base, QueueInv
<1> QED BY <1>7, <1>8 DEF Base, Types, Statuses, Final, Unaccepted

\* What a waiting client was promised was accepted.
PledgeInv == \A k \in pledge : status[k] \notin Unaccepted

WaitInv == WaitIsSound /\ PledgeInv

\* Every step keeps what a returned wait_for_all_jobs_completed has promised.
LEMMA WaitStep == Base /\ Base' /\ WaitInv /\ [Next]_vars => WaitInv'
<1> SUFFICES ASSUME Base, Base', WaitInv, [Next]_vars PROVE WaitInv'
  OBVIOUS
<1>1. Forward
  BY ForwardStep DEF Base
<1>2. pledge \subseteq Jobs /\ pledge' \subseteq Jobs
  BY DEF Base, Types
<1>3. WaitIsSound' <=> (waiter' = "true" => \A k \in pledge' : status'[k] \in Final)
  BY <1>2 DEF WaitIsSound, InState, Final
<1>4. WaitIsSound <=> (waiter = "true" => \A k \in pledge : status[k] \in Final)
  BY <1>2 DEF WaitIsSound, InState, Final
<1>5. CASE WaitForAll
  <2>1. \A k \in pledge' : status'[k] \notin Unaccepted /\ status'[k] = status[k]
    BY <1>5 DEF WaitForAll, InState, Statuses, Unaccepted
  <2>2. waiter' = "true" => \A k \in Jobs : status[k] \in Final \cup Unaccepted
    BY <1>5, Settled DEF WaitForAll
  <2> QED BY <2>1, <2>2, <1>2, <1>3 DEF WaitInv, PledgeInv
<1>6. CASE WaitAgain
  <2>1. pledge' = pledge /\ status' = status
    BY <1>6 DEF WaitAgain
  <2>2. waiter' = "true" => \A k \in Jobs : status[k] \in Final \cup Unaccepted
    BY <1>6, Settled DEF WaitAgain
  <2> QED BY <2>1, <2>2, <1>2, <1>3 DEF WaitInv, PledgeInv
<1>7. CASE pledge' = pledge /\ (waiter' = "true" => waiter = "true")
  <2>1. PledgeInv'
    BY <1>7, <1>1, <1>2 DEF WaitInv, PledgeInv, Forward
  <2>2. ASSUME waiter' = "true", NEW k \in pledge' PROVE status'[k] \in Final
    BY <2>2, <1>7, <1>1, <1>2, <1>4 DEF WaitInv, Forward
  <2> QED BY <2>1, <2>2, <1>3 DEF WaitInv
<1> QED BY <1>5, <1>6, <1>7, WaiterStep DEF WaiterKept

-----------------------------------------------------------------------------
(* The invariant of the pool, and what follows from it.                    *)

Inv == Base /\ Conserving /\ WaitInv

\* The inductive invariant holds when the pool is created,
LEMMA InitInv == Init => Inv
<1> SUFFICES ASSUME Init PROVE Inv
  OBVIOUS
<1>1. MaxWorkers \in Nat /\ IsFiniteSet(Workers)
  BY PoolAssumption, FS_CardinalityType DEF MaxWorkers
<1>2. Types
  <2>1. queue \in Seq(Jobs) /\ idle \in Nat /\ pledge \subseteq Jobs
    BY <1>1 DEF Init
  <2>2. pc \in [Workers -> PCs] /\ stage \in [Workers -> Stages]
    BY DEF Init, PCs, Stages
  <2>3. work \in [Workers -> Jobs \cup {NoJob}] /\ status \in [Jobs -> Statuses]
    BY DEF Init, Statuses
  <2> QED BY <2>1, <2>2, <2>3 DEF Init, Types
<1>3. At(IdlePCs) = Workers /\ At(NotBusyPCs) = Workers /\ At({"waiting"}) = {}
  BY DEF Init, At, IdlePCs, NotBusyPCs
<1>4. IdleCounts
  BY <1>1, <1>3 DEF Init, IdleCounts, MaxWorkers
<1>5. QueueInv /\ WorkInv
  BY DEF Init, QueueInv, WorkInv, At
<1>6. Conserving /\ WaitInv
  BY <1>3 DEF Init, Conserving, TerminatingWakes, WorkConserving, WaitInv, WaitIsSound, PledgeInv
<1> QED BY <1>2, <1>4, <1>5, <1>6 DEF Inv, Base

\* every step keeps it,
LEMMA StepInv == Inv /\ [Next]_vars => Inv'
<1> SUFFICES ASSUME Inv, [Next]_vars PROVE Inv'
  OBVIOUS
<1>1. Base'
  BY TypesStep, IdleStep, QueueStep, WorkStep DEF Inv, Base
<1>2. Conserving'
  BY ConservingStep DEF Inv, Base
<1>3. WaitInv'
  BY <1>1, WaitStep DEF Inv
<1> QED BY <1>1, <1>2, <1>3 DEF Inv

\* and so it holds in every state of the pool.
THEOREM Invariance == Spec => []Inv
BY InitInv, StepInv, PTL DEF Spec

\* Every type of TypeOK is kept, m_idle_workers never exceeding the maximum:
\* the unsigned counter of thread_pool.cpp never wraps.
THEOREM TypeCorrect == Spec => []TypeOK
<1>1. Inv => TypeOK
  <2> SUFFICES ASSUME Inv PROVE TypeOK
    OBVIOUS
  <2>1. idle <= Cardinality(In(pc, NotBusyPCs)) /\ idle \in Nat
    BY IdleCountsIn DEF Inv, Base, Types
  <2>2. /\ Cardinality(In(pc, NotBusyPCs)) \in Nat
        /\ Cardinality(In(pc, NotBusyPCs)) <= MaxWorkers
        /\ MaxWorkers \in Nat
    BY AtFinite, PoolAssumption, FS_CardinalityType DEF MaxWorkers
  <2>3. idle \in 0..MaxWorkers
    BY <2>1, <2>2
  <2> QED BY <2>3 DEF Inv, Base, Types, TypeOK
<1> QED BY <1>1, Invariance, PTL

\* Neither ARENFORCE of thread_pool.cpp ever throws.
THEOREM EnforcesNeverThrow == Spec => []EnforcesHold
<1>1. Inv => EnforcesHold
  <2> SUFFICES ASSUME Inv PROVE EnforcesHold
    OBVIOUS
  <2>1. /\ Cardinality(In(pc, IdlePCs)) <= idle /\ idle \in Nat
        /\ Cardinality(In(pc, IdlePCs)) \in Nat
    BY IdleCountsIn, AtFinite DEF Inv, Base, Types
  <2>2. ASSUME NEW w \in Workers, pc[w] \in IdlePCs PROVE idle > 0
    <3>1. In(pc, IdlePCs) # {}
      BY <2>2 DEF In
    <3>2. Cardinality(In(pc, IdlePCs)) # 0
      BY <3>1, AtFinite
    <3> QED BY <3>2, <2>1
  <2>3. Created # Workers => \E w \in Workers : pc[w] = "absent"
    BY DEF Created
  <2>4. At({"woken"}) # {} => \E w \in Workers : pc[w] = "woken"
    BY DEF At
  <2>5. "absent" \in IdlePCs /\ "woken" \in IdlePCs
    BY DEF IdlePCs
  <2> QED BY <2>2, <2>3, <2>4, <2>5 DEF EnforcesHold
<1> QED BY <1>1, Invariance, PTL

\* No wake-up is lost: no worker sleeps beside a job nobody comes for.
THEOREM NoLostWakeUp == Spec => []WorkConserving
BY Invariance, PTL DEF Inv, Conserving

\* wait_for_all_jobs_completed returns true only if its jobs have ended.
THEOREM WaitSound == Spec => []WaitIsSound
BY Invariance, PTL DEF Inv, WaitInv

-----------------------------------------------------------------------------
(* The pool implements JobService.                                         *)

\* While a worker has a job to start, fewer jobs run than there are workers.
LEMMA RoomToStart ==
  ASSUME Types, WorkInv, NEW w \in Workers, pc[w] = "loop"
  PROVE  Cardinality({j \in Jobs : status[j] = "running"}) < MaxWorkers
<1> DEFINE J == {j \in Jobs : status[j] = "running"}
           R == At({"running"})
           f == [v \in R |-> work[v]]
<1>1. R \in SUBSET (Workers \ {w})
  BY DEF At
<1>2. IsFiniteSet(Workers \ {w}) /\ Cardinality(Workers \ {w}) = MaxWorkers - 1
  BY PoolAssumption, FS_RemoveElement DEF MaxWorkers
<1>3. IsFiniteSet(R) /\ Cardinality(R) <= MaxWorkers - 1
  BY <1>1, <1>2, FS_Subset
<1>4. f \in Surjection(R, J)
  <2>1. \A v \in R : work[v] \in J
    BY DEF WorkInv, At, Types
  <2>2. \A j \in J : \E v \in R : work[v] = j
    BY DEF WorkInv
  <2> QED BY <2>1, <2>2 DEF Surjection
<1>5. IsFiniteSet(J) /\ Cardinality(J) <= Cardinality(R)
  BY <1>3, <1>4, FS_Surjection
<1>6. MaxWorkers \in Nat /\ Cardinality(R) \in Nat /\ Cardinality(J) \in Nat
  BY <1>3, <1>5, PoolAssumption, FS_CardinalityType DEF MaxWorkers
<1> QED BY <1>3, <1>5, <1>6

\* How the phases of jobs change with their states.
LEMMA PhaseFacts ==
  /\ PhaseOf("new") = "new" /\ PhaseOf("adding") = "new"
  /\ PhaseOf("queued") = "accepted" /\ PhaseOf("assigned") = "accepted"
  /\ PhaseOf("running") = "running" /\ PhaseOf("done") = "done"
  /\ PhaseOf("cleared") = "dropped" /\ PhaseOf("dropped") = "dropped"
BY DEF PhaseOf

\* A step that moves one job moves its phase only.
LEMMA PhaseMove ==
  ASSUME NEW j \in Jobs, \A k \in Jobs \ {j} : status'[k] = status[k]
  PROVE  JobPhase' = [JobPhase EXCEPT ![j] = PhaseOf(status'[j])]
BY DEF JobPhase

\* The abstract step of each concrete one.
ServiceStep == Service!Next \/ JobPhase' = JobPhase

\* Every step of the pool is a step of JobService or leaves it alone.
LEMMA ServiceStepLemma == Types /\ QueueInv /\ WorkInv /\ [Next]_vars => ServiceStep
<1> SUFFICES ASSUME Types /\ QueueInv /\ WorkInv, [Next]_vars PROVE ServiceStep
  OBVIOUS
<1>1. ASSUME NEW j \in Jobs, FindPoolFull(j) PROVE ServiceStep
  <2>1. j \in Jobs /\ status[j] = "new"
    BY <1>1 DEF FindPoolFull, Types, QueueInv, WorkInv, At
  <2>2. /\ status'[j] = "adding"
        /\ \A k \in Jobs \ {j} : status'[k] = status[k]
    BY <1>1, <2>1 DEF FindPoolFull, Types
  <2>3. JobPhase' = [JobPhase EXCEPT ![j] = PhaseOf("adding")]
    BY <2>1, <2>2, PhaseMove
  <2> QED BY <2>1, <2>2, <2>3, PhaseFacts DEF ServiceStep, JobPhase
<1>2. ASSUME NEW j \in Jobs, Enqueue(j) PROVE ServiceStep
  <2>1. j \in Jobs /\ status[j] = "adding"
    BY <1>2 DEF Enqueue, Types, QueueInv, WorkInv, At
  <2>2. /\ status'[j] = "queued"
        /\ \A k \in Jobs \ {j} : status'[k] = status[k]
    BY <1>2, <2>1 DEF Enqueue, Types
  <2>3. JobPhase' = [JobPhase EXCEPT ![j] = PhaseOf("queued")]
    BY <2>1, <2>2, PhaseMove
  <2>4. Service!Accept(j)
    BY <2>1, <2>2, <2>3, PhaseFacts DEF Service!Accept, JobPhase
  <2> QED BY <2>1, <2>4 DEF ServiceStep, Service!Next
<1>3. ASSUME NEW j \in Jobs, NEW w \in Workers, AddToNewWorker(j, w) PROVE ServiceStep
  <2>1. j \in Jobs /\ status[j] = "new"
    BY <1>3 DEF AddToNewWorker, Types, QueueInv, WorkInv, At
  <2>2. /\ status'[j] = "assigned"
        /\ \A k \in Jobs \ {j} : status'[k] = status[k]
    BY <1>3, <2>1 DEF AddToNewWorker, Types
  <2>3. JobPhase' = [JobPhase EXCEPT ![j] = PhaseOf("assigned")]
    BY <2>1, <2>2, PhaseMove
  <2>4. Service!Accept(j)
    BY <2>1, <2>2, <2>3, PhaseFacts DEF Service!Accept, JobPhase
  <2> QED BY <2>1, <2>4 DEF ServiceStep, Service!Next
<1>4. CASE ClearJobs
  <2> DEFINE D == {k \in Jobs : status[k] = "queued"}
  <2>1. D \in SUBSET {k \in Jobs : JobPhase[k] = "accepted"}
    BY PhaseFacts, PoolAssumption, <1>4 DEF ClearJobs, JobPhase, WorkInv, Types
  <2>2. \A k \in Jobs : PhaseOf(status'[k]) = IF k \in D THEN "dropped" ELSE JobPhase[k]
    BY PhaseFacts, <1>4 DEF ClearJobs, JobPhase, Types
  <2>3. JobPhase' = [k \in Jobs |-> IF k \in D THEN "dropped" ELSE JobPhase[k]]
    BY <2>2 DEF JobPhase
  <2>4. Service!Drop
    BY <2>1, <2>3 DEF Service!Drop
  <2> QED BY <2>4 DEF ServiceStep, Service!Next
<1>5. CASE WaitForAll
  BY <1>5 DEF WaitForAll, pool, threads, JobPhase, ServiceStep
<1>6. CASE WaitAgain
  BY <1>6 DEF WaitAgain, pool, threads, JobPhase, ServiceStep
<1>7. CASE WaitTimeout
  BY <1>7 DEF WaitTimeout, pool, threads, JobPhase, ServiceStep
<1>8. ASSUME NEW w \in Workers, StartJob(w) PROVE ServiceStep
  <2>1. work[w] \in Jobs /\ status[work[w]] = "assigned"
    BY <1>8 DEF StartJob, WorkInv, Types
  <2>2. /\ status'[work[w]] = "running"
        /\ \A k \in Jobs \ {work[w]} : status'[k] = status[k]
    BY <1>8, <2>1 DEF StartJob, Types
  <2>3. JobPhase' = [JobPhase EXCEPT ![work[w]] = PhaseOf("running")]
    BY <2>1, <2>2, PhaseMove
  <2>4. Service!Running = {j \in Jobs : status[j] = "running"}
    BY PhaseFacts DEF Service!Running, JobPhase, PhaseOf, Types, Statuses
  <2>5. Cardinality(Service!Running) < MaxWorkers
    BY <2>4, <1>8, RoomToStart DEF StartJob
  <2>6. JobPhase[work[w]] = "accepted"
    BY <2>1, PhaseFacts DEF JobPhase
  <2>7. Service!Start(work[w])
    BY <2>3, <2>5, <2>6, PhaseFacts DEF Service!Start, Service!Cardinality, Cardinality
  <2> QED BY <2>1, <2>7 DEF ServiceStep, Service!Next
<1>9. ASSUME NEW w \in Workers, FinishJob(w) PROVE ServiceStep
  <2>1. work[w] \in Jobs /\ status[work[w]] = "running"
    BY <1>9 DEF FinishJob, Types, QueueInv, WorkInv, At
  <2>2. /\ status'[work[w]] = "done"
        /\ \A k \in Jobs \ {work[w]} : status'[k] = status[k]
    BY <1>9, <2>1 DEF FinishJob, Types
  <2>3. JobPhase' = [JobPhase EXCEPT ![work[w]] = PhaseOf("done")]
    BY <2>1, <2>2, PhaseMove
  <2>4. Service!Finish(work[w])
    BY <2>1, <2>2, <2>3, PhaseFacts DEF Service!Finish, JobPhase
  <2> QED BY <2>1, <2>4 DEF ServiceStep, Service!Next
<1>10. ASSUME NEW w \in Workers, ReportJob(w) PROVE ServiceStep
  BY <1>10 DEF ReportJob, pool, threads, JobPhase, ServiceStep
<1>11. ASSUME NEW w \in Workers, TakeJob(w) PROVE ServiceStep
  <2>1. Head(queue) \in Jobs /\ status[Head(queue)] = "queued"
    BY <1>11 DEF TakeJob, Types, QueueInv, WorkInv, At
  <2>2. /\ status'[Head(queue)] = "assigned"
        /\ \A k \in Jobs \ {Head(queue)} : status'[k] = status[k]
    BY <1>11, <2>1 DEF TakeJob, Types
  <2>3. JobPhase' = [JobPhase EXCEPT ![Head(queue)] = PhaseOf("assigned")]
    BY <2>1, <2>2, PhaseMove
  <2> QED BY <2>1, <2>2, <2>3, PhaseFacts DEF ServiceStep, JobPhase
<1>12. ASSUME NEW w \in Workers, GoIdle(w) PROVE ServiceStep
  BY <1>12 DEF GoIdle, JobPhase, ServiceStep
<1>13. ASSUME NEW w \in Workers, Spin(w) PROVE ServiceStep
  BY <1>13 DEF Spin, pool, threads, JobPhase, ServiceStep
<1>14. ASSUME NEW w \in Workers, ExitThread(w) PROVE ServiceStep
  BY <1>14 DEF ExitThread, pool, threads, JobPhase, ServiceStep
<1>15. ASSUME NEW w \in Workers, SpuriousWake(w) PROVE ServiceStep
  BY <1>15 DEF SpuriousWake, pool, threads, JobPhase, ServiceStep
<1>16. CASE Terminate
  BY <1>16 DEF Terminate, pool, threads, JobPhase, ServiceStep
<1>17. ASSUME NEW w \in Workers, StopCancel(w) PROVE ServiceStep
  <2> DEFINE D == {k \in Jobs : k = work[w]}
  <2>1. D \in SUBSET {k \in Jobs : JobPhase[k] = "accepted"}
    BY PhaseFacts, PoolAssumption, <1>17 DEF StopCancel, JobPhase, WorkInv, Types
  <2>2. \A k \in Jobs : PhaseOf(status'[k]) = IF k \in D THEN "dropped" ELSE JobPhase[k]
    BY PhaseFacts, <1>17 DEF StopCancel, JobPhase, Types
  <2>3. JobPhase' = [k \in Jobs |-> IF k \in D THEN "dropped" ELSE JobPhase[k]]
    BY <2>2 DEF JobPhase
  <2>4. Service!Drop
    BY <2>1, <2>3 DEF Service!Drop
  <2> QED BY <2>4 DEF ServiceStep, Service!Next
<1>18. ASSUME NEW w \in Workers, StopFlag(w) PROVE ServiceStep
  BY <1>18 DEF StopFlag, pool, threads, JobPhase, ServiceStep
<1>19. ASSUME NEW w \in Workers, StopJoin(w) PROVE ServiceStep
  BY <1>19 DEF StopJoin, pool, threads, JobPhase, ServiceStep
<1>20. ASSUME NEW w \in Workers, StopTimeout(w) PROVE ServiceStep
  BY <1>20 DEF StopTimeout, pool, threads, JobPhase, ServiceStep
<1>21. CASE UNCHANGED vars
  BY <1>21 DEF vars, JobPhase, ServiceStep
<1> QED
  BY <1>1, <1>2, <1>3, <1>4, <1>5, <1>6, <1>7, <1>8, <1>9, <1>10, <1>11, <1>12, <1>13, <1>14, <1>15, <1>16, <1>17, <1>18, <1>19, <1>20, <1>21
     DEF Next, AddJob, Thread, Stop, Done

\* No job of the pool runs twice or after it was given up, and no more jobs
\* run at once than the pool has workers.
THEOREM PoolImplementsService == Spec => ImplementsService
<1>1. Init => Service!Init
  BY PhaseFacts DEF Init, Service!Init, JobPhase
<1>2. Inv /\ [Next]_vars => [Service!Next]_JobPhase
  BY ServiceStepLemma DEF Inv, Base, ServiceStep
<1> QED BY <1>1, <1>2, Invariance, PTL DEF Spec, ImplementsService, Service!Spec
=============================================================================
