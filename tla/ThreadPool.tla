----------------------------- MODULE ThreadPool -----------------------------
(***************************************************************************)
(* opencorelib's thread_pool (thread_pool.cpp) with the worker threads it  *)
(* creates (worker.cpp, as far as the pool uses them).                     *)
(*                                                                         *)
(* One action is one critical section of m_this_mtx, or one step of a      *)
(* worker thread outside it.  A worker thread runs its job, then calls     *)
(* job_done, which parks the thread on cond_ inside the callback until a   *)
(* job is queued: a parked worker is one that waits in "its" job_done.     *)
(* The condition variable is a wait set: a thread in pc "waiting" has      *)
(* released the mutex, one in "woken" has left the wait set and is about   *)
(* to take the mutex again.                                                *)
(*                                                                         *)
(* A definition marked as a mutant is what a plausible slip would make of  *)
(* the one after it; the properties tell the two apart.                    *)
(***************************************************************************)
EXTENDS Naturals, Sequences, FiniteSets

CONSTANTS Jobs,             \* base_job objects; each is added at most once
          Workers,          \* one per thread the pool may create
          NoJob             \* a null base_job_ptr

ASSUME PoolAssumption ==
  /\ IsFiniteSet(Workers)
  /\ Workers # {}
  /\ NoJob \notin Jobs

VARIABLES
  queue,        \* jobs_
  idle,         \* m_idle_workers
  terminating,  \* is_terminating_
  pc,           \* where each worker thread is
  work,         \* the job in the worker's heap (pc "loop") or running
  status,       \* where each job is
  stage,        \* how far worker::stop has come for each worker
  waiter,       \* the client inside wait_for_all_jobs_completed
  pledge        \* the jobs accepted when that client called

pool == <<queue, idle, terminating>>
threads == <<pc, work, stage>>
vars == <<queue, idle, terminating, pc, work, status, stage, waiter, pledge>>

MaxWorkers == Cardinality(Workers)      \* m_i_max_workers

PCs == {"absent", "loop", "running", "finished", "callback", "waiting",
        "woken", "left", "spinning", "exited"}
Statuses == {"new", "adding", "queued", "assigned", "running", "done",
             "cleared", "dropped"}
Stages == {"up", "cancelled", "flagged", "stopped", "abandoned"}

At(P) == {w \in Workers : pc[w] \in P}
InState(S) == {j \in Jobs : status[j] \in S}
Created == {w \in Workers : pc[w] # "absent"}
Stopping(w) == stage[w] \in {"flagged", "stopped", "abandoned"}  \* m_stop_thread

\* A worker that loops for ever in job_done keeps m_this_mtx.
MutexFree == At({"spinning"}) = {}

Init ==
  /\ queue = <<>>
  /\ idle = MaxWorkers
  /\ terminating = FALSE
  /\ pc = [w \in Workers |-> "absent"]
  /\ work = [w \in Workers |-> NoJob]
  /\ status = [j \in Jobs |-> "new"]
  /\ stage = [w \in Workers |-> "up"]
  /\ waiter = "out"
  /\ pledge = {}

-----------------------------------------------------------------------------
(* Clients: add_job, clear_jobs, wait_for_all_jobs_completed.              *)

\* add_to_new_worker succeeds: a worker is created with the job in its heap.
AddToNewWorker(j, w) ==
  /\ MutexFree
  /\ ~terminating
  /\ status[j] = "new"
  /\ pc[w] = "absent"
  /\ idle > 0                                     \* ARENFORCE
  /\ idle' = idle - 1
  /\ pc' = [pc EXCEPT ![w] = "loop"]
  /\ work' = [work EXCEPT ![w] = j]
  /\ status' = [status EXCEPT ![j] = "assigned"]
  /\ UNCHANGED <<queue, terminating, stage, waiter, pledge>>

\* add_to_new_worker finds m_workers full and returns false, giving up the
\* mutex before add_job takes it again.
FindPoolFull(j) ==
  /\ MutexFree
  /\ ~terminating
  /\ status[j] = "new"
  /\ Created = Workers
  /\ status' = [status EXCEPT ![j] = "adding"]
  /\ UNCHANGED <<pool, threads, waiter, pledge>>

\* Mutant of NotifyOne: add_job forgets notify_one.
NotifyForgotten == pc' = pc

\* cond_.notify_one: one thread of the wait set, if there is one, is woken.
NotifyOne ==
  IF At({"waiting"}) = {}
  THEN pc' = pc
  ELSE \E w \in At({"waiting"}) : pc' = [pc EXCEPT ![w] = "woken"]

Enqueue(j) ==
  /\ MutexFree
  /\ status[j] = "adding"
  /\ queue' = Append(queue, j)
  /\ status' = [status EXCEPT ![j] = "queued"]
  /\ NotifyOne
  /\ UNCHANGED <<idle, terminating, work, stage, waiter, pledge>>

ClearJobs ==
  /\ MutexFree
  /\ queue # <<>>
  /\ queue' = <<>>
  /\ status' = [j \in Jobs |-> IF status[j] = "queued" THEN "cleared"
                                                       ELSE status[j]]
  /\ UNCHANGED <<idle, terminating, threads, waiter, pledge>>

\* Mutant of Unfinished: the busy workers are not looked at.
UnfinishedQueue == queue # <<>>

\* Some thread of the pool is not accounted idle, or jobs are queued.
Unfinished == queue # <<>> \/ idle < MaxWorkers

\* The call enters the loop and either returns true at once or waits.
WaitForAll ==
  /\ MutexFree
  /\ waiter \in {"out", "true", "false"}
  /\ pledge' = InState(Statuses \ {"new", "adding"})
  /\ waiter' = IF Unfinished THEN "waiting" ELSE "true"
  /\ UNCHANGED <<pool, threads, status>>

\* Notified, the client tests the condition again under the mutex.
WaitAgain ==
  /\ MutexFree
  /\ waiter = "woken"
  /\ waiter' = IF Unfinished THEN "waiting" ELSE "true"
  /\ UNCHANGED <<pool, threads, status, pledge>>

\* timed_wait reports the time-out: the call returns false.
WaitTimeout ==
  /\ MutexFree
  /\ waiter = "waiting"
  /\ waiter' = "false"
  /\ UNCHANGED <<pool, threads, status, pledge>>

-----------------------------------------------------------------------------
(* A worker thread.                                                        *)

\* worker::do_work pops its job and runs it.
StartJob(w) ==
  /\ pc[w] = "loop"
  /\ work[w] # NoJob
  /\ pc' = [pc EXCEPT ![w] = "running"]
  /\ status' = [status EXCEPT ![work[w]] = "running"]
  /\ UNCHANGED <<pool, work, stage, waiter, pledge>>

\* do_work_bootstrapper returns; signal_job_done has set m_job_done.
FinishJob(w) ==
  /\ pc[w] = "running"
  /\ pc' = [pc EXCEPT ![w] = "finished"]
  /\ status' = [status EXCEPT ![work[w]] = "done"]
  /\ work' = [work EXCEPT ![w] = NoJob]
  /\ UNCHANGED <<pool, stage, waiter, pledge>>

\* After a job the thread reads m_stop_thread: it leaves without reporting
\* the job, or goes on to thread_pool::job_done.
ReportJob(w) ==
  /\ pc[w] = "finished"
  /\ pc' = [pc EXCEPT ![w] = IF Stopping(w) THEN "exited" ELSE "callback"]
  /\ UNCHANGED <<pool, work, status, stage, waiter, pledge>>

\* Mutant of IdleWithout: the decrement after cond_.wait is missing.
IdleUnchanged(w) == idle

\* m_idle_workers as seen inside job_done: a woken thread takes itself off.
IdleWithout(w) == IF pc[w] = "woken" THEN idle - 1 ELSE idle

InJobDone(w) ==
  /\ MutexFree
  /\ pc[w] \in {"callback", "woken"}
  /\ pc[w] = "woken" => idle > 0                  \* ARENFORCE

\* Mutant of TakeJob: jobs_.pop_front is missing.
TakeJobKeepingIt(w) ==
  /\ InJobDone(w)
  /\ ~terminating
  /\ queue # <<>>
  /\ idle' = IdleWithout(w)
  /\ pc' = [pc EXCEPT ![w] = "loop"]
  /\ work' = [work EXCEPT ![w] = Head(queue)]
  /\ status' = [status EXCEPT ![Head(queue)] = "assigned"]
  /\ UNCHANGED <<queue, terminating, stage, waiter, pledge>>

\* job_done finds a job: it goes to the worker's own heap.
TakeJob(w) ==
  /\ InJobDone(w)
  /\ ~terminating
  /\ queue # <<>>
  /\ queue' = Tail(queue)
  /\ idle' = IdleWithout(w)
  /\ pc' = [pc EXCEPT ![w] = "loop"]
  /\ work' = [work EXCEPT ![w] = Head(queue)]
  /\ status' = [status EXCEPT ![Head(queue)] = "assigned"]
  /\ UNCHANGED <<terminating, stage, waiter, pledge>>

\* idle_worker_cond_.notify_all.
NotifyWaiter == waiter' = IF waiter = "waiting" THEN "woken" ELSE waiter

\* Mutant of GoIdle: the thread waits without counting itself idle.
GoIdleUncounted(w) ==
  /\ InJobDone(w)
  /\ queue = <<>>
  /\ idle' = IdleWithout(w)
  /\ NotifyWaiter
  /\ pc' = [pc EXCEPT ![w] = IF terminating THEN "left" ELSE "waiting"]
  /\ UNCHANGED <<queue, terminating, work, status, stage, pledge>>

\* job_done finds no job: the worker is idle, and waits on cond_ unless the
\* pool is terminating, when job_done returns.
GoIdle(w) ==
  /\ InJobDone(w)
  /\ queue = <<>>
  /\ idle' = IdleWithout(w) + 1
  /\ NotifyWaiter
  /\ pc' = [pc EXCEPT ![w] = IF terminating THEN "left" ELSE "waiting"]
  /\ UNCHANGED <<queue, terminating, work, status, stage, pledge>>

\* Terminating with jobs still queued, neither branch of job_done's loop is
\* taken and nothing in it gives up the mutex.
Spin(w) ==
  /\ InJobDone(w)
  /\ terminating
  /\ queue # <<>>
  /\ idle' = IdleWithout(w)
  /\ pc' = [pc EXCEPT ![w] = "spinning"]
  /\ UNCHANGED <<queue, terminating, work, status, stage, waiter, pledge>>

\* A condition variable may wake a thread that nobody notified.
SpuriousWake(w) ==
  /\ pc[w] = "waiting"
  /\ pc' = [pc EXCEPT ![w] = "woken"]
  /\ UNCHANGED <<pool, work, status, stage, waiter, pledge>>

\* worker::on_idle, with an empty heap, sees m_stop_thread.
ExitThread(w) ==
  /\ \/ pc[w] = "left"
     \/ pc[w] = "loop" /\ work[w] = NoJob
  /\ Stopping(w)
  /\ pc' = [pc EXCEPT ![w] = "exited"]
  /\ UNCHANGED <<pool, work, status, stage, waiter, pledge>>

-----------------------------------------------------------------------------
(* terminate_all_threads, called by the owner that is about to delete the  *)
(* pool: no add_job is in progress and none follows.  Some owners empty the *)
(* queue first (filter_distributor's clean_pool), some do not              *)
(* (filter_map_reduce's destructor).                                       *)

Terminate ==
  /\ MutexFree
  /\ ~terminating
  /\ InState({"adding"}) = {}
  /\ terminating' = TRUE
  /\ pc' = [w \in Workers |-> IF pc[w] = "waiting" THEN "woken" ELSE pc[w]]
  /\ UNCHANGED <<queue, idle, work, status, stage, waiter, pledge>>

\* worker::stop, first half: cancel_and_clear_jobs waits for a running job
\* without a time-out, then drops what is in the worker's heap.  The workers
\* are stopped one after the other.
StopCancel(w) ==
  /\ terminating
  /\ pc[w] \notin {"absent", "running"}
  /\ stage[w] = "up"
  /\ \A v \in Workers : stage[v] \notin {"cancelled", "flagged"}
  /\ stage' = [stage EXCEPT ![w] = "cancelled"]
  /\ work' = [work EXCEPT ![w] = NoJob]
  /\ status' = [j \in Jobs |-> IF j = work[w] THEN "dropped" ELSE status[j]]
  /\ UNCHANGED <<pool, pc, waiter, pledge>>

\* m_stop_thread is set in a critical section of its own.
StopFlag(w) ==
  /\ stage[w] = "cancelled"
  /\ stage' = [stage EXCEPT ![w] = "flagged"]
  /\ UNCHANGED <<pool, pc, work, status, waiter, pledge>>

\* The thread has reported its exit.
StopJoin(w) ==
  /\ stage[w] = "flagged"
  /\ pc[w] = "exited"
  /\ stage' = [stage EXCEPT ![w] = "stopped"]
  /\ UNCHANGED <<pool, pc, work, status, waiter, pledge>>

\* The wait for the exit times out.  By now the worker has no job, so only a
\* thread that cannot get m_this_mtx takes the seconds the time-out allows.
StopTimeout(w) ==
  /\ stage[w] = "flagged"
  /\ pc[w] # "exited"
  /\ ~MutexFree
  /\ stage' = [stage EXCEPT ![w] = "abandoned"]
  /\ UNCHANGED <<pool, pc, work, status, waiter, pledge>>

\* terminate_all_threads has returned: the pool object goes away.
Closed == terminating /\ \A w \in Created : stage[w] \in {"stopped", "abandoned"}

-----------------------------------------------------------------------------
AddJob(j) == FindPoolFull(j) \/ Enqueue(j) \/ \E w \in Workers : AddToNewWorker(j, w)

Thread(w) == \/ StartJob(w) \/ FinishJob(w) \/ ReportJob(w)
             \/ TakeJob(w) \/ GoIdle(w) \/ Spin(w) \/ ExitThread(w)

Stop(w) == StopCancel(w) \/ StopFlag(w) \/ StopJoin(w) \/ StopTimeout(w)

Done == Closed /\ UNCHANGED vars

Next ==
  \/ \E j \in Jobs : AddJob(j)
  \/ ClearJobs \/ WaitForAll \/ WaitAgain \/ WaitTimeout
  \/ \E w \in Workers : Thread(w) \/ SpuriousWake(w)
  \/ Terminate
  \/ \E w \in Workers : Stop(w)
  \/ Done

Spec == Init /\ [][Next]_vars

\* The operating system runs every thread and every job ends; a client that
\* has begun an add_job or is stopping workers goes on with it, and one that
\* was notified looks again.  Nobody is obliged to add, clear or terminate.
Fairness ==
  /\ \A w \in Workers : WF_vars(Thread(w)) /\ WF_vars(Stop(w))
  /\ \A j \in Jobs : WF_vars(Enqueue(j))
  /\ WF_vars(WaitAgain)

FairSpec == Spec /\ Fairness

-----------------------------------------------------------------------------
(* Properties.                                                             *)

\* The type of every variable.
TypeOK ==
  /\ queue \in Seq(Jobs)
  /\ idle \in 0..MaxWorkers
  /\ terminating \in BOOLEAN
  /\ pc \in [Workers -> PCs]
  /\ work \in [Workers -> Jobs \cup {NoJob}]
  /\ status \in [Jobs -> Statuses]
  /\ stage \in [Workers -> Stages]
  /\ waiter \in {"out", "waiting", "woken", "true", "false"}
  /\ pledge \subseteq Jobs

\* The two ARENFORCE of thread_pool.cpp (lines 78 and 125) can never throw:
\* whenever a worker may still be created, and whenever a thread comes back
\* from cond_.wait, the unsigned m_idle_workers is at least one.
EnforcesHold ==
  /\ Created # Workers => idle > 0
  /\ At({"woken"}) # {} => idle > 0

\* No lost wake-up: as long as a worker sleeps on cond_, there are at least as
\* many woken workers on their way to the queue as there are jobs in it, so
\* no job waits for a busy worker while another one sleeps.
WorkConserving ==
  At({"waiting"}) # {} => Cardinality(At({"woken"})) >= Len(queue)

\* When wait_for_all_jobs_completed returns true, every job accepted before
\* the call has been run to its end or was given up by clear_jobs or a stop.
WaitIsSound ==
  waiter = "true" => pledge \subseteq InState({"done", "cleared", "dropped"})

\* An owner that leaves nothing queued when it terminates the pool gets what
\* terminate_all_threads promises: all threads have ended and none was
\* abandoned by a time-out, wherever each one was when the call began.
EmptyPoolClosesClean ==
  Closed /\ queue = <<>> =>
    /\ At(PCs \ {"absent", "exited"}) = {}
    /\ \A w \in Workers : stage[w] # "abandoned"

\* Not so: terminate_all_threads "terminates all running workers"
\* (thread_pool.hpp, line 33); with jobs queued a thread is left that spins.
ClosedPoolHasNoThread == Closed => At(PCs \ {"absent", "exited"}) = {}

\* Every job the pool has accepted is finished or given up in the end, unless
\* the pool is terminated with the job in its queue: none is forgotten in the
\* queue of a living pool, in a heap or by a lost wake-up.
EveryJobEnds ==
  \A j \in Jobs :
    status[j] \in {"queued", "assigned", "running"}
      ~> \/ status[j] \in {"done", "cleared", "dropped"}
         \/ terminating /\ status[j] = "queued"

\* terminate_all_threads returns once it was called.
TerminateReturns == terminating ~> Closed

\* Every job and the pool itself come to an end, and a pool terminated with
\* nothing queued to the end it promises.
EverythingEnds == EveryJobEnds /\ TerminateReturns /\ []EmptyPoolClosesClean

-----------------------------------------------------------------------------
(* What clients see of a job.                                              *)

PhaseOf(s) == CASE s \in {"new", "adding"} -> "new"
                [] s \in {"queued", "assigned"} -> "accepted"
                [] s \in {"cleared", "dropped"} -> "dropped"
                [] OTHER -> s

JobPhase == [j \in Jobs |-> PhaseOf(status[j])]

Service == INSTANCE JobService WITH Capacity <- MaxWorkers, phase <- JobPhase

\* The pool implements JobService: no job runs twice, or after it was given
\* up, and never more jobs run at once than the pool has workers.
ImplementsService == Service!Spec
=============================================================================
