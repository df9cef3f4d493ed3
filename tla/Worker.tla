------------------------------- MODULE Worker -------------------------------
(***************************************************************************)
(* opencorelib's worker (worker.cpp) and the part of base_job it drives    *)
(* (jobbase.cpp): one thread that serves a heap of jobs and a list of      *)
(* timed jobs, while clients add, cancel, wait and stop.                   *)
(*                                                                         *)
(* An action is one critical section of m_wake_thread_mtx or one step of   *)
(* the thread outside it.  A client that waits inside cancel_... keeps     *)
(* m_wake_thread_mtx all the time: WakeFree says nobody does.              *)
(*                                                                         *)
(* Not modelled: a second start() of the same worker.                      *)
(*                                                                         *)
(* A definition marked as a mutant is what a plausible slip would make of  *)
(* the one after it; the properties tell the two apart.                    *)
(***************************************************************************)
EXTENDS Naturals, Sequences, FiniteSets

CONSTANTS Jobs,         \* base_job objects; each is added at most once
          Reoccurring,  \* those added by add_reoccurring_job
          Endless,      \* jobs whose do_work ends only when it is told to
          Number,       \* m_dw_number: the order in which jobs were created
          InitPrio,     \* m_prio as constructed
          NoJob         \* a null base_job_ptr

ASSUME WorkerAssumption ==
  /\ IsFiniteSet(Jobs)
  /\ NoJob \notin Jobs
  /\ Reoccurring \subseteq Jobs /\ Endless \subseteq Jobs
  /\ Number \in [Jobs -> Nat]
  /\ \A j, k \in Jobs : Number[j] = Number[k] => j = k
  /\ InitPrio \in [Jobs -> Nat]

VARIABLES
  heap,       \* m_heap, an array
  timed,      \* m_timed_jobs
  due,        \* the timed jobs whose m_next_time_to_run has come
  prio,       \* m_prio of each job
  current,    \* m_current_job
  pc,         \* where the worker thread is
  stop,       \* m_stop_thread
  done,       \* the jobs with m_job_done set
  terminate,  \* the jobs with m_terminate_job set
  keep,       \* the jobs with m_reschedule set
  unused,     \* the jobs nobody has added yet
  gone,       \* the jobs taken out of the worker by cancel or clear
  canceller,  \* the client inside cancel_and_remove_job: at, job
  cancelled,  \* the jobs for which that call has returned true
  stopper,    \* the client inside stop
  awaited,    \* the jobs done_counter is connected to, those whose on_job_done
              \* the client in wait_for_all_jobs_completed counts
  owed,       \* how many of these signals are missing (at least 0)
  promised,   \* the jobs that were in the worker when it called
  waiter      \* that client

queues == <<heap, timed, due, prio, unused, gone>>
flags == <<done, terminate, keep>>
waiting == <<awaited, owed, promised, waiter>>
clients == <<canceller, cancelled, stopper, waiting>>
vars == <<heap, timed, due, prio, current, pc, stop, done, terminate, keep,
          unused, gone, canceller, cancelled, stopper, awaited, owed, promised, waiter>>

ThreadPCs == {"top", "popped", "running", "signalled", "checked", "callback",
              "leaving", "idle", "asleep", "awake", "exited"}

InHeap == {heap[i] : i \in DOMAIN heap}
OneShot == Jobs \ Reoccurring
WakeFree == canceller.at # "waiting" /\ stopper # "cancelling"

Init ==
  /\ heap = <<>> /\ timed = {} /\ due = {} /\ prio = InitPrio
  /\ current = NoJob
  /\ pc = "top" /\ stop = FALSE        \* start() has been called
  /\ done = {} /\ terminate = {} /\ keep = Jobs
  /\ unused = Jobs /\ gone = {}
  /\ canceller = [at |-> "out", job |-> NoJob] /\ cancelled = {}
  /\ stopper = "out"
  /\ awaited = {} /\ owed = 0 /\ promised = {} /\ waiter = "out"

-----------------------------------------------------------------------------
(* The heap.                                                               *)

\* operator< of base_job: j has lower priority than k.
Less(p, j, k) == IF p[j] = p[k] THEN Number[j] > Number[k] ELSE p[j] < p[k]

\* The arrays std::make_heap may leave for the jobs of S with priorities p.
MakeHeap(S, p) ==
  {h \in [1..Cardinality(S) -> S] :
     /\ \A i, k \in DOMAIN h : h[i] = h[k] => i = k
     /\ \A i \in DOMAIN h : i > 1 => ~Less(p, h[i \div 2], h[i])}

\* Mutant of Notify: add_job forgets notify_one.
NotifyForgotten == pc' = pc

\* m_wake_thread.notify_one; only the worker thread waits there.
Notify == pc' = IF pc = "asleep" THEN "awake" ELSE pc

AddJob(j) ==
  /\ WakeFree
  /\ j \in unused \ Reoccurring
  /\ unused' = unused \ {j}
  /\ heap' \in MakeHeap(InHeap \cup {j}, prio)
  /\ Notify
  /\ UNCHANGED <<timed, due, prio, current, stop, flags, gone, clients>>

AddJobWithHighestPriority(j) ==
  /\ WakeFree
  /\ j \in unused \ Reoccurring
  /\ unused' = unused \ {j}
  /\ prio' = [k \in Jobs |-> IF k = j THEN 0
                             ELSE IF k \in InHeap THEN prio[k] + 1 ELSE prio[k]]
  /\ heap' \in MakeHeap(InHeap \cup {j}, prio')
  /\ Notify
  /\ UNCHANGED <<timed, due, current, stop, flags, gone, clients>>

\* add_reoccurring_job, and add_job with a start_after.  The first run is due
\* one interval from now.
AddTimedJob(j) ==
  /\ WakeFree
  /\ j \in unused
  /\ unused' = unused \ {j}
  /\ timed' = timed \cup {j}
  /\ Notify
  /\ UNCHANGED <<heap, due, prio, current, stop, flags, gone, clients>>

\* Time passes: m_next_time_to_run of j is reached.
BecomeDue(j) ==
  /\ j \in timed \ due
  /\ due' = due \cup {j}
  /\ UNCHANGED <<heap, timed, prio, unused, gone, current, pc, stop, flags, clients>>

\* remove_reoccurring_job, called by a client.
RemoveReoccurring(j) ==
  /\ WakeFree
  /\ j \in timed
  /\ timed' = timed \ {j}
  /\ due' = due \ {j}
  /\ gone' = gone \cup {j}
  /\ UNCHANGED <<heap, prio, unused, current, pc, stop, flags, clients>>

\* clear_jobs_in_queue, called by a client.
ClearQueue ==
  /\ WakeFree
  /\ heap' = <<>>
  /\ terminate' = terminate \cup InHeap
  /\ gone' = gone \cup (InHeap \ timed)
  /\ UNCHANGED <<timed, due, prio, unused, current, pc, stop, done, keep, clients>>

-----------------------------------------------------------------------------
(* The worker thread: do_work and on_idle.                                 *)

\* Mutant of PopJob: the front is read, the back is popped.
PopJobAtBothEnds ==
  /\ WakeFree
  /\ pc = "top"
  /\ heap # <<>>
  /\ current' = heap[1]
  /\ heap' = SubSeq(heap, 1, Len(heap) - 1)
  /\ pc' = "popped"
  /\ UNCHANGED <<timed, due, prio, unused, gone, stop, flags, clients>>

\* do_work takes the last element of the heap's array.
PopJob ==
  /\ WakeFree
  /\ pc = "top"
  /\ heap # <<>>
  /\ current' = heap[Len(heap)]
  /\ heap' = SubSeq(heap, 1, Len(heap) - 1)
  /\ pc' = "popped"
  /\ UNCHANGED <<timed, due, prio, unused, gone, stop, flags, clients>>

\* do_work_bootstrapper begins: m_job_done is reset, without a lock.
RunJob ==
  /\ pc = "popped"
  /\ done' = done \ {current}
  /\ pc' = "running"
  /\ UNCHANGED <<queues, current, stop, terminate, keep, clients>>

\* do_work returns or throws, and signal_job_done wakes those who wait:
\* done_counter counts signals, those of each run of a reoccurring job.
FinishJob ==
  /\ pc = "running"
  /\ current \in Endless => current \in terminate
  /\ done' = done \cup {current}
  /\ owed' = IF current \in awaited /\ owed > 0 THEN owed - 1 ELSE owed
  /\ pc' = "signalled"
  /\ UNCHANGED <<queues, current, stop, terminate, keep,
                 canceller, cancelled, stopper, awaited, promised, waiter>>

CheckStop ==
  /\ WakeFree
  /\ pc = "signalled"
  /\ pc' = IF stop THEN "leaving" ELSE "checked"
  /\ UNCHANGED <<queues, current, stop, flags, clients>>

\* get_should_reschedule is read; remove_reoccurring_job if it is false.
CheckReschedule ==
  /\ pc = "checked"
  /\ \/ current \in keep /\ timed' = timed
     \/ current \notin keep /\ WakeFree /\ timed' = timed \ {current}
  /\ due' = due \cap timed'
  /\ pc' = "callback"
  /\ UNCHANGED <<heap, prio, unused, gone, current, stop, flags, clients>>

\* The on_job_done event; nobody is connected to it here.
ReportJob ==
  /\ pc = "callback"
  /\ pc' = "top"
  /\ UNCHANGED <<queues, current, stop, flags, clients>>

\* do_work finds the heap empty and returns; its guard then resets
\* m_current_job in a critical section of its own.
LeaveWork ==
  /\ WakeFree
  /\ pc = "top"
  /\ heap = <<>>
  /\ pc' = "leaving"
  /\ UNCHANGED <<queues, current, stop, flags, clients>>

ResetCurrent ==
  /\ WakeFree
  /\ pc = "leaving"
  /\ current' = NoJob
  /\ pc' = "idle"
  /\ UNCHANGED <<queues, stop, flags, clients>>

\* on_idle: leave the thread, go back to do_work, or sleep.
Idle ==
  /\ WakeFree
  /\ pc = "idle"
  /\ pc' = IF stop THEN "exited" ELSE IF heap # <<>> THEN "top" ELSE "asleep"
  /\ UNCHANGED <<queues, current, stop, flags, clients>>

\* The timed wait ends at next_timed_job_start_time.
WakeForTimedJob ==
  /\ pc = "asleep"
  /\ due # {}
  /\ pc' = "awake"
  /\ UNCHANGED <<queues, current, stop, flags, clients>>

\* The wait ends early, or after 1000 s without a timed job.
WakeForNothing ==
  /\ pc = "asleep"
  /\ due = {}
  /\ pc' = "awake"
  /\ UNCHANGED <<queues, current, stop, flags, clients>>

\* move_timed_jobs_to_heap; one-shot jobs leave the list, reoccurring ones get
\* their next time.
MoveTimedJobs ==
  /\ WakeFree
  /\ pc = "awake"
  /\ pc' = "idle"
  /\ IF due = {} THEN heap' = heap ELSE heap' \in MakeHeap(InHeap \cup due, prio)
  /\ timed' = timed \ (due \cap OneShot)
  /\ due' = {}
  /\ UNCHANGED <<prio, unused, gone, current, stop, flags, clients>>

-----------------------------------------------------------------------------
(* cancel_and_remove_job.                                                  *)

\* std::find and erase: the array without the first j, if there is one.
Without(s, j) ==
  LET here == {i \in 1..Len(s) : s[i] = j}
      found == CHOOSE i \in here : \A h \in here : i <= h
  IN  IF here = {} THEN s
      ELSE [i \in 1..Len(s)-1 |-> IF i < found THEN s[i] ELSE s[i+1]]

\* The call finds j running (or last run): it waits for m_job_done, keeping
\* m_wake_thread_mtx.
CancelCurrent(j) ==
  /\ WakeFree
  /\ canceller.at = "out"
  /\ j \notin unused
  /\ j = current
  /\ terminate' = terminate \cup {j}
  /\ keep' = keep \ {j}
  /\ canceller' = [at |-> "waiting", job |-> j]
  /\ UNCHANGED <<queues, current, pc, stop, done, cancelled, stopper, waiting>>

\* wait_for_job_done sees m_job_done: the call returns true.
CancelDone ==
  /\ canceller.at = "waiting"
  /\ canceller.job \in done
  /\ canceller' = [at |-> "out", job |-> NoJob]
  /\ cancelled' = cancelled \cup {canceller.job}
  /\ UNCHANGED <<queues, current, pc, stop, flags, stopper, waiting>>

\* The time-out passes: the call returns false.
CancelTimeout ==
  /\ canceller.at = "waiting"
  /\ canceller.job \notin done
  /\ canceller' = [at |-> "out", job |-> NoJob]
  /\ UNCHANGED <<queues, current, pc, stop, flags, cancelled, stopper, waiting>>

\* Mutant of CancelQueued: the timed jobs are not searched.
CancelInHeapOnly(j) ==
  /\ WakeFree
  /\ canceller.at = "out"
  /\ j \notin unused
  /\ j # current
  /\ terminate' = terminate \cup {j}
  /\ heap' = Without(heap, j)
  /\ gone' = gone \cup ({j} \cap InHeap)
  /\ cancelled' = cancelled \cup {j}
  /\ UNCHANGED <<timed, due, prio, unused, current, pc, stop, done, keep,
                 canceller, stopper, waiting>>

\* j is not m_current_job: it is taken out of the heap and the timed jobs.
CancelQueued(j) ==
  /\ WakeFree
  /\ canceller.at = "out"
  /\ j \notin unused
  /\ j # current
  /\ terminate' = terminate \cup {j}
  /\ heap' = Without(heap, j)
  /\ timed' = timed \ {j}
  /\ due' = due \ {j}
  /\ gone' = gone \cup ({j} \cap (InHeap \cup timed))
  /\ cancelled' = cancelled \cup {j}
  /\ UNCHANGED <<prio, unused, current, pc, stop, done, keep,
                 canceller, stopper, waiting>>

-----------------------------------------------------------------------------
(* stop: cancel_and_clear_jobs, the stop flag, the join.                   *)

\* Mutant of StopCancel: cancel_current_job waits for a job it has not told to end.
StopWithoutCancel ==
  /\ WakeFree
  /\ stopper = "out"
  /\ stopper' = "cancelling"
  /\ UNCHANGED <<queues, current, pc, stop, flags, canceller, cancelled, waiting>>

StopCancel ==
  /\ WakeFree
  /\ stopper = "out"
  /\ stopper' = "cancelling"
  /\ terminate' = terminate \cup ({current} \ {NoJob})
  /\ UNCHANGED <<queues, current, pc, stop, done, keep, canceller, cancelled, waiting>>

\* cancel_current_job has seen the job done; clear_jobs_in_queue follows.
\* The timed jobs stay.
StopClear ==
  /\ stopper = "cancelling"
  /\ current = NoJob \/ current \in done
  /\ stopper' = "cleared"
  /\ heap' = <<>>
  /\ terminate' = terminate \cup InHeap
  /\ gone' = gone \cup (InHeap \ timed)
  /\ UNCHANGED <<timed, due, prio, unused, current, pc, stop, done, keep,
                 canceller, cancelled, waiting>>

\* The call was cancel_and_clear_jobs alone, and returns.
ClearReturns ==
  /\ stopper = "cleared"
  /\ stopper' = "out"
  /\ UNCHANGED <<queues, current, pc, stop, flags, canceller, cancelled, waiting>>

StopFlag ==
  /\ WakeFree
  /\ stopper = "cleared"
  /\ stopper' = "joining"
  /\ stop' = TRUE
  /\ Notify
  /\ UNCHANGED <<queues, current, flags, canceller, cancelled, waiting>>

StopJoin ==
  /\ stopper = "joining"
  /\ pc = "exited"
  /\ stopper' = "joined"
  /\ UNCHANGED <<queues, current, pc, stop, flags, canceller, cancelled, waiting>>

\* The time-out passes; stop returns and m_thread_running is reset although
\* the thread goes on.
StopTimeout ==
  /\ stopper = "joining"
  /\ pc # "exited"
  /\ stopper' = "gave_up"
  /\ UNCHANGED <<queues, current, pc, stop, flags, canceller, cancelled, waiting>>

-----------------------------------------------------------------------------
(* wait_for_all_jobs_completed.                                            *)

\* Mutant of WaitForAll: the running job is not counted.
WaitForQueued ==
  /\ WakeFree
  /\ waiter = "out"
  /\ promised' = (InHeap \cup {current}) \ {NoJob}
  /\ awaited' = InHeap \ done
  /\ owed' = Cardinality(awaited')
  /\ waiter' = "waiting"
  /\ UNCHANGED <<queues, current, pc, stop, flags, canceller, cancelled, stopper>>

\* Jobs whose m_job_done is set are not waited for, even in the heap.  No job
\* is both current and in the heap, or there twice: each is connected once.
WaitForAll ==
  /\ WakeFree
  /\ waiter = "out"
  /\ promised' = (InHeap \cup {current}) \ {NoJob}
  /\ awaited' = promised' \ done
  /\ owed' = Cardinality(awaited')
  /\ waiter' = "waiting"
  /\ UNCHANGED <<queues, current, pc, stop, flags, canceller, cancelled, stopper>>

WaitDone ==
  /\ waiter = "waiting"
  /\ owed = 0
  /\ waiter' = "true"
  /\ UNCHANGED <<queues, current, pc, stop, flags, canceller, cancelled, stopper,
                 awaited, owed, promised>>

WaitTimeout ==
  /\ waiter = "waiting"
  /\ waiter' = "false"
  /\ awaited' = {} /\ owed' = 0 /\ promised' = {}
  /\ UNCHANGED <<queues, current, pc, stop, flags, canceller, cancelled, stopper>>

-----------------------------------------------------------------------------
Thread == \/ PopJob \/ RunJob \/ FinishJob \/ CheckStop \/ CheckReschedule
          \/ ReportJob \/ LeaveWork \/ ResetCurrent \/ Idle
          \/ WakeForTimedJob \/ MoveTimedJobs

Stopper == StopClear \/ StopFlag \/ StopJoin

Terminated == pc = "exited" /\ stopper \in {"joined", "gave_up"} /\ UNCHANGED vars

Next ==
  \/ Thread
  \/ \E j \in Jobs : \/ AddJob(j) \/ AddJobWithHighestPriority(j)
                     \/ AddTimedJob(j) \/ BecomeDue(j)
                     \/ CancelCurrent(j) \/ CancelQueued(j) \/ RemoveReoccurring(j)
  \/ CancelDone \/ CancelTimeout \/ ClearQueue
  \/ StopCancel \/ Stopper \/ ClearReturns \/ StopTimeout \/ WakeForNothing
  \/ WaitForAll \/ WaitDone \/ WaitTimeout
  \/ Terminated

Spec == Init /\ [][Next]_vars

\* The operating system runs the thread, every job ends that is not endless or
\* is told to end, time passes, and clients inside a call go on.  A mutex
\* that others take again and again is still granted in the end (SF).
Fairness ==
  /\ SF_vars(Thread)
  /\ \A j \in Jobs : WF_vars(BecomeDue(j))
  /\ WF_vars(CancelDone)
  /\ SF_vars(Stopper)
  /\ WF_vars(WaitDone)

FairSpec == Spec /\ Fairness

-----------------------------------------------------------------------------
(* Properties.                                                             *)

\* The type of every variable.
TypeOK ==
  /\ heap \in Seq(Jobs)
  /\ timed \subseteq Jobs /\ due \subseteq timed
  /\ prio \in [Jobs -> Nat]
  /\ current \in Jobs \cup {NoJob}
  /\ pc \in ThreadPCs
  /\ stop \in BOOLEAN
  /\ done \subseteq Jobs /\ terminate \subseteq Jobs /\ keep \subseteq Jobs
  /\ unused \subseteq Jobs /\ gone \subseteq Jobs
  /\ canceller \in [at : {"out", "waiting"}, job : Jobs \cup {NoJob}]
  /\ cancelled \subseteq Jobs
  /\ stopper \in {"out", "cancelling", "cleared", "joining", "joined", "gave_up"}
  /\ awaited \subseteq Jobs /\ owed \in Nat /\ promised \subseteq Jobs
  /\ waiter \in {"out", "waiting", "true", "false"}

\* A one-shot job is never queued twice, never waits in the worker while it
\* runs or after it ran, and is never run after it was taken out: it is run at
\* most once, whatever clients cancel, clear or stop meanwhile.
OneShotRunsOnce ==
  /\ \A i, k \in DOMAIN heap : heap[i] = heap[k] => i = k
  /\ \A j \in OneShot \cap (InHeap \cup timed) : j # current /\ j \notin done \cup gone
  /\ InHeap \cap timed \subseteq Reoccurring
  /\ pc \in {"popped", "running"} /\ current \in OneShot => current \notin done \cup gone

\* When cancel_and_remove_job has returned true for a one-shot job, the job
\* does not run and will not: the caller may free what do_work uses.
CancelledOneShotIsOver ==
  \A j \in cancelled \cap OneShot :
    /\ j \notin InHeap \cup timed
    /\ pc \in {"popped", "running"} => current # j

\* When wait_for_all_jobs_completed returns true, every one-shot job that was
\* running or in the heap at the call has been run to its end, or a client took
\* it out meanwhile.  The call counts signals and not jobs, so this needs that
\* a reoccurring job is not run twice before the heap it was found in is empty.
WaitedJobsAreDone == waiter = "true" => promised \cap OneShot \subseteq done \cup gone

\* m_heap, m_timed_jobs and m_current_job never lose a job: a one-shot job
\* that was added is queued, current, done, or was taken out by a client.
NoJobIsLost ==
  \A j \in OneShot \ unused :
    j \in InHeap \cup timed \cup done \cup gone \cup {current}

\* Every one-shot job that was added ends or is taken out, unless the worker
\* is stopped or occupied by a job that does not end.
JobsGetDone ==
  \A j \in OneShot :
    j \notin unused ~> \/ j \in done \cup gone
                       \/ stop
                       \/ pc = "running" /\ current \in Endless \ terminate

\* A reoccurring job is started again and again from the time it is added
\* until a client removes or cancels it, or stops the worker, unless a job that
\* does not end occupies the thread or clients clear the heap for ever.
ReoccurringRuns ==
  <>[][~ClearQueue /\ ~StopClear]_vars => \A j \in Reoccurring :
    j \notin unused ~> \/ pc = "running" /\ current = j
                       \/ j \in gone \cup cancelled
                       \/ j \notin keep
                       \/ stop
                       \/ pc = "running" /\ current \in Endless \ terminate

\* cancel_and_remove_job comes back without its time-out, also from a job that
\* only ends when it is told to: the flag is set before the call waits, and
\* nothing the job needs to end is held by the caller.
CancelReturns == canceller.at = "waiting" ~> canceller.at = "out"

\* stop gets through cancel_and_clear_jobs.
StopGetsPastCancel == stopper = "cancelling" ~> stopper # "cancelling"

\* Not so: "the jobs in the heap are sorted and executed according to
\* priority" (worker.hpp, lines 26 and 27): do_work takes the last element.
StartsHighestFirst ==
  [][PopJob => \A j \in InHeap : ~Less(prio, current', j)]_vars

\* Not so: "Will block until all currently added jobs have terminated" and
\* "true if all jobs were completed within the given time out value" (worker.hpp,
\* lines 102 to 109, of wait_for_all_jobs_completed): two runs of a reoccurring
\* job make up for a job that was cleared.
WaitedMeansRun == waiter = "true" => promised \cap OneShot \subseteq done

\* Not so: "if the job is a reocurring job, it will not be run again"
\* (worker.hpp, lines 86 to 88, of cancel_and_remove_job).
CancelledNeverRuns == [][RunJob => current \notin cancelled]_vars

\* The books of the worker: each job is in exactly the places that what was
\* done with it allows.
Accounted == TypeOK /\ OneShotRunsOnce /\ NoJobIsLost

\* Jobs of either sort get their turn.
JobsRun == JobsGetDone /\ ReoccurringRuns

\* Both calls that wait for a job with the wake mutex held come back.
CallsReturn == CancelReturns /\ StopGetsPastCancel
=============================================================================
