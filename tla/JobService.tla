----------------------------- MODULE JobService -----------------------------
(***************************************************************************)
(* What opencorelib promises of anything that runs jobs (the thread_pool   *)
(* and the worker): a job handed over is accepted once, starts at most     *)
(* once, and ends either finished or dropped; never more than Capacity     *)
(* jobs run at a time.  ThreadPool implements this specification.          *)
(***************************************************************************)
EXTENDS Naturals, FiniteSets

CONSTANTS Jobs,       \* the jobs clients may hand over
          Capacity    \* how many jobs may run at the same time

VARIABLE phase        \* the life of each job

Running == {j \in Jobs : phase[j] = "running"}

Init == phase = [j \in Jobs |-> "new"]

\* A client hands over j.
Accept(j) ==
  /\ phase[j] = "new"
  /\ phase' = [phase EXCEPT ![j] = "accepted"]

\* j starts, when there is room for it.
Start(j) ==
  /\ phase[j] = "accepted"
  /\ Cardinality(Running) < Capacity
  /\ phase' = [phase EXCEPT ![j] = "running"]

\* j has done its work.
Finish(j) ==
  /\ phase[j] = "running"
  /\ phase' = [phase EXCEPT ![j] = "done"]

\* Accepted jobs that have not started are given up together: the queue is
\* cleared or a worker is stopped.
Drop ==
  \E D \in SUBSET {j \in Jobs : phase[j] = "accepted"} :
    phase' = [j \in Jobs |-> IF j \in D THEN "dropped" ELSE phase[j]]

Next == Drop \/ \E j \in Jobs : Accept(j) \/ Start(j) \/ Finish(j)

Spec == Init /\ [][Next]_phase
=============================================================================
