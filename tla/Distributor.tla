----------------------------- MODULE Distributor -----------------------------
(***************************************************************************)
(* The distributor filter (filter_distributor.cpp): one client that        *)
(* fetches frames, a pool of threads that decode frames it predicts, each  *)
(* in a clone of the graph, an lru in which the frames are handed over,    *)
(* and the monitor thread that takes everything down when the filter was   *)
(* not used for 5 seconds.                                                 *)
(*                                                                         *)
(* The pool is what ThreadPool promises: a queue of jobs and at most       *)
(* Threads jobs running.  A frame is its position.  mutex_ is held by the  *)
(* client in the pcs of Holding and by the monitor while it is "cleaning"; *)
(* the graphs and the lru have mutexes of their own, held in no step but   *)
(* the one that takes them.                                                *)
(*                                                                         *)
(* Only waiting takes time: 5 seconds pass while the client is away, and,  *)
(* if Slow, while jobs are waited for.                                     *)
(*                                                                         *)
(* A definition marked as a mutant is what a plausible slip would make of  *)
(* the one after it; the properties tell the two apart.                    *)
(***************************************************************************)
EXTENDS Integers, Sequences, FiniteSets

CONSTANTS
  Frames,    \* the length of the media
  Queue,     \* the "queue" property
  Threads,   \* the threads of the pool
  NoFrame,
  Slow,      \* a job may take longer than the time-outs allow
  Broken     \* the frames whose decoding throws

ASSUME DistributorAssumption ==
  /\ Frames \in Nat \ {0}
  /\ Queue \in Nat
  /\ IsFiniteSet(Threads) /\ Threads # {}
  /\ NoFrame \notin 0..Frames-1
  /\ Slow \in BOOLEAN /\ Broken \subseteq 0..Frames-1

VARIABLES
  main,         \* where the client is
  position,     \* the frame it fetches
  requested,    \* the position do_threaded_fetch schedules next
  expected, direction, previous,    \* members of the same name
  active,       \* the "active" property
  initialised,  \* initialised_
  pool,         \* pool_ is not null
  graphs,       \* how many clones are in graphs_
  scheduled,    \* the keys of scheduled_
  jobs,         \* the jobs queued in the pool
  run,          \* what each thread of the pool does
  lru,          \* the frames of the lru the key leads to, oldest use first
  size,         \* its size
  mine,         \* the client's own lru, once the key leads to another one
  overdue,      \* last_used_ is more than 5 seconds ago
  enrolled,     \* the monitor job is in the monitor's list of timed jobs
  monitor,      \* where the monitor job is; "dangling": in a destroyed filter
  late          \* history: a wait for the jobs ended before they did

call == <<position, requested, expected, direction, previous>>
work == <<graphs, scheduled, jobs, run>>
frames == <<lru, size, mine>>
clock == <<overdue, enrolled, monitor>>
watch == <<clock, late>>
vars == <<main, call, active, initialised, pool, work, frames, watch>>

Positions == 0..Frames-1
Count == Cardinality(Threads)
DefaultSize == 50
Current == <<-1>>                        \* the client's lru is that of the key
Free == [frame |-> NoFrame, at |-> "free"]

Holding == {"cleaning", "syncing", "releasing", "destroying"}
MutexFree == main \notin Holding /\ monitor # "cleaning"
Quiet == jobs = <<>> /\ \A t \in Threads : run[t] = Free

\* Mutant of Waited: clean_pool does not wait.
NotWaited == late' = late

\* The wait of clean_pool is over: the jobs are, or 5 seconds are.
Waited ==
  /\ pool => Quiet \/ Slow
  /\ late' = (late \/ ~Quiet)

Keys(s) == {s[i] : i \in 1..Len(s)}
Abs(n) == IF n < 0 THEN -n ELSE n
Lesser(m, n) == IF m < n THEN m ELSE n
Greater(m, n) == IF m > n THEN m ELSE n

Init ==
  /\ main = "idle"
  /\ position = 0 /\ requested = 0
  /\ expected = -1 /\ direction = 1 /\ previous = 0
  /\ active = 1 /\ initialised = FALSE /\ pool = FALSE
  /\ graphs = 0 /\ scheduled = {} /\ jobs = <<>>
  /\ run = [t \in Threads |-> Free]
  /\ lru = <<>> /\ size = DefaultSize /\ mine = Current
  /\ overdue = FALSE /\ enrolled = FALSE /\ monitor = "rest" /\ late = FALSE

-----------------------------------------------------------------------------
(* The lru (see Lru): fetch, append, resize.                               *)

Newest(s, n) == SubSeq(s, Greater(Len(s) - n, 0) + 1, Len(s))
\* p, which is in s, becomes the last.
Touched(s, p) ==
  LET at == CHOOSE i \in 1..Len(s) : s[i] = p
  IN  [i \in 1..Len(s) |-> IF i < at THEN s[i] ELSE IF i < Len(s) THEN s[i+1] ELSE p]
Appended(s, p) == IF p \in Keys(s) THEN Touched(s, p) ELSE Newest(Append(s, p), size)

-----------------------------------------------------------------------------
(* clean_pool and release_pool, in two halves: what is done at once, and   *)
(* what follows the wait for the running jobs (of 5 seconds at most).      *)

ClearJobs == jobs' = IF pool THEN <<>> ELSE jobs

\* The lru is destroyed, and a client that uses it keeps it to itself.
Deallocate ==
  /\ lru' = <<>> /\ size' = DefaultSize
  /\ mine' = IF main \in {"idle", "looking", "looking_directly"} \cup Holding \/ mine # Current THEN mine ELSE lru

ReleasePool ==
  /\ scheduled' = {}
  /\ pool' = FALSE
  /\ Deallocate
  /\ graphs' = 0
  /\ initialised' = FALSE

-----------------------------------------------------------------------------
(* The client: do_fetch.                                                   *)

\* threaded: for the first frame everything is released and the graph is
\* cloned for every thread.
Fetch(p) ==
  /\ main = "idle" /\ MutexFree
  /\ position' = p
  /\ overdue' = FALSE
  /\ main' = IF active = 1 \/ initialised THEN "looking" ELSE "looking_directly"
  /\ IF active = 1 /\ ~initialised
     THEN /\ graphs' = Count /\ initialised' = TRUE
          /\ scheduled' = {} /\ enrolled' = FALSE
          /\ Deallocate
     ELSE UNCHANGED <<initialised, graphs, scheduled, enrolled, frames>>
  /\ UNCHANGED <<requested, expected, direction, previous, active, pool, jobs, run, monitor, late>>

\* The lru is looked up and given its size.
LookUp ==
  /\ main \in {"looking", "looking_directly"}
  /\ lru' = Newest(lru, Queue) /\ size' = Queue
  /\ main' = IF main = "looking" THEN "deciding" ELSE "direct"
  /\ UNCHANGED mine
  /\ UNCHANGED <<call, active, initialised, pool, work, watch>>

\* do_fetch returns, and its local variables are gone.
EndFetch == main' = "idle" /\ position' = 0 /\ requested' = 0

\* do_non_threaded_fetch: from the lru, or from the graph itself.
FetchDirectly ==
  /\ main = "direct"
  /\ lru' = IF position \in Broken \/ mine # Current THEN lru ELSE Appended(lru, position)
  /\ mine' = Current
  /\ EndFetch
  /\ UNCHANGED <<expected, direction, previous, active, initialised, pool, work, size, watch>>

Turned == direction' = IF position = previous THEN 1 ELSE position - previous

\* The client reads on as expected: frames are scheduled ahead.
DecideExpected ==
  /\ main = "deciding"
  /\ expected = position
  /\ requested' = position
  /\ main' = "planning"
  /\ UNCHANGED <<position, expected, direction, previous, active, initialised,
                 pool, work, frames, watch>>

\* It does not, but the frame is scheduled ...
DecideScheduled ==
  /\ main = "deciding"
  /\ expected # position
  /\ IF position \in scheduled THEN Turned /\ main' = "waiting"
                               ELSE main' = "searching" /\ UNCHANGED direction
  /\ UNCHANGED <<position, requested, expected, previous, active, initialised,
                 pool, work, frames, watch>>

\* ... or in the lru, or everything scheduled is given up for this frame.
DecideCached ==
  /\ main = "searching"
  /\ IF position \in Keys(lru)
     THEN lru' = Touched(lru, position) /\ Turned /\ main' = "waiting"
     ELSE main' = "jumping" /\ UNCHANGED <<lru, direction>>
  /\ UNCHANGED <<position, requested, expected, previous, active, initialised,
                 pool, work, size, mine, watch>>

\* clean_pool, then add_job for the position alone.
Jump ==
  /\ main = "jumping" /\ MutexFree
  /\ ClearJobs
  /\ main' = "cleaning"
  /\ UNCHANGED <<call, active, initialised, pool, graphs, scheduled, run, frames, watch>>

Jumped ==
  /\ main = "cleaning"
  /\ Waited
  /\ scheduled' = {}
  /\ requested' = position
  /\ main' = "adding_one"
  /\ UNCHANGED <<position, expected, direction, previous, active, initialised,
                 pool, graphs, jobs, run, frames, clock>>

Reach == Abs(direction) * (Queue \div 2)
InReach(p) == /\ p >= Greater(position - Reach, 0)
              /\ p < Lesser(position + Reach, Frames)

Plan ==
  /\ main = "planning"
  /\ main' = IF InReach(requested) THEN "adding" ELSE "waiting"
  /\ UNCHANGED <<call, active, initialised, pool, work, frames, watch>>

\* What follows add_job in the two places it is called from.
AddedOne == Turned /\ main' = "waiting" /\ UNCHANGED requested

\* Mutant of AddedNext: the loop does not move on.
AddedNextInPlace == requested' = requested /\ main' = "planning" /\ UNCHANGED direction
AddedNext == requested' = requested + direction /\ main' = "planning" /\ UNCHANGED direction
Added(one) == IF one THEN AddedOne ELSE AddedNext

\* Mutant of AddScheduled: a frame that is scheduled is scheduled again.
AddAnyway ==
  /\ main \in {"adding", "adding_one"}
  /\ main' = IF main = "adding_one" THEN "peeking_one" ELSE "peeking"
  /\ UNCHANGED <<call, active, initialised, pool, work, frames, watch>>

\* add_job: nothing to do for a frame that is scheduled ...
AddScheduled ==
  /\ main \in {"adding", "adding_one"}
  /\ IF requested \in scheduled
     THEN Added(main = "adding_one")
     ELSE /\ main' = IF main = "adding_one" THEN "peeking_one" ELSE "peeking"
          /\ UNCHANGED <<requested, direction>>
  /\ UNCHANGED <<position, expected, previous, active, initialised, pool, work, frames, watch>>

\* ... or in the lru; else it is scheduled.
AddCached ==
  /\ main \in {"peeking", "peeking_one"}
  /\ IF requested \in Keys(lru)
     THEN /\ lru' = Touched(lru, requested)
          /\ Added(main = "peeking_one")
          /\ UNCHANGED scheduled
     ELSE /\ scheduled' = scheduled \cup {requested}
          /\ main' = IF main = "peeking_one" THEN "enqueueing_one" ELSE "enqueueing"
          /\ UNCHANGED <<requested, direction, lru>>
  /\ UNCHANGED <<position, expected, previous, active, initialised, pool,
                 graphs, jobs, run, size, mine, watch>>

\* acquire_pool, which enrolls the monitor job with a new pool, and its add_job.
Enqueue ==
  /\ main \in {"enqueueing", "enqueueing_one"} /\ MutexFree
  /\ pool' = TRUE
  /\ enrolled' = (enrolled \/ ~pool)
  /\ overdue' = FALSE
  /\ jobs' = Append(jobs, requested)
  /\ Added(main = "enqueueing_one")
  /\ UNCHANGED <<position, expected, previous, active, initialised, graphs,
                 scheduled, run, frames, monitor, late>>

\* lru::wait, and the end of do_fetch.
Mine == IF mine = Current THEN lru ELSE mine

Finish ==
  /\ previous' = position
  /\ expected' = position + direction
  /\ EndFetch
  /\ UNCHANGED <<direction, active, initialised, pool, work, size, watch>>

GetFrame ==
  /\ main = "waiting"
  /\ position \in Keys(Mine)
  /\ IF mine = Current THEN lru' = Touched(lru, position) ELSE lru' = lru
  /\ mine' = Current
  /\ Finish

\* Five seconds pass without the frame: the call returns none.
GetNothing ==
  /\ main = "waiting"
  /\ position \notin Keys(Mine)
  /\ Slow \/ Quiet
  /\ mine' = Current /\ lru' = lru
  /\ Finish

-----------------------------------------------------------------------------
(* The client: sync, the "active" property, the destructor.                *)

Begin(what) ==
  /\ main = "idle" /\ MutexFree
  /\ ClearJobs
  /\ main' = what
  /\ UNCHANGED <<call, initialised, pool, graphs, scheduled, run, frames, overdue, monitor, late>>

Sync == Begin("syncing") /\ UNCHANGED <<active, enrolled>>

\* clean_pool has returned; the graph is synced, and then the clones.
SyncGraphs ==
  /\ main = "syncing"
  /\ Waited
  /\ scheduled' = {}
  /\ main' = "idle"
  /\ UNCHANGED <<call, active, initialised, pool, graphs, jobs, run, frames, clock>>

SetActive(a) == Begin("releasing") /\ active' = a /\ enrolled' = FALSE
Destroy == Begin("destroying") /\ enrolled' = FALSE /\ UNCHANGED active

Released ==
  /\ main \in {"releasing", "destroying"}
  /\ Waited
  /\ ReleasePool
  /\ main' = IF main = "releasing" THEN "idle" ELSE "destroyed"
  /\ UNCHANGED <<call, active, jobs, run, clock>>

-----------------------------------------------------------------------------
(* A thread of the pool: decode_job.                                       *)

\* graphs::item takes a clone.
StartJob(t) ==
  /\ run[t] = Free
  /\ jobs # <<>>
  /\ jobs' = Tail(jobs)
  /\ graphs' = graphs - 1
  /\ run' = [run EXCEPT ![t] = [frame |-> Head(jobs), at |-> "decoding"]]
  /\ UNCHANGED <<main, call, active, initialised, pool, scheduled, frames, watch>>

\* The frame is put into the lru the key leads to by now.
StoreFrame(t) ==
  /\ run[t].at = "decoding" /\ run[t].frame \notin Broken
  /\ lru' = Appended(lru, run[t].frame)
  /\ run' = [run EXCEPT ![t].at = "stored"]
  /\ UNCHANGED <<main, call, active, initialised, pool, graphs, scheduled, jobs,
                 size, mine, watch>>

Throw(t) ==
  /\ run[t].at = "decoding" /\ run[t].frame \in Broken
  /\ run' = [run EXCEPT ![t].at = "failed"]
  /\ UNCHANGED <<main, call, active, initialised, pool, graphs, scheduled, jobs,
                 frames, watch>>

\* Mutant of ReturnGraph: only the clone is given back.
ReturnGraphAlone(t) ==
  /\ run[t].at \in {"stored", "failed"}
  /\ graphs' = graphs + 1
  /\ run' = [run EXCEPT ![t] = Free]
  /\ UNCHANGED <<main, call, active, initialised, pool, scheduled, jobs, frames, watch>>

\* The item's destructor gives the clone back and erases the schedule.
ReturnGraph(t) ==
  /\ run[t].at \in {"stored", "failed"}
  /\ graphs' = graphs + 1
  /\ scheduled' = scheduled \ {run[t].frame}
  /\ run' = [run EXCEPT ![t] = Free]
  /\ UNCHANGED <<main, call, active, initialised, pool, jobs, frames, watch>>

-----------------------------------------------------------------------------
(* The monitor thread.                                                     *)

TimePasses ==
  /\ ~overdue /\ main # "destroyed"
  /\ main = "idle" \/ (Slow /\ main \in {"waiting"} \cup Holding)
  /\ overdue' = TRUE
  /\ UNCHANGED <<main, call, active, initialised, pool, work, frames, enrolled, monitor, late>>

\* The worker moves the job to its heap: it will run even if it is withdrawn.
MonitorDue ==
  /\ enrolled /\ monitor = "rest"
  /\ monitor' = "due"
  /\ UNCHANGED <<main, call, active, initialised, pool, work, frames, overdue, enrolled, late>>

\* monitor, also of a filter that was destroyed after the job came to the heap
\* or while it waited for mutex_.  What it does there is not followed.
Monitor ==
  /\ monitor = "due" /\ MutexFree
  /\ \/ main = "destroyed" /\ monitor' = "dangling" /\ UNCHANGED <<enrolled, jobs>>
     \/ main # "destroyed" /\ overdue /\ enrolled' = FALSE /\ ClearJobs /\ monitor' = "cleaning"
     \/ main # "destroyed" /\ ~overdue /\ monitor' = "rest" /\ UNCHANGED <<enrolled, jobs>>
  /\ UNCHANGED <<main, call, active, initialised, pool, graphs, scheduled, run, frames, overdue, late>>

MonitorReleases ==
  /\ monitor = "cleaning"
  /\ Waited
  /\ ReleasePool
  /\ monitor' = "rest"
  /\ UNCHANGED <<main, call, active, jobs, run, overdue, enrolled>>

-----------------------------------------------------------------------------
Client ==
  \/ LookUp \/ FetchDirectly \/ DecideExpected \/ DecideScheduled \/ DecideCached
  \/ Jump \/ Jumped \/ Plan \/ AddScheduled \/ AddCached \/ Enqueue
  \/ GetFrame \/ SyncGraphs \/ Released

Thread(t) == StartJob(t) \/ StoreFrame(t) \/ Throw(t) \/ ReturnGraph(t)

Destroyed == main = "destroyed" /\ UNCHANGED vars

Next ==
  \/ \E p \in Positions : Fetch(p)
  \/ Client \/ GetNothing
  \/ Sync \/ Destroy \/ \E a \in {0, 1} : SetActive(a)
  \/ \E t \in Threads : Thread(t)
  \/ TimePasses \/ MonitorDue \/ Monitor \/ MonitorReleases
  \/ Destroyed

Spec == Init /\ [][Next]_vars

\* The client and the pool's threads go on, and every wait with a time-out ends.
FairSpec ==
  /\ Spec
  /\ WF_vars(Client) /\ WF_vars(GetNothing) /\ WF_vars(MonitorReleases)
  /\ \A t \in Threads : WF_vars(Thread(t))

-----------------------------------------------------------------------------
(* Properties.                                                             *)

Phases == {"idle", "looking", "looking_directly", "direct", "deciding", "searching", "jumping",
           "planning", "adding", "adding_one", "peeking", "peeking_one",
           "enqueueing", "enqueueing_one", "waiting", "destroyed"} \cup Holding

\* The type of every variable.
TypeOK ==
  /\ main \in Phases
  /\ position \in Positions
  /\ {requested, expected, direction, previous, graphs} \subseteq Int
  /\ active \in {0, 1}
  /\ {initialised, pool, overdue, enrolled} \subseteq BOOLEAN
  /\ scheduled \subseteq Positions
  /\ jobs \in Seq(Positions)
  /\ run \in [Threads -> [frame : Positions \cup {NoFrame},
                          at : {"free", "decoding", "stored", "failed"}]]
  /\ lru \in Seq(Positions) /\ size \in {Queue, DefaultSize}
  /\ mine = Current \/ mine \in Seq(Positions)
  /\ monitor \in {"rest", "due", "cleaning", "dangling"}

Decoding(p) == {t \in Threads : run[t].frame = p}

\* What return_graph erases is in scheduled_, so that find never returns
\* end(), as long as no wait for the jobs was cut short.
ScheduledUntilReturned ==
  ~late => \A t \in Threads : run[t] # Free => run[t].frame \in scheduled

\* A frame that stays scheduled without a job would never be decoded again.
NothingStaysScheduled ==
  MutexFree /\ ~late =>
    scheduled \subseteq Keys(jobs) \cup {run[t].frame : t \in Threads}
      \cup (IF main \in {"enqueueing", "enqueueing_one"} THEN {requested} ELSE {})

\* The schedule is what the pool has to do, no less and no more.
ScheduleIsTrue == TypeOK /\ ScheduledUntilReturned /\ NothingStaysScheduled

\* No frame is decoded by two jobs, or queued while it is decoded.
NoFrameTwice ==
  ~late =>
    /\ \A i, j \in 1..Len(jobs) : jobs[i] = jobs[j] => i = j
    /\ \A p \in Positions : Cardinality(Decoding(p)) <= 1
    /\ \A p \in Keys(jobs) : Decoding(p) = {}

\* Each running job has a clone of the graph for itself: graphs_.back() is
\* never asked of an empty vector, whatever the monitor released and the
\* client cloned again in between.
GraphForEveryJob == graphs >= 0

\* What sync does reaches the clone of every thread: none is out in a job.
SyncReachesEveryClone ==
  [][main = "syncing" /\ main' # main /\ initialised /\ ~late' => graphs = Count]_vars

\* No decode_job outlives the filter it decodes for, unless a wait for the jobs
\* was cut short: neither the client nor the monitor leaves one behind.
NoJobOutlivesTheFilter == main = "destroyed" /\ ~late => Quiet

\* Not so, though release_pool withdraws the monitor job: the monitor leaves
\* the filter alone once it is destroyed.
MonitorIsWithdrawn == monitor # "dangling"

\* Clones are where they should be: one for each job, none out at a sync, and
\* none taken by a decode_job when the filter goes.
ClonesAreKept == SyncReachesEveryClone /\ []GraphForEveryJob /\ []NoJobOutlivesTheFilter

\* Every fetch, sync or property change returns: the frames to schedule come
\* to an end, and whoever holds mutex_ gives it back.
CallsReturn == main \notin {"idle", "destroyed"} ~> main \in {"idle", "destroyed"}
=============================================================================
