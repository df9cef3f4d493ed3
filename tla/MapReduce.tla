------------------------------ MODULE MapReduce ------------------------------
(***************************************************************************)
(* The map_reduce filter (filter_map_reduce.cpp) over lazily decoded       *)
(* frames (frame_lazy.cpp, filter_lazy.cpp).  The client plans a window of *)
(* frames as jobs of a thread pool, waits for the one it was asked for and *)
(* tops the window up, by one job for each worker that is idle just then.  *)
(* A job decodes the image and the stream of its frame, each with a        *)
(* decoder borrowed from the filter, and leaves the frame in frame_map.    *)
(*                                                                         *)
(* A frame is its position.  The pool is what ThreadPool promises: a new   *)
(* worker for each of the first jobs, a queue for the others; clear_jobs   *)
(* empties the queue and leaves running jobs alone.  Left out: inputs that *)
(* are not thread safe (fetched directly, nothing is shared), seeks beyond *)
(* the end, and the destructor, whose part is terminate_all_threads.       *)
(*                                                                         *)
(* A definition marked as a mutant is what a plausible slip would make of  *)
(* the one after it; the properties tell the two apart.                    *)
(***************************************************************************)
EXTENDS Integers, Sequences, FiniteSets

CONSTANTS
  Frames,    \* get_frames() of the filter
  Workers,   \* the threads of the pool, as many as the "threads" property says
  Jumps,     \* the frames a client may ask for out of order
  NoFrame,
  Broken     \* the frames whose decoding fails

ASSUME MapReduceAssumption ==
  /\ Frames \in Nat \ {0}
  /\ IsFiniteSet(Workers) /\ Workers # {}
  /\ NoFrame \notin 0..Frames-1
  /\ Broken \subseteq 0..Frames-1 /\ Jumps \subseteq 0..Frames-1

VARIABLES
  main,       \* where the client is in do_fetch
  position,   \* the frame it was asked for
  begun,      \* last_frame_ is set; it is the frame at position
  incr, frameno,   \* members of the same name
  left,       \* the jobs the loop it is in may still add
  forgotten,  \* add_job has called make_unavailable, and no more yet
  map,        \* the keys of frame_map
  jobs,       \* the queue of the pool
  run,        \* what each worker does
  decoders,   \* filters_: how many decoders are free
  created     \* how many decoders there are

client == <<main, position, begun, incr, frameno, left, forgotten>>
pool == <<jobs, run>>
lazy == <<decoders, created>>
vars == <<client, map, pool, lazy>>

Positions == 0..Frames-1
Threads == Cardinality(Workers)
Job(p, at) == [frame |-> p, at |-> at]
Absent == Job(NoFrame, "absent")
Asleep == Job(NoFrame, "asleep")
Ends(s) == {s[i] : i \in 1..Len(s)}

\* expected_: do_fetch sets it with last_frame_.
Expected == IF begun THEN position + incr ELSE 0

Init ==
  /\ main = "idle" /\ position = 0 /\ begun = FALSE
  /\ incr = 1 /\ frameno = 0
  /\ left = 0 /\ forgotten = FALSE
  /\ map = {} /\ jobs = <<>>
  /\ run = [w \in Workers |-> Absent]
  /\ decoders = 0 /\ created = 0

-----------------------------------------------------------------------------
(* The client.                                                             *)

\* The start of do_fetch.  A frame that is not the expected one makes a new
\* plan; the direction is that of the jump.  Fetching the last frame again
\* changes nothing and is left out.
Fetch(p) ==
  /\ main = "idle" /\ ~(begun /\ p = position)
  /\ position' = p
  /\ IF ~begun \/ p # Expected
     THEN /\ incr' = IF p >= Expected THEN 1 ELSE -1
          /\ map' = {} /\ jobs' = <<>>
          /\ frameno' = p
          /\ left' = 2 * Threads
          /\ main' = "planning"
     ELSE /\ main' = "waiting"
          /\ UNCHANGED <<incr, map, jobs, frameno, left>>
  /\ UNCHANGED <<begun, forgotten, run, lazy>>

\* The conditions of the two loops that add jobs.
More ==
  /\ left > 0 /\ frameno \in Positions
  /\ main = "filling" => frameno <= position + 2 * Threads

\* add_job, first part: a frame of that position left from before is dropped.
Forget ==
  /\ main \in {"planning", "filling"} /\ ~forgotten /\ More
  /\ map' = map \ {frameno}
  /\ forgotten' = TRUE
  /\ UNCHANGED <<main, position, begun, incr, frameno, left, pool, lazy>>

\* Mutant of Enqueue: the frame is made unavailable after its job was added.
EnqueueThenForget ==
  /\ forgotten
  /\ IF \E w \in Workers : run[w] = Absent
     THEN LET w == CHOOSE v \in Workers : run[v] = Absent
          IN  run' = [run EXCEPT ![w] = Job(frameno, "image")] /\ jobs' = jobs
     ELSE jobs' = Append(jobs, frameno) /\ run' = run
  /\ frameno' = frameno + incr
  /\ left' = left - 1
  /\ map' = map \ {frameno - incr}
  /\ forgotten' = FALSE
  /\ UNCHANGED <<main, position, begun, incr, lazy>>

\* add_job, second part: the job goes to a new worker or into the queue.
Enqueue ==
  /\ forgotten
  /\ IF \E w \in Workers : run[w] = Absent
     THEN LET w == CHOOSE v \in Workers : run[v] = Absent
          IN  run' = [run EXCEPT ![w] = Job(frameno, "image")] /\ jobs' = jobs
     ELSE jobs' = Append(jobs, frameno) /\ run' = run
  /\ frameno' = frameno + incr
  /\ left' = left - 1
  /\ forgotten' = FALSE
  /\ UNCHANGED <<main, position, begun, incr, map, lazy>>

Planned ==
  /\ main = "planning" /\ ~forgotten /\ ~More
  /\ main' = "waiting"
  /\ UNCHANGED <<position, begun, incr, frameno, left, forgotten, map, pool, lazy>>

\* wait_for_available: the frame is there and is taken out, or the client
\* sleeps until it is notified.
Arrive ==
  /\ main = "waiting"
  /\ IF position \in map
     THEN main' = "arrived" /\ map' = map \ {position}
     ELSE main' = "asleep" /\ map' = map
  /\ UNCHANGED <<position, begun, incr, frameno, left, forgotten, pool, lazy>>

\* get_number_of_idle_workers, read once.
Ask ==
  /\ main = "arrived"
  /\ left' = Cardinality({w \in Workers : run[w] \in {Absent, Asleep}})
  /\ main' = "filling"
  /\ UNCHANGED <<position, begun, incr, frameno, forgotten, map, pool, lazy>>

Return ==
  /\ main = "filling" /\ ~forgotten /\ ~More
  /\ main' = "idle"
  /\ begun' = TRUE
  /\ left' = 0
  /\ UNCHANGED <<position, incr, frameno, forgotten, map, pool, lazy>>

-----------------------------------------------------------------------------
(* The workers.                                                            *)

\* A worker takes the next job of the queue, or goes to sleep in job_done.
Take(w) ==
  /\ run[w].at \in {"asleep", "over"}
  /\ IF jobs # <<>>
     THEN run' = [run EXCEPT ![w] = Job(Head(jobs), "image")] /\ jobs' = Tail(jobs)
     ELSE run' = [run EXCEPT ![w] = Asleep] /\ jobs' = jobs
  /\ UNCHANGED <<client, map, lazy>>

\* evaluate, up to filter_obtain: a free decoder, or a new one.
Obtain(w) ==
  /\ run[w].at \in {"image", "stream"}
  /\ run' = [run EXCEPT ![w].at = IF @ = "image" THEN "imaging" ELSE "streaming"]
  /\ IF decoders = 0 THEN created' = created + 1 /\ decoders' = decoders
     ELSE decoders' = decoders - 1 /\ created' = created
  /\ UNCHANGED <<client, map, jobs>>

\* Mutant of GiveBack: a decoder that failed is not given back.
GiveBackIfGood(good) == decoders' = IF good THEN decoders + 1 ELSE decoders

\* filter_release, which the guard of evaluate calls on every way out.
GiveBack(good) == decoders' = decoders + 1

\* Mutant of Notified: make_available does not notify.
NotNotified == main

\* cond_.notify_all of make_available.
Notified == IF main = "asleep" THEN "waiting" ELSE main

\* The rest of evaluate for the image.  An error in the decoded frame is
\* thrown, through decode_job, and the worker goes on to its next job.
Image(w) ==
  /\ run[w].at = "imaging"
  /\ GiveBack(run[w].frame \notin Broken)
  /\ run' = [run EXCEPT ![w].at = IF run[w].frame \in Broken THEN "over" ELSE "stream"]
  /\ UNCHANGED <<client, map, jobs, created>>

\* The rest of evaluate for the stream, and make_available.
Store(w) ==
  /\ run[w].at = "streaming"
  /\ GiveBack(TRUE)
  /\ map' = map \cup {run[w].frame}
  /\ main' = Notified
  /\ run' = [run EXCEPT ![w].at = "over"]
  /\ UNCHANGED <<position, begun, incr, frameno, left, forgotten, jobs, created>>

ClientStep == Forget \/ Enqueue \/ Planned \/ Arrive \/ Ask \/ Return
WorkerStep(w) == Take(w) \/ Obtain(w) \/ Image(w) \/ Store(w)

Next ==
  \/ \E p \in Jumps \cup ({Expected} \cap Positions) : Fetch(p)
  \/ ClientStep
  \/ \E w \in Workers : WorkerStep(w)

Spec == Init /\ [][Next]_vars

\* The client's thread and the workers' are scheduled; nobody has to fetch.
FairSpec ==
  /\ Spec
  /\ WF_vars(ClientStep)
  /\ \A w \in Workers : WF_vars(WorkerStep(w))

-----------------------------------------------------------------------------
(* Properties.                                                             *)

\* The type of every variable.
TypeOK ==
  /\ main \in {"idle", "planning", "waiting", "asleep", "arrived", "filling"}
  /\ position \in Positions /\ begun \in BOOLEAN
  /\ incr \in {-1, 1} /\ frameno \in -1..Frames
  /\ left \in 0..2 * Threads /\ forgotten \in BOOLEAN
  /\ map \subseteq Positions
  /\ jobs \in Seq(Positions)
  /\ \A w \in Workers :
       \/ run[w] \in {Absent, Asleep}
       \/ /\ run[w].frame \in Positions
          /\ run[w].at \in {"image", "imaging", "stream", "streaming", "over"}
  /\ decoders \in Nat /\ created \in Nat

InWork == Ends(jobs) \cup {run[w].frame : w \in {v \in Workers : run[v].at \notin {"absent", "asleep", "over"}}}

\* The frames planned and not yet handed out, between the client's and
\* frameno_.
Window ==
  LET first == IF main \in {"arrived", "filling"} THEN position + incr
               ELSE IF main = "idle" THEN Expected ELSE position
  IN  {p \in Positions : IF incr = 1 THEN first <= p /\ p < frameno ELSE frameno < p /\ p <= first}

\* No planned frame is lost between client and workers: it is queued, being
\* decoded or there to be fetched, unless its decoding failed.  Frames that
\* come late from before a jump may stand in for it, never take it away.
NoPlannedFrameLost == Window \ Broken \subseteq InWork \cup map

\* What is decoded ahead stays bounded.  Forwards the window ends two frames
\* for each thread beyond the position; in both directions what lies outside
\* the window, left over from before a jump or stored after its frame was
\* handed out, is no more than the jobs that were running at the jump.
AheadIsBounded ==
  /\ incr = 1 => frameno <= position + 2 * Threads + 1
  /\ Cardinality((map \cup InWork) \ Window) <= Threads

\* The window of frames decoded ahead is kept: all of it, and little more.
WindowIsKept == NoPlannedFrameLost /\ AheadIsBounded

\* Every decoder is free or with one worker, also after a decoder failed, and
\* no more are made than there are threads to use them.
DecodersAccounted ==
  /\ TypeOK
  /\ created = decoders + Cardinality({w \in Workers : run[w].at \in {"imaging", "streaming"}})
  /\ created <= Threads

\* A client that waits for a frame the pool has gets it.
PlannedFrameArrives ==
  \A p \in Positions \ Broken :
    main \in {"waiting", "asleep"} /\ position = p /\ p \in InWork \cup map ~> main = "arrived"

\* Not so: wait_for_available assumes "that completion will happen" for every
\* frame it is asked for.
FetchReturns == \A p \in Positions \ Broken : main = "asleep" /\ position = p ~> main = "arrived"
==============================================================================
