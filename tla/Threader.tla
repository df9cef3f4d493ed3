------------------------------ MODULE Threader ------------------------------
(***************************************************************************)
(* The threader filter of the ardendo plugin (filter_threader.cpp): a      *)
(* worker thread that reads frames ahead of a client into a cache.         *)
(*                                                                         *)
(* The client (the main thread) and the worker share mutex_ and one        *)
(* condition variable, cond_, on which both wait and which is always       *)
(* signalled with notify_one.  A frame is its position.                    *)
(*                                                                         *)
(* The client calls one method at a time.  A call that has to wait for the *)
(* worker keeps what is left of it in todo; main "busy" means the client   *)
(* holds mutex_, and so do the worker's pcs "top", "look", "fill" and      *)
(* "prefetch".                                                             *)
(*                                                                         *)
(* start may make a second thread beside a paused one.  The model says     *)
(* when (worker "two"), and ends there: what two workers do to the cache   *)
(* and to cond_ is not modelled, and nothing is claimed of it.             *)
(*                                                                         *)
(* A definition marked as a mutant is what a plausible slip would make of  *)
(* the one after it; the properties tell the two apart.                    *)
(***************************************************************************)
EXTENDS Integers, Sequences, FiniteSets

CONSTANTS
  Setups,     \* what clients do, and with which media: see below
  Longest     \* no media are longer

\* A member of Setups has
\*   targets, offsets  the positions and offsets clients seek to
\*   actives, queues   the values they give to the properties of these names
\*   queue             the first value of the latter
\*   inputs            the kinds of input connected: "safe" and "unsafe"
\*   synced            the filter is synced once it is connected
\*   lengths           the lengths the media has over time
\*   mayShrink         clients replace the media by shorter ones, while paused
\*   faulty            sync or fetch of the input may fail on the worker thread
ASSUME ThreaderAssumption ==
  /\ Longest \in Nat
  /\ Setups \subseteq
       [targets : SUBSET (-1..Longest+1), offsets : SUBSET {-1, 1},
        actives : SUBSET {0, 1}, queues : SUBSET (0..Longest), queue : 0..Longest,
        inputs : SUBSET {"safe", "unsafe"}, synced : BOOLEAN,
        lengths : SUBSET (1..Longest), mayShrink : BOOLEAN, faulty : BOOLEAN]

VARIABLES
  setup,     \* the member of Setups: fixed
  state,     \* state_
  newState,  \* new_state_
  error,     \* thread_error_msg_ is not empty
  main,      \* what the client does
  todo,      \* the rest of the client's call
  signal,    \* cond_ has been notified for the client
  asked,     \* the properties "active" and "queue"
  active,    \* active_
  queue,     \* max_cache_size_
  input,     \* the connected input
  safe,      \* input_is_thread_safe_
  position, speed, lastPosition, frames,      \* members of the same name
  count,     \* last_sync_count_
  due,       \* sync_time_ is reached
  length,    \* the present length of the media
  worker,    \* where the worker thread is; "two": there are two
  cache,     \* the positions in cache_
  local      \* the worker's position, speed, prefetch position, fully_cached

control == <<state, newState, error>>
client == <<main, todo, signal>>
settings == <<asked, active, queue, input, safe>>
place == <<position, speed, lastPosition, frames>>
media == <<setup, count, due, length>>
thread == <<worker, cache, local>>
vars == <<control, client, settings, place, media, thread>>

Abs(n) == IF n < 0 THEN -n ELSE n
Fresh == [position |-> 0, speed |-> 1, prefetch |-> 0, full |-> FALSE]

MainFree == main # "busy"
WorkerFree == worker \notin {"top", "look", "fill", "prefetch"}

Init ==
  /\ setup \in Setups
  /\ state = "dead" /\ newState = "dead" /\ error = FALSE
  /\ main = "idle" /\ todo = <<>> /\ signal = FALSE
  /\ asked = [active |-> 0, queue |-> setup.queue]
  /\ active = 0 /\ queue = setup.queue /\ input = "safe" /\ safe = TRUE
  /\ position = 0 /\ speed = 1 /\ lastPosition = -1
  /\ length \in setup.lengths /\ \A n \in setup.lengths : length <= n
  /\ count = (IF setup.synced THEN length ELSE 0) /\ frames = count
  /\ due = FALSE
  /\ worker = "none" /\ cache = {} /\ local = Fresh

-----------------------------------------------------------------------------
(* cond_.notify_one, from the client and from the worker.                  *)

NotifyWorker == worker' = IF worker = "waiting" THEN "woken" ELSE worker
NotifyMain == signal' = (signal \/ main \in {"applying", "fetching"})

\* check_for_worker_error: the message is consumed and the thread joined.
ConsumeError ==
  /\ error' = FALSE
  /\ state' = "dead" /\ newState' = "dead"
  /\ worker' = "none"

\* The client may enter a method.
Enter == main = "idle" /\ WorkerFree

-----------------------------------------------------------------------------
(* Calls that do not wait.                                                 *)

Clamped(p) == IF p < 0 THEN 0 ELSE IF p >= frames THEN frames - 1 ELSE p

\* seek(p, relative): the speed is the difference of two arguments, whatever
\* they mean.
Seek(p, relative) ==
  /\ Enter
  /\ position' = Clamped(IF relative THEN position + p ELSE p)
  /\ speed' = IF p # lastPosition THEN p - lastPosition ELSE speed
  /\ lastPosition' = p
  /\ NotifyWorker
  /\ UNCHANGED <<control, client, settings, frames, media, cache, local>>

\* A call of sync or fetch that finds the worker's error rethrows it.
Rethrow ==
  /\ Enter
  /\ error
  /\ ConsumeError
  /\ UNCHANGED <<client, settings, place, media, cache, local>>

Sync ==
  /\ Enter
  /\ ~error
  /\ count' = IF state = "running" THEN count ELSE length
  /\ frames' = count'
  /\ UNCHANGED <<control, client, settings, position, speed, lastPosition,
                 setup, due, length, thread>>

\* connect assigns the slot; on_slot_change then throws if the worker runs,
\* or looks whether the input is thread safe.
Connect(i) ==
  /\ Enter
  /\ i # input
  /\ input' = i
  /\ safe' = IF state = "running" THEN safe ELSE i = "safe"
  /\ UNCHANGED <<control, client, asked, active, queue, place, media, thread>>

\* The media grows; or the client, which has paused the filter, puts a shorter
\* one in its place and calls sync.
Grow ==
  /\ length' \in {n \in setup.lengths : n > length}
  /\ UNCHANGED <<control, client, settings, place, setup, count, due, thread>>

Shrink ==
  /\ setup.mayShrink
  /\ Enter
  /\ state # "running" /\ ~error
  /\ length' \in {n \in setup.lengths : n < length}
  /\ count' = length' /\ frames' = length'
  /\ UNCHANGED <<control, client, settings, position, speed, lastPosition,
                 setup, due, thread>>

\* A frame asked for while the worker is paused or dead comes straight from
\* the input; if that works and the worker should run, it is started again.
FetchDirectly ==
  /\ Enter
  /\ ~error
  /\ state = "dead" /\ active = 1
  /\ main' = "busy" /\ todo' = <<"active">>
  /\ UNCHANGED <<control, signal, settings, place, media, thread>>

\* The worker runs: the frame comes from the cache, or the client waits.
FetchAhead ==
  /\ Enter
  /\ ~error
  /\ state = "running"
  /\ position \notin cache
  /\ main' = "fetching" /\ signal' = FALSE
  /\ UNCHANGED <<control, todo, settings, place, media, thread>>

\* The client waiting in do_fetch has been notified.
FetchAgain ==
  /\ main = "fetching" /\ signal /\ WorkerFree
  /\ signal' = FALSE
  /\ IF error
     THEN ConsumeError /\ main' = "idle"
     ELSE /\ main' = IF position \in cache THEN "idle" ELSE "fetching"
          /\ UNCHANGED <<control, worker>>
  /\ UNCHANGED <<todo, settings, place, media, cache, local>>

-----------------------------------------------------------------------------
(* Calls that change the worker's state.                                   *)

SetActive(a) ==
  /\ Enter
  /\ asked' = [asked EXCEPT !.active = a]
  /\ main' = "busy" /\ todo' = <<"active">>
  /\ UNCHANGED <<control, signal, active, queue, input, safe, place, media, thread>>

SetQueue(q) ==
  /\ Enter
  /\ q # queue
  /\ asked' = [asked EXCEPT !.queue = q]
  /\ main' = "busy" /\ todo' = <<"pause", "queue", "active">>
  /\ UNCHANGED <<control, signal, active, queue, input, safe, place, media, thread>>

\* ~filter_threader.
Destroy ==
  /\ Enter
  /\ main' = "busy" /\ todo' = <<"stop", "destroyed">>
  /\ UNCHANGED <<control, signal, settings, place, media, thread>>

\* The next step of the client's call.
Busy(step) == main = "busy" /\ todo # <<>> /\ Head(todo) = step

\* update_active.
UpdateActive ==
  /\ Busy("active")
  /\ IF safe
     THEN /\ active' = asked.active
          /\ todo' = <<IF active' = 1 THEN "start" ELSE "pause">> \o Tail(todo)
          /\ UNCHANGED <<asked, state>>
     ELSE /\ asked' = [asked EXCEPT !.active = 0]
          /\ state' = "dead"
          /\ todo' = Tail(todo)
          /\ UNCHANGED active
  /\ UNCHANGED <<newState, error, main, signal, queue, input, safe, place, media, thread>>

\* update_queue, between pause and update_active.
UpdateQueue ==
  /\ Busy("queue")
  /\ queue' = asked.queue
  /\ todo' = Tail(todo)
  /\ UNCHANGED <<control, main, signal, asked, active, input, safe, place, media, thread>>

\* start, pause and stop begin by looking for the worker's error.
CheckError ==
  /\ main = "busy" /\ todo # <<>> /\ Head(todo) \in {"start", "pause", "stop"}
  /\ error /\ safe
  /\ ConsumeError
  /\ UNCHANGED <<client, settings, place, media, cache, local>>

\* They do nothing when the input is not thread safe or the state is right.
NothingToChange ==
  /\ \/ Busy("start") /\ (safe /\ ~error => state = "running")
     \/ Busy("pause") /\ (safe /\ ~error => state = "paused")
     \/ Busy("stop") /\ (safe /\ ~error => state = "dead")
  /\ safe => ~error
  /\ todo' = Tail(todo)
  /\ UNCHANGED <<control, main, signal, settings, place, media, thread>>

\* start creates a thread when state_ is dead.  There may be one: a paused
\* thread whose input was replaced by one that is not thread safe, which made
\* update_active set state_ to dead, and then by one that is.
CreateThread ==
  /\ Busy("start")
  /\ safe /\ ~error
  /\ state = "dead"
  /\ \/ worker = "none" /\ worker' = "begin" /\ todo' = <<"running">> \o Tail(todo)
     \/ worker # "none" /\ worker' = "two" /\ todo' = todo
  /\ UNCHANGED <<control, main, signal, settings, place, media, cache, local>>

\* start resumes, pause pauses and stop ends the thread; pause starts the
\* thread first if there is none.
ChooseState ==
  /\ safe /\ ~error
  /\ \/ Busy("start") /\ state = "paused" /\ todo' = <<"running">> \o Tail(todo)
     \/ Busy("pause") /\ state = "running" /\ todo' = <<"paused">> \o Tail(todo)
     \/ Busy("pause") /\ state = "dead" /\ todo' = <<"start", "paused">> \o Tail(todo)
     \/ Busy("stop") /\ state # "dead" /\ todo' = <<"dead">> \o Tail(todo)
  /\ UNCHANGED <<control, main, signal, settings, place, media, thread>>

\* Mutant of ApplyState: the client changes state_ itself and does not wait.
ApplyStateAtOnce ==
  /\ \E s \in {"running", "paused", "dead"} : Busy(s) /\ newState' = s /\ state' = s
  /\ NotifyWorker
  /\ todo' = Tail(todo)
  /\ UNCHANGED <<error, main, signal, settings, place, media, cache, local>>

\* apply_new_thread_state: ask, notify, wait.
ApplyState ==
  /\ \E s \in {"running", "paused", "dead"} : Busy(s) /\ newState' = s
  /\ NotifyWorker
  /\ main' = "applying" /\ signal' = FALSE
  /\ todo' = Tail(todo)
  /\ UNCHANGED <<state, error, settings, place, media, cache, local>>

\* Mutant of ApplyAgain: the thread that quits is not joined.
ApplyWithoutJoin ==
  /\ main = "applying" /\ signal /\ WorkerFree
  /\ signal' = FALSE
  /\ IF error
     THEN ConsumeError /\ main' = "busy"
     ELSE /\ main' = IF state = newState THEN "busy" ELSE "applying"
          /\ UNCHANGED <<control, worker>>
  /\ UNCHANGED <<todo, settings, place, media, cache, local>>

\* The client waiting there has been notified.  An error ends the call of
\* apply_new_thread_state, not its caller's.
ApplyAgain ==
  /\ main = "applying" /\ signal /\ WorkerFree
  /\ signal' = FALSE
  /\ IF error
     THEN ConsumeError /\ main' = "busy"
     ELSE /\ main' = IF state = newState THEN "busy" ELSE "applying"
          /\ worker' = IF state = newState /\ state = "dead" THEN "none" ELSE worker
          /\ UNCHANGED control
  /\ UNCHANGED <<todo, settings, place, media, cache, local>>

Destroyed ==
  /\ Busy("destroyed")
  /\ main' = "destroyed" /\ todo' = <<>>
  /\ UNCHANGED <<control, signal, settings, place, media, thread>>

Return ==
  /\ main = "busy" /\ todo = <<>>
  /\ main' = "idle"
  /\ UNCHANGED <<control, todo, signal, settings, place, media, thread>>

-----------------------------------------------------------------------------
(* Which frame leaves a full cache: remove_frame_from_cache, scrub_cache.  *)

\* Frames that the new step length does not reach are dropped.
Scrub(c, p, s) == {f \in c : (f - p) % Abs(s) = 0}

Behind(s) == (queue \div 4) * Abs(s)         \* tail
Ahead(s) == (queue - 1) * Abs(s)             \* head2

Required(p, s) ==
  IF s > 0 THEN <<p, p + Ahead(s) - Behind(s)>>
           ELSE <<p - (Ahead(s) - Behind(s)), p>>
Permitted(p, s) ==
  IF s > 0 THEN <<p - Behind(s), p + Ahead(s)>>
           ELSE <<p - Ahead(s), p + Behind(s)>>

Lowest(c) == {f \in c : \A g \in c : f <= g}
Highest(c) == {f \in c : \A g \in c : f >= g}
Below(c, n) == {f \in Lowest(c) : f < n}
Above(c, n) == {f \in Highest(c) : f > n}

\* The cache is as it should be for this position and speed.
GoodFor(c, p, s) ==
  /\ Below(c, Permitted(p, s)[1]) = {} /\ Above(c, Permitted(p, s)[2]) = {}
  /\ {Required(p, s)[1], Required(p, s)[2]} \subseteq c

\* The frame to remove, if there is one: the first non-empty of four choices.
Victim(c, p, s) ==
  LET choices == << Below(c, Permitted(p, s)[1]), Above(c, Permitted(p, s)[2]),
                    Below(c, Required(p, s)[1]), Above(c, Required(p, s)[2]) >>
      chosen == {i \in 1..4 : choices[i] # {} /\ \A k \in 1..i-1 : choices[k] = {}}
  IN  UNION {choices[i] : i \in chosen}

-----------------------------------------------------------------------------
(* The worker thread: run.                                                 *)

Locked(pc) == worker = pc /\ MainFree

Begin ==
  /\ worker = "begin" /\ MainFree
  /\ local' = [position |-> position, speed |-> speed, prefetch |-> position, full |-> FALSE]
  /\ cache' = {}
  /\ due' = FALSE
  /\ worker' = "top"
  /\ UNCHANGED <<control, client, settings, place, setup, count, length>>

\* accept_new_state; then the thread quits,
AcceptDead ==
  /\ Locked("top") /\ newState = "dead"
  /\ state' = "dead"
  /\ IF state # "dead" THEN NotifyMain ELSE UNCHANGED signal
  /\ worker' = "ended" /\ local' = Fresh
  /\ UNCHANGED <<newState, error, main, todo, settings, place, media, cache>>

\* Mutant of AcceptPaused: the client is not notified.
AcceptPausedSilently ==
  /\ Locked("top") /\ newState = "paused"
  /\ state' = "paused"
  /\ cache' = {}
  /\ local' = [local EXCEPT !.full = FALSE, !.prefetch = local.position]
  /\ worker' = "waiting"
  /\ UNCHANGED <<newState, error, client, settings, place, media>>

\* or waits for another state,
AcceptPaused ==
  /\ Locked("top") /\ newState = "paused"
  /\ state' = "paused"
  /\ IF state # "paused" THEN NotifyMain ELSE UNCHANGED signal
  /\ cache' = {}
  /\ local' = [local EXCEPT !.full = FALSE, !.prefetch = local.position]
  /\ worker' = "waiting"
  /\ UNCHANGED <<newState, error, main, todo, settings, place, media>>

\* or runs, and begins with a background_sync if it is time for it.
AcceptRunning ==
  /\ Locked("top") /\ newState = "running"
  /\ state' = "running"
  /\ IF state # "running" THEN NotifyMain ELSE UNCHANGED signal
  /\ worker' = IF due THEN "sync" ELSE "look"
  /\ UNCHANGED <<newState, error, main, todo, settings, place, media, cache, local>>

\* Mutant of Fail: the client is not notified.
FailSilently ==
  /\ error' = TRUE
  /\ worker' = "ended" /\ local' = Fresh
  /\ UNCHANGED <<state, newState, client, settings, place, media, cache>>

\* An exception ends the thread.
Fail ==
  /\ error' = TRUE
  /\ NotifyMain
  /\ worker' = "ended" /\ local' = Fresh
  /\ UNCHANGED <<state, newState, main, todo, settings, place, media, cache>>

SyncDone ==
  /\ worker = "sync" /\ MainFree
  /\ length >= count
  /\ count' = length
  /\ due' = FALSE
  /\ worker' = "look"
  /\ UNCHANGED <<control, client, settings, place, setup, length, cache, local>>

Moved == local.position # position \/ local.speed # speed

\* Mutant of Linear: the position is not compared.
LinearBySpeed == speed = local.speed
Linear == speed = local.speed /\ position = local.position + speed

InMedia(p) == p \in 0..count-1

Wanting == ~local.full /\ InMedia(local.prefetch)

\* The client has moved on: unless it reads on linearly, prefetching starts at
\* its position, with the cache scrubbed or (by a property) cleared.
FollowClient ==
  /\ Locked("look") /\ Moved
  /\ IF Linear THEN cache' = cache
               ELSE cache' \in {Scrub(cache, position, speed), {}}
  /\ local' = [position |-> position, speed |-> speed, full |-> FALSE,
               prefetch |-> IF Linear THEN local.prefetch ELSE position]
  /\ worker' = "fill"
  /\ UNCHANGED <<control, client, settings, place, media>>

GoOn ==
  /\ Locked("look") /\ ~Moved /\ Wanting
  /\ worker' = "fill"
  /\ UNCHANGED <<control, client, settings, place, media, cache, local>>

\* The cache is good or the media ends: wait.
Wait ==
  /\ Locked("look") /\ ~Moved /\ ~Wanting
  /\ local.position \in cache                                    \* ARENFORCE
  /\ worker' = "waiting"
  /\ UNCHANGED <<control, client, settings, place, media, cache, local>>

\* There is room in the cache, or room is made.
Fill ==
  /\ Locked("fill")
  /\ \/ Cardinality(cache) < queue /\ cache' = cache
     \/ /\ Cardinality(cache) = queue /\ queue > 0
        /\ ~GoodFor(cache, local.position, local.speed)
        /\ Victim(cache, local.position, local.speed) # {}
        /\ cache' = cache \ Victim(cache, local.position, local.speed)
  /\ worker' = "prefetch"
  /\ UNCHANGED <<control, client, settings, place, media, local>>

Full ==
  /\ Locked("fill")
  /\ Cardinality(cache) = queue
  /\ GoodFor(cache, local.position, local.speed)
  /\ local.position \in cache                                    \* ARENFORCE
  /\ local' = [local EXCEPT !.full = TRUE]
  /\ worker' = "top"
  /\ UNCHANGED <<control, client, settings, place, media, cache>>

\* Frames already cached are passed over.
PassCached ==
  /\ Locked("prefetch")
  /\ InMedia(local.prefetch) /\ local.prefetch \in cache
  /\ local' = [local EXCEPT !.prefetch = @ + local.speed]
  /\ UNCHANGED <<control, client, settings, place, media, worker, cache>>

EndOfMedia ==
  /\ Locked("prefetch")
  /\ ~InMedia(local.prefetch)
  /\ worker' = "top"
  /\ UNCHANGED <<control, client, settings, place, media, cache, local>>

\* The mutex is released while the input is asked for the frame.
Prefetch ==
  /\ Locked("prefetch")
  /\ InMedia(local.prefetch) /\ local.prefetch \notin cache
  /\ worker' = "fetch"
  /\ UNCHANGED <<control, client, settings, place, media, cache, local>>

\* Mutant of Insert: the client is not notified.
InsertSilently ==
  /\ worker = "fetch" /\ MainFree
  /\ cache' = cache \cup {local.prefetch}
  /\ local' = [local EXCEPT !.prefetch = @ + local.speed]
  /\ worker' = "top"
  /\ UNCHANGED <<control, client, settings, place, media>>

Insert ==
  /\ worker = "fetch" /\ MainFree
  /\ cache' = cache \cup {local.prefetch}
  /\ local' = [local EXCEPT !.prefetch = @ + local.speed]
  /\ NotifyMain
  /\ worker' = "top"
  /\ UNCHANGED <<control, main, todo, settings, place, media>>

\* The ARENFORCE of run and of remove_frame_from_cache that can throw, and the
\* media that is shorter than before.
EnforceFails ==
  /\ MainFree
  /\ \/ worker = "sync" /\ length < count
     \/ worker = "look" /\ ~Moved /\ ~Wanting /\ local.position \notin cache
     \/ worker = "fill" /\ Cardinality(cache) > queue
     \/ worker = "fill" /\ Cardinality(cache) = queue /\ queue = 0
     \/ /\ worker = "fill" /\ Cardinality(cache) = queue
        /\ GoodFor(cache, local.position, local.speed)
        /\ local.position \notin cache
     \/ /\ worker = "fill" /\ Cardinality(cache) = queue
        /\ ~GoodFor(cache, local.position, local.speed)
        /\ Victim(cache, local.position, local.speed) = {}
  /\ Fail

InputFails == setup.faulty /\ worker \in {"sync", "fetch"} /\ MainFree /\ Fail

Awake ==
  /\ worker = "woken" /\ MainFree
  /\ worker' = "top"
  /\ UNCHANGED <<control, client, settings, place, media, cache, local>>

\* The timed wait of a running worker ends at sync_time_.
WaitTimesOut ==
  /\ worker = "waiting" /\ state = "running" /\ due
  /\ worker' = "woken"
  /\ UNCHANGED <<control, client, settings, place, media, cache, local>>

TimePasses ==
  /\ worker \notin {"none", "ended"}
  /\ ~due
  /\ due' = TRUE
  /\ UNCHANGED <<control, client, settings, place, setup, count, length, thread>>

-----------------------------------------------------------------------------
Client ==
  \/ \E p \in setup.targets : Seek(p, FALSE)
  \/ \E p \in setup.offsets : Seek(p, TRUE)
  \/ Rethrow \/ Sync \/ Shrink \/ FetchDirectly \/ FetchAhead
  \/ \E i \in setup.inputs : Connect(i)
  \/ \E a \in setup.actives : SetActive(a)
  \/ \E q \in setup.queues : SetQueue(q)
  \/ Destroy

Proceed ==
  \/ UpdateActive \/ UpdateQueue \/ CheckError \/ NothingToChange
  \/ CreateThread \/ ChooseState \/ ApplyState \/ ApplyAgain \/ FetchAgain
  \/ Destroyed \/ Return

Worker ==
  \/ Begin \/ AcceptDead \/ AcceptPaused \/ AcceptRunning
  \/ SyncDone \/ FollowClient \/ GoOn \/ Wait \/ Fill \/ Full
  \/ PassCached \/ EndOfMedia \/ Prefetch \/ Insert
  \/ EnforceFails \/ InputFails \/ Awake \/ WaitTimesOut

Terminated == main = "destroyed" /\ UNCHANGED vars

Next == Client \/ Proceed \/ Worker \/ Grow \/ TimePasses \/ Terminated

Spec == Init /\ [][Next]_vars

\* Both threads run, and get a mutex that is free again and again; time
\* passes.  Nobody has to call anything.
FairSpec == Spec /\ SF_vars(Proceed) /\ SF_vars(Worker) /\ WF_vars(TimePasses)

-----------------------------------------------------------------------------
(* Properties.                                                             *)

\* The type of every variable.
TypeOK ==
  /\ {state, newState} \subseteq {"dead", "running", "paused"}
  /\ main \in {"idle", "busy", "applying", "fetching", "destroyed"}
  /\ todo \in Seq({"active", "start", "pause", "stop", "running", "paused",
                   "dead", "queue", "destroyed"})
  /\ {error, signal, safe, due} \subseteq BOOLEAN
  /\ asked.active \in {0} \cup setup.actives /\ asked.queue \in {setup.queue} \cup setup.queues
  /\ active \in {0} \cup setup.actives /\ queue \in {setup.queue} \cup setup.queues
  /\ input \in {"safe"} \cup setup.inputs
  /\ {position, speed, lastPosition, frames, count} \subseteq Int
  /\ length \in setup.lengths
  /\ worker \in {"none", "begin", "top", "look", "fill", "prefetch", "sync",
                 "fetch", "waiting", "woken", "ended", "two"}
  /\ cache \subseteq 0..Longest-1
  /\ local \in [position : Int, speed : Int, prefetch : Int, full : BOOLEAN]

\* The queue has room, and the media are synced before they are played, only
\* grow, and can be read by any thread without failing.  Otherwise the worker
\* fails, and a call of pause may hang for it.
Sound ==
  /\ 0 \notin {setup.queue} \cup setup.queues /\ "unsafe" \notin setup.inputs
  /\ setup.synced /\ ~setup.mayShrink /\ ~setup.faulty

\* start never makes a second thread if all inputs are thread safe, whatever
\* fails, shrinks or is set meanwhile.
OneThread == "unsafe" \notin setup.inputs => worker # "two"

\* "The main thread may only access the connected input if state_ is set to
\* thread_dead or thread_paused" (lines 23 to 26), and it does so then: the
\* worker is not inside the input.  This lasts until there are two threads.
MainHasInputAlone ==
  /\ OneThread
  /\ worker # "two" /\ WorkerFree /\ MainFree /\ state # "running" =>
       worker \notin {"sync", "fetch"}

\* Not so: "thread_dead: The thread does not exist" (line 69), so that start
\* may make it.  An input that is not thread safe, connected while the filter
\* is paused, is enough for two threads.
NeverTwoThreads == worker # "two"

\* Both threads sleep on one condition variable that is only ever signalled
\* with notify_one.  The client never sleeps there for a frame while the only
\* worker sleeps, too, or is no more.
FetchIsAnswered ==
  worker # "two" /\ main = "fetching" /\ ~signal =>
    worker \notin {"none", "ended", "waiting"}

\* Nor does it sleep for a change of state, unless the worker runs and its own
\* sleep ends with the next background sync.
StateChangeIsAnswered ==
  Sound /\ main = "applying" /\ ~signal =>
    /\ worker \notin {"none", "ended", "two"}
    /\ worker = "waiting" => state = "running"

\* Whichever thread sleeps, the other one is there to wake it.
SleepersAreAnswered == FetchIsAnswered /\ StateChangeIsAnswered

\* The ARENFORCE statements of the worker hold: whatever the sequence of
\* seeks, the position of the client is in the cache when the worker rests,
\* the cache never overflows, and a full cache always has a frame to give up.
WorkerNeverFails == TypeOK /\ (Sound => ~error)

\* "thread_dead: The thread does not exist" (line 69), between two calls.
DeadMeansNoThread ==
  Sound /\ main \in {"idle", "destroyed"} /\ state = "dead" /\ ~error => worker = "none"

\* A client waiting in fetch gets its frame, or the worker's error.
FetchReturns == main = "fetching" ~> main # "fetching"

\* Setting a property, or destroying the filter, comes to an end.
CallsReturn ==
  (Sound /\ main \in {"busy", "applying"}) ~> main \in {"idle", "destroyed"}
=============================================================================
