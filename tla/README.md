# Verification of ardome-ml: its threads, its files in the making, its graphs

ardome-ml is a media library: inputs, filters and stores connected to a graph
that is pulled frame by frame. Most of its code turns one frame into another.
What is hard to get right is what stands around that: the threads that read and
decode ahead of the client, the caches and buffers they share, media that are
played while they are written, the graph whose nodes remember each other's
lengths, and the interpreter that builds it. This directory holds TLA+ models of
these parts, TLC configurations that check them, and TLAPS proofs that the safety
properties of the threads, caches and buffers hold for any number of jobs, frames,
bytes and workers.

Paths below are relative to `src/src/`; `cl/` is `opencorelib/cl/`, `ml/` is
`openmedialib/ml/`, and `plugins/` is `openmedialib/plugins/`.

## 1. The system

### Components

| Component | State | Operations | Correct when |
|---|---|---|---|
| thread_pool (`cl/thread_pool.cpp`) | job queue, unsigned count of idle workers, terminating flag, one condition variable | add_job, clear_jobs, wait_for_all_jobs_completed, terminate_all_threads; job_done on the workers' threads | no wake-up is lost, every accepted job ends once, a wait tells the truth, termination leaves no thread |
| worker, base_job (`cl/worker.cpp`, `cl/jobbase.cpp`) | heap of jobs, list of timed jobs, current job, flags of each job, a count of signals for who waits | add (plain, highest priority, reoccurring), cancel, clear, wait, stop; the thread's loop | one-shot jobs run at most once and none is lost, cancel is final for them, a wait leaves none behind, reoccurring jobs go on |
| lru (`cl/lru.hpp`) | map, list in order of use, size, two condition variables | append, fetch, wait, find, remove, resize, append_if_not_full, ... | map and list agree, the size is kept, the right entry goes, waiters are woken |
| lru_cache, thread_cache, thread_monitor (`cl/`) | global registers of lrus by key, of idle pools, of periodic jobs | fetch/deallocate, acquire/release, enroll/withdraw | an object handed out is not in use elsewhere |
| threader (`plugins/ardendo/filter_threader.cpp`) | three-valued thread state, requested state, cache of frames, the client's position and speed | seek, fetch, sync, connect, the active and queue properties; the worker's loop | the input has one user at a time, every wait is answered, the cache serves the client |
| distributor (`plugins/distributor/filter_distributor.cpp`) | pool, clones of the graph, schedule, lru, time of last use | fetch (threaded and direct), sync, active; jobs; the monitor | each job has a clone, nothing is decoded twice or for nobody, a release catches nobody in the middle |
| map_reduce, lazy frames (`plugins/decode/filter_map_reduce.cpp`, `frame_lazy.cpp`, `filter_lazy.cpp`) | pool, map of frames by position, window of planned frames, free decoders | fetch; jobs that decode with a borrowed decoder | planned frames arrive, the window stays bounded, decoders come back |
| io_cache ring (`plugins/avformat/io_cache.cpp`) | blocks: in an lru by offset, in a list of empty ones, with the reader, with libav | ring_open, ring_read, ring_close; the read thread | the bytes arrive in order, no block has two owners, calls return |
| awi, indexer (`ml/awi.cpp`, `ml/indexer.cpp`, with `store_avformat.cpp` and `input_avformat.cpp`) | records written and not flushed, the file, a parser's state, items by url with reference counts, a job for each | enroll, flush, close; parse, find, calculate; request, cancel, the job | what a reader makes of a growing index is true of what the store was given, is there as far as the muxer allows, and complete in the end; an item that is held is read on |
| aml stack (`plugins/ardendo/input_aml_stack.cpp`) | parameter and return stacks, words, scopes, and a dozen members that say what becomes of the next token | commands; words that run words, read files, ask the client | a line means what its structure says, whatever failed before it |
| graph base classes, sequencing filters (`ml/input.hpp`, `ml/filter.cpp`, `gensys_plugin.cpp`: clip, playlist; `plugins/ardendo/`: repeat, loop, hold, offset, step, frame_list) | slots, what each node was told of its inputs' lengths at its last sync | sync, get_frames, seek, fetch, connect | the root plays what the graph means, also while media grow |
| lock, fork, voodoo, nudger, message queue, events, observers, time code, preview store | see section 6 | | |

### How they interact

A pool creates workers and parks each one *inside the done callback* of the job
it ended, so that pool and worker share a thread of control. The distributor
acquires a pool, gives it jobs, hands frames over in an lru and is watched by
the thread monitor, a worker with reoccurring jobs. map_reduce is the other
client of a pool, the indexer one of the worker, the ring one of the lru. The
threader has a thread of its own. Filters talk to each other by calls only:
`sync`, `seek` and `fetch` go from a filter to the input in its slot
(`ml/input.hpp`); `fetch` turns an exception into an empty frame. The store
and the inputs of one media file share nothing but the two files.

### What is hard here

* condition variables: one for two parties signalled by `notify_one`
  (threader), one for several kinds of waiters (lru, pool);
* flags read before a mutex is released and acted on afterwards (worker's
  reschedule flag, distributor's clones, threader's requested state);
* waits with a time-out whose caller goes on as if they had succeeded, and
  waits without one for what may never come;
* objects that stay in a register under an old name (blocks in the lru);
* two growing files that are seen torn, each ahead of or behind the other;
* nodes that know lengths of different times;
* unsigned counters, integer division of queue sizes, clamps, positions
  counted from the end;
* an interpreter that is entered again in the middle of a token, and reset
  there;
* destructors that race with threads and periodic jobs.

`PROJECT.json` lists the hazards with their lines, the properties that watch
each one, and why the others have none.

## 2. Modules

| Module | Models | Extends / uses |
|---|---|---|
| `JobService` | abstract: what is promised of anything that runs jobs | |
| `ThreadPool` | `thread_pool` with its workers' threads | implements `JobService` |
| `ThreadPoolProofs` | theorems about `ThreadPool` | `ThreadPool`, `TLAPS` |
| `Worker` | `worker` and `base_job` | |
| `Lru` | `lru` | |
| `Threader` | `filter_threader` | |
| `Distributor` | `filter_distributor` with its lru, pool and monitor | |
| `MapReduce` | `filter_map_reduce` with its pool, and the decoders of `filter_lazy` | |
| `Ring` | the ring of `io_cache` | |
| `Index` | store, index file, parser, indexer and inputs of one media file | |
| `Aml` | the token machine of `input_aml_stack` | |
| `FrameGraph` | graphs of inputs, the filter base class and the sequencing filters | |
| `WorkerProofs`, `LruProofs`, `ThreaderProofs`, `DistributorProofs`, `MapReduceProofs`, `RingProofs`, `IndexProofs` | theorems about the module of the name | that module, `TLAPS` and its library |
| `MC...` | instances for TLC; `MCAml` also holds what lines mean | the module of the name |

Conventions. A state variable bears the name of the member it stands for, in a
comment if not by itself. An action is one critical section of the component's
mutex, or a step between two of them; a call that blocks is split where it
gives the mutex up. A job, frame or entry is its identity: no code modelled
here looks inside. A definition marked "mutant" is a plausible slip of the one
after it; every property of a passing run is violated by one of them. A
property marked "Not so" is one the repository states or suggests and the code
does not keep: TLC violates it when it is put into the cfg of its module.

### ThreadPool

`pc` follows a worker's thread: `loop` (in `worker_thread_procedure` with a job
in its heap), `running`, `finished`, `callback` (in `job_done`, before the
mutex), `waiting` and `woken` (in `cond_.wait`), `left`, `spinning`, `exited`.
`status` follows a job, `stage` follows `worker::stop` for each worker through
its parts (cancel, set the flag, join or give up). `add_job` is two actions,
`AddJob` and `Enqueue`, because the mutex is released between finding no new
worker and queueing. `waiter` and `pledge` are one client in
`wait_for_all_jobs_completed` and the jobs accepted when it called. `spinning`
is the loop of `job_done` in which neither branch is taken.

### Worker

The heap is the array `m_heap`, in any order `std::make_heap` may leave
(`MakeHeap`); `PopJob` takes its last element as the code does, and `Without`
erases the first match of `std::find`. `awaited` are the jobs `done_counter` is
connected to, `owed` the signals it still misses: a reoccurring job signals
after each run, so that `owed` may come to 0 with a job not run (`promised` are
the jobs that the caller of the wait means). A run of a job
is split at every point where another thread may look: `popped`, `running`,
`signalled` (`m_job_done` set), `checked` (the reschedule flag read),
`callback`, `leaving`. A client in `cancel_and_remove_job` or `stop` keeps
`m_wake_thread_mtx` while it waits, which is what `WakeFree` is about. Time is
the set `due`. Left out: a second `start()`, waits that pump window messages,
done callbacks of clients.

### Lru

One action per method, and three for a wait: `Enter`, `Sleep`, and one of
`Succeed`, `AppendIfNotFull`, `GiveUp`. `Expire` separates the time-out from
the return of the mutex. `used` is a history variable, the true order of use,
against which evictions are judged. Values are their keys.

### Threader

The client is one thread calling one method at a time; `todo` is what is left
of a call that has to wait for the worker. The worker's pcs `sync` and `fetch`
are inside the input with the mutex released. What the client may ask for and
what its input does (grow, shrink, fail, not be thread safe) is a record of
`Setups`, fixed at the start; `Sound` says in which of them the code keeps its
rules. `CreateThread` makes a thread whenever `state_` is dead, as the code does;
over one that still lives, `worker` becomes `two`, and what two threads on one
cache do to each other is not followed. `Victim`, `Linear`, `Permitted` and
their helpers are the cache policy, translated without change. Audio reversal is
left out.

### Distributor

`main` follows the client through `do_fetch`: looked up, decided, schedule
checked, lru checked, scheduled, enqueued are separate steps, for jobs run
between any two. `graphs` counts the clones in the vector, and may go below
zero where the code would call `back()` on an empty one. The pool is used as
`ThreadPool` promises (a queue, at most so many jobs at once), the lru as `Lru`
promises, the monitor as a reoccurring job that may be due at any time; the key
of the lru leads to a new object after `deallocate`, and a client in the middle
of a fetch keeps the old one in `mine`. Time passes only while somebody waits
or the client is away. With `Slow` a job may outlast the 5 seconds of
`clean_pool` and of the client; `late` remembers that one did. A monitor job in
the worker's heap is not withdrawn by `release_pool`: on a filter that is
gone it is `dangling`, and not followed any further. Left out: filters
that are not thread safe (they only ever fetch directly), the walk that clones
the graph, several clients of one filter, the eviction of a whole lru by the
51st user of `lru_cache`.

### MapReduce

`main` follows the client: `planning` a new window after a seek, `waiting` and
`asleep` in `wait_for_available`, `arrived`, `filling` the window up. A
job is added in the code's two steps: `Forget` drops what is left of its
position (`make_unavailable`), `Enqueue` gives the job to the pool; `filling`
ends with the first job that finds no idle worker, as the code's loop does. A
worker's job decodes image and stream, each with a decoder that `Obtain` takes from
`filters_` or makes, and `Store` puts the frame into `map` under the mutex of
its own. `clear` takes what is queued and leaves what runs, whose frames come
late. Left out: inputs that are not thread safe, and the destructor.

### Ring

The bytes of the source are numbered; a block is the number of its first byte
and its length. A block handed to libav is *not* taken out of the lru: `full`
keeps it under its old key until the lru evicts the key, and that, with
`read_key`, is how the code tells what is unread. `reader` is the read thread
or, before it starts, `ring_open`, which reads the first block itself; `client`
is libav in `ring_read`, whose wait for a block may time out and be repeated.
`MaxZeros` and `MaxFailures` bound empty reads and errors of the source. Left
out: a url that does not open.

### Index

The index file is a sequence of 16-bit words, since what a parser takes for
which record depends on their sizes. The store enrolls the place the media has
come to (`oc_->pb->pos`) and flushes, and then gives the packet to the muxer;
version 4 has a second generator in the same file. `setup.direct` says whether
the muxer writes a packet at once; if not, the packet is `Held` until
`MuxerWrites` puts it, in the order of its stream, wherever the media has come
to by then. `av_interleaved_write_frame` holds packets back for as long as
another stream has none, so that `direct` is assumed only for a single stream,
and it is an assumption about the library even there. `ShowIndex` and
`ShowMedia` move what readers see, each on its own. `Parse23` and `Parse4` are
the parsers with their states, `Find`, `KeyFrameOf`, `KeyFrameFrom`, `Calculate`
their queries. `item` is the entry of the indexer's map with its references and
its job; `jobs` says of every job where the worker has it, those of forgotten
items included. The worker is the part of `Worker` that matters here:
`JobStarts` makes a job current, `JobRuns` begins its run, `JobDecides` asks
whether it should terminate and `JobGoesOn` sets the flag to be rescheduled,
with room for a cancel between any two; `JobChecked` is what `do_work` makes of
the flag. `AfterCancel` is what `cancel_and_remove_job` does to a job it does
not wait for: it returns true for one that is current and counts as done
(`taken`, `again`, `kept`), and the job may stay. The first request makes the
item with the indexer's mutex held, and others wait: `Open` begins it,
`CreateReads` reads the file piece by piece into `made`, `CreateEnds` keeps the
item or, when it has no frames, tries the version before. An input syncs in two
steps (`Sync`, `Measure`), because the job runs between its questions. When the
lengths of packets are known, every picture is a key frame here (section 3 says
what happens otherwise). Left out: polling of media without an index, generating
one.

### Aml

`d` is the data (stacks, packs as objects of a heap, scopes of variables), `m`
the control. `m.exec` is `execution_stack_` with the callers between its entries,
so that re-entry (`EndRun` ... `NextRound`) is a step of its own. Each action
of `Dispatch` is one branch of `push` and `run`; `Took` is the token consumed,
`Outcome` adds `reset` after an error. `broken` ends a run where the code does
something undefined. `MCAml` gives well-formed lines as structures, `Text` prints
them, `Denote` evaluates them on `d` without any of `m`: a second, compositional
definition to compare the machine with.

### FrameGraph

`cache` is what each node remembers of its inputs (`src_frames_` and the like);
`Synced` and `Fetch` walk the graph and thread the cache through, since
`repeat` syncs while it fetches. `Meaning` is the reference: the sequence of
frames that a graph is, by the true lengths; a clip that plays backwards is in it
what the unit test `src/units/01_clip.aml` says, down to `out`, which the code
leaves out. `MCBackwards` has such clips, the setups of the run have none
(section 3). `Steady` are the clips that cannot get shorter while their input
grows. `SyncRoot` is the owner's sync,
`SyncPart` that of others (the worker of a threader, a clone, repeat), `Play` a
fetch, `Connect` a change of a slot, `Grow` a longer file. `Setups` lists the
graphs; their `parts` are subgraphs that grow at their end only, because
syncing others behind the owner's back moves frames already promised (section 3).

## 3. What the runs show

| Run | Expected | Question |
|---|---|---|
| `pool` | pass | lost wake-ups, truthful waits, refinement of `JobService`, liveness |
| `worker` | pass | one-shot and reoccurring jobs against cancel, clear, wait and stop |
| `threader` | pass | does the cache policy survive every sequence of seeks; is a client left alone when things fail? |
| `threader_control` | pass | start, pause, resize, destroy against the worker, with liveness |
| `lru` | pass | consistency, eviction, waiters |
| `distributor` | pass | schedule, clones, liveness, while no wait is cut short |
| `distributor_slow` | violation | does every job get a clone, when jobs are slow? |
| `map_reduce` | pass | the window of jobs against jumps, late frames and failures |
| `ring` | pass | order of bytes, owners of blocks, returning calls |
| `index` | pass | what readers of a growing file believe, whether or not the muxer holds packets back |
| `aml` | pass | token machine against the meaning of lines |
| `frame_graph` | pass | what the root plays against what the graph means |

The properties are stated in words above their definitions; several are
conjunctions of named parts, and include the type invariant. The ones that
carry most:

* `WorkConserving`: while a worker sleeps there are as many woken ones as jobs
  queued. It is the precise form of "no lost wake-up".
* `WaitIsSound`: a wait of the pool that returned true was right.
* `WaitedJobsAreDone`: after a wait of the worker that returned true no one-shot
  job it was about is still to run; that each was run is more than the code's
  count of signals can say (disagreement 8 below).
* `CancelledOneShotIsOver`: after a successful cancel the caller may free what
  the job uses.
* `MainHasInputAlone`: the rule of the comment in `filter_threader.cpp:23-26`, for
  one worker, and that there is one as long as no input that is not thread safe
  may be connected.
* `SleepersAreAnswered`: client and worker on one condition variable with
  `notify_one` never sleep side by side. With a second worker it says nothing of
  fetches: a notification may wake the wrong one.
* `WorkerNeverFails`: the enforces of the cache policy hold for any seeks.
* `NoFrameTwice`, `ScheduleIsTrue`: the distributor's schedule is exactly what
  the pool holds.
* `ClonesAreKept`: among its parts, that no job that decodes outlives the filter.
* `NoPlannedFrameLost`: a frame the client counts on is queued, in work or
  there, although jobs of an old plan finish under the new one.
* `UnreadIsKept`: the unread blocks follow each other, in an lru that also
  holds the read ones under their old keys.
* `IndexIsTrue`, `FramesAreThere` (`NeverPastMedia`, `SeekIsExact`): whatever the
  muxer does, an index cut anywhere claims no frame the store was not given, and
  sends nobody behind the key frame a frame depends on. With a muxer that writes at once
  an item is exactly where its packets are, and every frame claimed can be read.
* `FollowsToTheEnd`: who stays gets the whole media.
* `ReadWhileHeld`: an item that somebody holds has a job that goes on, however
  cancels of earlier items, successful or timed out, left their own jobs.
* `LineMeansItself`: the meaning of a line does not depend on what an earlier
  one left half done.
* `PlaysMeaning`: what the owner was promised at his sync is what he gets,
  whatever parts were synced or have grown since, in graphs without clips that
  play backwards.
* `RoomIsAnnounced`, `EvictsLeastRecentlyUsed`, `GrowsOnly`: action properties. The
  last is about graphs whose clips are `Steady`: in before out and both counted
  from the start; both from the end; in from the start and out from the end, if
  in is 0 or out at least -2.

### Disagreements found

With a run: `filter_distributor.cpp:160`: the monitor may release all clones
between `threaded()` and the job that needs one, when waiting for jobs took 5
seconds in between (`distributor_slow`).

Stated in the modules as "Not so", to be tried by hand (put the property in the
cfg of the module, with the setups named here where there are any):

1. `thread_pool.cpp:130` (`ClosedPoolHasNoThread`): terminated with a job in
   the queue, a worker that comes to `job_done` loops with the mutex held; `stop`
   times out and the destructor frees the pool under it. `EmptyPoolClosesClean`
   shows the complement: with an empty queue nothing of this can happen.
2. `worker.cpp:385` (`StartsHighestFirst`, with three jobs): the job taken is
   the last of the heap array.
3. `worker.cpp:455` (`CancelledNeverRuns`): `cancel_and_remove_job` returns
   true for a reoccurring job that runs again. In the indexer the job of a
   forgotten item then stays with the worker.
4. `filter_map_reduce.cpp:141` (`FetchReturns` of `MapReduce`): the window is topped up
   only while a worker is idle at that moment, so that the client can come to a
   frame that was never planned and wait for it for ever.
5. `io_cache.cpp:319` (`NeverReadsWhileFilled`): an error of the source,
   negative, is taken for a success; a block without bytes is queued and its key
   not advanced, and libav may be given a block that is being filled. Each error
   also takes a block out of circulation.
6. `awi.cpp:1380` (`WrittenFileParses`, with `Setups <- MCStoreAwi`): in version
   3 flush makes more room than the footer fills, and the parser looks for the
   closing id at the end of that room: it meets an error, and the job of such an
   index polls for ever.
7. `filter_threader.cpp:438` (`StateChangeIsAnswered` without its `Sound`): with
   a queue of 0 the new worker fails at once and `pause` waits for ever.
8. `worker.cpp:300` (`WaitedMeansRun`): `wait_for_all_jobs_completed` counts
   signals, and a reoccurring job gives one after each run: two of its runs make up
   for a job that was cancelled meanwhile, and the wait returns true
   ("Will block until all currently added jobs have terminated", `worker.hpp:102-109`).
9. `filter_threader.cpp:485` (`NeverTwoThreads`): "thread_dead: The thread does not
   exist" (`:69`). Paused, connected to an input that is not thread safe, set
   active, connected to one that is and set active again, the filter makes a second
   thread beside the first (`:411`). Nothing is checked of the two together.
10. `filter_distributor.cpp:213` (`MonitorIsWithdrawn`): withdrawing the monitor
   job erases it from the timed jobs only (`worker.cpp:88`): one that is in the heap,
   or waits for `mutex_`, goes on with a filter that is gone.
11. `store_avformat.cpp:1357` (`OffsetIsOfTheGop`, `ItemsAreAvailable`): with a muxer
   that holds packets back, find does not give "the file offset of the GOP"
   (`awi.cpp:1450`) but a place before it, and calculate counts frames that are not
   "fully available" (`:1551`).
12. `gensys_plugin.cpp:2053` (`PlaysMeaning`, with `Setups <- MCBackwards`): a clip with
   in=10 and out=0 has 10 frames, where `src/units/01_clip.aml:31` wants 11 ("in - out
   + 1") and the comment at `gensys_plugin.cpp:2026` calls out the last frame.
   Forwards, out is exclusive in code and test, against that comment.
13. `gensys_plugin.cpp:2112` (`NeverShorter`, with `Setups <- MCMoving`): a clip with
   in=9 and out=1 goes from 1 frame to 0 as its input grows from 1 to 2, one with
   in=-3 and out=1 as it grows from 3 to 4. `filter_threader.cpp:536` says why an
   input may shrink on a background sync, and this is not among the reasons; its
   ARENFORCE ends the worker.

Others were met while modelling and have no statement:

* a reoccurring job first runs after one interval (`worker.cpp:83`), and its
  timed job moves to the heap only when the heap is empty (`:217`);
* `stop` clears `m_thread_running` after a time-out (`worker.cpp:195`): a
  `start` would put a second thread on the same heap;
* a cancelled job object keeps `m_terminate_job` (`jobbase.cpp:41`) and ends at
  once when it is added again;
* a threader whose input is not thread safe leaves its thread behind when it is
  destroyed (`filter_threader.cpp:485`), shrinking media make its worker throw
  (`:223`), and a relative seek stores its offset as the last position (`:186`);
* a larger lru size wakes nobody (`lru.hpp:60`); `wait` does not look again
  when its time is over (`:122`); `wait_for_remove` takes a remove followed by
  an append for no change (`:195`);
* the distributor takes a frame for pending that was decoded and evicted
  (`filter_distributor.cpp:486`), and schedules nothing with a queue of 0 or 1
  (`:347`);
* the constructor of the ring ignores its `wait`, its open mode is tested with
  `&&`, and a ring that opens on an empty source is never freed;
* index: `calculate` with known lengths counts pictures that are not there when
  a group has more than one; `do_stream_write`
  enrolls positions of the stream while close counts pushes; a job that
  generates an index drops its input before it closes the index
  (`indexer.cpp:395` and below);
* aml: a command of the client that fails resets the execution stack its caller
  pops (`input_aml_stack.cpp:1083`); `paths_` keeps the directory of a file that
  failed (`:1564`, `:900`); a word without a body reads the first element of an
  empty vector (`:1265`); closing words without their opening ones are
  undefined or leave `loop_count_` below zero with an OK; variables of a word
  shadow every word; `while` inside `if` leaves a condition behind;
* graphs: a part whose growth is not at its end (a growing slot in the middle
  of a playlist, a repeat over growing media), synced by others than the root's
  owner, shifts frames already promised; repeat keeps a stale reverse over
  media that grow; hold counts its frames also when they are out of reach; loop
  and repeat divide by the length of empty media; frame_list reads past its
  end.

In components not modelled the survey noted: lazy frames that fail once
are never evaluated again (`plugins/decode/frame_lazy.cpp:52`); the message
queue dispatches the last message and removes the first
(`cl/message_queue.cpp:60`) and notifies without its mutex (`:76`); an event that
has dropped a dead callback goes on with the next one without looking whether
that is to be cleaned up, too (`cl/event_handler.hpp:154`); an observer that
detaches itself while it is told invalidates the walk
(`openpluginlib/pl/pcos/subject.cpp:82`).

### Bounds

* `pool`: 3 jobs, 2 workers. A full pool with a queue of one behind it, two
  sleepers for one notification, a sleeper beside a busy worker, termination
  with work queued. The safety properties are proved for any numbers.
* `worker`: 2 jobs, one of which ends only when told to and one reoccurring,
  each added by any of the three methods that suit it; clients may cancel,
  clear, wait and stop once each at a time. The reoccurring job runs twice within
  one wait.
* `threader`: four clients (`MCThreader`). `Cache`: 6 frames and a queue of 4,
  so that the queue has a part behind and a part ahead of more than one frame
  and the media does not fit; seeks go beyond both ends. `Faults`: queues 2 and
  0, lengths 1 and 2, failing, shrinking and unsafe inputs, with and without a
  first sync; `SafeFaults` are those without unsafe inputs, where there must be one
  thread. `threader_control`: lengths 2 and 3 (the media grows once), queue
  2 and 1, relative seeks by one.
* `lru`: 3 keys, sizes 0 to 2, two threads in waiting calls while any call may
  come from elsewhere.
* `distributor`: 5 frames, one of which cannot be decoded, a queue of 4, 2
  threads: one frame is scheduled ahead in either direction and the media does
  not fit into the lru. `distributor_slow` needs only 4 frames and a queue of 2.
* `map_reduce`: 6 frames, 2 workers, hence a window of 4; jumps to 1 and 4, and
  playing on in the direction of the last jump, to either end; frame 0 fails. It
  is the first, because a client that waits for a failed frame stays there.
* `ring`: 3 blocks of 2 bytes, 6 bytes, reads of less and of more than a block,
  2 empty reads, 1 error. Every block is filled again.
* `index`: up to 3 packets; versions 2 and 4, read for video and for audio, with
  and without known lengths, a muxer that writes at once and, with two streams, one
  that holds back; one input and two; two jobs, so that one left over meets the
  next. The index is seen cut at
  multiples of 25 words, which fall into the middle of items, too.
* `aml`: sessions of 3 lines out of 35, each also as a single command when it
  has one token: a line that leaves something open, one that fails or resets, and
  one whose meaning is then checked.
* `frame_graph`: six graphs of 4 to 8 nodes, media of up to 5 frames. Over growing
  media clips count from the start, from the end and from both (`<<1, -1>>`,
  `<<0, -3>>`, `<<1, 3>>`, `<<-3, -1>>`).

Nothing is cut off by a constraint: the state spaces are finite because
jobs are added once, files and sessions are finite, and local variables are
forgotten when a call returns. `CHECK_DEADLOCK FALSE` is set where the system
may stop (a stopped worker, a destroyed threader, a closed ring, a file read to
its end, a client at its last line, a client of map_reduce that waits for ever).
The pool, the lru, the distributor and the graph are checked for deadlock.

### Fairness

* `ThreadPool`: each worker's thread runs, a client that has begun `add_job` or
  `stop` goes on, a notified waiter looks again. Nobody has to add, clear or
  terminate. That is the operating system's scheduling, and jobs that end.
* `Worker`: the same for its thread and the callers inside a call; due timed
  jobs become due. An endless job need not end until it is told to, and the
  properties say so.
* `Threader`: *strong* fairness for the client in a call and the worker, which
  contend for one mutex: weak fairness would let one of them take it always
  when the other looks. A background sync becomes due now and then.
* `Distributor`: weak fairness for the client, each pool thread, the monitor
  once it has begun, and for the end of a wait with a time-out.
* `MapReduce`, `Ring`: weak fairness for the client in a call and for each
  thread; nobody has to fetch, read or close, and a read of the source ends.
* `Index`: what was written becomes visible, the job runs, inputs that are open
  sync again. Nobody has to write, close or open.

## 4. What is proved

Every theorem is about `Spec`, without fairness, and for every value of the
constants that satisfies the assumption of its module (`PoolAssumption`,
`WorkerAssumption`, ...). These say that sets of threads and workers are finite and
not empty where the code is given a positive number, that media have a frame,
blocks a size, that the numbers by which jobs are told apart differ: what
the constructors and their callers provide. Further conditions are named below.

| Module | Theorem | States `Spec => []...` |
|---|---|---|
| `ThreadPoolProofs` | `TypeCorrect` | `TypeOK`; the unsigned idle count stays within the number of workers |
| | `EnforcesNeverThrow` | `EnforcesHold` |
| | `NoLostWakeUp` | `WorkConserving` |
| | `WaitSound` | `WaitIsSound` |
| | `PoolImplementsService` | `Service!Spec`: every behaviour of the pool is one of the abstract job service |
| `WorkerProofs` | `BooksAreKept` | `Accounted`: no job is lost, no one-shot job runs twice |
| | `CancelledIsOver` | `CancelledOneShotIsOver` |
| | `WaitedIsDone` | `WaitedJobsAreDone`: after a wait that returned true no one-shot job it was about is left, however often reoccurring jobs have signalled |
| `LruProofs` | `MapAndListAgree` | `Consistent` |
| | `EntriesAreNotSleptOver` | `NobodySleepsOverEntry` |
| | `RoomWakes`, `LeastRecentlyUsedGoes` | the action properties `RoomIsAnnounced` and `EvictsLeastRecentlyUsed` |
| `ThreaderProofs` | `InputHasOneUser` | `MainHasInputAlone`, for every setup: nobody else is in the input as long as there is one thread, and there is one without unsafe inputs |
| | `NobodySleepsForever` | `SleepersAreAnswered` |
| | `DeadThreadIsGone` | `DeadMeansNoThread` |
| | `EnforcementsHold` | `WorkerNeverFails` |
| `DistributorProofs` | `ScheduleIsKept` | `ScheduleIsTrue`, if `~Slow` |
| | `EachFrameOnce` | `NoFrameTwice`, if `~Slow` |
| | `ClonesAreSafe` | `ClonesAreKept`, if `~Slow`; with its action property `SyncReachesEveryClone`, and that no job that decodes outlives the filter |
| `MapReduceProofs` | `TheWindowIsKept` | `WindowIsKept` |
| | `DecodersAreAccounted` | `DecodersAccounted` |
| `RingProofs` | `BytesArriveInOrder` | `BytesInOrder` |
| | `BlocksHaveOneOwner` | `OneOwner` |
| `IndexProofs` | `ItemsAreReadWhileHeld` | `ReadWhileHeld`, whatever jobs earlier cancels have left |
| | `TheIndexIsTrue` | `IndexIsTrue`, if no index has version 3; more of it where the muxer is direct |
| | `ClaimedFramesAreThere` | `FramesAreThere`, likewise |
| | `InputsNeverShrink` | `NeverShrinks`, likewise |
| | `WrittenFilesParse` | `WrittenFileParses`, likewise |

None of these properties is inductive. Each module has one inductive invariant
`Inv`, proved as the theorem `Invariant`, from which its theorems follow, and
`Index` a second one, `Truth`. TLC has also checked each of them on the instance
of its run. A lemma for each part has one step per action; the lemmas before them
say what the operators on lists and counts do.

### The pool

* `Types`;
* `IdleCounts`: `m_idle_workers` is the number of threads that are absent,
  asleep, woken or have left the wait. The enforces need it, and it is the fact
  that spurious wake-ups and a clear between notification and wake-up put at
  risk;
* `QueueInv`: what is in the queue is `queued`, each job once, and conversely;
* `WorkInv`: a thread's job is `assigned` or `running` as its pc says, and two
  threads never have the same;
* `Conserving`: `WorkConserving`, and that nobody sleeps once the pool is
  terminating. Neither is inductive alone: a termination would otherwise add
  nobody to the woken while the queue is kept;
* `WaitInv`: `WaitIsSound`, and that every pledged job was accepted.

Counting lemmas (`AtFinite`, `MoveCount`, `IdleMove`, `AwakeMove`) say what moving
one thread from one pc to another does to the counts. `Forward` says that a
job's status never goes back, which makes a pledge, once settled, stay settled.
The refinement maps each action to `Accept`, `Start`, `Finish`, `Drop` or a
stutter.

### The worker

`Places`: a one-shot job is in the heap, among the timed jobs, current, run or
given up, and in only one of these; an unused one is nowhere; no job is twice in
the heap. This needs `CurrentFits`, what is known of the current job at each
point of its run: before it has run, nobody has cancelled it. `CancelFits` says
the same of the queues. `WaitFits` is what makes a count of signals good enough
for one-shot jobs: while the client waits, the signals it is still `owed` are no
fewer than the jobs it awaits that are in the heap or about to run (`Pending`),
so that they reach 0 only when none of these is left (`PendingCounted`,
`WaitKept`). A reoccurring job that has signalled comes back by way of the timed
jobs, which enter the heap only when it is empty, and then no one-shot job is
left to wait for (`Settled`). The array lemmas hold for whatever order
`make_heap` leaves, and for `Without`, whatever it finds.

### The lru

`Entries`: the list has each key of the map once (`ListIsMap`), in the order of
last use (`ListIsRecency`, by the history variable `used`), and no more of them than the
size. `CallTypes` says who is in which call, and `NobodySleepsOverEntry` is then
inductive. For `RoomIsAnnounced` each action that makes room is shown to leave
nobody asleep who waits for it. `resize` may evict and wakes nobody, which is why the
property speaks of steps at the same size.

### The threader

`Handover` holds for every setup, also with inputs that fail, shrink or must not be
shared: the worker reads or fills only while `state_` is running, and between two
calls `new_state_` does not contradict `state_`. It says so for as long as there is
one thread, and `Single` says when there is: without inputs that are not thread
safe, `state_` is dead only when the thread is gone, or about to be started. That
gives `MainHasInputAlone`.
The rest is claimed for `Sound` setups only, those whose inputs neither fail nor
shrink, with a queue that is not 0, since section 3 shows what happens in the
others. `Control` relates what is left of the client's call to where the worker
is: whom each waits for, and that the other is awake and will notify.
`Cached` says what the cache is: frames on the grid of the client's position and
speed, no gap between the client's frame and the one to be read next, and no more
of them ahead and behind than the policy gives. The lemmas of the grid
(`GridStep`, `GridOrder`, ...) are the arithmetic behind it. Only with both can
`Victim` be shown to find a frame to give up in a full cache, and `Permitted` to
let the client's own frame in, for any queue, any length and any seek.

### The distributor

The theorems assume `~Slow`: no job outlasts the 5 seconds that `clean_pool` and
the client wait. Without it they are false, as `distributor_slow` shows. `MonitorFits`
says that the monitor and the client are never at work together, which is what
the 5 seconds buy. `ClonesFit`: a clone is in `graphs_` or out in a job, and the pool is
quiet when there are none. `JobsFit`: each job, queued or in work, is scheduled
and for a frame of its own, also while the client stands between two of its
looks at schedule, jobs and lru (`Peeking`, `Enqueueing`). `ScheduleFits`: nothing
else is scheduled, except the frame about to be queued.

### map_reduce

`Plan` ties the client's place in its loops to the window. The bound on what is
decoded ahead is the hard part: frames planned before a jump come late, into the new
window or outside of it, and the window may fall behind the client.
`SurplusIsBounded` counts jobs in hand, frames and the gap between window and
client against the frames of the window: a jump may leave a surplus of one per
thread, and no step adds to it. `DecodersCounted` counts each decoder with the step
of decoding that holds it.

### The ring

`Types` holds whatever fails; the rest, `Good`, until the first error of the
source, after which the code promises nothing but to return. `KeysFit`: from
`read_key` on, each key in the lru leads to a block with the bytes of that key, and
the end of the block is the next key. Hence different unread keys lead to
different blocks, and while the reader has a block in hand fewer than `MaxBlocks` are
unread: an lru that is full holds an older key to evict, which is why the
reader, who never looks at `read_key`, does no harm. `OwnersFit` needs this to keep
the block in hand, the empty ones, the two of libav and the unread ones apart;
`BytesFit` says that libav has all the bytes before its place.

### The indexer

`CountFits`: references are the inputs that hold the item, however many there
are. `CancelFits`: one input at most has the mutex, to make an item or to wait
in `cancel`, and only in `cancel` is there an item that nobody holds. `JobFits`
says of the item's own job that it is in a stage from which it reads again
(`Reads`), or that the index has ended; nothing is said of the jobs of forgotten
items, which may run on. None of this needs to know what is in the files, and
`ReadWhileHeld` follows for all versions.

What the index says is proved with a second invariant, `Truth`, which is about any
media, any sizes of packets and any place where a file may be cut. It goes
from the packets to the inputs:

* `StoreInv`: the items of each generator follow each other without a gap, in
  frames and in bytes (`Tiles`), each begins not behind its key frame
  (`NotBehind`: that is held, or was written later) and, if the muxer is direct,
  with it, and spans its packets (`Spans`); the one that waits begins where the
  last ends (`Waits`). A packet that the muxer writes late goes to the end of
  the media, behind every offset enrolled before, and that is all that
  `MuxerWrites` must show (`PacketsFit` has the packets in order). The file is a
  header, records of ten words and, once closed, a footer (`FileHas`); the
  records of the reader's type are its items in order, and between them stand
  those of the other generator (`RecordsFit`). The step is `Written`: what flush
  gives, put behind such a file, makes such a file;
* `SeenFits`: readers see a prefix of the file and of the media;
* `ReadersFit`: the reader of the item and the one being made have the first n
  items (`Found`), and their buffer is what stands in the file behind the last
  record they took (`BufferFits`); a reader of another version, which `create`
  tries too, has found nothing (`OtherFits`). A
  case for each state of the parser shows that it takes whole records only,
  skips those of the other generator, and ends at the footer (`Parse2Fits`,
  `Parse4Fits`);
* `InputsFit`: what an input claims is what the items that end within the media
  it has seen give (`Claims`). `NeverShrinks` needs this between the two
  questions of a sync: items and the end of the index may come in between,
  and `CalculateGrows` says that neither makes the answer smaller.

Where a packet must be in the media for a claim to be true, the theorems speak of
direct muxers only; that the packet was given to the store they say of all.
`FramesAreThere` follows with `SeekFinds`: the last item at or before a frame is
that of its key frame, for the items have no gap.

The hypothesis is that no setup has version 3 (`Parsable`): its files do not
parse, as section 3 says, and so the item stays short for ever.

### Only model-checked

* Liveness (`EverythingEnds`, `JobsRun`, `CallsReturn`, `FetchReturns`,
  `PlannedFrameArrives`, `ReadsAndCloseReturn`, `FollowsToTheEnd`): the prover has
  no rules for fairness and ENABLED.
* `ScopesMatchWords`, `LineMeansItself`, `PlaysMeaning`, `GrowsOnly`: `Aml` and
  `FrameGraph` are recursive over data (words that run words, graphs of nodes),
  and so are the definitions they are compared with; that needs induction
  over data.

## 5. Plan

Done: `ThreadPool`, `JobService`, `Worker`, `Threader`, `Lru`, `Distributor`,
`MapReduce`, `Ring`, `Index`, `Aml`, `FrameGraph`, and the proofs of section 4.

Next, most important first:

1. An abstract frame source (fetch of a position gives that position's frame)
   for `Threader` and `Distributor` to implement.
2. The lock filter: positions per thread, frame counts in step across clones.
3. Message queue, events and observers as small modules.
4. Time codes, as operators checked against reference definitions.

## 6. Not modelled

Planned: the lock, fork, voodoo and nudger filters, the message queue, events
and observers, time codes, the preview store.

Left open in what is modelled: two threads of one threader together, a monitor
job on a distributor that is gone, how much the muxer holds back
and why (only that it may), and pools or lrus shared by several filters.

Not planned. Position filters that combine frames of several inputs or change
the frame handed out: their positions are those of the modelled ones. Codecs,
devices and file formats (avformat, decklink, quicktime, sdl, openal, ...): the
behaviour is that of the libraries they wrap. Image and audio processing:
arithmetic on one frame. Plugin discovery, logging, assertions, XML and strings:
no behaviour over time. The memory pool is compiled in only with a macro no
build file sets. Python bindings, tools and the build system.
`PROJECT.json` has the list with files and reasons.

## 7. Running

    tlc -workers 2 -config pool.cfg MCThreadPool.tla
    tlapm ThreadPoolProofs.tla

The longest runs (`map_reduce`, `index`, `threader_control`, `worker`) take one to
two minutes. So do the proofs; those about `Threader` and `Distributor` take up to
six, those about `Index` ten.
