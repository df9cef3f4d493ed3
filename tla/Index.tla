------------------------------- MODULE Index -------------------------------
(***************************************************************************)
(* A media file that is still being written, its index (awi) and those who *)
(* play it meanwhile (ml/awi.cpp, ml/indexer.cpp, and how store_avformat   *)
(* and input_avformat use them).                                           *)
(*                                                                         *)
(* The store enrolls every key frame in a generator and appends what this  *)
(* has not flushed yet to the index file; version 4 has a second generator *)
(* for audio in the same file.  It enrolls the place the media has come to *)
(* and then hands the packet to the muxer, which may hold it back: always  *)
(* for a while when there are two streams to interleave, and when it does  *)
(* not flush every packet.  Media and index are two files: readers see any *)
(* prefix of each, cut anywhere.  The indexer gives all inputs of an index *)
(* one item, which a job on its worker reads on until it meets the footer; *)
(* an input takes its length from item and size of the media.              *)
(*                                                                         *)
(* The index file is a sequence of words of 16 bits, since the sizes of    *)
(* the records and what the parser takes for which record matter.  Sizes   *)
(* of media count in any unit.                                             *)
(*                                                                         *)
(* A definition marked as a mutant is what a plausible slip would make of  *)
(* the one after it; the properties tell the two apart.                    *)
(***************************************************************************)
EXTENDS Integers, Sequences, FiniteSets

CONSTANTS
  Inputs,      \* the inputs that share the index
  Jobs,        \* as many jobs as the worker may have at once
  Setups,      \* what is written and for which stream it is read, with
               \* the bounds on its packets
  Sizes,       \* the sizes of packets
  AudioEvery,  \* every how many packets audio is enrolled (8)
  Torn         \* readers see multiples of Torn words of the index, or all

ASSUME IndexAssumption ==
  /\ Sizes \subseteq Nat \ {0}
  /\ AudioEvery \in Nat \ {0} /\ Torn \in Nat \ {0}
  /\ Setups \subseteq [version : 2..4, type : 1..2, known : BOOLEAN, direct : BOOLEAN,
                      video : Nat, audio : Nat, inputs : SUBSET Inputs]
  /\ \A s \in Setups : /\ s.known => s.direct
                       /\ s.direct => s.video = 0 \/ s.audio = 0

VARIABLES
  setup,    \* the member of Setups: fixed
  packets,  \* what the store has given to the muxer, by type
  media,    \* the size of what this has written (oc_->pb->pos)
  video,    \* the generator of the video, or of the only stream
  audio,    \* the generator of the audio (version 4)
  file,     \* the words of the index file
  closed,   \* the store has been closed
  seen,     \* how much of either file can be read
  item,     \* the entry of the indexer's map, or NoItem
  made,     \* the reader that an input creates, or NoReader
  jobs,     \* where the worker has every job, that of the item and others
  input     \* what every input has made of it

written == <<setup, packets, media, video, audio, file, closed>>
vars == <<written, seen, item, made, jobs, input>>

NoItem == [refs |-> -1]
NoReader == [version |-> 0]
Video == 1     \* AWI_V4_TYPE_VIDEO
Audio == 2     \* AWI_V4_TYPE_AUDIO_FIRST
Held == -1     \* where a packet is that the muxer holds back
Footer == 65535
AW == 16727    \* the letters AW, and I with the version
I(version) == 18688 + 48 + version
Zeros(n) == [i \in 1..n |-> 0]

Largest(S) == CHOOSE x \in S : \A y \in S : y <= x

-----------------------------------------------------------------------------
(* The generators. *)

Generator ==
  [state |-> "header", items |-> <<>>, flushed |-> 0, position |-> -1,
   offset |-> -1, known |-> FALSE, finished |-> FALSE]

\* The key frame at position starts at offset; length is 0 when the store
\* does not know it, and the item waits for the next call.
Enroll(g, position, offset, length) ==
  IF \/ g.state = "error" \/ position <= g.position \/ offset < g.offset
     \/ (g.position # -1 /\ g.known /\ length <= 0)
  THEN [g EXCEPT !.state = "error"]
  ELSE IF g.position = -1 /\ length = 0
       THEN [g EXCEPT !.position = position, !.offset = offset]
  ELSE IF offset = g.offset THEN g
  ELSE [g EXCEPT !.position = position, !.offset = offset, !.known = length > 0,
          !.items = Append(@,
            [frames |-> position - g.position,
             frame  |-> IF length > 0 THEN position ELSE g.position,
             offset |-> IF length > 0 THEN offset ELSE g.offset,
             length |-> IF length > 0 THEN length ELSE offset - g.offset])]

CloseGenerator(g, position, offset) ==
  LET h == IF g.known THEN g ELSE Enroll(g, position, offset, 0)
  IN  IF g.state = "error" \/ position <= g.position \/ offset < g.offset
      THEN [g EXCEPT !.state = "error"]
      ELSE [h EXCEPT !.finished = h.state # "error"]

\* The records as they are written, and the room flush makes for them.
HeaderWords(v) == IF v = 4 THEN <<0, AW, I(v)>> \o Zeros(7)
                           ELSE <<AW, I(v), 0, 0>>
ItemWords(v, type, i) ==
  <<IF v = 4 THEN type ELSE 0, i.frames, 0, i.frame, 0, 0, 0, i.offset, 0, i.length>>
FooterWords(v) ==
  CASE v = 2 -> <<Footer, Footer, Footer, Footer, 0, 0, AW, I(v)>>
    [] v = 3 -> <<Footer, 0, 0, AW, I(v)>>
    [] v = 4 -> <<Footer, 0, 0, AW, I(v)>> \o Zeros(5)
HeaderSize(v) == CASE v = 2 -> 4 [] v = 3 -> 32 [] v = 4 -> 10
FooterSize(v) == IF v = 2 THEN 8 ELSE 10
ItemSize == 10

\* What flush gives: the pending records, without header and footer when
\* the generator only adds to the file of another.
Pending(g, v, type, complete) ==
  LET records == [w \in 1..ItemSize * (Len(g.items) - g.flushed) |->
                    ItemWords(v, type, g.items[g.flushed + 1 + ((w - 1) \div ItemSize)])
                             [1 + ((w - 1) % ItemSize)]]
      head == g.state = "header" /\ complete
      foot == g.finished /\ complete
      words == (IF head THEN HeaderWords(v) ELSE <<>>) \o records
               \o (IF foot THEN FooterWords(v) ELSE <<>>)
      room == (IF head THEN HeaderSize(v) ELSE 0) + Len(records)
              + (IF foot THEN FooterSize(v) ELSE 0)
  IN  IF g.state \in {"footer", "error"} THEN <<>>
      ELSE words \o Zeros(room - Len(words))

Flushed(g) ==
  IF g.state \in {"footer", "error"} THEN g
  ELSE [g EXCEPT !.flushed = Len(g.items),
                 !.state = IF g.finished THEN "footer" ELSE "item"]

\* A mutant: the video goes first.
VideoFirst(v, a) ==
  /\ file' = file \o Pending(v, setup.version, Video, TRUE)
                  \o Pending(a, setup.version, Audio, FALSE)
  /\ video' = Flushed(v) /\ audio' = Flushed(a)

WriteIndex(v, a) ==
  /\ file' = file \o (IF setup.version = 4
                      THEN Pending(a, setup.version, Audio, FALSE) ELSE <<>>)
                  \o Pending(v, setup.version, Video, TRUE)
  /\ video' = Flushed(v) /\ audio' = Flushed(a)

-----------------------------------------------------------------------------
(* The store.  What it is given starts with a key frame.                   *)

\* The packet goes to the muxer: if that is direct, into the media.
Write(type, key, size) ==
  /\ packets' = [packets EXCEPT ![type] = Append(@,
                   [key |-> key,
                    at  |-> IF setup.direct THEN media ELSE Held,
                    end |-> IF setup.direct THEN media + size ELSE Held])]
  /\ media' = IF setup.direct THEN media + size ELSE media
  /\ UNCHANGED <<setup, closed, seen, item, made, jobs, input>>

\* A key frame is not enrolled where the last one was (ts_last_offset_, the
\* offset of the generator), unless that is 0.
WriteVideo(key, size) ==
  LET position == Len(packets[Video])
  IN  /\ ~closed /\ position < setup.video
      /\ key \/ (position > 0 /\ ~setup.known)
      /\ Write(Video, key, size)
      /\ IF key /\ (media # video.offset \/ video.offset = 0)
         THEN WriteIndex(Enroll(video, position, media,
                                IF setup.known THEN size ELSE 0), audio)
         ELSE UNCHANGED <<video, audio, file>>

WriteAudio(size) ==
  LET number == Len(packets[Audio])
      key == number % AudioEvery = 0
  IN  /\ ~closed /\ setup.version = 4 /\ number < setup.audio
      /\ Write(Audio, key, size)
      /\ IF key THEN WriteIndex(video, Enroll(audio, number, media, 0))
                ELSE UNCHANGED <<video, audio, file>>

\* The muxer writes the packets of a stream in their order.  It holds them back
\* until every stream has one, and maybe longer; here, as long as it likes.
MuxerWrites(type, size) ==
  \E k \in DOMAIN packets[type] :
    /\ packets[type][k].at = Held
    /\ \A j \in 1..k - 1 : packets[type][j].at # Held
    /\ packets' = [packets EXCEPT ![type][k] =
                     [key |-> @.key, at |-> media, end |-> media + size]]
    /\ media' = media + size
    /\ UNCHANGED <<setup, video, audio, file, closed, seen, item, made, jobs, input>>

\* The trailer, before which the muxer writes all it has, and the last items.
CloseStore ==
  /\ ~closed /\ closed' = TRUE
  /\ \A type \in {Video, Audio} :
       \A k \in DOMAIN packets[type] : packets[type][k].at # Held
  /\ WriteIndex(CloseGenerator(video, Len(packets[Video]), media),
                CloseGenerator(audio, Len(packets[Audio]), media))
  /\ UNCHANGED <<setup, packets, media, seen, item, made, jobs, input>>

\* What the file system shows to the readers.
ShowIndex ==
  \E n \in seen.index + 1..Len(file) :
    /\ n % Torn = 0 \/ n = Len(file)
    /\ seen' = [seen EXCEPT !.index = n]
    /\ UNCHANGED <<written, item, made, jobs, input>>

ShowMedia ==
  \E n \in seen.media + 1..media :
    /\ seen' = [seen EXCEPT !.media = n]
    /\ UNCHANGED <<written, item, made, jobs, input>>

-----------------------------------------------------------------------------
(* The reader: a parser and what it has found. *)

Reader(v) ==
  [version |-> v, state |-> "header", position |-> 0, buffer |-> <<>>,
   items |-> <<>>, offsets |-> <<>>, frames |-> 0, eof |-> FALSE]

\* A map with a new or another value for a key, and one that keeps what it has.
Assigned(map, key, value) ==
  [k \in DOMAIN map \cup {key} |-> IF k = key THEN value ELSE map[k]]
Inserted(map, key, value) ==
  IF key \in DOMAIN map THEN map ELSE Assigned(map, key, value)

Set(r, i) ==
  IF i.length = 0 THEN r
  ELSE [r EXCEPT
         !.frames = IF i.frame \in DOMAIN r.items THEN @ ELSE @ + i.frames,
         !.items = Assigned(@, i.frame, i),
         !.offsets = Inserted(@, i.offset, i)]

IsItem(r) ==
  r.buffer # <<>> /\ IF r.version = 3 THEN r.buffer[1] \in 0..3 ELSE r.buffer[1] = 0

Take(r, n) == [r EXCEPT !.buffer = SubSeq(@, n + 1, Len(@))]
To(r, n, ok, state) == [Take(r, n) EXCEPT !.state = IF ok THEN state ELSE "error"]

ParsedItem(r) ==
  LET b == r.buffer
  IN  Set(Take(r, ItemSize),
          [frames |-> b[2], frame |-> b[4], offset |-> b[8], length |-> b[10]])
ParsedFooter(r, n, ok) == [To(r, n, ok, "footer") EXCEPT !.eof = @ \/ ok]

\* One round of the loop of parse, or r when it would wait for more.
Parse23(r) ==
  LET b == r.buffer   v == r.version
  IN  CASE r.state = "header" /\ Len(b) >= HeaderSize(v) ->
             To(r, HeaderSize(v), b[1] = AW /\ b[2] = I(v), "item")
        [] r.state = "item" /\ Len(b) >= ItemSize /\ IsItem(r) -> ParsedItem(r)
        [] r.state = "item" /\ Len(b) = FooterSize(v) /\ ~IsItem(r) ->
             ParsedFooter(r, FooterSize(v), b[Len(b) - 1] = AW /\ b[Len(b)] = I(v))
        [] OTHER -> r

\* A mutant: whatever is neither header nor footer is an item.
Parse4AnyType(r) ==
  LET b == r.buffer
  IN  IF Len(b) < ItemSize THEN r
      ELSE CASE r.state = "header" -> To(r, ItemSize, b[2] = AW, "item")
             [] r.state = "item" -> IF b[1] = Footer
                                    THEN ParsedFooter(r, ItemSize, b[4] = AW)
                                    ELSE ParsedItem(r)
             [] OTHER -> r

Parse4(r) ==
  LET b == r.buffer
  IN  IF Len(b) < ItemSize THEN r
      ELSE CASE r.state = "header" ->
                  IF b[1] = 0 THEN To(r, ItemSize, b[2] = AW /\ b[3] >= I(4), "item")
                              ELSE [r EXCEPT !.state = "error"]
             [] r.state = "item" ->
                  IF b[1] = Footer
                  THEN ParsedFooter(r, ItemSize, b[4] = AW /\ b[5] >= I(4))
                  ELSE IF b[1] = setup.type THEN ParsedItem(r) ELSE Take(r, ItemSize)
             [] OTHER -> r

Parse(r) == IF r.version = 4 THEN Parse4(r) ELSE Parse23(r)

\* avio_read from the position on, and append.
Fill(r) ==
  [r EXCEPT !.position = seen.index,
            !.buffer = @ \o SubSeq(file, r.position + 1, seen.index)]

\* There is more to read, and what was read before is parsed.
Readable(r) ==
  ~r.eof /\ Parse(r) = r /\ r.state # "error" /\ r.position < seen.index

-----------------------------------------------------------------------------
(* Queries. *)

\* A mutant: the entry at x itself does not count.
StrictlyBefore(map, x) ==
  LET low == {k \in DOMAIN map : k < x}
  IN  IF low # {} THEN map[Largest(low)]
      ELSE map[CHOOSE k \in DOMAIN map : \A l \in DOMAIN map : k <= l]

\* Of a non-empty map, the last entry that is not after x, or the first.
Before(map, x) ==
  LET low == {k \in DOMAIN map : k <= x}
  IN  IF low # {} THEN map[Largest(low)]
      ELSE map[CHOOSE k \in DOMAIN map : \A l \in DOMAIN map : k <= l]

Find(r, position) == IF DOMAIN r.items = {} THEN -1 ELSE Before(r.items, position).offset
KeyFrameOf(r, position) == IF DOMAIN r.items = {} THEN -1 ELSE Before(r.items, position).frame
KeyFrameFrom(r, offset) == IF DOMAIN r.offsets = {} THEN -1 ELSE Before(r.offsets, offset).frame

Bytes(r) == LET last == r.items[Largest(DOMAIN r.items)] IN last.offset + last.length

\* Mutant: an item that is not fully there makes all the others void.
CalculateOrNothing(r, size) ==
  LET low == {o \in DOMAIN r.offsets : o < size}
      last == r.offsets[Largest(low)]
  IN  IF r.eof /\ size >= Bytes(r) THEN r.frames
      ELSE IF low = {} \/ Largest(low) + last.length > size THEN 0
      ELSE last.frame + last.frames

\* The frames that size bytes of media hold.
Calculate(r, size) ==
  LET low == {o \in DOMAIN r.offsets : o < size}
      prev == Largest(low)
      whole == IF prev + r.offsets[prev].length > size THEN low \ {prev} ELSE low
      last == r.offsets[Largest(whole)]
  IN  IF r.eof /\ size >= Bytes(r) THEN r.frames
      ELSE IF low = {} \/ whole = {} THEN 0
      ELSE last.frame + last.frames

-----------------------------------------------------------------------------
(* The indexer.  Its mutex is held by an input that creates an item or     *)
(* waits in cancel.                                                        *)

Free == \A u \in Inputs : input[u].at \notin {"creating", "cancelling"}

Opened == [at |-> "measuring", frames |-> 0, size |-> seen.media]
Closed == [at |-> "closed", frames |-> 0, size |-> 0]

\* request: one more reference, or a new item.
Open(u) ==
  /\ Free /\ input[u].at = "closed" /\ u \in setup.inputs
  /\ IF item # NoItem
     THEN /\ item' = [item EXCEPT !.refs = @ + 1]
          /\ input' = [input EXCEPT ![u] = Opened]
          /\ UNCHANGED made
     ELSE /\ made' = Reader(4)
          /\ input' = [input EXCEPT ![u] = [Closed EXCEPT !.at = "creating"]]
          /\ UNCHANGED item
  /\ UNCHANGED <<written, seen, jobs>>

\* create has a reader of each version, the newest first, read all there is;
CreateReads(u) ==
  /\ input[u].at = "creating"
  /\ \/ Readable(made) /\ made' = Fill(made)
     \/ Parse(made) # made /\ made' = Parse(made)
  /\ UNCHANGED <<written, seen, item, jobs, input>>

\* the first to find frames is taken, and its job added unless it is at the end.
CreateEnds(u) ==
  /\ input[u].at = "creating" /\ Parse(made) = made /\ ~Readable(made)
  /\ IF made.frames # 0
     THEN \E j \in Jobs :
            /\ jobs[j] = "none"
            /\ item' = [refs |-> 1, reader |-> made, job |-> j]
            /\ jobs' = [jobs EXCEPT ![j] = IF made.eof THEN "none" ELSE "new"]
            /\ input' = [input EXCEPT ![u] = Opened]
            /\ made' = NoReader
     ELSE /\ made' = IF made.version > 2 THEN Reader(made.version - 1) ELSE NoReader
          /\ input' = IF made.version > 2 THEN input
                                          ELSE [input EXCEPT ![u] = Closed]
          /\ UNCHANGED <<item, jobs>>
  /\ UNCHANGED <<written, seen>>

Removed(u) == item' = NoItem /\ input' = [input EXCEPT ![u] = Closed]

\* The worker has the job as its current one (m_current_job) and finds that it
\* is not done (m_job_done): it waits.
Awaited(j) == jobs[j] \in {"running", "going"}

\* What cancel_and_remove_job makes of a job that it does not wait for: one
\* that is not current is taken out; to the current one it says not to come
\* again, and that is done when it has been run before, whatever it does next.
AfterCancel(stage) ==
  CASE stage \in {"new", "waiting"} -> "none"
    [] stage = "again" -> "over"
    [] OTHER -> stage

\* The last one that cancels forgets the item, and has an unfinished job
\* cancelled before.
Cancel(u) ==
  /\ Free /\ input[u].at \in {"open", "shrunk"}
  /\ IF item.refs > 1
     THEN /\ item' = [item EXCEPT !.refs = @ - 1]
          /\ input' = [input EXCEPT ![u] = Closed]
          /\ UNCHANGED jobs
     ELSE IF ~item.reader.eof /\ Awaited(item.job)
     THEN /\ item' = [item EXCEPT !.refs = 0]
          /\ input' = [input EXCEPT ![u].at = "cancelling"]
          /\ UNCHANGED jobs
     ELSE /\ Removed(u)
          /\ jobs' = IF item.reader.eof THEN jobs
                     ELSE [jobs EXCEPT ![item.job] = AfterCancel(@)]
  /\ UNCHANGED <<written, seen, made>>

\* The wait ends with the run of the job, which may have found in between that
\* it is to come again.
Cancelled(u) ==
  /\ input[u].at = "cancelling" /\ ~Awaited(item.job)
  /\ Removed(u)
  /\ UNCHANGED <<written, seen, made, jobs>>

\* After five seconds it gives up, and forgets the item all the same.
CancelTimesOut(u) ==
  /\ input[u].at = "cancelling" /\ Awaited(item.job)
  /\ Removed(u)
  /\ UNCHANGED <<written, seen, made, jobs>>

-----------------------------------------------------------------------------
(* The jobs on the one thread of the worker.  A job is                     *)
(*   none      not with the worker                                         *)
(*   new       with the timed jobs or in the heap, not yet run; waiting    *)
(*             when it was                                                 *)
(*   taken     current, but its last run is still what counts as done      *)
(*   running   in job_request                                              *)
(*   going     there, and has read that it should not terminate            *)
(*   again     done, and to be kept; over, not to be kept                  *)
(*   kept      found to be kept and still current                          *)
(* The items of some jobs are forgotten already.                           *)

Current == {"taken", "running", "going", "again", "over", "kept"}
Idle == \A j \in Jobs : jobs[j] \notin Current

\* cancel_and_remove_job waits with the mutex of the worker.
WakeFree == \A u \in Inputs : input[u].at # "cancelling"

OfItem(j) == item # NoItem /\ item.job = j
Becomes(j, stage) == jobs' = [jobs EXCEPT ![j] = stage]
Unchanged == UNCHANGED <<written, seen, made, input>>

\* do_work takes the job from the heap.  Its first run begins at once here: a
\* cancel waits for that from now on.
JobStarts(j) ==
  /\ jobs[j] \in {"new", "waiting"} /\ Idle /\ WakeFree
  /\ Becomes(j, IF jobs[j] = "new" THEN "running" ELSE "taken")
  /\ UNCHANGED item /\ Unchanged

\* do_work_bootstrapper: it is not done any more.
JobRuns(j) ==
  jobs[j] = "taken" /\ Becomes(j, "running") /\ UNCHANGED item /\ Unchanged

JobReads(j) ==
  /\ jobs[j] = "running" /\ OfItem(j) /\ Readable(item.reader)
  /\ item' = [item EXCEPT !.reader = Fill(@)]
  /\ UNCHANGED jobs /\ Unchanged

JobParses(j) ==
  /\ jobs[j] = "running" /\ OfItem(j) /\ Parse(item.reader) # item.reader
  /\ item' = [item EXCEPT !.reader = Parse(@)]
  /\ UNCHANGED jobs /\ Unchanged

HasRead(j) == OfItem(j) => Parse(item.reader) = item.reader /\ ~Readable(item.reader)

\* A mutant: the job is not scheduled again when nothing new was read.
JobGivesUp(j) ==
  /\ jobs[j] = "running" /\ HasRead(j)
  /\ Becomes(j, IF OfItem(j) /\ item.refs > 0 /\ ~item.reader.eof
                   /\ item.reader.buffer # <<>>
                THEN "going" ELSE "over")
  /\ UNCHANGED item /\ Unchanged

\* get_should_terminate_job and finished: a cancel has said so, or the end was
\* read.  If not ...
JobDecides(j) ==
  /\ jobs[j] = "running" /\ HasRead(j)
  /\ Becomes(j, IF OfItem(j) /\ item.refs > 0 /\ ~item.reader.eof
                THEN "going" ELSE "over")
  /\ UNCHANGED item /\ Unchanged

\* ... set_should_reschedule(true), whatever a cancel has said since; the job is
\* done.
JobGoesOn(j) ==
  jobs[j] = "going" /\ Becomes(j, "again") /\ UNCHANGED item /\ Unchanged

\* do_work looks whether to keep the job among the timed ones,
JobChecked(j) ==
  /\ jobs[j] \in {"again", "over"} /\ WakeFree
  /\ Becomes(j, IF jobs[j] = "again" THEN "kept" ELSE "none")
  /\ UNCHANGED item /\ Unchanged

\* and takes another job, or none.
JobWaits(j) ==
  jobs[j] = "kept" /\ WakeFree /\ Becomes(j, "waiting") /\ UNCHANGED item /\ Unchanged

-----------------------------------------------------------------------------
(* The inputs.                                                             *)

\* sync_with_index: more in the index than it knows of, so ask for the size ...
Sync(u) ==
  /\ input[u].at = "open" /\ item.reader.frames > input[u].frames
  /\ input' = [input EXCEPT ![u].at = "measuring", ![u].size = seen.media]
  /\ UNCHANGED <<written, seen, item, made, jobs>>

\* ... and have the index say what that makes; size_media does the same.
Measure(u) ==
  LET frames == Calculate(item.reader, input[u].size)
  IN  /\ input[u].at = "measuring"
      /\ input' = [input EXCEPT ![u] =
           IF frames >= @.frames THEN [@ EXCEPT !.at = "open", !.frames = frames]
                                 ELSE [@ EXCEPT !.at = "shrunk"]]
      /\ UNCHANGED <<written, seen, item, made, jobs>>

Init ==
  /\ setup \in Setups
  /\ packets = [t \in {Video, Audio} |-> <<>>] /\ media = 0
  /\ file = <<>> /\ closed = FALSE
  /\ video = Generator /\ audio = Generator
  /\ seen = [index |-> 0, media |-> 0]
  /\ item = NoItem /\ made = NoReader
  /\ jobs = [j \in Jobs |-> "none"]
  /\ input = [u \in Inputs |-> Closed]

Job(j) == JobStarts(j) \/ JobRuns(j) \/ JobReads(j) \/ JobParses(j) \/ JobDecides(j)
          \/ JobGoesOn(j) \/ JobChecked(j) \/ JobWaits(j)
Work == \E j \in Jobs : Job(j)

Next ==
  \/ \E key \in BOOLEAN, size \in Sizes : WriteVideo(key, size)
  \/ \E size \in Sizes : WriteAudio(size)
  \/ \E type \in {Video, Audio}, size \in Sizes : MuxerWrites(type, size)
  \/ CloseStore \/ ShowIndex \/ ShowMedia
  \/ \E u \in Inputs : Open(u) \/ CreateReads(u) \/ CreateEnds(u) \/ Cancel(u)
                       \/ Cancelled(u) \/ CancelTimesOut(u) \/ Sync(u) \/ Measure(u)
  \/ Work

Spec == Init /\ [][Next]_vars

\* The files show what was written in the end, the worker runs, and an input
\* that is open is synced again and again.
FairSpec ==
  /\ Spec
  /\ WF_vars(ShowIndex) /\ WF_vars(ShowMedia)
  /\ WF_vars(Work)
  /\ \A u \in Inputs : WF_vars(Sync(u)) /\ WF_vars(Measure(u)) /\ WF_vars(Cancelled(u))

-----------------------------------------------------------------------------
(* Properties.                                                             *)

\* The type of every variable.
TypeOK ==
  /\ setup \in Setups /\ closed \in BOOLEAN
  /\ seen.index \in 0..Len(file) /\ seen.media \in 0..media
  /\ \A j \in Jobs : jobs[j] \in Current \cup {"none", "new", "waiting"}
  /\ video.state \in {"header", "item", "footer"}
  /\ video.flushed \in 0..Len(video.items) /\ audio.flushed \in 0..Len(audio.items)
  /\ item = NoItem \/ item.reader.state \in {"header", "item", "footer", "error"}
  /\ made = NoReader \/ made.state \in {"header", "item", "footer", "error"}
  /\ \A u \in Inputs : input[u].at \in
       {"closed", "creating", "measuring", "open", "shrunk", "cancelling"}

\* The stream the reader is about, and its packets.
Type == IF setup.version = 4 THEN setup.type ELSE Video
Indexed == packets[Type]

\* An item the reader has is true of the packets: the first is a key frame,
\* it counts no more than the store was given, and its offset is not behind
\* the first, so that whoever reads on from there meets it.  When the muxer
\* is direct, the item starts with that packet, and what it spans holds all
\* the packets it counts.  (The parser meets records cut anywhere, those of
\* the other generator in between, and versions it was not made for.)
IndexIsTrue ==
  /\ TypeOK
  /\ item # NoItem =>
       \A f \in DOMAIN item.reader.items :
         LET i == item.reader.items[f]
             first == Indexed[f + 1]
         IN  /\ f + i.frames <= Len(Indexed) /\ first.key
             /\ first.at = Held \/ i.offset <= first.at
             /\ setup.direct =>
                  /\ i.offset = first.at
                  /\ \A k \in f + 1..f + i.frames :
                       Indexed[k].at >= i.offset /\ Indexed[k].end <= i.offset + i.length

\* A frame that lies in the media an input can read.
Shown(k) == Indexed[k].at # Held /\ Indexed[k].end <= seen.media

\* An input never claims a frame that the store was not given, nor, when the
\* muxer is direct, one that is not wholly in the media it can read, however
\* far the index is ahead (calculate).  In any case, all the frames of a media
\* that is closed are there when it claims them all.
NeverPastMedia ==
  \A u \in Inputs :
    \A k \in 1..input[u].frames :
      /\ k <= Len(Indexed)
      /\ setup.direct \/ (closed /\ input[u].frames = Len(Indexed)) => Shown(k)

\* The key frame that frame p depends on.
KeyFrame(p) == Largest({j \in 1..p + 1 : Indexed[j].key})

\* Whatever frame an input claims, the index does not send it behind the key
\* frame that the frame depends on (find, key_frame_of).  When the muxer is
\* direct, it sends it there exactly, and knows the key frame again by its
\* offset (key_frame_from).
SeekIsExact ==
  \A u \in Inputs :
    item # NoItem /\ input[u].at = "open" =>
      \A p \in 0..input[u].frames - 1 :
        LET k == KeyFrame(p)
            offset == Find(item.reader, p)
        IN  /\ KeyFrameOf(item.reader, p) <= k - 1
            /\ Indexed[k].at = Held \/ offset <= Indexed[k].at
            /\ setup.direct =>
                 /\ offset = Indexed[k].at
                 /\ KeyFrameOf(item.reader, p) = k - 1
                 /\ KeyFrameFrom(item.reader, offset) = k - 1

\* Every frame an input has can be found, and read as far as the muxer lets it.
FramesAreThere == NeverPastMedia /\ SeekIsExact

\* "Media shrunk on sync!" is never enforced: between the question whether
\* there is more and the answer how much, the job sets items and the end of
\* the index under an input.
NeverShrinks == \A u \in Inputs : input[u].at # "shrunk"

\* The indexer has an item exactly as long as somebody holds it or waits in
\* cancel, and an unfinished item somebody holds has a job that is not about to
\* leave the worker, whatever jobs of forgotten items are still there.
ReadWhileHeld ==
  LET holders == {u \in Inputs : input[u].at \in {"measuring", "open", "shrunk"}}
  IN  /\ IF item = NoItem THEN holders = {} ELSE item.refs = Cardinality(holders)
      /\ holders # {} => jobs[item.job] \notin {"none", "over"} \/ item.reader.eof
      /\ item # NoItem /\ holders = {} => ~WakeFree

\* Once the store is closed, every input that stays open comes to know all
\* frames.
FollowsToTheEnd ==
  \A u \in Inputs :
    (closed /\ input[u].at = "open")
      ~> (input[u].at # "open" \/ input[u].frames = Len(Indexed))

\* Not so in version 3: "the parser is designed to convert a written file to
\* a usable index object" (awi.cpp:954): it meets no error in what the
\* generator of its own version wrote.
WrittenFileParses == item # NoItem => item.reader.state # "error"

\* Not so when the muxer holds packets back: find gives "the file offset of
\* the GOP associated to the position" (awi.cpp:1450).
OffsetIsOfTheGop ==
  \A u \in Inputs :
    item # NoItem /\ input[u].at = "open" =>
      \A p \in 0..input[u].frames - 1 :
        Find(item.reader, p) = Indexed[KeyFrame(p)].at

\* Not so when the muxer holds packets back: calculate gives "the last fully
\* available item" (awi.cpp:1551).
ItemsAreAvailable ==
  \A u \in Inputs : \A k \in 1..input[u].frames : Shown(k)
=============================================================================
