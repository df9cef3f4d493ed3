------------------------------ MODULE FrameGraph ------------------------------
(***************************************************************************)
(* Graphs of openmedialib nodes and what playing their root gives: an      *)
(* input (ml/input.hpp), the filter base class (ml/filter.cpp,             *)
(* filter_simple.hpp), the clip and playlist filters of gensys and the     *)
(* repeat, loop, hold, offset, step and frame_list filters.                *)
(*                                                                         *)
(* A node is asked for its length (get_frames), told to look at its inputs *)
(* (sync) and asked for a frame (seek and fetch).  Most nodes remember at  *)
(* sync what they are told by their inputs, and go by that until the next  *)
(* sync.  Media grow; not only the owner of the root syncs: the worker of  *)
(* a threader, the clones of a distributor and repeat, in the middle of a  *)
(* fetch, sync parts of the graph, which then know more than the nodes     *)
(* above them.  Frames are the pair of the media and the position in it.   *)
(*                                                                         *)
(* A definition marked as a mutant is what a plausible slip would make of  *)
(* the one after it; only the check of the properties uses it.             *)
(***************************************************************************)
EXTENDS Integers, SequencesExt

CONSTANTS
  Setups,      \* what is built: records of
               \*   nodes   a sequence; a node's inputs come before it, the root is last
               \*   length  the lengths of the media to begin with, 0 for other nodes
               \*   grows   the media that are still written
               \*   parts   the nodes that others than the owner of the root sync
               \*   edits   the connections <<node, slot, input>> that may be made later
  Longest      \* the media grow up to this

VARIABLES
  setup,
  graph,       \* the nodes: [kind, slots, args]; slot 0 is one without input
  length,      \* the true lengths of the media
  cache,       \* what each node remembers
  promise      \* what the root's owner was promised when he synced it last

vars == <<setup, graph, length, cache, promise>>

Nodes == DOMAIN graph
Root == Len(graph)
Kind(n) == graph[n].kind
Input(n) == graph[n].slots[1]
Arg(n, i) == graph[n].args[i]

Empty == <<0, 0>>     \* a frame_type without image and sound
Unsynced == [frames |-> 0, frame |-> <<>>]
\* src_frames_ or total_frames_, slots_ of a playlist, and the length that
\* reverse_ of a repeat was made with, -1 for a repeat without
Blank == [frames |-> 0, ends |-> <<>>, turned |-> -1]

Init ==
  /\ setup \in Setups
  /\ graph = setup.nodes
  /\ length = setup.length
  /\ cache = [n \in Nodes |-> Blank]
  /\ promise = Unsynced

-----------------------------------------------------------------------------
(* How many frames a node says it has. *)

ClipIn(in, frames) ==
  LET i == IF in >= frames THEN frames - 1 ELSE in
  IN  Max({0, IF i < 0 THEN frames + i ELSE i})

\* Mutant: an out before the start is not moved to it.
ClipOutBeforeStart(out, frames) ==
  LET o == IF out >= frames THEN frames ELSE out
  IN  IF o < 0 THEN frames + o + 1 ELSE o

ClipOut(out, frames) ==
  LET o == IF out >= frames THEN frames ELSE out
  IN  Max({0, IF o < 0 THEN frames + o + 1 ELSE o})

Distance(a, b) == IF a < b THEN b - a ELSE a - b

PlaylistFrames(ends) == IF ends = <<>> THEN 0 ELSE Last(ends)

RECURSIVE GetFrames(_, _)
GetFrames(n, known) ==
  IF n = 0 THEN 0
  ELSE LET f == known[n].frames IN
    CASE Kind(n) \in {"media", "loop"} -> f
      [] Kind(n) = "clip" -> Distance(ClipIn(Arg(n, 1), f), ClipOut(Arg(n, 2), f))
      [] Kind(n) = "playlist" -> PlaylistFrames(known[n].ends)
      [] Kind(n) = "repeat" -> IF Arg(n, 2) > 0 THEN f * Arg(n, 2) ELSE f
      [] Kind(n) = "hold" -> IF Arg(n, 2) > 0 THEN f + Arg(n, 2) ELSE f
      [] Kind(n) = "offset" -> Arg(n, 1) + f
      [] Kind(n) = "step" -> LET all == GetFrames(Input(n), known)
                             IN  IF Arg(n, 1) # 0 THEN all \div Arg(n, 1) ELSE all
      [] Kind(n) = "frame_list" -> Len(graph[n].args)

-----------------------------------------------------------------------------
(* sync: the inputs first, then what the node itself remembers of them. *)

PlaylistEnds(n, known) ==
  LET slots == graph[n].slots
  IN  [i \in DOMAIN slots |->
         FoldLeft(LAMBDA sum, m : sum + GetFrames(m, known), 0, SubSeq(slots, 1, i))]

SyncFrames(n, known) ==
  CASE Kind(n) = "media" -> [known[n] EXCEPT !.frames = length[n]]
    [] Kind(n) = "playlist" -> [known[n] EXCEPT !.ends = PlaylistEnds(n, known)]
    [] Kind(n) \in {"step", "frame_list"} -> known[n]
    [] OTHER -> [known[n] EXCEPT !.frames = GetFrames(Input(n), known)]

RECURSIVE Synced(_, _)
Synced(n, known) ==
  IF n = 0 THEN known
  ELSE LET below == FoldLeft(LAMBDA k, m : Synced(m, k), known, graph[n].slots)
       IN  [below EXCEPT ![n] = SyncFrames(n, below)]

-----------------------------------------------------------------------------
(* seek and fetch: the frame and what the nodes remember after it.  The    *)
(* sample that repeat looks at for its field order is left out: it can     *)
(* only make the reverse_ of a repeat further down a little earlier.       *)

Gives(frame, known) == [frame |-> frame, known |-> known]

\* seek of filter_type, which clip overrides
Sought(n, p) == IF Kind(n) = "clip" THEN p ELSE Max({0, p})

MediaFrame(n, p, known) ==
  LET f == known[n].frames
  IN  IF f = 0 THEN Empty ELSE <<n, Min({Max({p, 0}), f - 1})>>

\* slot_for_position: the first connected slot that ends behind p, or the last connected
SlotFor(n, p, known) ==
  LET connected == {i \in DOMAIN known[n].ends : graph[n].slots[i] # 0}
      behind == {i \in connected : p < known[n].ends[i]}
  IN  CASE behind # {} -> Min(behind)
        [] behind = {} /\ connected # {} -> Max(connected)
        [] OTHER -> 1

SlotOffset(n, i, known) == IF i = 1 THEN 0 ELSE known[n].ends[i - 1]

\* repeat makes its reverse_ when it is first needed, and syncs the clip it is
Turned(n, known) ==
  IF known[n].turned # -1 THEN known
  ELSE LET s == Synced(Input(n), known)
       IN  [s EXCEPT ![n].turned = GetFrames(Input(n), s)]

RECURSIVE Fetch(_, _, _)

\* do_fetch of a clip over the input m
ClipFetch(m, in, out, p, known) == Fetch(m, IF in < out THEN in + p ELSE in - p, known)

PlaylistFetch(n, p, known) ==
  LET i == SlotFor(n, p, known)
  IN  Fetch(graph[n].slots[i], p - SlotOffset(n, i, known), known)

\* It divides by the length of its input, which is not empty where a frame is due.
RepeatFetch(n, p, known) ==
  LET ready == IF known[n].frames = 0 THEN Synced(n, known) ELSE known
      f == ready[n].frames
      turned == Turned(n, ready)
      t == turned[n].turned
  IN  CASE Input(n) = 0 -> Gives(Empty, known)
        [] Input(n) # 0 /\ Arg(n, 2) < 1 -> Fetch(Input(n), p, ready)
        [] Input(n) # 0 /\ Arg(n, 2) >= 1 /\ (p \div f) % 2 = Arg(n, 1) ->
             ClipFetch(Input(n), ClipIn(-1, t), ClipOut(0, t), p % f, turned)
        [] OTHER -> Fetch(Input(n), p % f, turned)

LoopFetch(n, p, known) ==
  IF Input(n) = 0 THEN Gives(Empty, known)
  ELSE Fetch(Input(n), p % GetFrames(Input(n), known), known)

HoldFrame(n, f) == IF Arg(n, 1) < 0 THEN f + Arg(n, 1) ELSE Arg(n, 1)

HoldPosition(n, p, f) ==
  LET h == HoldFrame(n, f)
      count == Arg(n, 2)
  IN  CASE count > 0 /\ h \in 0 .. f - 1 /\ p \in h .. h + count - 1 -> h
        [] count > 0 /\ h \in 0 .. f - 1 /\ p >= h + count -> p - count
        [] OTHER -> p

OffsetFetch(n, p, known) ==
  IF p < Arg(n, 1) \/ p >= GetFrames(n, known)
  THEN Gives(Empty, known)
  ELSE Fetch(Input(n), p - Arg(n, 1), known)

StepFetch(n, p, known) ==
  IF GetFrames(Input(n), known) > 0
  THEN Fetch(Input(n), IF Arg(n, 1) # 0 THEN p * Arg(n, 1) ELSE p, known)
  ELSE Gives(Empty, known)

\* Outside the list the code reads behind the end of a vector.
ListFetch(n, p, known) ==
  LET all == GetFrames(Input(n), known)
  IN  IF all > 0 /\ all > Arg(n, p + 1) THEN Fetch(Input(n), Arg(n, p + 1), known)
                                        ELSE Gives(Empty, known)

FilterFetch(n, p, known) ==
  LET f == known[n].frames IN
  CASE Kind(n) = "clip" -> ClipFetch(Input(n), ClipIn(Arg(n, 1), f), ClipOut(Arg(n, 2), f), p, known)
    [] Kind(n) = "playlist" -> PlaylistFetch(n, p, known)
    [] Kind(n) = "repeat" -> RepeatFetch(n, p, known)
    [] Kind(n) = "loop" -> LoopFetch(n, p, known)
    [] Kind(n) = "hold" -> Fetch(Input(n), HoldPosition(n, p, f), known)
    [] Kind(n) = "offset" -> OffsetFetch(n, p, known)
    [] Kind(n) = "step" -> StepFetch(n, p, known)
    [] Kind(n) = "frame_list" -> ListFetch(n, p, known)

Fetch(n, p, known) ==
  CASE n = 0 -> Gives(Empty, known)
    [] n # 0 /\ Kind(n) = "media" -> Gives(MediaFrame(n, p, known), known)
    [] OTHER -> FilterFetch(n, Sought(n, p), known)

-----------------------------------------------------------------------------
(* What a graph means: the sequence of frames that its nodes make of the   *)
(* sequences of their inputs.  A clip plays "out - in" frames from in on,  *)
(* and backwards, when out comes first, "in - out + 1" down to out         *)
(* (units/01_clip.aml:24 and 31), which the code does not: see the end.    *)

Times(s, reversed, count) ==
  FlattenSeq([i \in 1 .. count |-> IF (i - 1) % 2 = reversed THEN Reverse(s) ELSE s])

FromStart(i, all) == IF i < 0 THEN Max({0, all + i}) ELSE i

RECURSIVE Meaning(_)
Meaning(n) ==
  IF n = 0 THEN <<>>
  ELSE LET s == [i \in DOMAIN graph[n].slots |-> Meaning(graph[n].slots[i])]
           a == graph[n].args
  IN CASE Kind(n) = "media" -> [i \in 1 .. length[n] |-> <<n, i - 1>>]
       [] Kind(n) = "playlist" -> FlattenSeq(s)
       [] Kind(n) = "loop" -> s[1]
       [] Kind(n) = "clip" ->
            LET all == Len(s[1])
                in == Max({0, Min({FromStart(a[1], all), all - 1})})
                out == IF a[2] = -1 THEN all ELSE Min({FromStart(a[2] + 1, all), all})
                end == IF a[2] < 0 THEN out ELSE Min({a[2], all})
            IN  IF in <= end THEN SubSeq(s[1], in + 1, end)
                             ELSE Reverse(SubSeq(s[1], end + 1, in + 1))
       [] Kind(n) = "repeat" -> IF a[2] > 0 THEN Times(s[1], a[1], a[2]) ELSE s[1]
       [] Kind(n) = "hold" ->
            LET h == FromStart(a[1], Len(s[1]))
            IN  IF a[2] <= 0 THEN s[1]
                ELSE SubSeq(s[1], 1, h) \o [i \in 1 .. a[2] |-> s[1][h + 1]]
                     \o SubSeq(s[1], h + 1, Len(s[1]))
       [] Kind(n) = "offset" -> [i \in 1 .. a[1] |-> Empty] \o s[1]
       [] Kind(n) = "step" -> IF a[1] = 0 THEN s[1]
                              ELSE [i \in 1 .. Len(s[1]) \div a[1] |-> s[1][(i - 1) * a[1] + 1]]
       [] Kind(n) = "frame_list" ->
            [i \in DOMAIN a |-> IF a[i] < Len(s[1]) THEN s[1][a[i] + 1] ELSE Empty]

-----------------------------------------------------------------------------
(* The owner syncs and plays the root; others sync parts. *)

SyncRoot ==
  /\ cache' = Synced(Root, cache)
  /\ promise' = [frames |-> GetFrames(Root, cache'), frame |-> Meaning(Root)]
  /\ UNCHANGED <<setup, graph, length>>

SyncPart(n) ==
  /\ n \in setup.parts
  /\ cache' = Synced(n, cache)
  /\ UNCHANGED <<setup, graph, length, promise>>

Play(p) ==
  /\ cache' = Fetch(Root, p, cache).known
  /\ UNCHANGED <<setup, graph, length, promise>>

\* Mutant: repeat keeps the reverse of its old input.
NoSlotChange(n, known) == known

OnSlotChange(n, known) ==
  IF Kind(n) = "repeat" THEN [known EXCEPT ![n].turned = -1] ELSE known

\* connect: a filter that is told of a new input forgets nothing of the old
\* one until it is synced, except for repeat and its reverse_.
Connect(n, i, m) ==
  /\ graph' = [graph EXCEPT ![n].slots[i] = m]
  /\ cache' = OnSlotChange(n, cache)
  /\ promise' = Unsynced
  /\ UNCHANGED <<setup, length>>

Grow(n) ==
  /\ n \in setup.grows
  /\ length[n] < Longest
  /\ length' = [length EXCEPT ![n] = @ + 1]
  /\ UNCHANGED <<setup, graph, cache, promise>>

Next ==
  \/ SyncRoot
  \/ \E n \in Nodes : SyncPart(n) \/ Grow(n)
  \/ \E p \in 0 .. promise.frames - 1 : Play(p)
  \/ \E e \in setup.edits : Connect(e[1], e[2], e[3])

Spec == Init /\ [][Next]_vars

-----------------------------------------------------------------------------
(* Properties *)

(* PlaysMeaning: the root is as long as what the graph means, and every    *)
(* frame that its owner was promised when he synced it is the frame that   *)
(* the graph means at that position, whatever media have grown and parts   *)
(* were synced since, by others or by fetching itself, and whatever was    *)
(* connected before the sync.  (Parts that grow other than at their end    *)
(* must be synced by the owner of the root only: their frames move.)       *)
(* Not so with a clip that plays backwards, which gets one frame less than *)
(* src/units/01_clip.aml:31 gives it: "'in - out + 1'".                    *)
PlaysMeaning ==
  /\ promise.frames = Len(promise.frame)
  /\ \A p \in 0 .. promise.frames - 1 : Fetch(Root, p, cache).frame = promise.frame[p + 1]

(* A clip never gets shorter while its input grows when in and out count   *)
(* from the same end and in is the first (or both count from the end), or  *)
(* when in is the start, or out the end or one before.                     *)
Steady(in, out) ==
  \/ in >= 0 /\ out > in
  \/ in < 0 /\ out < 0
  \/ in >= 0 /\ out < 0 /\ (in = 0 \/ out >= -2)

StaysLong == GetFrames(Root, cache) <= GetFrames(Root, cache')

(* NeverShorter: over media that grow the root never says that it has      *)
(* become shorter, at no sync of any part, once it was synced with its     *)
(* inputs.  "The input should never shrink on a background sync"           *)
(* (filter_threader.cpp:536), whose worker ends with an ARENFORCE when it  *)
(* does.  Not so with a clip whose in moves against its out.               *)
NeverShorter == [][promise # Unsynced /\ graph' = graph => StaysLong]_vars

AllSteady ==
  \A n \in Nodes : setup.grows # {} /\ Kind(n) = "clip" => Steady(Arg(n, 1), Arg(n, 2))

(* GrowsOnly: it does not if no clip over media that grow is like that.    *)
GrowsOnly == [][promise # Unsynced /\ graph' = graph /\ AllSteady => StaysLong]_vars

=============================================================================
