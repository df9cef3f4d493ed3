---------------------------- MODULE IndexProofs ----------------------------
(***************************************************************************)
(* Proofs about Index, for any number of inputs of any index.              *)
(*                                                                         *)
(* First the items of the indexer, their references and their jobs,        *)
(* whatever is in the files and whatever a parser makes of it.  Then what  *)
(* the index says, unless it is written in version 3: from the packets to  *)
(* the items of the generators, from these to the words of the file, from  *)
(* a prefix of the words to what a reader has, and from that and a prefix  *)
(* of the media to what an input claims.                                   *)
(***************************************************************************)
EXTENDS Index, FiniteSetTheorems, SequenceTheorems, WellFoundedInduction, TLAPS

At == {"closed", "creating", "measuring", "open", "shrunk", "cancelling"}

\* The inputs that hold a reference.
Holding(u) == input[u].at \in {"measuring", "open", "shrunk"}
Holders == {u \in Inputs : Holding(u)}

InputTypes ==
  /\ input = [u \in Inputs |->
                [at |-> input[u].at, frames |-> input[u].frames, size |-> input[u].size]]
  /\ \A u \in Inputs : input[u].at \in At

ItemTypes ==
  \/ item = NoItem
  \/ /\ item = [refs |-> item.refs, reader |-> item.reader, job |-> item.job]
     /\ item.refs \in Nat /\ item.job \in Jobs

\* The references are counted.  (How many inputs there are is not said: those
\* that hold are finitely many, since they came one by one.)
CountFits ==
  /\ IsFiniteSet(Holders)
  /\ item = NoItem => Holders = {}
  /\ item # NoItem => item.refs = Cardinality(Holders)

\* Only one input has the mutex, to create an item when there is none, or to
\* wait in cancel when nobody holds the item; nobody forgets an item otherwise.
Blocking(u) == input[u].at \in {"creating", "cancelling"}
CancelFits ==
  /\ \A u, v \in Inputs : Blocking(u) /\ Blocking(v) => u = v
  /\ item = NoItem => \A u \in Inputs : input[u].at # "cancelling"
  /\ item # NoItem => /\ Free <=> Holders # {}
                      /\ \A u \in Inputs : input[u].at # "creating"

\* The item has a job while there is something to come and somebody cares.
Stages == {"none", "new", "waiting", "taken", "running", "going", "again", "over", "kept"}
Reads(stage) == stage \notin {"none", "over"}
JobFits ==
  /\ jobs \in [Jobs -> Stages]
  /\ Holders # {} => Reads(jobs[item.job]) \/ item.reader.eof

Inv == InputTypes /\ ItemTypes /\ CountFits /\ CancelFits /\ JobFits

-----------------------------------------------------------------------------
\* An item, whose references are counted from 0, is not NoItem.
LEMMA NoItemHasNoReferences == NoItem.refs = -1
BY DEF NoItem

\* Steps that neither take nor give back an item leave the counts alone.
LEMMA SameHolders ==
  ASSUME InputTypes, CountFits, CancelFits, (item # NoItem)' <=> item # NoItem,
         \A u \in Inputs : Holding(u)' <=> Holding(u),
         \A u \in Inputs : \A a \in {"creating", "cancelling"} :
           input'[u].at = a <=> input[u].at = a
  PROVE  /\ Holders' = Holders /\ Free' = Free
         /\ CancelFits'
<1>1. Holders' = Holders
  BY DEF Holders
<1>2. Free' = Free
  BY DEF Free
<1>3. \A u \in Inputs : Blocking(u)' <=> Blocking(u)
  BY DEF Blocking
<1> QED BY <1>1, <1>2, <1>3 DEF CancelFits

\* The item and the jobs stay as they are.
LEMMA InputStep ==
  ASSUME Inv, UNCHANGED <<item, jobs>>, InputTypes',
         \A u \in Inputs : Holding(u)' <=> Holding(u),
         \A u \in Inputs : \A a \in {"creating", "cancelling"} :
           input'[u].at = a <=> input[u].at = a
  PROVE  Inv'
<1>1. Holders' = Holders /\ Free' = Free /\ CancelFits'
  BY SameHolders DEF Inv
<1>2. ItemTypes' /\ CountFits' /\ JobFits'
  BY <1>1 DEF Inv, ItemTypes, CountFits, JobFits
<1> QED BY <1>1, <1>2 DEF Inv

\* The inputs and the references stay as they are.
LEMMA JobStep ==
  ASSUME Inv, UNCHANGED input, jobs' \in [Jobs -> Stages],
         item # NoItem => item' = [refs |-> item.refs, reader |-> item'.reader, job |-> item.job],
         item = NoItem => item' = NoItem,
         item # NoItem /\ Holders # {} => Reads(jobs'[item.job]) \/ item'.reader.eof
  PROVE  Inv'
<1>1. Holders' = Holders /\ Free' = Free
  BY DEF Holders, Holding, Free
<1>2. item # NoItem => /\ item.refs \in Nat /\ item'.refs = item.refs
                       /\ item.job \in Jobs /\ item'.job = item.job
  BY DEF Inv, ItemTypes
<1>3. item # NoItem <=> item' # NoItem
  BY <1>2, NoItemHasNoReferences
<1>4. ItemTypes'
  BY <1>2, <1>3 DEF ItemTypes
<1>5. CountFits'
  BY <1>1, <1>2, <1>3 DEF Inv, CountFits
<1>6. JobFits'
  BY <1>1, <1>2, <1>3 DEF Inv, JobFits, CountFits
<1>7. InputTypes' /\ CancelFits'
  BY <1>1, <1>3 DEF Inv, InputTypes, CancelFits, Blocking
<1> QED BY <1>4, <1>5, <1>6, <1>7 DEF Inv

\* The records sync and size_media leave of an input.
LEMMA FieldsSet ==
  ASSUME NEW r, r = [at |-> r.at, frames |-> r.frames, size |-> r.size], NEW n
  PROVE  /\ [r EXCEPT !.at = "open", !.frames = n]
              = [at |-> "open", frames |-> n, size |-> r.size]
         /\ [r EXCEPT !.at = "shrunk"] = [at |-> "shrunk", frames |-> r.frames, size |-> r.size]
         /\ [r EXCEPT !.at = "measuring", !.size = n]
              = [at |-> "measuring", frames |-> r.frames, size |-> n]
<1> DEFINE s == [r EXCEPT !.at = "open", !.frames = n]
           t == [r EXCEPT !.at = "measuring", !.size = n]
<1>1. /\ DOMAIN s = {"at", "frames", "size"} /\ s = [x \in DOMAIN s |-> s[x]]
      /\ s.at = "open" /\ s.frames = n /\ s.size = r.size
  OBVIOUS
<1>2. [r EXCEPT !.at = "shrunk"] = [at |-> "shrunk", frames |-> r.frames, size |-> r.size]
  OBVIOUS
<1>3. /\ DOMAIN t = {"at", "frames", "size"} /\ t = [x \in DOMAIN t |-> t[x]]
      /\ t.at = "measuring" /\ t.frames = r.frames /\ t.size = n
  OBVIOUS
<1> HIDE DEF s, t
<1>4. s = [at |-> "open", frames |-> n, size |-> r.size]
  BY <1>1
<1>5. t = [at |-> "measuring", frames |-> r.frames, size |-> n]
  BY <1>3
<1> QED BY <1>2, <1>4, <1>5 DEF s, t

\* One input changes, and neither takes nor gives back the item.
LEMMA OneInput ==
  ASSUME Inv, UNCHANGED <<item, jobs>>, NEW u \in Inputs, NEW new,
         input' = [input EXCEPT ![u] = new],
         new = [at |-> new.at, frames |-> new.frames, size |-> new.size],
         Holding(u), new.at \in {"measuring", "open", "shrunk"}
  PROVE  Inv'
<1>1. /\ \A v \in Inputs : input'[v] = IF v = u THEN new ELSE input[v]
      /\ input' = [v \in Inputs |-> input'[v]]
  BY DEF Inv, InputTypes
<1>2. InputTypes'
  BY <1>1 DEF Inv, InputTypes, At
<1>3. \A v \in Inputs : \A a \in {"creating", "cancelling"} :
        input'[v].at = a <=> input[v].at = a
  BY <1>1 DEF Holding
<1>4. \A v \in Inputs : Holding(v)' <=> Holding(v)
  BY <1>1 DEF Holding
<1> QED BY <1>2, <1>3, <1>4, InputStep

\* The records of an input that has opened, creates an item or is closed.
LEMMA NewInput ==
  /\ Opened = [at |-> "measuring", frames |-> 0, size |-> seen.media]
  /\ Closed = [at |-> "closed", frames |-> 0, size |-> 0]
  /\ [Closed EXCEPT !.at = "creating"] = [at |-> "creating", frames |-> 0, size |-> 0]
<1>1. Closed = [at |-> "closed", frames |-> 0, size |-> 0]
  BY DEF Closed
<1>2. [Closed EXCEPT !.at = "creating"] = [at |-> "creating", frames |-> 0, size |-> 0]
  BY <1>1
<1> QED BY <1>1, <1>2 DEF Opened

\* What becomes of the inputs when one of them does.
LEMMA Become ==
  ASSUME InputTypes, NEW u \in Inputs, NEW new,
         new = [at |-> new.at, frames |-> new.frames, size |-> new.size], new.at \in At,
         input' = [input EXCEPT ![u] = new]
  PROVE  /\ InputTypes' /\ input'[u] = new
         /\ \A v \in Inputs : v # u => input'[v] = input[v]
         /\ new.at \in {"measuring", "open", "shrunk"} => Holders' = Holders \cup {u}
         /\ new.at \in {"closed", "creating", "cancelling"} => Holders' = Holders \ {u}
<1>1. /\ \A v \in Inputs : input'[v] = IF v = u THEN new ELSE input[v]
      /\ input' = [v \in Inputs |-> input'[v]]
  BY DEF InputTypes
<1>2. InputTypes'
  BY <1>1 DEF InputTypes
<1> QED BY <1>1, <1>2 DEF Holders, Holding

\* The same, when it is closed.
LEMMA Closes ==
  ASSUME InputTypes, NEW u \in Inputs, input' = [input EXCEPT ![u] = Closed]
  PROVE  /\ InputTypes' /\ input'[u].at = "closed" /\ Holders' = Holders \ {u}
         /\ \A v \in Inputs : v # u => input'[v] = input[v]
<1>1. /\ Closed = [at |-> Closed.at, frames |-> Closed.frames, size |-> Closed.size]
      /\ Closed.at = "closed" /\ Closed.at \in At
  BY NewInput DEF At
<1> QED BY <1>1, Become

\* request: one more reference, or an item to create.
LEMMA OpenStep == ASSUME Inv, NEW u \in Inputs, Open(u) PROVE Inv'
<1>0. Free /\ u \notin Holders /\ \A v \in Inputs : ~Blocking(v)
  BY DEF Open, Holders, Holding, Free, Blocking
<1>1. CASE item = NoItem
  <2>1. /\ InputTypes' /\ input'[u].at = "creating"
        /\ \A v \in Inputs : v # u => input'[v] = input[v]
        /\ Holders' = Holders \ {u} /\ UNCHANGED <<item, jobs>>
    BY <1>1, NewInput, Become DEF Open, Inv, At
  <2>2. Holders' = Holders
    BY <1>0, <2>1
  <2> QED BY <1>0, <1>1, <2>1, <2>2
          DEF Inv, ItemTypes, CountFits, CancelFits, JobFits, Blocking
<1>2. CASE item # NoItem
  <2>1. /\ item'.refs = item.refs + 1 /\ item'.reader = item.reader
        /\ item' = [refs |-> item'.refs, reader |-> item'.reader, job |-> item'.job]
        /\ item'.job = item.job /\ jobs' = jobs
    BY <1>2 DEF Open, Inv, ItemTypes
  <2>2. item.refs \in Nat /\ item.job \in Jobs /\ item.refs = Cardinality(Holders)
    BY <1>2 DEF Inv, ItemTypes, CountFits
  <2>3. item' # NoItem
    BY <2>1, <2>2, NoItemHasNoReferences
  <2>4. /\ InputTypes' /\ input'[u].at = "measuring"
        /\ \A v \in Inputs : v # u => input'[v] = input[v]
        /\ Holders' = Holders \cup {u}
    BY <1>2, NewInput, Become DEF Open, Inv, At
  <2>5. /\ IsFiniteSet(Holders') /\ Cardinality(Holders') = Cardinality(Holders) + 1
    BY <1>0, <2>4, FS_AddElement DEF Inv, CountFits
  <2>6. Free' /\ \A v \in Inputs : ~Blocking(v)'
    BY <1>0, <2>4 DEF Free, Blocking
  <2>7. Reads(jobs'[item'.job]) \/ item'.reader.eof
    BY <1>0, <1>2, <2>1 DEF Inv, CancelFits, JobFits
  <2> QED
    BY <2>1, <2>2, <2>3, <2>4, <2>5, <2>6, <2>7
    DEF Inv, ItemTypes, CountFits, CancelFits, JobFits, Blocking
<1> QED BY <1>1, <1>2

\* create: the new item with its job, the next version, or nothing.
LEMMA CreateStep == ASSUME Inv, NEW u \in Inputs, CreateEnds(u) PROVE Inv'
<1>0. /\ item = NoItem /\ Holders = {}
      /\ \A v \in Inputs : v # u => ~Blocking(v)
  BY DEF CreateEnds, Inv, CountFits, CancelFits, Blocking
<1>1. CASE made.frames # 0
  <2>1. PICK j \in Jobs :
          /\ item' = [refs |-> 1, reader |-> made, job |-> j]
          /\ jobs' = [jobs EXCEPT ![j] = IF made.eof THEN "none" ELSE "new"]
    BY <1>1 DEF CreateEnds
  <2>2. item'.refs = 1 /\ item'.reader = made /\ item'.job = j /\ item' # NoItem
    BY <2>1, NoItemHasNoReferences
  <2>3. /\ InputTypes' /\ input'[u].at = "measuring"
        /\ \A v \in Inputs : v # u => input'[v] = input[v]
        /\ Holders' = Holders \cup {u}
    BY <1>1, NewInput, Become DEF CreateEnds, Inv, At
  <2>4. IsFiniteSet(Holders') /\ Cardinality(Holders') = 1 /\ Holders' # {}
    <3>1. Holders' = {u}
      BY <1>0, <2>3
    <3> QED BY <3>1, FS_Singleton
  <2>5. Free' /\ \A v \in Inputs : ~Blocking(v)'
    BY <1>0, <2>3 DEF Free, Blocking
  <2>6. jobs' \in [Jobs -> Stages] /\ (Reads(jobs'[j]) \/ made.eof)
    BY <2>1 DEF Inv, JobFits, Stages, Reads
  <2>7. ItemTypes' /\ JobFits'
    BY <2>1, <2>2, <2>6 DEF ItemTypes, JobFits
  <2> QED
    BY <2>2, <2>3, <2>4, <2>5, <2>7 DEF Inv, CountFits, CancelFits, Blocking
<1>2. CASE made.frames = 0 /\ made.version > 2
  BY <1>2, InputStep DEF CreateEnds, Inv, InputTypes, Holding
<1>3. CASE made.frames = 0 /\ ~(made.version > 2)
  <2>1. /\ InputTypes' /\ input'[u].at = "closed"
        /\ \A v \in Inputs : v # u => input'[v] = input[v]
        /\ Holders' = Holders \ {u} /\ UNCHANGED <<item, jobs>>
    BY <1>3, Closes DEF CreateEnds, Inv
  <2>2. Holders' = Holders /\ \A v \in Inputs : ~Blocking(v)'
    BY <1>0, <2>1 DEF Blocking
  <2> QED BY <1>0, <2>1, <2>2
          DEF Inv, ItemTypes, CountFits, CancelFits, JobFits, Blocking
<1> QED BY <1>1, <1>2, <1>3

\* cancel: one reference less, the end of the item, or the wait for its job.
LEMMA CancelStep == ASSUME Inv, NEW u \in Inputs, Cancel(u) PROVE Inv'
<1>1. /\ Free /\ u \in Holders /\ \A v \in Inputs : ~Blocking(v)
      /\ item # NoItem /\ item.job \in Jobs
      /\ item = [refs |-> item.refs, reader |-> item.reader, job |-> item.job]
  BY DEF Cancel, Inv, CountFits, ItemTypes, Holders, Holding, Free, Blocking
<1>2. /\ IsFiniteSet(Holders \ {u}) /\ Cardinality(Holders \ {u}) = Cardinality(Holders) - 1
  BY <1>1, FS_RemoveElement DEF Inv, CountFits
<1>3. item.refs \in Nat /\ item.refs = Cardinality(Holders)
  BY <1>1 DEF Inv, ItemTypes, CountFits
<1>5. item.refs > 1 => Holders \ {u} # {}
  BY <1>2, <1>3, FS_EmptySet
<1>6. item.refs <= 1 => Holders \ {u} = {} /\ Cardinality(Holders \ {u}) = 0
  BY <1>2, <1>3, FS_CardinalityType, FS_EmptySet
<1>7. CASE item.refs > 1
  <2>1. /\ item' = [refs |-> item.refs - 1, reader |-> item.reader, job |-> item.job]
        /\ jobs' = jobs
        /\ input' = [input EXCEPT ![u] = Closed]
    BY <1>1, <1>7 DEF Cancel
  <2>2. /\ item'.refs = item.refs - 1 /\ item'.reader = item.reader
        /\ item'.job = item.job /\ item' # NoItem
    BY <1>3, <1>7, <2>1, NoItemHasNoReferences
  <2>3. /\ InputTypes' /\ input'[u].at = "closed" /\ Holders' = Holders \ {u}
        /\ \A v \in Inputs : v # u => input'[v] = input[v]
    BY <2>1, Closes DEF Inv
  <2>4. Free' /\ \A v \in Inputs : ~Blocking(v)'
    BY <1>1, <2>3 DEF Free, Blocking
  <2> QED
    BY <1>1, <1>2, <1>3, <1>5, <1>7, <2>1, <2>2, <2>3, <2>4
    DEF Inv, ItemTypes, CountFits, CancelFits, JobFits, Blocking
<1>8. CASE ~(item.refs > 1) /\ ~item.reader.eof /\ Awaited(item.job)
  <2>1. /\ item' = [refs |-> 0, reader |-> item.reader, job |-> item.job] /\ jobs' = jobs
        /\ input' = [input EXCEPT ![u].at = "cancelling"]
    BY <1>1, <1>8 DEF Cancel
  <2>2. /\ item'.refs = 0 /\ item'.reader = item.reader
        /\ item'.job = item.job /\ item' # NoItem
    BY <2>1, NoItemHasNoReferences
  <2>3. /\ [input[u] EXCEPT !.at = "cancelling"]
              = [at |-> "cancelling", frames |-> input[u].frames, size |-> input[u].size]
        /\ input' = [input EXCEPT ![u] = [input[u] EXCEPT !.at = "cancelling"]]
    BY <2>1 DEF Inv, InputTypes
  <2>4. /\ InputTypes' /\ input'[u].at = "cancelling" /\ Holders' = Holders \ {u}
        /\ \A v \in Inputs : v # u => input'[v] = input[v]
    <3> DEFINE new == [input[u] EXCEPT !.at = "cancelling"]
    <3>1. /\ new.at = "cancelling" /\ new.frames = input[u].frames /\ new.size = input[u].size
          /\ new = [at |-> new.at, frames |-> new.frames, size |-> new.size] /\ new.at \in At
          /\ input' = [input EXCEPT ![u] = new]
      BY <2>3 DEF At
    <3> HIDE DEF new
    <3>2. InputTypes
      BY DEF Inv
    <3> QED BY <3>1, <3>2, Become
  <2>5. /\ ~Free' /\ Blocking(u)' /\ \A v \in Inputs : v # u => ~Blocking(v)'
        /\ \A v \in Inputs : input'[v].at # "creating"
    BY <1>1, <2>4 DEF Free, Blocking
  <2>6. Holders' = {} /\ Cardinality(Holders') = 0 /\ IsFiniteSet(Holders')
    BY <1>2, <1>3, <1>6, <1>8, <2>4
  <2>7. ItemTypes'
    BY <1>1, <2>1, <2>2 DEF ItemTypes
  <2>8. CountFits'
    BY <2>2, <2>6 DEF CountFits
  <2>9. CancelFits'
    BY <2>2, <2>5, <2>6 DEF CancelFits
  <2>10. JobFits'
    BY <2>1, <2>6 DEF JobFits, Inv
  <2> QED BY <2>4, <2>7, <2>8, <2>9, <2>10 DEF Inv
<1>9. CASE ~(item.refs > 1) /\ ~(~item.reader.eof /\ Awaited(item.job))
  <2>1. /\ item' = NoItem /\ input' = [input EXCEPT ![u] = Closed]
        /\ jobs' = IF item.reader.eof THEN jobs
                   ELSE [jobs EXCEPT ![item.job] = AfterCancel(@)]
    BY <1>9 DEF Cancel, Removed
  <2>2. /\ InputTypes' /\ input'[u].at = "closed" /\ Holders' = Holders \ {u}
        /\ \A v \in Inputs : v # u => input'[v] = input[v]
    BY <2>1, Closes DEF Inv
  <2>3. \A v \in Inputs : ~Blocking(v)'
    BY <1>1, <2>2 DEF Blocking
  <2>4. jobs' \in [Jobs -> Stages]
    BY <2>1 DEF Inv, JobFits, Stages, AfterCancel
  <2> QED
    BY <1>1, <1>2, <1>3, <1>6, <1>9, <2>1, <2>2, <2>3, <2>4
    DEF Inv, ItemTypes, CountFits, CancelFits, JobFits, Blocking
<1> QED BY <1>7, <1>8, <1>9

\* The end of a cancel that had to wait, whether the job ended or not.
LEMMA RemovedStep ==
  ASSUME Inv, NEW u \in Inputs, input[u].at = "cancelling", Removed(u), UNCHANGED jobs
  PROVE  Inv'
<1>1. /\ InputTypes' /\ Holders' = Holders \ {u} /\ input'[u].at = "closed"
      /\ \A v \in Inputs : v # u => input'[v] = input[v]
  BY Closes DEF Removed, Inv
<1>2. item' = NoItem /\ item # NoItem /\ Holders = {}
  BY DEF Removed, Inv, CountFits, CancelFits, Free
<1>3. \A v \in Inputs : ~Blocking(v)'
  BY <1>1 DEF Inv, CancelFits, Blocking
<1> QED
  BY <1>1, <1>2, <1>3, FS_EmptySet
  DEF Inv, ItemTypes, CountFits, CancelFits, JobFits, Blocking

\* The invariant holds initially, ...
LEMMA Start == Init => Inv
<1> SUFFICES ASSUME Init PROVE Inv
  OBVIOUS
<1>1. Holders = {} /\ Free /\ InputTypes
  BY DEF Init, Holders, Holding, Free, InputTypes, Closed, At
<1>2. jobs \in [Jobs -> Stages]
  BY DEF Init, Stages
<1> QED
  BY <1>1, <1>2, FS_EmptySet
  DEF Init, Inv, ItemTypes, CountFits, CancelFits, JobFits, Free, Blocking

\* ... and every step keeps it: one case for each action on item, jobs or inputs.
LEMMA Step == Inv /\ [Next]_vars => Inv'
<1> SUFFICES ASSUME Inv, [Next]_vars PROVE Inv'
  OBVIOUS
<1>1. ASSUME UNCHANGED <<item, jobs, input>> PROVE Inv'
  <2>1. InputTypes'
    BY <1>1 DEF Inv, InputTypes
  <2> QED BY <1>1, <2>1, InputStep DEF Holding
<1>2. CASE \/ \E key \in BOOLEAN, size \in Sizes : WriteVideo(key, size)
           \/ \E size \in Sizes : WriteAudio(size)
           \/ \E type \in {Video, Audio}, size \in Sizes : MuxerWrites(type, size)
           \/ \E u \in Inputs : CreateReads(u)
           \/ CloseStore \/ ShowIndex \/ ShowMedia \/ UNCHANGED vars
  BY <1>1, <1>2
  DEF Write, WriteVideo, WriteAudio, MuxerWrites, CloseStore, ShowIndex, ShowMedia,
      CreateReads, vars
<1>3. ASSUME NEW u \in Inputs, Open(u) \/ CreateEnds(u) PROVE Inv'
  BY <1>3, OpenStep, CreateStep
<1>4. ASSUME NEW u \in Inputs, Cancel(u) PROVE Inv'
  BY <1>4, CancelStep
<1>5. ASSUME NEW u \in Inputs, Cancelled(u) \/ CancelTimesOut(u) PROVE Inv'
  BY <1>5, RemovedStep DEF Cancelled, CancelTimesOut
<1>6. ASSUME NEW u \in Inputs, Sync(u) PROVE Inv'
  <2>1. input[u] = [at |-> input[u].at, frames |-> input[u].frames, size |-> input[u].size]
    BY DEF Inv, InputTypes
  <2>2. [input[u] EXCEPT !.at = "measuring", !.size = seen.media]
          = [at |-> "measuring", frames |-> input[u].frames, size |-> seen.media]
    BY <2>1, FieldsSet
  <2>3. /\ UNCHANGED <<item, jobs>> /\ Holding(u)
        /\ input' = [input EXCEPT ![u] =
                       [at |-> "measuring", frames |-> input[u].frames, size |-> seen.media]]
    BY <1>6, <2>2 DEF Sync, Holding, Inv, InputTypes
  <2> QED BY <2>3, OneInput
<1>7. ASSUME NEW u \in Inputs, Measure(u) PROVE Inv'
  <2> DEFINE length == Calculate(item.reader, input[u].size)
             opened == [at |-> "open", frames |-> length, size |-> input[u].size]
             shrunk == [at |-> "shrunk", frames |-> input[u].frames, size |-> input[u].size]
  <2>1. /\ UNCHANGED <<item, jobs>> /\ Holding(u)
        /\ input' = [input EXCEPT ![u] =
             IF length >= @.frames THEN [@ EXCEPT !.at = "open", !.frames = length]
                                   ELSE [@ EXCEPT !.at = "shrunk"]]
    BY <1>7 DEF Measure, Holding
  <2> HIDE DEF length
  <2>2. input[u] = [at |-> input[u].at, frames |-> input[u].frames, size |-> input[u].size]
    BY DEF Inv, InputTypes
  <2>3. /\ [input[u] EXCEPT !.at = "open", !.frames = length] = opened
        /\ [input[u] EXCEPT !.at = "shrunk"] = shrunk
    BY <2>2, FieldsSet
  <2>4. PICK new \in {opened, shrunk} : input' = [input EXCEPT ![u] = new]
    BY <2>1, <2>3
  <2>5. /\ new.at \in {"open", "shrunk"}
        /\ new = [at |-> new.at, frames |-> new.frames, size |-> new.size]
    BY <2>4
  <2> QED BY <2>1, <2>4, <2>5, OneInput
<1>8. ASSUME NEW j \in Jobs, Job(j) PROVE Inv'
  <2>1. UNCHANGED input /\ jobs \in [Jobs -> Stages]
    BY <1>8 DEF Job, JobStarts, JobRuns, JobReads, JobParses, JobDecides, JobGoesOn,
                JobChecked, JobWaits, Unchanged, Inv, JobFits
  <2>2. item # NoItem => /\ item = [refs |-> item.refs, reader |-> item.reader, job |-> item.job]
                         /\ item.refs \in Nat /\ item.job \in Jobs
                         /\ item.refs = Cardinality(Holders)
    BY DEF Inv, ItemTypes, CountFits
  <2>3. CASE JobReads(j) \/ JobParses(j)
    <3>1. /\ item # NoItem /\ item.job = j /\ jobs[j] = "running" /\ jobs' = jobs
          /\ \E r : item' = [item EXCEPT !.reader = r]
      BY <2>3 DEF JobReads, JobParses, OfItem
    <3>2. item' = [refs |-> item.refs, reader |-> item'.reader, job |-> item.job]
      BY <2>2, <3>1
    <3> QED BY <2>1, <3>1, <3>2, JobStep DEF Reads
  <2>4. CASE ~(JobReads(j) \/ JobParses(j))
    <3>1. PICK stage \in Stages :
            /\ jobs' = [jobs EXCEPT ![j] = stage] /\ item' = item
            /\ Reads(stage) \/ jobs[j] = "over"
                 \/ (jobs[j] = "running" /\ ~(OfItem(j) /\ item.refs > 0 /\ ~item.reader.eof))
      BY <1>8, <2>4
      DEF Job, JobStarts, JobRuns, JobDecides, JobGoesOn, JobChecked, JobWaits, Becomes,
          Stages, Reads
    <3>2. /\ jobs' \in [Jobs -> Stages] /\ jobs'[j] = stage
          /\ \A k \in Jobs : k # j => jobs'[k] = jobs[k]
      BY <2>1, <3>1
    <3>3. ASSUME item # NoItem, Holders # {}
          PROVE  Reads(jobs'[item.job]) \/ item.reader.eof
      <4>1. Reads(jobs[item.job]) \/ item.reader.eof
        BY <3>3 DEF Inv, JobFits
      <4>2. item.refs > 0
        BY <2>2, <3>3, FS_EmptySet DEF Inv, CountFits
      <4>3. CASE item.job = j
        BY <3>1, <3>2, <3>3, <4>1, <4>2, <4>3 DEF OfItem, Reads
      <4>4. CASE item.job # j
        BY <2>2, <3>2, <3>3, <4>1, <4>4
      <4> QED BY <4>3, <4>4
    <3>4. item # NoItem => item' = [refs |-> item.refs, reader |-> item'.reader, job |-> item.job]
      BY <2>2, <3>1
    <3> QED BY <2>1, <3>1, <3>2, <3>3, <3>4, JobStep
  <2> QED BY <2>3, <2>4
<1> QED BY <1>2, <1>3, <1>4, <1>5, <1>6, <1>7, <1>8 DEF Next, Work

-----------------------------------------------------------------------------
(* The theorems.                                                           *)

\* The invariant of the indexer.
THEOREM Invariant == Spec => []Inv
BY Start, Step, PTL DEF Spec

\* The indexer has an item exactly as long as an input holds it or waits in
\* cancel, and reads on for those who hold it until the index has ended, also
\* when a cancel gives up waiting for the job, or leaves the job with the worker
\* after it has waited, and the next request makes item and job anew.
THEOREM ItemsAreReadWhileHeld == Spec => []ReadWhileHeld
<1>1. Inv => ReadWhileHeld
  <2> SUFFICES ASSUME Inv PROVE ReadWhileHeld
    OBVIOUS
  <2>1. Holders = {u \in Inputs : input[u].at \in {"measuring", "open", "shrunk"}}
    BY DEF Holders, Holding
  <2>2. item # NoItem /\ Holders = {} => ~WakeFree
    BY DEF Inv, CancelFits, Free, WakeFree
  <2>3. /\ IF item = NoItem THEN Holders = {} ELSE item.refs = Cardinality(Holders)
        /\ Holders # {} => jobs[item.job] \notin {"none", "over"} \/ item.reader.eof
    BY DEF Inv, CountFits, JobFits, Reads
  <2> QED BY <2>1, <2>2, <2>3 DEF ReadWhileHeld
<1> QED BY <1>1, Invariant, PTL

-----------------------------------------------------------------------------
(* The store: what the packets, the items and the words of the file are.   *)
(* d: the muxer is direct.                                                 *)

ItemRecords == [frames : Nat \ {0}, frame : Nat, offset : Nat, length : Nat \ {0}]
GeneratorRecords ==
  [state : {"header", "item", "footer"}, items : Seq(ItemRecords), flushed : Nat,
   position : Int, offset : Int, known : BOOLEAN, finished : BOOLEAN]
PacketRecords == [key : BOOLEAN, at : Int, end : Int]

StoreTypes ==
  /\ setup \in Setups /\ setup.version # 3
  /\ packets \in [{Video, Audio} -> Seq(PacketRecords)]
  /\ media \in Nat /\ closed \in BOOLEAN
  /\ video \in GeneratorRecords /\ audio \in GeneratorRecords
  /\ file \in Seq(Nat)

\* A packet that is written, and where.
Lies(p, size) == p.at \in Nat /\ p.end \in Nat /\ p.at < p.end /\ p.end <= size

\* One packet lies behind the other, and a stream starts with a key frame.  The
\* packets that the muxer holds back are the last ones.
InRow(ps, size, d) ==
  /\ ps # <<>> => ps[1].key
  /\ \A j \in 1..Len(ps) : ps[j].at # Held => Lies(ps[j], size)
  /\ \A j, k \in 1..Len(ps) :
       j < k /\ ps[k].at # Held => ps[j].at # Held /\ ps[j].end <= ps[k].at
  /\ d => \A j \in 1..Len(ps) : ps[j].at # Held

\* Where the first n items end.
Reach(items, n) == IF n = 0 THEN 0 ELSE items[n].frame + items[n].frames

\* One item begins where the other ends.
Tiles(items) ==
  /\ \A k \in 1..Len(items) : items[k].frame = Reach(items, k - 1)
  /\ \A k, l \in 1..Len(items) : k < l =>
       /\ items[k].frame + items[k].frames <= items[l].frame
       /\ items[k].offset + items[k].length <= items[l].offset

\* An item starts not behind its key frame, or with it, and then it spans that
\* and the frames that depend on it.
NotBehind(offset, p) == p.at = Held \/ offset <= p.at
Spans(i, ps, d) ==
  /\ i.frame + i.frames <= Len(ps)
  /\ ps[i.frame + 1].key /\ NotBehind(i.offset, ps[i.frame + 1])
  /\ d => /\ i.offset = ps[i.frame + 1].at
          /\ ps[i.frame + i.frames].end <= i.offset + i.length
          /\ \A j \in i.frame + 2..i.frame + i.frames : ~ps[j].key

\* The item that waits for the next key frame (position and offset), or, when
\* lengths are known, the last one.
Waits(g, ps, size, d) ==
  /\ g.position = -1 => g.offset = -1 /\ g.items = <<>> /\ ps = <<>> /\ ~g.known
  /\ g.position # -1 =>
       /\ g.position \in 0..Len(ps) - 1 /\ g.offset \in 0..size
       /\ NotBehind(g.offset, ps[g.position + 1])
       /\ d => g.offset = ps[g.position + 1].at
       /\ IF g.known THEN /\ d /\ g.position = Len(ps) - 1
                          /\ Reach(g.items, Len(g.items)) = Len(ps)
                          /\ \A k \in 1..Len(g.items) :
                               g.items[k].offset + g.items[k].length <= size
                     ELSE /\ ps[g.position + 1].key
                          /\ Reach(g.items, Len(g.items)) = g.position
                          /\ \A k \in 1..Len(g.items) :
                               g.items[k].offset + g.items[k].length <= g.offset
                          /\ d => \A j \in g.position + 2..Len(ps) : ~ps[j].key

\* In the end every packet is written, and the last item ends with the media.
Complete(items, ps, size, d) ==
  /\ \A j \in 1..Len(ps) : ps[j].at # Held
  /\ ~d /\ items # <<>> => items[Len(items)].offset + items[Len(items)].length = size

GeneratorFits(g, ps) ==
  /\ g.flushed = Len(g.items) /\ Tiles(g.items)
  /\ \A k \in 1..Len(g.items) : Spans(g.items[k], ps, setup.direct)
  /\ ~closed => Waits(g, ps, media, setup.direct) /\ ~g.finished /\ g.state # "footer"
  /\ closed => Complete(g.items, ps, media, setup.direct)

GeneratorsFit ==
  /\ \A t \in {Video, Audio} : InRow(packets[t], media, setup.direct)
  /\ GeneratorFits(video, packets[Video]) /\ GeneratorFits(audio, packets[Audio])
  /\ ~closed => /\ video.position # -1 => (video.known <=> setup.known)
                /\ ~audio.known
  /\ setup.version = 2 => packets[Audio] = <<>>

\* The file: a header, the records of both generators, and a footer.
HeadSize == IF setup.version = 4 THEN 10 ELSE 4
FootSize == IF setup.version = 4 THEN 10 ELSE 8
Records == Len(video.items) + Len(audio.items)
Items == IF Type = Video THEN video.items ELSE audio.items
Tag == IF setup.version = 4 THEN setup.type ELSE 0

\* Record j is one the reader takes; what it says.
Mine(f, j) == f[HeadSize + 10 * (j - 1) + 1] = Tag
FrameOf(f, j) == f[HeadSize + 10 * (j - 1) + 4]
Says(f, j, i) ==
  LET p == HeadSize + 10 * (j - 1)
  IN  f[p + 2] = i.frames /\ f[p + 4] = i.frame /\ f[p + 8] = i.offset /\ f[p + 10] = i.length

\* The n records of the file f are the items, in their order, with those of
\* the other generator in between.
RecordsFit(f, n, items) ==
  /\ HeadSize + 10 * n <= Len(f)
  /\ \A j \in 1..n : IF Mine(f, j) THEN \E k \in 1..Len(items) : Says(f, j, items[k])
                                  ELSE f[HeadSize + 10 * (j - 1) + 1] \in {1, 2}
                                       /\ setup.version = 4
  /\ \A j, k \in 1..n : j < k /\ Mine(f, j) /\ Mine(f, k) => FrameOf(f, j) < FrameOf(f, k)
  /\ \A k \in 1..Len(items) :
       \E j \in 1..n : Mine(f, j) /\ FrameOf(f, j) = items[k].frame

HeadFits(f) == \A c \in 1..HeadSize : f[c] = HeaderWords(setup.version)[c]

FileFits ==
  IF video.state = "header"
  THEN ~closed /\ video.position = -1 /\ audio.position = -1 /\ file = <<>>
  ELSE /\ Len(file) = HeadSize + 10 * Records + (IF closed THEN FootSize ELSE 0)
       /\ HeadFits(file)
       /\ RecordsFit(file, Records, Items)
       /\ closed => \A c \in 1..FootSize :
                      file[HeadSize + 10 * Records + c] = FooterWords(setup.version)[c]

StoreInv == StoreTypes /\ GeneratorsFit /\ FileFits

(* The readers. *)

ReaderFields == {"version", "state", "position", "buffer", "items", "offsets", "frames", "eof"}
Parsed(r) == r.position - Len(r.buffer)

\* The buffer is what was read and not yet parsed.
BufferFits(r) ==
  /\ DOMAIN r = ReaderFields
  /\ r.position \in 0..seen.index
  /\ r.buffer \in Seq(Nat) /\ Len(r.buffer) <= r.position
  /\ \A c \in 1..Len(r.buffer) : r.buffer[c] = file[Parsed(r) + c]

\* The reader has the first n items.
Found(r, n) ==
  /\ r.frames = Reach(Items, n)
  /\ DOMAIN r.items = {Items[k].frame : k \in 1..n}
  /\ DOMAIN r.offsets = {Items[k].offset : k \in 1..n}
  /\ \A k \in 1..n : r.items[Items[k].frame] = Items[k] /\ r.offsets[Items[k].offset] = Items[k]

\* It has parsed m records, and the first n items among them.
Between(n, m) ==
  \A j \in 1..Records : Mine(file, j) => (j <= m <=> FrameOf(file, j) < Reach(Items, n))

ReaderFits(r) ==
  /\ BufferFits(r) /\ r.version = setup.version
  /\ \E n \in 0..Len(Items) :
       /\ Found(r, n)
       /\ \/ r.state = "header" /\ n = 0 /\ Parsed(r) = 0 /\ ~r.eof
          \/ /\ r.state = "item" /\ ~r.eof /\ video.state # "header"
             /\ \E m \in 0..Records : Parsed(r) = HeadSize + 10 * m /\ Between(n, m)
          \/ r.state = "footer" /\ r.eof /\ closed /\ n = Len(Items)

\* A reader of another version finds nothing.
OtherFits(r) ==
  /\ BufferFits(r) /\ r.version \in 2..4 \ {setup.version}
  /\ r.frames = 0 /\ ~r.eof
  /\ r.state = "error" \/ (r.state = "header" /\ Parsed(r) = 0)

\* No more can be read than was written.
SeenFits ==
  /\ seen = [index |-> seen.index, media |-> seen.media]
  /\ seen.index \in 0..Len(file) /\ seen.media \in 0..media

ReadersFit ==
  /\ item # NoItem => ReaderFits(item.reader) /\ item.reader.frames # 0
  /\ \A u \in Inputs : input[u].at = "creating" => ReaderFits(made) \/ OtherFits(made)

(* The inputs. *)

InputsFit ==
  \A u \in Inputs :
       /\ input[u].frames \in Nat /\ input[u].size \in 0..seen.media
       /\ input[u].at # "shrunk"
       /\ IF input[u].at \in {"closed", "creating"}
          THEN input[u].frames = 0
          ELSE input[u].frames <= Calculate(item.reader, input[u].size)

-----------------------------------------------------------------------------
(* The generators.                                                         *)

\* What Append makes of a sequence.
LEMMA Appended ==
  ASSUME NEW S, NEW s \in Seq(S), NEW e \in S
  PROVE  /\ Append(s, e) \in Seq(S) /\ Len(s) \in Nat /\ Len(Append(s, e)) = Len(s) + 1
         /\ Append(s, e)[Len(s) + 1] = e
         /\ \A k \in 1..Len(s) : Append(s, e)[k] = s[k] /\ s[k] \in S
BY AppendProperties, LenProperties, ElementOfSeq


\* What a generator makes of a key frame: nothing yet, or one more item.
Adds(g, h) ==
  \/ h.items = g.items
  \/ \E i \in ItemRecords :
       h.items = Append(g.items, i) /\ i.frame = Reach(g.items, Len(g.items))

\* A generator whose items and packets are as they should be, and one that comes
\* from it.
Ready(g, ps, size, d) ==
  /\ g \in GeneratorRecords /\ ps \in Seq(PacketRecords) /\ size \in Nat /\ d \in BOOLEAN
  /\ InRow(ps, size, d) /\ Tiles(g.items)
  /\ \A k \in 1..Len(g.items) : Spans(g.items[k], ps, d)
  /\ Waits(g, ps, size, d)
Follows(g, h) == h.state = g.state /\ h.flushed = g.flushed /\ Adds(g, h)

\* A generator h that comes from g, and its items.
Grown(g, h, ps, d) ==
  /\ g \in GeneratorRecords /\ h \in GeneratorRecords /\ Follows(g, h)
  /\ Tiles(h.items) /\ \A k \in 1..Len(h.items) : Spans(h.items[k], ps, d)

\* The generator is given lengths, or has to find them out.
Knows(g, length) == g.known <=> length # 0

\* What enrolling leaves besides.
Enrolls(g, h, length) == h.finished = g.finished /\ Knows(h, length)

\* A packet of this size, and the media after it.
Packet(key, size, more, d) ==
  [key |-> key, at |-> IF d THEN size ELSE Held, end |-> IF d THEN size + more ELSE Held]
After(size, more, d) == IF d THEN size + more ELSE size

\* What they are.
PacketFits(p, next, key, size, d) ==
  /\ p \in PacketRecords /\ (p.key <=> key) /\ next \in Nat /\ size <= next
  /\ p.at = Held \/ (p.at = size /\ p.end = next /\ size < next)
  /\ d <=> p.at # Held
LEMMA PacketIs ==
  ASSUME NEW size \in Nat, NEW more \in Nat \ {0}, NEW d \in BOOLEAN, NEW key \in BOOLEAN,
         NEW p, p = Packet(key, size, more, d), NEW next, next = After(size, more, d)
  PROVE  PacketFits(p, next, key, size, d)
<1>1. Held = -1 /\ Held \in Int /\ size + more \in Nat /\ size < size + more
  BY DEF Held
<1>2. CASE d = TRUE
  <2>1. p = [key |-> key, at |-> size, end |-> size + more] /\ next = size + more
    BY <1>2 DEF Packet, After
  <2> QED BY <1>1, <1>2, <2>1 DEF PacketRecords, PacketFits
<1>3. CASE d = FALSE
  <2>1. p = [key |-> key, at |-> Held, end |-> Held] /\ next = size
    BY <1>3 DEF Packet, After
  <2> QED BY <1>1, <1>3, <2>1 DEF PacketRecords, PacketFits
<1> QED BY <1>2, <1>3

\* What lies in the media lies in more.
LEMMA LiesLonger ==
  ASSUME NEW p, NEW size \in Nat, NEW more \in Nat, size <= more, Lies(p, size)
  PROVE  Lies(p, more)
BY DEF Lies

\* The packets stay in a row.
LEMMA InRowMore ==
  ASSUME NEW ps \in Seq(PacketRecords), NEW size \in Nat, NEW more \in Nat \ {0},
         NEW d \in BOOLEAN, InRow(ps, size, d), NEW key \in BOOLEAN,
         NEW p, p = Packet(key, size, more, d), ps = <<>> => key,
         NEW next, next = After(size, more, d)
  PROVE  Append(ps, p) \in Seq(PacketRecords) /\ InRow(Append(ps, p), next, d)
<1> DEFINE qs == Append(ps, p)
<1>1. /\ p \in PacketRecords /\ (p.key <=> key) /\ next \in Nat /\ size <= next
      /\ p.at = Held \/ (p.at = size /\ p.end = next /\ size < next)
      /\ d <=> p.at # Held
  <2>1. PacketFits(p, next, key, size, d)
    BY PacketIs
  <2> QED BY <2>1 DEF PacketFits
<1>2. /\ qs \in Seq(PacketRecords) /\ Len(ps) \in Nat /\ Len(qs) = Len(ps) + 1
      /\ qs[Len(ps) + 1] = p
      /\ \A k \in 1..Len(ps) : qs[k] = ps[k] /\ ps[k] \in PacketRecords
  BY <1>1, Appended
<1> HIDE DEF qs
<1>3. qs[1].key
  <2>1. CASE ps = <<>>
    <3>1. Len(ps) = 0
      BY <2>1, EmptySeq
    <3>2. Len(ps) + 1 = 1
      BY <3>1
    <3>3. qs[1] = p
      BY <1>2, <3>2
    <3> QED BY <1>1, <2>1, <3>3
  <2>2. CASE ps # <<>>
    <3>1. 1 \in 1..Len(ps)
      BY <1>2, <2>2, EmptySeq
    <3> QED BY <1>2, <2>2, <3>1 DEF InRow
  <2> QED BY <2>1, <2>2
<1>4. ASSUME NEW j \in 1..Len(qs), qs[j].at # Held
      PROVE  Lies(qs[j], next)
  <2>1. CASE j \in 1..Len(ps)
    <3>1. Lies(ps[j], size) /\ qs[j] = ps[j]
      BY <1>2, <1>4, <2>1 DEF InRow
    <3> QED BY <1>1, <3>1, LiesLonger
  <2>2. CASE j = Len(ps) + 1
    <3>1. p.at = size /\ p.end = next /\ size < next /\ qs[j] = p
      BY <1>1, <1>2, <1>4, <2>2
    <3> QED BY <1>1, <3>1 DEF Lies
  <2> QED BY <1>2, <2>1, <2>2
<1>5. ASSUME NEW j \in 1..Len(qs), NEW k \in 1..Len(qs), j < k, qs[k].at # Held
      PROVE  qs[j].at # Held /\ qs[j].end <= qs[k].at
  <2>1. j \in 1..Len(ps)
    BY <1>2, <1>5
  <2>2. CASE k \in 1..Len(ps)
    BY <1>2, <1>5, <2>1, <2>2 DEF InRow
  <2>3. CASE k = Len(ps) + 1
    <3>1. p.at = size /\ d /\ qs[k] = p /\ qs[j] = ps[j]
      BY <1>1, <1>2, <1>5, <2>1, <2>3
    <3>2. ps[j].at # Held
      BY <2>1, <3>1 DEF InRow
    <3>3. Lies(ps[j], size)
      BY <2>1, <3>2 DEF InRow
    <3> QED BY <3>1, <3>2, <3>3 DEF Lies
  <2> QED BY <1>2, <2>2, <2>3
<1>6. ASSUME d, NEW j \in 1..Len(qs)  PROVE qs[j].at # Held
  <2>1. CASE j \in 1..Len(ps)
    BY <1>2, <1>6, <2>1 DEF InRow
  <2>2. CASE j = Len(ps) + 1
    BY <1>1, <1>2, <1>6, <2>2
  <2> QED BY <1>2, <2>1, <2>2
<1>7. InRow(qs, next, d)
  BY <1>3, <1>4, <1>5, <1>6 DEF InRow
<1> QED BY <1>2, <1>7 DEF qs

\* An item spans what it spanned.
LEMMA SpansMore ==
  ASSUME NEW ps \in Seq(PacketRecords), NEW p \in PacketRecords, NEW d,
         NEW i \in ItemRecords, Spans(i, ps, d)
  PROVE  Spans(i, Append(ps, p), d)
<1> DEFINE qs == Append(ps, p)
<1>1. /\ Len(ps) \in Nat /\ Len(qs) = Len(ps) + 1 /\ \A k \in 1..Len(ps) : qs[k] = ps[k]
  BY Appended
<1> HIDE DEF qs
<1>2. i.frame \in Nat /\ i.frames \in Nat \ {0} /\ i.frame + i.frames <= Len(ps)
  BY DEF ItemRecords, Spans
<1>3. /\ i.frame + 1 \in 1..Len(ps) /\ i.frame + i.frames \in 1..Len(ps)
      /\ \A j \in i.frame + 2..i.frame + i.frames : j \in 1..Len(ps)
      /\ i.frame + i.frames <= Len(qs)
  BY <1>1, <1>2
<1> QED BY <1>1, <1>3 DEF Spans, qs

\* One more tile.
LEMMA TilesMore ==
  ASSUME NEW items \in Seq(ItemRecords), Tiles(items), NEW i \in ItemRecords,
         i.frame = Reach(items, Len(items)),
         \A k \in 1..Len(items) : items[k].offset + items[k].length <= i.offset
  PROVE  /\ Append(items, i) \in Seq(ItemRecords) /\ Tiles(Append(items, i))
         /\ Reach(Append(items, i), Len(Append(items, i))) = i.frame + i.frames
<1> DEFINE new == Append(items, i)
<1>1. /\ new \in Seq(ItemRecords) /\ Len(items) \in Nat /\ Len(new) = Len(items) + 1
      /\ new[Len(items) + 1] = i
      /\ \A k \in 1..Len(items) : new[k] = items[k] /\ items[k] \in ItemRecords
  BY Appended
<1> HIDE DEF new
<1>2. ASSUME NEW k \in 0..Len(items)  PROVE Reach(new, k) = Reach(items, k)
  BY <1>1 DEF Reach
<1>3. ASSUME NEW k \in 1..Len(new)  PROVE new[k].frame = Reach(new, k - 1)
  <2>1. k - 1 \in 0..Len(items) /\ (k \in 1..Len(items) \/ k - 1 = Len(items))
    BY <1>1
  <2>2. CASE k \in 1..Len(items)
    BY <1>1, <1>2, <2>1, <2>2 DEF Tiles
  <2>3. CASE k - 1 = Len(items)
    <3>1. k = Len(items) + 1
      BY <1>1, <2>3
    <3> QED BY <1>1, <1>2, <2>1, <2>3, <3>1
  <2> QED BY <2>1, <2>2, <2>3
<1>4. ASSUME NEW k \in 1..Len(items)  PROVE items[k].frame + items[k].frames <= i.frame
  <2>1. Len(items) \in 1..Len(items) /\ i.frame = items[Len(items)].frame + items[Len(items)].frames
    BY <1>1 DEF Reach
  <2>2. CASE k = Len(items)
    BY <2>1, <2>2, <1>1 DEF ItemRecords
  <2>3. CASE k < Len(items)
    <3>1. items[k].frame + items[k].frames <= items[Len(items)].frame
      BY <2>1, <2>3 DEF Tiles
    <3>2. /\ items[k].frame \in Nat /\ items[k].frames \in Nat
          /\ items[Len(items)].frame \in Nat /\ items[Len(items)].frames \in Nat
      BY <1>1, <2>1 DEF ItemRecords
    <3> QED BY <2>1, <3>1, <3>2
  <2> QED BY <1>1, <2>2, <2>3
<1>5. ASSUME NEW k \in 1..Len(new), NEW l \in 1..Len(new), k < l
      PROVE  /\ new[k].frame + new[k].frames <= new[l].frame
             /\ new[k].offset + new[k].length <= new[l].offset
  <2>1. k \in 1..Len(items)
    BY <1>1, <1>5
  <2>2. CASE l \in 1..Len(items)
    BY <1>1, <1>5, <2>1, <2>2 DEF Tiles
  <2>3. CASE l = Len(items) + 1
    BY <1>1, <1>4, <2>1, <2>3
  <2> QED BY <1>1, <2>2, <2>3
<1>6. Tiles(new)
  BY <1>3, <1>5 DEF Tiles
<1>7. Reach(new, Len(new)) = i.frame + i.frames
  BY <1>1 DEF Reach
<1> QED BY <1>1, <1>6, <1>7 DEF new

\* What is left of n after one of the first, and of z after what ends in it.
LEMMA Rest ==
  ASSUME NEW n \in Nat, NEW p \in 0..n - 1, NEW a \in Nat, NEW e \in Nat, NEW z \in Nat,
         a < e, e <= z
  PROVE  n - p \in Nat \ {0} /\ p \in Nat /\ z - a \in Nat \ {0}
OBVIOUS

\* What is somewhere ends somewhere.
LEMMA EndIsThere == ASSUME NEW x \in Nat, NEW y \in Nat  PROVE x + y \in Nat
OBVIOUS

\* What ends before something begins before it.
LEMMA Sooner ==
  ASSUME NEW a \in Nat, NEW e \in Nat, NEW z \in Nat, a < e, e <= z  PROVE a < z
OBVIOUS

\* What is left of it, put behind it, ends where it did.
LEMMA RestIs ==
  ASSUME NEW x \in Nat, NEW n \in Nat  PROVE x + (n - x) = n
OBVIOUS

\* The item that waits ends here.
LEMMA Waiting ==
  ASSUME NEW g \in GeneratorRecords, NEW ps \in Seq(PacketRecords), NEW size \in Nat,
         NEW d \in BOOLEAN, InRow(ps, size, d), Waits(g, ps, size, d), g.position # -1, ~g.known,
         g.offset < size,
         NEW i, i = [frames |-> Len(ps) - g.position, frame |-> g.position,
                     offset |-> g.offset, length |-> size - g.offset]
  PROVE  /\ i \in ItemRecords /\ i.frame = g.position /\ i.frame + i.frames = Len(ps)
         /\ i.offset = g.offset /\ i.offset + i.length = size /\ Spans(i, ps, d)
         /\ i.frame = Reach(g.items, Len(g.items))
         /\ \A k \in 1..Len(g.items) : g.items[k].offset + g.items[k].length <= i.offset
<1>1. /\ Len(ps) \in Nat /\ g.position \in 0..Len(ps) - 1 /\ g.offset \in 0..size
      /\ NotBehind(g.offset, ps[g.position + 1]) /\ ps[g.position + 1].key
      /\ d => /\ g.offset = ps[g.position + 1].at
              /\ \A j \in g.position + 2..Len(ps) : ~ps[j].key
      /\ g.position = Reach(g.items, Len(g.items))
      /\ \A k \in 1..Len(g.items) : g.items[k].offset + g.items[k].length <= g.offset
  BY LenProperties DEF Waits
<1>2. g.position + 1 \in 1..Len(ps) /\ Len(ps) \in 1..Len(ps)
  BY <1>1
<1>3. d => ps[Len(ps)].end <= size
  <2>1. ASSUME d  PROVE Lies(ps[Len(ps)], size)
    BY <1>2, <2>1 DEF InRow
  <2> QED BY <2>1 DEF Lies
<1>4. /\ i.frames = Len(ps) - g.position /\ i.frame = g.position
      /\ i.offset = g.offset /\ i.length = size - g.offset
  OBVIOUS
<1>5. /\ Len(ps) - g.position \in Nat \ {0} /\ g.position \in Nat
      /\ g.offset \in Nat /\ size - g.offset \in Nat \ {0}
  <2> DEFINE n == Len(ps)
             p == g.position
             a == g.offset
  <2>1. n \in Nat /\ p \in 0..n - 1 /\ a \in Nat /\ a < size /\ size <= size
    BY <1>1
  <2> HIDE DEF n, p, a
  <2>2. n - p \in Nat \ {0} /\ p \in Nat /\ size - a \in Nat \ {0}
    BY <2>1, Rest
  <2> QED BY <2>1, <2>2 DEF n, p, a
<1>6. i \in ItemRecords
  BY <1>5 DEF ItemRecords
<1>7. i.frame + i.frames = Len(ps) /\ i.offset + i.length = size
  <2>1. g.position + (Len(ps) - g.position) = Len(ps)
    BY <1>1, <1>5, RestIs
  <2>2. g.offset + (size - g.offset) = size
    BY <1>5, RestIs
  <2> QED BY <1>4, <2>1, <2>2
<1>8. Spans(i, ps, d)
  <2>1. i.frame + i.frames <= Len(ps)
    BY <1>1, <1>7
  <2>2. ps[i.frame + 1].key /\ NotBehind(i.offset, ps[i.frame + 1])
    BY <1>1, <1>4
  <2>3. ASSUME d
        PROVE  /\ i.offset = ps[i.frame + 1].at
               /\ ps[i.frame + i.frames].end <= i.offset + i.length
               /\ \A j \in i.frame + 2..i.frame + i.frames : ~ps[j].key
    <3>1. i.offset = ps[i.frame + 1].at
      BY <1>1, <1>4, <2>3
    <3>2. ps[i.frame + i.frames].end <= i.offset + i.length
      BY <1>3, <1>7, <2>3
    <3>3. \A j \in i.frame + 2..i.frame + i.frames : ~ps[j].key
      BY <1>1, <1>4, <1>7, <2>3
    <3> QED BY <3>1, <3>2, <3>3
  <2> QED BY <2>1, <2>2, <2>3 DEF Spans
<1> QED BY <1>1, <1>4, <1>6, <1>7, <1>8

\* A packet that is not enrolled belongs to the item that waits.
LEMMA WaitsOn ==
  ASSUME NEW g \in GeneratorRecords, NEW ps \in Seq(PacketRecords), NEW size \in Nat,
         NEW d \in BOOLEAN, Waits(g, ps, size, d), ~g.known, ps # <<>>,
         NEW p \in PacketRecords, d => ~p.key, NEW next \in Nat, size <= next
  PROVE  Waits(g, Append(ps, p), next, d)
<1> DEFINE qs == Append(ps, p)
<1>2. /\ Len(ps) \in Nat /\ Len(qs) = Len(ps) + 1 /\ qs[Len(ps) + 1] = p
      /\ \A k \in 1..Len(ps) : qs[k] = ps[k]
  BY Appended
<1> HIDE DEF qs
<1>3. /\ g.position # -1 /\ g.position \in 0..Len(ps) - 1 /\ g.position + 1 \in 1..Len(ps)
      /\ g.offset \in 0..next
  BY <1>2 DEF Waits
<1>4. /\ NotBehind(g.offset, qs[g.position + 1]) /\ qs[g.position + 1].key
      /\ d => g.offset = qs[g.position + 1].at
      /\ Reach(g.items, Len(g.items)) = g.position
      /\ \A k \in 1..Len(g.items) : g.items[k].offset + g.items[k].length <= g.offset
  BY <1>2, <1>3 DEF Waits
<1>5. d => \A j \in g.position + 2..Len(ps) : ~ps[j].key
  BY <1>3 DEF Waits
<1>6. ASSUME d, NEW j \in g.position + 2..Len(qs) PROVE ~qs[j].key
  <2>1. CASE j = Len(ps) + 1
    BY <1>2, <1>6, <2>1
  <2>2. CASE j # Len(ps) + 1
    <3>1. j \in g.position + 2..Len(ps) /\ j \in 1..Len(ps)
      BY <1>2, <1>3, <2>2
    <3> QED BY <1>2, <1>5, <1>6, <3>1
  <2> QED BY <2>1, <2>2
<1>7. g.position \in 0..Len(qs) - 1
  BY <1>2, <1>3
<1>8. Waits(g, qs, next, d)
  BY <1>3, <1>4, <1>6, <1>7 DEF Waits
<1> QED BY <1>8 DEF qs

\* A record of this form is a generator.
LEMMA AGenerator ==
  ASSUME NEW h, h = [state |-> h.state, items |-> h.items, flushed |-> h.flushed,
                     position |-> h.position, offset |-> h.offset, known |-> h.known,
                     finished |-> h.finished],
         h.state \in {"header", "item", "footer"}, h.items \in Seq(ItemRecords),
         h.flushed \in Nat, h.position \in Int, h.offset \in Int,
         h.known \in BOOLEAN, h.finished \in BOOLEAN
  PROVE  h \in GeneratorRecords
BY DEF GeneratorRecords

\* The item that waits begins in the media, and in front of their end when its
\* key frame is written.
LEMMA Begins ==
  ASSUME NEW g, NEW ps, NEW size, NEW d, Ready(g, ps, size, d), g.position # -1
  PROVE  /\ g.position < Len(ps) /\ g.offset \in Nat /\ g.offset <= size
         /\ ps[g.position + 1].at # Held => g.offset < size
         /\ d => g.offset < size
<1>0. ps \in Seq(PacketRecords) /\ size \in Nat /\ InRow(ps, size, d) /\ Waits(g, ps, size, d)
  BY DEF Ready
<1>1. /\ g.position \in 0..Len(ps) - 1 /\ g.offset \in 0..size
      /\ NotBehind(g.offset, ps[g.position + 1]) /\ Len(ps) \in Nat
  BY <1>0, LenProperties DEF Waits
<1>2. g.position + 1 \in 1..Len(ps)
  BY <1>1
<1>3. ps[g.position + 1].at # Held => g.offset < size
  <2>1. ASSUME ps[g.position + 1].at # Held  PROVE g.offset < size
    <3>1. Lies(ps[g.position + 1], size) /\ g.offset <= ps[g.position + 1].at
      BY <1>0, <1>1, <1>2, <2>1 DEF InRow, NotBehind
    <3> DEFINE x == ps[g.position + 1].at
               y == ps[g.position + 1].end
               o == g.offset
    <3>2. x \in Nat /\ y \in Nat /\ x < y /\ y <= size /\ o <= x /\ o \in Nat /\ size \in Nat
      BY <1>0, <1>1, <3>1 DEF Lies
    <3> HIDE DEF x, y, o
    <3>3. o < size
      BY <3>2
    <3> QED BY <3>3 DEF o
  <2> QED BY <2>1
<1>4. d => ps[g.position + 1].at # Held
  BY <1>0, <1>2 DEF InRow
<1> QED BY <1>0, <1>1, <1>3, <1>4

\* The items of a generator that takes a key frame.
Told(g, h, qs, next, length, d) ==
  /\ Ready(h, qs, next, d) /\ Follows(g, h) /\ Enrolls(g, h, length)
  /\ g.position = -1 /\ length = 0 => h.items = g.items
LEMMA Enrolled ==
  ASSUME NEW g, NEW ps, NEW size, NEW d, Ready(g, ps, size, d), NEW more \in Nat \ {0},
         NEW length \in {0, more}, g.position # -1 => Knows(g, length), length # 0 => d,
         NEW h, h = Enroll(g, Len(ps), size, length),
         NEW qs, qs = Append(ps, Packet(TRUE, size, more, d)),
         NEW next, next = After(size, more, d)
  PROVE  Told(g, h, qs, next, length, d)
<1> DEFINE p == Packet(TRUE, size, more, d)
<1>0. /\ g \in GeneratorRecords /\ ps \in Seq(PacketRecords) /\ size \in Nat /\ d \in BOOLEAN
      /\ InRow(ps, size, d) /\ Tiles(g.items)
      /\ \A k \in 1..Len(g.items) : Spans(g.items[k], ps, d)
      /\ Waits(g, ps, size, d)
  BY DEF Ready
<1>p. p = Packet(TRUE, size, more, d) /\ TRUE \in BOOLEAN /\ qs = Append(ps, p)
  OBVIOUS
<1> HIDE DEF p
<1>1. /\ p \in PacketRecords /\ p.key /\ next \in Nat /\ size <= next
      /\ p.at = Held \/ (p.at = size /\ p.end = next)
      /\ d <=> p.at # Held
  <2>1. PacketFits(p, next, TRUE, size, d)
    BY <1>0, <1>p, PacketIs
  <2> QED BY <2>1 DEF PacketFits
<1>2. /\ Len(ps) \in Nat /\ Len(qs) = Len(ps) + 1 /\ qs[Len(ps) + 1] = p
      /\ qs \in Seq(PacketRecords)
      /\ \A k \in 1..Len(ps) : qs[k] = ps[k]
      /\ InRow(qs, next, d)
  <2>1. InRow(qs, next, d) /\ qs \in Seq(PacketRecords)
    BY <1>0, <1>p, InRowMore
  <2>2. /\ Len(ps) \in Nat /\ Len(Append(ps, p)) = Len(ps) + 1
        /\ Append(ps, p)[Len(ps) + 1] = p
        /\ \A k \in 1..Len(ps) : Append(ps, p)[k] = ps[k]
    BY <1>0, <1>1, Appended
  <2> QED BY <1>p, <2>1, <2>2
<1>n. NotBehind(size, p) /\ (d => size = p.at)
  BY <1>0, <1>1 DEF NotBehind
<1>d. length # 0 => d = TRUE /\ next = size + more /\ p.at = size /\ p.end = size + more
  BY <1>0, <1>1 DEF After
<1>3. /\ g.state \in {"header", "item", "footer"} /\ g.items \in Seq(ItemRecords)
      /\ g.position \in Int /\ g.offset \in Int /\ g.known \in BOOLEAN
      /\ g.flushed \in Nat /\ g.finished \in BOOLEAN
      /\ g = [state |-> g.state, items |-> g.items, flushed |-> g.flushed,
              position |-> g.position, offset |-> g.offset, known |-> g.known,
              finished |-> g.finished]
  BY <1>0 DEF GeneratorRecords
<1>4. \A k \in 1..Len(g.items) : g.items[k] \in ItemRecords
  BY <1>3, ElementOfSeq
<1>5. \A k \in 1..Len(g.items) : Spans(g.items[k], qs, d)
  BY <1>0, <1>1, <1>p, <1>4, SpansMore
<1>6. ASSUME g.position # -1
      PROVE  g.position < Len(ps) /\ g.offset <= size /\ g.offset \in Nat
             /\ (d => g.offset < size)
  BY <1>6, Begins
<1>7. ASSUME g.position = -1
      PROVE  g.offset = -1 /\ g.items = <<>> /\ Len(g.items) = 0 /\ ps = <<>> /\ Len(ps) = 0
  BY <1>0, <1>7, EmptySeq DEF Waits
<1>8. ~(\/ g.state = "error" \/ Len(ps) <= g.position \/ size < g.offset
        \/ (g.position # -1 /\ g.known /\ length <= 0))
  BY <1>0, <1>2, <1>3, <1>6, <1>7 DEF Knows
<1>10. CASE g.position = -1 /\ length = 0
  <2>1. h = [g EXCEPT !.position = Len(ps), !.offset = size]
    BY <1>8, <1>10 DEF Enroll
  <2>2. /\ h.state = g.state /\ h.items = g.items /\ h.flushed = g.flushed
        /\ h.position = Len(ps) /\ h.offset = size /\ h.known = g.known
        /\ h.finished = g.finished
        /\ h = [state |-> h.state, items |-> h.items, flushed |-> h.flushed,
                position |-> h.position, offset |-> h.offset, known |-> h.known,
                finished |-> h.finished]
    BY <1>3, <2>1
  <2>3. h \in GeneratorRecords
    <3>1. h.position \in Int /\ h.offset \in Int
      BY <1>0, <1>2, <2>2
    <3> QED BY <1>3, <2>2, <3>1, AGenerator
  <2>4. ~h.known
    BY <1>0, <1>10, <2>2 DEF Waits
  <2>5. Waits(h, qs, next, d)
    <3>1. h.position = 0 /\ Len(h.items) = 0 /\ h.offset = size
      BY <1>7, <1>10, <2>2
    <3>2. Len(qs) = 1 /\ qs[1] = p
      <4>1. Len(ps) + 1 = 1
        BY <1>7, <1>10
      <4> QED BY <1>2, <4>1
    <3>3. h.offset \in 0..next
      BY <1>0, <1>1, <3>1
    <3>4. /\ NotBehind(h.offset, qs[1]) /\ (d => h.offset = qs[1].at) /\ qs[1].key
      BY <1>1, <1>n, <3>1, <3>2
    <3>5. h.position \in 0..Len(qs) - 1 /\ h.position + 1 = 1 /\ h.position # -1
          /\ h.position + 2 > Len(qs)
      BY <3>1, <3>2
    <3>8. \A j \in h.position + 2..Len(qs) : ~qs[j].key
      BY <3>1, <3>2, <3>5
    <3>6. Reach(h.items, Len(h.items)) = h.position
      BY <3>1 DEF Reach
    <3>7. \A k \in 1..Len(h.items) : h.items[k].offset + h.items[k].length <= h.offset
      BY <3>1
    <3> QED BY <2>4, <3>3, <3>4, <3>5, <3>6, <3>7, <3>8 DEF Waits
  <2>6. Tiles(h.items) /\ \A k \in 1..Len(h.items) : Spans(h.items[k], qs, d)
    BY <1>0, <1>5, <2>2
  <2>7. Ready(h, qs, next, d)
    BY <1>0, <1>1, <1>2, <2>3, <2>5, <2>6 DEF Ready
  <2> QED BY <1>10, <2>2, <2>4, <2>7 DEF Follows, Adds, Knows, Enrolls, Told
<1>9. CASE ~(g.position = -1 /\ length = 0) /\ size = g.offset
  <2>1. h = g
    BY <1>8, <1>9 DEF Enroll
  <2>2. g.position # -1 /\ ~d /\ length = 0
    BY <1>0, <1>3, <1>6, <1>7, <1>9
  <2>3. ~g.known /\ ps # <<>>
    BY <1>0, <2>2, EmptySeq DEF Knows, Waits
  <2>4. Waits(g, qs, next, d)
    BY <1>0, <1>1, <1>p, <2>2, <2>3, WaitsOn
  <2>5. Ready(h, qs, next, d)
    BY <1>0, <1>1, <1>2, <1>5, <2>1, <2>4 DEF Ready
  <2> QED BY <2>1, <2>2, <2>5 DEF Follows, Adds, Enrolls, Told
<1>11. CASE ~(g.position = -1 /\ length = 0) /\ size # g.offset
  <2> DEFINE i == [frames |-> Len(ps) - g.position,
                   frame  |-> IF length > 0 THEN Len(ps) ELSE g.position,
                   offset |-> IF length > 0 THEN size ELSE g.offset,
                   length |-> IF length > 0 THEN length ELSE size - g.offset]
  <2>1. h = [g EXCEPT !.position = Len(ps), !.offset = size, !.known = length > 0,
                      !.items = Append(@, i)]
    BY <1>8, <1>11 DEF Enroll
  <2>2. ASSUME length = 0
        PROVE  i = [frames |-> Len(ps) - g.position, frame |-> g.position,
                    offset |-> g.offset, length |-> size - g.offset]
    BY <2>2
  <2>3. ASSUME length # 0
        PROVE  length = more /\ length > 0
               /\ i = [frames |-> Len(ps) - g.position, frame |-> Len(ps),
                       offset |-> size, length |-> more]
    BY <2>3
  <2> HIDE DEF i
  <2>4. /\ h.state = g.state /\ h.items = Append(g.items, i) /\ h.flushed = g.flushed
        /\ h.position = Len(ps) /\ h.offset = size /\ h.known = (length > 0)
        /\ h.finished = g.finished
        /\ h = [state |-> h.state, items |-> h.items, flushed |-> h.flushed,
                position |-> h.position, offset |-> h.offset, known |-> h.known,
                finished |-> h.finished]
    BY <1>3, <2>1
  <2>5. /\ i \in ItemRecords /\ Spans(i, qs, d) /\ i.frame = Reach(g.items, Len(g.items))
        /\ i.frame + i.frames = IF length = 0 THEN Len(ps) ELSE Len(qs)
        /\ i.offset + i.length = IF length = 0 THEN size ELSE next
        /\ \A k \in 1..Len(g.items) : g.items[k].offset + g.items[k].length <= i.offset
    <3>1. CASE length = 0
      <4>0. g.position # -1 /\ ~g.known /\ g.offset < size
        BY <1>0, <1>6, <1>11, <3>1 DEF Knows
      <4>1. /\ i \in ItemRecords /\ i.frame = g.position /\ i.frame + i.frames = Len(ps)
            /\ i.offset = g.offset /\ i.offset + i.length = size /\ Spans(i, ps, d)
            /\ i.frame = Reach(g.items, Len(g.items))
            /\ \A k \in 1..Len(g.items) : g.items[k].offset + g.items[k].length <= i.offset
        BY <1>0, <2>2, <3>1, <4>0, Waiting
      <4> QED BY <1>0, <1>1, <1>p, <3>1, <4>1, SpansMore
    <3>2. CASE length # 0
      <4>1. /\ Len(ps) - g.position = 1 /\ Len(ps) = Reach(g.items, Len(g.items))
            /\ \A k \in 1..Len(g.items) : g.items[k].offset + g.items[k].length <= size
        <5>1. CASE g.position = -1
          BY <1>7, <5>1 DEF Reach
        <5>2. CASE g.position # -1
          BY <1>0, <1>2, <3>2, <5>2 DEF Waits, Knows
        <5> QED BY <5>1, <5>2
      <4>2. i = [frames |-> 1, frame |-> Len(ps), offset |-> size, length |-> more]
        BY <2>3, <3>2, <4>1
      <4>3. /\ i \in ItemRecords /\ i.frame = Len(ps) /\ i.frames = 1 /\ i.offset = size
            /\ i.length = more /\ Spans(i, qs, d)
        <5>1. i.frame = Len(ps) /\ i.frames = 1 /\ i.offset = size /\ i.length = more
          BY <4>2
        <5>2. i \in ItemRecords
          BY <1>0, <1>2, <4>2 DEF ItemRecords
        <5>3. \A j \in i.frame + 2..i.frame + i.frames : ~qs[j].key
          BY <1>2, <5>1
        <5>4. i.frame + i.frames = Len(qs) /\ i.frame + 1 = Len(qs) /\ qs[Len(qs)] = p
          BY <1>2, <5>1
        <5>5. p.key /\ p.at = size /\ p.end = i.offset + i.length
          BY <1>1, <1>d, <3>2, <5>1
        <5>6. /\ i.frame + i.frames <= Len(qs) /\ qs[i.frame + 1].key
              /\ NotBehind(i.offset, qs[i.frame + 1])
              /\ i.offset = qs[i.frame + 1].at
              /\ qs[i.frame + i.frames].end <= i.offset + i.length
          <6>1. i.frame + i.frames <= Len(qs)
            BY <1>2, <5>4
          <6>2. qs[i.frame + 1] = p /\ qs[i.frame + i.frames] = p
            BY <5>4
          <6>3. size + more <= size + more /\ size <= size
            BY <1>0
          <6>4. p.end <= i.offset + i.length /\ i.offset = p.at /\ NotBehind(i.offset, p)
            BY <5>1, <5>5, <6>3 DEF NotBehind
          <6> QED BY <5>5, <6>1, <6>2, <6>4
        <5>7. Spans(i, qs, d)
          BY <5>3, <5>6 DEF Spans
        <5> QED BY <5>1, <5>2, <5>7
      <4> QED BY <1>2, <1>d, <3>2, <4>1, <4>3
    <3> QED BY <3>1, <3>2
  <2>6. /\ h.items \in Seq(ItemRecords) /\ Tiles(h.items)
        /\ Reach(h.items, Len(h.items)) = i.frame + i.frames
    BY <1>0, <1>3, <2>4, <2>5, TilesMore
  <2>7. /\ Len(g.items) \in Nat /\ Len(h.items) = Len(g.items) + 1
        /\ h.items[Len(g.items) + 1] = i
        /\ \A k \in 1..Len(g.items) : h.items[k] = g.items[k]
    BY <1>3, <2>4, <2>5, Appended
  <2>8. h \in GeneratorRecords
    <3>1. h.known \in BOOLEAN
      BY <2>4
    <3>2. /\ h.state \in {"header", "item", "footer"} /\ h.items \in Seq(ItemRecords)
          /\ h.position \in Int /\ h.offset \in Int
          /\ h.flushed \in Nat /\ h.finished \in BOOLEAN
      BY <1>0, <1>2, <1>3, <2>4, <2>6
    <3>3. h = [state |-> h.state, items |-> h.items, flushed |-> h.flushed,
               position |-> h.position, offset |-> h.offset, known |-> h.known,
               finished |-> h.finished]
      BY <2>4
    <3> QED BY <3>1, <3>2, <3>3 DEF GeneratorRecords
  <2>9. ASSUME NEW k \in 1..Len(h.items)  PROVE Spans(h.items[k], qs, d)
    <3>1. k \in 1..Len(g.items) \/ k = Len(g.items) + 1
      BY <2>7
    <3> QED BY <1>5, <2>5, <2>7, <3>1
  <2>10. h.known <=> length # 0
    <3>1. length > 0 <=> length # 0
      OBVIOUS
    <3> QED BY <2>4, <3>1
  <2>11. Waits(h, qs, next, d)
    <3>1. ASSUME NEW k \in 1..Len(h.items)
          PROVE  h.items[k].offset + h.items[k].length <= IF length = 0 THEN size ELSE next
      <4>1. CASE k = Len(g.items) + 1
        BY <1>0, <1>1, <2>5, <2>7, <4>1
      <4>2. CASE k # Len(g.items) + 1
        <5>1. k \in 1..Len(g.items) /\ h.items[k] = g.items[k]
          BY <2>7, <4>2
        <5>2. h.items[k].offset + h.items[k].length <= i.offset
          BY <2>5, <5>1
        <5>3. /\ h.items[k].offset \in Nat /\ h.items[k].length \in Nat
              /\ i.offset \in Nat /\ i.length \in Nat
          BY <1>4, <2>5, <5>1 DEF ItemRecords
        <5> DEFINE ends == h.items[k].offset + h.items[k].length
                   bound == IF length = 0 THEN size ELSE next
                   o == i.offset
                   l == i.length
        <5>4. ends \in Nat /\ bound \in Nat /\ o + l = bound /\ ends <= o /\ o \in Nat /\ l \in Nat
          <6>1. ends \in Nat
            BY <5>3, EndIsThere
          <6>2. bound \in Nat
            BY <1>0, <1>1
          <6> HIDE DEF ends, bound
          <6> QED BY <2>5, <5>2, <5>3, <6>1, <6>2 DEF ends, bound
        <5> HIDE DEF ends, bound, o, l
        <5>7. ends <= bound
          BY <5>4
        <5> QED BY <5>7 DEF ends, bound
      <4> QED BY <4>1, <4>2
    <3>2. /\ h.position \in 0..Len(qs) - 1 /\ h.position = Len(qs) - 1
          /\ h.offset \in 0..next
          /\ NotBehind(h.offset, qs[h.position + 1]) /\ qs[h.position + 1].key
          /\ d => h.offset = qs[h.position + 1].at
          /\ h.position # -1 /\ Len(qs) = h.position + 1
      <4>1. qs[h.position + 1] = p
        BY <1>2, <2>4
      <4>2. NotBehind(h.offset, qs[h.position + 1]) /\ (d => h.offset = qs[h.position + 1].at)
            /\ qs[h.position + 1].key
        BY <1>1, <1>n, <2>4, <4>1
      <4>3. /\ h.position \in 0..Len(qs) - 1 /\ h.position = Len(qs) - 1
            /\ h.offset \in 0..next /\ h.position # -1 /\ Len(qs) = h.position + 1
        BY <1>0, <1>1, <1>2, <2>4
      <4> QED BY <4>2, <4>3
    <3>3. CASE length = 0
      <4>1. ~h.known /\ Reach(h.items, Len(h.items)) = h.position
        BY <2>4, <2>5, <2>6, <2>10, <3>3
      <4>2. \A k \in 1..Len(h.items) : h.items[k].offset + h.items[k].length <= h.offset
        BY <2>4, <3>1, <3>3
      <4>3. \A j \in h.position + 2..Len(qs) : ~qs[j].key
        BY <3>2
      <4> QED BY <3>2, <4>1, <4>2, <4>3 DEF Waits
    <3>4. CASE length # 0
      <4>1. h.known /\ d /\ Reach(h.items, Len(h.items)) = Len(qs)
        BY <2>5, <2>6, <2>10, <3>4
      <4>2. \A k \in 1..Len(h.items) : h.items[k].offset + h.items[k].length <= next
        BY <3>1, <3>4
      <4> QED BY <3>2, <4>1, <4>2 DEF Waits
    <3> QED BY <3>3, <3>4
  <2>12. Adds(g, h)
    BY <2>4, <2>5 DEF Adds
  <2>13. Ready(h, qs, next, d)
    BY <1>0, <1>1, <1>2, <2>6, <2>8, <2>9, <2>11 DEF Ready
  <2> QED BY <1>11, <2>4, <2>10, <2>12, <2>13 DEF Follows, Knows, Enrolls, Told
<1> QED BY <1>9, <1>10, <1>11

\* The items of a generator that is closed: the item that waits is the last one.
LEMMA ClosedItems ==
  ASSUME NEW g \in GeneratorRecords, NEW ps \in Seq(PacketRecords), NEW size \in Nat,
         NEW d \in BOOLEAN, InRow(ps, size, d), Tiles(g.items),
         \A k \in 1..Len(g.items) : Spans(g.items[k], ps, d), Waits(g, ps, size, d),
         \A k \in 1..Len(ps) : ps[k].at # Held,
         NEW h, h = CloseGenerator(g, Len(ps), size)
  PROVE  /\ h \in GeneratorRecords /\ h.state = g.state /\ h.flushed = g.flushed
         /\ h.finished /\ Adds(g, h) /\ Tiles(h.items)
         /\ \A k \in 1..Len(h.items) : Spans(h.items[k], ps, d)
         /\ Complete(h.items, ps, size, d)
<1>1. /\ g.state \in {"header", "item", "footer"} /\ g.items \in Seq(ItemRecords)
      /\ g.position \in Int /\ g.offset \in Int /\ g.known \in BOOLEAN
      /\ g.flushed \in Nat /\ g.finished \in BOOLEAN
      /\ g = [state |-> g.state, items |-> g.items, flushed |-> g.flushed,
              position |-> g.position, offset |-> g.offset, known |-> g.known,
              finished |-> g.finished]
  BY DEF GeneratorRecords
<1>2. Len(ps) \in Nat
  BY LenProperties
<1>r. Ready(g, ps, size, d)
  BY DEF Ready
<1>3. ASSUME g.position # -1
      PROVE  g.position < Len(ps) /\ g.offset < size
  <2>1. g.position + 1 \in 1..Len(ps)
    BY <1>2, <1>3 DEF Waits
  <2> QED BY <1>r, <1>3, <2>1, Begins
<1>4. ASSUME g.position = -1  PROVE g.offset = -1 /\ ~g.known
  BY <1>4 DEF Waits
<1>5. ~(g.state = "error" \/ Len(ps) <= g.position \/ size < g.offset) /\ size # g.offset
  BY <1>1, <1>2, <1>3, <1>4
<1> DEFINE e == Enroll(g, Len(ps), size, 0)
<1>6. h = [(IF g.known THEN g ELSE e) EXCEPT
             !.finished = (IF g.known THEN g ELSE e).state # "error"]
  BY <1>5 DEF CloseGenerator
<1> HIDE DEF e
<1>7. CASE g.known
  <2>1. /\ h.state = g.state /\ h.items = g.items /\ h.flushed = g.flushed
        /\ h.position = g.position /\ h.offset = g.offset /\ h.known = g.known
        /\ h.finished = TRUE
        /\ h = [state |-> h.state, items |-> h.items, flushed |-> h.flushed,
                position |-> h.position, offset |-> h.offset, known |-> h.known,
                finished |-> h.finished]
    BY <1>1, <1>6, <1>7
  <2>2. h \in GeneratorRecords
    BY <1>1, <2>1, AGenerator
  <2>3. d
    BY <1>4, <1>7 DEF Waits
  <2> QED BY <2>1, <2>2, <2>3 DEF Adds, Complete
<1>8. CASE ~g.known /\ g.position = -1
  <2>1. e = [g EXCEPT !.position = Len(ps), !.offset = size]
    BY <1>5, <1>8 DEF e, Enroll
  <2>2. /\ e.state = g.state /\ e.items = g.items /\ e.flushed = g.flushed
        /\ e.position = Len(ps) /\ e.offset = size /\ e.known = g.known
        /\ e = [state |-> e.state, items |-> e.items, flushed |-> e.flushed,
                position |-> e.position, offset |-> e.offset, known |-> e.known,
                finished |-> e.finished]
    BY <1>1, <2>1
  <2>3. h = [e EXCEPT !.finished = e.state # "error"]
    BY <1>6, <1>8
  <2>4. /\ h.state = g.state /\ h.items = g.items /\ h.flushed = g.flushed
        /\ h.position = Len(ps) /\ h.offset = size /\ h.known = g.known
        /\ h.finished = TRUE
        /\ h = [state |-> h.state, items |-> h.items, flushed |-> h.flushed,
                position |-> h.position, offset |-> h.offset, known |-> h.known,
                finished |-> h.finished]
    BY <1>1, <2>2, <2>3
  <2>5. h \in GeneratorRecords
    <3>1. /\ h.state \in {"header", "item", "footer"} /\ h.items \in Seq(ItemRecords)
          /\ h.position \in Int /\ h.offset \in Int /\ h.flushed \in Nat
      BY <1>1, <1>2, <2>4
    <3>2. h = [state |-> h.state, items |-> h.items, flushed |-> h.flushed,
               position |-> h.position, offset |-> h.offset, known |-> h.known,
               finished |-> h.finished]
      BY <2>4
    <3>3. h.known \in BOOLEAN /\ h.finished \in BOOLEAN
      BY <1>1, <2>4
    <3> QED BY <3>1, <3>2, <3>3, AGenerator
  <2>6. h.items = <<>>
    BY <1>8, <2>4 DEF Waits
  <2> QED BY <2>4, <2>5, <2>6 DEF Adds, Complete
<1>9. CASE ~g.known /\ g.position # -1
  <2> DEFINE i == [frames |-> Len(ps) - g.position, frame |-> g.position,
                   offset |-> g.offset, length |-> size - g.offset]
  <2>1. e = [g EXCEPT !.position = Len(ps), !.offset = size, !.known = FALSE,
                      !.items = Append(@, i)]
    <3>1. ~(0 > 0) /\ ~(g.position = -1 /\ 0 = 0)
      BY <1>9
    <3>2. ~(\/ g.state = "error" \/ Len(ps) <= g.position \/ size < g.offset
            \/ (g.position # -1 /\ g.known /\ 0 <= 0))
      BY <1>5, <1>9
    <3> DEFINE j == [frames |-> Len(ps) - g.position,
                     frame  |-> IF 0 > 0 THEN Len(ps) ELSE g.position,
                     offset |-> IF 0 > 0 THEN size ELSE g.offset,
                     length |-> IF 0 > 0 THEN 0 ELSE size - g.offset]
    <3>3. e = [g EXCEPT !.position = Len(ps), !.offset = size, !.known = 0 > 0,
                        !.items = Append(@, j)]
      BY <1>5, <3>1, <3>2 DEF e, Enroll
    <3>4. j = i /\ (0 > 0) = FALSE
      BY <3>1
    <3> HIDE DEF i, j
    <3> QED BY <3>3, <3>4
  <2>2. /\ i \in ItemRecords /\ i.frame = g.position /\ i.frame + i.frames = Len(ps)
        /\ i.offset = g.offset /\ i.offset + i.length = size /\ Spans(i, ps, d)
        /\ i.frame = Reach(g.items, Len(g.items))
        /\ \A k \in 1..Len(g.items) : g.items[k].offset + g.items[k].length <= i.offset
    <3>1. g.offset < size
      BY <1>3, <1>9
    <3> QED BY <1>9, <3>1, Waiting
  <2> HIDE DEF i
  <2>3. /\ e.state = g.state /\ e.items = Append(g.items, i) /\ e.flushed = g.flushed
        /\ e.position = Len(ps) /\ e.offset = size /\ e.known = FALSE
        /\ e = [state |-> e.state, items |-> e.items, flushed |-> e.flushed,
                position |-> e.position, offset |-> e.offset, known |-> e.known,
                finished |-> e.finished]
    BY <1>1, <2>1
  <2>4. h = [e EXCEPT !.finished = e.state # "error"]
    BY <1>6, <1>9
  <2>5. /\ h.state = g.state /\ h.items = Append(g.items, i) /\ h.flushed = g.flushed
        /\ h.position = Len(ps) /\ h.offset = size /\ h.known = FALSE
        /\ h.finished = TRUE
        /\ h = [state |-> h.state, items |-> h.items, flushed |-> h.flushed,
                position |-> h.position, offset |-> h.offset, known |-> h.known,
                finished |-> h.finished]
    BY <1>1, <2>3, <2>4
  <2>6. h.items \in Seq(ItemRecords) /\ Tiles(h.items)
    BY <1>1, <2>2, <2>5, TilesMore
  <2>7. h \in GeneratorRecords
    <3>1. /\ h.state \in {"header", "item", "footer"} /\ h.items \in Seq(ItemRecords)
          /\ h.position \in Int /\ h.offset \in Int /\ h.flushed \in Nat
      BY <1>1, <1>2, <2>5, <2>6
    <3>2. h = [state |-> h.state, items |-> h.items, flushed |-> h.flushed,
               position |-> h.position, offset |-> h.offset, known |-> h.known,
               finished |-> h.finished]
      BY <2>5
    <3>3. h.known \in BOOLEAN /\ h.finished \in BOOLEAN
      BY <1>1, <2>5
    <3> QED BY <3>1, <3>2, <3>3, AGenerator
  <2>8. /\ Len(g.items) \in Nat /\ Len(h.items) = Len(g.items) + 1
        /\ h.items[Len(g.items) + 1] = i
        /\ \A k \in 1..Len(g.items) : h.items[k] = g.items[k]
    BY <1>1, <2>2, <2>5, Appended
  <2>9. ASSUME NEW k \in 1..Len(h.items)  PROVE Spans(h.items[k], ps, d)
    <3>1. k \in 1..Len(g.items) \/ k = Len(g.items) + 1
      BY <2>8
    <3> QED BY <2>2, <2>8, <3>1
  <2>10. h.items # <<>> => h.items[Len(h.items)].offset + h.items[Len(h.items)].length = size
    BY <2>2, <2>8
  <2> QED BY <2>2, <2>5, <2>6, <2>7, <2>9, <2>10 DEF Adds, Complete
<1> QED BY <1>7, <1>8, <1>9

\* So it does in the terms of the other lemmas.
LEMMA ClosesGenerator ==
  ASSUME NEW g, NEW ps, NEW size, NEW d, Ready(g, ps, size, d),
         \A k \in 1..Len(ps) : ps[k].at # Held,
         NEW h, h = CloseGenerator(g, Len(ps), size)
  PROVE  Grown(g, h, ps, d) /\ h.finished = TRUE /\ Complete(h.items, ps, size, d)
<1>1. /\ g \in GeneratorRecords /\ ps \in Seq(PacketRecords) /\ size \in Nat /\ d \in BOOLEAN
      /\ InRow(ps, size, d) /\ Tiles(g.items)
      /\ \A k \in 1..Len(g.items) : Spans(g.items[k], ps, d)
      /\ Waits(g, ps, size, d)
  BY DEF Ready
<1>2. /\ h \in GeneratorRecords /\ h.state = g.state /\ h.flushed = g.flushed
      /\ h.finished /\ Adds(g, h) /\ Tiles(h.items)
      /\ \A k \in 1..Len(h.items) : Spans(h.items[k], ps, d)
      /\ Complete(h.items, ps, size, d)
  BY <1>1, ClosedItems
<1>3. h.finished = TRUE
  BY <1>2 DEF GeneratorRecords
<1> QED BY <1>1, <1>2, <1>3 DEF Grown, Follows

-----------------------------------------------------------------------------
(* The words of the file.                                                  *)

\* What some words behind others are.
LEMMA Glued ==
  ASSUME NEW s \in Seq(Nat), NEW t \in Seq(Nat)
  PROVE  /\ s \o t \in Seq(Nat) /\ Len(s) \in Nat /\ Len(t) \in Nat
         /\ Len(s \o t) = Len(s) + Len(t)
         /\ \A k \in 1..Len(s) : (s \o t)[k] = s[k]
         /\ \A k \in 1..Len(t) : (s \o t)[Len(s) + k] = t[k]
BY ConcatProperties, LenProperties

\* Some words behind others, and more behind both.
LEMMA Regrouped ==
  ASSUME NEW s \in Seq(Nat), NEW t \in Seq(Nat), NEW u \in Seq(Nat)
  PROVE  (s \o t) \o u = s \o (t \o u)
BY ConcatAssociative, SMTT(60)

\* Five parts, grouped in two ways.  (Under a name: the provers would otherwise
\* unfold what is glued.)
Glue(x, y) == x \o y
LEMMA FiveParts ==
  ASSUME NEW a \in Seq(Nat), NEW b \in Seq(Nat), NEW c \in Seq(Nat), NEW d \in Seq(Nat),
         NEW e \in Seq(Nat)
  PROVE  Glue(Glue(a, b), Glue(Glue(c, d), e)) = Glue(Glue(Glue(Glue(a, b), c), d), e)
<1>1. \A x, y \in Seq(Nat) : Glue(x, y) \in Seq(Nat)
  BY Glued DEF Glue
<1>2. \A x, y, z \in Seq(Nat) : Glue(Glue(x, y), z) = Glue(x, Glue(y, z))
  BY Regrouped DEF Glue
<1>3. Glue(a, b) \in Seq(Nat) /\ Glue(c, d) \in Seq(Nat)
  BY <1>1
<1>4. Glue(Glue(a, b), Glue(Glue(c, d), e)) = Glue(Glue(Glue(a, b), Glue(c, d)), e)
  BY <1>2, <1>3
<1>5. Glue(Glue(a, b), Glue(c, d)) = Glue(Glue(Glue(a, b), c), d)
  BY <1>2, <1>3
<1> QED BY <1>4, <1>5

\* Nothing behind or before some words.
LEMMA Nothing == ASSUME NEW s \in Seq(Nat) PROVE s \o <<>> = s /\ <<>> \o s = s
BY ConcatEmptySeq

\* So many zeros.
LEMMA ZerosAre ==
  ASSUME NEW n \in Nat
  PROVE  /\ Zeros(n) \in Seq(Nat) /\ Len(Zeros(n)) = n
         /\ n = 0 => Zeros(n) = <<>>
<1>1. Zeros(n) \in [1..n -> Nat]
  BY DEF Zeros
<1>2. Zeros(n) \in Seq(Nat) /\ Len(Zeros(n)) = n
  BY DEF Zeros
<1> QED BY <1>2, EmptySeq

\* The words w are the record of the item i with this tag.
IsRecord(w, tag, i) ==
  /\ w \in Seq(Nat) /\ Len(w) = 10 /\ w[1] = tag
  /\ w[2] = i.frames /\ w[4] = i.frame /\ w[8] = i.offset /\ w[10] = i.length

\* The words of an item are.
LEMMA ItemWordsAre ==
  ASSUME NEW v \in Nat, NEW type \in Nat, NEW i \in ItemRecords
  PROVE  IsRecord(ItemWords(v, type, i), IF v = 4 THEN type ELSE 0, i)
BY DEF ItemWords, ItemRecords, IsRecord

\* The words of a header and of a footer have the room that is made for them.
LEMMA HeaderWordsAre ==
  ASSUME NEW v \in {2, 4}
  PROVE  /\ HeaderWords(v) \in Seq(Nat) /\ Len(HeaderWords(v)) = HeaderSize(v)
         /\ v = 4 => HeaderWords(v)[1] = 0 /\ HeaderWords(v)[2] = AW /\ HeaderWords(v)[3] = I(4)
         /\ v = 2 => HeaderWords(v)[1] = AW /\ HeaderWords(v)[2] = I(2)
<1>1. CASE v = 4
  <2> DEFINE s == <<0, AW, I(v)>>
             z == Zeros(7)
  <2>1. /\ s \in Seq(Nat) /\ Len(s) = 3 /\ s[1] = 0 /\ s[2] = AW /\ s[3] = I(v)
    BY <1>1 DEF AW, I
  <2>2. z \in Seq(Nat) /\ Len(z) = 7
    BY ZerosAre
  <2>3. HeaderWords(v) = s \o z /\ HeaderSize(v) = 10
    BY <1>1 DEF HeaderWords, HeaderSize
  <2> HIDE DEF s, z
  <2>4. /\ s \o z \in Seq(Nat) /\ Len(s \o z) = Len(s) + Len(z)
        /\ \A k \in 1..Len(s) : (s \o z)[k] = s[k]
    BY <2>1, <2>2, Glued
  <2>5. /\ 1 \in 1..Len(s) /\ 2 \in 1..Len(s) /\ 3 \in 1..Len(s)
        /\ Len(s) + Len(z) = 10
    BY <2>1, <2>2
  <2>6. (s \o z)[1] = 0 /\ (s \o z)[2] = AW /\ (s \o z)[3] = I(4)
    BY <1>1, <2>1, <2>4, <2>5
  <2>7. s \o z \in Seq(Nat) /\ Len(s \o z) = 10
    BY <2>4, <2>5
  <2>8. HeaderWords(v) \in Seq(Nat) /\ Len(HeaderWords(v)) = HeaderSize(v)
    BY <2>3, <2>7
  <2>9. HeaderWords(v)[1] = 0 /\ HeaderWords(v)[2] = AW /\ HeaderWords(v)[3] = I(4)
    BY <2>3, <2>6
  <2>10. v # 2
    BY <1>1
  <2> QED BY <2>8, <2>9, <2>10
<1>2. CASE v = 2
  BY <1>2 DEF HeaderWords, HeaderSize, AW, I
<1> QED BY <1>1, <1>2

\* The same of a footer.
LEMMA FooterWordsAre ==
  ASSUME NEW v \in {2, 4}
  PROVE  /\ FooterWords(v) \in Seq(Nat) /\ Len(FooterWords(v)) = FooterSize(v)
         /\ FooterWords(v)[1] = Footer
         /\ v = 4 => FooterWords(v)[4] = AW /\ FooterWords(v)[5] = I(4)
         /\ v = 2 => FooterWords(v)[7] = AW /\ FooterWords(v)[8] = I(2)
<1>1. CASE v = 4
  <2> DEFINE s == <<Footer, 0, 0, AW, I(v)>>
             z == Zeros(5)
  <2>1. /\ s \in Seq(Nat) /\ Len(s) = 5 /\ s[1] = Footer /\ s[4] = AW /\ s[5] = I(v)
    BY <1>1 DEF AW, I, Footer
  <2>2. z \in Seq(Nat) /\ Len(z) = 5
    BY ZerosAre
  <2>3. FooterWords(v) = s \o z /\ FooterSize(v) = 10
    BY <1>1 DEF FooterWords, FooterSize
  <2> HIDE DEF s, z
  <2>4. /\ s \o z \in Seq(Nat) /\ Len(s \o z) = Len(s) + Len(z)
        /\ \A k \in 1..Len(s) : (s \o z)[k] = s[k]
    BY <2>1, <2>2, Glued
  <2>5. /\ 1 \in 1..Len(s) /\ 4 \in 1..Len(s) /\ 5 \in 1..Len(s)
        /\ Len(s) + Len(z) = 10
    BY <2>1, <2>2
  <2>6. (s \o z)[1] = Footer /\ (s \o z)[4] = AW /\ (s \o z)[5] = I(4)
    BY <1>1, <2>1, <2>4, <2>5
  <2>7. s \o z \in Seq(Nat) /\ Len(s \o z) = 10
    BY <2>4, <2>5
  <2>8. FooterWords(v) \in Seq(Nat) /\ Len(FooterWords(v)) = FooterSize(v)
    BY <2>3, <2>7
  <2>9. FooterWords(v)[1] = Footer /\ FooterWords(v)[4] = AW /\ FooterWords(v)[5] = I(4)
    BY <2>3, <2>6
  <2>10. v # 2
    BY <1>1
  <2> QED BY <2>8, <2>9, <2>10
<1>2. CASE v = 2
  BY <1>2 DEF FooterWords, FooterSize, AW, I, Footer
<1> QED BY <1>1, <1>2

\* The parts of what flush gives when at most one item is pending.
HeadPart(g, v, complete) == IF g.state = "header" /\ complete THEN HeaderWords(v) ELSE <<>>
ItemPart(g, v, type) ==
  IF Len(g.items) = g.flushed THEN <<>> ELSE ItemWords(v, type, g.items[Len(g.items)])
FootPart(g, v, complete) == IF g.finished /\ complete THEN FooterWords(v) ELSE <<>>

\* Together, they are what flush gives.
LEMMA PendingIs ==
  ASSUME NEW v \in {2, 4}, NEW type \in Nat, NEW complete \in BOOLEAN,
         NEW g \in GeneratorRecords, g.state # "footer",
         Len(g.items) \in {g.flushed, g.flushed + 1}
  PROVE  /\ HeadPart(g, v, complete) \in Seq(Nat) /\ ItemPart(g, v, type) \in Seq(Nat)
         /\ FootPart(g, v, complete) \in Seq(Nat)
         /\ Pending(g, v, type, complete)
              = (HeadPart(g, v, complete) \o ItemPart(g, v, type)) \o FootPart(g, v, complete)
<1> DEFINE H == HeadPart(g, v, complete)
           R == ItemPart(g, v, type)
           F == FootPart(g, v, complete)
           pending == Len(g.items) - g.flushed
           records == [w \in 1..ItemSize * (Len(g.items) - g.flushed) |->
                    ItemWords(v, type, g.items[g.flushed + 1 + ((w - 1) \div ItemSize)])
                             [1 + ((w - 1) % ItemSize)]]
<1>1. /\ g.flushed \in Nat /\ g.items \in Seq(ItemRecords) /\ Len(g.items) \in Nat
      /\ g.state \in {"header", "item"}
  BY LenProperties DEF GeneratorRecords
<1>2. /\ H \in Seq(Nat) /\ Len(H) = IF g.state = "header" /\ complete THEN HeaderSize(v) ELSE 0
  BY HeaderWordsAre, EmptySeq DEF HeadPart
<1>3. /\ F \in Seq(Nat) /\ Len(F) = IF g.finished /\ complete THEN FooterSize(v) ELSE 0
  BY FooterWordsAre, EmptySeq DEF FootPart
<1>4. R \in Seq(Nat) /\ Len(R) = ItemSize * (Len(g.items) - g.flushed) /\ records = R
  <2>1. CASE Len(g.items) = g.flushed
    <3>1. R = <<>> /\ ItemSize * (Len(g.items) - g.flushed) = 0
      BY <1>1, <2>1 DEF ItemPart, ItemSize
    <3>2. records = <<>>
      BY <3>1
    <3> QED BY <3>1, <3>2, EmptySeq
  <2>2. CASE Len(g.items) = g.flushed + 1
    <3> DEFINE i == g.items[Len(g.items)]
    <3>1. i \in ItemRecords /\ R = ItemWords(v, type, i)
      BY <1>1, <2>2, ElementOfSeq DEF ItemPart
    <3> HIDE DEF i
    <3>2. ItemWords(v, type, i) \in Seq(Nat) /\ Len(ItemWords(v, type, i)) = ItemSize
      <4>1. v \in Nat
        OBVIOUS
      <4>2. IsRecord(ItemWords(v, type, i), IF v = 4 THEN type ELSE 0, i)
        BY <3>1, <4>1, ItemWordsAre
      <4> QED BY <4>2 DEF IsRecord, ItemSize
    <3>3. ItemSize * (Len(g.items) - g.flushed) = ItemSize
      BY <1>1, <2>2 DEF ItemSize
    <3>4. ASSUME NEW w \in 1..ItemSize
          PROVE  ItemWords(v, type, g.items[g.flushed + 1 + ((w - 1) \div ItemSize)])
                             [1 + ((w - 1) % ItemSize)] = ItemWords(v, type, i)[w]
      <4>1. (w - 1) \div ItemSize = 0 /\ (w - 1) % ItemSize = w - 1
        BY DEF ItemSize
      <4>2. g.flushed + 1 + ((w - 1) \div ItemSize) = Len(g.items) /\ 1 + ((w - 1) % ItemSize) = w
        BY <1>1, <2>2, <4>1
      <4> QED BY <4>2 DEF i
    <3>5. records = [w \in 1..ItemSize |-> ItemWords(v, type, i)[w]]
      BY <3>3, <3>4
    <3>6. ItemWords(v, type, i) = [w \in 1..ItemSize |-> ItemWords(v, type, i)[w]]
      BY <3>2, LenProperties
    <3> QED BY <3>1, <3>2, <3>3, <3>5, <3>6
  <2> QED BY <2>1, <2>2
<1> DEFINE words == (H \o R) \o F
           room == (IF g.state = "header" /\ complete THEN HeaderSize(v) ELSE 0) + Len(R)
                   + (IF g.finished /\ complete THEN FooterSize(v) ELSE 0)
<1>5. Pending(g, v, type, complete) = words \o Zeros(room - Len(words))
  BY <1>1, <1>4 DEF Pending, HeadPart, FootPart
<1> HIDE DEF H, R, F, records
<1>6. /\ H \o R \in Seq(Nat) /\ Len(H \o R) = Len(H) + Len(R)
      /\ Len(H) \in Nat /\ Len(R) \in Nat
  BY <1>2, <1>4, Glued
<1>7. words \in Seq(Nat) /\ Len(words) = Len(H \o R) + Len(F) /\ Len(F) \in Nat
  BY <1>3, <1>6, Glued
<1>8. room - Len(words) = 0
  <2>1. room = Len(H) + Len(R) + Len(F)
    BY <1>2, <1>3
  <2> HIDE DEF room, words
  <2> QED BY <1>6, <1>7, <2>1
<1>9. words \o Zeros(room - Len(words)) = words
  <2> HIDE DEF room, words
  <2>1. Zeros(room - Len(words)) = <<>>
    BY <1>8, ZerosAre
  <2> QED BY <1>7, <2>1, Nothing
<1> QED BY <1>2, <1>3, <1>4, <1>5, <1>9 DEF H, R, F

-----------------------------------------------------------------------------
(* The records of the file.                                                *)

\* Where the words of a record are.
LEMMA InFile ==
  ASSUME NEW n \in Nat, NEW j \in 1..n, NEW c \in 1..10
  PROVE  HeadSize \in 1..10 /\ HeadSize + 10 * (j - 1) + c \in 1..HeadSize + 10 * n
<1>1. HeadSize \in 1..10
  BY DEF HeadSize
<1>2. 10 * (j - 1) + c <= 10 * n /\ 10 * (j - 1) + c \in Nat \ {0}
  OBVIOUS
<1> QED BY <1>1, <1>2

\* A file that has the same words up to the end of the records has them, too.
LEMMA RecordsStay ==
  ASSUME NEW f \in Seq(Nat), NEW g \in Seq(Nat), NEW n \in Nat, NEW items,
         HeadFits(f), RecordsFit(f, n, items), HeadSize + 10 * n <= Len(g),
         \A c \in 1..HeadSize + 10 * n : g[c] = f[c]
  PROVE  /\ HeadFits(g) /\ RecordsFit(g, n, items)
         /\ \A j \in 1..n : (Mine(g, j) <=> Mine(f, j)) /\ FrameOf(g, j) = FrameOf(f, j)
<1>1. \A c \in 1..HeadSize : c \in 1..HeadSize + 10 * n
  BY DEF HeadSize
<1>2. HeadFits(g)
  BY <1>1 DEF HeadFits
<1>3. \A j \in 1..n, c \in 1..10 : g[HeadSize + 10 * (j - 1) + c] = f[HeadSize + 10 * (j - 1) + c]
  BY InFile
<1>4. ASSUME NEW j \in 1..n
      PROVE  /\ g[HeadSize + 10 * (j - 1) + 1] = f[HeadSize + 10 * (j - 1) + 1]
             /\ Mine(g, j) <=> Mine(f, j)
             /\ FrameOf(g, j) = FrameOf(f, j)
             /\ \A i : Says(g, j, i) <=> Says(f, j, i)
  <2> DEFINE p == HeadSize + 10 * (j - 1)
  <2>1. g[p + 1] = f[p + 1] /\ g[p + 2] = f[p + 2] /\ g[p + 4] = f[p + 4]
        /\ g[p + 8] = f[p + 8] /\ g[p + 10] = f[p + 10]
    <3>1. \A c \in 1..10 : g[p + c] = f[p + c]
      BY <1>3
    <3> HIDE DEF p
    <3> QED BY <3>1
  <2> QED BY <2>1 DEF Mine, FrameOf, Says
<1> QED BY <1>2, <1>4 DEF RecordsFit

\* The words behind a file are its next record.
LEMMA NextRecord ==
  ASSUME NEW f \in Seq(Nat), NEW n \in Nat, Len(f) = HeadSize + 10 * n,
         NEW w \in Seq(Nat), Len(w) = 10
  PROVE  /\ f \o w \in Seq(Nat) /\ Len(f \o w) = HeadSize + 10 * (n + 1)
         /\ \A c \in 1..HeadSize + 10 * n : (f \o w)[c] = f[c]
         /\ \A c \in 1..10 : (f \o w)[HeadSize + 10 * n + c] = w[c]
<1>1. HeadSize \in Nat
  BY DEF HeadSize
<1>2. /\ f \o w \in Seq(Nat) /\ Len(f \o w) = Len(f) + Len(w)
      /\ \A k \in 1..Len(f) : (f \o w)[k] = f[k]
      /\ \A k \in 1..Len(w) : (f \o w)[Len(f) + k] = w[k]
  BY Glued
<1>3. Len(f \o w) = HeadSize + 10 * (n + 1)
  BY <1>1, <1>2
<1>4. \A c \in 1..HeadSize + 10 * n : (f \o w)[c] = f[c]
  BY <1>2
<1>5. \A c \in 1..10 : (f \o w)[HeadSize + 10 * n + c] = w[c]
  BY <1>2
<1> QED BY <1>2, <1>3, <1>4, <1>5

\* One more record of the reader.
LEMMA AddMine ==
  ASSUME NEW f \in Seq(Nat), NEW n \in Nat, NEW items \in Seq(ItemRecords), HeadFits(f),
         RecordsFit(f, n, items), Len(f) = HeadSize + 10 * n,
         NEW i \in ItemRecords, Tiles(Append(items, i)), NEW w \in Seq(Nat), Len(w) = 10,
         w[1] = Tag, w[2] = i.frames, w[4] = i.frame, w[8] = i.offset, w[10] = i.length
  PROVE  /\ f \o w \in Seq(Nat) /\ Len(f \o w) = HeadSize + 10 * (n + 1)
         /\ HeadFits(f \o w) /\ RecordsFit(f \o w, n + 1, Append(items, i))
<1> DEFINE g == f \o w
           more == Append(items, i)
<1>1. /\ g \in Seq(Nat) /\ Len(g) = HeadSize + 10 * (n + 1)
      /\ \A c \in 1..HeadSize + 10 * n : g[c] = f[c]
      /\ \A c \in 1..10 : g[HeadSize + 10 * n + c] = w[c]
  BY NextRecord, ZenonT(60)
<1>2. HeadSize \in Nat /\ (n + 1) - 1 = n
  BY DEF HeadSize
<1>3. /\ more \in Seq(ItemRecords) /\ Len(items) \in Nat /\ Len(more) = Len(items) + 1
      /\ more[Len(items) + 1] = i
      /\ \A k \in 1..Len(items) : more[k] = items[k] /\ items[k] \in ItemRecords
  BY Appended
<1> HIDE DEF g, more
<1>4. /\ HeadFits(g) /\ RecordsFit(g, n, items)
  <2>1. HeadSize + 10 * n <= Len(g)
    BY <1>1, <1>2
  <2> QED BY <1>1, <2>1, RecordsStay
<1>5. Mine(g, n + 1) /\ FrameOf(g, n + 1) = i.frame /\ Says(g, n + 1, i)
  <2> DEFINE p == HeadSize + 10 * n
  <2>1. \A c \in 1..10 : g[p + c] = w[c]
    BY <1>1
  <2>2. HeadSize + 10 * ((n + 1) - 1) = p
    BY <1>2
  <2> HIDE DEF p
  <2>3. /\ g[p + 1] = w[1] /\ g[p + 2] = w[2] /\ g[p + 4] = w[4] /\ g[p + 8] = w[8]
        /\ g[p + 10] = w[10]
    BY <2>1
  <2> QED BY <2>2, <2>3 DEF Mine, FrameOf, Says
<1>6. ASSUME NEW k \in 1..Len(items)
      PROVE  items[k].frame < i.frame
  <2>1. k \in 1..Len(more) /\ Len(more) \in 1..Len(more) /\ k < Len(more)
    BY <1>3
  <2>2. items[k].frame + items[k].frames <= i.frame
    BY <1>3, <2>1 DEF Tiles, more
  <2>3. items[k].frame \in Nat /\ items[k].frames \in Nat \ {0} /\ i.frame \in Nat
    BY <1>3 DEF ItemRecords
  <2>4. items[k].frames > 0
    BY <2>3
  <2> QED BY <2>2, <2>3, <2>4
<1>7. ASSUME NEW j \in 1..n + 1
      PROVE  IF Mine(g, j) THEN \E k \in 1..Len(more) : Says(g, j, more[k])
             ELSE g[HeadSize + 10 * (j - 1) + 1] \in {1, 2} /\ setup.version = 4
  <2>1. CASE j = n + 1
    <3>1. Len(more) \in 1..Len(more) /\ more[Len(more)] = i
      BY <1>3
    <3> QED BY <1>5, <2>1, <3>1
  <2>2. CASE j # n + 1
    <3>1. j \in 1..n
      BY <2>2
    <3>2. \A k \in 1..Len(items) : k \in 1..Len(more)
      BY <1>3
    <3> QED BY <1>3, <1>4, <3>1, <3>2 DEF RecordsFit
  <2> QED BY <2>1, <2>2
<1>8. ASSUME NEW j \in 1..n + 1, NEW k \in 1..n + 1, j < k, Mine(g, j), Mine(g, k)
      PROVE  FrameOf(g, j) < FrameOf(g, k)
  <2>1. j \in 1..n
    BY <1>8
  <2>2. CASE k \in 1..n
    BY <1>4, <1>8, <2>1, <2>2 DEF RecordsFit
  <2>3. CASE k = n + 1
    <3>1. PICK l \in 1..Len(items) : Says(g, j, items[l])
      BY <1>4, <1>8, <2>1 DEF RecordsFit
    <3>2. FrameOf(g, j) = items[l].frame
      BY <3>1 DEF Says, FrameOf
    <3> QED BY <1>5, <1>6, <2>3, <3>2
  <2> QED BY <2>2, <2>3
<1>9. ASSUME NEW k \in 1..Len(more)
      PROVE  \E j \in 1..n + 1 : Mine(g, j) /\ FrameOf(g, j) = more[k].frame
  <2>1. CASE k = Len(items) + 1
    <3>1. n + 1 \in 1..n + 1
      OBVIOUS
    <3> QED BY <1>3, <1>5, <2>1, <3>1
  <2>2. CASE k # Len(items) + 1
    <3>1. k \in 1..Len(items)
      BY <1>3, <2>2
    <3>2. PICK j \in 1..n : Mine(g, j) /\ FrameOf(g, j) = items[k].frame
      BY <1>4, <3>1 DEF RecordsFit
    <3>3. j \in 1..n + 1
      OBVIOUS
    <3> QED BY <1>3, <3>1, <3>2, <3>3
  <2> QED BY <2>1, <2>2
<1>10. RecordsFit(g, n + 1, more)
  <2>1. HeadSize + 10 * (n + 1) <= Len(g)
    BY <1>1, <1>2
  <2> QED BY <1>7, <1>8, <1>9, <2>1 DEF RecordsFit
<1> QED BY <1>1, <1>4, <1>10 DEF g, more

\* One more record of the other generator.
LEMMA AddOther ==
  ASSUME NEW f \in Seq(Nat), NEW n \in Nat, NEW items, HeadFits(f),
         RecordsFit(f, n, items), Len(f) = HeadSize + 10 * n, setup.version = 4,
         NEW w \in Seq(Nat), Len(w) = 10, w[1] \in {1, 2}, w[1] # Tag
  PROVE  /\ f \o w \in Seq(Nat) /\ Len(f \o w) = HeadSize + 10 * (n + 1)
         /\ HeadFits(f \o w) /\ RecordsFit(f \o w, n + 1, items)
<1> DEFINE g == f \o w
<1>1. /\ g \in Seq(Nat) /\ Len(g) = HeadSize + 10 * (n + 1)
      /\ \A c \in 1..HeadSize + 10 * n : g[c] = f[c]
      /\ \A c \in 1..10 : g[HeadSize + 10 * n + c] = w[c]
  BY NextRecord, ZenonT(60)
<1>2. HeadSize \in Nat /\ (n + 1) - 1 = n
  BY DEF HeadSize
<1> HIDE DEF g
<1>3. HeadSize + 10 * n <= Len(g) /\ HeadSize + 10 * (n + 1) <= Len(g)
  BY <1>1, <1>2
<1>4. HeadFits(g) /\ RecordsFit(g, n, items)
  BY <1>1, <1>3, RecordsStay
<1>5. ~Mine(g, n + 1) /\ g[HeadSize + 10 * ((n + 1) - 1) + 1] \in {1, 2}
  BY <1>1, <1>2 DEF Mine
<1>6. \A j \in 1..n + 1 : j \in 1..n \/ j = n + 1
  OBVIOUS
<1>7. \A j \in 1..n : j \in 1..n + 1
  OBVIOUS
<1>8. ASSUME NEW j \in 1..n + 1
      PROVE  IF Mine(g, j) THEN \E k \in 1..Len(items) : Says(g, j, items[k])
             ELSE g[HeadSize + 10 * (j - 1) + 1] \in {1, 2} /\ setup.version = 4
  BY <1>4, <1>5, <1>6 DEF RecordsFit
<1>9. ASSUME NEW j \in 1..n + 1, NEW k \in 1..n + 1, j < k, Mine(g, j), Mine(g, k)
      PROVE  FrameOf(g, j) < FrameOf(g, k)
  BY <1>4, <1>5, <1>6, <1>9 DEF RecordsFit
<1>10. \A k \in 1..Len(items) : \E j \in 1..n + 1 : Mine(g, j) /\ FrameOf(g, j) = items[k].frame
  BY <1>4, <1>7 DEF RecordsFit
<1>11. RecordsFit(g, n + 1, items)
  BY <1>3, <1>8, <1>9, <1>10 DEF RecordsFit
<1> QED BY <1>1, <1>4, <1>11 DEF g

\* The setup, and the fields of a generator.
LEMMA SetupIs ==
  ASSUME StoreTypes
  PROVE  /\ setup.version \in {2, 4} /\ setup.type \in 1..2 /\ setup.known \in BOOLEAN
         /\ setup.direct \in BOOLEAN /\ (setup.known => setup.direct)
         /\ Type \in {Video, Audio} /\ Video # Audio /\ (Type = Audio => setup.version = 4)
<1>1. /\ setup.version \in 2..4 /\ setup.version # 3 /\ setup.type \in 1..2
      /\ setup.known \in BOOLEAN /\ setup.direct \in BOOLEAN
      /\ (setup.known => setup.direct)
  BY IndexAssumption DEF StoreTypes
<1> QED BY <1>1 DEF Type, Video, Audio

\* What the types say of a generator.
LEMMA GeneratorIs ==
  ASSUME NEW g \in GeneratorRecords
  PROVE  /\ g.state \in {"header", "item", "footer"} /\ g.flushed \in Nat
         /\ g.items \in Seq(ItemRecords) /\ Len(g.items) \in Nat
<1>1. g.items \in Seq(ItemRecords) /\ g.state \in {"header", "item", "footer"} /\ g.flushed \in Nat
  BY DEF GeneratorRecords
<1> QED BY <1>1, LenProperties

\* A generator without items has not added any.
LEMMA NothingAdded ==
  ASSUME NEW g \in GeneratorRecords, NEW h, Adds(g, h), h.items = <<>>
  PROVE  h.items = g.items
<1>1. g.items \in Seq(ItemRecords) /\ Len(g.items) \in Nat
  BY GeneratorIs
<1>2. ASSUME NEW i \in ItemRecords, h.items = Append(g.items, i)  PROVE FALSE
  <2>1. Len(h.items) = Len(g.items) + 1
    BY <1>1, <1>2, Appended
  <2>2. Len(h.items) = 0
    BY EmptySeq
  <2> QED BY <1>1, <2>1, <2>2
<1> QED BY <1>2 DEF Adds

\* The record of an item that a generator has added.
LEMMA AddedWords ==
  ASSUME NEW g \in GeneratorRecords, NEW h \in GeneratorRecords, NEW i \in ItemRecords,
         h.items = Append(g.items, i), h.flushed = Len(g.items),
         NEW v \in {2, 4}, NEW type \in {Video, Audio}, NEW w, w = ItemPart(h, v, type)
  PROVE  Len(h.items) = Len(g.items) + 1 /\ IsRecord(w, IF v = 4 THEN type ELSE 0, i)
<1>1. /\ Len(g.items) \in Nat /\ Len(h.items) = Len(g.items) + 1 /\ h.items[Len(h.items)] = i
  BY GeneratorIs, Appended
<1>2. w = ItemWords(v, type, i)
  BY <1>1 DEF ItemPart
<1>3. v \in Nat /\ type \in Nat
  BY DEF Video, Audio
<1> QED BY <1>1, <1>2, <1>3, ItemWordsAre

\* There are so many records.
LEMMA RecordsAre ==
  ASSUME StoreTypes
  PROVE  Records \in Nat /\ HeadSize \in Nat /\ Records = Len(video.items) + Len(audio.items)
<1> DEFINE p == Len(video.items)
           q == Len(audio.items)
<1>1. p \in Nat /\ q \in Nat /\ Records = p + q
  BY GeneratorIs DEF StoreTypes, Records
<1> HIDE DEF p, q
<1>2. Records \in Nat
  BY <1>1
<1>3. HeadSize \in Nat
  BY DEF HeadSize
<1> QED BY <1>1, <1>2, <1>3 DEF p, q

\* A file that holds a header and n records, with these items for the reader.
FileHas(f, n, items) ==
  f \in Seq(Nat) /\ Len(f) = HeadSize + 10 * n /\ HeadFits(f) /\ RecordsFit(f, n, items)

\* What a generator adds to it.
LEMMA AddPart ==
  ASSUME StoreTypes, NEW f, NEW n \in Nat, NEW items, FileHas(f, n, items),
         NEW type \in {Video, Audio}, type = Audio => setup.version = 4,
         NEW g \in GeneratorRecords, NEW h \in GeneratorRecords, Adds(g, h),
         h.flushed = Len(g.items), Tiles(h.items), Type = type => items = g.items
  PROVE  /\ ItemPart(h, setup.version, type) \in Seq(Nat)
         /\ Len(h.items) \in {Len(g.items), Len(g.items) + 1} /\ Len(g.items) \in Nat
         /\ FileHas(f \o ItemPart(h, setup.version, type), n + (Len(h.items) - Len(g.items)),
                    IF Type = type THEN h.items ELSE items)
<1> DEFINE w == ItemPart(h, setup.version, type)
           Goal == /\ w \in Seq(Nat) /\ Len(h.items) \in {Len(g.items), Len(g.items) + 1}
                   /\ FileHas(f \o w, n + (Len(h.items) - Len(g.items)),
                              IF Type = type THEN h.items ELSE items)
<1>1. /\ g.items \in Seq(ItemRecords) /\ h.items \in Seq(ItemRecords) /\ Len(g.items) \in Nat
      /\ setup.version \in {2, 4} /\ setup.type \in 1..2 /\ f \in Seq(Nat)
  BY SetupIs, GeneratorIs DEF FileHas
<1>2. CASE h.items = g.items
  <2>1. w = <<>>
    BY <1>1, <1>2 DEF ItemPart
  <2>2. f \o w = f /\ w \in Seq(Nat)
    BY <1>1, <2>1, Nothing, EmptySeq
  <2>3. n + (Len(h.items) - Len(g.items)) = n /\ (IF Type = type THEN h.items ELSE items) = items
    BY <1>1, <1>2
  <2> QED BY <1>1, <1>2, <2>2, <2>3
<1>3. ASSUME NEW i \in ItemRecords, h.items = Append(g.items, i)  PROVE Goal
  <2>1. /\ Len(h.items) = Len(g.items) + 1 /\ w \in Seq(Nat) /\ Len(w) = 10
        /\ setup.version = 4 => w[1] = type
        /\ setup.version # 4 => w[1] = 0
        /\ w[2] = i.frames /\ w[4] = i.frame /\ w[8] = i.offset /\ w[10] = i.length
    <3> DEFINE v == setup.version
    <3>1. /\ v \in {2, 4} /\ h.items = Append(g.items, i) /\ h.flushed = Len(g.items)
          /\ type \in {Video, Audio} /\ w = ItemPart(h, v, type)
      BY <1>1, <1>3
    <3> HIDE DEF v, w
    <3>2. Len(h.items) = Len(g.items) + 1 /\ IsRecord(w, IF v = 4 THEN type ELSE 0, i)
      BY <3>1, AddedWords
    <3> QED BY <3>2 DEF v, IsRecord
  <2> HIDE DEF w
  <2>5. n + (Len(h.items) - Len(g.items)) = n + 1
    BY <1>1, <2>1
  <2>6. /\ f \in Seq(Nat) /\ Len(f) = HeadSize + 10 * n /\ HeadFits(f) /\ RecordsFit(f, n, items)
    BY DEF FileHas
  <2>7. CASE Type = type
    <3>1. w[1] = Tag
      BY <1>1, <2>1, <2>7 DEF Tag, Type
    <3>2. items = g.items /\ Tiles(Append(g.items, i))
      BY <1>3, <2>7
    <3>3. /\ f \o w \in Seq(Nat) /\ Len(f \o w) = HeadSize + 10 * (n + 1)
          /\ HeadFits(f \o w) /\ RecordsFit(f \o w, n + 1, Append(g.items, i))
      BY <1>1, <2>1, <2>5, <2>6, <3>1, <3>2, AddMine
    <3>4. FileHas(f \o w, n + 1, h.items)
      BY <1>3, <3>3 DEF FileHas
    <3> QED BY <1>1, <2>1, <2>5, <2>7, <3>4 DEF w
  <2>8. CASE Type # type
    <3>1. setup.version = 4 /\ w[1] \in {1, 2} /\ w[1] # Tag
      BY <1>1, <2>1, <2>8 DEF Tag, Type, Video, Audio
    <3>2. /\ f \o w \in Seq(Nat) /\ Len(f \o w) = HeadSize + 10 * (n + 1)
          /\ HeadFits(f \o w) /\ RecordsFit(f \o w, n + 1, items)
      BY <2>1, <2>5, <2>6, <3>1, AddOther
    <3>3. FileHas(f \o w, n + 1, items)
      BY <3>2 DEF FileHas
    <3> QED BY <1>1, <2>1, <2>5, <2>8, <3>3 DEF w
  <2> QED BY <2>7, <2>8
<1> QED BY <1>1, <1>2, <1>3 DEF Adds

\* What the store adds to the file in one step.
LEMMA Written ==
  ASSUME StoreInv, ~closed, NEW v \in GeneratorRecords, NEW a \in GeneratorRecords,
         v.state = video.state, v.flushed = video.flushed, Adds(video, v), Tiles(v.items),
         a.state = audio.state, a.flushed = audio.flushed, Adds(audio, a), Tiles(a.items),
         setup.version = 2 \/ video.state = "header" => a.items = <<>>,
         WriteIndex(v, a)
  PROVE  \E f : /\ FileHas(f, Len(v.items) + Len(a.items),
                           IF Type = Video THEN v.items ELSE a.items)
                /\ file' = f \o FootPart(v, setup.version, TRUE)
                /\ FootPart(v, setup.version, TRUE) \in Seq(Nat)
                /\ Len(file) <= Len(f) /\ \A c \in 1..Len(file) : f[c] = file[c]
<1> DEFINE H == HeadPart(v, setup.version, TRUE)
           A == ItemPart(a, setup.version, Audio)
           V == ItemPart(v, setup.version, Video)
           F == FootPart(v, setup.version, TRUE)
<1>1. /\ setup.version \in {2, 4} /\ setup.type \in 1..2 /\ file \in Seq(Nat)
      /\ video \in GeneratorRecords /\ audio \in GeneratorRecords
      /\ video.items \in Seq(ItemRecords) /\ audio.items \in Seq(ItemRecords)
      /\ Len(video.items) \in Nat /\ Len(audio.items) \in Nat
      /\ video.flushed = Len(video.items) /\ audio.flushed = Len(audio.items)
      /\ video.state # "footer" /\ audio.state # "footer"
  <2>1. StoreTypes /\ video \in GeneratorRecords /\ audio \in GeneratorRecords /\ file \in Seq(Nat)
    BY DEF StoreInv, StoreTypes
  <2>2. /\ video.flushed = Len(video.items) /\ audio.flushed = Len(audio.items)
        /\ video.state # "footer" /\ audio.state # "footer"
    BY DEF StoreInv, GeneratorsFit, GeneratorFits
  <2> QED BY <2>1, <2>2, SetupIs, GeneratorIs
<1>2. /\ Len(v.items) \in {v.flushed, v.flushed + 1} /\ Len(a.items) \in {a.flushed, a.flushed + 1}
  BY <1>1, Appended DEF Adds
<1>3. /\ H \in Seq(Nat) /\ V \in Seq(Nat) /\ F \in Seq(Nat)
      /\ Pending(v, setup.version, Video, TRUE) = (H \o V) \o F
  BY <1>1, <1>2, PendingIs DEF Video
<1>4. /\ HeadPart(a, setup.version, FALSE) = <<>> /\ FootPart(a, setup.version, FALSE) = <<>>
  BY DEF HeadPart, FootPart
<1>5. /\ A \in Seq(Nat)
      /\ Pending(a, setup.version, Audio, FALSE)
           = (HeadPart(a, setup.version, FALSE) \o A) \o FootPart(a, setup.version, FALSE)
  BY <1>1, <1>2, PendingIs DEF Audio
<1>6. Pending(a, setup.version, Audio, FALSE) = A
  BY <1>4, <1>5, Nothing
<1>7. ASSUME a.items = <<>>  PROVE A = <<>>
  <2>1. a.items = audio.items
    BY <1>1, <1>7, NothingAdded
  <2> QED BY <1>1, <2>1 DEF ItemPart
<1>8. file' = (file \o A) \o ((H \o V) \o F)
  <2>1. CASE setup.version = 4
    BY <1>3, <1>6, <2>1 DEF WriteIndex
  <2>2. CASE setup.version # 4
    <3>1. A = <<>>
      BY <1>1, <1>7, <2>2
    <3> QED BY <1>3, <2>2, <3>1 DEF WriteIndex
  <2> QED BY <2>1, <2>2
<1>9. v.state = "header" => A = <<>>
  BY <1>7
<1>10. v.state # "header" => H = <<>>
  BY DEF HeadPart
<1> DEFINE f0 == file \o H
           f1 == f0 \o A
           f2 == f1 \o V
<1> HIDE DEF H, A, V, F
<1>11. f0 \in Seq(Nat) /\ f1 \in Seq(Nat) /\ f2 \in Seq(Nat)
  BY <1>1, <1>3, <1>5, Glued
<1>12. (file \o A) \o H = f1
  <2>1. CASE A = <<>>
    <3>1. file \o A = file /\ f1 = f0
      BY <1>1, <1>11, <2>1, Nothing
    <3> QED BY <3>1
  <2>2. CASE H = <<>>
    <3>1. f0 = file /\ (file \o A) \o H = file \o A
      BY <1>1, <1>5, <2>2, Nothing, Glued
    <3> QED BY <3>1
  <2> QED BY <1>9, <1>10, <2>1, <2>2
<1>13. file' = f2 \o F
  <2>1. file \in Seq(Nat) /\ A \in Seq(Nat) /\ H \in Seq(Nat) /\ V \in Seq(Nat) /\ F \in Seq(Nat)
    BY <1>1, <1>3, <1>5
  <2>2. Glue(Glue(file, A), Glue(Glue(H, V), F)) = Glue(Glue(Glue(Glue(file, A), H), V), F)
    BY <2>1, FiveParts
  <2>3. (file \o A) \o ((H \o V) \o F) = (((file \o A) \o H) \o V) \o F
    BY <2>2 DEF Glue
  <2> QED BY <1>8, <1>12, <2>3
<1>14. StoreTypes
  BY DEF StoreInv
<1>15. /\ Records \in Nat /\ HeadSize \in Nat
       /\ Type \in {Video, Audio} /\ Video # Audio /\ (Type = Audio => setup.version = 4)
  BY <1>14, SetupIs, RecordsAre
<1>16. FileHas(f0, Records, Items)
  <2>1. CASE video.state = "header"
    <3>1. file = <<>> /\ video.position = -1 /\ audio.position = -1
      BY <2>1 DEF StoreInv, FileFits
    <3>2. video.items = <<>> /\ audio.items = <<>>
      BY <3>1 DEF StoreInv, GeneratorsFit, GeneratorFits, Waits
    <3>3. Records = 0 /\ Items = <<>> /\ Len(Items) = 0
      BY <3>2, EmptySeq DEF Records, Items
    <3>4. f0 = HeaderWords(setup.version)
      BY <1>3, <2>1, <3>1, Nothing DEF H, HeadPart
    <3>5. HeaderSize(setup.version) = HeadSize /\ HeadSize + 10 * 0 = HeadSize
      BY <1>1 DEF HeaderSize, HeadSize
    <3>6. f0 \in Seq(Nat) /\ Len(f0) = HeadSize
      BY <1>1, <3>4, <3>5, HeaderWordsAre
    <3>7. HeadFits(f0)
      BY <3>4 DEF HeadFits
    <3>8. RecordsFit(f0, 0, <<>>)
      BY <3>3, <3>5, <3>6 DEF RecordsFit
    <3> QED BY <3>3, <3>5, <3>6, <3>7, <3>8 DEF FileHas
  <2>2. CASE video.state # "header"
    <3>1. f0 = file
      BY <1>1, <1>10, <2>2, Nothing
    <3>2. Len(file) = HeadSize + 10 * Records
      BY <1>15, <2>2 DEF StoreInv, FileFits
    <3> QED BY <1>1, <2>2, <3>1, <3>2 DEF StoreInv, FileFits, FileHas
  <2> QED BY <2>1, <2>2
<1> DEFINE n1 == Records + (Len(a.items) - Len(audio.items))
           i1 == IF Type = Audio THEN a.items ELSE Items
<1>17. /\ FileHas(f1, n1, i1)
  <2>1. CASE setup.version = 4
    <3>1. Type = Audio => Items = audio.items
      BY <1>15 DEF Items
    <3>2. Audio \in {Video, Audio}
      OBVIOUS
    <3>3. /\ Records \in Nat /\ audio \in GeneratorRecords /\ a.flushed = Len(audio.items)
          /\ Audio = Audio => setup.version = 4
      BY <1>1, <1>15, <2>1
    <3> HIDE DEF f0
    <3> QED BY <1>14, <1>16, <3>1, <3>2, <3>3, AddPart DEF A
  <2>2. CASE setup.version # 4
    <3>1. A = <<>> /\ a.items = <<>>
      BY <1>1, <1>7, <2>2 DEF A
    <3>2. a.items = audio.items
      BY <1>1, <3>1, NothingAdded
    <3>3. f1 = f0
      BY <1>11, <3>1, Nothing
    <3>4. n1 = Records /\ i1 = Items
      BY <1>1, <1>15, <2>2, <3>2
    <3> QED BY <1>16, <3>3, <3>4
  <2> QED BY <2>1, <2>2
<1>18. n1 \in Nat
  BY <1>1, <1>2, <1>15
<1> DEFINE i2 == IF Type = Video THEN v.items ELSE i1
<1>19. FileHas(f2, n1 + (Len(v.items) - Len(video.items)), i2)
  <2>1. Type = Video => i1 = video.items
    BY <1>15 DEF Items
  <2>2. Video \in {Video, Audio} /\ Video # Audio
    BY <1>15
  <2> HIDE DEF f1, n1, i1
  <2> QED BY <1>1, <1>14, <1>17, <1>18, <2>1, <2>2, AddPart DEF V
<1>20. n1 + (Len(v.items) - Len(video.items)) = Len(v.items) + Len(a.items)
  <2>1. Len(v.items) \in Nat /\ Len(a.items) \in Nat
    BY GeneratorIs
  <2>2. Records = Len(video.items) + Len(audio.items)
    BY <1>14, RecordsAre
  <2>3. Len(video.items) \in Nat /\ Len(audio.items) \in Nat
    BY <1>1
  <2> DEFINE p == Len(video.items)
             q == Len(audio.items)
             k == Len(v.items)
             l == Len(a.items)
  <2>4. /\ p \in Nat /\ q \in Nat /\ k \in Nat /\ l \in Nat
        /\ n1 = p + q + (l - q)
    BY <2>1, <2>2, <2>3
  <2> HIDE DEF n1, p, q, k, l
  <2>5. n1 + (k - p) = k + l
    BY <2>4
  <2> QED BY <2>5 DEF k, l, p
<1>21. i2 = IF Type = Video THEN v.items ELSE a.items
  BY <1>15
<1>22. Len(file) <= Len(f2) /\ \A c \in 1..Len(file) : f2[c] = file[c]
  <2>1. /\ Len(f0) = Len(file) + Len(H) /\ Len(H) \in Nat /\ Len(file) \in Nat
        /\ \A c \in 1..Len(file) : f0[c] = file[c]
    BY <1>1, <1>3, Glued
  <2> HIDE DEF f0
  <2>2. /\ Len(f1) = Len(f0) + Len(A) /\ Len(A) \in Nat /\ \A c \in 1..Len(f0) : f1[c] = f0[c]
    BY <1>11, <1>5, Glued DEF A
  <2> HIDE DEF f1
  <2>3. /\ Len(f2) = Len(f1) + Len(V) /\ Len(V) \in Nat /\ \A c \in 1..Len(f1) : f2[c] = f1[c]
    BY <1>11, <1>3, Glued DEF V
  <2> HIDE DEF f2
  <2> QED BY <2>1, <2>2, <2>3
<1> QED BY <1>3, <1>13, <1>19, <1>20, <1>21, <1>22 DEF F

-----------------------------------------------------------------------------
(* Every step of the store keeps what is said of it.                       *)

\* What flush leaves of a generator.
LEMMA FlushedIs ==
  ASSUME NEW g \in GeneratorRecords, g.state # "footer", NEW h, h = Flushed(g)
  PROVE  /\ h \in GeneratorRecords /\ h.items = g.items /\ h.flushed = Len(g.items)
         /\ h.state = (IF g.finished THEN "footer" ELSE "item")
         /\ h.position = g.position /\ h.offset = g.offset /\ h.known = g.known
         /\ h.finished = g.finished
<1>1. /\ g.state \in {"header", "item", "footer"} /\ g.items \in Seq(ItemRecords)
      /\ g.position \in Int /\ g.offset \in Int
      /\ g = [state |-> g.state, items |-> g.items, flushed |-> g.flushed,
              position |-> g.position, offset |-> g.offset, known |-> g.known,
              finished |-> g.finished]
  BY DEF GeneratorRecords
<1>2. g.known \in BOOLEAN /\ g.finished \in BOOLEAN
  BY DEF GeneratorRecords
<1>3. h = [g EXCEPT !.flushed = Len(g.items),
                    !.state = IF g.finished THEN "footer" ELSE "item"]
  BY <1>1 DEF Flushed
<1>4. /\ h.items = g.items /\ h.flushed = Len(g.items)
      /\ h.state = (IF g.finished THEN "footer" ELSE "item")
      /\ h.position = g.position /\ h.offset = g.offset /\ h.known = g.known
      /\ h.finished = g.finished
      /\ h = [state |-> h.state, items |-> h.items, flushed |-> h.flushed,
              position |-> h.position, offset |-> h.offset, known |-> h.known,
              finished |-> h.finished]
  BY <1>1, <1>3
<1>5. h.known \in BOOLEAN /\ h.finished \in BOOLEAN
  BY <1>2, <1>4
<1>6. /\ h.state \in {"header", "item", "footer"} /\ h.items \in Seq(ItemRecords)
      /\ h.position \in Int /\ h.offset \in Int /\ h.flushed \in Nat
  BY <1>1, <1>4, LenProperties
<1>7. h \in GeneratorRecords
  BY <1>4, <1>5, <1>6, AGenerator
<1> QED BY <1>4, <1>7

\* What is said of a generator stays true when the media grow.
LEMMA WaitsLonger ==
  ASSUME NEW g \in GeneratorRecords, NEW h, h.items = g.items, h.position = g.position,
         h.offset = g.offset, h.known = g.known,
         NEW ps, NEW size \in Nat, NEW more \in Nat, size <= more, NEW d, Waits(g, ps, size, d)
  PROVE  Waits(h, ps, more, d)
<1>1. ASSUME NEW k \in 1..Len(g.items), g.items[k].offset + g.items[k].length <= size
      PROVE  g.items[k].offset + g.items[k].length <= more
  <2>1. g.items[k] \in ItemRecords
    BY GeneratorIs, ElementOfSeq
  <2>2. g.items[k].offset \in Nat /\ g.items[k].length \in Nat
    BY <2>1 DEF ItemRecords
  <2> QED BY <1>1, <2>2
<1>2. g.position # -1 => g.offset \in 0..more
  BY DEF Waits
<1> QED BY <1>1, <1>2 DEF Waits

\* What is in a row is so in more media.
LEMMA InRowLonger ==
  ASSUME NEW ps, NEW size \in Nat, NEW more \in Nat, size <= more, NEW d,
         InRow(ps, size, d)
  PROVE  InRow(ps, more, d)
BY LiesLonger DEF InRow

\* Without packets there are no items.
LEMMA NoPacketsNoItems ==
  ASSUME NEW h \in GeneratorRecords, NEW d,
         \A k \in 1..Len(h.items) : Spans(h.items[k], <<>>, d)
  PROVE  h.items = <<>>
<1>1. h.items \in Seq(ItemRecords) /\ Len(h.items) \in Nat
  BY GeneratorIs
<1>2. ASSUME h.items # <<>>  PROVE FALSE
  <2>1. 1 \in 1..Len(h.items)
    BY <1>1, <1>2, EmptySeq
  <2>2. h.items[1] \in ItemRecords /\ Spans(h.items[1], <<>>, d)
    BY <1>1, <2>1, ElementOfSeq
  <2>3. h.items[1].frame + h.items[1].frames <= 0
    BY <2>2, EmptySeq DEF Spans
  <2>4. h.items[1].frame \in Nat /\ h.items[1].frames \in Nat \ {0}
    BY <2>2 DEF ItemRecords
  <2> QED BY <2>3, <2>4
<1> QED BY <1>2

\* A sum is not less than the first of two numbers.
LEMMA SumIsMore ==
  ASSUME NEW x \in Nat, NEW y \in Nat, NEW z, z = x + y  PROVE z \in Nat /\ x <= z
OBVIOUS

\* What the file is after a step that writes.
LEMMA FileWritten ==
  ASSUME StoreInv, ~closed, UNCHANGED setup,
         NEW v \in GeneratorRecords, NEW a \in GeneratorRecords,
         v.state = video.state, v.flushed = video.flushed, Adds(video, v), Tiles(v.items),
         a.state = audio.state, a.flushed = audio.flushed, Adds(audio, a), Tiles(a.items),
         setup.version = 2 \/ video.state = "header" => a.items = <<>>,
         closed' \in BOOLEAN, v.finished = closed', a.finished = closed', WriteIndex(v, a)
  PROVE  /\ file' \in Seq(Nat) /\ FileFits'
         /\ Len(file) <= Len(file') /\ \A c \in 1..Len(file) : file'[c] = file[c]
         /\ video' \in GeneratorRecords /\ video'.items = v.items
         /\ video'.flushed = Len(v.items) /\ video'.state # "header"
         /\ video'.position = v.position /\ video'.offset = v.offset
         /\ video'.known = v.known /\ video'.finished = v.finished
         /\ ~closed' => video'.state = "item"
         /\ audio' \in GeneratorRecords /\ audio'.items = a.items
         /\ audio'.flushed = Len(a.items)
         /\ audio'.position = a.position /\ audio'.offset = a.offset
         /\ audio'.known = a.known /\ audio'.finished = a.finished
         /\ ~closed' => audio'.state = "item"
<1>1. StoreTypes /\ video.state # "footer" /\ audio.state # "footer" /\ file \in Seq(Nat)
  BY DEF StoreInv, StoreTypes, GeneratorsFit, GeneratorFits
<1>2. video' = Flushed(v) /\ audio' = Flushed(a)
  BY DEF WriteIndex
<1>3. /\ video' \in GeneratorRecords /\ video'.items = v.items /\ video'.flushed = Len(v.items)
      /\ video'.state = (IF v.finished THEN "footer" ELSE "item")
      /\ video'.position = v.position /\ video'.offset = v.offset
      /\ video'.known = v.known /\ video'.finished = v.finished
  BY <1>1, <1>2, FlushedIs
<1>4. /\ audio' \in GeneratorRecords /\ audio'.items = a.items /\ audio'.flushed = Len(a.items)
      /\ audio'.state = (IF a.finished THEN "footer" ELSE "item")
      /\ audio'.position = a.position /\ audio'.offset = a.offset
      /\ audio'.known = a.known /\ audio'.finished = a.finished
  BY <1>1, <1>2, FlushedIs
<1> DEFINE n == Len(v.items) + Len(a.items)
           items == IF Type = Video THEN v.items ELSE a.items
           F == FootPart(v, setup.version, TRUE)
<1>5. PICK f : /\ FileHas(f, n, items) /\ file' = f \o F /\ F \in Seq(Nat)
               /\ Len(file) <= Len(f) /\ \A c \in 1..Len(file) : f[c] = file[c]
  BY Written, ZenonT(60)
<1>6. /\ n \in Nat /\ HeadSize \in Nat /\ Records' = n /\ Items' = items
      /\ HeadSize' = HeadSize /\ FootSize' = FootSize /\ Tag' = Tag /\ Type' = Type
  <2>1. Records' = n
    BY <1>3, <1>4 DEF Records
  <2>2. HeadSize' = HeadSize /\ FootSize' = FootSize /\ Tag' = Tag /\ Type' = Type
    BY DEF HeadSize, FootSize, Tag, Type
  <2>3. Items' = items
    BY <1>3, <1>4, <2>2 DEF Items
  <2> DEFINE p == Len(v.items)
             q == Len(a.items)
  <2>4. p \in Nat /\ q \in Nat /\ n = p + q
    BY GeneratorIs
  <2> HIDE DEF p, q, n
  <2>5. n \in Nat
    BY <2>4
  <2>6. HeadSize \in Nat
    BY DEF HeadSize
  <2> QED BY <2>1, <2>2, <2>3, <2>5, <2>6
<1> HIDE DEF n, items
<1>7. /\ f \in Seq(Nat) /\ Len(f) = HeadSize + 10 * n /\ HeadFits(f) /\ RecordsFit(f, n, items)
  BY <1>5 DEF FileHas
<1>8. /\ file' \in Seq(Nat) /\ Len(file') = Len(f) + Len(F) /\ Len(F) \in Nat
      /\ \A c \in 1..Len(f) : file'[c] = f[c]
      /\ \A c \in 1..Len(F) : file'[Len(f) + c] = F[c]
  BY <1>5, <1>7, Glued
<1>9. Len(file) <= Len(file') /\ \A c \in 1..Len(file) : file'[c] = file[c]
  <2>1. Len(file) \in Nat /\ Len(f) \in Nat /\ Len(file) <= Len(f)
    BY <1>1, <1>5, <1>7, LenProperties
  <2>2. Len(f) <= Len(file') /\ Len(file') \in Nat
    BY <1>8, <2>1, SumIsMore
  <2>4. Len(file) <= Len(file')
    BY <2>1, <2>2
  <2>3. ASSUME NEW c \in 1..Len(file)  PROVE file'[c] = file[c]
    <3>1. c \in 1..Len(f) /\ f[c] = file[c]
      BY <1>5, <2>1
    <3> QED BY <1>8, <3>1
  <2> QED BY <2>3, <2>4
<1>10. HeadFits(file') /\ RecordsFit(file', n, items)
  <2>1. PICK g : g = file'
    OBVIOUS
  <2>2. HeadSize + 10 * n <= Len(g)
    <3>1. Len(g) = Len(f) + Len(F) /\ Len(F) \in Nat
      BY <1>8, <2>1
    <3>2. Len(f) \in Nat
      BY <1>7, LenProperties
    <3> QED BY <1>7, <3>1, <3>2, SumIsMore
  <2>3. \A c \in 1..HeadSize + 10 * n : g[c] = f[c]
    BY <1>7, <1>8, <2>1
  <2>4. HeadFits(g) /\ RecordsFit(g, n, items)
    BY <1>6, <1>7, <1>8, <2>1, <2>2, <2>3, RecordsStay
  <2> QED BY <2>1, <2>4
<1>11. HeadFits(file)' /\ RecordsFit(file, Records, Items)'
  <2>1. HeadFits(file)'
    BY <1>6, <1>10 DEF HeadFits
  <2>2. RecordsFit(file, Records, Items)'
    BY <1>6, <1>10 DEF RecordsFit, Mine, FrameOf, Says
  <2> QED BY <2>1, <2>2
<1>12. /\ Len(F) = IF closed' THEN FootSize ELSE 0
       /\ closed' => F = FooterWords(setup.version)
  <2>1. CASE closed'
    <3>1. F = FooterWords(setup.version)
      BY <2>1 DEF FootPart
    <3>2. setup.version \in {2, 4}
      BY <1>1, SetupIs
    <3>3. FooterSize(setup.version) = FootSize
      BY <3>2 DEF FooterSize, FootSize
    <3> QED BY <2>1, <3>1, <3>2, <3>3, FooterWordsAre
  <2>2. CASE ~closed'
    BY <2>2, EmptySeq DEF FootPart
  <2> QED BY <2>1, <2>2
<1>13. FileFits'
  <2>1. video'.state # "header"
    BY <1>3
  <2>2. Len(file') = HeadSize' + 10 * Records' + (IF closed' THEN FootSize' ELSE 0)
    BY <1>6, <1>7, <1>8, <1>12
  <2>3. ASSUME closed', NEW c \in 1..FootSize'
        PROVE  file'[HeadSize' + 10 * Records' + c] = FooterWords(setup'.version)[c]
    <3>1. c \in 1..Len(F) /\ F[c] = FooterWords(setup'.version)[c]
      BY <1>6, <1>12, <2>3
    <3> QED BY <1>6, <1>7, <1>8, <3>1
  <2> QED BY <1>11, <2>1, <2>2, <2>3 DEF FileFits
<1> QED BY <1>3, <1>4, <1>8, <1>9, <1>13

\* The file and the items only get longer, and nothing changes once the store
\* is closed.
StoreGrows ==
  /\ setup' = setup /\ media <= media'
  /\ Len(file) <= Len(file') /\ \A c \in 1..Len(file) : file'[c] = file[c]
  /\ Records <= Records'
  /\ Len(Items) <= Len(Items') /\ \A k \in 1..Len(Items) : Items'[k] = Items[k]
  /\ video.state # "header" => video'.state # "header"
  /\ closed => closed' /\ Items' = Items

\* What a generator adds leaves the items it has.
LEMMA ItemsGrow ==
  ASSUME NEW g \in GeneratorRecords, NEW h, Adds(g, h)
  PROVE  Len(g.items) <= Len(h.items) /\ \A k \in 1..Len(g.items) : h.items[k] = g.items[k]
<1>1. g.items \in Seq(ItemRecords) /\ Len(g.items) \in Nat
  BY GeneratorIs
<1>2. CASE h.items = g.items
  BY <1>1, <1>2
<1>3. ASSUME NEW i \in ItemRecords, h.items = Append(g.items, i)
      PROVE  Len(g.items) <= Len(h.items) /\ \A k \in 1..Len(g.items) : h.items[k] = g.items[k]
  <2>1. Len(h.items) = Len(g.items) + 1
    BY <1>1, <1>3, Appended
  <2>2. Len(g.items) <= Len(h.items)
    BY <1>1, <2>1, SumIsMore
  <2>3. \A k \in 1..Len(g.items) : h.items[k] = g.items[k]
    BY <1>1, <1>3, Appended
  <2> QED BY <2>2, <2>3
<1> QED BY <1>2, <1>3 DEF Adds

\* The packets alone.
PacketsFit ==
  /\ packets \in [{Video, Audio} -> Seq(PacketRecords)] /\ media \in Nat
  /\ InRow(packets[Video], media, setup.direct) /\ InRow(packets[Audio], media, setup.direct)
  /\ setup.version = 2 => packets[Audio] = <<>>

\* A step that writes, when the generators are as they should be.
LEMMA WritingStep ==
  ASSUME StoreInv, ~closed, UNCHANGED setup, NEW v, NEW a,
         Grown(video, v, packets'[Video], setup.direct), Grown(audio, a, packets'[Audio], setup.direct),
         setup.version = 2 \/ video.state = "header" => a.items = <<>>,
         closed' \in BOOLEAN, v.finished = closed', a.finished = closed', WriteIndex(v, a),
         PacketsFit', media <= media',
         ~closed' => /\ Waits(v, packets'[Video], media', setup.direct) /\ Waits(a, packets'[Audio], media', setup.direct)
                     /\ (v.position # -1 => (v.known <=> setup.known)) /\ ~a.known,
         closed' => /\ Complete(v.items, packets'[Video], media', setup.direct)
                    /\ Complete(a.items, packets'[Audio], media', setup.direct)
  PROVE  StoreInv' /\ StoreGrows
<1>a. /\ v \in GeneratorRecords /\ v.state = video.state /\ v.flushed = video.flushed
      /\ Adds(video, v) /\ Tiles(v.items)
      /\ \A k \in 1..Len(v.items) : Spans(v.items[k], packets'[Video], setup.direct)
  BY DEF Grown, Follows
<1>b. /\ a \in GeneratorRecords /\ a.state = audio.state /\ a.flushed = audio.flushed
      /\ Adds(audio, a) /\ Tiles(a.items)
      /\ \A k \in 1..Len(a.items) : Spans(a.items[k], packets'[Audio], setup.direct)
  BY DEF Grown, Follows
<1>c. /\ packets' \in [{Video, Audio} -> Seq(PacketRecords)] /\ media' \in Nat
      /\ InRow(packets'[Video], media', setup.direct) /\ InRow(packets'[Audio], media', setup.direct)
      /\ setup.version = 2 => packets'[Audio] = <<>>
  BY DEF PacketsFit
<1>1. /\ file' \in Seq(Nat) /\ FileFits'
      /\ Len(file) <= Len(file') /\ \A c \in 1..Len(file) : file'[c] = file[c]
      /\ video' \in GeneratorRecords /\ video'.items = v.items
      /\ video'.flushed = Len(v.items) /\ video'.state # "header"
      /\ video'.position = v.position /\ video'.offset = v.offset
      /\ video'.known = v.known /\ video'.finished = v.finished
      /\ ~closed' => video'.state = "item"
      /\ audio' \in GeneratorRecords /\ audio'.items = a.items
      /\ audio'.flushed = Len(a.items)
      /\ audio'.position = a.position /\ audio'.offset = a.offset
      /\ audio'.known = a.known /\ audio'.finished = a.finished
      /\ ~closed' => audio'.state = "item"
  BY <1>a, <1>b, FileWritten
<1>2. StoreTypes'
  BY <1>1, <1>c DEF StoreInv, StoreTypes
<1>3. GeneratorFits(video, packets[Video])'
  <2>1. Waits(v, packets'[Video], media', setup.direct) => Waits(video', packets'[Video], media', setup.direct)
    BY <1>1 DEF Waits
  <2> QED BY <1>1, <1>a, <2>1 DEF GeneratorFits
<1>4. GeneratorFits(audio, packets[Audio])'
  <2>1. Waits(a, packets'[Audio], media', setup.direct) => Waits(audio', packets'[Audio], media', setup.direct)
    BY <1>1 DEF Waits
  <2> QED BY <1>1, <1>b, <2>1 DEF GeneratorFits
<1>5. GeneratorsFit'
  BY <1>1, <1>3, <1>4, <1>c DEF GeneratorsFit
<1>6. /\ Len(video.items) <= Len(video'.items) /\ Len(audio.items) <= Len(audio'.items)
      /\ \A k \in 1..Len(video.items) : video'.items[k] = video.items[k]
      /\ \A k \in 1..Len(audio.items) : audio'.items[k] = audio.items[k]
  BY <1>1, <1>a, <1>b, ItemsGrow DEF StoreInv, StoreTypes
<1>7. Records <= Records'
  <2> DEFINE p == Len(video.items)
             q == Len(audio.items)
             r == Len(video'.items)
             s == Len(audio'.items)
  <2>1. /\ p \in Nat /\ q \in Nat /\ r \in Nat /\ s \in Nat /\ p <= r /\ q <= s
        /\ Records = p + q /\ Records' = r + s
    BY <1>1, <1>6, GeneratorIs DEF StoreInv, StoreTypes, Records
  <2> HIDE DEF p, q, r, s
  <2> QED BY <2>1
<1>8. Len(Items) <= Len(Items') /\ \A k \in 1..Len(Items) : Items'[k] = Items[k]
  <2>1. Type' = Type
    BY DEF Type
  <2>2. CASE Type = Video
    <3>1. Items = video.items /\ Items' = video'.items
      BY <2>1, <2>2 DEF Items
    <3> QED BY <1>6, <3>1
  <2>3. CASE Type # Video
    <3>1. Items = audio.items /\ Items' = audio'.items
      BY <2>1, <2>3 DEF Items
    <3>2. /\ Len(audio.items) <= Len(audio'.items)
          /\ \A k \in 1..Len(audio.items) : audio'.items[k] = audio.items[k]
      BY <1>6
    <3> QED BY <3>1, <3>2
  <2> QED BY <2>2, <2>3
<1> QED BY <1>1, <1>2, <1>5, <1>7, <1>8 DEF StoreInv, StoreGrows

\* The packet that is written.
Given(type, key, size) ==
  /\ size \in Nat \ {0} /\ media \in Nat /\ media' \in Nat /\ media <= media'
  /\ UNCHANGED setup /\ UNCHANGED closed /\ setup.direct \in BOOLEAN
  /\ media' = After(media, size, setup.direct)
  /\ packets'[type] = Append(packets[type], Packet(key, media, size, setup.direct))
  /\ \A t \in {Video, Audio} : t # type => packets'[t] = packets[t]
  /\ PacketsFit'
LEMMA PacketWritten ==
  ASSUME StoreInv, NEW type \in {Video, Audio}, NEW key \in BOOLEAN, NEW size \in Sizes,
         Write(type, key, size), packets[type] = <<>> => key,
         setup.version = 2 => type = Video
  PROVE  Given(type, key, size)
<1>1. /\ size \in Nat \ {0} /\ media \in Nat
      /\ packets \in [{Video, Audio} -> Seq(PacketRecords)]
      /\ \A t \in {Video, Audio} : packets[t] \in Seq(PacketRecords) /\ InRow(packets[t], media, setup.direct)
      /\ setup.version = 2 => packets[Audio] = <<>>
  BY IndexAssumption DEF StoreInv, StoreTypes, GeneratorsFit
<1>a. setup.direct \in BOOLEAN
  BY SetupIs DEF StoreInv
<1> DEFINE p == Packet(key, media, size, setup.direct)
<1>3. packets' = [packets EXCEPT ![type] = Append(@, p)] /\ setup' = setup
      /\ media' = After(media, size, setup.direct)
  BY DEF Write, Packet, After
<1>b. p = Packet(key, media, size, setup.direct)
  OBVIOUS
<1> HIDE DEF p
<1>2. media' \in Nat /\ media <= media' /\ p \in PacketRecords
  <2>1. PacketFits(p, media', key, media, setup.direct)
    BY <1>1, <1>3, <1>a, <1>b, PacketIs
  <2> QED BY <2>1 DEF PacketFits
<1>5. /\ Append(packets[type], p) \in Seq(PacketRecords)
      /\ InRow(Append(packets[type], p), media', setup.direct)
  BY <1>1, <1>2, <1>3, <1>a, <1>b, InRowMore
<1>6. /\ packets' \in [{Video, Audio} -> Seq(PacketRecords)]
      /\ packets'[type] = Append(packets[type], p)
      /\ \A t \in {Video, Audio} : t # type => packets'[t] = packets[t]
  BY <1>1, <1>3, <1>5
<1>7. ASSUME NEW t \in {Video, Audio}  PROVE InRow(packets'[t], media', setup.direct)
  <2>1. CASE t = type
    BY <1>5, <1>6, <2>1
  <2>2. CASE t # type
    <3>1. packets'[t] = packets[t]
      BY <1>6, <2>2
    <3> QED BY <1>1, <1>2, <3>1, InRowLonger
  <2> QED BY <2>1, <2>2
<1>8. InRow(packets'[Video], media', setup.direct) /\ InRow(packets'[Audio], media', setup.direct)
  BY <1>7
<1>9. setup'.version = 2 => packets'[Audio] = <<>>
  BY <1>1, <1>3, <1>6 DEF Audio, Video
<1>10. PacketsFit'
  BY <1>2, <1>3, <1>6, <1>8, <1>9 DEF PacketsFit
<1> QED BY <1>1, <1>2, <1>3, <1>6, <1>a, <1>10 DEF Write, Given, p

\* A generator that adds nothing.
LEMMA AddsNothing == ASSUME NEW g PROVE Adds(g, g) /\ Follows(g, g)
BY DEF Adds, Follows

\* What StoreInv says while the store is open.
LEMMA OpenStore ==
  ASSUME StoreInv, ~closed
  PROVE  /\ Ready(video, packets[Video], media, setup.direct) /\ Ready(audio, packets[Audio], media, setup.direct)
         /\ video.finished = FALSE /\ audio.finished = FALSE /\ closed = FALSE
         /\ video.position # -1 => (video.known <=> setup.known)
         /\ audio.known = FALSE
         /\ setup.version = 2 => packets[Audio] = <<>>
         /\ setup.version \in {2, 4} /\ setup.known \in BOOLEAN /\ media \in Nat
         /\ setup.direct \in BOOLEAN /\ (setup.known => setup.direct)
         /\ video.state = "header" => video.position = -1 /\ audio.position = -1
<1>1. packets \in [{Video, Audio} -> Seq(PacketRecords)] /\ StoreTypes
  BY DEF StoreInv, StoreTypes
<1>2. packets[Video] \in Seq(PacketRecords) /\ packets[Audio] \in Seq(PacketRecords)
  BY <1>1
<1>3. InRow(packets[Video], media, setup.direct) /\ InRow(packets[Audio], media, setup.direct)
  BY DEF StoreInv, GeneratorsFit
<1>4. GeneratorFits(video, packets[Video]) /\ GeneratorFits(audio, packets[Audio])
  BY DEF StoreInv, GeneratorsFit
<1>5. video.state = "header" => video.position = -1 /\ audio.position = -1
  BY DEF StoreInv, FileFits
<1>6. /\ video.position # -1 => (video.known <=> setup.known)
      /\ ~audio.known
      /\ setup.version = 2 => packets[Audio] = <<>>
  BY DEF StoreInv, GeneratorsFit
<1>7. /\ setup.version \in {2, 4} /\ setup.known \in BOOLEAN
      /\ setup.direct \in BOOLEAN /\ (setup.known => setup.direct)
  BY <1>1, SetupIs
<1>8. video \in GeneratorRecords /\ audio \in GeneratorRecords /\ media \in Nat /\ closed = FALSE
  BY <1>1 DEF StoreTypes
<1>9. Ready(video, packets[Video], media, setup.direct) /\ Ready(audio, packets[Audio], media, setup.direct)
  BY <1>2, <1>3, <1>4, <1>7, <1>8 DEF Ready, GeneratorFits
<1>10. video.finished = FALSE /\ audio.finished = FALSE /\ audio.known = FALSE
  BY <1>4, <1>6, <1>8 DEF GeneratorFits, GeneratorRecords
<1> QED BY <1>5, <1>6, <1>7, <1>8, <1>9, <1>10

\* A generator that waits on, as the media grows.
LEMMA StaysReady ==
  ASSUME NEW g, NEW ps, NEW size, NEW more \in Nat, size <= more, NEW d, Ready(g, ps, size, d)
  PROVE  Grown(g, g, ps, d) /\ Waits(g, ps, more, d)
<1>1. /\ g \in GeneratorRecords /\ ps \in Seq(PacketRecords) /\ size \in Nat /\ d \in BOOLEAN
      /\ Tiles(g.items)
      /\ \A k \in 1..Len(g.items) : Spans(g.items[k], ps, d)
      /\ Waits(g, ps, size, d)
  BY DEF Ready
<1>2. Grown(g, g, ps, d)
  BY <1>1, AddsNothing DEF Grown
<1> QED BY <1>1, <1>2, WaitsLonger

\* A generator of audio that has not begun has no items.
LEMMA NotBegun ==
  ASSUME NEW g, NEW ps, NEW size, NEW d, Ready(g, ps, size, d), g.position = -1 \/ ps = <<>>
  PROVE  g.position = -1 /\ g.items = <<>> /\ ps = <<>> /\ g.offset = -1
<1>1. Waits(g, ps, size, d)
  BY DEF Ready
<1>2. ASSUME ps = <<>>, g.position # -1  PROVE FALSE
  <2>1. g.position \in 0..Len(ps) - 1 /\ Len(ps) = 0
    BY <1>1, <1>2, EmptySeq DEF Waits
  <2> QED BY <2>1
<1> QED BY <1>1, <1>2 DEF Waits

\* A key frame of the video that is enrolled.
Starts == media # video.offset \/ video.offset = 0
LEMMA VideoKey ==
  ASSUME StoreInv, NEW size \in Sizes, WriteVideo(TRUE, size), Starts
  PROVE  StoreInv' /\ StoreGrows
<1> DEFINE length == IF setup.known THEN size ELSE 0
           ps == packets[Video]
           qs == packets'[Video]
           d == setup.direct
           v == Enroll(video, Len(ps), media, length)
<1>1. /\ ~closed /\ Write(Video, TRUE, size) /\ WriteIndex(v, audio)
  BY DEF WriteVideo, Starts
<1>2. /\ size \in Nat \ {0} /\ media \in Nat /\ media' \in Nat /\ media <= media'
      /\ UNCHANGED setup /\ UNCHANGED closed /\ media' = After(media, size, d)
      /\ qs = Append(ps, Packet(TRUE, media, size, d))
      /\ packets'[Audio] = packets[Audio]
      /\ PacketsFit'
  <2>1. Audio # Video
    BY DEF Audio, Video
  <2>2. Given(Video, TRUE, size)
    BY <1>1, PacketWritten
  <2> QED BY <2>1, <2>2 DEF Given
<1>3. /\ Ready(video, ps, media, d) /\ Ready(audio, packets[Audio], media, d)
      /\ video.finished = FALSE /\ audio.finished = FALSE /\ closed = FALSE
      /\ video.position # -1 => (video.known <=> setup.known)
      /\ audio.known = FALSE
      /\ setup.version = 2 => packets[Audio] = <<>>
      /\ setup.known \in BOOLEAN /\ (setup.known => d)
      /\ video.state = "header" => audio.position = -1
  BY <1>1, OpenStore
<1>4. length \in {0, size} /\ (setup.known <=> length # 0) /\ (length # 0 => d)
  BY <1>2, <1>3
<1>5. video.position # -1 => Knows(video, length)
  BY <1>3, <1>4 DEF Knows
<1>6. v = Enroll(video, Len(ps), media, length)
  OBVIOUS
<1> HIDE DEF length, v, d
<1>7. Ready(v, qs, media', d) /\ Follows(video, v) /\ Enrolls(video, v, length)
  <2>1. /\ size \in Nat \ {0} /\ qs = Append(ps, Packet(TRUE, media, size, d))
        /\ media' = After(media, size, d)
    BY <1>2
  <2>2. Ready(video, ps, media, d) /\ length \in {0, size} /\ (length # 0 => d)
    BY <1>3, <1>4
  <2>3. Told(video, v, qs, media', length, d)
    BY <1>5, <1>6, <2>1, <2>2, Enrolled
  <2> QED BY <2>3 DEF Told
<1>8. Grown(video, v, qs, d) /\ Waits(v, qs, media', d)
  BY <1>2, <1>3, <1>7 DEF Grown, Ready
<1>9. Grown(audio, audio, packets'[Audio], d) /\ Waits(audio, packets'[Audio], media', d)
  BY <1>2, <1>3, StaysReady
<1>10. setup.version = 2 \/ video.state = "header" => audio.items = <<>>
  BY <1>3, NotBegun
<1>11. v.finished = closed' /\ audio.finished = closed' /\ closed' \in BOOLEAN /\ ~closed'
  BY <1>2, <1>3, <1>7 DEF Enrolls
<1>12. ~closed' => /\ Waits(v, qs, media', d) /\ Waits(audio, packets'[Audio], media', d)
                   /\ (v.position # -1 => (v.known <=> setup.known)) /\ ~audio.known
  BY <1>3, <1>4, <1>7, <1>8, <1>9 DEF Knows, Enrolls
<1> QED BY <1>1, <1>2, <1>8, <1>9, <1>10, <1>11, <1>12, WritingStep DEF qs, d

\* The items of a generator that is not told of a packet.
LEMMA NotEnrolled ==
  ASSUME NEW g, NEW ps, NEW size, NEW d, Ready(g, ps, size, d), NEW more \in Nat \ {0},
         ~g.known, ps # <<>>, NEW key \in BOOLEAN, d => ~key,
         NEW qs, qs = Append(ps, Packet(key, size, more, d)),
         NEW next, next = After(size, more, d)
  PROVE  Grown(g, g, qs, d) /\ Waits(g, qs, next, d)
<1>1. /\ g \in GeneratorRecords /\ ps \in Seq(PacketRecords) /\ size \in Nat /\ d \in BOOLEAN
      /\ Tiles(g.items) /\ \A k \in 1..Len(g.items) : Spans(g.items[k], ps, d)
      /\ Waits(g, ps, size, d)
  BY DEF Ready
<1> DEFINE p == Packet(key, size, more, d)
<1>a. p = Packet(key, size, more, d) /\ qs = Append(ps, p)
  OBVIOUS
<1> HIDE DEF p
<1>2. p \in PacketRecords /\ (p.key <=> key) /\ next \in Nat /\ size <= next
  <2>1. PacketFits(p, next, key, size, d)
    BY <1>1, <1>a, PacketIs
  <2> QED BY <2>1 DEF PacketFits
<1>3. ASSUME NEW k \in 1..Len(g.items)  PROVE Spans(g.items[k], qs, d)
  <2>1. g.items[k] \in ItemRecords /\ Spans(g.items[k], ps, d)
    BY <1>1, GeneratorIs, ElementOfSeq
  <2> QED BY <1>1, <1>a, <1>2, <2>1, SpansMore
<1>4. Waits(g, qs, next, d)
  BY <1>1, <1>a, <1>2, WaitsOn
<1> QED BY <1>1, <1>3, <1>4, AddsNothing DEF Grown

\* The file is right as long as nothing of it changes.
LEMMA FileStays ==
  ASSUME FileFits, UNCHANGED <<setup, video, audio, file, closed>>
  PROVE  FileFits'
<1>1. /\ HeadSize' = HeadSize /\ FootSize' = FootSize /\ Tag' = Tag
      /\ Items' = Items /\ Records' = Records
  BY DEF HeadSize, FootSize, Tag, Items, Type, Records
<1>2. CASE video.state = "header"
  BY <1>2 DEF FileFits
<1>3. CASE video.state # "header"
  <2>1. /\ Len(file) = HeadSize + 10 * Records + (IF closed THEN FootSize ELSE 0)
        /\ HeadFits(file) /\ RecordsFit(file, Records, Items)
    BY <1>3 DEF FileFits
  <2>2. HeadFits(file)'
    BY <1>1, <2>1 DEF HeadFits
  <2>3. RecordsFit(file, Records, Items)'
    BY <1>1, <2>1 DEF RecordsFit, Mine, FrameOf, Says
  <2> QED BY <1>1, <1>3, <2>1, <2>2, <2>3 DEF FileFits
<1> QED BY <1>2, <1>3

\* A step that only adds a packet.
LEMMA QuietStep ==
  ASSUME StoreInv, ~closed, UNCHANGED <<setup, video, audio, file, closed>>,
         PacketsFit', media <= media',
         Grown(video, video, packets'[Video], setup.direct), Grown(audio, audio, packets'[Audio], setup.direct),
         Waits(video, packets'[Video], media', setup.direct), Waits(audio, packets'[Audio], media', setup.direct)
  PROVE  StoreInv' /\ StoreGrows
<1>1. StoreTypes'
  BY DEF StoreInv, StoreTypes, PacketsFit
<1>2. /\ Tiles(video.items) /\ Tiles(audio.items)
      /\ \A k \in 1..Len(video.items) : Spans(video.items[k], packets'[Video], setup.direct)
      /\ \A k \in 1..Len(audio.items) : Spans(audio.items[k], packets'[Audio], setup.direct)
  BY DEF Grown
<1>3. GeneratorFits(video, packets[Video]) /\ GeneratorFits(audio, packets[Audio])
  BY DEF StoreInv, GeneratorsFit
<1>4. GeneratorFits(video, packets[Video])' /\ GeneratorFits(audio, packets[Audio])'
  BY <1>2, <1>3 DEF GeneratorFits
<1>5. \A t \in {Video, Audio} : InRow(packets'[t], media', setup.direct)
  BY DEF PacketsFit
<1>6. /\ video.position # -1 => (video.known <=> setup.known)
      /\ ~audio.known
  BY DEF StoreInv, GeneratorsFit
<1>7. GeneratorsFit'
  BY <1>4, <1>5, <1>6 DEF GeneratorsFit, PacketsFit
<1>8. FileFits'
  BY FileStays DEF StoreInv
<1>9. /\ file \in Seq(Nat) /\ Len(file) \in Nat
      /\ video.items \in Seq(ItemRecords) /\ audio.items \in Seq(ItemRecords)
      /\ Len(video.items) \in Nat /\ Len(audio.items) \in Nat
  BY GeneratorIs, LenProperties DEF StoreInv, StoreTypes
<1>10. Items' = Items /\ Len(Items) \in Nat
  BY <1>9 DEF Items, Type
<1>11. Records' = Records /\ Records \in Nat
  <2> DEFINE p == Len(video.items)
             q == Len(audio.items)
  <2>1. p \in Nat /\ q \in Nat /\ Records = p + q
    BY <1>9 DEF Records
  <2>2. Records' = Records
    BY DEF Records
  <2> HIDE DEF p, q
  <2> QED BY <2>1, <2>2
<1>12. media <= media' /\ Len(file) <= Len(file') /\ Len(Items) <= Len(Items')
       /\ Records <= Records'
  BY <1>9, <1>10, <1>11
<1> QED BY <1>1, <1>7, <1>8, <1>10, <1>12 DEF StoreInv, StoreGrows

\* A packet of the video that starts nothing.
LEMMA VideoAdded ==
  ASSUME StoreInv, ~closed, NEW size \in Sizes, NEW key \in BOOLEAN, setup.direct => ~key,
         Write(Video, key, size), UNCHANGED <<video, audio, file>>,
         packets[Video] # <<>>, ~video.known
  PROVE  StoreInv' /\ StoreGrows
<1> DEFINE ps == packets[Video]
           qs == packets'[Video]
           d == setup.direct
<1>3. /\ size \in Nat \ {0} /\ media \in Nat /\ media' \in Nat /\ media <= media'
      /\ UNCHANGED setup /\ UNCHANGED closed /\ media' = After(media, size, d)
      /\ qs = Append(ps, Packet(key, media, size, d))
      /\ packets'[Audio] = packets[Audio]
      /\ PacketsFit'
  <2>1. Audio # Video
    BY DEF Audio, Video
  <2>2. Given(Video, key, size)
    BY PacketWritten
  <2> QED BY <2>1, <2>2 DEF Given
<1>4. Ready(video, ps, media, d) /\ Ready(audio, packets[Audio], media, d)
  BY OpenStore
<1>5. d => ~key
  OBVIOUS
<1> HIDE DEF d
<1>6. Grown(video, video, qs, d) /\ Waits(video, qs, media', d)
  <2>1. size \in Nat \ {0} /\ qs = Append(ps, Packet(key, media, size, d))
        /\ media' = After(media, size, d)
    BY <1>3
  <2>2. Ready(video, ps, media, d)
    BY <1>4
  <2> QED BY <1>5, <2>1, <2>2, NotEnrolled
<1>7. Grown(audio, audio, packets'[Audio], d) /\ Waits(audio, packets'[Audio], media', d)
  BY <1>3, <1>4, StaysReady
<1> QED BY <1>3, <1>6, <1>7, QuietStep DEF d

\* A packet of the video that is no key frame.
LEMMA VideoRest ==
  ASSUME StoreInv, NEW size \in Sizes, WriteVideo(FALSE, size)
  PROVE  StoreInv' /\ StoreGrows
<1>1. /\ ~closed /\ Write(Video, FALSE, size) /\ UNCHANGED <<video, audio, file>>
      /\ Len(packets[Video]) > 0 /\ ~setup.known
  BY DEF WriteVideo
<1>2. packets[Video] # <<>>
  BY <1>1, EmptySeq
<1>3. ~video.known
  <2>1. Ready(video, packets[Video], media, setup.direct)
        /\ (video.position # -1 => (video.known <=> setup.known))
    BY <1>1, OpenStore
  <2>2. video.position # -1
    BY <1>2, <2>1 DEF Ready, Waits
  <2> QED BY <1>1, <2>1, <2>2
<1> QED BY <1>1, <1>2, <1>3, VideoAdded

\* A key frame where the last one was enrolled: the muxer holds that one back.
LEMMA VideoHeld ==
  ASSUME StoreInv, NEW size \in Sizes, WriteVideo(TRUE, size), ~Starts
  PROVE  StoreInv' /\ StoreGrows
<1>1. /\ ~closed /\ Write(Video, TRUE, size) /\ UNCHANGED <<video, audio, file>>
      /\ media = video.offset
  BY DEF WriteVideo, Starts
<1>2. /\ Ready(video, packets[Video], media, setup.direct) /\ media \in Nat
      /\ video.position # -1 => (video.known <=> setup.known)
      /\ setup.known => setup.direct
  BY <1>1, OpenStore
<1>3. video.position # -1
  BY <1>1, <1>2 DEF Ready, Waits
<1>4. ~setup.direct
  <2>1. setup.direct => video.offset < media
    BY <1>2, <1>3, Begins
  <2> QED BY <1>1, <1>2, <2>1
<1>5. ~video.known /\ packets[Video] # <<>>
  <2>1. packets[Video] # <<>>
    BY <1>2, <1>3, NotBegun
  <2> QED BY <1>2, <1>3, <1>4, <2>1
<1> QED BY <1>1, <1>4, <1>5, VideoAdded

\* Audio starts with a packet that is enrolled.
LEMMA AudioStarts ==
  ASSUME packets[Audio] = <<>>  PROVE Len(packets[Audio]) % AudioEvery = 0
<1>1. Len(packets[Audio]) = 0
  BY EmptySeq
<1> QED BY <1>1, IndexAssumption

\* A packet of audio that is no key frame.
LEMMA AudioRest ==
  ASSUME StoreInv, NEW size \in Sizes, WriteAudio(size), Len(packets[Audio]) % AudioEvery # 0
  PROVE  StoreInv' /\ StoreGrows
<1> DEFINE ps == packets[Audio]
           qs == packets'[Audio]
           d == setup.direct
<1>1. /\ ~closed /\ Write(Audio, FALSE, size) /\ UNCHANGED <<video, audio, file>>
      /\ setup.version = 4
  BY DEF WriteAudio
<1>2. ps # <<>>
  BY AudioStarts
<1>3. /\ size \in Nat \ {0} /\ media \in Nat /\ media' \in Nat /\ media <= media'
      /\ UNCHANGED setup /\ UNCHANGED closed /\ media' = After(media, size, d)
      /\ qs = Append(ps, Packet(FALSE, media, size, d))
      /\ packets'[Video] = packets[Video]
      /\ PacketsFit'
  <2>1. Audio # Video /\ setup.version # 2
    BY <1>1 DEF Audio, Video
  <2>2. Given(Audio, FALSE, size)
    BY <1>1, <1>2, <2>1, PacketWritten
  <2> QED BY <2>1, <2>2 DEF Given
<1>4. /\ Ready(video, packets[Video], media, d) /\ Ready(audio, ps, media, d) /\ ~audio.known
  BY <1>1, OpenStore
<1> HIDE DEF d
<1>5. Grown(audio, audio, qs, d) /\ Waits(audio, qs, media', d)
  <2>1. /\ size \in Nat \ {0} /\ qs = Append(ps, Packet(FALSE, media, size, d))
        /\ media' = After(media, size, d) /\ FALSE \in BOOLEAN /\ (d => ~FALSE)
    BY <1>3
  <2>2. Ready(audio, ps, media, d) /\ ~audio.known
    BY <1>4
  <2> QED BY <1>2, <2>1, <2>2, NotEnrolled
<1>6. Grown(video, video, packets'[Video], d) /\ Waits(video, packets'[Video], media', d)
  BY <1>3, <1>4, StaysReady
<1> QED BY <1>1, <1>3, <1>5, <1>6, QuietStep DEF d

\* A packet of audio that is enrolled.
LEMMA AudioKey ==
  ASSUME StoreInv, NEW size \in Sizes, WriteAudio(size), Len(packets[Audio]) % AudioEvery = 0
  PROVE  StoreInv' /\ StoreGrows
<1> DEFINE ps == packets[Audio]
           qs == packets'[Audio]
           d == setup.direct
           a == Enroll(audio, Len(ps), media, 0)
<1>1. /\ ~closed /\ Write(Audio, TRUE, size) /\ WriteIndex(video, a) /\ setup.version = 4
  BY DEF WriteAudio
<1>2. /\ size \in Nat \ {0} /\ media \in Nat /\ media' \in Nat /\ media <= media'
      /\ UNCHANGED setup /\ UNCHANGED closed /\ media' = After(media, size, d)
      /\ qs = Append(ps, Packet(TRUE, media, size, d))
      /\ packets'[Video] = packets[Video]
      /\ PacketsFit'
  <2>1. Audio # Video /\ setup.version # 2
    BY <1>1 DEF Audio, Video
  <2>2. Given(Audio, TRUE, size)
    BY <1>1, <2>1, PacketWritten
  <2> QED BY <2>1, <2>2 DEF Given
<1>3. /\ Ready(video, packets[Video], media, d) /\ Ready(audio, ps, media, d)
      /\ video.finished = FALSE /\ audio.finished = FALSE /\ closed = FALSE
      /\ video.position # -1 => (video.known <=> setup.known)
      /\ audio.known = FALSE
      /\ video.state = "header" => audio.position = -1
  BY <1>1, OpenStore
<1>4. audio.position # -1 => Knows(audio, 0)
  BY <1>3 DEF Knows
<1>5. a = Enroll(audio, Len(ps), media, 0)
  OBVIOUS
<1> HIDE DEF a, d
<1>6. /\ Ready(a, qs, media', d) /\ Follows(audio, a) /\ Enrolls(audio, a, 0)
      /\ audio.position = -1 => a.items = audio.items
  <2>1. /\ size \in Nat \ {0} /\ qs = Append(ps, Packet(TRUE, media, size, d))
        /\ media' = After(media, size, d) /\ 0 \in {0, size} /\ (0 # 0 => d)
    BY <1>2
  <2>2. Ready(audio, ps, media, d)
    BY <1>3
  <2>3. Told(audio, a, qs, media', 0, d)
    BY <1>4, <1>5, <2>1, <2>2, Enrolled
  <2> QED BY <2>3 DEF Told
<1>7. Grown(audio, a, qs, d) /\ Waits(a, qs, media', d)
  BY <1>2, <1>3, <1>6 DEF Grown, Ready
<1>8. Grown(video, video, packets'[Video], d) /\ Waits(video, packets'[Video], media', d)
  BY <1>2, <1>3, StaysReady
<1>9. setup.version = 2 \/ video.state = "header" => a.items = <<>>
  <2>1. ASSUME audio.position = -1  PROVE a.items = audio.items /\ audio.items = <<>>
    <3>1. audio.items = <<>>
      BY <1>3, <2>1, NotBegun
    <3> QED BY <1>6, <2>1, <3>1
  <2> QED BY <1>1, <1>3, <2>1
<1>10. video.finished = closed' /\ a.finished = closed' /\ closed' \in BOOLEAN /\ ~closed'
  BY <1>2, <1>3, <1>6 DEF Enrolls
<1>11. ~closed' => /\ Waits(video, packets'[Video], media', d) /\ Waits(a, packets'[Audio], media', d)
                   /\ (video.position # -1 => (video.known <=> setup.known)) /\ ~a.known
  BY <1>3, <1>6, <1>7, <1>8 DEF Knows, Enrolls
<1> QED BY <1>1, <1>2, <1>7, <1>8, <1>9, <1>10, <1>11, WritingStep DEF qs, d

\* What the muxer writes comes behind all that was written,
Placed(ps, k, size, more) ==
  [ps EXCEPT ![k] = [key |-> @.key, at |-> size, end |-> size + more]]
Replaced(qs, ps, k, size) ==
  /\ qs \in Seq(PacketRecords) /\ Len(qs) = Len(ps)
  /\ (qs[k].key <=> ps[k].key) /\ qs[k].at = size
  /\ \A j \in 1..Len(ps) : j # k => qs[j] = ps[j]
LEMMA PlacedInRow ==
  ASSUME NEW ps \in Seq(PacketRecords), NEW size \in Nat, NEW more \in Nat \ {0},
         InRow(ps, size, FALSE), NEW k \in 1..Len(ps), ps[k].at = Held,
         \A j \in 1..k - 1 : ps[j].at # Held, NEW qs, qs = Placed(ps, k, size, more)
  PROVE  Replaced(qs, ps, k, size) /\ InRow(qs, size + more, FALSE)
<1> DEFINE p == [key |-> ps[k].key, at |-> size, end |-> size + more]
<1>1. Len(ps) \in Nat /\ \A j \in 1..Len(ps) : ps[j] \in PacketRecords
  BY LenProperties, ElementOfSeq
<1>2. /\ p \in PacketRecords /\ p.key = ps[k].key /\ p.at = size /\ p.end = size + more
      /\ size + more \in Nat /\ size <= size + more /\ size < size + more
  BY <1>1 DEF PacketRecords
<1>3. qs = [ps EXCEPT ![k] = p]
  BY DEF Placed
<1> HIDE DEF p
<1>4. /\ qs \in Seq(PacketRecords) /\ Len(qs) = Len(ps) /\ qs[k] = p
      /\ \A j \in 1..Len(ps) : j # k => qs[j] = ps[j]
  BY <1>2, <1>3, ExceptSeq
<1>5. qs # <<>> => qs[1].key
  <2>1. 1 \in 1..Len(ps) /\ ps[1].key
    BY <1>1, EmptySeq DEF InRow
  <2> QED BY <1>2, <1>4, <2>1
<1>6. ASSUME NEW j \in 1..Len(qs), qs[j].at # Held  PROVE Lies(qs[j], size + more)
  <2>1. CASE j = k
    BY <1>2, <1>4, <2>1 DEF Lies
  <2>2. CASE j # k
    <3>1. Lies(ps[j], size) /\ qs[j] = ps[j]
      BY <1>4, <1>6, <2>2 DEF InRow
    <3> QED BY <1>2, <3>1, LiesLonger
  <2> QED BY <2>1, <2>2
<1>7. ASSUME NEW i \in 1..Len(qs), NEW j \in 1..Len(qs), i < j, qs[j].at # Held
      PROVE  qs[i].at # Held /\ qs[i].end <= qs[j].at
  <2>1. CASE j = k
    <3>1. i \in 1..k - 1 /\ i # k /\ i \in 1..Len(ps)
      BY <1>1, <1>4, <1>7, <2>1
    <3>2. ps[i].at # Held /\ qs[i] = ps[i]
      BY <1>4, <3>1
    <3>3. Lies(ps[i], size)
      BY <3>1, <3>2 DEF InRow
    <3> QED BY <1>2, <1>4, <2>1, <3>2, <3>3 DEF Lies
  <2>2. CASE j # k
    <3>1. qs[j] = ps[j] /\ ps[j].at # Held /\ i \in 1..Len(ps) /\ j \in 1..Len(ps)
      BY <1>4, <1>7, <2>2
    <3>2. ps[i].at # Held /\ ps[i].end <= ps[j].at
      BY <1>7, <3>1 DEF InRow
    <3>3. i # k
      BY <3>2
    <3> QED BY <1>4, <3>1, <3>2, <3>3
  <2> QED BY <2>1, <2>2
<1>8. InRow(qs, size + more, FALSE)
  BY <1>5, <1>6, <1>7 DEF InRow
<1> QED BY <1>2, <1>4, <1>8 DEF Replaced

\* behind the item of the packet too, since that was enrolled before.
LEMMA PlacedReady ==
  ASSUME NEW g, NEW ps, NEW size, Ready(g, ps, size, FALSE), NEW more \in Nat \ {0},
         NEW k \in 1..Len(ps), NEW qs, Replaced(qs, ps, k, size)
  PROVE  Grown(g, g, qs, FALSE) /\ Waits(g, qs, size + more, FALSE)
<1>1. /\ g \in GeneratorRecords /\ ps \in Seq(PacketRecords) /\ size \in Nat
      /\ Tiles(g.items) /\ \A l \in 1..Len(g.items) : Spans(g.items[l], ps, FALSE)
      /\ Waits(g, ps, size, FALSE)
  BY DEF Ready
<1>q. /\ Len(qs) = Len(ps) /\ (qs[k].key <=> ps[k].key) /\ qs[k].at = size
      /\ \A j \in 1..Len(ps) : j # k => qs[j] = ps[j]
  BY DEF Replaced
<1>2. Len(ps) \in Nat /\ size + more \in Nat /\ size <= size + more
  BY <1>1, LenProperties
<1>3. g.position # -1
  <2>1. ps # <<>>
    BY <1>2, EmptySeq
  <2> QED BY <1>1, <2>1 DEF Waits
<1>4. /\ ~g.known /\ g.position \in 0..Len(ps) - 1 /\ g.offset \in 0..size
      /\ NotBehind(g.offset, ps[g.position + 1]) /\ ps[g.position + 1].key
      /\ Reach(g.items, Len(g.items)) = g.position
      /\ \A l \in 1..Len(g.items) : g.items[l].offset + g.items[l].length <= g.offset
  BY <1>1, <1>3 DEF Waits
<1>5. \A j \in 1..Len(ps) : qs[j].key <=> ps[j].key
  BY <1>q
<1>6. ASSUME NEW j \in 1..Len(ps), NEW o \in 0..size, NotBehind(o, ps[j])
      PROVE  NotBehind(o, qs[j])
  <2>1. CASE j = k
    BY <1>1, <1>q, <2>1 DEF NotBehind
  <2>2. CASE j # k
    BY <1>6, <1>q, <2>2
  <2> QED BY <2>1, <2>2
<1>7. ASSUME NEW l \in 1..Len(g.items)  PROVE Spans(g.items[l], qs, FALSE)
  <2> DEFINE i == g.items[l]
  <2>1. i \in ItemRecords /\ Spans(i, ps, FALSE)
    BY <1>1, GeneratorIs, ElementOfSeq
  <2>2. i.offset + i.length <= g.offset
    BY <1>4
  <2> HIDE DEF i
  <2>3. /\ i.frame \in Nat /\ i.frames \in Nat \ {0} /\ i.offset \in Nat /\ i.length \in Nat
        /\ i.frame + i.frames <= Len(ps) /\ ps[i.frame + 1].key
        /\ NotBehind(i.offset, ps[i.frame + 1])
    BY <2>1 DEF ItemRecords, Spans
  <2>4. i.frame + 1 \in 1..Len(ps) /\ i.offset \in 0..size
    <3> DEFINE a == i.frame
               b == i.frames
               n == Len(ps)
    <3>4. a \in Nat /\ b \in Nat \ {0} /\ a + b <= n /\ n \in Nat
      BY <1>2, <2>3
    <3> HIDE DEF a, b, n
    <3>5. a + 1 \in 1..n
      BY <3>4
    <3>1. i.frame + 1 \in 1..Len(ps)
      BY <3>5 DEF a, n
    <3> DEFINE o == i.offset
               w == i.length
               q == g.offset
    <3>2. o \in Nat /\ w \in Nat /\ o + w <= q /\ q \in 0..size /\ size \in Nat
      BY <1>1, <1>4, <2>2, <2>3
    <3> HIDE DEF o, w, q
    <3>3. o \in 0..size
      BY <3>2
    <3> QED BY <3>1, <3>3 DEF o
  <2>5. qs[i.frame + 1].key /\ NotBehind(i.offset, qs[i.frame + 1])
    BY <1>5, <1>6, <2>3, <2>4
  <2> QED BY <1>q, <2>3, <2>5 DEF Spans, i
<1>8. Waits(g, qs, size + more, FALSE)
  <2>1. g.position + 1 \in 1..Len(ps) /\ g.offset \in 0..size + more
    <3>1. g.position + 1 \in 1..Len(ps)
      BY <1>2, <1>4
    <3>2. g.offset \in 0..size + more
      BY <1>1, <1>2, <1>4
    <3> QED BY <3>1, <3>2
  <2>2. qs[g.position + 1].key /\ NotBehind(g.offset, qs[g.position + 1])
    BY <1>4, <1>5, <1>6, <2>1
  <2> QED BY <1>3, <1>4, <1>q, <2>1, <2>2 DEF Waits
<1> QED BY <1>1, <1>7, <1>8, AddsNothing DEF Grown

\* The muxer writes a packet that it held back.
LEMMA MuxerStep ==
  ASSUME StoreInv, NEW type \in {Video, Audio}, NEW size \in Sizes, MuxerWrites(type, size)
  PROVE  StoreInv' /\ StoreGrows
<1>1. /\ size \in Nat \ {0} /\ media \in Nat
      /\ packets \in [{Video, Audio} -> Seq(PacketRecords)]
      /\ \A t \in {Video, Audio} : /\ packets[t] \in Seq(PacketRecords)
                                   /\ InRow(packets[t], media, setup.direct)
      /\ setup.version = 2 => packets[Audio] = <<>>
      /\ setup.direct \in BOOLEAN
  BY IndexAssumption, SetupIs DEF StoreInv, StoreTypes, GeneratorsFit
<1> DEFINE ps == packets[type]
           qs == packets'[type]
<1>2. PICK k \in 1..Len(ps) :
        /\ ps[k].at = Held /\ \A j \in 1..k - 1 : ps[j].at # Held
        /\ packets' = [packets EXCEPT ![type] = Placed(ps, k, media, size)]
  <2>1. DOMAIN ps = 1..Len(ps)
    BY <1>1, LenProperties
  <2> QED BY <1>1, <2>1 DEF MuxerWrites, Placed
<1>3. /\ media' = media + size /\ media' \in Nat /\ media <= media'
      /\ UNCHANGED <<setup, video, audio, file, closed>>
  BY <1>1 DEF MuxerWrites
<1>4. setup.direct = FALSE
  BY <1>1, <1>2 DEF InRow
<1>5. ~closed
  BY <1>2 DEF StoreInv, GeneratorsFit, GeneratorFits, Complete
<1>6. /\ Ready(video, packets[Video], media, FALSE) /\ Ready(audio, packets[Audio], media, FALSE)
  BY <1>4, <1>5, OpenStore
<1>7. qs = Placed(ps, k, media, size) /\ \A t \in {Video, Audio} : t # type => packets'[t] = packets[t]
  BY <1>1, <1>2
<1>8. /\ Replaced(qs, ps, k, media) /\ InRow(qs, media + size, FALSE)
      /\ qs \in Seq(PacketRecords)
  <2>1. /\ ps \in Seq(PacketRecords) /\ InRow(ps, media, FALSE)
        /\ k \in 1..Len(ps) /\ ps[k].at = Held /\ \A j \in 1..k - 1 : ps[j].at # Held
    BY <1>1, <1>2, <1>4
  <2> HIDE DEF ps, qs
  <2>2. Replaced(qs, ps, k, media) /\ InRow(qs, media + size, FALSE)
    BY <1>1, <1>7, <2>1, PlacedInRow
  <2> QED BY <2>2 DEF Replaced
<1>9. PacketsFit'
  <2>1. ASSUME NEW t \in {Video, Audio}, t # type  PROVE InRow(packets'[t], media', setup.direct)
    BY <1>1, <1>3, <1>7, <2>1, InRowLonger
  <2>2. \A t \in {Video, Audio} : InRow(packets'[t], media', setup.direct)
    BY <1>3, <1>4, <1>8, <2>1
  <2>3. packets' \in [{Video, Audio} -> Seq(PacketRecords)]
    <3>1. Placed(ps, k, media, size) \in Seq(PacketRecords)
      BY <1>7, <1>8
    <3> QED BY <1>1, <1>2, <3>1
  <2>4. setup.version = 2 => packets'[Audio] = <<>>
    <3>1. ps # <<>>
      BY <1>1, <1>2, EmptySeq
    <3> QED BY <1>1, <1>7, <3>1
  <2> QED BY <1>3, <2>2, <2>3, <2>4 DEF PacketsFit
<1>10. ASSUME NEW g, NEW t \in {Video, Audio}, Ready(g, packets[t], media, FALSE)
       PROVE  Grown(g, g, packets'[t], FALSE) /\ Waits(g, packets'[t], media', FALSE)
  <2>1. CASE t = type
    <3>1. Ready(g, ps, media, FALSE)
      BY <1>10, <2>1
    <3>2. Grown(g, g, qs, FALSE) /\ Waits(g, qs, media + size, FALSE)
      <4> HIDE DEF ps, qs
      <4> QED BY <1>1, <1>8, <3>1, PlacedReady
    <3> QED BY <1>3, <2>1, <3>2
  <2>2. CASE t # type
    BY <1>3, <1>7, <1>10, <2>2, StaysReady
  <2> QED BY <2>1, <2>2
<1> QED BY <1>3, <1>4, <1>5, <1>6, <1>9, <1>10, QuietStep

\* The store is closed.
LEMMA ClosingStep ==
  ASSUME StoreInv, CloseStore
  PROVE  StoreInv' /\ StoreGrows
<1> DEFINE v == CloseGenerator(video, Len(packets[Video]), media)
           a == CloseGenerator(audio, Len(packets[Audio]), media)
<1>1. /\ ~closed /\ closed' = TRUE /\ WriteIndex(v, a) /\ UNCHANGED <<setup, packets, media>>
  BY DEF CloseStore
<1>2. /\ Ready(video, packets[Video], media, setup.direct) /\ Ready(audio, packets[Audio], media, setup.direct)
      /\ setup.version = 2 => packets[Audio] = <<>>
      /\ media \in Nat
      /\ video.state = "header" => audio.position = -1
  BY <1>1, OpenStore
<1>w. /\ packets[Video] \in Seq(PacketRecords) /\ packets[Audio] \in Seq(PacketRecords)
      /\ \A k \in 1..Len(packets[Video]) : packets[Video][k].at # Held
      /\ \A k \in 1..Len(packets[Audio]) : packets[Audio][k].at # Held
  BY LenProperties DEF CloseStore, StoreInv, StoreTypes
<1>3. v = CloseGenerator(video, Len(packets[Video]), media)
  OBVIOUS
<1>4. a = CloseGenerator(audio, Len(packets[Audio]), media)
  OBVIOUS
<1> HIDE DEF v, a
<1>5. /\ Grown(video, v, packets[Video], setup.direct) /\ v.finished = TRUE
      /\ Complete(v.items, packets[Video], media, setup.direct)
  BY <1>2, <1>3, <1>w, ClosesGenerator
<1>6. /\ Grown(audio, a, packets[Audio], setup.direct) /\ a.finished = TRUE
      /\ Complete(a.items, packets[Audio], media, setup.direct)
  BY <1>2, <1>4, <1>w, ClosesGenerator
<1>7. setup.version = 2 \/ video.state = "header" => a.items = <<>>
  <2>1. setup.version = 2 \/ video.state = "header" => packets[Audio] = <<>>
    BY <1>2, NotBegun
  <2>2. /\ a \in GeneratorRecords
        /\ \A k \in 1..Len(a.items) : Spans(a.items[k], packets[Audio], setup.direct)
    BY <1>6 DEF Grown
  <2> QED BY <2>1, <2>2, NoPacketsNoItems
<1>8. PacketsFit' /\ media <= media'
  BY <1>1, <1>2 DEF StoreInv, StoreTypes, GeneratorsFit, PacketsFit
<1>9. v.finished = closed' /\ a.finished = closed' /\ closed' \in BOOLEAN
  BY <1>1, <1>5, <1>6
<1>10. Grown(video, v, packets'[Video], setup.direct) /\ Grown(audio, a, packets'[Audio], setup.direct)
  BY <1>1, <1>5, <1>6
<1>11. ~closed' => /\ Waits(v, packets'[Video], media', setup.direct) /\ Waits(a, packets'[Audio], media', setup.direct)
                   /\ (v.position # -1 => (v.known <=> setup.known)) /\ ~a.known
  BY <1>1
<1>12. closed' => /\ Complete(v.items, packets'[Video], media', setup.direct)
                  /\ Complete(a.items, packets'[Audio], media', setup.direct)
  BY <1>1, <1>5, <1>6
<1> QED BY <1>1, <1>7, <1>8, <1>9, <1>10, <1>11, <1>12, WritingStep

\* Every step keeps the store as it should be, and lets it only grow.
LEMMA StoreStep ==
  ASSUME StoreInv, [Next]_vars
  PROVE  StoreInv' /\ StoreGrows
<1>1. ASSUME NEW key \in BOOLEAN, NEW size \in Sizes, WriteVideo(key, size)
      PROVE  StoreInv' /\ StoreGrows
  <2>1. CASE key = TRUE
    BY <1>1, <2>1, VideoKey, VideoHeld
  <2>2. CASE key = FALSE
    BY <1>1, <2>2, VideoRest
  <2> QED BY <2>1, <2>2
<1>2. ASSUME NEW size \in Sizes, WriteAudio(size)
      PROVE  StoreInv' /\ StoreGrows
  BY <1>2, AudioKey, AudioRest
<1>a. ASSUME NEW type \in {Video, Audio}, NEW size \in Sizes, MuxerWrites(type, size)
      PROVE  StoreInv' /\ StoreGrows
  BY <1>a, MuxerStep
<1>3. CASE CloseStore
  BY <1>3, ClosingStep
<1>4. CASE UNCHANGED written
  <2>1. UNCHANGED <<setup, packets, media, video, audio, file, closed>>
    BY <1>4 DEF written
  <2>2. StoreInv'
    <3>1. StoreTypes' /\ GeneratorsFit'
      BY <2>1 DEF StoreInv, StoreTypes, GeneratorsFit, GeneratorFits
    <3> QED BY <2>1, <3>1, FileStays DEF StoreInv
  <2>3. StoreGrows
    <3>1. /\ media \in Nat /\ Len(file) \in Nat /\ Records \in Nat /\ Len(Items) \in Nat
      BY RecordsAre, GeneratorIs, LenProperties DEF StoreInv, StoreTypes, Items
    <3>2. Items' = Items /\ Records' = Records
      BY <2>1 DEF Items, Records, Type
    <3> QED BY <2>1, <3>1, <3>2 DEF StoreGrows
  <2> QED BY <2>2, <2>3
<1>5. CASE \/ ShowIndex \/ ShowMedia
           \/ \E u \in Inputs : Open(u) \/ CreateReads(u) \/ CreateEnds(u) \/ Cancel(u)
                       \/ Cancelled(u) \/ CancelTimesOut(u) \/ Sync(u) \/ Measure(u)
           \/ Work
  <2>1. UNCHANGED written
    BY <1>5 DEF ShowIndex, ShowMedia, Open, CreateReads, CreateEnds, Cancel, Cancelled,
                CancelTimesOut, Sync, Measure, Work, Job, JobStarts, JobRuns, JobReads,
                JobParses, JobDecides, JobGoesOn, JobChecked, JobWaits, Unchanged
  <2> QED BY <1>4, <2>1
<1>6. CASE UNCHANGED vars
  BY <1>4, <1>6 DEF vars
<1> QED BY <1>1, <1>2, <1>3, <1>a, <1>5, <1>6 DEF Next

\* Nothing is written at first.
LEMMA StoreInit ==
  ASSUME \A s \in Setups : s.version # 3, Init
  PROVE  StoreInv
<1>1. /\ setup \in Setups /\ setup.version # 3
      /\ packets = [t \in {Video, Audio} |-> <<>>] /\ media = 0
      /\ file = <<>> /\ closed = FALSE
      /\ video = Generator /\ audio = Generator
  BY DEF Init
<1>2. <<>> \in Seq(PacketRecords) /\ <<>> \in Seq(ItemRecords) /\ <<>> \in Seq(Nat)
  BY EmptySeq
<1>3. Generator \in GeneratorRecords
  BY <1>2 DEF Generator, GeneratorRecords
<1>4. StoreTypes
  <2>1. packets \in [{Video, Audio} -> Seq(PacketRecords)]
    BY <1>1, <1>2
  <2> QED BY <1>1, <1>2, <1>3, <2>1 DEF StoreTypes
<1>5. /\ Generator.state = "header" /\ Generator.items = <<>> /\ Generator.flushed = 0
      /\ Generator.position = -1 /\ Generator.offset = -1 /\ Generator.known = FALSE
      /\ Generator.finished = FALSE /\ Len(Generator.items) = 0
  BY EmptySeq DEF Generator
<1>6. Len(<<>>) = 0
  BY EmptySeq
<1>d. setup.direct \in BOOLEAN
  BY <1>4, SetupIs
<1>7. Tiles(Generator.items) /\ Waits(Generator, <<>>, 0, setup.direct)
  BY <1>5, <1>d DEF Tiles, Waits
<1>8. packets[Video] = <<>> /\ packets[Audio] = <<>>
  BY <1>1
<1>9. InRow(<<>>, 0, setup.direct)
  BY <1>6, <1>d DEF InRow
<1>10. GeneratorFits(video, packets[Video]) /\ GeneratorFits(audio, packets[Audio])
  BY <1>1, <1>5, <1>7, <1>8 DEF GeneratorFits
<1>11. GeneratorsFit
  BY <1>1, <1>5, <1>8, <1>9, <1>10 DEF GeneratorsFit
<1>12. FileFits
  BY <1>1, <1>5 DEF FileFits
<1> QED BY <1>4, <1>11, <1>12 DEF StoreInv

-----------------------------------------------------------------------------
(* The readers.                                                            *)

\* What StoreInv says of items and file, and of a file that has a header.
IndexIs ==
  /\ file \in Seq(Nat) /\ Len(file) \in Nat
  /\ Items \in Seq(ItemRecords) /\ Len(Items) \in Nat /\ Tiles(Items)
  /\ Records \in Nat /\ HeadSize \in {4, 10} /\ closed \in BOOLEAN
  /\ setup.version \in {2, 4} /\ setup.type \in 1..2
  /\ HeadSize = IF setup.version = 4 THEN 10 ELSE 4
  /\ Tag = IF setup.version = 4 THEN setup.type ELSE 0

FileSays ==
  /\ Len(file) = HeadSize + 10 * Records + (IF closed THEN FootSize ELSE 0)
  /\ HeadFits(file)
  /\ \A j \in 1..Records : Mine(file, j) =>
       \E k \in 1..Len(Items) : Says(file, j, Items[k]) /\ FrameOf(file, j) = Items[k].frame
  /\ \A j \in 1..Records : ~Mine(file, j) =>
       file[HeadSize + 10 * (j - 1) + 1] \in {1, 2} /\ setup.version = 4
  /\ \A j, k \in 1..Records : j < k /\ Mine(file, j) /\ Mine(file, k) =>
       FrameOf(file, j) < FrameOf(file, k)
  /\ \A k \in 1..Len(Items) :
       \E j \in 1..Records : Mine(file, j) /\ FrameOf(file, j) = Items[k].frame
  /\ closed => \A c \in 1..FootSize :
       file[HeadSize + 10 * Records + c] = FooterWords(setup.version)[c]

\* It follows from StoreInv, now and after a step.
LEMMA StoreIs == StoreInv => IndexIs
<1> SUFFICES ASSUME StoreInv PROVE IndexIs
  OBVIOUS
<1>1. StoreTypes /\ file \in Seq(Nat) /\ closed \in BOOLEAN
  BY DEF StoreInv, StoreTypes
<1>2. Items \in Seq(ItemRecords) /\ Len(Items) \in Nat /\ Tiles(Items)
  BY <1>1, GeneratorIs DEF StoreInv, StoreTypes, GeneratorsFit, GeneratorFits, Items
<1>3. setup.version \in {2, 4} /\ setup.type \in 1..2
  BY <1>1, SetupIs
<1>4. Records \in Nat
  BY <1>1, RecordsAre
<1> QED BY <1>1, <1>2, <1>3, <1>4, LenProperties DEF IndexIs, HeadSize, Tag

\* Of a file with a header: what it says.
LEMMA RecordsSay == StoreInv /\ video.state # "header" => FileSays
<1> SUFFICES ASSUME StoreInv, video.state # "header" PROVE FileSays
  OBVIOUS
<1>1. /\ Len(file) = HeadSize + 10 * Records + (IF closed THEN FootSize ELSE 0)
      /\ HeadFits(file) /\ RecordsFit(file, Records, Items)
      /\ closed => \A c \in 1..FootSize :
           file[HeadSize + 10 * Records + c] = FooterWords(setup.version)[c]
  BY DEF StoreInv, FileFits
<1>2. ASSUME NEW j \in 1..Records, NEW i, Says(file, j, i)  PROVE FrameOf(file, j) = i.frame
  BY <1>2 DEF Says, FrameOf
<1>3. ASSUME NEW j \in 1..Records, Mine(file, j)
      PROVE  \E k \in 1..Len(Items) : Says(file, j, Items[k]) /\ FrameOf(file, j) = Items[k].frame
  <2>1. PICK k \in 1..Len(Items) : Says(file, j, Items[k])
    BY <1>1, <1>3 DEF RecordsFit
  <2> QED BY <1>2, <2>1
<1>4. /\ \A j \in 1..Records : ~Mine(file, j) =>
              file[HeadSize + 10 * (j - 1) + 1] \in {1, 2} /\ setup.version = 4
      /\ \A j, k \in 1..Records : j < k /\ Mine(file, j) /\ Mine(file, k) =>
              FrameOf(file, j) < FrameOf(file, k)
      /\ \A k \in 1..Len(Items) :
              \E j \in 1..Records : Mine(file, j) /\ FrameOf(file, j) = Items[k].frame
  BY <1>1 DEF RecordsFit
<1> QED BY <1>1, <1>3, <1>4 DEF FileSays

\* The same after a step, of the items
LEMMA StoreIsNext == StoreInv' => IndexIs'
BY StoreIs, PTL

\* and of the file.
LEMMA RecordsSayNext == StoreInv' /\ video'.state # "header" => FileSays'
<1>1. (StoreInv /\ video.state # "header")' => FileSays'
  BY RecordsSay, PTL
<1> QED BY <1>1

\* Where items end.
LEMMA ReachIs ==
  ASSUME NEW items \in Seq(ItemRecords), Tiles(items)
  PROVE  /\ Reach(items, 0) = 0
         /\ \A k \in 0..Len(items) : Reach(items, k) \in Nat
         /\ \A k \in 1..Len(items) :
              /\ items[k] \in ItemRecords /\ items[k].frame = Reach(items, k - 1)
              /\ Reach(items, k) = items[k].frame + items[k].frames
              /\ items[k].frame < Reach(items, k)
              /\ items[k].frame \in Nat /\ items[k].frames \in Nat \ {0}
              /\ items[k].offset \in Nat /\ items[k].length \in Nat \ {0}
<1>1. Len(items) \in Nat /\ \A k \in 1..Len(items) : items[k] \in ItemRecords
  BY ElementOfSeq, LenProperties
<1>2. ASSUME NEW k \in 1..Len(items)
      PROVE  /\ items[k] \in ItemRecords /\ items[k].frame = Reach(items, k - 1)
             /\ Reach(items, k) = items[k].frame + items[k].frames
             /\ items[k].frame < Reach(items, k)
             /\ items[k].frame \in Nat /\ items[k].frames \in Nat \ {0}
             /\ items[k].offset \in Nat /\ items[k].length \in Nat \ {0}
             /\ Reach(items, k) \in Nat
  <2>1. /\ items[k].frame \in Nat /\ items[k].frames \in Nat \ {0}
        /\ items[k].offset \in Nat /\ items[k].length \in Nat \ {0}
    BY <1>1 DEF ItemRecords
  <2>2. Reach(items, k) = items[k].frame + items[k].frames
    BY <1>1 DEF Reach
  <2>3. items[k].frame = Reach(items, k - 1)
    BY DEF Tiles
  <2> QED BY <1>1, <2>1, <2>2, <2>3
<1>3. Reach(items, 0) = 0
  BY DEF Reach
<1>4. \A k \in 0..Len(items) : Reach(items, k) \in Nat
  <2>1. ASSUME NEW k \in 0..Len(items)  PROVE k = 0 \/ k \in 1..Len(items)
    BY <1>1
  <2> QED BY <1>2, <1>3, <2>1
<1> QED BY <1>2, <1>3, <1>4

\* Items follow each other.
LEMMA TilesFollow ==
  ASSUME NEW items \in Seq(ItemRecords), Tiles(items),
         NEW k \in 0..Len(items), NEW l \in 1..Len(items)
  PROVE  /\ l <= k => items[l].frame < Reach(items, k) /\ Reach(items, l) <= Reach(items, k)
         /\ l > k => items[l].frame >= Reach(items, k)
<1>1. /\ Len(items) \in Nat
      /\ items[l].frame \in Nat /\ items[l].frames \in Nat \ {0}
      /\ Reach(items, l) = items[l].frame + items[l].frames
      /\ items[l].frame < Reach(items, l)
  BY ReachIs, LenProperties
<1>2. CASE k = 0
  BY <1>1, <1>2, ReachIs
<1>3. CASE k # 0
  <2>1. k \in 1..Len(items)
    BY <1>1, <1>3
  <2>2. /\ items[k].frame \in Nat /\ items[k].frames \in Nat \ {0}
        /\ Reach(items, k) = items[k].frame + items[k].frames
    BY <2>1, ReachIs
  <2>3. ASSUME l < k  PROVE items[l].frame + items[l].frames <= items[k].frame
    BY <2>1, <2>3 DEF Tiles
  <2>4. ASSUME l > k  PROVE items[k].frame + items[k].frames <= items[l].frame
    BY <2>1, <2>4 DEF Tiles
  <2>5. CASE l < k
    BY <1>1, <2>1, <2>2, <2>3, <2>5
  <2>6. CASE l = k
    BY <1>1, <2>1, <2>2, <2>6
  <2>7. CASE l > k
    BY <1>1, <2>1, <2>2, <2>4, <2>7
  <2> QED BY <2>1, <2>5, <2>6, <2>7
<1> QED BY <1>2, <1>3

\* A word of the buffer is one of the file.
LEMMA WordOfFile ==
  ASSUME NEW p \in Nat, NEW l \in Nat, l <= p, NEW n \in Nat, p <= n, NEW c \in 1..l
  PROVE  (p - l) + c \in 1..n
OBVIOUS

\* What was read stays what it was.
LEMMA BufferStays ==
  ASSUME StoreInv, StoreGrows, seen.index \in 0..Len(file),
         seen'.index \in Nat, seen.index <= seen'.index, NEW r, BufferFits(r)
  PROVE  BufferFits(r)'
<1>1. /\ DOMAIN r = ReaderFields /\ r.position \in 0..seen.index
      /\ r.buffer \in Seq(Nat) /\ Len(r.buffer) <= r.position /\ Len(r.buffer) \in Nat
      /\ \A c \in 1..Len(r.buffer) : r.buffer[c] = file[Parsed(r) + c]
  BY LenProperties DEF BufferFits
<1>2. Len(file) \in Nat /\ \A c \in 1..Len(file) : file'[c] = file[c]
  BY StoreIs DEF StoreGrows, IndexIs
<1>3. ASSUME NEW c \in 1..Len(r.buffer)  PROVE r.buffer[c] = file'[Parsed(r) + c]
  <2>1. r.position \in Nat /\ r.position <= Len(file)
    BY <1>1, <1>2
  <2>2. Parsed(r) + c \in 1..Len(file)
    BY <1>1, <1>2, <2>1, WordOfFile DEF Parsed
  <2> QED BY <1>1, <1>2, <2>2
<1>4. r.position \in 0..seen'.index
  BY <1>1, <1>2
<1> QED BY <1>1, <1>3, <1>4 DEF BufferFits, Parsed

\* The words of a record that is there stay.
LEMMA RecordsKeep ==
  ASSUME StoreInv, StoreGrows, video.state # "header", NEW j \in 1..Records
  PROVE  /\ Mine(file, j)' <=> Mine(file, j)
         /\ FrameOf(file, j)' = FrameOf(file, j)
<1>1. /\ HeadSize \in {4, 10} /\ Records \in Nat /\ Len(file) \in Nat
      /\ Len(file) >= HeadSize + 10 * Records
  <2>1. Len(file) = HeadSize + 10 * Records + (IF closed THEN FootSize ELSE 0)
    BY RecordsSay DEF FileSays
  <2>2. FootSize \in {8, 10}
    BY DEF FootSize
  <2> QED BY <2>1, <2>2, StoreIs DEF IndexIs
<1>2. HeadSize' = HeadSize /\ Tag' = Tag
  BY DEF StoreGrows, HeadSize, Tag
<1>3. \A c \in 1..Len(file) : file'[c] = file[c]
  BY DEF StoreGrows
<1>4. /\ HeadSize + 10 * (j - 1) + 1 \in 1..Len(file)
      /\ HeadSize + 10 * (j - 1) + 4 \in 1..Len(file)
  BY <1>1
<1> QED BY <1>2, <1>3, <1>4 DEF Mine, FrameOf

\* What lies between what is parsed and what is not does not move: a new record
\* is about a new item.
LEMMA BetweenStays ==
  ASSUME StoreInv, StoreInv', StoreGrows, video.state # "header",
         NEW n \in 0..Len(Items), NEW m \in 0..Records, Between(n, m)
  PROVE  Between(n, m)'
<1>1. /\ Items \in Seq(ItemRecords) /\ Tiles(Items) /\ Len(Items) \in Nat /\ Records \in Nat
      /\ Items' \in Seq(ItemRecords) /\ Tiles(Items') /\ Len(Items') \in Nat /\ Records' \in Nat
  BY StoreIs, StoreIsNext DEF IndexIs
<1>2. /\ Len(Items) <= Len(Items') /\ \A k \in 1..Len(Items) : Items'[k] = Items[k]
      /\ Records <= Records' /\ video'.state # "header"
  BY DEF StoreGrows
<1>3. Reach(Items', n) = Reach(Items, n)
  <2>1. n = 0 \/ n \in 1..Len(Items)
    BY <1>1
  <2> QED BY <1>1, <1>2, <2>1 DEF Reach
<1>4. ASSUME NEW j \in 1..Records', Mine(file, j)'
      PROVE  j <= m <=> FrameOf(file, j)' < Reach(Items', n)
  <2>1. CASE j \in 1..Records
    <3>1. Mine(file, j) /\ FrameOf(file, j)' = FrameOf(file, j)
      BY <1>4, <2>1, RecordsKeep
    <3> QED BY <1>3, <2>1, <3>1 DEF Between
  <2>2. CASE j \notin 1..Records
    <3>1. ~(j <= m)
      BY <1>1, <2>2
    <3>2. PICK k \in 1..Len(Items') : FrameOf(file, j)' = Items'[k].frame
      <4>1. \A i \in 1..Records' : Mine(file, i)' =>
              \E k \in 1..Len(Items') : FrameOf(file, i)' = Items'[k].frame
        BY <1>2, RecordsSayNext DEF FileSays
      <4> QED BY <1>4, <4>1
    <3>3. ASSUME k <= n  PROVE FALSE
      <4>1. k \in 1..Len(Items) /\ Items'[k] = Items[k]
        BY <1>1, <1>2, <3>3
      <4>2. PICK i \in 1..Records : Mine(file, i) /\ FrameOf(file, i) = Items[k].frame
        BY <4>1, RecordsSay DEF FileSays
      <4>3. i \in 1..Records' /\ i < j /\ Mine(file, i)' /\ FrameOf(file, i)' = FrameOf(file, i)
        BY <1>1, <1>2, <2>2, <4>2, RecordsKeep
      <4>4. \A i1, i2 \in 1..Records' : i1 < i2 /\ Mine(file, i1)' /\ Mine(file, i2)' =>
              FrameOf(file, i1)' < FrameOf(file, i2)'
        BY <1>2, RecordsSayNext DEF FileSays
      <4>5. FrameOf(file, i)' < FrameOf(file, j)'
        BY <1>4, <4>3, <4>4
      <4>6. Items[k].frame \in Nat
        BY <1>1, <4>1, ReachIs
      <4> QED BY <3>2, <4>1, <4>2, <4>3, <4>5, <4>6
    <3>4. Items'[k].frame >= Reach(Items', n)
      <4>1. n \in 0..Len(Items')
        BY <1>1, <1>2
      <4> QED BY <1>1, <3>3, <4>1, TilesFollow
    <3>5. Items'[k].frame \in Nat /\ Reach(Items', n) \in Nat
      <4>1. n \in 0..Len(Items')
        BY <1>1, <1>2
      <4> QED BY <1>1, <4>1, ReachIs
    <3> QED BY <3>1, <3>2, <3>4, <3>5
  <2> QED BY <2>1, <2>2
<1> QED BY <1>4 DEF Between

\* The items that were found stay those of the index.
LEMMA FoundStays ==
  ASSUME StoreInv, StoreGrows, NEW r, NEW n \in 0..Len(Items), Found(r, n)
  PROVE  Found(r, n)'
<1>1. /\ Len(Items) \in Nat /\ Len(Items) <= Len(Items')
      /\ \A k \in 1..Len(Items) : Items'[k] = Items[k]
  BY StoreIs DEF StoreGrows, IndexIs
<1>2. \A k \in 1..n : Items'[k] = Items[k]
  BY <1>1
<1>3. Reach(Items', n) = Reach(Items, n)
  <2>1. n = 0 \/ n \in 1..n
    BY <1>1
  <2> QED BY <1>2, <2>1 DEF Reach
<1>4. /\ {Items'[k].frame : k \in 1..n} = {Items[k].frame : k \in 1..n}
      /\ {Items'[k].offset : k \in 1..n} = {Items[k].offset : k \in 1..n}
  BY <1>2
<1> QED BY <1>2, <1>3, <1>4 DEF Found

\* A reader stays right whatever the store writes and the file system shows.
LEMMA ReaderStays ==
  ASSUME StoreInv, StoreInv', StoreGrows, seen.index \in 0..Len(file),
         seen'.index \in Nat, seen.index <= seen'.index, NEW r, ReaderFits(r)
  PROVE  ReaderFits(r)'
<1>1. BufferFits(r)' /\ r.version = setup'.version
  BY BufferStays DEF ReaderFits, StoreGrows
<1>2. PICK n \in 0..Len(Items) :
       /\ Found(r, n)
       /\ \/ r.state = "header" /\ n = 0 /\ Parsed(r) = 0 /\ ~r.eof
          \/ /\ r.state = "item" /\ ~r.eof /\ video.state # "header"
             /\ \E m \in 0..Records : Parsed(r) = HeadSize + 10 * m /\ Between(n, m)
          \/ r.state = "footer" /\ r.eof /\ closed /\ n = Len(Items)
  BY DEF ReaderFits
<1>3. /\ Len(Items) \in Nat /\ Len(Items') \in Nat /\ Len(Items) <= Len(Items')
      /\ Records \in Nat /\ Records' \in Nat /\ Records <= Records'
      /\ HeadSize' = HeadSize
  BY StoreIs, StoreIsNext DEF IndexIs, StoreGrows, HeadSize
<1>4. n \in 0..Len(Items') /\ Found(r, n)'
  BY <1>2, <1>3, FoundStays
<1>5. CASE r.state = "header" /\ n = 0 /\ Parsed(r) = 0 /\ ~r.eof
  BY <1>1, <1>4, <1>5 DEF ReaderFits, Parsed
<1>6. ASSUME r.state = "item", ~r.eof, video.state # "header",
             NEW m \in 0..Records, Parsed(r) = HeadSize + 10 * m, Between(n, m)
      PROVE  ReaderFits(r)'
  <2>1. Between(n, m)' /\ m \in 0..Records'
    BY <1>2, <1>3, <1>6, BetweenStays
  <2>2. video'.state # "header"
    BY <1>6 DEF StoreGrows
  <2> QED BY <1>1, <1>3, <1>4, <1>6, <2>1, <2>2 DEF ReaderFits, Parsed
<1>7. CASE r.state = "footer" /\ r.eof /\ closed /\ n = Len(Items)
  <2>1. closed' /\ n = Len(Items')
    BY <1>7 DEF StoreGrows
  <2> QED BY <1>1, <1>4, <1>7, <2>1 DEF ReaderFits
<1> QED BY <1>2, <1>5, <1>6, <1>7

\* So does one of another version.
LEMMA OtherStays ==
  ASSUME StoreInv, StoreGrows, seen.index \in 0..Len(file),
         seen'.index \in Nat, seen.index <= seen'.index, NEW r, OtherFits(r)
  PROVE  OtherFits(r)'
<1>1. BufferFits(r)'
  BY BufferStays DEF OtherFits
<1> QED BY <1>1 DEF OtherFits, StoreGrows, Parsed

\* The words t of s behind the first m, up to the n-th.
IsCut(t, s, m, n) ==
  t \in Seq(Nat) /\ Len(t) = n - m /\ \A c \in 1..n - m : t[c] = s[m + c]

\* SubSeq cuts them out.
LEMMA SubSeqIs ==
  ASSUME NEW s \in Seq(Nat), NEW m \in Nat, NEW n \in Nat, m <= n, n <= Len(s),
         NEW t, t = SubSeq(s, m + 1, n)
  PROVE  IsCut(t, s, m, n)
<1>1. Len(s) \in Nat /\ m + 1 \in Int /\ n \in Int
  BY LenProperties
<1>2. \A i \in m + 1..n : s[i] \in Nat
  <2>1. \A i \in m + 1..n : i \in 1..Len(s)
    BY <1>1
  <2> QED BY <2>1, ElementOfSeq
<1>3. /\ t \in Seq(Nat) /\ Len(t) = IF m + 1 <= n THEN n - (m + 1) + 1 ELSE 0
      /\ \A i \in 1..n - (m + 1) + 1 : t[i] = s[m + 1 + i - 1]
  BY <1>1, <1>2, SubSeqProperties
<1>4. Len(t) = n - m
  BY <1>3
<1>5. ASSUME NEW c \in 1..n - m  PROVE t[c] = s[m + c]
  <2>1. c \in 1..n - (m + 1) + 1 /\ m + 1 + c - 1 = m + c
    OBVIOUS
  <2> QED BY <1>3, <2>1
<1> QED BY <1>3, <1>4, <1>5 DEF IsCut

\* What is read is appended to the buffer.
LEMMA FillIs ==
  ASSUME StoreInv, seen.index \in 0..Len(file), NEW r, BufferFits(r), NEW q, q = Fill(r)
  PROVE  /\ BufferFits(q) /\ Parsed(q) = Parsed(r)
         /\ q.version = r.version /\ q.state = r.state /\ q.items = r.items
         /\ q.offsets = r.offsets /\ q.frames = r.frames /\ q.eof = r.eof
<1>1. /\ DOMAIN r = ReaderFields /\ r.position \in 0..seen.index
      /\ r.buffer \in Seq(Nat) /\ Len(r.buffer) <= r.position /\ Len(r.buffer) \in Nat
      /\ \A c \in 1..Len(r.buffer) : r.buffer[c] = file[Parsed(r) + c]
  BY LenProperties DEF BufferFits
<1>2. file \in Seq(Nat) /\ Len(file) \in Nat /\ seen.index \in Nat /\ seen.index <= Len(file)
  BY StoreIs DEF IndexIs
<1> DEFINE more == seen.index - r.position
<1>a. more \in Nat /\ r.position \in Nat /\ r.position <= seen.index
  BY <1>1, <1>2
<1>b. PICK new : new = SubSeq(file, r.position + 1, seen.index)
  OBVIOUS
<1>3. /\ new \in Seq(Nat) /\ Len(new) = more /\ \A c \in 1..more : new[c] = file[r.position + c]
  <2>1. /\ file \in Seq(Nat) /\ r.position \in Nat /\ seen.index \in Nat
        /\ r.position <= seen.index /\ seen.index <= Len(file)
    BY <1>2, <1>a
  <2> HIDE DEF more
  <2>2. IsCut(new, file, r.position, seen.index)
    BY <1>b, <2>1, SubSeqIs
  <2> QED BY <2>2 DEF more, IsCut
<1>4. /\ q = [r EXCEPT !.position = seen.index, !.buffer = r.buffer \o new]
  BY <1>b DEF Fill
<1> HIDE DEF more
<1>5. /\ q.position = seen.index /\ q.buffer = r.buffer \o new /\ DOMAIN q = ReaderFields
      /\ q.version = r.version /\ q.state = r.state /\ q.items = r.items
      /\ q.offsets = r.offsets /\ q.frames = r.frames /\ q.eof = r.eof
  BY <1>1, <1>4 DEF ReaderFields
<1>6. /\ q.buffer \in Seq(Nat) /\ Len(q.buffer) = Len(r.buffer) + Len(new)
      /\ \A c \in 1..Len(r.buffer) : q.buffer[c] = r.buffer[c]
      /\ \A c \in 1..Len(new) : q.buffer[Len(r.buffer) + c] = new[c]
  <2>1. r.buffer \in Seq(Nat) /\ new \in Seq(Nat)
    BY <1>1, <1>3
  <2> QED BY <1>5, <2>1, Glued
<1>7. Len(q.buffer) <= q.position /\ Parsed(q) = Parsed(r) /\ Len(new) \in Nat
  <2>1. Len(q.buffer) = Len(r.buffer) + more /\ q.position = r.position + more
    BY <1>2, <1>3, <1>5, <1>6, <1>a DEF more
  <2> QED BY <1>1, <1>3, <1>a, <2>1 DEF Parsed
<1>8. ASSUME NEW c \in 1..Len(q.buffer)  PROVE q.buffer[c] = file[Parsed(q) + c]
  <2>1. CASE c \in 1..Len(r.buffer)
    BY <1>1, <1>6, <1>7, <2>1
  <2>2. CASE c \notin 1..Len(r.buffer)
    <3>1. PICK d \in 1..Len(new) : c = Len(r.buffer) + d
      <4>1. c - Len(r.buffer) \in 1..Len(new) /\ c = Len(r.buffer) + (c - Len(r.buffer))
        BY <1>1, <1>6, <1>7, <2>2
      <4> QED BY <4>1
    <3>2. Parsed(r) + c = r.position + d
      BY <1>1, <3>1 DEF Parsed
    <3>3. q.buffer[c] = new[d] /\ new[d] = file[r.position + d]
      BY <1>3, <1>6, <3>1
    <3> QED BY <1>7, <3>2, <3>3
  <2> QED BY <2>1, <2>2
<1>9. BufferFits(q)
  BY <1>2, <1>5, <1>6, <1>7, <1>8 DEF BufferFits
<1> QED BY <1>5, <1>7, <1>9

\* Reading does not change what was found.
LEMMA FillKeeps ==
  ASSUME StoreInv, seen.index \in 0..Len(file), NEW r, NEW q, q = Fill(r)
  PROVE  /\ ReaderFits(r) => ReaderFits(q)
         /\ OtherFits(r) => OtherFits(q)
<1>1. ASSUME ReaderFits(r)  PROVE ReaderFits(q)
  <2>1. /\ BufferFits(q) /\ Parsed(q) = Parsed(r)
        /\ q.version = r.version /\ q.state = r.state /\ q.items = r.items
        /\ q.offsets = r.offsets /\ q.frames = r.frames /\ q.eof = r.eof
    BY <1>1, FillIs DEF ReaderFits
  <2>2. \A n \in 0..Len(Items) : Found(r, n) => Found(q, n)
    BY <2>1 DEF Found
  <2> QED BY <1>1, <2>1, <2>2 DEF ReaderFits
<1>2. ASSUME OtherFits(r)  PROVE OtherFits(q)
  <2>1. /\ BufferFits(q) /\ Parsed(q) = Parsed(r)
        /\ q.version = r.version /\ q.state = r.state /\ q.items = r.items
        /\ q.offsets = r.offsets /\ q.frames = r.frames /\ q.eof = r.eof
    BY <1>2, FillIs DEF OtherFits
  <2> QED BY <1>2, <2>1 DEF OtherFits
<1> QED BY <1>1, <1>2

\* The reader q has what r has.
Same(q, r) ==
  /\ q.version = r.version /\ q.items = r.items /\ q.offsets = r.offsets
  /\ q.frames = r.frames

\* The reader q is behind r by n words.
Behind(q, r, n) == BufferFits(q) /\ Parsed(q) = Parsed(r) + n

Reached(q, r, n, state) == Behind(q, r, n) /\ Same(q, r) /\ q.eof = r.eof /\ q.state = state

\* Words are taken from the buffer.
LEMMA Taken ==
  ASSUME NEW r, BufferFits(r), NEW n \in Nat, n <= Len(r.buffer),
         NEW q, DOMAIN q = ReaderFields, q.position = r.position,
         q.buffer = SubSeq(r.buffer, n + 1, Len(r.buffer))
  PROVE  Behind(q, r, n)
<1>1. /\ r.position \in 0..seen.index
      /\ r.buffer \in Seq(Nat) /\ Len(r.buffer) <= r.position /\ Len(r.buffer) \in Nat
      /\ \A c \in 1..Len(r.buffer) : r.buffer[c] = file[Parsed(r) + c]
  BY LenProperties DEF BufferFits
<1>2. IsCut(q.buffer, r.buffer, n, Len(r.buffer))
  <2>1. Len(r.buffer) <= Len(r.buffer)
    BY <1>1
  <2> QED BY <1>1, <2>1, SubSeqIs
<1>3. /\ q.buffer \in Seq(Nat) /\ Len(q.buffer) = Len(r.buffer) - n
      /\ \A c \in 1..Len(r.buffer) - n : q.buffer[c] = r.buffer[n + c]
  BY <1>2 DEF IsCut
<1>4. Parsed(q) = Parsed(r) + n /\ Len(q.buffer) <= q.position /\ Parsed(r) \in Nat
  <2> DEFINE p == r.position
             l == Len(r.buffer)
             k == Len(q.buffer)
  <2>1. p \in Nat /\ l \in Nat /\ k = l - n /\ l <= p /\ n <= l /\ q.position = p
    BY <1>1, <1>3
  <2>2. Parsed(r) = p - l /\ Parsed(q) = p - k
    BY <2>1 DEF Parsed
  <2> HIDE DEF p, l, k
  <2>3. Parsed(q) = Parsed(r) + n /\ k <= p /\ Parsed(r) \in Nat
    BY <2>1, <2>2
  <2> QED BY <2>1, <2>3 DEF p, k
<1>5. ASSUME NEW c \in 1..Len(q.buffer)  PROVE q.buffer[c] = file[Parsed(q) + c]
  <2>1. c \in 1..Len(r.buffer) - n /\ n + c \in 1..Len(r.buffer)
    BY <1>1, <1>3
  <2>2. q.buffer[c] = file[Parsed(r) + (n + c)]
    BY <1>1, <1>3, <2>1
  <2>3. Parsed(r) + (n + c) = Parsed(q) + c
    BY <1>4, <2>1
  <2> QED BY <2>2, <2>3
<1> QED BY <1>1, <1>3, <1>4, <1>5 DEF BufferFits, Behind

\* What Take, To and ParsedFooter make of a reader.
LEMMA TakeIs ==
  ASSUME NEW r, BufferFits(r), NEW n \in Nat, n <= Len(r.buffer), NEW q, q = Take(r, n)
  PROVE  Behind(q, r, n) /\ Same(q, r) /\ q.state = r.state /\ q.eof = r.eof
<1>1. DOMAIN r = ReaderFields
  BY DEF BufferFits
<1>2. /\ DOMAIN q = ReaderFields /\ q.position = r.position
      /\ q.buffer = SubSeq(r.buffer, n + 1, Len(r.buffer))
      /\ q.version = r.version /\ q.items = r.items /\ q.offsets = r.offsets
      /\ q.frames = r.frames /\ q.state = r.state /\ q.eof = r.eof
  BY <1>1 DEF Take, ReaderFields
<1>3. Behind(q, r, n)
  BY <1>2, Taken
<1> QED BY <1>2, <1>3 DEF Same

\* To takes words and goes on to a state, or to the error.
LEMMA ToIs ==
  ASSUME NEW r, BufferFits(r), NEW n \in Nat, n <= Len(r.buffer), NEW state,
         NEW q, q = To(r, n, TRUE, state) \/ (q = To(r, n, FALSE, "item") /\ state = "error")
  PROVE  Reached(q, r, n, state)
<1>1. DOMAIN r = ReaderFields
  BY DEF BufferFits
<1>2. /\ DOMAIN q = ReaderFields /\ q.position = r.position
      /\ q.buffer = SubSeq(r.buffer, n + 1, Len(r.buffer))
      /\ q.version = r.version /\ q.items = r.items /\ q.offsets = r.offsets
      /\ q.frames = r.frames /\ q.state = state /\ q.eof = r.eof
  <2>1. CASE q = To(r, n, TRUE, state)
    BY <1>1, <2>1 DEF To, Take, ReaderFields
  <2>2. CASE q = To(r, n, FALSE, "item") /\ state = "error"
    BY <1>1, <2>2 DEF To, Take, ReaderFields
  <2> QED BY <2>1, <2>2
<1>3. Behind(q, r, n)
  BY <1>2, Taken
<1> QED BY <1>2, <1>3 DEF Same, Reached

\* ParsedFooter takes them and is at the end.
LEMMA ParsedFooterIs ==
  ASSUME NEW r, BufferFits(r), NEW n \in Nat, n <= Len(r.buffer),
         NEW q, q = ParsedFooter(r, n, TRUE)
  PROVE  Behind(q, r, n) /\ Same(q, r) /\ q.state = "footer" /\ q.eof
<1>1. DOMAIN r = ReaderFields
  BY DEF BufferFits
<1>2. /\ DOMAIN q = ReaderFields /\ q.position = r.position
      /\ q.buffer = SubSeq(r.buffer, n + 1, Len(r.buffer))
      /\ q.version = r.version /\ q.items = r.items /\ q.offsets = r.offsets
      /\ q.frames = r.frames /\ q.state = "footer" /\ q.eof = TRUE
  BY <1>1 DEF ParsedFooter, To, Take, ReaderFields
<1>3. Behind(q, r, n)
  BY <1>2, Taken
<1>4. q.eof
  BY <1>2
<1> QED BY <1>2, <1>3, <1>4 DEF Same

\* What is behind something is somewhere else.
LEMMA Behindhand ==
  ASSUME NEW x \in Nat, NEW y \in Nat \ {0}, NEW z \in Nat, x + y <= z  PROVE x # z
OBVIOUS

\* One more item is found.
LEMMA OneMore ==
  ASSUME NEW r, DOMAIN r = ReaderFields, NEW n \in Nat, NEW m, m = n + 1,
         Items \in Seq(ItemRecords), Tiles(Items), m <= Len(Items), Found(r, n),
         NEW q, q = Set(r, Items[m])
  PROVE  /\ Found(q, m) /\ DOMAIN q = ReaderFields /\ q.version = r.version
         /\ q.state = r.state /\ q.position = r.position /\ q.buffer = r.buffer
         /\ q.eof = r.eof
<1> DEFINE i == Items[m]
<1>1. /\ Len(Items) \in Nat /\ m \in 1..Len(Items) /\ n \in 0..Len(Items)
  BY LenProperties
<1>2. /\ i \in ItemRecords /\ i.length # 0 /\ i.frame = Reach(Items, n)
      /\ Reach(Items, m) = i.frame + i.frames
      /\ i.frame \in Nat /\ i.frames \in Nat /\ i.offset \in Nat
  <2>1. m - 1 = n
    OBVIOUS
  <2> QED BY <1>1, <2>1, ReachIs
<1>3. /\ r.frames = Reach(Items, n)
      /\ DOMAIN r.items = {Items[k].frame : k \in 1..n}
      /\ DOMAIN r.offsets = {Items[k].offset : k \in 1..n}
      /\ \A k \in 1..n : r.items[Items[k].frame] = Items[k] /\ r.offsets[Items[k].offset] = Items[k]
  BY DEF Found
<1>4. ASSUME NEW k \in 1..n
      PROVE  Items[k].frame # i.frame /\ Items[k].offset # i.offset
  <2>1. k \in 1..Len(Items) /\ k < m
    BY <1>1
  <2>2. /\ Items[k].frame + Items[k].frames <= i.frame
        /\ Items[k].offset + Items[k].length <= i.offset
    BY <1>1, <2>1 DEF Tiles
  <2>3. /\ Items[k].frame \in Nat /\ Items[k].frames \in Nat \ {0}
        /\ Items[k].offset \in Nat /\ Items[k].length \in Nat \ {0}
    BY <2>1, ReachIs
  <2> HIDE DEF i
  <2> QED BY <1>2, <2>2, <2>3, Behindhand
<1>5. i.frame \notin DOMAIN r.items /\ i.offset \notin DOMAIN r.offsets
  BY <1>3, <1>4
<1> HIDE DEF i
<1>6. q = [r EXCEPT !.frames = r.frames + i.frames,
                    !.items = Assigned(r.items, i.frame, i),
                    !.offsets = Assigned(r.offsets, i.offset, i)]
  BY <1>2, <1>5 DEF Set, Inserted, i
<1>7. /\ q.frames = Reach(Items, m) /\ q.items = Assigned(r.items, i.frame, i)
      /\ q.offsets = Assigned(r.offsets, i.offset, i)
      /\ DOMAIN q = ReaderFields /\ q.version = r.version
      /\ q.state = r.state /\ q.position = r.position /\ q.buffer = r.buffer
      /\ q.eof = r.eof
  <2>1. q.frames = r.frames + i.frames
    BY <1>6 DEF ReaderFields
  <2>2. q.frames = Reach(Items, m)
    BY <1>2, <1>3, <2>1
  <2> QED BY <1>6, <2>2 DEF ReaderFields
<1>8. ASSUME NEW k \in 1..m  PROVE k \in 1..n \/ k = m
  OBVIOUS
<1>9. /\ DOMAIN q.items = {Items[k].frame : k \in 1..m}
      /\ DOMAIN q.offsets = {Items[k].offset : k \in 1..m}
  <2>1. \A k \in 1..n : k \in 1..m
    OBVIOUS
  <2>2. m \in 1..m
    OBVIOUS
  <2>3. /\ DOMAIN q.items = DOMAIN r.items \cup {i.frame}
        /\ DOMAIN q.offsets = DOMAIN r.offsets \cup {i.offset}
    BY <1>7 DEF Assigned
  <2> QED BY <1>3, <1>8, <2>1, <2>2, <2>3 DEF i
<1>10. ASSUME NEW k \in 1..m
       PROVE  q.items[Items[k].frame] = Items[k] /\ q.offsets[Items[k].offset] = Items[k]
  <2>1. CASE k = m
    BY <1>7, <2>1 DEF Assigned, i
  <2>2. CASE k # m
    <3>1. k \in 1..n /\ Items[k].frame # i.frame /\ Items[k].offset # i.offset
      BY <1>4, <1>8, <2>2
    <3> QED BY <1>3, <1>7, <3>1 DEF Assigned
  <2> QED BY <2>1, <2>2
<1>11. Found(q, m)
  BY <1>7, <1>9, <1>10 DEF Found
<1> QED BY <1>7, <1>11

\* The next record is about the next item, ...
LEMMA NextFound ==
  ASSUME StoreInv, video.state # "header", NEW n \in 0..Len(Items), NEW m \in Nat,
         Between(n, m), NEW j \in 1..Records, j = m + 1, Mine(file, j), NEW o, o = n + 1
  PROVE  o \in 1..Len(Items) /\ Says(file, j, Items[o]) /\ Between(o, j)
<1>1. Items \in Seq(ItemRecords) /\ Tiles(Items) /\ Len(Items) \in Nat /\ Records \in Nat
  BY StoreIs DEF IndexIs
<1>2. FileSays
  BY RecordsSay
<1>3. PICK k \in 1..Len(Items) : Says(file, j, Items[k]) /\ FrameOf(file, j) = Items[k].frame
  BY <1>2 DEF FileSays
<1>4. ~(Items[k].frame < Reach(Items, n))
  <2>1. ~(j <= m)
    OBVIOUS
  <2>2. ~(FrameOf(file, j) < Reach(Items, n))
    BY <2>1 DEF Between
  <2> QED BY <1>3, <2>2
<1>5. k > n
  <2>1. ASSUME k <= n  PROVE Items[k].frame < Reach(Items, n)
    BY <1>1, <2>1, TilesFollow
  <2> QED BY <1>1, <1>4, <2>1
<1>6. o \in 1..Len(Items) /\ Items[o].frame = Reach(Items, n)
  <2>1. o \in 1..Len(Items) /\ o - 1 = n
    BY <1>1, <1>5
  <2> QED BY <1>1, <2>1, ReachIs
<1>7. ASSUME k # o  PROVE FALSE
  <2>1. PICK i \in 1..Records : Mine(file, i) /\ FrameOf(file, i) = Items[o].frame
    BY <1>2, <1>6 DEF FileSays
  <2>2. Items[o].frame < Items[k].frame
    <3>1. o < k
      BY <1>1, <1>5, <1>7
    <3>2. k \in 0..Len(Items) /\ Items[o].frame < Reach(Items, o) /\ Reach(Items, o) \in Nat
          /\ Items[o].frame \in Nat /\ Items[k].frame \in Nat
      <4>1. o \in 0..Len(Items) /\ k \in 0..Len(Items)
        BY <1>1, <1>6
      <4> QED BY <1>1, <1>6, <4>1, ReachIs
    <3>3. Items[k].frame >= Reach(Items, o)
      <4>1. o \in 0..Len(Items) /\ k > o
        BY <1>1, <1>6, <3>1
      <4> QED BY <1>1, <4>1, TilesFollow
    <3> QED BY <3>2, <3>3
  <2>3. ~(i <= m)
    <3>1. Reach(Items, n) \in Nat
      BY <1>1, ReachIs
    <3> QED BY <1>6, <2>1, <3>1 DEF Between
  <2>4. i = j \/ j < i
    BY <1>1, <2>3
  <2>5. Items[o].frame \in Nat /\ Items[k].frame \in Nat
    BY <1>1, <1>6, ReachIs
  <2>6. j < i => FrameOf(file, j) < FrameOf(file, i)
    BY <1>2, <2>1 DEF FileSays
  <2> QED BY <1>3, <2>1, <2>2, <2>4, <2>5, <2>6
<1>8. ASSUME NEW i \in 1..Records, Mine(file, i)
      PROVE  i <= j <=> FrameOf(file, i) < Reach(Items, o)
  <2>1. PICK l \in 1..Len(Items) : FrameOf(file, i) = Items[l].frame
    BY <1>2, <1>8 DEF FileSays
  <2>2. /\ Reach(Items, n) \in Nat /\ Reach(Items, o) \in Nat /\ Items[l].frame \in Nat
        /\ Items[o].frame < Reach(Items, o) /\ Items[o].frame \in Nat
        /\ o \in 0..Len(Items)
    <3>1. o \in 0..Len(Items)
      BY <1>1, <1>6
    <3> QED BY <1>1, <1>6, <3>1, ReachIs
  <2>3. CASE i <= m
    <3>1. FrameOf(file, i) < Reach(Items, n)
      BY <1>8, <2>3 DEF Between
    <3> QED BY <1>6, <2>1, <2>2, <2>3, <3>1
  <2>4. CASE i = j
    BY <1>3, <1>6, <1>7, <2>2, <2>4
  <2>5. CASE i > j
    <3>1. FrameOf(file, j) < FrameOf(file, i)
      BY <1>2, <1>8, <2>5 DEF FileSays
    <3>2. Items[o].frame < Items[l].frame
      BY <1>3, <1>7, <2>1, <3>1
    <3>3. ASSUME l <= o  PROVE FALSE
      <4>1. ASSUME l < o  PROVE Items[l].frame < Items[o].frame
        <5>1. l <= n
          BY <1>1, <4>1
        <5> QED BY <1>1, <1>6, <5>1, TilesFollow
      <4> QED BY <1>1, <1>6, <2>2, <3>2, <3>3, <4>1
    <3>4. l > o
      BY <1>1, <1>6, <3>3
    <3>5. Items[l].frame >= Reach(Items, o)
      BY <1>1, <2>2, <3>4, TilesFollow
    <3> QED BY <2>1, <2>2, <2>5, <3>5
  <2> QED BY <1>1, <2>3, <2>4, <2>5
<1> QED BY <1>3, <1>6, <1>7, <1>8 DEF Between

\* ... unless it is one of the other generator;
LEMMA NextSkipped ==
  ASSUME StoreInv, NEW n, NEW m \in Nat, Between(n, m),
         NEW j \in 1..Records, j = m + 1, ~Mine(file, j)
  PROVE  Between(n, j)
<1>1. Records \in Nat
  BY StoreIs DEF IndexIs
<1>2. ASSUME NEW i \in 1..Records, Mine(file, i)  PROVE i <= j <=> i <= m
  BY <1>1, <1>2
<1> QED BY <1>2 DEF Between

\* and behind the last record, all items are found.
LEMMA AllFound ==
  ASSUME StoreInv, video.state # "header", NEW n \in 0..Len(Items), Between(n, Records)
  PROVE  n = Len(Items)
<1>1. Items \in Seq(ItemRecords) /\ Tiles(Items) /\ Len(Items) \in Nat /\ Records \in Nat
  BY StoreIs DEF IndexIs
<1>2. ASSUME n # Len(Items)  PROVE FALSE
  <2>1. n + 1 \in 1..Len(Items) /\ n + 1 > n
    BY <1>1, <1>2
  <2>2. PICK i \in 1..Records : Mine(file, i) /\ FrameOf(file, i) = Items[n + 1].frame
    BY <2>1, RecordsSay DEF FileSays
  <2>3. FrameOf(file, i) < Reach(Items, n)
    BY <1>1, <2>2 DEF Between
  <2>4. Items[n + 1].frame >= Reach(Items, n)
    BY <1>1, <2>1, TilesFollow
  <2>5. Items[n + 1].frame \in Nat /\ Reach(Items, n) \in Nat
    BY <1>1, <2>1, ReachIs
  <2> QED BY <2>2, <2>3, <2>4, <2>5
<1> QED BY <1>2

\* The reader r has the first n items and has parsed m records.
AtItem(r, n, m) ==
  /\ BufferFits(r) /\ r.version = setup.version /\ r.state = "item" /\ ~r.eof
  /\ video.state # "header" /\ n \in 0..Len(Items) /\ Found(r, n)
  /\ m \in 0..Records /\ Parsed(r) = HeadSize + 10 * m /\ Between(n, m)

\* That is one of the ways to be right.
LEMMA AtItemFits == ASSUME NEW r, NEW n, NEW m, AtItem(r, n, m) PROVE ReaderFits(r)
BY DEF AtItem, ReaderFits

\* It is the only one for a reader that expects an item.
LEMMA FitsAtItem ==
  ASSUME NEW r, ReaderFits(r), r.state = "item"
  PROVE  \E n \in 0..Len(Items), m \in 0..Records : AtItem(r, n, m)
<1>1. BufferFits(r) /\ r.version = setup.version
  BY DEF ReaderFits
<1>2. PICK n \in 0..Len(Items) :
       /\ Found(r, n) /\ ~r.eof /\ video.state # "header"
       /\ \E m \in 0..Records : Parsed(r) = HeadSize + 10 * m /\ Between(n, m)
  BY DEF ReaderFits
<1> QED BY <1>1, <1>2 DEF AtItem

\* A reader at its first word.
AtHeader(r) ==
  /\ BufferFits(r) /\ r.version = setup.version /\ r.state = "header" /\ ~r.eof
  /\ Found(r, 0) /\ Parsed(r) = 0

\* That is right too,
LEMMA AtHeaderFits == ASSUME NEW r, AtHeader(r), Len(Items) \in Nat PROVE ReaderFits(r)
<1>1. 0 \in 0..Len(Items)
  OBVIOUS
<1> QED BY <1>1 DEF AtHeader, ReaderFits

\* and the only way for a reader that expects the header.
LEMMA FitsAtHeader == ASSUME NEW r, ReaderFits(r), r.state = "header" PROVE AtHeader(r)
<1>1. BufferFits(r) /\ r.version = setup.version
  BY DEF ReaderFits
<1>2. PICK n \in 0..Len(Items) : Found(r, n) /\ n = 0 /\ Parsed(r) = 0 /\ ~r.eof
  BY DEF ReaderFits
<1> QED BY <1>1, <1>2 DEF AtHeader

\* The words of the buffer are those of the file.
LEMMA BufferSays ==
  ASSUME StoreInv, seen.index \in 0..Len(file), NEW r, BufferFits(r), NEW p, p = Parsed(r)
  PROVE  /\ p \in Nat /\ r.buffer \in Seq(Nat) /\ Len(r.buffer) \in Nat
         /\ p + Len(r.buffer) <= Len(file)
         /\ \A c \in 1..Len(r.buffer) : r.buffer[c] = file[p + c]
<1>1. /\ r.position \in 0..seen.index
      /\ r.buffer \in Seq(Nat) /\ Len(r.buffer) <= r.position /\ Len(r.buffer) \in Nat
      /\ \A c \in 1..Len(r.buffer) : r.buffer[c] = file[p + c]
  BY LenProperties DEF BufferFits
<1>2. Len(file) \in Nat
  BY StoreIs DEF IndexIs
<1>3. p \in Nat /\ p + Len(r.buffer) <= Len(file)
  <2> DEFINE x == r.position
             l == Len(r.buffer)
             f == Len(file)
  <2>1. x \in Nat /\ l \in Nat /\ f \in Nat /\ l <= x /\ x <= f /\ p = x - l
    BY <1>1, <1>2 DEF Parsed
  <2> HIDE DEF x, l, f
  <2>2. p \in Nat /\ p + l <= f
    BY <2>1
  <2> QED BY <2>2 DEF l, f
<1> QED BY <1>1, <1>3

\* What is behind m records: one more, or the footer.
LEMMA RecordOrFooter ==
  ASSUME StoreInv, seen.index \in 0..Len(file), NEW r, NEW n, NEW m, AtItem(r, n, m),
         NEW j, j = m + 1
  PROVE  /\ \A c \in 1..Len(r.buffer) : r.buffer[c] = file[HeadSize + 10 * m + c]
         /\ Len(r.buffer) > 0 => j \in 1..Records \/ (closed /\ m = Records)
         /\ closed /\ m = Records => Len(r.buffer) <= FootSize
         /\ j - 1 = m /\ m \in Nat
<1>1. /\ Records \in Nat /\ HeadSize \in Nat /\ closed \in BOOLEAN
      /\ m \in 0..Records
  BY StoreIs DEF IndexIs, AtItem
<1>2. /\ Len(r.buffer) \in Nat /\ HeadSize + 10 * m + Len(r.buffer) <= Len(file)
      /\ \A c \in 1..Len(r.buffer) : r.buffer[c] = file[HeadSize + 10 * m + c]
  BY BufferSays DEF AtItem
<1>3. Len(file) = HeadSize + 10 * Records + (IF closed THEN FootSize ELSE 0)
  BY RecordsSay DEF FileSays, AtItem
<1>4. FootSize \in Nat
  BY DEF FootSize
<1> DEFINE l == Len(r.buffer)
           f == Len(file)
           R == Records
           H == HeadSize
           F == FootSize
<1>5. /\ l \in Nat /\ R \in Nat /\ H \in Nat /\ F \in Nat /\ m \in 0..R
      /\ H + 10 * m + l <= f /\ f = H + 10 * R + (IF closed THEN F ELSE 0)
      /\ closed \in BOOLEAN
  BY <1>1, <1>2, <1>3, <1>4
<1> HIDE DEF l, f, R, H, F
<1>6. l > 0 => j \in 1..R \/ (closed /\ m = R)
  BY <1>5
<1>7. closed /\ m = R => l <= F
  BY <1>5
<1>8. j - 1 = m /\ m \in Nat
  BY <1>5
<1> QED BY <1>2, <1>6, <1>7, <1>8 DEF l, R, F

\* What parsing makes of a reader.
Parses(r, q) == ReaderFits(q) /\ r.frames <= q.frames

\* A record of the generator the reader is about gives an item;
LEMMA ItemParsed ==
  ASSUME StoreInv, seen.index \in 0..Len(file), NEW r, NEW n, NEW m, AtItem(r, n, m),
         NEW j \in 1..Records, j = m + 1, Len(r.buffer) >= 10, Mine(file, j),
         NEW q, q = ParsedItem(r)
  PROVE  Parses(r, q)
<1> DEFINE b == r.buffer
           i == [frames |-> b[2], frame |-> b[4], offset |-> b[8], length |-> b[10]]
<1>0. n \in 0..Len(Items) /\ m \in 0..Records /\ Records \in Nat /\ Len(Items) \in Nat
      /\ Items \in Seq(ItemRecords) /\ Tiles(Items) /\ HeadSize \in Nat
  BY StoreIs DEF AtItem, IndexIs
<1>1. PICK o : o = n + 1
  OBVIOUS
<1>2. o \in 1..Len(Items) /\ Says(file, j, Items[o]) /\ Between(o, j)
  BY <1>0, <1>1, NextFound DEF AtItem
<1>3. i = Items[o]
  <2>1. /\ b[2] = file[HeadSize + 10 * m + 2] /\ b[4] = file[HeadSize + 10 * m + 4]
        /\ b[8] = file[HeadSize + 10 * m + 8] /\ b[10] = file[HeadSize + 10 * m + 10]
    <3>1. 2 \in 1..Len(b) /\ 4 \in 1..Len(b) /\ 8 \in 1..Len(b) /\ 10 \in 1..Len(b)
      <4>1. Len(b) \in Nat
        BY LenProperties DEF AtItem, BufferFits
      <4> QED BY <4>1
    <3>2. \A c \in 1..Len(b) : b[c] = file[HeadSize + 10 * m + c]
      BY RecordOrFooter
    <3> QED BY <3>1, <3>2
  <2>2. j - 1 = m
    BY <1>0
  <2>3. /\ b[2] = Items[o].frames /\ b[4] = Items[o].frame
        /\ b[8] = Items[o].offset /\ b[10] = Items[o].length
    BY <1>2, <2>1, <2>2 DEF Says
  <2>4. Items[o] \in ItemRecords
    BY <1>0, <1>2, ElementOfSeq
  <2>5. Items[o] = [frames |-> Items[o].frames, frame |-> Items[o].frame,
                    offset |-> Items[o].offset, length |-> Items[o].length]
    BY <2>4 DEF ItemRecords
  <2> QED BY <2>3, <2>5
<1>4. PICK t : t = Take(r, 10)
  OBVIOUS
<1>5. Behind(t, r, 10) /\ Same(t, r) /\ t.state = r.state /\ t.eof = r.eof
  BY <1>4, TakeIs DEF AtItem
<1>6. Found(t, n) /\ DOMAIN t = ReaderFields
  BY <1>5 DEF Same, Found, Behind, BufferFits, AtItem
<1>7. q = Set(t, Items[o])
  BY <1>3, <1>4 DEF ParsedItem, ItemSize
<1>8. /\ Found(q, o) /\ DOMAIN q = ReaderFields /\ q.version = t.version
      /\ q.state = t.state /\ q.position = t.position /\ q.buffer = t.buffer
      /\ q.eof = t.eof
  <2>1. n \in Nat /\ o <= Len(Items)
    BY <1>0, <1>2
  <2> QED BY <1>0, <1>1, <1>6, <1>7, <2>1, OneMore
<1>9. BufferFits(q) /\ Parsed(q) = Parsed(t)
  BY <1>5, <1>8 DEF BufferFits, Parsed, Behind
<1>10. Parsed(q) = HeadSize + 10 * j
  <2>1. Parsed(t) = HeadSize + 10 * m + 10
    BY <1>5 DEF Behind, AtItem
  <2>2. HeadSize + 10 * m + 10 = HeadSize + 10 * j
    BY <1>0
  <2> QED BY <1>9, <2>1, <2>2
<1>11. AtItem(q, o, j)
  <2>1. j \in 0..Records /\ o \in 0..Len(Items)
    BY <1>0, <1>2
  <2> QED BY <1>2, <1>5, <1>8, <1>9, <1>10, <2>1 DEF AtItem, Same
<1>12. r.frames <= q.frames
  <2>1. r.frames = Reach(Items, n) /\ q.frames = Reach(Items, o)
    BY <1>8 DEF AtItem, Found
  <2>2. /\ Reach(Items, n) = Items[o].frame /\ Items[o].frame < Reach(Items, o)
        /\ Items[o].frame \in Nat /\ Reach(Items, o) \in Nat
    <3>1. o - 1 = n /\ o \in 0..Len(Items)
      BY <1>0, <1>1, <1>2
    <3> QED BY <1>0, <1>2, <3>1, ReachIs
  <2> QED BY <2>1, <2>2
<1> QED BY <1>11, <1>12, AtItemFits DEF Parses

\* one of the other generator gives none.
LEMMA ItemSkipped ==
  ASSUME StoreInv, seen.index \in 0..Len(file), NEW r, NEW n, NEW m, AtItem(r, n, m),
         NEW j \in 1..Records, j = m + 1, Len(r.buffer) >= 10, ~Mine(file, j),
         NEW q, q = Take(r, 10)
  PROVE  Parses(r, q)
<1>0. /\ n \in 0..Len(Items) /\ m \in 0..Records /\ Records \in Nat /\ Len(Items) \in Nat
      /\ Items \in Seq(ItemRecords) /\ Tiles(Items) /\ HeadSize \in Nat
  BY StoreIs DEF AtItem, IndexIs
<1>1. Behind(q, r, 10) /\ Same(q, r) /\ q.state = r.state /\ q.eof = r.eof
  BY TakeIs DEF AtItem
<1>2. Between(n, j)
  BY <1>0, NextSkipped DEF AtItem
<1>3. Parsed(q) = HeadSize + 10 * j
  <2>1. Parsed(q) = HeadSize + 10 * m + 10
    BY <1>1 DEF Behind, AtItem
  <2>2. HeadSize + 10 * m + 10 = HeadSize + 10 * j
    BY <1>0
  <2> QED BY <2>1, <2>2
<1>4. Found(q, n) /\ q.frames = r.frames /\ r.frames \in Nat
  <2>1. Reach(Items, n) \in Nat
    BY <1>0, ReachIs
  <2> QED BY <1>1, <2>1 DEF Same, Found, AtItem
<1>5. AtItem(q, n, j)
  <2>1. j \in 0..Records
    BY <1>0
  <2> QED BY <1>1, <1>2, <1>3, <1>4, <2>1 DEF AtItem, Same, Behind
<1> QED BY <1>4, <1>5, AtItemFits DEF Parses

\* A reader at its first word that has some words to read: the file is there.
LEMMA AtHeaderSays ==
  ASSUME StoreInv, seen.index \in 0..Len(file), NEW r, BufferFits(r), Parsed(r) = 0,
         Len(r.buffer) >= 4
  PROVE  /\ video.state # "header" /\ Len(r.buffer) \in Nat
         /\ \A c \in 1..4 : r.buffer[c] = HeaderWords(setup.version)[c]
<1>1. /\ Len(r.buffer) \in Nat /\ 0 + Len(r.buffer) <= Len(file)
      /\ \A c \in 1..Len(r.buffer) : r.buffer[c] = file[0 + c]
  BY BufferSays
<1>2. video.state # "header"
  <2>1. ASSUME file = <<>>  PROVE FALSE
    <3>1. Len(file) = 0
      BY <2>1, EmptySeq
    <3> QED BY <1>1, <3>1
  <2> QED BY <2>1 DEF StoreInv, FileFits
<1>3. HeadFits(file) /\ HeadSize \in {4, 10}
  BY <1>2, RecordsSay, StoreIs DEF FileSays, IndexIs
<1>4. ASSUME NEW c \in 1..4  PROVE r.buffer[c] = HeaderWords(setup.version)[c]
  <2>1. c \in 1..Len(r.buffer) /\ c \in 1..HeadSize /\ 0 + c = c
    BY <1>1, <1>3
  <2> QED BY <1>1, <1>3, <2>1 DEF HeadFits
<1> QED BY <1>1, <1>2, <1>4

\* The header is parsed.
LEMMA HeaderParsed ==
  ASSUME StoreInv, NEW r, AtHeader(r), video.state # "header",
         Len(r.buffer) >= HeadSize, NEW q, q = To(r, HeadSize, TRUE, "item")
  PROVE  Parses(r, q)
<1>1. /\ HeadSize \in Nat /\ Records \in Nat /\ Len(Items) \in Nat
      /\ Items \in Seq(ItemRecords) /\ Tiles(Items)
  BY StoreIs DEF IndexIs
<1>2. Behind(q, r, HeadSize) /\ Same(q, r) /\ q.eof = r.eof /\ q.state = "item"
  <2>1. BufferFits(r) /\ HeadSize \in Nat /\ HeadSize <= Len(r.buffer)
    <3>1. Len(r.buffer) \in Nat
      BY LenProperties DEF AtHeader, BufferFits
    <3> QED BY <1>1, <3>1 DEF AtHeader
  <2>2. Reached(q, r, HeadSize, "item")
    BY <2>1, ToIs
  <2> QED BY <2>2 DEF Reached
<1>3. Between(0, 0)
  <2>1. ASSUME NEW j \in 1..Records, Mine(file, j)
        PROVE  j <= 0 <=> FrameOf(file, j) < Reach(Items, 0)
    <3>1. PICK k \in 1..Len(Items) : FrameOf(file, j) = Items[k].frame
      BY <2>1, RecordsSay DEF FileSays
    <3>2. Items[k].frame \in Nat /\ Reach(Items, 0) = 0
      BY <1>1, ReachIs
    <3> QED BY <1>1, <3>1, <3>2
  <2> QED BY <2>1 DEF Between
<1>4. Found(q, 0) /\ q.frames = r.frames /\ r.frames = 0
  BY <1>1, <1>2, ReachIs DEF Same, Found, AtHeader
<1>5. PICK z : z = 0
  OBVIOUS
<1>6. Parsed(q) = HeadSize + 10 * z
  <2>1. Parsed(q) = Parsed(r) + HeadSize /\ Parsed(r) = 0
    BY <1>2 DEF Behind, AtHeader
  <2>2. 0 + HeadSize = HeadSize + 10 * z
    BY <1>1, <1>5
  <2> QED BY <2>1, <2>2
<1>7. AtItem(q, z, z)
  <2>1. z \in 0..Records /\ z \in 0..Len(Items)
    BY <1>1, <1>5
  <2>2. BufferFits(q) /\ q.version = setup.version /\ q.state = "item"
    BY <1>2 DEF Same, Behind, AtHeader
  <2>3. ~q.eof
    BY <1>2 DEF AtHeader
  <2>4. Found(q, z) /\ Between(z, z)
    BY <1>3, <1>4, <1>5
  <2> QED BY <1>6, <2>1, <2>2, <2>3, <2>4 DEF AtItem
<1>8. r.frames <= q.frames
  <2>1. 0 <= 0
    OBVIOUS
  <2> QED BY <1>4, <2>1
<1> QED BY <1>7, <1>8, AtItemFits DEF Parses

\* The footer is parsed.
LEMMA FooterParsed ==
  ASSUME StoreInv, NEW r, NEW n, NEW m, AtItem(r, n, m), closed, m = Records,
         NEW s \in Nat, s <= Len(r.buffer),
         NEW q, q = ParsedFooter(r, s, TRUE)
  PROVE  Parses(r, q)
<1>1. /\ Items \in Seq(ItemRecords) /\ Tiles(Items) /\ n \in 0..Len(Items)
      /\ Reach(Items, n) \in Nat
  BY StoreIs, ReachIs DEF IndexIs, AtItem
<1>2. Behind(q, r, s) /\ Same(q, r) /\ q.state = "footer" /\ q.eof
  BY ParsedFooterIs DEF AtItem
<1>3. n = Len(Items)
  BY AllFound DEF AtItem
<1>4. Found(q, n) /\ q.frames = r.frames /\ r.frames = Reach(Items, n)
  BY <1>2 DEF Same, Found, AtItem
<1>5. ReaderFits(q)
  <2>1. BufferFits(q) /\ q.version = setup.version /\ q.state = "footer"
    BY <1>2 DEF Same, Behind, AtItem
  <2>2. q.eof
    BY <1>2
  <2>3. closed /\ n = Len(Items) /\ n \in 0..Len(Items) /\ Found(q, n)
    BY <1>1, <1>3, <1>4
  <2> QED BY <2>1, <2>2, <2>3 DEF ReaderFits
<1>6. r.frames <= q.frames
  <2>1. Reach(Items, n) <= Reach(Items, n)
    BY <1>1
  <2> QED BY <1>4, <2>1
<1> QED BY <1>5, <1>6 DEF Parses

\* A reader that has nothing to parse.
LEMMA NotParsed ==
  ASSUME StoreInv, NEW r, ReaderFits(r)
  PROVE  Parses(r, r) /\ r.frames \in Nat
<1>1. /\ Items \in Seq(ItemRecords) /\ Tiles(Items)
  BY StoreIs DEF IndexIs
<1>2. PICK n \in 0..Len(Items) : Found(r, n)
  BY DEF ReaderFits
<1>3. Reach(Items, n) \in Nat
  BY <1>1, ReachIs
<1> QED BY <1>2, <1>3 DEF Parses, Found

\* The cases of Parse4.
LEMMA Parse4Is ==
  ASSUME NEW r, Len(r.buffer) \in Nat
  PROVE  /\ Len(r.buffer) < 10 => Parse4(r) = r
         /\ Len(r.buffer) >= 10 /\ r.state = "footer" => Parse4(r) = r
         /\ Len(r.buffer) >= 10 /\ r.state = "item" =>
              /\ r.buffer[1] = Footer =>
                   Parse4(r) = ParsedFooter(r, 10, r.buffer[4] = AW /\ r.buffer[5] >= I(4))
              /\ r.buffer[1] # Footer /\ r.buffer[1] = setup.type => Parse4(r) = ParsedItem(r)
              /\ r.buffer[1] # Footer /\ r.buffer[1] # setup.type => Parse4(r) = Take(r, 10)
<1>1. CASE Len(r.buffer) < 10
  BY <1>1 DEF Parse4, ItemSize
<1>2. CASE Len(r.buffer) >= 10 /\ r.state = "footer"
  BY <1>2 DEF Parse4, ItemSize
<1>3. CASE Len(r.buffer) >= 10 /\ r.state = "item"
  <2>1. CASE r.buffer[1] = Footer
    BY <1>3, <2>1 DEF Parse4, ItemSize
  <2>2. CASE r.buffer[1] # Footer /\ r.buffer[1] = setup.type
    BY <1>3, <2>2 DEF Parse4, ItemSize
  <2>3. CASE r.buffer[1] # Footer /\ r.buffer[1] # setup.type
    BY <1>3, <2>3 DEF Parse4, ItemSize
  <2> QED BY <1>3, <2>1, <2>2, <2>3
<1> QED BY <1>1, <1>2, <1>3

\* Version 4, when the generator wrote that.
LEMMA Parse4Fits ==
  ASSUME StoreInv, seen.index \in 0..Len(file), NEW r, ReaderFits(r), setup.version = 4,
         NEW q, q = Parse(r)
  PROVE  Parses(r, q)
<1> DEFINE b == r.buffer
<1>0. /\ q = Parse4(r) /\ HeadSize = 10 /\ FootSize = 10 /\ Tag = setup.type
      /\ Len(b) \in Nat
      /\ setup.type \in 1..2
  BY StoreIs, LenProperties DEF Parse, ReaderFits, BufferFits, HeadSize, FootSize, Tag, IndexIs
<1>1. CASE Len(b) < 10
  <2>1. q = r
    BY <1>0, <1>1, Parse4Is
  <2> QED BY <2>1, NotParsed
<1>2. CASE Len(b) >= 10 /\ r.state = "header"
  <2>1. AtHeader(r)
    BY <1>2, FitsAtHeader
  <2>2. /\ video.state # "header"
        /\ \A c \in 1..4 : b[c] = HeaderWords(setup.version)[c]
    <3>1. Len(b) >= 4
      BY <1>0, <1>2
    <3> QED BY <2>1, <3>1, AtHeaderSays DEF AtHeader
  <2>3. b[1] = 0 /\ b[2] = AW /\ b[3] = I(4)
    <3>1. /\ HeaderWords(4)[1] = 0 /\ HeaderWords(4)[2] = AW /\ HeaderWords(4)[3] = I(4)
      BY HeaderWordsAre
    <3> QED BY <2>2, <3>1
  <2>4. (b[2] = AW /\ b[3] >= I(4)) = TRUE
    BY <2>3 DEF I
  <2>5. q = To(r, HeadSize, b[2] = AW /\ b[3] >= I(4), "item")
    BY <1>0, <1>2, <2>3 DEF Parse4, ItemSize
  <2> HIDE DEF b
  <2>6. q = To(r, HeadSize, TRUE, "item")
    BY <2>4, <2>5
  <2>7. Len(r.buffer) >= HeadSize
    BY <1>0, <1>2 DEF b
  <2> QED BY <2>1, <2>2, <2>6, <2>7, HeaderParsed
<1>3. CASE Len(b) >= 10 /\ r.state = "item"
  <2>1. PICK n \in 0..Len(Items), m \in 0..Records : AtItem(r, n, m)
    BY <1>3, FitsAtItem
  <2>2. PICK j : j = m + 1
    OBVIOUS
  <2>3. /\ \A c \in 1..Len(b) : b[c] = file[HeadSize + 10 * m + c]
        /\ j \in 1..Records \/ (closed /\ m = Records)
        /\ j - 1 = m
    <3>1. Len(r.buffer) > 0
      BY <1>0, <1>3
    <3>2. /\ \A c \in 1..Len(r.buffer) : r.buffer[c] = file[HeadSize + 10 * m + c]
          /\ Len(r.buffer) > 0 => j \in 1..Records \/ (closed /\ m = Records)
          /\ j - 1 = m
      BY <2>1, <2>2, RecordOrFooter
    <3> QED BY <3>1, <3>2
  <2>4. 1 \in 1..Len(b) /\ 4 \in 1..Len(b) /\ 5 \in 1..Len(b) /\ 10 <= Len(b)
    BY <1>0, <1>3
  <2>5. CASE j \in 1..Records
    <3>1. b[1] = file[HeadSize + 10 * (j - 1) + 1]
      BY <2>3, <2>4
    <3>2. CASE Mine(file, j)
      <4>1. b[1] = setup.type /\ b[1] # Footer
        BY <1>0, <3>1, <3>2 DEF Mine, Footer
      <4>2. q = ParsedItem(r)
        BY <1>0, <1>3, <4>1, Parse4Is
      <4> QED BY <2>1, <2>2, <2>4, <2>5, <3>2, <4>2, ItemParsed
    <3>3. CASE ~Mine(file, j)
      <4>1. b[1] # setup.type /\ b[1] # Footer
        <5>1. b[1] # setup.type
          BY <1>0, <3>1, <3>3 DEF Mine
        <5>2. file[HeadSize + 10 * (j - 1) + 1] \in {1, 2}
          BY <2>1, <2>5, <3>3, RecordsSay DEF FileSays, AtItem
        <5> QED BY <3>1, <5>1, <5>2 DEF Footer
      <4>2. q = Take(r, 10)
        BY <1>0, <1>3, <4>1, Parse4Is
      <4> QED BY <2>1, <2>2, <2>4, <2>5, <3>3, <4>2, ItemSkipped
    <3> QED BY <3>2, <3>3
  <2>6. CASE closed /\ m = Records
    <3>1. \A c \in 1..FootSize : file[HeadSize + 10 * Records + c] = FooterWords(setup.version)[c]
      BY <2>1, <2>6, RecordsSay DEF FileSays, AtItem
    <3>2. b[1] = FooterWords(4)[1] /\ b[4] = FooterWords(4)[4] /\ b[5] = FooterWords(4)[5]
      <4>1. 1 \in 1..FootSize /\ 4 \in 1..FootSize /\ 5 \in 1..FootSize /\ setup.version = 4
        BY <1>0
      <4>2. \A c \in {1, 4, 5} : b[c] = file[HeadSize + 10 * Records + c]
        BY <2>3, <2>4, <2>6
      <4> QED BY <3>1, <4>1, <4>2
    <3>3. b[1] = Footer /\ b[4] = AW /\ b[5] = I(4)
      BY <3>2, FooterWordsAre
    <3>4. (b[4] = AW /\ b[5] >= I(4)) = TRUE
      BY <3>3 DEF I
    <3>5. q = ParsedFooter(r, 10, b[4] = AW /\ b[5] >= I(4))
      BY <1>0, <1>3, <3>3, Parse4Is
    <3> HIDE DEF b
    <3>6. q = ParsedFooter(r, 10, TRUE)
      BY <3>4, <3>5
    <3>7. 10 <= Len(r.buffer)
      BY <2>4 DEF b
    <3> QED BY <2>1, <2>6, <3>6, <3>7, FooterParsed
  <2> QED BY <2>3, <2>5, <2>6
<1>4. CASE Len(b) >= 10 /\ r.state = "footer"
  <2>1. q = r
    BY <1>0, <1>4, Parse4Is
  <2> QED BY <2>1, NotParsed
<1>5. r.state \in {"header", "item", "footer"}
  BY DEF ReaderFits
<1> QED BY <1>0, <1>1, <1>2, <1>3, <1>4, <1>5

\* The cases of Parse23: a whole header,
LEMMA Parse23Header ==
  ASSUME NEW r, Len(r.buffer) \in Nat, r.version \in {2, 3},
         r.state = "header", Len(r.buffer) >= HeaderSize(r.version)
  PROVE  Parse23(r) = To(r, HeaderSize(r.version),
                         r.buffer[1] = AW /\ r.buffer[2] = I(r.version), "item")
<1>1. HeaderSize(r.version) \in Nat
  BY DEF HeaderSize
<1> QED BY <1>1 DEF Parse23, ItemSize

\* a whole item,
LEMMA Parse23Item ==
  ASSUME NEW r, Len(r.buffer) \in Nat, r.state = "item", Len(r.buffer) >= 10, IsItem(r)
  PROVE  Parse23(r) = ParsedItem(r)
<1>1. r.state # "header"
  OBVIOUS
<1> QED BY <1>1 DEF Parse23, ItemSize

\* a footer and nothing after it,
LEMMA Parse23Footer ==
  ASSUME NEW r, Len(r.buffer) \in Nat, r.state = "item",
         Len(r.buffer) = FooterSize(r.version), ~IsItem(r)
  PROVE  Parse23(r) = ParsedFooter(r, FooterSize(r.version),
                                   /\ r.buffer[Len(r.buffer) - 1] = AW
                                   /\ r.buffer[Len(r.buffer)] = I(r.version))
<1>1. r.state # "header"
  OBVIOUS
<1> QED BY <1>1 DEF Parse23, ItemSize

\* and the reader waits for more.
LEMMA Parse23Rest ==
  ASSUME NEW r, Len(r.buffer) \in Nat, r.version \in {2, 3},
         \/ r.state = "header" /\ ~(Len(r.buffer) >= HeaderSize(r.version))
         \/ /\ r.state = "item" /\ ~(Len(r.buffer) >= 10 /\ IsItem(r))
            /\ ~(Len(r.buffer) = FooterSize(r.version) /\ ~IsItem(r))
         \/ r.state \notin {"header", "item"}
  PROVE  Parse23(r) = r
<1>1. HeaderSize(r.version) \in Nat
  BY DEF HeaderSize
<1>2. CASE r.state = "header" /\ ~(Len(r.buffer) >= HeaderSize(r.version))
  BY <1>1, <1>2 DEF Parse23, ItemSize
<1>3. CASE /\ r.state = "item" /\ ~(Len(r.buffer) >= 10 /\ IsItem(r))
           /\ ~(Len(r.buffer) = FooterSize(r.version) /\ ~IsItem(r))
  BY <1>3 DEF Parse23, ItemSize
<1>4. CASE r.state \notin {"header", "item"}
  <2>1. r.state # "header" /\ r.state # "item"
    BY <1>4
  <2> QED BY <2>1 DEF Parse23, ItemSize
<1> QED BY <1>2, <1>3, <1>4

\* Version 2, when the generator wrote that.
LEMMA Parse2Fits ==
  ASSUME StoreInv, seen.index \in 0..Len(file), NEW r, ReaderFits(r), setup.version = 2,
         NEW q, q = Parse(r)
  PROVE  Parses(r, q)
<1> DEFINE b == r.buffer
<1>0. /\ q = Parse23(r) /\ HeadSize = 4 /\ FootSize = 8 /\ Tag = 0 /\ r.version = 2
      /\ HeaderSize(r.version) = 4 /\ FooterSize(r.version) = 8 /\ b \in Seq(Nat)
      /\ Len(b) \in Nat
  BY StoreIs, LenProperties DEF Parse, ReaderFits, BufferFits, HeadSize, FootSize, Tag, IndexIs,
                                HeaderSize, FooterSize
<1>1. ASSUME q = r  PROVE Parses(r, q)
  BY <1>1, NotParsed
<1>2. CASE r.state = "header"
  <2>1. AtHeader(r)
    BY <1>2, FitsAtHeader
  <2>2. CASE Len(b) >= 4
    <3>1. /\ video.state # "header"
          /\ \A c \in 1..4 : b[c] = HeaderWords(setup.version)[c]
      BY <2>1, <2>2, AtHeaderSays DEF AtHeader
    <3>2. b[1] = AW /\ b[2] = I(2)
      BY <3>1, HeaderWordsAre
    <3>3. (b[1] = AW /\ b[2] = I(r.version)) = TRUE
      BY <1>0, <3>2
    <3>4. q = To(r, HeadSize, b[1] = AW /\ b[2] = I(r.version), "item")
      BY <1>0, <1>2, <2>2, Parse23Header
    <3> HIDE DEF b
    <3>5. q = To(r, HeadSize, TRUE, "item")
      BY <3>3, <3>4
    <3>6. Len(r.buffer) >= HeadSize
      BY <1>0, <2>2 DEF b
    <3> QED BY <2>1, <3>1, <3>5, <3>6, HeaderParsed
  <2>3. CASE ~(Len(b) >= 4)
    BY <1>0, <1>1, <1>2, <2>3, Parse23Rest
  <2> QED BY <2>2, <2>3
<1>3. CASE r.state = "item"
  <2>1. PICK n \in 0..Len(Items), m \in 0..Records : AtItem(r, n, m)
    BY <1>3, FitsAtItem
  <2>2. PICK j : j = m + 1
    OBVIOUS
  <2>3. /\ \A c \in 1..Len(b) : b[c] = file[HeadSize + 10 * m + c]
        /\ Len(b) > 0 => j \in 1..Records \/ (closed /\ m = Records)
        /\ closed /\ m = Records => Len(b) <= 8
        /\ j - 1 = m
    <3>1. /\ \A c \in 1..Len(r.buffer) : r.buffer[c] = file[HeadSize + 10 * m + c]
          /\ Len(r.buffer) > 0 => j \in 1..Records \/ (closed /\ m = Records)
          /\ closed /\ m = Records => Len(r.buffer) <= FootSize
          /\ j - 1 = m /\ m \in Nat
      BY <2>1, <2>2, RecordOrFooter
    <3> QED BY <1>0, <3>1
  <2>4. CASE Len(b) = 0
    <3>1. ~(Len(r.buffer) >= 10) /\ Len(r.buffer) # 8
      BY <2>4
    <3>2. Parse23(r) = r
      BY <1>0, <1>3, <3>1, Parse23Rest
    <3> QED BY <1>0, <1>1, <3>2
  <2>5. CASE Len(b) > 0 /\ j \in 1..Records
    <3>1. 1 \in 1..Len(b) /\ b # <<>>
      BY <1>0, <2>5, EmptySeq
    <3>2. b[1] = file[HeadSize + 10 * (j - 1) + 1]
      BY <2>3, <3>1
    <3>3. Mine(file, j)
      <4>1. ~Mine(file, j) => setup.version = 4
        BY <2>1, <2>5, RecordsSay DEF FileSays, AtItem
      <4> QED BY <4>1
    <3>4. IsItem(r)
      <4>1. b[1] = 0
        BY <1>0, <3>2, <3>3 DEF Mine
      <4> QED BY <1>0, <3>1, <4>1 DEF IsItem
    <3>5. CASE Len(b) >= 10
      <4>1. q = ParsedItem(r)
        BY <1>0, <1>3, <3>4, <3>5, Parse23Item
      <4> QED BY <2>1, <2>2, <2>5, <3>3, <3>5, <4>1, ItemParsed
    <3>6. CASE ~(Len(b) >= 10)
      BY <1>0, <1>1, <1>3, <3>4, <3>6, Parse23Rest
    <3> QED BY <3>5, <3>6
  <2>6. CASE Len(b) > 0 /\ closed /\ m = Records
    <3>1. CASE Len(b) = 8
      <4>1. \A c \in 1..FootSize : file[HeadSize + 10 * Records + c] = FooterWords(setup.version)[c]
        BY <2>1, <2>6, RecordsSay DEF FileSays, AtItem
      <4>2. \A c \in 1..8 : b[c] = FooterWords(2)[c]
        <5>1. \A c \in 1..8 : b[c] = file[HeadSize + 10 * Records + c]
          BY <2>3, <2>6, <3>1
        <5>2. FootSize = 8 /\ setup.version = 2
          BY <1>0
        <5> QED BY <4>1, <5>1, <5>2
      <4>3. b[1] = Footer /\ b[7] = AW /\ b[8] = I(2)
        <5>1. /\ b[1] = FooterWords(2)[1] /\ b[7] = FooterWords(2)[7]
              /\ b[8] = FooterWords(2)[8]
          <6>1. 1 \in 1..8 /\ 7 \in 1..8 /\ 8 \in 1..8
            OBVIOUS
          <6> QED BY <4>2, <6>1
        <5> QED BY <5>1, FooterWordsAre
      <4>4. ~IsItem(r)
        BY <1>0, <4>3 DEF IsItem, Footer
      <4>5. (b[Len(b) - 1] = AW /\ b[Len(b)] = I(r.version)) = TRUE
        <5>1. Len(b) - 1 = 7
          BY <3>1
        <5> QED BY <1>0, <3>1, <4>3, <5>1
      <4>6. q = ParsedFooter(r, 8, b[Len(b) - 1] = AW /\ b[Len(b)] = I(r.version))
        BY <1>0, <1>3, <3>1, <4>4, Parse23Footer
      <4> HIDE DEF b
      <4>7. q = ParsedFooter(r, 8, TRUE)
        BY <4>5, <4>6
      <4>8. 8 <= Len(r.buffer)
        BY <3>1 DEF b
      <4> QED BY <2>1, <2>6, <4>7, <4>8, FooterParsed
    <3>2. CASE Len(b) # 8
      <4>1. ~(Len(b) >= 10)
        BY <1>0, <2>3, <2>6
      <4> QED BY <1>0, <1>1, <1>3, <3>2, <4>1, Parse23Rest
    <3> QED BY <3>1, <3>2
  <2> QED BY <1>0, <2>3, <2>4, <2>5, <2>6
<1>4. CASE r.state = "footer"
  BY <1>0, <1>1, <1>4, Parse23Rest
<1>5. r.state \in {"header", "item", "footer"}
  BY DEF ReaderFits
<1> QED BY <1>2, <1>3, <1>4, <1>5

\* Whatever is parsed of the right version keeps the reader right.
LEMMA ParseFits ==
  ASSUME StoreInv, seen.index \in 0..Len(file), NEW r, ReaderFits(r), NEW q, q = Parse(r)
  PROVE  Parses(r, q)
<1>1. setup.version \in {2, 4}
  BY StoreIs DEF IndexIs
<1> QED BY <1>1, Parse2Fits, Parse4Fits

\* A reader of another version has nothing, or an error.
LEMMA OtherParses ==
  ASSUME StoreInv, seen.index \in 0..Len(file), NEW r, OtherFits(r), NEW q, q = Parse(r)
  PROVE  OtherFits(q)
<1> DEFINE b == r.buffer
<1>0. /\ r.version \in 2..4 /\ r.version # setup.version /\ setup.version \in {2, 4}
      /\ BufferFits(r) /\ DOMAIN r = ReaderFields /\ Len(b) \in Nat /\ r.frames = 0 /\ ~r.eof
  BY StoreIs, LenProperties DEF OtherFits, BufferFits, IndexIs
<1>1. CASE r.state = "error"
  <2>1. CASE r.version = 4
    <3>1. q = r
      BY <1>1, <2>1 DEF Parse, Parse4
    <3> QED BY <3>1
  <2>2. CASE r.version \in {2, 3}
    <3>1. q = r
      BY <1>0, <1>1, <2>2, Parse23Rest DEF Parse
    <3> QED BY <3>1
  <2> QED BY <1>0, <2>1, <2>2
<1>2. CASE r.state = "header" /\ Parsed(r) = 0
  <2>1. ASSUME Len(b) >= 4
        PROVE  b[1] = HeaderWords(setup.version)[1] /\ b[2] = HeaderWords(setup.version)[2]
    BY <1>0, <1>2, <2>1, AtHeaderSays
  <2>2. ASSUME NEW n \in Nat, n <= Len(b), q = To(r, n, FALSE, "item")  PROVE OtherFits(q)
    <3>1. Reached(q, r, n, "error")
      BY <1>0, <2>2, ToIs
    <3> QED BY <1>0, <3>1 DEF OtherFits, Reached, Behind, Same
  <2>3. CASE r.version = 4
    <3>1. CASE Len(b) < 10
      <4>1. q = r
        BY <1>0, <2>3, <3>1, Parse4Is DEF Parse
      <4> QED BY <4>1
    <3>2. CASE Len(b) >= 10
      <4>1. b[1] = AW
        <5>1. setup.version = 2
          BY <1>0, <2>3
        <5>2. Len(b) >= 4
          BY <1>0, <3>2
        <5> QED BY <2>1, <5>1, <5>2, HeaderWordsAre
      <4>2. q = [r EXCEPT !.state = "error"]
        <5>1. ~(Len(b) < ItemSize) /\ b[1] # 0
          BY <1>0, <3>2, <4>1 DEF ItemSize, AW
        <5> QED BY <1>2, <2>3, <5>1 DEF Parse, Parse4
      <4>3. /\ q.version = r.version /\ q.state = "error" /\ q.position = r.position
            /\ q.buffer = r.buffer /\ q.frames = r.frames /\ q.eof = r.eof
            /\ DOMAIN q = ReaderFields
        BY <1>0, <4>2 DEF ReaderFields
      <4>4. BufferFits(q)
        BY <1>0, <4>3 DEF BufferFits, Parsed
      <4> QED BY <1>0, <4>3, <4>4 DEF OtherFits
    <3> QED BY <1>0, <3>1, <3>2
  <2>4. CASE r.version \in {2, 3}
    <3> DEFINE h == HeaderSize(r.version)
    <3>1. h \in Nat /\ h >= 4
      BY <2>4 DEF HeaderSize
    <3>2. CASE Len(b) >= h
      <4>1. (b[1] = AW /\ b[2] = I(r.version)) = FALSE
        <5>1. Len(b) >= 4
          BY <1>0, <3>1, <3>2
        <5>2. CASE setup.version = 4
          <6>1. b[1] = 0
            BY <2>1, <5>1, <5>2, HeaderWordsAre
          <6> QED BY <6>1 DEF AW
        <5>3. CASE setup.version = 2
          <6>1. b[2] = I(2) /\ r.version = 3
            BY <1>0, <2>1, <2>4, <5>1, <5>3, HeaderWordsAre
          <6> QED BY <6>1 DEF I
        <5> QED BY <1>0, <5>2, <5>3
      <4>2. q = To(r, h, b[1] = AW /\ b[2] = I(r.version), "item")
        BY <1>0, <1>2, <2>4, <3>2, Parse23Header DEF Parse
      <4> HIDE DEF b, h
      <4>3. q = To(r, h, FALSE, "item")
        BY <4>1, <4>2
      <4>4. h <= Len(b)
        BY <1>0, <3>1, <3>2
      <4> QED BY <2>2, <3>1, <4>3, <4>4
    <3>3. CASE ~(Len(b) >= h)
      <4>1. q = r
        BY <1>0, <1>2, <2>4, <3>3, Parse23Rest DEF Parse
      <4> QED BY <4>1
    <3> QED BY <3>2, <3>3
  <2> QED BY <1>0, <2>3, <2>4
<1> QED BY <1>1, <1>2 DEF OtherFits

\* What a step makes of the reader of the item: it reads, it parses, or it is the
\* one that was made and has found frames.
ReaderMoves ==
  \/ item' = NoItem
  \/ /\ item # NoItem
     /\ item'.reader \in {item.reader, Fill(item.reader), Parse(item.reader)}
  \/ item = NoItem /\ item'.reader = made /\ made.frames # 0
     /\ \E u \in Inputs : input[u].at = "creating"

\* What it makes of the one that an input makes.
MadeMoves(u) ==
  \/ made' = Reader(4)
  \/ /\ input[u].at = "creating"
     /\ \/ made' \in {made, Fill(made), Parse(made)}
        \/ made.version > 2 /\ made' = Reader(made.version - 1)

\* Nothing else happens to the readers.
LEMMA QuietReaders ==
  ASSUME Inv, UNCHANGED <<item, made>>,
         \A u \in Inputs : input'[u].at = "creating" => input[u].at = "creating"
  PROVE  ReaderMoves /\ \A u \in Inputs : input'[u].at = "creating" => MadeMoves(u)
BY DEF ReaderMoves, MadeMoves

\* An input that opens moves readers so,
LEMMA CreateMoves ==
  ASSUME Inv, NEW u \in Inputs, Open(u) \/ CreateReads(u) \/ CreateEnds(u)
  PROVE  ReaderMoves /\ \A v \in Inputs : input'[v].at = "creating" => MadeMoves(v)
<1>0. \A v \in Inputs : v # u /\ input[v].at = "creating" => ~Blocking(u)
  BY DEF Inv, CancelFits, Blocking
<1>1. CASE Open(u) /\ item # NoItem
  <2>1. /\ item'.reader = item.reader /\ made' = made
        /\ input' = [input EXCEPT ![u] = Opened]
    BY <1>1 DEF Open, Inv, ItemTypes
  <2>2. ASSUME NEW v \in Inputs, input'[v].at = "creating"  PROVE input[v].at = "creating"
    BY <2>1, <2>2, NewInput, Become DEF Inv, At
  <2> QED BY <1>1, <2>1, <2>2 DEF ReaderMoves, MadeMoves
<1>2. CASE Open(u) /\ item = NoItem
  BY <1>2 DEF Open, ReaderMoves, MadeMoves
<1>3. CASE CreateReads(u)
  <2>1. /\ made' \in {Fill(made), Parse(made)} /\ item' = item /\ input' = input
    BY <1>3 DEF CreateReads
  <2> QED BY <2>1 DEF ReaderMoves, MadeMoves
<1>4. CASE CreateEnds(u) /\ made.frames # 0
  <2>1. /\ \E j \in Jobs : item' = [refs |-> 1, reader |-> made, job |-> j]
        /\ item = NoItem
        /\ input' = [input EXCEPT ![u] = Opened] /\ input[u].at = "creating"
    BY <1>4 DEF CreateEnds, Inv, CancelFits
  <2>2. item'.reader = made
    BY <2>1
  <2>3. ASSUME NEW v \in Inputs, input'[v].at = "creating"  PROVE FALSE
    <3>1. /\ input'[u] = Opened /\ Opened.at = "measuring"
          /\ \A w \in Inputs : w # u => input'[w] = input[w]
      <4>1. Opened = [at |-> Opened.at, frames |-> Opened.frames, size |-> Opened.size]
            /\ Opened.at = "measuring" /\ Opened.at \in At
        BY NewInput DEF At
      <4> QED BY <2>1, <4>1, Become DEF Inv
    <3>2. v # u /\ input'[v] = input[v]
      BY <2>3, <3>1
    <3> QED BY <1>0, <2>1, <2>3, <3>2 DEF Blocking
  <2> QED BY <1>4, <2>1, <2>2, <2>3 DEF ReaderMoves
<1>5. CASE CreateEnds(u) /\ made.frames = 0 /\ made.version > 2
  <2>1. /\ item' = item /\ input' = input /\ made' = Reader(made.version - 1)
    BY <1>5 DEF CreateEnds
  <2> QED BY <1>5, <2>1 DEF ReaderMoves, MadeMoves
<1>6. CASE CreateEnds(u) /\ made.frames = 0 /\ ~(made.version > 2)
  <2>1. /\ item' = item /\ input' = [input EXCEPT ![u] = Closed] /\ input[u].at = "creating"
    BY <1>6 DEF CreateEnds
  <2>2. ASSUME NEW v \in Inputs, input'[v].at = "creating"  PROVE FALSE
    <3>1. v # u /\ input'[v] = input[v]
      BY <2>1, <2>2, Closes DEF Inv
    <3> QED BY <1>0, <2>1, <2>2, <3>1 DEF Blocking
  <2> QED BY <2>1, <2>2 DEF ReaderMoves
<1> QED BY <1>1, <1>2, <1>3, <1>4, <1>5, <1>6

\* one that cancels does,
LEMMA CancelMoves ==
  ASSUME Inv, NEW u \in Inputs, Cancel(u) \/ Cancelled(u) \/ CancelTimesOut(u)
  PROVE  ReaderMoves /\ \A v \in Inputs : input'[v].at = "creating" => MadeMoves(v)
<1>1. /\ made' = made /\ item # NoItem
      /\ item' = NoItem \/ item'.reader = item.reader
  BY DEF Cancel, Cancelled, CancelTimesOut, Removed, Inv, ItemTypes, CountFits, CancelFits,
         Holders, Holding
<1>2. ASSUME NEW v \in Inputs, input'[v].at = "creating"  PROVE input[v].at = "creating"
  <2>1. \/ input' = [input EXCEPT ![u] = Closed]
        \/ input' = [input EXCEPT ![u].at = "cancelling"]
    BY DEF Cancel, Cancelled, CancelTimesOut, Removed
  <2>2. CASE input' = [input EXCEPT ![u] = Closed]
    BY <1>2, <2>2, Closes DEF Inv
  <2>3. CASE input' = [input EXCEPT ![u].at = "cancelling"]
    BY <1>2, <2>3 DEF Inv, InputTypes
  <2> QED BY <2>1, <2>2, <2>3
<1> QED BY <1>1, <1>2 DEF ReaderMoves, MadeMoves

\* and so does every step.
LEMMA Moves ==
  ASSUME Inv, [Next]_vars
  PROVE  ReaderMoves /\ \A u \in Inputs : input'[u].at = "creating" => MadeMoves(u)
<1>1. CASE \/ \E key \in BOOLEAN, size \in Sizes : WriteVideo(key, size)
           \/ \E size \in Sizes : WriteAudio(size)
           \/ \E type \in {Video, Audio}, size \in Sizes : MuxerWrites(type, size)
           \/ CloseStore \/ ShowIndex \/ ShowMedia \/ UNCHANGED vars
  <2>1. UNCHANGED <<item, made, input>>
    BY <1>1 DEF Write, WriteVideo, WriteAudio, MuxerWrites, CloseStore, ShowIndex, ShowMedia, vars
  <2> QED BY <2>1, QuietReaders
<1>2. ASSUME NEW u \in Inputs, Open(u) \/ CreateReads(u) \/ CreateEnds(u)
      PROVE  ReaderMoves /\ \A v \in Inputs : input'[v].at = "creating" => MadeMoves(v)
  BY <1>2, CreateMoves
<1>3. ASSUME NEW u \in Inputs, Cancel(u) \/ Cancelled(u) \/ CancelTimesOut(u)
      PROVE  ReaderMoves /\ \A v \in Inputs : input'[v].at = "creating" => MadeMoves(v)
  BY <1>3, CancelMoves
<1>4. ASSUME NEW u \in Inputs, Sync(u) \/ Measure(u)
      PROVE  ReaderMoves /\ \A v \in Inputs : input'[v].at = "creating" => MadeMoves(v)
  <2>1. UNCHANGED <<item, made>>
    BY <1>4 DEF Sync, Measure
  <2>2. ASSUME NEW v \in Inputs, v # u  PROVE input'[v] = input[v]
    BY <1>4, <2>2 DEF Sync, Measure, Inv, InputTypes
  <2>3. input'[u].at # "creating"
    <3>1. CASE Sync(u)
      BY <3>1 DEF Sync, Inv, InputTypes
    <3>2. CASE Measure(u)
      <4> DEFINE x == input[u]
      <4>1. input'[u] = IF Calculate(item.reader, x.size) >= x.frames
                        THEN [x EXCEPT !.at = "open", !.frames = Calculate(item.reader, x.size)]
                        ELSE [x EXCEPT !.at = "shrunk"]
        BY <3>2 DEF Measure, Inv, InputTypes
      <4>2. x = [at |-> x.at, frames |-> x.frames, size |-> x.size]
        BY DEF Inv, InputTypes
      <4> HIDE DEF x
      <4>3. \A n : [x EXCEPT !.at = "open", !.frames = n].at = "open"
                  /\ [x EXCEPT !.at = "shrunk"].at = "shrunk"
        BY <4>2
      <4> QED BY <4>1, <4>3
    <3> QED BY <1>4, <3>1, <3>2
  <2> QED BY <2>1, <2>2, <2>3, QuietReaders
<1>5. CASE Work
  <2>1. PICK j \in Jobs : Job(j)
    BY <1>5 DEF Work
  <2>2. CASE JobReads(j) \/ JobParses(j)
    <3>1. UNCHANGED <<made, input>> /\ item # NoItem
      BY <2>2 DEF JobReads, JobParses, OfItem, Unchanged
    <3>2. item'.reader \in {item.reader, Fill(item.reader), Parse(item.reader)}
      BY <2>2, <3>1 DEF JobReads, JobParses, Inv, ItemTypes
    <3> QED BY <3>1, <3>2 DEF ReaderMoves, MadeMoves
  <2>3. CASE UNCHANGED <<item, made, input>>
    BY <2>3, QuietReaders
  <2> QED BY <2>1, <2>2, <2>3 DEF Job, JobStarts, JobRuns, JobDecides, JobGoesOn, JobChecked,
                                  JobWaits, Unchanged
<1> QED BY <1>1, <1>2, <1>3, <1>4, <1>5 DEF Next

\* More and more can be read.
SeenGrows == seen.index <= seen'.index /\ seen.media <= seen'.media

\* What can be read is written, and grows.
LEMMA SeenStep ==
  ASSUME StoreInv, SeenFits, [Next]_vars
  PROVE  SeenFits' /\ SeenGrows
<1>0. /\ StoreInv' /\ StoreGrows
      /\ seen = [index |-> seen.index, media |-> seen.media]
      /\ seen.index \in 0..Len(file) /\ seen.media \in 0..media
      /\ Len(file) \in Nat /\ Len(file') \in Nat /\ Len(file) <= Len(file')
      /\ media \in Nat /\ media' \in Nat /\ media <= media'
  BY StoreStep, StoreIs, StoreIsNext DEF SeenFits, IndexIs, StoreGrows, StoreInv, StoreTypes
<1>1. CASE seen' = seen
  BY <1>0, <1>1 DEF SeenFits, SeenGrows
<1>2. CASE ShowIndex
  <2>1. PICK n \in seen.index + 1..Len(file) : seen' = [seen EXCEPT !.index = n]
    BY <1>2 DEF ShowIndex
  <2>2. file' = file /\ media' = media
    BY <1>2 DEF ShowIndex, written
  <2>3. seen' = [index |-> n, media |-> seen.media] /\ seen'.index = n /\ seen'.media = seen.media
    BY <1>0, <2>1
  <2> QED BY <1>0, <2>2, <2>3 DEF SeenFits, SeenGrows
<1>3. CASE ShowMedia
  <2>1. PICK n \in seen.media + 1..media : seen' = [seen EXCEPT !.media = n]
    BY <1>3 DEF ShowMedia
  <2>2. file' = file /\ media' = media
    BY <1>3 DEF ShowMedia, written
  <2>3. seen' = [index |-> seen.index, media |-> n] /\ seen'.media = n /\ seen'.index = seen.index
    BY <1>0, <2>1
  <2> QED BY <1>0, <2>2, <2>3 DEF SeenFits, SeenGrows
<1>4. ShowIndex \/ ShowMedia \/ seen' = seen
  <2>1. ASSUME NEW u \in Inputs,
               Open(u) \/ CreateReads(u) \/ CreateEnds(u) \/ Cancel(u)
                 \/ Cancelled(u) \/ CancelTimesOut(u) \/ Sync(u) \/ Measure(u)
        PROVE  seen' = seen
    BY <2>1 DEF Open, CreateReads, CreateEnds, Cancel, Cancelled, CancelTimesOut, Sync, Measure
  <2>2. CASE \/ \E key \in BOOLEAN, size \in Sizes : WriteVideo(key, size)
             \/ \E size \in Sizes : WriteAudio(size)
             \/ \E type \in {Video, Audio}, size \in Sizes : MuxerWrites(type, size)
             \/ CloseStore \/ Work \/ UNCHANGED vars
    BY <2>2 DEF Write, WriteVideo, WriteAudio, MuxerWrites, CloseStore,
                Work, Job, JobStarts, JobRuns, JobReads, JobParses, JobDecides, JobGoesOn,
                JobChecked, JobWaits, Unchanged, vars
  <2> QED BY <2>1, <2>2 DEF Next
<1> QED BY <1>1, <1>2, <1>3, <1>4

\* A new reader has nothing.
LEMMA NewReader ==
  ASSUME StoreInv, SeenFits, NEW v \in 2..4, NEW r, r = Reader(v)
  PROVE  ReaderFits(r) \/ OtherFits(r)
<1>1. IndexIs
  BY StoreIs
<1>2. /\ r.version = v /\ r.state = "header" /\ r.position = 0 /\ r.buffer = <<>>
      /\ r.frames = 0 /\ r.eof = FALSE /\ DOMAIN r = ReaderFields
      /\ r.items = <<>> /\ r.offsets = <<>>
  BY DEF Reader, ReaderFields
<1>3. Len(r.buffer) = 0 /\ r.buffer \in Seq(Nat) /\ seen.index \in Nat
  BY <1>1, <1>2, EmptySeq DEF SeenFits, IndexIs
<1>4. Parsed(r) = 0
  <2>1. r.position - Len(r.buffer) = 0 - 0
    BY <1>2, <1>3
  <2> QED BY <2>1 DEF Parsed
<1>5. BufferFits(r)
  BY <1>2, <1>3 DEF BufferFits
<1>6. Found(r, 0)
  <2>1. DOMAIN r.items = {} /\ DOMAIN r.offsets = {}
    BY <1>2
  <2> QED BY <1>2, <2>1 DEF Found, Reach
<1>7. CASE v = setup.version
  <2>1. AtHeader(r)
    BY <1>2, <1>4, <1>5, <1>6, <1>7 DEF AtHeader
  <2> QED BY <1>1, <2>1, AtHeaderFits DEF IndexIs
<1>8. CASE v # setup.version
  BY <1>2, <1>4, <1>5, <1>8 DEF OtherFits
<1> QED BY <1>7, <1>8

\* What the readers have stays true.
LEMMA ReadersStep ==
  ASSUME Inv, StoreInv, SeenFits, ReadersFit, [Next]_vars
  PROVE  ReadersFit'
<1>0. /\ StoreInv' /\ StoreGrows /\ SeenFits' /\ SeenGrows
      /\ seen.index \in 0..Len(file) /\ seen'.index \in Nat /\ seen.index <= seen'.index
  <2>1. StoreInv' /\ StoreGrows /\ SeenFits' /\ SeenGrows
    BY StoreStep, SeenStep
  <2> QED BY <2>1, StoreIsNext DEF SeenFits, SeenGrows, IndexIs
<1>1. ASSUME NEW r, ReaderFits(r)  PROVE ReaderFits(r)'
  BY <1>0, <1>1, ReaderStays
<1>2. ASSUME NEW r, OtherFits(r)  PROVE OtherFits(r)'
  BY <1>0, <1>2, OtherStays
<1>3. ASSUME NEW q, item' # NoItem, q = item'.reader  PROVE ReaderFits(q) /\ q.frames # 0
  <2>1. CASE item # NoItem /\ q \in {item.reader, Fill(item.reader), Parse(item.reader)}
    <3>1. PICK r : r = item.reader
      OBVIOUS
    <3>2. ReaderFits(r) /\ r.frames # 0 /\ q \in {r, Fill(r), Parse(r)}
      BY <2>1, <3>1 DEF ReadersFit
    <3>3. CASE q = r
      BY <3>2, <3>3
    <3>4. CASE q = Fill(r)
      <4>1. ReaderFits(q)
        BY <1>0, <3>2, <3>4, FillKeeps
      <4>2. q.frames = r.frames
        BY <1>0, <3>2, <3>4, FillIs DEF ReaderFits
      <4> QED BY <3>2, <4>1, <4>2
    <3>5. CASE q = Parse(r)
      <4>1. Parses(r, q)
        BY <1>0, <3>2, <3>5, ParseFits
      <4>2. r.frames \in Nat
        BY <3>2, NotParsed
      <4>3. q.frames \in Nat
        BY <4>1, NotParsed DEF Parses
      <4> QED BY <3>2, <4>1, <4>2, <4>3 DEF Parses
    <3> QED BY <3>2, <3>3, <3>4, <3>5
  <2>2. CASE q = made /\ made.frames # 0 /\ \E u \in Inputs : input[u].at = "creating"
    BY <2>2 DEF ReadersFit, OtherFits
  <2> QED BY <1>3, <2>1, <2>2, Moves DEF ReaderMoves
<1>4. ASSUME NEW q, q = made', NEW u \in Inputs, input'[u].at = "creating"
      PROVE  ReaderFits(q) \/ OtherFits(q)
  <2>1. CASE q = Reader(4)
    <3>1. 4 \in 2..4
      OBVIOUS
    <3> QED BY <2>1, <3>1, NewReader
  <2>2. CASE input[u].at = "creating" /\ q \in {made, Fill(made), Parse(made)}
    <3>1. ReaderFits(made) \/ OtherFits(made)
      BY <2>2 DEF ReadersFit
    <3>2. CASE q = made
      BY <3>1, <3>2
    <3>3. CASE q = Fill(made)
      BY <1>0, <3>1, <3>3, FillKeeps
    <3>4. CASE q = Parse(made)
      BY <1>0, <3>1, <3>4, ParseFits, OtherParses DEF Parses
    <3> QED BY <2>2, <3>2, <3>3, <3>4
  <2>3. CASE input[u].at = "creating" /\ made.version > 2 /\ q = Reader(made.version - 1)
    <3>1. ReaderFits(made) \/ OtherFits(made)
      BY <2>3 DEF ReadersFit
    <3>2. made.version \in 2..4
      BY <3>1, StoreIs DEF ReaderFits, OtherFits, IndexIs
    <3>3. made.version - 1 \in 2..4
      BY <2>3, <3>2
    <3> QED BY <2>3, <3>3, NewReader
  <2> QED BY <1>4, <2>1, <2>2, <2>3, Moves DEF MadeMoves
<1>5. item' # NoItem => ReaderFits(item'.reader) /\ item'.reader.frames # 0
  BY <1>3
<1>6. \A u \in Inputs : input'[u].at = "creating" => ReaderFits(made') \/ OtherFits(made')
  BY <1>4
<1>7. item' # NoItem => ReaderFits(item.reader)' /\ item'.reader.frames # 0
  <2>1. PICK r : r = item'.reader
    OBVIOUS
  <2>2. ReaderFits(r) => ReaderFits(r)'
    BY <1>1
  <2> QED BY <1>5, <2>1, <2>2
<1>8. \A u \in Inputs : input'[u].at = "creating" => ReaderFits(made)' \/ OtherFits(made)'
  <2>1. PICK r : r = made'
    OBVIOUS
  <2>2. (ReaderFits(r) => ReaderFits(r)') /\ (OtherFits(r) => OtherFits(r)')
    BY <1>1, <1>2
  <2> QED BY <1>6, <2>1, <2>2
<1> QED BY <1>7, <1>8 DEF ReadersFit

-----------------------------------------------------------------------------
(* What the readers say is true.                                           *)

\* The packets that the reader is about, and what an item spans of them.
LEMMA ItemSpans ==
  ASSUME StoreInv
  PROVE  /\ InRow(Indexed, media, setup.direct) /\ Indexed \in Seq(PacketRecords)
         /\ Len(Indexed) \in Nat /\ setup.direct \in BOOLEAN
         /\ \A k \in 1..Len(Items) : Spans(Items[k], Indexed, setup.direct)
         /\ closed => Complete(Items, Indexed, media, setup.direct)
<1>d. setup.direct \in BOOLEAN
  BY SetupIs DEF StoreInv
<1>1. CASE Type = Video
  <2>1. Items = video.items /\ Indexed = packets[Video]
    BY <1>1 DEF Items, Indexed
  <2> QED BY <1>d, <2>1, LenProperties DEF StoreInv, StoreTypes, GeneratorsFit, GeneratorFits
<1>2. CASE Type # Video
  <2>1. Type = Audio
    BY <1>2, StoreIs DEF IndexIs, Type, Video, Audio
  <2>2. Items = audio.items /\ Indexed = packets[Audio]
    BY <1>2, <2>1 DEF Items, Indexed
  <2> QED BY <1>d, <2>2, LenProperties DEF StoreInv, StoreTypes, GeneratorsFit, GeneratorFits
<1> QED BY <1>1, <1>2

\* One packet that is written is behind the other, which is written too.
LEMMA PacketsFollow ==
  ASSUME StoreInv, NEW j \in 1..Len(Indexed), NEW k \in 1..Len(Indexed), j <= k,
         Indexed[k].at # Held
  PROVE  /\ Indexed[j].at # Held
         /\ Indexed[j].at \in Nat /\ Indexed[j].end \in Nat /\ Indexed[k].at \in Nat
         /\ Indexed[k].end \in Nat /\ Indexed[k].end <= media
         /\ Indexed[j].at <= Indexed[k].at /\ Indexed[j].end <= Indexed[k].end
         /\ j < k => Indexed[j].at < Indexed[k].at
<1>1. InRow(Indexed, media, setup.direct) /\ Len(Indexed) \in Nat /\ media \in Nat
  BY ItemSpans DEF StoreInv, StoreTypes
<1>2. CASE j = k
  <2>1. Lies(Indexed[k], media)
    BY <1>1 DEF InRow
  <2> QED BY <1>2, <2>1 DEF Lies
<1>3. CASE j < k
  <2>1. Indexed[j].at # Held /\ Indexed[j].end <= Indexed[k].at
    BY <1>1, <1>3 DEF InRow
  <2>2. Lies(Indexed[k], media) /\ Lies(Indexed[j], media)
    BY <1>1, <2>1 DEF InRow
  <2> QED BY <1>1, <2>1, <2>2 DEF Lies
<1> QED BY <1>2, <1>3

\* An item is true of the packets.
True(f, i) ==
  /\ f + i.frames <= Len(Indexed)
  /\ Indexed[f + 1].key /\ NotBehind(i.offset, Indexed[f + 1])
  /\ setup.direct =>
       /\ i.offset = Indexed[f + 1].at
       /\ \A k \in f + 1..f + i.frames :
            Indexed[k].at >= i.offset /\ Indexed[k].end <= i.offset + i.length

\* So are those of the index,
LEMMA ItemsAreTrue ==
  ASSUME StoreInv, NEW k \in 1..Len(Items)
  PROVE  True(Items[k].frame, Items[k])
<1> DEFINE i == Items[k]
           f == i.frame
           e == i.frame + i.frames
<1>1. /\ Items \in Seq(ItemRecords) /\ Tiles(Items)
  BY StoreIs DEF IndexIs
<1>2. f \in Nat /\ i.frames \in Nat \ {0} /\ i.offset \in Nat /\ i.length \in Nat \ {0}
  BY <1>1, ReachIs
<1>3. /\ e <= Len(Indexed) /\ Indexed[f + 1].key /\ NotBehind(i.offset, Indexed[f + 1])
      /\ setup.direct => /\ i.offset = Indexed[f + 1].at
                         /\ Indexed[e].end <= i.offset + i.length
                         /\ \A j \in 1..Len(Indexed) : Indexed[j].at # Held
      /\ Len(Indexed) \in Nat
  BY ItemSpans DEF Spans, InRow
<1>4. ASSUME setup.direct, NEW j \in f + 1..e
      PROVE  Indexed[j].at >= i.offset /\ Indexed[j].end <= i.offset + i.length
  <2> HIDE DEF i
  <2>0. e \in Nat
    BY <1>2
  <2> HIDE DEF f, e
  <2>1. /\ f + 1 \in 1..Len(Indexed) /\ j \in 1..Len(Indexed) /\ e \in 1..Len(Indexed)
        /\ f + 1 <= j /\ j <= e
    BY <1>2, <1>3, <2>0
  <2>2. Indexed[f + 1].at <= Indexed[j].at /\ Indexed[f + 1].at \in Nat /\ Indexed[j].at \in Nat
    BY <1>3, <1>4, <2>1, PacketsFollow
  <2>3. Indexed[j].end <= Indexed[e].end /\ Indexed[j].end \in Nat /\ Indexed[e].end \in Nat
    BY <1>3, <1>4, <2>1, PacketsFollow
  <2>4. i.offset + i.length \in Nat
    BY <1>2
  <2> QED BY <1>3, <1>4, <2>2, <2>3, <2>4
<1> QED BY <1>3, <1>4 DEF True

\* and what a reader has of them.
LEMMA ReaderIsTrue ==
  ASSUME StoreInv, NEW r, ReaderFits(r)
  PROVE  /\ \A f \in DOMAIN r.items : True(f, r.items[f])
         /\ r.state \in {"header", "item", "footer"}
<1>1. PICK n \in 0..Len(Items) : Found(r, n)
  BY DEF ReaderFits
<1>2. Len(Items) \in Nat
  BY StoreIs DEF IndexIs
<1>3. ASSUME NEW f \in DOMAIN r.items  PROVE True(f, r.items[f])
  <2>1. PICK k \in 1..n : f = Items[k].frame
    BY <1>1 DEF Found
  <2>2. r.items[f] = Items[k] /\ k \in 1..Len(Items)
    BY <1>1, <1>2, <2>1 DEF Found
  <2> QED BY <2>1, <2>2, ItemsAreTrue
<1> QED BY <1>3 DEF ReaderFits

\* What is left of the types: the reader nobody makes.
RestTypes ==
  made = NoReader \/ made.state \in {"header", "item", "footer", "error"}

\* Every step keeps that.
LEMMA RestStep ==
  ASSUME Inv, StoreInv, SeenFits, ReadersFit, RestTypes, [Next]_vars
  PROVE  RestTypes'
<1>1. made' \in {made, NoReader} \/ \E u \in Inputs : input'[u].at = "creating"
  <2>1. ASSUME NEW u \in Inputs, Open(u)
        PROVE  made' = made \/ input'[u].at = "creating"
    BY <2>1, NewInput DEF Open, Inv, InputTypes
  <2>2. ASSUME NEW u \in Inputs, CreateReads(u)  PROVE input'[u].at = "creating"
    BY <2>2 DEF CreateReads
  <2>3. ASSUME NEW u \in Inputs, CreateEnds(u)
        PROVE  made' = NoReader \/ input'[u].at = "creating"
    BY <2>3 DEF CreateEnds
  <2>4. ASSUME NEW u \in Inputs,
               Cancel(u) \/ Cancelled(u) \/ CancelTimesOut(u) \/ Sync(u) \/ Measure(u)
        PROVE  made' = made
    BY <2>4 DEF Cancel, Cancelled, CancelTimesOut, Sync, Measure
  <2>5. CASE \/ \E key \in BOOLEAN, size \in Sizes : WriteVideo(key, size)
             \/ \E size \in Sizes : WriteAudio(size)
             \/ \E type \in {Video, Audio}, size \in Sizes : MuxerWrites(type, size)
             \/ CloseStore \/ ShowIndex \/ ShowMedia \/ Work \/ UNCHANGED vars
    BY <2>5 DEF Write, WriteVideo, WriteAudio, MuxerWrites, CloseStore, ShowIndex, ShowMedia,
                Work, Job, JobStarts, JobRuns, JobReads, JobParses, JobDecides, JobGoesOn,
                JobChecked, JobWaits, Unchanged, vars
  <2> QED BY <2>1, <2>2, <2>3, <2>4, <2>5 DEF Next
<1>2. (\E u \in Inputs : input'[u].at = "creating") =>
        made'.state \in {"header", "item", "footer", "error"}
  BY ReadersStep DEF ReadersFit, ReaderFits, OtherFits
<1> QED BY <1>1, <1>2 DEF RestTypes

\* The types of the module follow.
LEMMA TypesFollow ==
  ASSUME Inv, StoreInv, SeenFits, ReadersFit, RestTypes
  PROVE  TypeOK
<1>1. video.flushed \in 0..Len(video.items) /\ audio.flushed \in 0..Len(audio.items)
  <2>1. Len(video.items) \in Nat /\ Len(audio.items) \in Nat
    BY GeneratorIs, LenProperties DEF StoreInv, StoreTypes
  <2> QED BY <2>1 DEF StoreInv, GeneratorsFit, GeneratorFits
<1>2. item = NoItem \/ item.reader.state \in {"header", "item", "footer", "error"}
  BY DEF ReadersFit, ReaderFits
<1>3. setup \in Setups /\ closed \in BOOLEAN /\ video.state \in {"header", "item", "footer"}
  BY DEF StoreInv, StoreTypes, GeneratorRecords
<1>4. /\ \A j \in Jobs : jobs[j] \in Current \cup {"none", "new", "waiting"}
      /\ \A u \in Inputs : input[u].at \in At
  BY DEF Inv, JobFits, InputTypes, Stages, Current
<1> QED BY <1>1, <1>2, <1>3, <1>4 DEF TypeOK, SeenFits, RestTypes, At

-----------------------------------------------------------------------------
(* The inputs.                                                             *)

\* Of the first n numbers, those of a set that has with every number all
\* smaller ones are the first l.
LEMMA Boundary ==
  ASSUME NEW n \in Nat, NEW S \in SUBSET (1..n),
         \A j, k \in 1..n : j < k /\ k \in S => j \in S
  PROVE  \E l \in 0..n : \A k \in 1..n : k \in S <=> k <= l
<1> DEFINE R == OpToRel(<, Nat)
           T == {k \in Nat \ {0} : k \notin S}
<1>1. IsWellFoundedOn(R, Nat)
  BY NatLessThanWellFounded
<1>2. T \subseteq Nat /\ n + 1 \in T
  OBVIOUS
<1>3. \A x \in Nat, y \in Nat : y < x => <<y, x>> \in R
  BY DEF OpToRel
<1>9. PICK z \in T : \A y \in T : ~(<<y, z>> \in R)
  <2> HIDE DEF R, T
  <2> QED BY <1>1, <1>2, WFMin
<1> HIDE DEF R
<1>4. z \in Nat \ {0} /\ z \notin S /\ \A y \in T : ~(y < z)
  BY <1>3, <1>9
<1>5. z <= n + 1
  BY <1>2, <1>4
<1>6. z - 1 \in 0..n
  BY <1>4, <1>5
<1>7. ASSUME NEW k \in 1..n  PROVE k \in S <=> k <= z - 1
  <2>1. k < z => k \in S
    BY <1>4
  <2>2. k >= z => k \notin S
    BY <1>4
  <2> QED BY <1>4, <2>1, <2>2
<1> QED BY <1>6, <1>7

\* What Largest finds.
LEMMA LargestIs ==
  ASSUME NEW S \in SUBSET Nat, NEW x \in S, \A y \in S : y <= x
  PROVE  Largest(S) = x
<1>1. \A z \in S : (\A y \in S : y <= z) => z = x
  OBVIOUS
<1> QED BY <1>1 DEF Largest

\* Of numbers up to n there is a largest one.
LEMMA LargestOf ==
  ASSUME NEW n \in Nat, NEW S \in SUBSET (1..n), S # {}, NEW l, l = Largest(S)
  PROVE  l \in S /\ \A y \in S : y <= l
<1> DEFINE D == {j \in 1..n : \E y \in S : j <= y}
<1>1. ASSUME NEW j \in 1..n, NEW k \in 1..n, j < k, k \in D  PROVE j \in D
  BY <1>1
<1>2. PICK m \in 0..n : \A k \in 1..n : k \in D <=> k <= m
  <2>1. D \in SUBSET (1..n)
    OBVIOUS
  <2> HIDE DEF D
  <2> QED BY <1>1, <2>1, Boundary
<1>3. \A y \in S : y \in 1..n /\ y <= m
  BY <1>2
<1>4. m \in S
  <2>1. m \in 1..n
    <3>1. PICK y \in S : y \in 1..n /\ y <= m
      BY <1>3
    <3> QED BY <3>1
  <2>2. PICK y \in S : m <= y
    BY <1>2, <2>1
  <2> QED BY <1>3, <2>1, <2>2
<1>5. S \in SUBSET Nat
  OBVIOUS
<1> HIDE DEF D
<1> QED BY <1>3, <1>4, <1>5, LargestIs

\* Where an item ends.
EndOf(i) == i.offset + i.length

\* What is put behind x ends later.
LEMMA SumIsLater ==
  ASSUME NEW x \in Nat, NEW y \in Nat \ {0}, NEW z, z = x + y  PROVE z \in Nat /\ x < z
OBVIOUS

\* The items follow each other in the media too.
LEMMA OffsetsFollow ==
  ASSUME NEW items \in Seq(ItemRecords), Tiles(items),
         NEW k \in 1..Len(items), NEW l \in 1..Len(items), k <= l
  PROVE  /\ items[k].offset \in Nat /\ EndOf(items[k]) \in Nat
         /\ items[l].offset \in Nat /\ EndOf(items[l]) \in Nat
         /\ items[k].frame \in Nat /\ items[l].frame \in Nat
         /\ items[k].offset < EndOf(items[k]) /\ items[l].offset < EndOf(items[l])
         /\ items[k].offset <= items[l].offset /\ EndOf(items[k]) <= EndOf(items[l])
         /\ items[k].frame <= items[l].frame
         /\ k < l => /\ EndOf(items[k]) <= items[l].offset /\ items[k].offset < items[l].offset
                     /\ items[k].frame < items[l].frame
<1>1. /\ items[k].offset \in Nat /\ items[k].length \in Nat \ {0} /\ items[k].frame \in Nat
      /\ items[l].offset \in Nat /\ items[l].length \in Nat \ {0} /\ items[l].frame \in Nat
      /\ items[k].frames \in Nat \ {0}
      /\ Len(items) \in Nat
  BY ReachIs, LenProperties
<1>2. CASE k = l
  BY <1>1, <1>2 DEF EndOf
<1>3. CASE k # l
  <2>1. k < l
    BY <1>1, <1>3
  <2>2. /\ items[k].frame + items[k].frames <= items[l].frame
        /\ items[k].offset + items[k].length <= items[l].offset
    BY <2>1 DEF Tiles
  <2>3. EndOf(items[k]) = items[k].offset + items[k].length
        /\ EndOf(items[l]) = items[l].offset + items[l].length
    BY DEF EndOf
  <2>4. EndOf(items[k]) \in Nat /\ EndOf(items[l]) \in Nat
        /\ items[k].offset < EndOf(items[k]) /\ items[l].offset < EndOf(items[l])
    BY <1>1, <2>3, SumIsLater
  <2>5. EndOf(items[k]) <= items[l].offset /\ items[k].frame < items[l].frame
    BY <1>1, <2>2, <2>3
  <2> QED BY <1>1, <2>4, <2>5
<1> QED BY <1>2, <1>3

\* The largest frame and the largest offset of the first m items.
LEMMA LastItem ==
  ASSUME NEW items \in Seq(ItemRecords), Tiles(items), NEW m \in 1..Len(items)
  PROVE  /\ Largest({items[k].frame : k \in 1..m}) = items[m].frame
         /\ Largest({items[k].offset : k \in 1..m}) = items[m].offset
<1>1. Len(items) \in Nat /\ m \in 1..m /\ \A k \in 1..m : k \in 1..Len(items) /\ k <= m
  BY LenProperties
<1>2. \A k \in 1..m : /\ items[k].frame \in Nat /\ items[k].offset \in Nat
                      /\ items[k].frame <= items[m].frame
                      /\ items[k].offset <= items[m].offset
  BY <1>1, OffsetsFollow
<1> DEFINE F == {items[k].frame : k \in 1..m}
           O == {items[k].offset : k \in 1..m}
<1>3. F \in SUBSET Nat /\ items[m].frame \in F /\ \A y \in F : y <= items[m].frame
  BY <1>1, <1>2
<1>4. O \in SUBSET Nat /\ items[m].offset \in O /\ \A y \in O : y <= items[m].offset
  BY <1>1, <1>2
<1> HIDE DEF F, O
<1>5. Largest(F) = items[m].frame /\ Largest(O) = items[m].offset
  BY <1>3, <1>4, LargestIs
<1> QED BY <1>5 DEF F, O

\* Of n items in s bytes, the first c are wholly there, which makes f frames.
Holds(items, n, s, c) ==
  /\ c \in 0..n /\ c > 0 => EndOf(items[c]) <= s
  /\ \A k \in c + 1..n : EndOf(items[k]) > s
Claims(items, f, n, s) == \E c \in 0..n : Holds(items, n, s, c) /\ f = Reach(items, c)

\* There is such a c,
LEMMA SomeHold ==
  ASSUME NEW items \in Seq(ItemRecords), Tiles(items), NEW n \in 0..Len(items), NEW s \in Nat
  PROVE  \E c \in 0..n : Holds(items, n, s, c)
<1>1. Len(items) \in Nat /\ n \in Nat /\ \A k \in 1..n : k \in 1..Len(items)
  BY LenProperties
<1> DEFINE S == {k \in 1..n : EndOf(items[k]) <= s}
<1>2. ASSUME NEW j \in 1..n, NEW k \in 1..n, j < k, k \in S  PROVE j \in S
  <2>1. j \in 1..Len(items) /\ k \in 1..Len(items) /\ j <= k
    BY <1>1, <1>2
  <2>2. /\ EndOf(items[j]) \in Nat /\ EndOf(items[k]) \in Nat
        /\ EndOf(items[j]) <= EndOf(items[k])
    BY <2>1, OffsetsFollow
  <2> QED BY <1>2, <2>2
<1>3. PICK c \in 0..n : \A k \in 1..n : k \in S <=> k <= c
  <2>1. S \in SUBSET (1..n)
    OBVIOUS
  <2> HIDE DEF S
  <2> QED BY <1>1, <1>2, <2>1, Boundary
<1>4. c > 0 => EndOf(items[c]) <= s
  <2>1. c > 0 => c \in 1..n /\ c <= c
    BY <1>1
  <2> QED BY <1>3, <2>1
<1>5. ASSUME NEW k \in c + 1..n  PROVE EndOf(items[k]) > s
  <2>1. k \in 1..n /\ ~(k <= c) /\ k \in 1..Len(items) /\ k <= k
    BY <1>1
  <2>2. ~(EndOf(items[k]) <= s) /\ EndOf(items[k]) \in Nat
    BY <1>3, <2>1, OffsetsFollow
  <2> QED BY <2>2
<1> QED BY <1>3, <1>4, <1>5 DEF Holds

\* More items and more bytes hold no less.
LEMMA HoldMore ==
  ASSUME NEW items \in Seq(ItemRecords), Tiles(items), NEW m \in 0..Len(items),
         NEW n \in 0..m, NEW s \in Nat, NEW t \in Nat, s <= t,
         NEW f, Claims(items, f, n, s), NEW g, Claims(items, g, m, t)
  PROVE  f \in Nat /\ g \in Nat /\ f <= g
<1>1. Len(items) \in Nat /\ m \in Nat /\ n \in 0..Len(items)
  BY LenProperties
<1>2. PICK c \in 0..n : Holds(items, n, s, c) /\ f = Reach(items, c)
  BY DEF Claims
<1>3. PICK d \in 0..m : Holds(items, m, t, d) /\ g = Reach(items, d)
  BY DEF Claims
<1>4. c \in 0..Len(items) /\ d \in 0..Len(items)
  BY <1>1
<1>5. f \in Nat /\ g \in Nat
  BY <1>2, <1>3, <1>4, ReachIs
<1>6. c <= d
  <2>1. ASSUME ~(c <= d)  PROVE FALSE
    <3>1. c > 0 /\ c \in d + 1..m /\ c \in 1..Len(items) /\ c <= c
      BY <1>1, <1>4, <2>1
    <3>2. EndOf(items[c]) <= s /\ EndOf(items[c]) > t /\ EndOf(items[c]) \in Nat
      BY <1>2, <1>3, <3>1, OffsetsFollow DEF Holds
    <3> QED BY <3>2
  <2> QED BY <2>1
<1>7. CASE c = 0
  BY <1>2, <1>5, <1>7, ReachIs
<1>8. CASE c # 0
  <2>1. c \in 1..Len(items)
    BY <1>4, <1>8
  <2>2. Reach(items, c) <= Reach(items, d)
    BY <1>4, <1>6, <2>1, TilesFollow
  <2> QED BY <1>2, <1>3, <1>5, <2>2
<1> QED BY <1>5, <1>7, <1>8

\* What the entries before s bytes make, when l of n items begin before.
LEMMA CalculateLow ==
  ASSUME StoreInv, NEW r, NEW n \in 1..Len(Items), Found(r, n), NEW s \in Nat,
         NEW l \in 0..n, \A k \in 1..n : Items[k].offset < s <=> k <= l,
         NEW c \in 0..n, Holds(Items, n, s, c), ~(r.eof /\ s >= Bytes(r))
  PROVE  Calculate(r, s) = Reach(Items, c)
<1>1. /\ Items \in Seq(ItemRecords) /\ Tiles(Items) /\ Len(Items) \in Nat
      /\ \A k \in 1..n : k \in 1..Len(Items)
  BY StoreIs DEF IndexIs
<1>2. /\ DOMAIN r.offsets = {Items[k].offset : k \in 1..n}
      /\ \A k \in 1..n : r.offsets[Items[k].offset] = Items[k]
  BY DEF Found
<1> DEFINE low == {o \in DOMAIN r.offsets : o < s}
           prev == Largest(low)
           whole == IF prev + r.offsets[prev].length > s THEN low \ {prev} ELSE low
           last == r.offsets[Largest(whole)]
<1>3. Calculate(r, s) = IF low = {} \/ whole = {} THEN 0 ELSE last.frame + last.frames
  BY DEF Calculate
<1>4. low = {Items[k].offset : k \in 1..l}
  <2>1. \A k \in 1..l : k \in 1..n
    OBVIOUS
  <2>2. ASSUME NEW o \in low  PROVE o \in {Items[k].offset : k \in 1..l}
    <3>1. PICK k \in 1..n : o = Items[k].offset
      BY <1>2
    <3>2. k <= l
      BY <3>1
    <3> QED BY <3>1, <3>2
  <2>3. ASSUME NEW k \in 1..l  PROVE Items[k].offset \in low
    BY <1>2, <2>1
  <2> QED BY <2>2, <2>3
<1>5. CASE l = 0
  <2>1. low = {}
    BY <1>4, <1>5
  <2>2. Calculate(r, s) = 0
    <3> HIDE DEF low, whole, last
    <3> QED BY <1>3, <2>1
  <2>3. c = 0
    <3>1. ASSUME c # 0  PROVE FALSE
      <4>1. c \in 1..n /\ c <= c
        BY <3>1
      <4>2. EndOf(Items[c]) <= s /\ ~(Items[c].offset < s)
        BY <1>5, <4>1 DEF Holds
      <4>3. Items[c].offset < EndOf(Items[c]) /\ Items[c].offset \in Nat /\ EndOf(Items[c]) \in Nat
        BY <1>1, <4>1, OffsetsFollow
      <4> QED BY <4>2, <4>3
    <3> QED BY <3>1
  <2> QED BY <1>1, <2>2, <2>3, ReachIs
<1>6. CASE l # 0
  <2>1. l \in 1..Len(Items) /\ l \in 1..n /\ l <= l
    BY <1>1, <1>6
  <2>2. prev = Items[l].offset
    BY <1>1, <1>4, <2>1, LastItem
  <2>3. low # {} /\ r.offsets[prev] = Items[l]
    BY <1>2, <1>4, <2>1, <2>2
  <2>4. prev + r.offsets[prev].length = EndOf(Items[l])
    BY <2>2, <2>3 DEF EndOf
  <2>5. /\ EndOf(Items[l]) \in Nat /\ Items[l].offset \in Nat
    BY <1>1, <2>1, OffsetsFollow
  <2>6. c <= l
    <3>1. ASSUME ~(c <= l)  PROVE FALSE
      <4>1. c \in 1..n /\ c <= c /\ c > 0
        BY <2>1, <3>1
      <4>2. EndOf(Items[c]) <= s /\ ~(Items[c].offset < s)
        BY <3>1, <4>1 DEF Holds
      <4>3. Items[c].offset < EndOf(Items[c]) /\ Items[c].offset \in Nat /\ EndOf(Items[c]) \in Nat
        BY <1>1, <4>1, OffsetsFollow
      <4> QED BY <4>2, <4>3
    <3> QED BY <3>1
  <2>7. CASE ~(EndOf(Items[l]) > s)
    <3>1. c = l
      <4>1. c < l => l \in c + 1..n
        BY <2>1
      <4> QED BY <2>6, <2>7, <4>1 DEF Holds
    <3>2. whole = low
      BY <2>4, <2>7
    <3>3. last = Items[l]
      BY <2>3, <3>2
    <3> HIDE DEF whole, low, last
    <3>4. Calculate(r, s) = Items[l].frame + Items[l].frames
      BY <1>3, <2>3, <3>2, <3>3
    <3> QED BY <1>1, <2>1, <3>1, <3>4, ReachIs
  <2>8. CASE EndOf(Items[l]) > s
    <3>1. PICK m : m = l - 1
      OBVIOUS
    <3>2. m \in 0..n /\ m < l /\ m + 1 = l
      BY <2>1, <3>1
    <3>3. whole = low \ {prev}
      BY <2>4, <2>8
    <3>4. whole = {Items[k].offset : k \in 1..m}
      <4>1. ASSUME NEW k \in 1..m  PROVE Items[k].offset # prev /\ k \in 1..l
        <5>1. k \in 1..Len(Items) /\ k < l /\ k <= l
          BY <2>1, <3>2
        <5> QED BY <1>1, <2>1, <2>2, <5>1, OffsetsFollow
      <4>2. ASSUME NEW k \in 1..l  PROVE k = l \/ k \in 1..m
        BY <3>2
      <4> QED BY <1>4, <2>2, <3>3, <4>1, <4>2
    <3>5. c = m
      <4>1. c # l
        <5>1. c > 0 => EndOf(Items[c]) <= s
          BY DEF Holds
        <5> QED BY <2>1, <2>5, <2>8, <5>1
      <4>2. c <= m
        BY <2>6, <3>2, <4>1
      <4>3. ASSUME c < m  PROVE FALSE
        <5>1. m \in c + 1..n /\ m \in 1..Len(Items) /\ m <= l
          BY <1>1, <3>2, <4>3
        <5>2. EndOf(Items[m]) > s
          BY <5>1 DEF Holds
        <5>3. EndOf(Items[m]) <= Items[l].offset /\ EndOf(Items[m]) \in Nat
          BY <1>1, <2>1, <3>2, <5>1, OffsetsFollow
        <5>4. Items[l].offset < s
          BY <2>1
        <5> QED BY <2>5, <5>2, <5>3, <5>4
      <4> QED BY <3>2, <4>2, <4>3
    <3>6. CASE m = 0
      <4>1. whole = {}
        <5>1. \A k \in 1..m : FALSE
          BY <3>6
        <5> HIDE DEF whole
        <5> QED BY <3>4, <5>1
      <4> HIDE DEF whole, low, last
      <4>2. Calculate(r, s) = 0
        BY <1>3, <4>1
      <4> QED BY <1>1, <3>5, <3>6, <4>2, ReachIs
    <3>7. CASE m # 0
      <4>1. m \in 1..Len(Items) /\ m \in 1..n /\ m \in 1..m
        BY <1>1, <3>2, <3>7
      <4>2. Largest(whole) = Items[m].offset /\ whole # {}
        BY <1>1, <3>4, <4>1, LastItem
      <4>3. last = Items[m]
        BY <1>2, <4>1, <4>2
      <4> HIDE DEF whole, low, last
      <4>4. Calculate(r, s) = Items[m].frame + Items[m].frames
        BY <1>3, <2>3, <4>2, <4>3
      <4> QED BY <1>1, <3>5, <4>1, <4>4, ReachIs
    <3> QED BY <3>6, <3>7
  <2> QED BY <2>7, <2>8
<1> QED BY <1>5, <1>6

\* Calculate counts the frames of the items that are wholly there.
LEMMA CalculateIs ==
  ASSUME StoreInv, NEW r, NEW n \in 1..Len(Items), Found(r, n), NEW s \in Nat
  PROVE  Claims(Items, Calculate(r, s), n, s)
<1>1. /\ Items \in Seq(ItemRecords) /\ Tiles(Items) /\ Len(Items) \in Nat
      /\ n \in 0..Len(Items) /\ n \in Nat
      /\ \A k \in 1..n : k \in 1..Len(Items)
  BY StoreIs DEF IndexIs
<1>2. PICK c \in 0..n : Holds(Items, n, s, c)
  BY <1>1, SomeHold
<1>3. CASE r.eof /\ s >= Bytes(r)
  <2>1. Bytes(r) = EndOf(Items[n])
    <3>1. /\ DOMAIN r.items = {Items[k].frame : k \in 1..n}
          /\ r.items[Items[n].frame] = Items[n]
      <4>1. n \in 1..n
        BY <1>1
      <4> QED BY <4>1 DEF Found
    <3>2. Largest(DOMAIN r.items) = Items[n].frame
      BY <1>1, <3>1, LastItem
    <3> QED BY <3>1, <3>2 DEF Bytes, EndOf
  <2>2. c = n
    <3>1. c < n => n \in c + 1..n
      BY <1>1
    <3>2. n \in 1..n /\ n <= n
      BY <1>1
    <3>3. EndOf(Items[n]) \in Nat
      BY <1>1, <3>2, OffsetsFollow
    <3>4. ~(EndOf(Items[n]) > s)
      BY <1>3, <2>1, <3>3
    <3> QED BY <1>2, <3>1, <3>4 DEF Holds
  <2>3. Calculate(r, s) = Reach(Items, n)
    BY <1>3 DEF Calculate, Found
  <2> QED BY <1>2, <2>2, <2>3 DEF Claims
<1>4. CASE ~(r.eof /\ s >= Bytes(r))
  <2> DEFINE S == {k \in 1..n : Items[k].offset < s}
  <2>1. ASSUME NEW j \in 1..n, NEW k \in 1..n, j < k, k \in S  PROVE j \in S
    <3>1. j \in 1..Len(Items) /\ k \in 1..Len(Items) /\ j <= k
      BY <1>1, <2>1
    <3>2. /\ Items[j].offset \in Nat /\ Items[k].offset \in Nat
          /\ Items[j].offset <= Items[k].offset
      BY <1>1, <3>1, OffsetsFollow
    <3> QED BY <2>1, <3>2
  <2>2. PICK l \in 0..n : \A k \in 1..n : k \in S <=> k <= l
    <3>1. S \in SUBSET (1..n)
      OBVIOUS
    <3> HIDE DEF S
    <3> QED BY <1>1, <2>1, <3>1, Boundary
  <2>3. \A k \in 1..n : Items[k].offset < s <=> k <= l
    BY <2>2
  <2>4. Calculate(r, s) = Reach(Items, c)
    BY <1>2, <1>4, <2>3, CalculateLow
  <2> QED BY <1>2, <2>4 DEF Claims
<1> QED BY <1>3, <1>4

\* A reader that has frames has items.
LEMMA HasItems ==
  ASSUME StoreInv, NEW r, ReaderFits(r), r.frames # 0
  PROVE  \E n \in 1..Len(Items) : Found(r, n)
<1>1. PICK n \in 0..Len(Items) : Found(r, n)
  BY DEF ReaderFits
<1>2. n # 0
  BY <1>1 DEF Found, Reach
<1>3. n \in 1..Len(Items)
  BY <1>2, StoreIs DEF IndexIs
<1> QED BY <1>1, <1>3

\* What a reader makes of more bytes, when it has read more of more items.
CalculateGrows(r, s, q, t) ==
  Calculate(r, s) \in Nat /\ Calculate(q, t) \in Nat /\ Calculate(r, s) <= Calculate(q, t)

\* The readers of this state, as they appear in the next.
Counted(r, s) ==
  ReaderFits(r) /\ r.frames # 0 /\ s \in Nat =>
    \E n \in 1..Len(Items) : Found(r, n) /\ Claims(Items, Calculate(r, s), n, s)

\* Calculate is right of every reader that is,
LEMMA CountedIs == StoreInv => \A r, s : Counted(r, s)
<1> SUFFICES ASSUME StoreInv, NEW r, NEW s PROVE Counted(r, s)
  OBVIOUS
<1>1. ASSUME ReaderFits(r), r.frames # 0, s \in Nat
      PROVE  \E n \in 1..Len(Items) : Found(r, n) /\ Claims(Items, Calculate(r, s), n, s)
  BY <1>1, HasItems, CalculateIs
<1> QED BY <1>1 DEF Counted

\* also after a step.
LEMMA CountedNext == StoreInv' => (\A r, s : Counted(r, s))'
BY CountedIs, PTL

\* It claims no less.
LEMMA ClaimsGrow ==
  ASSUME StoreInv, StoreInv', StoreGrows,
         NEW r, ReaderFits(r), r.frames # 0, NEW q, ReaderFits(q)', q.frames # 0,
         r.frames <= q.frames, NEW s \in Nat, NEW t \in Nat, s <= t
  PROVE  CalculateGrows(r, s, q, t)
<1>1. /\ Items \in Seq(ItemRecords) /\ Tiles(Items) /\ Len(Items) \in Nat
      /\ Items' \in Seq(ItemRecords) /\ Tiles(Items') /\ Len(Items') \in Nat
      /\ Len(Items) <= Len(Items') /\ \A k \in 1..Len(Items) : Items'[k] = Items[k]
  BY StoreIs, StoreIsNext DEF IndexIs, StoreGrows
<1>2. PICK n \in 1..Len(Items) : Found(r, n) /\ Claims(Items, Calculate(r, s), n, s)
  BY CountedIs DEF Counted
<1>3. PICK m \in 1..Len(Items') : Found(q, m)' /\ Claims(Items', Calculate(q, t), m, t)
  <2>1. Counted(q, t)'
    BY CountedNext
  <2> QED BY <2>1 DEF Counted
<1>4. \A c \in 0..n : Reach(Items', c) = Reach(Items, c)
  <2>1. ASSUME NEW c \in 0..n  PROVE Reach(Items', c) = Reach(Items, c)
    <3>1. c = 0 \/ c \in 1..Len(Items)
      BY <1>1
    <3> QED BY <1>1, <3>1 DEF Reach
  <2> QED BY <2>1
<1>5. n \in 1..Len(Items') /\ m \in 0..Len(Items') /\ n \in 0..Len(Items')
  BY <1>1
<1>6. n <= m
  <2>1. ASSUME n > m  PROVE FALSE
    <3>1. Items'[n].frame >= Reach(Items', m)
      BY <1>1, <1>5, <2>1, TilesFollow
    <3>2. Items'[n].frame < Reach(Items', n) /\ Items'[n].frame \in Nat
          /\ Reach(Items', n) \in Nat /\ Reach(Items', m) \in Nat
      BY <1>1, <1>5, ReachIs
    <3>3. r.frames = Reach(Items', n) /\ q.frames = Reach(Items', m)
      BY <1>2, <1>3, <1>4, <1>1 DEF Found
    <3> QED BY <3>1, <3>2, <3>3
  <2> QED BY <1>1, <1>5, <2>1
<1>7. Claims(Items', Calculate(r, s), n, s)
  <2>1. PICK c \in 0..n : Holds(Items, n, s, c) /\ Calculate(r, s) = Reach(Items, c)
    BY <1>2 DEF Claims
  <2>2. Holds(Items', n, s, c)
    <3>1. \A k \in 1..n : Items'[k] = Items[k]
      BY <1>1
    <3>2. c > 0 => c \in 1..n
      OBVIOUS
    <3>3. \A k \in c + 1..n : k \in 1..n
      OBVIOUS
    <3> QED BY <2>1, <3>1, <3>2, <3>3 DEF Holds
  <2> QED BY <1>4, <2>1, <2>2 DEF Claims
<1>8. n \in 0..m
  BY <1>5, <1>6
<1> DEFINE f == Calculate(r, s)
           g == Calculate(q, t)
<1>9. f \in Nat /\ g \in Nat /\ f <= g
  <2>1. Claims(Items', f, n, s) /\ Claims(Items', g, m, t)
    BY <1>3, <1>7
  <2> HIDE DEF f, g
  <2> QED BY <1>1, <1>5, <1>8, <2>1, HoldMore
<1> QED BY <1>9 DEF CalculateGrows

\* The reader of an item finds more and more.
LEMMA ReaderGrows ==
  ASSUME Inv, StoreInv, SeenFits, ReadersFit, [Next]_vars, item # NoItem, item' # NoItem,
         NEW r, r = item.reader, NEW q, q = item'.reader
  PROVE  /\ ReaderFits(r) /\ r.frames # 0 /\ ReaderFits(q)' /\ q.frames # 0
         /\ r.frames <= q.frames
<1>1. ReaderFits(r) /\ r.frames # 0 /\ r.frames \in Nat /\ seen.index \in 0..Len(file)
  BY NotParsed DEF ReadersFit, SeenFits
<1>2. ReaderFits(q)' /\ q.frames # 0
  BY ReadersStep DEF ReadersFit
<1>3. r.frames <= q.frames
  <2>1. q = r \/ q = Fill(r) \/ q = Parse(r)
    BY Moves DEF ReaderMoves
  <2>2. CASE q = r
    <3>1. r.frames <= r.frames
      BY <1>1
    <3> QED BY <2>2, <3>1
  <2>3. CASE q = Fill(r)
    <3>1. q.frames = r.frames
      BY <1>1, <2>3, FillIs DEF ReaderFits
    <3>2. r.frames <= r.frames
      BY <1>1
    <3> QED BY <3>1, <3>2
  <2>4. CASE q = Parse(r)
    BY <1>1, <2>4, ParseFits DEF Parses
  <2> QED BY <2>1, <2>2, <2>3, <2>4
<1> QED BY <1>1, <1>2, <1>3

\* What becomes of an input: it has nothing, opens, is as it was, waits in
\* cancel, asks for the size, or takes what the index makes of that.
InputMoves(u) ==
  \/ input'[u].at \in {"closed", "creating"} /\ input'[u].frames = 0 /\ input'[u].size = 0
  \/ input'[u].at = "measuring" /\ input'[u].frames = 0 /\ input'[u].size = seen.media
  \/ input'[u] = input[u]
  \/ /\ input[u].at \in {"open", "shrunk"} /\ input'[u].at = "cancelling"
     /\ input'[u].frames = input[u].frames /\ input'[u].size = input[u].size
  \/ /\ input[u].at = "open" /\ input'[u].at = "measuring"
     /\ input'[u].frames = input[u].frames /\ input'[u].size = seen.media
  \/ /\ input[u].at = "measuring" /\ item' = item /\ input'[u].size = input[u].size
     /\ IF Calculate(item.reader, input[u].size) >= input[u].frames
        THEN /\ input'[u].at = "open"
             /\ input'[u].frames = Calculate(item.reader, input[u].size)
        ELSE input'[u].at = "shrunk"

\* Nothing else becomes of an input.
LEMMA InputBecomes ==
  ASSUME Inv, [Next]_vars, NEW v \in Inputs
  PROVE  InputMoves(v)
<1>0. /\ Opened.at = "measuring" /\ Opened.frames = 0 /\ Opened.size = seen.media
      /\ Opened = [at |-> Opened.at, frames |-> Opened.frames, size |-> Opened.size]
      /\ Closed.at = "closed" /\ Closed.frames = 0 /\ Closed.size = 0
      /\ {"measuring"} \subseteq At
  BY NewInput DEF At
<1>1. CASE UNCHANGED input
  BY <1>1 DEF InputMoves
<1>2. ASSUME NEW u \in Inputs, NEW new, input' = [input EXCEPT ![u] = new]
      PROVE  input'[u] = new /\ \A w \in Inputs : w # u => input'[w] = input[w]
  BY <1>2 DEF Inv, InputTypes
<1>3. ASSUME NEW u \in Inputs, input' = [input EXCEPT ![u] = Closed]  PROVE InputMoves(v)
  <2>1. input'[v] = Closed \/ input'[v] = input[v]
    BY <1>2, <1>3
  <2> QED BY <1>0, <2>1 DEF InputMoves
<1>4. ASSUME NEW u \in Inputs, input' = [input EXCEPT ![u] = Opened]  PROVE InputMoves(v)
  <2>1. input'[v] = Opened \/ input'[v] = input[v]
    BY <1>2, <1>4
  <2> QED BY <1>0, <2>1 DEF InputMoves
<1>5. ASSUME NEW u \in Inputs, Open(u)  PROVE InputMoves(v)
  <2>1. CASE item # NoItem
    BY <1>4, <1>5, <2>1 DEF Open
  <2>2. CASE item = NoItem
    <3>1. PICK new : new = [Closed EXCEPT !.at = "creating"]
      OBVIOUS
    <3>2. new.at = "creating" /\ new.frames = 0 /\ new.size = 0
      BY <3>1, NewInput
    <3>3. input' = [input EXCEPT ![u] = new]
      BY <1>5, <2>2, <3>1 DEF Open
    <3>4. input'[v] = new \/ input'[v] = input[v]
      BY <1>2, <3>3
    <3> QED BY <3>2, <3>4 DEF InputMoves
  <2> QED BY <2>1, <2>2
<1>6. ASSUME NEW u \in Inputs, CreateEnds(u)  PROVE InputMoves(v)
  BY <1>1, <1>3, <1>4, <1>6 DEF CreateEnds
<1>7. ASSUME NEW u \in Inputs, Cancel(u)  PROVE InputMoves(v)
  <2>1. CASE input' = [input EXCEPT ![u] = Closed]
    BY <1>3, <2>1
  <2>2. CASE input' = [input EXCEPT ![u].at = "cancelling"]
    <3>1. PICK new : new = [input[u] EXCEPT !.at = "cancelling"]
      OBVIOUS
    <3>2. new.at = "cancelling" /\ new.frames = input[u].frames /\ new.size = input[u].size
      BY <3>1 DEF Inv, InputTypes
    <3>3. input' = [input EXCEPT ![u] = new]
      BY <2>2, <3>1
    <3>4. (v = u /\ input'[v] = new) \/ input'[v] = input[v]
      BY <1>2, <3>3
    <3> QED BY <1>7, <3>2, <3>4 DEF InputMoves, Cancel
  <2> QED BY <1>7, <2>1, <2>2 DEF Cancel, Removed
<1>8. ASSUME NEW u \in Inputs, Cancelled(u) \/ CancelTimesOut(u)  PROVE InputMoves(v)
  BY <1>3, <1>8 DEF Cancelled, CancelTimesOut, Removed
<1>9. ASSUME NEW u \in Inputs, Sync(u)  PROVE InputMoves(v)
  <2>1. PICK new : new = [input[u] EXCEPT !.at = "measuring", !.size = seen.media]
    OBVIOUS
  <2>2. new.at = "measuring" /\ new.frames = input[u].frames /\ new.size = seen.media
    <3>1. input[u] = [at |-> input[u].at, frames |-> input[u].frames, size |-> input[u].size]
      BY DEF Inv, InputTypes
    <3>2. new = [at |-> "measuring", frames |-> input[u].frames, size |-> seen.media]
      BY <2>1, <3>1, FieldsSet
    <3> QED BY <3>2
  <2>3. input' = [input EXCEPT ![u] = new]
    BY <1>9, <2>1 DEF Sync, Inv, InputTypes
  <2>4. (v = u /\ input'[v] = new) \/ input'[v] = input[v]
    BY <1>2, <2>3
  <2> QED BY <1>9, <2>2, <2>4 DEF InputMoves, Sync
<1>10. ASSUME NEW u \in Inputs, Measure(u)  PROVE InputMoves(v)
  <2> DEFINE length == Calculate(item.reader, input[u].size)
             opened == [input[u] EXCEPT !.at = "open", !.frames = length]
             shrunk == [input[u] EXCEPT !.at = "shrunk"]
  <2>1. PICK new : new = IF length >= input[u].frames THEN opened ELSE shrunk
    OBVIOUS
  <2>2. input[u] = [at |-> input[u].at, frames |-> input[u].frames, size |-> input[u].size]
    BY DEF Inv, InputTypes
  <2>3. input' = [input EXCEPT ![u] = new]
    BY <1>10, <2>1 DEF Measure
  <2> HIDE DEF length
  <2>4. /\ opened = [at |-> "open", frames |-> length, size |-> input[u].size]
        /\ shrunk = [at |-> "shrunk", frames |-> input[u].frames, size |-> input[u].size]
    BY <2>2, FieldsSet
  <2>5. /\ new.size = input[u].size
        /\ IF length >= input[u].frames THEN new.at = "open" /\ new.frames = length
                                        ELSE new.at = "shrunk"
    BY <2>1, <2>4
  <2>6. (v = u /\ input'[v] = new) \/ input'[v] = input[v]
    BY <1>2, <2>3
  <2>7. input[u].at = "measuring" /\ item' = item
    BY <1>10 DEF Measure
  <2> QED BY <2>5, <2>6, <2>7 DEF InputMoves, length
<1>11. CASE \/ \E key \in BOOLEAN, size \in Sizes : WriteVideo(key, size)
            \/ \E size \in Sizes : WriteAudio(size)
            \/ \E type \in {Video, Audio}, size \in Sizes : MuxerWrites(type, size)
            \/ \E u \in Inputs : CreateReads(u)
            \/ CloseStore \/ ShowIndex \/ ShowMedia \/ Work \/ UNCHANGED vars
  BY <1>1, <1>11
  DEF Write, WriteVideo, WriteAudio, MuxerWrites, CloseStore, ShowIndex, ShowMedia, CreateReads,
      Work, Job, JobStarts, JobRuns, JobReads, JobParses, JobDecides, JobGoesOn,
      JobChecked, JobWaits, Unchanged, vars
<1> QED BY <1>5, <1>6, <1>7, <1>8, <1>9, <1>10, <1>11 DEF Next

\* There is an item for whoever holds it or waits in cancel.
Kept == \A u \in Inputs : input[u].at \notin {"closed", "creating"} => item # NoItem

\* So it is, and stays.
LEMMA HeldIsKept == Inv => Kept
BY DEF Inv, InputTypes, CountFits, CancelFits, Holders, Holding, At, Kept

\* The same after a step.
LEMMA KeptNext == Inv' => Kept'
BY HeldIsKept, PTL

\* What the inputs claim stays within what the index makes of their media.
LEMMA InputsStep ==
  ASSUME Inv, StoreInv, SeenFits, ReadersFit, InputsFit, [Next]_vars
  PROVE  InputsFit'
<1>0. /\ StoreInv' /\ StoreGrows /\ Inv' /\ Kept /\ Kept'
      /\ seen.media \in Nat /\ seen'.media \in Nat /\ seen.media <= seen'.media
  <2>1. StoreInv' /\ StoreGrows /\ SeenFits' /\ SeenGrows
    BY StoreStep, SeenStep
  <2>2. media \in Nat /\ media' \in Nat
    BY <2>1 DEF StoreInv, StoreTypes
  <2>3. Inv'
    BY Step
  <2> QED BY <2>1, <2>2, <2>3, HeldIsKept, KeptNext DEF SeenFits, SeenGrows
<1>1. ASSUME NEW r, r = item.reader, NEW q, q = item'.reader, item # NoItem, item' # NoItem,
             NEW s \in Nat, NEW t \in Nat, s <= t
      PROVE  CalculateGrows(r, s, q, t)
  <2>1. /\ ReaderFits(r) /\ r.frames # 0 /\ ReaderFits(q)' /\ q.frames # 0
        /\ r.frames <= q.frames
    BY <1>1, ReaderGrows
  <2> QED BY <1>0, <1>1, <2>1, ClaimsGrow
<1>2. ASSUME NEW q, q = item'.reader, item' # NoItem, NEW t \in Nat
      PROVE  Calculate(q, t) \in Nat
  <2>1. ReaderFits(q)' /\ q.frames # 0
    BY <1>2, ReadersStep DEF ReadersFit
  <2>2. PICK m \in 1..Len(Items') : Claims(Items', Calculate(q, t), m, t)
    <3>1. Counted(q, t)'
      BY <1>0, CountedNext
    <3> QED BY <2>1, <3>1 DEF Counted
  <2>3. \A c \in 0..Len(Items') : Reach(Items', c) \in Nat
    BY <1>0, StoreIsNext, ReachIs DEF IndexIs
  <2> QED BY <1>0, <2>2, <2>3, StoreIsNext DEF Claims, IndexIs
<1>3. ASSUME NEW u \in Inputs
      PROVE  /\ input'[u].frames \in Nat /\ input'[u].size \in 0..seen'.media
             /\ input'[u].at # "shrunk"
             /\ IF input'[u].at \in {"closed", "creating"}
                THEN input'[u].frames = 0
                ELSE input'[u].frames <= Calculate(item'.reader, input'[u].size)
  <2>1. /\ input[u].frames \in Nat /\ input[u].size \in 0..seen.media
        /\ input[u].size \in Nat /\ input[u].at # "shrunk"
        /\ IF input[u].at \in {"closed", "creating"}
           THEN input[u].frames = 0
           ELSE input[u].frames <= Calculate(item.reader, input[u].size)
    BY <1>0 DEF InputsFit
  <2>2. ASSUME input[u].at \notin {"closed", "creating"}, item' # NoItem,
               NEW t \in Nat, input[u].size <= t
        PROVE  input[u].frames <= Calculate(item'.reader, t)
    <3>1. CalculateGrows(item.reader, input[u].size, item'.reader, t)
      BY <1>0, <1>1, <2>1, <2>2 DEF Kept
    <3> QED BY <2>1, <2>2, <3>1 DEF CalculateGrows
  <2>3. CASE input'[u].at \in {"closed", "creating"} /\ input'[u].frames = 0 /\ input'[u].size = 0
    BY <1>0, <2>3
  <2>4. CASE input'[u].at = "measuring" /\ input'[u].frames = 0 /\ input'[u].size = seen.media
    <3>1. item' # NoItem
      BY <1>0, <2>4 DEF Kept
    <3>2. Calculate(item'.reader, input'[u].size) \in Nat
      BY <1>0, <1>2, <2>4, <3>1
    <3> QED BY <1>0, <2>4, <3>2
  <2>5. CASE input'[u] = input[u]
    <3>1. CASE input[u].at \in {"closed", "creating"}
      BY <1>0, <2>1, <2>5, <3>1
    <3>2. CASE input[u].at \notin {"closed", "creating"}
      <4>1. item' # NoItem
        BY <1>0, <2>5, <3>2 DEF Kept
      <4>2. input[u].frames <= Calculate(item'.reader, input[u].size)
        <5>1. input[u].size <= input[u].size
          BY <2>1
        <5> QED BY <2>1, <2>2, <3>2, <4>1, <5>1
      <4> QED BY <1>0, <2>1, <2>5, <3>2, <4>2
    <3> QED BY <3>1, <3>2
  <2>6. CASE /\ input[u].at \in {"open", "shrunk"} /\ input'[u].at = "cancelling"
             /\ input'[u].frames = input[u].frames /\ input'[u].size = input[u].size
    <3>1. item' # NoItem
      BY <1>0, <2>6 DEF Kept
    <3>2. input[u].frames <= Calculate(item'.reader, input[u].size)
      <4>1. input[u].size <= input[u].size
        BY <2>1
      <4> QED BY <2>1, <2>2, <2>6, <3>1, <4>1
    <3> QED BY <1>0, <2>1, <2>6, <3>2
  <2>7. CASE /\ input[u].at = "open" /\ input'[u].at = "measuring"
             /\ input'[u].frames = input[u].frames /\ input'[u].size = seen.media
    <3>1. item' # NoItem
      BY <1>0, <2>7 DEF Kept
    <3>2. input[u].frames <= Calculate(item'.reader, seen.media)
      <4>1. input[u].size <= seen.media
        BY <1>0, <2>1
      <4> QED BY <1>0, <2>2, <2>7, <3>1, <4>1
    <3> QED BY <1>0, <2>1, <2>7, <3>2
  <2>8. CASE /\ input[u].at = "measuring" /\ item' = item /\ input'[u].size = input[u].size
             /\ IF Calculate(item.reader, input[u].size) >= input[u].frames
                THEN /\ input'[u].at = "open"
                     /\ input'[u].frames = Calculate(item.reader, input[u].size)
                ELSE input'[u].at = "shrunk"
    <3>1. item' # NoItem /\ item # NoItem
      BY <1>0, <2>8 DEF Kept
    <3>2. Calculate(item'.reader, input[u].size) \in Nat
      BY <1>2, <2>1, <3>1
    <3> DEFINE f == Calculate(item.reader, input[u].size)
    <3>3. f \in Nat /\ f = Calculate(item'.reader, input[u].size) /\ input[u].frames <= f
      BY <2>1, <2>8, <3>2
    <3>4. input'[u].at = "open" /\ input'[u].frames = f
      BY <2>1, <2>8, <3>3
    <3> HIDE DEF f
    <3>5. f <= f
      BY <3>3
    <3> QED BY <1>0, <2>1, <2>8, <3>3, <3>4, <3>5
  <2> QED BY <2>3, <2>4, <2>5, <2>6, <2>7, <2>8, InputBecomes DEF InputMoves
<1> QED BY <1>3 DEF InputsFit

\* What an input that holds the index claims are the first items, wholly there.
LEMMA ClaimsAreThere ==
  ASSUME Inv, StoreInv, SeenFits, ReadersFit, InputsFit, NEW u \in Inputs,
         input[u].frames > 0, NEW r, r = item.reader
  PROVE  /\ item # NoItem /\ ReaderFits(r)
         /\ \E n \in 1..Len(Items), c \in 1..Len(Items) :
              /\ Found(r, n) /\ c <= n /\ input[u].frames <= Reach(Items, c)
              /\ EndOf(Items[c]) <= seen.media
<1>1. /\ input[u].frames \in Nat /\ input[u].size \in 0..seen.media
      /\ input[u].size \in Nat /\ seen.media \in Nat
      /\ IF input[u].at \in {"closed", "creating"}
         THEN input[u].frames = 0
         ELSE input[u].frames <= Calculate(item.reader, input[u].size)
  <2>1. media \in Nat
    BY DEF StoreInv, StoreTypes
  <2> QED BY <2>1 DEF InputsFit, SeenFits
<1>2. input[u].at \notin {"closed", "creating"}
  BY <1>1
<1>3. item # NoItem
  BY <1>2, HeldIsKept DEF Kept
<1>4. ReaderFits(r) /\ r.frames # 0
  BY <1>3 DEF ReadersFit
<1>5. PICK n \in 1..Len(Items) :
        Found(r, n) /\ Claims(Items, Calculate(r, input[u].size), n, input[u].size)
  BY <1>1, <1>4, HasItems, CalculateIs
<1>6. PICK c \in 0..n : /\ Holds(Items, n, input[u].size, c)
                        /\ Calculate(r, input[u].size) = Reach(Items, c)
  BY <1>5 DEF Claims
<1>7. /\ Items \in Seq(ItemRecords) /\ Tiles(Items) /\ Len(Items) \in Nat
  BY StoreIs DEF IndexIs
<1>8. input[u].frames <= Reach(Items, c)
  BY <1>1, <1>2, <1>6
<1>9. c # 0
  BY <1>1, <1>7, <1>8, ReachIs
<1>10. c \in 1..Len(Items) /\ c <= n /\ c <= c
  BY <1>7, <1>9
<1>11. EndOf(Items[c]) <= seen.media
  <2>1. EndOf(Items[c]) <= input[u].size
    BY <1>9, <1>6 DEF Holds
  <2>2. EndOf(Items[c]) \in Nat
    BY <1>7, <1>10, OffsetsFollow
  <2> QED BY <1>1, <2>1, <2>2
<1> QED BY <1>3, <1>4, <1>5, <1>8, <1>10, <1>11

\* All of them was given to the store, and what the muxer wrote can be read.
LEMMA ClaimsPlay ==
  ASSUME Inv, StoreInv, SeenFits, ReadersFit, InputsFit
  PROVE  NeverPastMedia
<1>1. ASSUME NEW u \in Inputs, NEW k \in 1..input[u].frames
      PROVE  /\ k <= Len(Indexed)
             /\ setup.direct \/ (closed /\ input[u].frames = Len(Indexed)) => Shown(k)
  <2>1. /\ input[u].frames \in Nat /\ input[u].frames > 0 /\ k \in Nat /\ k >= 1
        /\ k <= input[u].frames /\ seen.media \in Nat /\ seen.media <= media /\ media \in Nat
    <3>1. input[u].frames \in Nat /\ media \in Nat
      BY DEF InputsFit, StoreInv, StoreTypes
    <3> QED BY <3>1 DEF SeenFits
  <2>2. PICK c \in 1..Len(Items) :
          input[u].frames <= Reach(Items, c) /\ EndOf(Items[c]) <= seen.media
    BY <2>1, ClaimsAreThere
  <2> DEFINE i == Items[c]
             e == Reach(Items, c)
  <2>3. /\ e = i.frame + i.frames /\ e \in Nat /\ EndOf(i) \in Nat
    <3>1. c <= c /\ c \in 0..Len(Items)
      BY StoreIs DEF IndexIs
    <3> QED BY <3>1, StoreIs, ReachIs, OffsetsFollow DEF IndexIs
  <2>4. /\ e <= Len(Indexed) /\ Len(Indexed) \in Nat
        /\ setup.direct => Indexed[e].end <= EndOf(i)
    BY <2>3, ItemSpans DEF Spans, EndOf
  <2>5. EndOf(i) <= seen.media
    BY <2>2
  <2> HIDE DEF i, e
  <2>6. k \in 1..Len(Indexed) /\ e \in 1..Len(Indexed) /\ k <= e
    <3>1. k <= e
      BY <2>1, <2>2, <2>3 DEF e
    <3> QED BY <2>1, <2>3, <2>4, <3>1
  <2>7. ASSUME setup.direct  PROVE Shown(k)
    <3>1. Indexed[e].at # Held
      BY <2>6, <2>7, ItemSpans DEF InRow
    <3>2. /\ Indexed[k].at # Held /\ Indexed[k].end <= Indexed[e].end
          /\ Indexed[k].end \in Nat /\ Indexed[e].end \in Nat
      BY <2>6, <3>1, PacketsFollow
    <3>3. Indexed[k].end <= seen.media
      BY <2>1, <2>3, <2>4, <2>5, <2>7, <3>2
    <3> QED BY <3>2, <3>3 DEF Shown
  <2>8. ASSUME ~setup.direct, closed, input[u].frames = Len(Indexed)  PROVE Shown(k)
    <3>1. e = Len(Indexed)
      BY <2>2, <2>3, <2>4, <2>8 DEF e
    <3>2. c = Len(Items)
      <4>1. ASSUME c # Len(Items)  PROVE FALSE
        <5>1. PICK l : l = c + 1
          OBVIOUS
        <5>2. l \in 1..Len(Items) /\ l - 1 = c
          BY <4>1, <5>1, StoreIs DEF IndexIs
        <5>3. /\ Items[l].frame = e /\ Items[l].frames \in Nat \ {0}
          BY <5>2, StoreIs, ReachIs DEF IndexIs, e
        <5>4. Items[l].frame + Items[l].frames <= Len(Indexed)
          BY <5>2, ItemSpans DEF Spans
        <5> QED BY <2>3, <3>1, <5>3, <5>4
      <4> QED BY <4>1
    <3>3. Complete(Items, Indexed, media, setup.direct)
      BY <2>8, ItemSpans
    <3>4. EndOf(i) = media
      <4>1. Items # <<>>
        BY <3>2, EmptySeq, StoreIs DEF IndexIs
      <4> QED BY <2>8, <3>2, <3>3, <4>1 DEF Complete, EndOf, i
    <3>5. Indexed[k].at # Held
      BY <2>6, <3>3 DEF Complete
    <3>6. k <= k /\ Indexed[k].end \in Nat /\ Indexed[k].end <= media
      BY <2>1, <2>6, <3>5, PacketsFollow
    <3>7. Indexed[k].end <= seen.media
      BY <2>1, <2>5, <3>4, <3>6
    <3> QED BY <3>5, <3>7 DEF Shown
  <2>9. k <= Len(Indexed)
    BY <2>6
  <2> QED BY <2>7, <2>8, <2>9
<1> QED BY <1>1 DEF NeverPastMedia


\* The item that holds frame p.
LEMMA ItemOf ==
  ASSUME StoreInv, NEW n \in 1..Len(Items), NEW p \in Nat, p < Reach(Items, n)
  PROVE  \E l \in 1..n : /\ Items[l].frame <= p /\ p < Reach(Items, l)
                         /\ \A k \in 1..n : Items[k].frame <= p <=> k <= l
<1>1. /\ Items \in Seq(ItemRecords) /\ Tiles(Items) /\ Len(Items) \in Nat /\ n \in Nat
      /\ \A k \in 1..n : k \in 1..Len(Items)
  BY StoreIs DEF IndexIs
<1> DEFINE S == {k \in 1..n : Items[k].frame <= p}
<1>2. ASSUME NEW j \in 1..n, NEW k \in 1..n, j < k, k \in S  PROVE j \in S
  <2>1. j \in 1..Len(Items) /\ k \in 1..Len(Items) /\ j <= k
    BY <1>1, <1>2
  <2>2. /\ Items[j].frame \in Nat /\ Items[k].frame \in Nat /\ Items[j].frame <= Items[k].frame
    BY <1>1, <2>1, OffsetsFollow
  <2> QED BY <1>2, <2>2
<1>3. PICK l \in 0..n : \A k \in 1..n : k \in S <=> k <= l
  <2>1. S \in SUBSET (1..n)
    OBVIOUS
  <2> HIDE DEF S
  <2> QED BY <1>1, <1>2, <2>1, Boundary
<1>4. \A k \in 1..n : Items[k].frame <= p <=> k <= l
  BY <1>3
<1>5. l # 0
  <2>1. 1 \in 1..n /\ 1 \in 1..Len(Items) /\ 1 - 1 = 0
    BY <1>1
  <2>2. Items[1].frame = Reach(Items, 0) /\ Reach(Items, 0) = 0
    BY <1>1, <2>1, ReachIs
  <2>3. Items[1].frame <= p
    BY <2>2
  <2> QED BY <1>4, <2>1, <2>3
<1>6. l \in 1..n /\ l <= l
  BY <1>5
<1>7. p < Reach(Items, l)
  <2>1. CASE l = n
    BY <2>1
  <2>2. CASE l # n
    <3>1. PICK m : m = l + 1
      OBVIOUS
    <3>2. m \in 1..n /\ m \in 1..Len(Items) /\ ~(m <= l) /\ m - 1 = l
      BY <1>1, <2>2, <3>1
    <3>3. Items[m].frame = Reach(Items, l) /\ Items[m].frame \in Nat
      BY <1>1, <3>2, ReachIs
    <3>4. ~(Items[m].frame <= p)
      BY <1>4, <3>2
    <3> QED BY <3>3, <3>4
  <2> QED BY <2>1, <2>2
<1> QED BY <1>4, <1>6, <1>7

\* What Before finds for it.
LEMMA BeforeIs ==
  ASSUME NEW map, DOMAIN map \in SUBSET Nat, NEW p \in Nat, NEW x \in DOMAIN map, x <= p,
         \A y \in DOMAIN map : y <= p => y <= x
  PROVE  DOMAIN map # {} /\ Before(map, p) = map[x]
<1> DEFINE low == {k \in DOMAIN map : k <= p}
<1>1. low \in SUBSET Nat /\ x \in low /\ \A y \in low : y <= x
  OBVIOUS
<1>2. Before(map, p) = map[Largest(low)]
  BY <1>1 DEF Before
<1> HIDE DEF low
<1>3. Largest(low) = x
  BY <1>1, LargestIs
<1> QED BY <1>2, <1>3

\* A seek to a frame the reader has finds the key frame it depends on, or one
\* before it.
LEMMA SeekFinds ==
  ASSUME StoreInv, NEW r, NEW n \in 1..Len(Items), Found(r, n),
         NEW p \in Nat, p < Reach(Items, n),
         NEW k, k = Largest({j \in 1..p + 1 : Indexed[j].key}),
         NEW offset, offset = Find(r, p)
  PROVE  /\ KeyFrameOf(r, p) <= k - 1
         /\ NotBehind(offset, Indexed[k])
         /\ setup.direct => /\ offset = Indexed[k].at
                            /\ KeyFrameOf(r, p) = k - 1
                            /\ KeyFrameFrom(r, offset) = k - 1
<1>1. /\ Items \in Seq(ItemRecords) /\ Tiles(Items) /\ Len(Items) \in Nat /\ n \in Nat
      /\ \A j \in 1..n : j \in 1..Len(Items)
  BY StoreIs DEF IndexIs
<1>2. PICK l \in 1..n : /\ Items[l].frame <= p /\ p < Reach(Items, l)
                        /\ \A j \in 1..n : Items[j].frame <= p <=> j <= l
  BY ItemOf
<1> DEFINE i == Items[l]
           f == i.frame
           o == i.offset
<1>3. /\ l \in 1..Len(Items) /\ f \in Nat /\ o \in Nat /\ Reach(Items, l) = f + i.frames
      /\ i.frames \in Nat
  BY <1>1, ReachIs
<1>4. Spans(i, Indexed, setup.direct)
  BY <1>3, ItemSpans
<1>5. f + 1 <= k /\ k \in 1..p + 1 /\ (setup.direct => k = f + 1)
  <2> DEFINE K == {j \in 1..p + 1 : Indexed[j].key}
  <2>1. f + 1 \in K /\ p + 1 \in Nat /\ K \in SUBSET (1..p + 1) /\ K # {}
    BY <1>2, <1>3, <1>4 DEF Spans
  <2>2. k \in K /\ \A j \in K : j <= k
    <3>1. k = Largest(K)
      OBVIOUS
    <3> HIDE DEF K
    <3> QED BY <2>1, <3>1, LargestOf
  <2>3. ASSUME setup.direct, k > f + 1  PROVE FALSE
    <3>1. k \in f + 2..f + i.frames /\ Indexed[k].key
      <4>1. k \in Nat /\ k <= p + 1 /\ Indexed[k].key
        BY <2>2
      <4>2. k <= f + i.frames
        BY <1>2, <1>3, <4>1
      <4> QED BY <1>3, <2>3, <4>1, <4>2
    <3> QED BY <1>4, <2>3, <3>1 DEF Spans
  <2>4. f + 1 <= k /\ k \in 1..p + 1
    BY <2>1, <2>2
  <2> QED BY <1>3, <2>3, <2>4
<1>6. NotBehind(o, Indexed[k]) /\ (setup.direct => o = Indexed[k].at)
  <2>1. CASE Indexed[k].at = Held /\ ~setup.direct
    BY <2>1 DEF NotBehind
  <2>2. CASE setup.direct
    <3>1. o = Indexed[k].at
      BY <1>4, <1>5, <2>2 DEF Spans
    <3> QED BY <1>3, <3>1 DEF NotBehind
  <2>3. CASE Indexed[k].at # Held
    <3>1. f + 1 \in 1..Len(Indexed) /\ k \in 1..Len(Indexed) /\ f + 1 <= k
      <4>1. Len(Indexed) \in Nat /\ f + i.frames <= Len(Indexed)
        BY <1>4, ItemSpans DEF Spans
      <4>2. k <= f + i.frames
        BY <1>2, <1>3, <1>5
      <4> QED BY <1>3, <1>5, <4>1, <4>2
    <3>2. /\ Indexed[f + 1].at # Held /\ Indexed[f + 1].at <= Indexed[k].at
          /\ Indexed[f + 1].at \in Nat /\ Indexed[k].at \in Nat
      BY <2>3, <3>1, PacketsFollow
    <3>3. o <= Indexed[f + 1].at
      BY <1>4, <3>2 DEF Spans, NotBehind
    <3>4. o <= Indexed[k].at
      BY <1>3, <3>2, <3>3
    <3> QED BY <1>4, <1>5, <3>4 DEF Spans, NotBehind
  <2> QED BY <2>1, <2>2, <2>3
<1>7. /\ DOMAIN r.items = {Items[j].frame : j \in 1..n}
      /\ DOMAIN r.offsets = {Items[j].offset : j \in 1..n}
      /\ r.items[f] = i /\ r.offsets[o] = i
  BY DEF Found
<1>8. \A j \in 1..n : j <= l => Items[j].frame <= f
  BY <1>1, <1>3, OffsetsFollow
<1>9. \A j \in 1..n : Items[j].frame \in Nat /\ Items[j].offset \in Nat
  BY <1>1, ReachIs
<1>10. DOMAIN r.items # {} /\ Before(r.items, p) = i
  <2>1. DOMAIN r.items \in SUBSET Nat /\ f \in DOMAIN r.items
    BY <1>7, <1>9
  <2>2. \A y \in DOMAIN r.items : y <= p => y <= f
    BY <1>2, <1>7, <1>8
  <2>3. f <= p
    BY <1>2
  <2> QED BY <1>7, <2>1, <2>2, <2>3, BeforeIs
<1>11. DOMAIN r.offsets # {} /\ Before(r.offsets, o) = i
  <2>1. DOMAIN r.offsets \in SUBSET Nat /\ o \in DOMAIN r.offsets
    BY <1>7, <1>9
  <2>2. \A y \in DOMAIN r.offsets : y <= o => y <= o
    OBVIOUS
  <2>3. o <= o
    BY <1>3
  <2> QED BY <1>3, <1>7, <2>1, <2>2, <2>3, BeforeIs
<1>12. Find(r, p) = o /\ KeyFrameOf(r, p) = f
  BY <1>10 DEF Find, KeyFrameOf
<1>13. KeyFrameFrom(r, o) = f
  BY <1>11 DEF KeyFrameFrom
<1>14. f <= k - 1 /\ (setup.direct => f = k - 1)
  BY <1>3, <1>5
<1> QED BY <1>6, <1>12, <1>13, <1>14

\* So does one to a frame that an input claims.
LEMMA SeeksAreExact ==
  ASSUME Inv, StoreInv, SeenFits, ReadersFit, InputsFit
  PROVE  SeekIsExact
<1>1. ASSUME NEW u \in Inputs, NEW p \in 0..input[u].frames - 1,
             NEW k, k = Largest({j \in 1..p + 1 : Indexed[j].key}),
             NEW offset, offset = Find(item.reader, p)
      PROVE  /\ KeyFrameOf(item.reader, p) <= k - 1
             /\ NotBehind(offset, Indexed[k])
             /\ setup.direct => /\ offset = Indexed[k].at
                                /\ KeyFrameOf(item.reader, p) = k - 1
                                /\ KeyFrameFrom(item.reader, offset) = k - 1
  <2>1. input[u].frames \in Nat /\ input[u].frames > 0 /\ p \in Nat /\ p < input[u].frames
    <3>1. input[u].frames \in Nat
      BY DEF InputsFit
    <3> QED BY <3>1
  <2>2. PICK r : r = item.reader
    OBVIOUS
  <2>3. PICK n \in 1..Len(Items), c \in 1..Len(Items) :
          Found(r, n) /\ c <= n /\ input[u].frames <= Reach(Items, c)
    BY <2>1, <2>2, ClaimsAreThere
  <2>4. p < Reach(Items, n)
    <3>1. /\ Items \in Seq(ItemRecords) /\ Tiles(Items) /\ n \in 0..Len(Items)
          /\ c \in 0..Len(Items)
      BY StoreIs DEF IndexIs
    <3>2. Reach(Items, c) <= Reach(Items, n) /\ Reach(Items, c) \in Nat /\ Reach(Items, n) \in Nat
      BY <2>3, <3>1, TilesFollow, ReachIs
    <3> QED BY <2>1, <2>3, <3>2
  <2>5. offset = Find(r, p)
    BY <1>1, <2>2
  <2>6. /\ KeyFrameOf(r, p) <= k - 1 /\ NotBehind(offset, Indexed[k])
        /\ setup.direct => /\ offset = Indexed[k].at /\ KeyFrameOf(r, p) = k - 1
                           /\ KeyFrameFrom(r, offset) = k - 1
    BY <1>1, <2>1, <2>3, <2>4, <2>5, SeekFinds
  <2> QED BY <2>2, <2>6
<1> QED BY <1>1 DEF SeekIsExact, KeyFrame, NotBehind


-----------------------------------------------------------------------------
(* The theorems about index and media.                                     *)

\* The inductive invariant: the references and jobs, the store, what can be
\* seen of it, the readers, the inputs.
Truth == Inv /\ StoreInv /\ SeenFits /\ ReadersFit /\ InputsFit /\ RestTypes

\* The index is written in a version that its parser reads.
Parsable == \A s \in Setups : s.version # 3

\* It holds at first,
LEMMA TruthInit == Parsable /\ Init => Truth
<1> SUFFICES ASSUME Parsable, Init PROVE Truth
  OBVIOUS
<1>1. Inv /\ StoreInv
  BY Start, StoreInit DEF Parsable
<1>2. /\ seen = [index |-> 0, media |-> 0] /\ media = 0 /\ file = <<>> /\ item = NoItem
      /\ made = NoReader /\ input = [u \in Inputs |-> Closed]
  BY DEF Init
<1>3. SeenFits
  <2>1. Len(file) = 0
    BY <1>2, EmptySeq
  <2> QED BY <1>2, <2>1 DEF SeenFits
<1>4. \A u \in Inputs : input[u].at = "closed" /\ input[u].frames = 0 /\ input[u].size = 0
  BY <1>2, NewInput
<1>5. InputsFit
  <2>1. 0 \in 0..seen.media
    BY <1>2
  <2> QED BY <1>4, <2>1 DEF InputsFit
<1>6. ReadersFit /\ RestTypes
  <2>1. \A u \in Inputs : input[u].at # "creating"
    BY <1>4
  <2> QED BY <1>2, <2>1 DEF ReadersFit, RestTypes
<1> QED BY <1>1, <1>3, <1>5, <1>6 DEF Truth

\* every step keeps it,
LEMMA TruthStep == Truth /\ [Next]_vars => Truth'
<1> SUFFICES ASSUME Truth, [Next]_vars PROVE Truth'
  OBVIOUS
<1>1. Inv /\ StoreInv /\ SeenFits /\ ReadersFit /\ InputsFit /\ RestTypes
  BY DEF Truth
<1>2. Inv'
  BY <1>1, Step
<1>3. StoreInv' /\ SeenFits' /\ ReadersFit' /\ InputsFit' /\ RestTypes'
  BY <1>1, StoreStep, SeenStep, ReadersStep, InputsStep, RestStep
<1> QED BY <1>2, <1>3 DEF Truth

\* and so it always holds: the invariant of the theorems below.
THEOREM TruthHolds == ASSUME Parsable PROVE Spec => []Truth
<1>1. Init => Truth
  BY TruthInit
<1>2. Truth /\ [Next]_vars => Truth'
  BY TruthStep
<1> QED BY <1>1, <1>2, PTL DEF Spec

\* Whatever item a reader has is true of the packets, wherever the file was cut
\* that it read: it starts with a key frame, and not behind it, and when the
\* muxer is direct it spans what it counts (IndexIsTrue, with the types of the
\* module).
THEOREM TheIndexIsTrue == ASSUME Parsable PROVE Spec => []IndexIsTrue
<1>1. Truth => IndexIsTrue
  <2> SUFFICES ASSUME Truth PROVE IndexIsTrue
    OBVIOUS
  <2>1. TypeOK
    BY TypesFollow DEF Truth
  <2>2. ASSUME item # NoItem, NEW f \in DOMAIN item.reader.items
        PROVE  True(f, item.reader.items[f])
    BY <2>2, ReaderIsTrue DEF Truth, ReadersFit
  <2> QED BY <2>1, <2>2 DEF IndexIsTrue, True, NotBehind
<1> QED BY <1>1, TruthHolds, PTL

\* Every frame that an input claims was given to the store, and the index sends
\* nobody behind its key frame; when the muxer is direct, the frame lies in the
\* media the input can read and the index finds its key frame exactly; and what
\* an input has of a media that is closed, when it has all, is there in any case.
THEOREM ClaimedFramesAreThere == ASSUME Parsable PROVE Spec => []FramesAreThere
<1>1. Truth => FramesAreThere
  BY ClaimsPlay, SeeksAreExact DEF Truth, FramesAreThere
<1> QED BY <1>1, TruthHolds, PTL

\* The length of an input never shrinks, whatever happens between the question
\* for the size and the answer.
THEOREM InputsNeverShrink == ASSUME Parsable PROVE Spec => []NeverShrinks
<1>1. Truth => NeverShrinks
  BY DEF Truth, InputsFit, NeverShrinks
<1> QED BY <1>1, TruthHolds, PTL

\* Only the version that Parsable leaves out does not parse.
THEOREM WrittenFilesParse == ASSUME Parsable PROVE Spec => []WrittenFileParses
<1>1. Truth => WrittenFileParses
  <2> SUFFICES ASSUME Truth, item # NoItem PROVE item.reader.state # "error"
    BY DEF WrittenFileParses
  <2>1. item.reader.state \in {"header", "item", "footer"}
    BY ReaderIsTrue DEF Truth, ReadersFit
  <2> QED BY <2>1
<1> QED BY <1>1, TruthHolds, PTL
=============================================================================
