-------------------------------- MODULE Ring --------------------------------
(***************************************************************************)
(* The ring protocol of the avformat plugin (io_cache.cpp): a thread reads *)
(* a source that cannot be read twice into blocks, libav reads them back.  *)
(* Full blocks are handed over in an lru, under the offset of their first  *)
(* byte; blocks that were read go to a list of empty ones and are filled   *)
(* again.                                                                  *)
(*                                                                         *)
(* The bytes of the source are numbered; a block holds the number of its   *)
(* first byte and how many it has.  No block is taken out of the lru: it   *)
(* stays there under its old key, whatever becomes of it, until the lru    *)
(* has a key too many (see Lru; find does not count as use, so the list is *)
(* in the order of the keys).  reader is the read thread, or the caller of *)
(* ring_open, which reads the first block itself; client is libav.         *)
(*                                                                         *)
(* A definition marked as a mutant is what a plausible slip would make of  *)
(* the one after it; the properties tell the two apart.                    *)
(***************************************************************************)
EXTENDS Integers, Sequences, FiniteSets, Functions

CONSTANTS
  MaxBlocks,   \* max_blocks_, also the size of the lru
  BlockSize,   \* block_size_
  Sizes,       \* the sizes libav asks for
  MaxBytes,    \* bound: the length of the source
  MaxZeros,    \* bound: how often libav gets nothing
  MaxFailures  \* bound: the errors of the source

ASSUME RingAssumption ==
  /\ MaxBlocks \in Nat \ {0} /\ BlockSize \in Nat \ {0}
  /\ Sizes \subseteq Nat \ {0}
  /\ MaxBytes \in Nat /\ MaxZeros \in Nat /\ MaxFailures \in Nat

VARIABLES
  mode,      \* what became of the context: see TypeOK
  reader,    \* where the reader is in job()
  hand,      \* the block it fills
  source,    \* the bytes taken from the source
  write_key, read_key,
  full,      \* full_: the lru, a function from keys to blocks
  empty,     \* empty_
  count,     \* count_
  block,     \* the contents of every block
  client,    \* where libav is in ring_read
  taken,     \* the block it reads
  current,   \* current_
  offset,    \* offset_
  want,      \* the size it asked for
  got,       \* history: the bytes it was given
  zeros,     \* bound: how often it was given none
  torn,      \* history: it was given other bytes than the next ones
  failures   \* history: the errors the source has reported

reading == <<reader, hand, source, write_key>>
store == <<full, empty, count, block>>
copying == <<client, taken, current, offset, want>>
vars == <<mode, reading, read_key, store, copying, got, zeros, torn, failures>>

Blocks == 1..MaxBlocks
NoBlock == 0
Unknown == -1                       \* a block that is being filled
Content(at, n) == [at |-> at, len |-> n]

Init ==
  /\ mode = "new" /\ reader = "ready" /\ hand = NoBlock
  /\ source = 0 /\ write_key = 0 /\ read_key = 0
  /\ full = << >> /\ empty = << >> /\ count = 0
  /\ block = [b \in Blocks |-> Content(0, 0)]
  /\ client = "idle" /\ taken = NoBlock /\ current = NoBlock
  /\ offset = 0 /\ want = 0
  /\ got = 0 /\ zeros = 0 /\ torn = FALSE /\ failures = 0

-----------------------------------------------------------------------------
(* The reader: in::job, in ring_open and in thread::run.                   *)

\* ring_open: the url could be opened.
Open ==
  /\ mode = "new"
  /\ mode' = "opening"
  /\ UNCHANGED <<reading, read_key, store, copying, got, zeros, torn, failures>>

\* acquire_empty: an empty block, or a new one while there are fewer than
\* max_blocks_.
NextBlock ==
  IF empty # << >> THEN Head(empty) ELSE IF count < MaxBlocks THEN count + 1 ELSE NoBlock

Acquire ==
  /\ reader = "ready" /\ mode \in {"opening", "open"}
  /\ hand' = NextBlock
  /\ reader' = IF NextBlock = NoBlock THEN "ended" ELSE "reading"
  /\ empty' = IF empty = << >> THEN empty ELSE Tail(empty)
  /\ count' = IF empty = << >> /\ NextBlock # NoBlock THEN count + 1 ELSE count
  /\ block' = IF NextBlock = NoBlock THEN block
              ELSE [block EXCEPT ![NextBlock] = Content(Unknown, BlockSize)]
  /\ UNCHANGED <<mode, source, write_key, read_key, full, copying, got, zeros, torn, failures>>

\* avio_read: some bytes, the end of the source, or an error.
Read(n) ==
  /\ reader = "reading"
  /\ source + n <= MaxBytes
  /\ block' = [block EXCEPT ![hand] = Content(source, n)]
  /\ source' = source + n
  /\ reader' = IF n > 0 THEN "read" ELSE "read_last"
  /\ UNCHANGED <<mode, hand, write_key, read_key, full, empty, count, copying, got, zeros, torn, failures>>

ReadFails ==
  /\ reader = "reading" /\ failures < MaxFailures
  /\ block' = [block EXCEPT ![hand] = Content(source, 0)]
  /\ reader' = "failed"
  /\ failures' = failures + 1
  /\ UNCHANGED <<mode, hand, source, write_key, read_key, full, empty, count, copying, got, zeros, torn>>

\* Mutant of Evicted: the block with the highest key goes.
EvictedLast(f) ==
  LET keys == DOMAIN f IN
  IF Cardinality(keys) <= MaxBlocks THEN f
  ELSE Restrict(f, keys \ {CHOOSE k \in keys : \A j \in keys : j <= k})

\* The lru keeps max_blocks_ keys.
Evicted(f) ==
  LET keys == DOMAIN f IN
  IF Cardinality(keys) <= MaxBlocks THEN f
  ELSE Restrict(f, keys \ {CHOOSE k \in keys : \A j \in keys : k <= j})

\* ring_open: the first result decides what becomes of the context.  Data
\* starts the thread, an error deletes the ring, nothing at all reports success
\* without a context.
Outcome == CASE reader = "read" -> "open" [] reader = "failed" -> "closed" [] OTHER -> "leaked"

\* thread::run goes on after job() unless it returned zero.
Goes == IF mode = "opening" THEN reader = "read" ELSE reader # "read_last"

\* return_full.
ReturnFull ==
  /\ reader \in {"read", "read_last", "failed"}
  /\ full' = Evicted([k \in DOMAIN full \cup {write_key} |->
                        IF k = write_key THEN hand ELSE full[k]])
  /\ write_key' = write_key + block[hand].len
  /\ hand' = NoBlock
  /\ mode' = IF mode = "opening" THEN Outcome ELSE mode
  /\ reader' = IF Goes THEN "ready" ELSE "ended"
  /\ UNCHANGED <<source, read_key, empty, count, block, copying, got, zeros, torn, failures>>

\* run() finds that it shall stop.
Stop ==
  /\ reader = "ready" /\ mode = "closing"
  /\ reader' = "ended"
  /\ UNCHANGED <<mode, hand, source, write_key, read_key, store, copying, got, zeros, torn, failures>>

-----------------------------------------------------------------------------
(* libav: ring_read and ring_close.                                        *)

Call(size) ==
  /\ client = "idle" /\ mode = "open" /\ zeros < MaxZeros
  /\ want' = size
  /\ taken' = current
  /\ client' = IF current = NoBlock THEN "finding" ELSE "copying"
  /\ UNCHANGED <<mode, reading, read_key, store, current, offset, got, zeros, torn, failures>>

\* acquire_full: the block with the next byte is there, or it does not come
\* in time.
Find ==
  /\ client = "finding" /\ read_key \in DOMAIN full
  /\ taken' = full[read_key]
  /\ read_key' = read_key + block[taken'].len
  /\ client' = "copying"
  /\ UNCHANGED <<mode, reading, store, current, offset, want, got, zeros, torn, failures>>

\* Mutant of TimeOut: the wait goes on when its time is over.
TimeOutAgain ==
  /\ client = "finding" /\ read_key \notin DOMAIN full
  /\ UNCHANGED vars

TimeOut ==
  /\ client = "finding" /\ read_key \notin DOMAIN full
  /\ client' = "idle" /\ want' = 0
  /\ zeros' = zeros + 1
  /\ UNCHANGED <<mode, reading, read_key, store, taken, current, offset, got, torn, failures>>

\* Mutant of Copy: a block that libav is not through with goes back, too.
CopyThenReturn ==
  LET left == block[taken].len - offset
      n == IF left <= want THEN left ELSE want
  IN  /\ client = "copying"
      /\ got' = got + n
      /\ torn' = (torn \/ (n > 0 /\ block[taken].at + offset # got))
      /\ zeros' = IF n = 0 THEN zeros + 1 ELSE zeros
      /\ IF left <= want
         THEN current' = NoBlock /\ offset' = 0 /\ client' = "returning"
              /\ taken' = taken /\ want' = want
         ELSE current' = taken /\ offset' = offset + n /\ client' = "returning"
              /\ taken' = taken /\ want' = want
      /\ UNCHANGED <<mode, reading, read_key, store, failures>>

\* read: what is left of the block, which goes back then, or as much as was
\* asked for.
Copy ==
  LET left == block[taken].len - offset
      n == IF left <= want THEN left ELSE want
  IN  /\ client = "copying"
      /\ got' = got + n
      /\ torn' = (torn \/ (n > 0 /\ block[taken].at + offset # got))
      /\ zeros' = IF n = 0 THEN zeros + 1 ELSE zeros
      /\ IF left <= want
         THEN current' = NoBlock /\ offset' = 0 /\ client' = "returning"
              /\ taken' = taken /\ want' = want
         ELSE current' = taken /\ offset' = offset + n /\ client' = "idle"
              /\ taken' = NoBlock /\ want' = 0
      /\ UNCHANGED <<mode, reading, read_key, store, failures>>

\* return_empty.
ReturnEmpty ==
  /\ client = "returning"
  /\ empty' = Append(empty, taken)
  /\ taken' = NoBlock
  /\ client' = "idle" /\ want' = 0
  /\ UNCHANGED <<mode, reading, read_key, full, count, block, current, offset, got, zeros, torn, failures>>

\* ring_close: the thread is told to stop and joined.
Close ==
  /\ client = "idle" /\ mode = "open"
  /\ mode' = "closing"
  /\ UNCHANGED <<reading, read_key, store, copying, got, zeros, torn, failures>>

Join ==
  /\ mode = "closing" /\ reader = "ended"
  /\ mode' = "closed"
  /\ UNCHANGED <<reading, read_key, store, copying, got, zeros, torn, failures>>

ReaderStep == Acquire \/ (\E n \in 0..BlockSize : Read(n)) \/ ReadFails \/ ReturnFull \/ Stop
ClientStep == Find \/ TimeOut \/ Copy \/ ReturnEmpty \/ Join

Next == Open \/ ReaderStep \/ (\E size \in Sizes : Call(size)) \/ ClientStep \/ Close

Spec == Init /\ [][Next]_vars

\* Both threads are scheduled and a read of the source comes to an end.
FairSpec == Spec /\ WF_vars(ReaderStep) /\ WF_vars(ClientStep)

-----------------------------------------------------------------------------
(* Properties.                                                             *)

Modes == {"new", "opening", "open", "closing", "closed", "leaked"}

\* The type of every variable.
TypeOK ==
  /\ mode \in Modes
  /\ reader \in {"ready", "reading", "read", "read_last", "failed", "ended"}
  /\ client \in {"idle", "finding", "copying", "returning"}
  /\ {hand, taken, current} \subseteq Blocks \cup {NoBlock}
  /\ source \in Nat /\ write_key \in Nat /\ read_key \in Nat
  /\ DOMAIN full \subseteq Nat /\ \A k \in DOMAIN full : full[k] \in Blocks
  /\ empty \in Seq(Blocks) /\ count \in 0..MaxBlocks
  /\ \A b \in Blocks : block[b].at \in Nat \cup {Unknown} /\ block[b].len \in 0..BlockSize
  /\ offset \in 0..BlockSize /\ want \in Sizes \cup {0}
  /\ got \in Nat /\ zeros \in Nat /\ torn \in BOOLEAN /\ failures \in 0..MaxFailures

Unread == {k \in DOMAIN full : read_key <= k /\ k < write_key}
EmptyBlocks == {empty[i] : i \in 1..Len(empty)}

\* Nothing that was read from the source is lost before libav has read it,
\* however full the ring is and whatever the lru evicts: the blocks from
\* read_key on follow each other up to write_key, with the bytes of their keys.
UnreadIsKept ==
  failures = 0 =>
    /\ read_key < write_key => read_key \in Unread
    /\ \A k \in Unread :
         /\ block[full[k]].at = k /\ block[full[k]].len > 0
         /\ k + block[full[k]].len \in Unread \cup {write_key}

\* A block that is still to be read, or being read, is neither being filled
\* nor waiting to be filled, and no block waits twice.  (Blocks without bytes
\* are exempt: the mark of the end is found again and again.)
OneOwner ==
  TypeOK /\ (failures = 0 /\ reader # "ended" =>
    LET busy == {full[k] : k \in Unread} \cup ({taken, current} \ {NoBlock}) IN
    /\ busy \cap (EmptyBlocks \cup {hand}) = {}
    /\ hand \notin EmptyBlocks
    /\ Cardinality(EmptyBlocks) = Len(empty))

\* libav is given the bytes of the source in order, without a gap.
GivenInOrder == failures = 0 => ~torn

\* Until the first error libav gets every byte once and in order.
BytesInOrder == UnreadIsKept /\ GivenInOrder

\* A read returns, and so does closing.
ReadsAndCloseReturn ==
  /\ client # "idle" ~> client = "idle"
  /\ mode = "closing" ~> mode = "closed"

\* Not so, after an error: acquire_full returns "a previously returned full
\* block": libav never reads a block that is being filled.
NeverReadsWhileFilled == client = "copying" => taken # hand
==============================================================================
