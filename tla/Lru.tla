--------------------------------- MODULE Lru ---------------------------------
(***************************************************************************)
(* opencorelib's lru (lru.hpp): a bounded map that gives up the entry used *)
(* least recently, shared by threads that may wait for an entry to come or *)
(* for room.                                                               *)
(*                                                                         *)
(* Every method is one critical section of mutex_ except where it waits    *)
(* on a condition variable: cond_ for entries, space_ for room.  A waiting *)
(* thread is "asleep" until it is notified ("awake": it will take the      *)
(* mutex and test again) or its time is over ("expired": it will take the  *)
(* mutex and leave the loop).  The two differ when the entry comes between *)
(* the end of the time and the return.                                     *)
(*                                                                         *)
(* Values are left out: an entry is its key.  find and count change        *)
(* nothing and are left out, too.                                          *)
(*                                                                         *)
(* A definition marked as a mutant is what a plausible slip would make of  *)
(* the one after it; the properties tell the two apart.                    *)
(***************************************************************************)
EXTENDS Integers, Sequences, FiniteSets

CONSTANTS Threads,    \* those that make calls that wait
          Keys,       \* integers, as in every use of the class
          Sizes       \* the sizes the lru is given

ASSUME LruAssumption ==
  /\ Keys \subseteq Int \ {0}
  /\ Sizes \subseteq Nat

VARIABLES
  queue,   \* queue_: the keys of the map
  order,   \* lru_: the list of keys, the least recently used first
  size,    \* size_
  pc,      \* where each thread is
  call,    \* the waiting call each thread is in
  used     \* the keys in the order of their last use, also those long gone

entries == <<queue, order, size, used>>
vars == <<queue, order, size, pc, call, used>>

Ops == {"wait", "find", "append", "space", "remove"}
NoCall == [op |-> "none", key |-> 0, before |-> 0]

\* s without k, which it holds at most once.
Without(s, k) ==
  LET here == {i \in 1..Len(s) : s[i] = k}
      at == CHOOSE i \in here : TRUE
  IN  IF here = {} THEN s
      ELSE [i \in 1..Len(s)-1 |-> IF i < at THEN s[i] ELSE s[i+1]]

\* s with k as the one used last.
Touched(s, k) == Append(Without(s, k), k)

Init ==
  /\ queue = {} /\ order = <<>>
  /\ size \in Sizes
  /\ pc = [t \in Threads |-> "idle"]
  /\ call = [t \in Threads |-> NoCall]
  /\ used = <<>>

-----------------------------------------------------------------------------
\* notify_all of the condition variable the calls of ops wait on.
Notified(ops) ==
  [t \in Threads |-> IF pc[t] = "asleep" /\ call[t].op \in ops THEN "awake" ELSE pc[t]]

\* Mutant of CondNotified: append does not notify cond_.
CondSilent == pc
CondNotified == Notified({"wait", "find"})

\* Mutant of SpaceNotified: remove and clear do not notify space_.
SpaceSilent == pc
SpaceNotified == Notified({"append", "space", "remove"})

\* resize: while there are more than n entries the first of the list goes.
Excess(q, n) == IF Cardinality(q) > n THEN Cardinality(q) - n ELSE 0

Shrink(q, s, n) ==
  /\ queue' = q \ {s[i] : i \in 1..Excess(q, n)}
  /\ order' = SubSeq(s, Excess(q, n) + 1, Len(s))

\* Mutant of Put: a key that is there is put into the list once more.
PutTwice(k) ==
  /\ Shrink(queue \cup {k}, Append(order, k), size)
  /\ used' = Touched(used, k)

\* append, without the notification.
Put(k) ==
  /\ IF k \in queue THEN queue' = queue /\ order' = Touched(order, k)
     ELSE Shrink(queue \cup {k}, Append(order, k), size)
  /\ used' = Touched(used, k)

\* Mutant of Use: the list is left as it is.
UseUncounted(k) ==
  /\ order' = order
  /\ used' = Touched(used, k)
  /\ UNCHANGED <<queue, size>>

\* fetch finds k.
Use(k) ==
  /\ order' = Touched(order, k)
  /\ used' = Touched(used, k)
  /\ UNCHANGED <<queue, size>>

-----------------------------------------------------------------------------
(* Calls that do not wait, from any thread.                                *)

AppendEntry(k) ==
  /\ Put(k)
  /\ pc' = CondNotified
  /\ UNCHANGED <<size, call>>

Fetch(k) ==
  /\ k \in queue
  /\ Use(k)
  /\ UNCHANGED <<pc, call>>

\* The highest key of the range is used, if the range has any.
HighestInRange(upper, lower) ==
  /\ \E k \in queue : /\ lower <= k /\ k <= upper
                      /\ \A j \in queue : j <= upper => j <= k
                      /\ Use(k)
  /\ UNCHANGED <<pc, call>>

Remove(k) ==
  /\ k \in queue
  /\ queue' = queue \ {k}
  /\ order' = Without(order, k)
  /\ pc' = SpaceNotified
  /\ UNCHANGED <<size, call, used>>

Clear ==
  /\ queue' = {} /\ order' = <<>>
  /\ pc' = SpaceNotified
  /\ UNCHANGED <<size, call, used>>

\* resize notifies nobody, also when it makes room.
Resize(n) ==
  /\ n # size
  /\ Shrink(queue, order, n)
  /\ size' = n
  /\ UNCHANGED <<pc, call, used>>

-----------------------------------------------------------------------------
(* Calls that wait: wait, find with a time, append_if_not_full,            *)
(* wait_for_space, wait_for_remove.                                        *)

Enter(t, op, k) ==
  /\ pc[t] = "idle"
  /\ op \in {"space", "remove"} <=> k = 0         \* these take no key
  /\ pc' = [pc EXCEPT ![t] = "awake"]
  /\ call' = [call EXCEPT ![t] = [op |-> op, key |-> k, before |-> Cardinality(queue)]]
  /\ UNCHANGED entries

HasRoom == Cardinality(queue) < size

\* The condition of the loop does not hold: the call need not wait.
Satisfied(t) ==
  CASE call[t].op \in {"wait", "find"} -> call[t].key \in queue
    [] call[t].op \in {"append", "space"} -> HasRoom
    [] OTHER -> call[t].before = 0 \/ call[t].before # Cardinality(queue)

Sleep(t) ==
  /\ pc[t] = "awake"
  /\ ~Satisfied(t)
  /\ pc' = [pc EXCEPT ![t] = "asleep"]
  /\ UNCHANGED <<entries, call>>

Leaves(t, notified) ==
  /\ pc' = [notified EXCEPT ![t] = "idle"]
  /\ call' = [call EXCEPT ![t] = NoCall]

\* The call need not wait (any longer); wait has then used its entry.
Succeed(t) ==
  /\ pc[t] = "awake"
  /\ Satisfied(t)
  /\ \/ call[t].op = "wait" /\ Use(call[t].key)
     \/ call[t].op \in {"find", "space", "remove"} /\ UNCHANGED entries
  /\ Leaves(t, pc)

\* append_if_not_full finds room, in time or at the end of its time.
AppendIfNotFull(t) ==
  /\ pc[t] \in {"awake", "expired"}
  /\ call[t].op = "append"
  /\ HasRoom
  /\ Put(call[t].key)
  /\ Leaves(t, CondNotified)
  /\ UNCHANGED size

Expire(t) ==
  /\ pc[t] = "asleep"
  /\ pc' = [pc EXCEPT ![t] = "expired"]
  /\ UNCHANGED <<entries, call>>

SpuriousWake(t) ==
  /\ pc[t] = "asleep"
  /\ pc' = [pc EXCEPT ![t] = "awake"]
  /\ UNCHANGED <<entries, call>>

\* The time is over: wait and find return nothing without looking again.
GiveUp(t) ==
  /\ pc[t] = "expired"
  /\ call[t].op = "append" => ~HasRoom
  /\ Leaves(t, pc)
  /\ UNCHANGED entries

-----------------------------------------------------------------------------
Next ==
  \/ \E k \in Keys : AppendEntry(k) \/ Fetch(k) \/ Remove(k)
  \/ \E u, l \in Keys : HighestInRange(u, l)
  \/ Clear
  \/ \E n \in Sizes : Resize(n)
  \/ \E t \in Threads :
       \/ \E op \in Ops, k \in Keys \cup {0} : Enter(t, op, k)
       \/ Sleep(t) \/ Succeed(t) \/ AppendIfNotFull(t)
       \/ Expire(t) \/ SpuriousWake(t) \/ GiveUp(t)

Spec == Init /\ [][Next]_vars

-----------------------------------------------------------------------------
(* Properties.                                                             *)

\* The type of every variable.
TypeOK ==
  /\ queue \subseteq Keys
  /\ order \in Seq(Keys)
  /\ size \in Sizes
  /\ pc \in [Threads -> {"idle", "awake", "asleep", "expired"}]
  /\ call \in [Threads -> [op : Ops \cup {"none"}, key : Keys \cup {0}, before : Nat]]
  /\ used \in Seq(Keys)

\* The map and the list hold the same keys, each once: resize may take any
\* key it finds in the list for one it will find in the map.
MapMatchesList ==
  /\ queue = {order[i] : i \in 1..Len(order)}
  /\ \A i, j \in 1..Len(order) : order[i] = order[j] => i = j

\* No method leaves more entries than the size that was set last.
WithinSize == Cardinality(queue) <= size

\* Map, list and size agree with each other after every call.
Consistent == TypeOK /\ MapMatchesList /\ WithinSize

\* Nobody sleeps waiting for an entry that is there.
NobodySleepsOverEntry ==
  \A t \in Threads :
    pc[t] = "asleep" /\ call[t].op \in {"wait", "find"} => call[t].key \notin queue

\* Whatever takes entries out, evictions by a new size left aside, leaves
\* nobody asleep who waits for room.
RoomIsAnnounced ==
  [][size' = size /\ Cardinality(queue') < Cardinality(queue) =>
       \A t \in Threads : pc'[t] = "asleep" => call'[t].op \in {"wait", "find"}]_vars

\* append_if_not_full "waits for an item to be removed if the queue is full":
\* it never makes room itself, also not when its time ends.
AppendIfNotFullEvictsNothing ==
  [][\A t \in Threads :
       call[t].op = "append" /\ call'[t].op = "none" => queue \subseteq queue']_vars

\* "The least recently used objects will be automatically discarded" (lines
\* 16 to 18): an entry that is pushed out was not used after one that stays.
Position(s, k) == CHOOSE i \in 1..Len(s) : s[i] = k

EvictsOldestFirst ==
  [][size' # size \/ ~(queue' \subseteq queue) =>
       \A gone \in queue \ queue', kept \in queue \cap queue' :
         Position(used, gone) < Position(used, kept)]_vars

\* Only who is entitled to evicts, and the right entries.
EvictsLeastRecentlyUsed == AppendIfNotFullEvictsNothing /\ EvictsOldestFirst
=============================================================================
