----------------------------- MODULE MCThreader -----------------------------
(***************************************************************************)
(* Threader with three kinds of client: one that seeks everywhere in media *)
(* of one length, about the cache; one that seeks little and changes every *)
(* property, about the control of the worker thread; and one whose input   *)
(* fails, shrinks, changes and is used without a sync, with an empty queue.*)
(***************************************************************************)
EXTENDS Threader

Cache ==
  [targets |-> -1..7, offsets |-> {}, actives |-> {1}, queues |-> {},
   queue |-> 4, inputs |-> {"safe"}, synced |-> TRUE,
   lengths |-> {6}, mayShrink |-> FALSE, faulty |-> FALSE]

Control ==
  [targets |-> 0..2, offsets |-> {-1, 1}, actives |-> {0, 1}, queues |-> {1},
   queue |-> 2, inputs |-> {"safe"}, synced |-> TRUE,
   lengths |-> {2, 3}, mayShrink |-> FALSE, faulty |-> FALSE]

Faults(isSynced) ==
  [targets |-> {0, 1}, offsets |-> {}, actives |-> {0, 1}, queues |-> {0},
   queue |-> 2, inputs |-> {"safe", "unsafe"}, synced |-> isSynced,
   lengths |-> {1, 2}, mayShrink |-> TRUE, faulty |-> TRUE]

\* The same faults, but every input can be read by any thread.
SafeFaults == [Faults(FALSE) EXCEPT !.inputs = {"safe"}]

MCSetups == {Cache, Faults(TRUE), Faults(FALSE), SafeFaults}
MCControl == {Control}
=============================================================================
