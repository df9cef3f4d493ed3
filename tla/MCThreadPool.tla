---------------------------- MODULE MCThreadPool ----------------------------
(***************************************************************************)
(* ThreadPool with two worker threads and three jobs: enough for a full    *)
(* pool, a queue of length two, a sleeping worker beside a busy one, and   *)
(* termination with work still queued.                                     *)
(***************************************************************************)
EXTENDS ThreadPool
=============================================================================
