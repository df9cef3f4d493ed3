-------------------------------- MODULE MCLru --------------------------------
(***************************************************************************)
(* Lru with two threads in waiting calls, which may wait for the same or   *)
(* for different things while others change the entries, three keys and    *)
(* sizes up to two: full, overfull, empty, and a size of nothing.          *)
(***************************************************************************)
EXTENDS Lru, TLC

Symmetry == Permutations(Threads)
=============================================================================
