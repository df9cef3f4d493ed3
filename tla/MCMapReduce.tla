----------------------------- MODULE MCMapReduce -----------------------------
(***************************************************************************)
(* MapReduce over six frames with two workers: the window of four frames   *)
(* does not cover the media, and jumps go both ways, on to the last frame  *)
(* and back to the first.  Frame 0 cannot be decoded: who waits for it     *)
(* waits for ever, but playing on and jumping back into its reach go on.   *)
(***************************************************************************)
EXTENDS MapReduce
=============================================================================
