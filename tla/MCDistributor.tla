---------------------------- MODULE MCDistributor ----------------------------
(***************************************************************************)
(* Distributor over five frames with two pool threads.  A queue of 4 makes *)
(* the client schedule a frame beyond its own, forwards and backwards, and *)
(* makes the lru too small for the media; frame 2 cannot be decoded.       *)
(***************************************************************************)
EXTENDS Distributor
=============================================================================
