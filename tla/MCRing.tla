------------------------------- MODULE MCRing -------------------------------
(***************************************************************************)
(* Ring with three blocks of two bytes and a source of six, so that the    *)
(* blocks are filled more than once and the lru evicts; libav asks for     *)
(* less and for more than a block, and reads again after getting nothing.  *)
(***************************************************************************)
EXTENDS Ring
=============================================================================
