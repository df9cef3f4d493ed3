------------------------------ MODULE MCWorker ------------------------------
(***************************************************************************)
(* Worker with jobs of each kind: one-shot or reoccurring, ending by       *)
(* themselves or only when told to.  Every kind is cancelled, cleared,     *)
(* waited for and stopped.                                                 *)
(***************************************************************************)
EXTENDS Worker, TLC

CONSTANTS first, second, third

MCNumber == [j \in Jobs |-> ((first :> 1) @@ (second :> 2) @@ (third :> 3))[j]]
MCPrio == [j \in Jobs |-> 0]
=============================================================================
