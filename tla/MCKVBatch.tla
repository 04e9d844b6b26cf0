------------------------------ MODULE MCKVBatch -------------------------------
(***************************************************************************)
(* A small store for batches: two keys that share their first and their    *)
(* last slot.                                                              *)
(***************************************************************************)
EXTENDS KVBatch, TLC

CONSTANTS k1, k2, v1, v2, t1

Threefold == k1 :> <<1, 2, 4>> @@ k2 :> <<1, 3, 4>>

Longer == v1 :> 1 @@ v2 :> 3
=============================================================================
