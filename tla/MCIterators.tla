---------------------------- MODULE MCIterators ------------------------------
(***************************************************************************)
(* A small store with three pools.  Two of them, the default pool among    *)
(* them, have the hash 0, so that their iterators see every record.        *)
(***************************************************************************)
EXTENDS Iterators, TLC

CONSTANTS t1, t2

Hashes == 0 :> 0 @@ 1 :> 0 @@ 2 :> 1
Bits == <<0, 0, 1>>
Symmetry == Permutations(Threads)
=============================================================================
