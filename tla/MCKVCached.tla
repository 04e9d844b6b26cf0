------------------------------ MODULE MCKVCached ------------------------------
(***************************************************************************)
(* Small caches for TLC.  Every key has a slot of its own on the media.    *)
(***************************************************************************)
EXTENDS KVCached, TLC

CONSTANTS k1, k2, k3, v1, t1, t2

OwnSlots == [k \in Keys |-> IF k = k1 THEN <<1>> ELSE IF k = k2 THEN <<2>> ELSE <<3>>]

\* Windows of two places, as sequential_probe gives them: k1 and k2 hash to place
\* 1 of the cache and k3 to place 2.
Windows == [k \in Keys |-> IF k = k3 THEN <<2, 3>> ELSE <<1, 2>>]

\* Nothing tells threads apart.
Alike == Permutations(Threads)

OneSize == [v \in Values |-> 1]
=============================================================================
