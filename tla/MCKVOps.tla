------------------------------- MODULE MCKVOps -------------------------------
(***************************************************************************)
(* Small stores for TLC: two keys, two or three slots, two probes.         *)
(***************************************************************************)
EXTENDS KVHistory, TLC

CONSTANTS k1, k2, v1, v2, t1, t2, t3

\* The slots are the numbers 1, 2, ...

\* Both keys hash to slot 1; then k1 goes to slot 2 and k2 to slot 3.
Colliding == k1 :> <<1, 2>> @@ k2 :> <<1, 3>>

\* One key and its two slots.
SingleKey == k1 :> <<1, 2>>

\* One value; two values of the same size.
OneValue == v1 :> 1
SameSize == v1 :> 1 @@ v2 :> 1

\* Neither a write nor a read of kv_exists, whose failures have findings of their
\* own, fails.
AllButWrites == DevicePcs \ {"put_write", "read_media"}
=============================================================================
