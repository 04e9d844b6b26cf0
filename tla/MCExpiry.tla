------------------------------- MODULE MCExpiry -------------------------------
(* Two keys with a slot each, which are the LBAs 1 and 2.                  *)
EXTENDS Expiry, TLC

CONSTANTS k1, k2, v1, t1, a1, m

Own == (k1 :> <<1>>) @@ (k2 :> <<2>>)
\* What an earlier session left: records that expire at 1.
Earlier == [key : Keys, val : Values, secs : {1}, expiry : {1}]

OneSector == [v \in Values |-> 1]
=============================================================================
