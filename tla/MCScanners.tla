------------------------------ MODULE MCScanners ------------------------------
(* Two LBAs, which every batch trims in ascending order.                   *)
EXTENDS Scanners

CONSTANTS a1, a2, m, d, p1

Sorted == {<<1, 2>>}

\* Two blocks of the queue need not have their LBAs in the same order.
Unsorted == {<<1, 2>>, <<2, 1>>}
=============================================================================
