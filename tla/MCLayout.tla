------------------------------- MODULE MCLayout -------------------------------
(* A device of 64 sectors: 16 ranges of 4 sectors, the first two of which   *)
(* have metadata and pool tags.                                             *)
EXTENDS Layout

CONSTANTS k1, k2
=============================================================================
