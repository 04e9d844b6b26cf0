---------------------------- MODULE MCBufferPool -----------------------------
(***************************************************************************)
(* Names for the threads of a small buffer pool.                           *)
(***************************************************************************)
EXTENDS BufferPool

CONSTANTS t1, t2, t3, t4
=============================================================================
