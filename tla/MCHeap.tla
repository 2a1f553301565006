------------------------------- MODULE MCHeap -------------------------------
(* Instances of the memory pool.                                           *)
EXTENDS Heap
=============================================================================
