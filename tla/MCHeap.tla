------------------------------- MODULE MCHeap -------------------------------
(* A small arena for the heap: room for the first header's block to be cut  *)
(* into up to five blocks, with sizes that are not multiples of 16.         *)
EXTENDS Heap

MCReserve == 192
MCSizes == {0, 17, 40}
=============================================================================
