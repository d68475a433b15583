-------------------------------- MODULE MCHeap --------------------------------
EXTENDS Heap
=============================================================================
