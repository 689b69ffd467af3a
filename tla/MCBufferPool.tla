---------------------------- MODULE MCBufferPool ----------------------------
(* Instances of BufferPool for TLC: who may hold how many PageRefs. *)
EXTENDS BufferPool

CONSTANTS t1, t2

OneThread  == {<<t1, 1>>, <<t1, 2>>, <<t1, 3>>}
TwoThreads == {<<t1, 1>>, <<t1, 2>>, <<t2, 1>>}
TwoSingles == {<<t1, 1>>, <<t2, 1>>}
=============================================================================
