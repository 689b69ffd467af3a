---------------------------- MODULE MCBTreeOnPool ----------------------------
(* Instances of BTreeOnPool for TLC. *)
EXTENDS BTreeOnPool

CONSTANTS t1, t2

\* The whole tree, its middle, its right half.
SomeRanges == {<<1, 4>>, <<2, 3>>, <<3, 4>>}
=============================================================================
