------------------------------- MODULE MCBTree -------------------------------
(* Instances of BTree for TLC. *)
EXTENDS BTree

CONSTANTS t1, t2, t3

\* Bound: the pages of a tree into which keys are inserted again.  A key that got
\* into two leaves can be doubled once more, without end.
CONSTANT MaxPages

BoundedNext ==
    \/ Next /\ NewID' <= MaxPages
    \/ NewID = MaxPages /\ UNCHANGED vars

BoundedSpec == Init /\ [][BoundedNext]_vars
=============================================================================
