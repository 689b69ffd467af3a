---------------------------- MODULE OrderedIndex ----------------------------
(***************************************************************************)
(* What BTree promises a caller: a set of keys per object; an insertion    *)
(* adds a key at one instant, and a scan yields the keys of its range that *)
(* the object held when it began, in increasing order, each once.  There   *)
(* are no pages here.                                                      *)
(***************************************************************************)
EXTENDS Integers, Sequences, FiniteSets

CONSTANTS ObjectID, Key, Scanners, NoScan

VARIABLES
    index,  \* the keys of each object
    scans   \* of each scanner: the keys it owes and those it yielded, or NoScan

vars == <<index, scans>>

Init ==
    /\ index = [o \in ObjectID |-> {}]
    /\ scans = [t \in Scanners |-> NoScan]

Insert ==
    \E o \in ObjectID, k \in Key :
        /\ k \notin index[o]
        /\ index' = [index EXCEPT ![o] = @ \cup {k}]
        /\ UNCHANGED scans

Begin(t) ==
    \E o \in ObjectID, start, end \in Key :
        /\ scans[t] = NoScan
        /\ scans' = [scans EXCEPT ![t] =
               [rest |-> {k \in index[o] : start <= k /\ k <= end}, out |-> <<>>]]
        /\ UNCHANGED index

Yield(t) ==
    /\ scans[t] # NoScan
    /\ \E k \in scans[t].rest :
          /\ \A j \in scans[t].rest : k <= j
          /\ scans' = [scans EXCEPT ![t] =
                 [rest |-> scans[t].rest \ {k}, out |-> Append(scans[t].out, k)]]
    /\ UNCHANGED index

End(t) ==
    /\ scans[t] # NoScan /\ scans[t].rest = {}
    /\ scans' = [scans EXCEPT ![t] = NoScan]
    /\ UNCHANGED index

Next == Insert \/ \E t \in Scanners : Begin(t) \/ Yield(t) \/ End(t)

Spec == Init /\ [][Next]_vars
=============================================================================
