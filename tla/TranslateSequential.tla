------------------------- MODULE TranslateSequential ------------------------
(***************************************************************************)
(* The inline loop of TranslateSliceParallel and TranslateMapParallel, for *)
(* collections up to parallelTranslateThreshold: the abstract              *)
(* specification of the worker pool, which must have "same observable      *)
(* semantics" (datamodel/translate.go:56).                                 *)
(***************************************************************************)
EXTENDS TranslateItems

VARIABLES
    items,      \* the callbacks' answers, fixed by the caller
    next,       \* the item the loop handles next
    delivered,  \* the items result() was called with, in order
    verdict     \* what the call returns

vars == <<items, next, delivered, verdict>>

Init ==
    /\ items \in Inputs
    /\ next = 1
    /\ delivered = << >>
    /\ verdict = Running

Deliver ==
    delivered' = IF Delivers(items[next]) THEN Append(delivered, next) ELSE delivered

Handle ==
    /\ verdict = Running
    /\ next \in Index
    /\ Deliver
    /\ next' = next + 1
    /\ verdict' = IF GoesOn(items[next]) THEN Running ELSE VerdictOf(next, items[next])
    /\ UNCHANGED items

Finish ==
    /\ verdict = Running
    /\ next = N + 1
    /\ verdict' = << >>
    /\ UNCHANGED <<items, next, delivered>>

Next == Handle \/ Finish

Safety == Init /\ [][Next]_vars
Spec == Safety /\ WF_vars(Next)
=============================================================================
