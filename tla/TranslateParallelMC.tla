------------------------ MODULE TranslateParallelMC -------------------------
(* Small pools and collections for TranslateParallel. *)
EXTENDS TranslateParallel

CONSTANTS w1, w2, w3
TwoWorkers == {w1, w2}
ThreeWorkers == {w1, w2, w3}

Plain == [translate |-> "nil", result |-> "nil"]
Odd == {[translate |-> "nil", result |-> r] : r \in {"eof", "fail"}}
       \cup {[translate |-> t, result |-> "nil"] : t \in {"continue", "eof", "fail"}}

\* Up to two items that do not simply go on.
UpToTwoOdd ==
    {f \in [Index -> {Plain} \cup Odd] : Cardinality({i \in Index : f[i] # Plain}) <= 2}
=============================================================================
