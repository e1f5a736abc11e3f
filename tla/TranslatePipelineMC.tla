------------------------ MODULE TranslatePipelineMC -------------------------
(* Small pools and inputs for TranslatePipeline. *)
EXTENDS TranslatePipeline

CONSTANTS w1, w2
OneWorker == {w1}
TwoWorkers == {w1, w2}

\* Up to two inputs that are skipped or fail.
UpToTwoOdd ==
    {f \in [Index -> Answer] : Cardinality({i \in Index : f[i] # "nil"}) <= 2}
=============================================================================
