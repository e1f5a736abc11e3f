------------------------- MODULE RolodexCircularMC --------------------------
(* A rolodex of two or three documents for RolodexCircular; each may come   *)
(* upon any loop, and loops may be shared.                                  *)
EXTENDS RolodexCircular, TLC

CONSTANTS idxRoot, idxA, idxB, safeLoop, infLoop, ignLoop

ThreeLoops == {safeLoop, infLoop, ignLoop}
ClassOf == (safeLoop :> "safe") @@ (infLoop :> "infinite") @@ (ignLoop :> "ignored")
TwoOthers == {idxA, idxB}
=============================================================================
