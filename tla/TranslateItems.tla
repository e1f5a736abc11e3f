--------------------------- MODULE TranslateItems ---------------------------
(***************************************************************************)
(* The items TranslateSliceParallel and TranslateMapParallel are given     *)
(* (datamodel/translate.go), and what handling one of them does, shared by *)
(* the sequential and the parallel implementation.                         *)
(***************************************************************************)
EXTENDS Naturals, Sequences

CONSTANTS
    N,                  \* len(in)
    HonoursContinue,    \* TRUE: slice; FALSE: map, where Continue is an error
    ResultCallback,     \* FALSE: result == nil
    Inputs,             \* the collections, by what the callbacks answer
    Running             \* the verdict while the call has not decided yet

Index == 1..N

\* What the two callbacks answer for an item: nil or an error.  fail stands
\* for any error but io.EOF and datamodel.Continue.
TranslateAnswer == {"nil", "continue", "eof", "fail"}
ResultAnswer == {"nil", "eof", "fail"}
Item == [translate : TranslateAnswer, result : ResultAnswer]

\* An error is known by the item and the callback it comes from.
Error == Index \X {"translate", "result"}
Verdict == {Running} \cup {<< >>} \cup Error     \* << >> is a nil error

ASSUME ItemsAssumption ==
    /\ N \in Nat
    /\ HonoursContinue \in BOOLEAN
    /\ ResultCallback \in BOOLEAN
    /\ Inputs \subseteq [Index -> Item]
    /\ Running \notin {<< >>} \cup Error

Skipped(item) == item.translate = "continue" /\ HonoursContinue
Translated(item) == item.translate = "nil" \/ Skipped(item)

\* result() is called for it.
Delivers(item) == item.translate = "nil" /\ ResultCallback

\* Iteration goes on behind it.
GoesOn(item) == Translated(item) /\ (Delivers(item) => item.result = "nil")

\* What the call returns if the item ends it: io.EOF ends it without an error.
VerdictOf(i, item) ==
    LET by == IF Translated(item) THEN "result" ELSE "translate"
    IN  IF item[by] = "eof" THEN << >> ELSE <<i, by>>
=============================================================================
