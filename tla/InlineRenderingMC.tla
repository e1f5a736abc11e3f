------------------------- MODULE InlineRenderingMC -------------------------
(***************************************************************************)
(* Documents for InlineRendering: schemas A to D, rendered from A.         *)
(***************************************************************************)
EXTENDS InlineRendering, TLC

All == {"A", "B", "C", "D"}
InRoot == [s \in All |-> "root"]
OwnNames == [s \in All |-> s]

Document(a, b, c, d, files, names, discriminated, broken, loops) ==
    [uses |-> [A |-> a, B |-> b, C |-> c, D |-> d], file |-> files, name |-> names,
     whole |-> {}, discriminated |-> discriminated, broken |-> broken, loops |-> loops,
     entry |-> "A"]

\* Two ways to one schema, both by dynamic values.
Diamond ==
    Document(<<By("ref", "B"), InDynamic(By("ref", "C"))>>,
             <<InDynamic(By("ref", "D"))>>, <<InDynamic(By("ref", "D"))>>, <<>>,
             InRoot, OwnNames, {}, {}, {})
\* A list of itself, below an inline schema.
Tree ==
    Document(<<By("inline", "B")>>, <<InDynamic(By("ref", "C"))>>,
             <<InDynamic(By("ref", "C")), By("ref", "D")>>, <<>>,
             InRoot, OwnNames, {}, {}, {"C"})
\* A circle in another file.
Abroad ==
    Document(<<By("ref", "B"), By("ref", "D")>>, <<By("ref", "C")>>,
             <<By("ref", "B")>>, <<By("inline", "C")>>,
             [InRoot EXCEPT !["B"] = "other", !["C"] = "other", !["D"] = "other"],
             OwnNames, {}, {}, {"B"})
\* A union with a discriminator, whose parts refer back to it.
Union ==
    Document(<<InUnion(By("ref", "B")), InUnion(By("ref", "C"))>>,
             <<By("ref", "C"), By("ref", "A")>>, <<By("ref", "A")>>, <<>>,
             InRoot, OwnNames, {"A"}, {}, {"A"})
\* Schemas of one name in two files, one of them on a circle.
Namesakes ==
    Document(<<By("ref", "B"), By("ref", "C")>>, <<By("ref", "B")>>,
             <<By("ref", "D")>>, <<>>,
             [InRoot EXCEPT !["C"] = "other", !["D"] = "other"],
             [OwnNames EXCEPT !["C"] = "B"], {}, {}, {"B"})
\* References that the program has made, to what it preserves and does not, and a
\* schema that cannot be built.
Made ==
    Document(<<InUnion(By("made", "B")), By("ref", "B"), By("ref", "C")>>,
             <<>>, <<By("made", "D"), By("inline", "D")>>, <<>>,
             InRoot, OwnNames, {"A"}, {"D"}, {})

\* B is a whole file, on a circle with C, which has D beside it.
WholeFile ==
    [Document(<<By("ref", "D"), By("ref", "B")>>, <<By("ref", "C"), By("ref", "D")>>,
              <<By("ref", "B")>>, <<>>,
              [InRoot EXCEPT !["B"] = "other", !["D"] = "other"],
              OwnNames, {}, {}, {"B"})
     EXCEPT !.whole = {"B"}]

SomeDocuments == {Diamond, Tree, Abroad, Union, Namesakes, Made, WholeFile}
=============================================================================
