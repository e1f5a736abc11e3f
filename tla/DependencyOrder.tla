-------------------------- MODULE DependencyOrder --------------------------
(***************************************************************************)
(* What an order of the workflows of an Arazzo document is: each is taken  *)
(* once, behind all it depends on, and there is none exactly when those    *)
(* that are left all wait for another that is left.                        *)
(***************************************************************************)
EXTENDS Sequences, Functions

CONSTANT
    Name         \* what workflows may be called and depend on

VARIABLES
    dependsOn,   \* the document at hand: what each of its workflows depends on
    order,       \* the workflows taken
    outcome      \* "running", "sorted" or "cycle"

orderVars == <<dependsOn, order, outcome>>

Left == DOMAIN dependsOn \ Range(order)
\* A dependency that the document does not have is passed over.
Ready(w) == dependsOn[w] \cap Left = {}

Init ==
    /\ DOMAIN dependsOn \subseteq Name
    /\ dependsOn \in [DOMAIN dependsOn -> SUBSET Name]
    /\ order = << >>
    /\ outcome = "running"

Take ==
    /\ outcome = "running"
    /\ \E w \in Left : Ready(w) /\ order' = Append(order, w)
    /\ UNCHANGED <<dependsOn, outcome>>

Finish ==
    /\ outcome = "running"
    /\ \A w \in Left : ~Ready(w)
    /\ outcome' = IF Left = {} THEN "sorted" ELSE "cycle"
    /\ UNCHANGED <<dependsOn, order>>

Next == Take \/ Finish

Safety == Init /\ [][Next]_orderVars
Spec == Safety /\ WF_orderVars(Next)
=============================================================================
