--------------------------- MODULE ArazzoEngineMC ---------------------------
(* Documents for the Arazzo engine. *)
EXTENDS ArazzoEngine

CONSTANTS login, list, pay, audit, ghost

CallOf(dependsOn, steps, order, all) ==
    [dependsOn |-> dependsOn, steps |-> steps, plan |-> order, all |-> all]
Operation(onSuccess, onFailure) == Step(NoWorkflow, onSuccess, onFailure)
RunOf(w, onSuccess, onFailure) == Step(w, onSuccess, onFailure)

\* pay depends on list, which depends on login; each may run audit on the way.
ChainWorkflow == {login, list, pay, audit}
ChainDependsOn == (login :> {}) @@ (list :> {login}) @@ (pay :> {list, login}) @@ (audit :> {})
ChainSteps ==
    (login :> <<Operation({End}, {Retry(2), ActionError})>>)
    @@ (list :> <<Operation({GotoStep(2), GotoStep(0)}, {GotoWorkflow(audit), End}),
                  RunOf(audit, {GotoStep(1)}, {Retry(0)})>>)
    @@ (pay :> <<Operation({ActionError, GotoWorkflow(audit)}, {GotoStep(1), GotoStep(0)})>>)
    @@ (audit :> <<Operation({}, {})>>)
ChainCall == CallOf(ChainDependsOn, ChainSteps, <<login, audit, list, pay>>, TRUE)

\* A dependency that is in another document.
GhostDependsOn == (login :> {ghost}) @@ (list :> {login}) @@ (pay :> {}) @@ (audit :> {pay})
GhostCall == CallOf(GhostDependsOn, ChainSteps, <<pay, login, audit, list>>, TRUE)

\* pay runs list, which others depend on, out of its turn.
NestedSteps == [ChainSteps EXCEPT ![pay] = <<RunOf(list, {}, {})>>]
NestedDependsOn == (login :> {}) @@ (list :> {login}) @@ (pay :> {}) @@ (audit :> {list})
NestedCall == CallOf(NestedDependsOn, NestedSteps, <<login, pay, list, audit>>, TRUE)

\* The document has login twice and audit waits for itself: the order that is accepted for
\* it has login twice and audit not at all (RootsOnce in ArazzoOrder).
RepeatedDependsOn == (login :> {}) @@ (list :> {login}) @@ (pay :> {list}) @@ (audit :> {audit})
RepeatedCall == CallOf(RepeatedDependsOn, NestedSteps, <<login, login, list, pay>>, TRUE)

\* login and list run each other, list and pay run themselves.
LoopSteps ==
    (login :> <<RunOf(list, {GotoStep(1)}, {GotoStep(2), Retry(1)}), Operation({End}, {})>>)
    @@ (list :> <<Operation({GotoWorkflow(login), GotoWorkflow(pay)}, {GotoWorkflow(list), Retry(2)})>>)
    @@ (pay :> <<RunOf(pay, {}, {GotoWorkflow(audit), GotoStep(1)}), RunOf(ghost, {}, {})>>)
    @@ (audit :> << >>)
LoopCalls == {CallOf(ChainDependsOn, LoopSteps, <<w>>, FALSE) : w \in {login, list, pay}}

AllCalls == {ChainCall, GhostCall, NestedCall, RepeatedCall} \cup LoopCalls
=============================================================================
