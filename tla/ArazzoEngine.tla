---------------------------- MODULE ArazzoEngine ----------------------------
(***************************************************************************)
(* The Arazzo workflow engine (arazzo/engine.go, step.go, actions.go).     *)
(* RunAll runs the workflows of a document one after the other, each       *)
(* behind those it depends on; RunWorkflow runs one.  A step executes an   *)
(* operation or runs another workflow, and so may the action that is taken *)
(* behind a step.  What executors, criteria and expressions answer is      *)
(* nondeterministic; the context may be cancelled at any time.             *)
(***************************************************************************)
EXTENDS Naturals, Sequences, SequencesExt, TLC

CONSTANTS
    Workflow,       \* the workflows of every document
    Calls,          \* what the engine is called for, see CallAssumption
    MaxDepth,       \* maxWorkflowDepth, 32 in the code
    MaxTransitions, \* maxStepTransitions, 1024 in the code
    NoWorkflow

\* What is done behind a step, by the first action whose criteria match.
Action(type, workflow, step, limit) ==
    [type |-> type, workflow |-> workflow, step |-> step, limit |-> limit]
NoAction == Action("none", NoWorkflow, 0, 0)
ActionError == Action("error", NoWorkflow, 0, 0)   \* criteria that cannot be evaluated
End == Action("end", NoWorkflow, 0, 0)
Retry(limit) == Action("retry", NoWorkflow, 0, limit)
GotoStep(step) == Action("goto", NoWorkflow, step, 0)
GotoWorkflow(w) == Action("goto", w, 0, 0)

\* A step executes an operation unless it names a workflow.  onSuccess and
\* onFailure are the actions that may be taken, by what the criteria say.
Step(workflow, onSuccess, onFailure) ==
    [workflow |-> workflow, onSuccess |-> onSuccess, onFailure |-> onFailure]

\* A call: the dependsOn, as sets that may name other documents' workflows
\* too, and the steps of the document's workflows, the last of an id counting;
\* the workflows to run, which are RunAll's order or RunWorkflow's one; and
\* whether it is RunAll.
ASSUME CallAssumption ==
    \A c \in Calls :
        /\ DOMAIN c.dependsOn = Workflow /\ DOMAIN c.steps = Workflow
        /\ \A w \in Workflow : c.steps[w] \in Seq(Range(c.steps[w]))
        /\ c.plan \in Seq(Workflow)
        /\ c.all \in BOOLEAN

ASSUME EngineAssumption ==
    /\ NoWorkflow \notin Workflow
    /\ {MaxDepth, MaxTransitions} \subseteq Nat \ {0}

VARIABLES
    given,       \* the call at hand
    pos,         \* the workflow to run next
    stack,       \* the running workflows, the innermost last
    active,      \* activeWorkflows
    results,     \* workflowResults: of each workflow's last run
    reported,    \* the results RunAll returns, in order
    success,     \* RunResult.Success
    cancelled,   \* ctx is done
    call         \* "running", "returned", or "error" when ctx ended it

vars == <<given, pos, stack, active, results, reported, success, cancelled, call>>
run == <<given, pos, reported, success, call>>

plan == given.plan
DependsOn == given.dependsOn
Steps == given.steps
Gated == given.all

Place == {"step", "execute", "call", "succeeded", "failed",
          "gotoEnd", "gotoAbort", "ended", "aborted"}

TypeOK ==
    /\ given \in Calls
    /\ pos \in 1..Len(plan) + 1
    /\ \A k \in DOMAIN stack :
          /\ stack[k].workflow \in Workflow
          /\ stack[k].step \in 1..Len(Steps[stack[k].workflow]) + 1
          /\ stack[k].transitions \in 0..MaxTransitions
          /\ stack[k].retries \in [DOMAIN Steps[stack[k].workflow] -> Nat]
          /\ stack[k].at \in Place
          /\ k < Len(stack) => stack[k].at \in {"call", "gotoEnd", "gotoAbort"}
    /\ active \subseteq Workflow
    /\ results \in [Workflow -> {"none", "ok", "failed"}]
    /\ reported \in Seq(Workflow \X {"ok", "failed"})
    /\ success \in BOOLEAN /\ cancelled \in BOOLEAN
    /\ call \in {"running", "returned", "error"}

Init ==
    /\ given \in Calls
    /\ pos = 1
    /\ stack = << >>
    /\ active = {}
    /\ results = [w \in Workflow |-> "none"]
    /\ reported = << >>
    /\ success = TRUE
    /\ cancelled = FALSE
    /\ call = "running"

-----------------------------------------------------------------------------
(* Starting and ending the run of a workflow. *)

Frame(w) == [workflow |-> w, step |-> 1, transitions |-> 0,
             retries |-> [k \in DOMAIN Steps[w] |-> 0], at |-> "step"]
Top == stack[Len(stack)]
Below == SubSeq(stack, 1, Len(stack) - 1)
Now == Steps[Top.workflow][Top.step]

\* The running workflow goes on at another place.
At(frame) == stack' = [stack EXCEPT ![Len(stack)] = frame]
GoTo(place) == At([Top EXCEPT !.at = place])

Runnable(w) ==
    /\ w \notin active
    /\ Len(stack) < MaxDepth
    /\ w \in Workflow

\* The running workflow waits at `waits` while w runs; it goes on at `fails`
\* if w cannot be run.
Call(w, waits, fails) ==
    IF Runnable(w)
    THEN /\ stack' = Append([stack EXCEPT ![Len(stack)].at = waits], Frame(w))
         /\ active' = active \cup {w}
    ELSE /\ GoTo(fails)
         /\ UNCHANGED active

\* Where the workflow below goes on, and how.  A step that ran a workflow may
\* still fail its criteria.
Resumed(frame, ok) ==
    CASE frame.at = "call" -> IF ok THEN {"succeeded", "failed"} ELSE {"failed"}
      [] frame.at = "gotoEnd" -> IF ok THEN {"ended"} ELSE {"aborted"}
      [] frame.at = "gotoAbort" -> {"aborted"}

FinishKeepsSuccess ==   \* mutant: a failed workflow does not fail the run
    /\ stack # << >>
    /\ \E ok \in BOOLEAN :
          /\ Top.at = "ended" \/ (Top.at = "aborted" /\ ~ok)
          /\ results' = [results EXCEPT ![Top.workflow] = IF ok THEN "ok" ELSE "failed"]
          /\ IF Below = << >>
             THEN /\ stack' = << >>
                  /\ reported' = Append(reported, <<Top.workflow, results'[Top.workflow]>>)
                  /\ pos' = pos + 1
                  /\ UNCHANGED success
             ELSE /\ \E place \in Resumed(Last(Below), ok) :
                        stack' = [Below EXCEPT ![Len(Below)].at = place]
                  /\ UNCHANGED <<reported, success, pos>>
    /\ active' = active \ {Top.workflow}
    /\ UNCHANGED <<given, cancelled, call>>

\* The result is kept, whatever run it is of; the outputs of a workflow that
\* ended well may still fail.
Finish ==
    /\ stack # << >>
    /\ \E ok \in BOOLEAN :
          /\ Top.at = "ended" \/ (Top.at = "aborted" /\ ~ok)
          /\ results' = [results EXCEPT ![Top.workflow] = IF ok THEN "ok" ELSE "failed"]
          /\ IF Below = << >>
             THEN /\ stack' = << >>
                  /\ reported' = Append(reported, <<Top.workflow, results'[Top.workflow]>>)
                  /\ success' = (success /\ ok)
                  /\ pos' = pos + 1
             ELSE /\ \E place \in Resumed(Last(Below), ok) :
                        stack' = [Below EXCEPT ![Len(Below)].at = place]
                  /\ UNCHANGED <<reported, success, pos>>
    /\ active' = active \ {Top.workflow}
    /\ UNCHANGED <<given, cancelled, call>>

-----------------------------------------------------------------------------
(* The loop of runWorkflow over the steps of the innermost workflow. *)

Running(place) == stack # << >> /\ Top.at = place

\* The context is done, the transitions are used up, or all steps are done.
LeaveLoop ==
    /\ Running("step")
    /\ \/ Top.step > Len(Steps[Top.workflow]) /\ GoTo("ended")
       \/ /\ Top.step <= Len(Steps[Top.workflow])
          /\ cancelled \/ Top.transitions = MaxTransitions
          /\ GoTo("aborted")
    /\ UNCHANGED <<active, results, cancelled, run>>

MayStep ==
    /\ Top.step <= Len(Steps[Top.workflow])
    /\ Top.transitions < MaxTransitions
    /\ ~cancelled

CountedLate == IF Top.step > 1 THEN Top.transitions + 1 ELSE 0   \* mutant: a goto starts anew
Counted == Top.transitions + 1

\* The parameters of the step may fail to evaluate.
BeginStep ==
    /\ Running("step")
    /\ MayStep
    /\ LET frame == [Top EXCEPT !.transitions = Counted] IN
       \/ At([frame EXCEPT !.at = "failed"]) /\ UNCHANGED active
       \/ /\ Now.workflow = NoWorkflow
          /\ At([frame EXCEPT !.at = "execute"])
          /\ UNCHANGED active
       \/ /\ Now.workflow # NoWorkflow
          /\ IF Runnable(Now.workflow)
             THEN /\ stack' = Append([stack EXCEPT ![Len(stack)] = [frame EXCEPT !.at = "call"]],
                                     Frame(Now.workflow))
                  /\ active' = active \cup {Now.workflow}
             ELSE At([frame EXCEPT !.at = "failed"]) /\ UNCHANGED active
    /\ UNCHANGED <<results, cancelled, run>>

\* The executor answers, and the criteria and the outputs are evaluated.
Executed ==
    /\ Running("execute")
    /\ GoTo("succeeded") \/ GoTo("failed")
    /\ UNCHANGED <<active, results, cancelled, run>>

\* A goto within the workflow; to a step it does not have, it is an error.
JumpTo(frame, step) ==
    IF step \in DOMAIN Steps[Top.workflow]
    THEN At([frame EXCEPT !.step = step, !.at = "step"])
    ELSE At([frame EXCEPT !.at = "aborted"])

\* The step succeeded: its retries are forgotten.
ProcessSuccess ==
    /\ Running("succeeded")
    /\ \E action \in Now.onSuccess \cup {NoAction} :
          LET frame == [Top EXCEPT !.retries[Top.step] = 0] IN
          \/ /\ action.type = "none"
             /\ At([frame EXCEPT !.step = @ + 1, !.at = "step"])
             /\ UNCHANGED active
          \/ action.type = "end" /\ At([frame EXCEPT !.at = "ended"]) /\ UNCHANGED active
          \/ action.type = "error" /\ At([frame EXCEPT !.at = "aborted"]) /\ UNCHANGED active
          \/ /\ action.type = "goto" /\ action.workflow = NoWorkflow
             /\ JumpTo(frame, action.step)
             /\ UNCHANGED active
          \/ /\ action.type = "goto" /\ action.workflow # NoWorkflow
             /\ Call(action.workflow, "gotoEnd", "aborted")
    /\ UNCHANGED <<results, cancelled, run>>

Retryable(action) == Top.retries[Top.step] < (IF action.limit = 0 THEN 1 ELSE action.limit)

\* The step failed: without an action that says otherwise so does the
\* workflow.  The wait before a retry may be broken off.
ProcessFailure ==
    /\ Running("failed")
    /\ \E action \in Now.onFailure \cup {NoAction} :
          \/ action.type \in {"none", "end", "error"} /\ GoTo("aborted") /\ UNCHANGED active
          \/ action.type = "retry" /\ ~Retryable(action) /\ GoTo("aborted") /\ UNCHANGED active
          \/ /\ action.type = "retry" /\ Retryable(action)
             /\ \E place \in {"step", "aborted"} :
                   At([Top EXCEPT !.retries[Top.step] = @ + 1, !.at = place])
             /\ UNCHANGED active
          \/ /\ action.type = "goto" /\ action.workflow = NoWorkflow
             /\ JumpTo(Top, action.step)
             /\ UNCHANGED active
          \/ /\ action.type = "goto" /\ action.workflow # NoWorkflow
             /\ Call(action.workflow, "gotoAbort", "aborted")
    /\ UNCHANGED <<results, cancelled, run>>

-----------------------------------------------------------------------------
(* RunAll over the order of the workflows; RunWorkflow over one. *)

DependenciesNotFailed(w) ==   \* mutant: a dependency without a result is no error
    \A d \in DependsOn[w] \cap Workflow : results[d] # "failed"

DependenciesMet(w) == \A d \in DependsOn[w] : d \in Workflow /\ results[d] = "ok"

Idle == call = "running" /\ stack = << >>
MayRun(w) == Gated => ~cancelled /\ DependenciesMet(w)

StartWorkflow ==
    /\ Idle /\ pos <= Len(plan)
    /\ MayRun(plan[pos])
    /\ stack' = <<Frame(plan[pos])>>
    /\ active' = {plan[pos]}
    /\ UNCHANGED <<results, cancelled, run>>

\* A dependency failed or has no result: the workflow fails without a run.
SkipDependent ==
    /\ Idle /\ pos <= Len(plan)
    /\ Gated /\ ~cancelled /\ ~DependenciesMet(plan[pos])
    /\ results' = [results EXCEPT ![plan[pos]] = "failed"]
    /\ reported' = Append(reported, <<plan[pos], "failed">>)
    /\ success' = FALSE
    /\ pos' = pos + 1
    /\ UNCHANGED <<given, stack, active, cancelled, call>>

Return ==
    /\ Idle
    /\ \/ pos > Len(plan) /\ call' = "returned"
       \/ pos <= Len(plan) /\ Gated /\ cancelled /\ call' = "error"
    /\ UNCHANGED <<given, pos, stack, active, results, reported, success, cancelled>>

CancelContext ==
    /\ call = "running" /\ ~cancelled
    /\ cancelled' = TRUE
    /\ UNCHANGED <<stack, active, results, run>>

Terminated == call # "running" /\ UNCHANGED vars

Proceed ==
    \/ StartWorkflow \/ SkipDependent \/ Return
    \/ LeaveLoop \/ BeginStep \/ Executed \/ ProcessSuccess \/ ProcessFailure \/ Finish

Next == Proceed \/ CancelContext \/ Terminated

\* The engine runs in its caller's goroutine, and its executor answers.
Spec == Init /\ [][Next]_vars /\ WF_vars(Proceed)

-----------------------------------------------------------------------------

\* What RunAll returns is complete and its Success is the conjunction of its
\* results, however often a workflow was run again inside another.
SummaryIsTruthful ==
    call = "returned" =>
        /\ [k \in DOMAIN reported |-> reported[k][1]] = plan
        /\ success <=> \A k \in DOMAIN reported : reported[k][2] = "ok"

\* What the steps and the gotos of the document run.
AllSteps == UNION {Range(Steps[w]) : w \in Workflow}
AllActions == UNION {step.onSuccess \cup step.onFailure : step \in AllSteps}
Called == {x.workflow : x \in AllSteps \cup AllActions}

\* A workflow that RunAll reports as successful has all it depends on reported
\* before it, as successful (dependencyExecutionError).  Of a dependency that a
\* step or a goto runs too this need not be so: the last run counts.
DependenciesReported ==
    Gated => \A k \in DOMAIN reported : reported[k][2] = "ok" =>
        \A d \in DependsOn[reported[k][1]] \ Called :
            \E j \in 1..k - 1 : reported[j] = <<d, "ok">>

\* Every run ends: gotos, retries and workflows that run each other included
\* (maxStepTransitions, maxWorkflowDepth and activeWorkflows).
CallReturns == <>(call # "running")

=============================================================================
