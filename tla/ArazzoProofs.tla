---------------------------- MODULE ArazzoProofs ----------------------------
(***************************************************************************)
(* Proofs about the Arazzo engine, for every document and every answer of  *)
(* executors, criteria and expressions, and about the order in which       *)
(* RunAll runs the workflows.                                              *)
(*                                                                         *)
(* What is reported tells of the workflows of the plan, although others    *)
(* run inside them and store results too: the outermost frame of the       *)
(* stack is the workflow whose turn it is, and every other frame is of one *)
(* that a step or a goto has called (StackInv).                            *)
(***************************************************************************)
EXTENDS ArazzoEngine, ArazzoOrder, SequenceTheorems, FiniteSetTheorems, NaturalsInduction,
        WellFoundedInduction, TLAPS

\* A running workflow.
FramesOf(w) ==
    [workflow : {w}, step : 1..Len(Steps[w]) + 1, transitions : 0..MaxTransitions,
     retries : [DOMAIN Steps[w] -> Nat], at : Place]
Frames == UNION {FramesOf(w) : w \in Workflow}

Waits == {"call", "gotoEnd", "gotoAbort"}
InStep == {"execute", "call", "succeeded", "failed"}

HasStep(frame) == frame.at \in InStep => frame.step \in DOMAIN Steps[frame.workflow]

SoundStack(s) ==
    /\ s \in Seq(Frames)
    /\ \A k \in 1..Len(s) : HasStep(s[k])
    /\ \A k \in 1..Len(s) : k < Len(s) => s[k].at \in Waits
    /\ \A k \in 1..Len(s) : k > 1 => s[k].workflow \in Called

DataInv ==
    /\ given \in Calls
    /\ pos \in 1..Len(plan) + 1
    /\ active \subseteq Workflow
    /\ results \in [Workflow -> {"none", "ok", "failed"}]
    /\ success \in BOOLEAN /\ cancelled \in BOOLEAN
    /\ call \in {"running", "returned", "error"}

StackInv ==
    /\ SoundStack(stack)
    /\ stack # << >> =>
          call = "running" /\ pos <= Len(plan) /\ stack[1].workflow = plan[pos]

\* The reports are those of the plan up to here.
ReportInv ==
    /\ reported \in Seq(Workflow \X {"ok", "failed"})
    /\ Len(reported) = pos - 1
    /\ \A k \in 1..Len(reported) : reported[k][1] = plan[k]
    /\ success <=> \A k \in 1..Len(reported) : reported[k][2] = "ok"
    /\ call = "returned" => pos > Len(plan)

ReportedOk(d) == \E j \in 1..Len(reported) : reported[j] = <<d, "ok">>

\* What nobody calls is reported when it is done, and the dependencies of the
\* workflow whose turn it is were.
DependencyInv ==
    /\ \A d \in Workflow \ Called : results[d] = "ok" => ReportedOk(d)
    /\ Gated /\ stack # << >> => \A d \in DependsOn[plan[pos]] \ Called : ReportedOk(d)
    /\ DependenciesReported

IInv == DataInv /\ StackInv /\ ReportInv /\ DependencyInv

-----------------------------------------------------------------------------
(* The document. *)

LEMMA GivenFacts ==
    ASSUME given \in Calls
    PROVE  /\ plan \in Seq(Workflow)
           /\ \A w \in Workflow : DOMAIN Steps[w] = 1..Len(Steps[w]) /\ Len(Steps[w]) \in Nat
  <1>1. plan \in Seq(Workflow)
    BY CallAssumption DEF plan
  <1>2. ASSUME NEW w \in Workflow
        PROVE  DOMAIN Steps[w] = 1..Len(Steps[w]) /\ Len(Steps[w]) \in Nat
    <2>1. Steps[w] \in Seq(Range(Steps[w]))
      BY CallAssumption DEF Steps
    <2>. QED
      BY <2>1
  <1>. QED
    BY <1>1, <1>2

\* What a step names is called.
LEMMA StepsCall ==
    ASSUME given \in Calls, NEW w \in Workflow, NEW k \in DOMAIN Steps[w]
    PROVE  /\ Steps[w][k].workflow \in Called
           /\ \A a \in Steps[w][k].onSuccess : a.workflow \in Called
           /\ \A a \in Steps[w][k].onFailure : a.workflow \in Called
  <1>1. Steps[w][k] \in AllSteps
    BY DEF AllSteps, Range
  <1>2. \A a \in Steps[w][k].onSuccess \cup Steps[w][k].onFailure : a \in AllActions
    BY <1>1 DEF AllActions
  <1>. QED
    BY <1>1, <1>2 DEF Called

-----------------------------------------------------------------------------
(* What a step may do to the stack: change the workflow that runs, call    *)
(* another, or go back to the one below.                                   *)

LEMMA FrameFacts ==
    ASSUME given \in Calls, NEW frame \in Frames
    PROVE  /\ frame.workflow \in Workflow
           /\ frame \in FramesOf(frame.workflow)
  <1>1. PICK w \in Workflow : frame \in FramesOf(w)
    BY DEF Frames
  <1>2. frame.workflow = w
    BY <1>1 DEF FramesOf
  <1>. QED
    BY <1>1, <1>2

LEMMA OthersWait ==
    ASSUME NEW s, SoundStack(s), NEW k \in 1..Len(s), k # Len(s)
    PROVE  s[k].at \in Waits
  <1>1. Len(s) \in Nat
    BY DEF SoundStack
  <1>2. k < Len(s)
    BY <1>1
  <1>. QED
    BY <1>2, Zenon DEF SoundStack

LEMMA TopFacts ==
    ASSUME given \in Calls, SoundStack(stack), stack # << >>
    PROVE  /\ Len(stack) \in Nat /\ Len(stack) > 0 /\ DOMAIN stack = 1..Len(stack)
           /\ Top \in Frames
           /\ Top.workflow \in Workflow
           /\ Top \in FramesOf(Top.workflow)
           /\ HasStep(Top)
  <1>1. stack \in Seq(Frames)
    BY DEF SoundStack
  <1>2. Len(stack) \in Nat /\ Len(stack) > 0 /\ DOMAIN stack = 1..Len(stack)
    BY <1>1
  <1>3. Top \in Frames /\ HasStep(Top)
    BY <1>1, <1>2 DEF Top, SoundStack
  <1>. QED
    BY <1>2, <1>3, FrameFacts

LEMMA WorkflowStarts ==
    ASSUME given \in Calls, NEW w \in Workflow
    PROVE  /\ Frame(w) \in FramesOf(w) /\ Frame(w) \in Frames
           /\ Frame(w).workflow = w /\ HasStep(Frame(w))
  <1>0. DOMAIN Steps[w] = 1..Len(Steps[w]) /\ Len(Steps[w]) \in Nat
    BY GivenFacts
  <1>1. [k \in DOMAIN Steps[w] |-> 0] \in [DOMAIN Steps[w] -> Nat]
    OBVIOUS
  <1>2. Frame(w) \in FramesOf(w)
    BY <1>0, <1>1, EngineAssumption DEF Frame, FramesOf, Place
  <1>3. Frame(w).workflow = w /\ Frame(w).at = "step"
    BY DEF Frame
  <1>4. HasStep(Frame(w))
    BY <1>3 DEF HasStep, InStep
  <1>. QED
    BY <1>2, <1>3, <1>4 DEF Frames

LEMMA TopChanges ==
    ASSUME given \in Calls, SoundStack(stack), stack # << >>,
           NEW frame \in FramesOf(Top.workflow), HasStep(frame), At(frame)
    PROVE  /\ SoundStack(stack')
           /\ stack' # << >>
           /\ stack'[1].workflow = stack[1].workflow
  <1>0. Len(stack) \in Nat /\ Len(stack) # 0
    BY TopFacts
  <1>1. /\ stack \in Seq(Frames) /\ Len(stack) \in Nat /\ Len(stack) > 0
        /\ DOMAIN stack = 1..Len(stack) /\ Top.workflow \in Workflow
    BY TopFacts DEF SoundStack
  <1>2. frame \in Frames /\ frame.workflow = Top.workflow
    BY <1>1, FrameFacts DEF Frames, FramesOf
  <1>3. /\ stack' \in Seq(Frames) /\ Len(stack') = Len(stack)
        /\ \A k \in 1..Len(stack) : stack'[k] = IF k = Len(stack) THEN frame ELSE stack[k]
    BY <1>1, <1>2 DEF At
  <1>4. \A k \in 1..Len(stack) : stack'[k].workflow = stack[k].workflow
    BY <1>2, <1>3 DEF Top
  <1>5. SoundStack(stack')
    <2>1. \A k \in 1..Len(stack) : HasStep(stack'[k])
      BY <1>3 DEF SoundStack
    <2>2. ASSUME NEW k \in 1..Len(stack), k < Len(stack)
          PROVE  stack'[k].at \in Waits
      <3>1. k # Len(stack)
        BY ONLY <1>0, <2>2
      <3>2. stack[k].at \in Waits
        BY <3>1, OthersWait
      <3>. QED
        BY ONLY <1>3, <3>1, <3>2, k \in 1..Len(stack)
    <2>3. \A k \in 1..Len(stack) : k > 1 => stack'[k].workflow \in Called
      BY <1>4 DEF SoundStack
    <2>. QED
      BY <1>3, <2>1, <2>2, <2>3 DEF SoundStack
  <1>6. stack' # << >>
    BY ONLY <1>0, <1>3
  <1>. QED
    BY <1>1, <1>4, <1>5, <1>6

LEMMA WorkflowIsCalled ==
    ASSUME given \in Calls, SoundStack(stack), stack # << >>,
           NEW frame \in FramesOf(Top.workflow), HasStep(frame), frame.at \in Waits,
           NEW w \in Workflow, w \in Called,
           stack' = Append([stack EXCEPT ![Len(stack)] = frame], Frame(w))
    PROVE  /\ SoundStack(stack')
           /\ stack' # << >>
           /\ stack'[1].workflow = stack[1].workflow
  <1>1. /\ stack \in Seq(Frames) /\ Len(stack) \in Nat /\ Len(stack) > 0
        /\ DOMAIN stack = 1..Len(stack) /\ Top.workflow \in Workflow
    BY TopFacts DEF SoundStack
  <1>2. frame \in Frames /\ frame.workflow = Top.workflow
    BY <1>1, FrameFacts DEF Frames, FramesOf
  <1>3. Frame(w) \in Frames /\ Frame(w).workflow = w /\ HasStep(Frame(w))
    BY WorkflowStarts
  <1> DEFINE s == [stack EXCEPT ![Len(stack)] = frame]
  <1>4. /\ s \in Seq(Frames) /\ Len(s) = Len(stack)
        /\ \A k \in 1..Len(stack) : s[k] = IF k = Len(stack) THEN frame ELSE stack[k]
    BY <1>1, <1>2
  <1>11. stack' = Append(s, Frame(w))
    OBVIOUS
  <1> HIDE DEF s
  <1>5. /\ stack' \in Seq(Frames) /\ Len(stack') = Len(stack) + 1
        /\ stack'[Len(stack) + 1] = Frame(w)
        /\ \A k \in 1..Len(stack) : stack'[k] = s[k]
    <2>1. Frame(w) \in Frames
      BY <1>3
    <2>2. stack' \in Seq(Frames)
      BY ONLY <1>4, <2>1, <1>11, AppendProperties
    <2>3. Len(stack') = Len(s) + 1 /\ stack'[Len(s) + 1] = Frame(w)
      BY ONLY <1>4, <2>1, <1>11, AppendProperties
    <2>4. \A k \in 1..Len(s) : stack'[k] = s[k]
      BY ONLY <1>4, <2>1, <1>11, AppendProperties
    <2>. QED
      BY ONLY <1>4, <2>2, <2>3, <2>4
  <1>6. \A k \in 1..Len(stack) : stack'[k] = IF k = Len(stack) THEN frame ELSE stack[k]
    BY <1>4, <1>5
  <1>7. \A k \in 1..Len(stack) : stack'[k].workflow = stack[k].workflow
    BY <1>2, <1>6 DEF Top
  <1>8. \A k \in 1..Len(stack') : k \in 1..Len(stack) \/ k = Len(stack) + 1
    BY ONLY <1>1, <1>5
  <1>9. SoundStack(stack')
    <2>1. \A k \in 1..Len(stack') : HasStep(stack'[k])
      BY <1>3, <1>5, <1>6, <1>8 DEF SoundStack
    <2>2. ASSUME NEW k \in 1..Len(stack'), k < Len(stack')
          PROVE  stack'[k].at \in Waits
      <3>1. k \in 1..Len(stack)
        BY ONLY <1>1, <1>5, <1>8, <2>2, k \in 1..Len(stack')
      <3>2. k # Len(stack) => stack[k].at \in Waits
        BY <3>1, OthersWait
      <3>. QED
        BY <1>6, <3>1, <3>2
    <2>3. \A k \in 1..Len(stack') : k > 1 => stack'[k].workflow \in Called
      BY <1>3, <1>5, <1>7, <1>8 DEF SoundStack
    <2>. QED
      BY <1>5, <2>1, <2>2, <2>3 DEF SoundStack
  <1>10. stack' # << >>
    BY ONLY <1>1, <1>5
  <1>12. stack'[1].workflow = stack[1].workflow
    BY ONLY <1>1, <1>7
  <1>. QED
    BY <1>9, <1>10, <1>12

LEMMA WorkflowBelowGoesOn ==
    ASSUME given \in Calls, SoundStack(stack), stack # << >>, Below # << >>,
           NEW ok \in BOOLEAN, NEW place \in Resumed(Last(Below), ok),
           stack' = [Below EXCEPT ![Len(Below)].at = place]
    PROVE  /\ SoundStack(stack')
           /\ stack' # << >>
           /\ stack'[1].workflow = stack[1].workflow
           /\ Top.workflow \in Called
  <1>1. /\ stack \in Seq(Frames) /\ Len(stack) \in Nat /\ Len(stack) > 0
        /\ DOMAIN stack = 1..Len(stack)
    BY TopFacts DEF SoundStack
  <1>2. /\ Below \in Seq(Frames) /\ Len(Below) = Len(stack) - 1
        /\ \A k \in 1..Len(Below) : Below[k] = stack[k]
    BY <1>1 DEF Below
  <1>3. Len(Below) \in Nat /\ Len(Below) > 0 /\ Len(Below) < Len(stack)
    BY <1>1, <1>2
  <1> DEFINE n == Len(Below)
             f == [Below[n] EXCEPT !.at = place]
  <1>4. Below[n] \in Frames /\ Below[n] = stack[n] /\ HasStep(Below[n]) /\ Below[n].at \in Waits
    BY <1>2, <1>3 DEF SoundStack
  <1>5. Below[n].workflow \in Workflow /\ Below[n] \in FramesOf(Below[n].workflow)
    BY <1>4, FrameFacts
  <1>6. /\ place \in Place
        /\ place \in InStep => Below[n].at = "call"
    BY <1>3, <1>4 DEF Resumed, Last, Place, InStep, Waits
  <1>7. f \in FramesOf(Below[n].workflow)
    BY <1>5, <1>6 DEF FramesOf
  <1>8. f \in Frames /\ f.workflow = Below[n].workflow /\ f.step = Below[n].step /\ f.at = place
    BY <1>5, <1>7 DEF Frames, FramesOf
  <1>9. HasStep(f)
    BY <1>4, <1>6, <1>8 DEF HasStep, InStep
  <1>10. stack' = [Below EXCEPT ![n] = f]
    OBVIOUS
  <1> HIDE DEF f
  <1>11. /\ stack' \in Seq(Frames) /\ Len(stack') = n
         /\ \A k \in 1..n : stack'[k] = IF k = n THEN f ELSE stack[k]
    BY <1>2, <1>3, <1>8, <1>10
  <1>12. \A k \in 1..n : stack'[k].workflow = stack[k].workflow
    BY <1>4, <1>8, <1>11
  <1>13. SoundStack(stack')
    BY <1>1, <1>2, <1>3, <1>9, <1>11, <1>12 DEF SoundStack
  <1>14. Top.workflow \in Called
    BY <1>1, <1>2, <1>3 DEF Top, SoundStack
  <1>15. stack' # << >>
    BY <1>3, <1>11
  <1>. QED
    BY <1>3, <1>12, <1>13, <1>14, <1>15

-----------------------------------------------------------------------------
(* Steps within the workflow whose turn it is. *)

\* Nothing changes the document.
LEMMA SameDocument ==
    ASSUME given' = given
    PROVE  /\ plan' = plan /\ Steps' = Steps /\ DependsOn' = DependsOn /\ Gated' = Gated
           /\ Called' = Called /\ Frames' = Frames
           /\ SoundStack(stack') => SoundStack(stack)'
  <1>1. plan' = plan /\ Steps' = Steps /\ DependsOn' = DependsOn /\ Gated' = Gated
    BY DEF plan, Steps, DependsOn, Gated
  <1>2. Called' = Called
    BY <1>1 DEF Called, AllSteps, AllActions
  <1>3. Frames' = Frames
    BY <1>1 DEF Frames, FramesOf
  <1>4. SoundStack(stack') => SoundStack(stack)'
    BY <1>1, <1>2, <1>3 DEF SoundStack, HasStep
  <1>. QED
    BY <1>1, <1>2, <1>3, <1>4

\* The stack goes on, and no result is stored but of workflows that are called.
LEMMA GoingOn ==
    ASSUME IInv, given' = given, UNCHANGED <<pos, reported, success, call>>,
           results' \in [Workflow -> {"none", "ok", "failed"}],
           \A d \in Workflow \ Called : results'[d] = results[d],
           active' \subseteq Workflow, cancelled' \in BOOLEAN,
           SoundStack(stack'), stack' # << >>, stack # << >>,
           stack'[1].workflow = stack[1].workflow
    PROVE  IInv'
  <1>1. /\ plan' = plan /\ DependsOn' = DependsOn /\ Gated' = Gated /\ Called' = Called
        /\ SoundStack(stack)'
    BY SameDocument
  <1>2. DataInv'
    BY <1>1 DEF IInv, DataInv
  <1>3. StackInv'
    BY <1>1 DEF IInv, StackInv
  <1>4. ReportInv'
    BY <1>1 DEF IInv, ReportInv
  <1>5. DependencyInv'
    <2>1. \A d : ReportedOk(d)' <=> ReportedOk(d)
      BY DEF ReportedOk
    <2>2. DependenciesReported' <=> DependenciesReported
      BY <1>1 DEF DependenciesReported
    <2>. QED
      BY <1>1, <2>1, <2>2 DEF IInv, DependencyInv
  <1>. QED
    BY <1>2, <1>3, <1>4, <1>5 DEF IInv

\* The workflow that runs goes on itself.
LEMMA TopGoesOn ==
    ASSUME IInv, stack # << >>, NEW frame \in FramesOf(Top.workflow), HasStep(frame),
           At(frame), UNCHANGED <<active, results, cancelled, run>>
    PROVE  IInv'
  <1>1. given \in Calls /\ SoundStack(stack)
    BY DEF IInv, DataInv, StackInv
  <1>2. SoundStack(stack') /\ stack' # << >> /\ stack'[1].workflow = stack[1].workflow
    BY <1>1, TopChanges
  <1>3. /\ active' \subseteq Workflow /\ cancelled' \in BOOLEAN
        /\ results' = results /\ results \in [Workflow -> {"none", "ok", "failed"}]
    BY DEF IInv, DataInv
  <1>4. given' = given /\ UNCHANGED <<pos, reported, success, call>>
    BY DEF run
  <1>. QED
    BY <1>2, <1>3, <1>4, GoingOn

\* It goes on at another place.
LEMMA PlaceChanges ==
    ASSUME IInv, stack # << >>, NEW frame \in FramesOf(Top.workflow),
           NEW place \in Place, place \in InStep => frame.step \in DOMAIN Steps[Top.workflow],
           At([frame EXCEPT !.at = place]), UNCHANGED <<active, results, cancelled, run>>
    PROVE  IInv'
  <1> DEFINE f == [frame EXCEPT !.at = place]
  <1>1. /\ f \in FramesOf(Top.workflow)
        /\ f.workflow = Top.workflow /\ f.step = frame.step /\ f.at = place
    BY DEF FramesOf
  <1>2. HasStep(f)
    BY <1>1 DEF HasStep
  <1> HIDE DEF f
  <1>3. At(f)
    BY DEF f
  <1>. QED
    BY <1>1, <1>2, <1>3, TopGoesOn

\* It waits for another.
LEMMA TopCalls ==
    ASSUME IInv, stack # << >>, NEW frame \in FramesOf(Top.workflow),
           NEW waits \in Waits, waits = "call" => frame.step \in DOMAIN Steps[Top.workflow],
           NEW w \in Called, w \in Workflow,
           stack' = Append([stack EXCEPT ![Len(stack)] = [frame EXCEPT !.at = waits]], Frame(w)),
           active' = active \cup {w},
           UNCHANGED <<results, cancelled, run>>
    PROVE  IInv'
  <1> DEFINE f == [frame EXCEPT !.at = waits]
  <1>0. waits \in Place
    BY DEF Waits, Place
  <1>1. /\ f \in FramesOf(Top.workflow)
        /\ f.workflow = Top.workflow /\ f.step = frame.step /\ f.at = waits
    BY <1>0 DEF FramesOf
  <1>2. HasStep(f)
    BY <1>1 DEF HasStep, InStep, Waits
  <1>3. stack' = Append([stack EXCEPT ![Len(stack)] = f], Frame(w))
    OBVIOUS
  <1> HIDE DEF f
  <1>4. given \in Calls /\ SoundStack(stack)
    BY DEF IInv, DataInv, StackInv
  <1>5. SoundStack(stack') /\ stack' # << >> /\ stack'[1].workflow = stack[1].workflow
    BY <1>1, <1>2, <1>3, <1>4, WorkflowIsCalled
  <1>6. /\ active' \subseteq Workflow /\ cancelled' \in BOOLEAN
        /\ results' = results /\ results \in [Workflow -> {"none", "ok", "failed"}]
    BY DEF IInv, DataInv
  <1>7. given' = given /\ UNCHANGED <<pos, reported, success, call>>
    BY DEF run
  <1>. QED
    BY <1>5, <1>6, <1>7, GoingOn

-----------------------------------------------------------------------------
LEMMA InitInv == Init => IInv
<1>. SUFFICES ASSUME Init PROVE IInv
    OBVIOUS
<1>1. plan \in Seq(Workflow)
    BY GivenFacts DEF Init
<1>2. DataInv
  <2>1. pos \in 1..Len(plan) + 1
    BY ONLY <1>1, Init DEF Init
  <2>. QED
    BY <2>1 DEF Init, DataInv
<1>3. StackInv
    BY DEF Init, StackInv, SoundStack
<1>4. ReportInv
    BY DEF Init, ReportInv
<1>5. DependencyInv
    BY DEF Init, DependencyInv, DependenciesReported
<1>. QED
    BY <1>2, <1>3, <1>4, <1>5 DEF IInv

LEMMA LoopKeepsInv ==
    ASSUME IInv, LeaveLoop \/ BeginStep \/ Executed
    PROVE  IInv'
<1>0. stack # << >>
    BY DEF LeaveLoop, BeginStep, Executed, Running
<1>1. /\ given \in Calls /\ Top.workflow \in Workflow
      /\ Top \in FramesOf(Top.workflow) /\ HasStep(Top)
    BY <1>0, TopFacts DEF IInv, DataInv, StackInv
<1>2. /\ DOMAIN Steps[Top.workflow] = 1..Len(Steps[Top.workflow])
      /\ Len(Steps[Top.workflow]) \in Nat
      /\ Top.step \in 1..Len(Steps[Top.workflow]) + 1
      /\ Top.transitions \in 0..MaxTransitions
    BY <1>1, GivenFacts DEF FramesOf
<1>3. CASE LeaveLoop
  <2>1. PICK place \in {"ended", "aborted"} : GoTo(place)
    BY <1>3 DEF LeaveLoop
  <2>2. UNCHANGED <<active, results, cancelled, run>>
    BY <1>3 DEF LeaveLoop
  <2>. QED
    BY <1>0, <1>1, <2>1, <2>2, PlaceChanges DEF GoTo, Place, InStep
<1>4. CASE BeginStep
  <2> DEFINE frame == [Top EXCEPT !.transitions = Counted]
  <2>1. Top.step \in DOMAIN Steps[Top.workflow] /\ Top.transitions < MaxTransitions
    BY <1>2, <1>4 DEF BeginStep, MayStep
  <2>2. frame \in FramesOf(Top.workflow) /\ frame.step = Top.step
    <3>1. Counted \in 0..MaxTransitions
      BY <1>2, <2>1, EngineAssumption DEF Counted
    <3>. QED
      BY <1>1, <3>1 DEF FramesOf
  <2>3. UNCHANGED <<results, cancelled, run>>
    BY <1>4 DEF BeginStep
  <2>4. \/ \E place \in {"failed", "execute"} :
              At([frame EXCEPT !.at = place]) /\ UNCHANGED active
        \/ /\ Runnable(Now.workflow)
           /\ stack' = Append([stack EXCEPT ![Len(stack)] = [frame EXCEPT !.at = "call"]],
                              Frame(Now.workflow))
           /\ active' = active \cup {Now.workflow}
    BY <1>4 DEF BeginStep
  <2> HIDE DEF frame
  <2>5. CASE \E place \in {"failed", "execute"} :
                At([frame EXCEPT !.at = place]) /\ UNCHANGED active
    BY <1>0, <2>1, <2>2, <2>3, <2>5, PlaceChanges DEF Place
  <2>6. CASE /\ Runnable(Now.workflow)
             /\ stack' = Append([stack EXCEPT ![Len(stack)] = [frame EXCEPT !.at = "call"]],
                                Frame(Now.workflow))
             /\ active' = active \cup {Now.workflow}
    <3>1. Now.workflow \in Called /\ Now.workflow \in Workflow
      BY <1>1, <2>1, <2>6, StepsCall DEF Runnable, Now
    <3>2. "call" \in Waits
      BY DEF Waits
    <3>. QED
      BY <1>0, <2>1, <2>2, <2>3, <2>6, <3>1, <3>2, TopCalls
  <2>. QED
    BY <2>4, <2>5, <2>6
<1>5. CASE Executed
  <2>1. PICK place \in {"succeeded", "failed"} : GoTo(place)
    BY <1>5 DEF Executed
  <2>2. UNCHANGED <<active, results, cancelled, run>>
    BY <1>5 DEF Executed
  <2>3. Top.step \in DOMAIN Steps[Top.workflow]
    BY <1>1, <1>5 DEF Executed, Running, HasStep, InStep
  <2>. QED
    BY <1>0, <1>1, <2>1, <2>2, <2>3, PlaceChanges DEF GoTo, Place
<1>. QED
    BY <1>3, <1>4, <1>5

\* A goto within the workflow.
LEMMA JumpKeepsInv ==
    ASSUME IInv, stack # << >>, NEW frame \in FramesOf(Top.workflow), NEW step,
           JumpTo(frame, step), UNCHANGED <<active, results, cancelled, run>>
    PROVE  IInv'
<1>0. given \in Calls /\ Top.workflow \in Workflow
    BY TopFacts DEF IInv, DataInv, StackInv
<1>1. DOMAIN Steps[Top.workflow] = 1..Len(Steps[Top.workflow]) /\ Len(Steps[Top.workflow]) \in Nat
    BY <1>0, GivenFacts
<1>2. CASE step \in DOMAIN Steps[Top.workflow]
  <2> DEFINE f == [frame EXCEPT !.step = step]
  <2>1. At([f EXCEPT !.at = "step"])
    BY <1>2 DEF JumpTo
  <2>2. step \in 1..Len(Steps[Top.workflow]) + 1
    BY <1>1, <1>2
  <2>3. f \in FramesOf(Top.workflow)
    BY <2>2 DEF FramesOf
  <2> HIDE DEF f
  <2>. QED
    BY <2>1, <2>3, PlaceChanges DEF Place, InStep
<1>3. CASE step \notin DOMAIN Steps[Top.workflow]
  <2>1. At([frame EXCEPT !.at = "aborted"])
    BY <1>3 DEF JumpTo
  <2>. QED
    BY <2>1, PlaceChanges DEF Place, InStep
<1>. QED
    BY <1>2, <1>3

LEMMA CallKeepsInv ==
    ASSUME IInv, stack # << >>, NEW w \in Called, NEW waits \in {"gotoEnd", "gotoAbort"},
           Call(w, waits, "aborted"), UNCHANGED <<results, cancelled, run>>
    PROVE  IInv'
<1>1. Top \in FramesOf(Top.workflow)
    BY TopFacts DEF IInv, DataInv, StackInv
<1>2. CASE Runnable(w)
  <2>1. stack' = Append([stack EXCEPT ![Len(stack)] = [Top EXCEPT !.at = waits]], Frame(w))
    BY <1>2 DEF Call, Top
  <2>2. active' = active \cup {w} /\ w \in Workflow
    BY <1>2 DEF Call, Runnable
  <2>. QED
    BY <1>1, <2>1, <2>2, TopCalls DEF Waits
<1>3. CASE ~Runnable(w)
  <2>1. At([Top EXCEPT !.at = "aborted"]) /\ UNCHANGED active
    BY <1>3 DEF Call, GoTo
  <2>. QED
    BY <1>1, <2>1, PlaceChanges DEF Place, InStep
<1>. QED
    BY <1>2, <1>3

LEMMA SuccessKeepsInv == ASSUME IInv, ProcessSuccess PROVE IInv'
<1>0. stack # << >> /\ UNCHANGED <<results, cancelled, run>>
    BY DEF ProcessSuccess, Running
<1>1. /\ given \in Calls /\ Top.workflow \in Workflow /\ Top \in FramesOf(Top.workflow)
      /\ Top.step \in DOMAIN Steps[Top.workflow]
    BY <1>0, TopFacts DEF IInv, DataInv, StackInv, ProcessSuccess, Running, HasStep, InStep
<1>2. DOMAIN Steps[Top.workflow] = 1..Len(Steps[Top.workflow]) /\ Len(Steps[Top.workflow]) \in Nat
    BY <1>1, GivenFacts
<1> DEFINE frame == [Top EXCEPT !.retries[Top.step] = 0]
<1>3. /\ frame \in FramesOf(Top.workflow)
      /\ frame.step = Top.step
    BY <1>1 DEF FramesOf
<1>4. PICK action \in Now.onSuccess \cup {NoAction} :
          \/ /\ action.type = "none"
             /\ At([frame EXCEPT !.step = @ + 1, !.at = "step"])
             /\ UNCHANGED active
          \/ action.type = "end" /\ At([frame EXCEPT !.at = "ended"]) /\ UNCHANGED active
          \/ action.type = "error" /\ At([frame EXCEPT !.at = "aborted"]) /\ UNCHANGED active
          \/ /\ action.type = "goto" /\ action.workflow = NoWorkflow
             /\ JumpTo(frame, action.step)
             /\ UNCHANGED active
          \/ /\ action.type = "goto" /\ action.workflow # NoWorkflow
             /\ Call(action.workflow, "gotoEnd", "aborted")
    BY DEF ProcessSuccess
<1> HIDE DEF frame
<1>5. CASE At([frame EXCEPT !.step = @ + 1, !.at = "step"]) /\ UNCHANGED active
  <2> DEFINE f == [frame EXCEPT !.step = @ + 1]
  <2>1. At([f EXCEPT !.at = "step"])
    BY <1>5
  <2>2. frame.step + 1 \in 1..Len(Steps[Top.workflow]) + 1
    BY <1>1, <1>2, <1>3
  <2>3. f \in FramesOf(Top.workflow)
    BY <1>3, <2>2 DEF FramesOf
  <2> HIDE DEF f
  <2>. QED
    BY <1>0, <1>5, <2>1, <2>3, PlaceChanges DEF Place, InStep
<1>6. CASE \E place \in {"ended", "aborted"} : At([frame EXCEPT !.at = place]) /\ UNCHANGED active
    BY <1>0, <1>3, <1>6, PlaceChanges DEF Place, InStep
<1>7. CASE JumpTo(frame, action.step) /\ UNCHANGED active
    BY <1>0, <1>3, <1>7, JumpKeepsInv
<1>8. CASE action.type = "goto" /\ Call(action.workflow, "gotoEnd", "aborted")
  <2>1. action \in Now.onSuccess
    BY <1>4, <1>8 DEF NoAction, Action
  <2>2. action.workflow \in Called
    BY <1>1, <2>1, StepsCall DEF Now
  <2>. QED
    BY <1>0, <1>8, <2>2, CallKeepsInv
<1>. QED
    BY <1>4, <1>5, <1>6, <1>7, <1>8

LEMMA FailureKeepsInv == ASSUME IInv, ProcessFailure PROVE IInv'
<1>0. stack # << >> /\ UNCHANGED <<results, cancelled, run>>
    BY DEF ProcessFailure, Running
<1>1. /\ given \in Calls /\ Top.workflow \in Workflow /\ Top \in FramesOf(Top.workflow)
      /\ Top.step \in DOMAIN Steps[Top.workflow]
    BY <1>0, TopFacts DEF IInv, DataInv, StackInv, ProcessFailure, Running, HasStep, InStep
<1>2. PICK action \in Now.onFailure \cup {NoAction} :
          \/ action.type \in {"none", "end", "error"} /\ GoTo("aborted") /\ UNCHANGED active
          \/ action.type = "retry" /\ ~Retryable(action) /\ GoTo("aborted") /\ UNCHANGED active
          \/ /\ action.type = "retry" /\ Retryable(action)
             /\ \E place \in {"step", "aborted"} :
                   At([Top EXCEPT !.retries[Top.step] = @ + 1, !.at = place])
             /\ UNCHANGED active
          \/ /\ action.type = "goto" /\ action.workflow = NoWorkflow
             /\ JumpTo(Top, action.step)
             /\ UNCHANGED active
          \/ /\ action.type = "goto" /\ action.workflow # NoWorkflow
             /\ Call(action.workflow, "gotoAbort", "aborted")
    BY DEF ProcessFailure
<1>3. CASE GoTo("aborted") /\ UNCHANGED active
    BY <1>0, <1>1, <1>3, PlaceChanges DEF GoTo, Place, InStep
<1>4. CASE /\ \E place \in {"step", "aborted"} :
                 At([Top EXCEPT !.retries[Top.step] = @ + 1, !.at = place])
           /\ UNCHANGED active
  <2>1. PICK place \in {"step", "aborted"} :
           At([Top EXCEPT !.retries[Top.step] = @ + 1, !.at = place])
    BY <1>4
  <2> DEFINE f == [Top EXCEPT !.retries[Top.step] = @ + 1]
  <2>2. At([f EXCEPT !.at = place])
    BY <2>1
  <2>3. Top.retries \in [DOMAIN Steps[Top.workflow] -> Nat]
    BY <1>1 DEF FramesOf
  <2>4. [Top.retries EXCEPT ![Top.step] = @ + 1] \in [DOMAIN Steps[Top.workflow] -> Nat]
    BY ONLY <1>1, <2>3
  <2>5. f = [Top EXCEPT !.retries = [Top.retries EXCEPT ![Top.step] = @ + 1]]
    BY <1>1 DEF FramesOf
  <2>6. f \in FramesOf(Top.workflow)
    BY ONLY <1>1, <2>4, <2>5 DEF FramesOf
  <2> HIDE DEF f
  <2>. QED
    BY <1>0, <1>4, <2>2, <2>6, PlaceChanges DEF Place, InStep
<1>5. CASE JumpTo(Top, action.step) /\ UNCHANGED active
    BY <1>0, <1>1, <1>5, JumpKeepsInv
<1>6. CASE action.type = "goto" /\ Call(action.workflow, "gotoAbort", "aborted")
  <2>1. action \in Now.onFailure
    BY <1>2, <1>6 DEF NoAction, Action
  <2>2. action.workflow \in Called
    BY <1>1, <2>1, StepsCall DEF Now
  <2>. QED
    BY <1>0, <1>6, <2>2, CallKeepsInv
<1>. QED
    BY <1>2, <1>3, <1>4, <1>5, <1>6

-----------------------------------------------------------------------------
(* The end of a run. *)

\* The workflow whose turn it was is reported.
LEMMA Reporting ==
    ASSUME IInv, call = "running", pos <= Len(plan), NEW out \in {"ok", "failed"},
           results' = [results EXCEPT ![plan[pos]] = out],
           reported' = Append(reported, <<plan[pos], out>>),
           success' = (success /\ out = "ok"), pos' = pos + 1,
           stack' = << >>, active' \subseteq Workflow,
           UNCHANGED <<given, cancelled, call>>,
           Gated /\ out = "ok" => \A d \in DependsOn[plan[pos]] \ Called : ReportedOk(d)
    PROVE  IInv'
<1>1. /\ plan' = plan /\ DependsOn' = DependsOn /\ Gated' = Gated /\ Called' = Called
      /\ SoundStack(stack') => SoundStack(stack)'
    BY SameDocument
<1>2. given \in Calls /\ plan \in Seq(Workflow) /\ pos \in 1..Len(plan) + 1
    BY GivenFacts DEF IInv, DataInv
<1>3. Len(plan) \in Nat /\ pos \in 1..Len(plan) /\ plan[pos] \in Workflow
    BY <1>2
<1>4. DataInv'
  <2>1. pos' \in 1..Len(plan) + 1
    BY ONLY <1>3, pos' = pos + 1
  <2>2. results' \in [Workflow -> {"none", "ok", "failed"}]
    BY <1>3 DEF IInv, DataInv
  <2>. QED
    BY <1>1, <2>1, <2>2 DEF IInv, DataInv
<1>5. StackInv'
  <2>1. SoundStack(stack')
    BY DEF SoundStack
  <2>. QED
    BY <1>1, <2>1 DEF StackInv
<1>6. reported \in Seq(Workflow \X {"ok", "failed"}) /\ Len(reported) = pos - 1
    BY DEF IInv, ReportInv
<1>7. <<plan[pos], out>> \in Workflow \X {"ok", "failed"}
    BY <1>3
<1>8. /\ reported' \in Seq(Workflow \X {"ok", "failed"})
      /\ Len(reported') = Len(reported) + 1
      /\ \A k \in 1..Len(reported) : reported'[k] = reported[k]
      /\ reported'[Len(reported) + 1] = <<plan[pos], out>>
    BY <1>6, <1>7, AppendProperties
<1>9. /\ Len(reported') = pos /\ Len(reported) \in Nat /\ pos \in Nat
      /\ reported'[pos] = <<plan[pos], out>>
      /\ \A k \in 1..Len(reported') : k \in 1..Len(reported) \/ k = pos
      /\ 1..Len(reported) \subseteq 1..Len(reported')
      /\ pos \in 1..Len(reported')
    BY ONLY <1>3, <1>6, <1>8
<1>10. ReportInv'
  <2>1. \A k \in 1..Len(reported') : reported'[k][1] = plan[k]
    BY <1>8, <1>9 DEF IInv, ReportInv
  <2>2. success' <=> \A k \in 1..Len(reported') : reported'[k][2] = "ok"
    <3>1. success <=> \A k \in 1..Len(reported) : reported[k][2] = "ok"
      BY DEF IInv, ReportInv
    <3>2. reported'[pos][2] = out
      BY <1>9
    <3>. QED
      BY <1>8, <1>9, <3>1, <3>2
  <2>3. Len(reported') = pos' - 1
    BY ONLY <1>3, <1>9, pos' = pos + 1
  <2>4. call' # "returned"
    OBVIOUS
  <2>. QED
    BY <1>1, <1>8, <2>1, <2>2, <2>3, <2>4 DEF ReportInv
<1>11. \A d : ReportedOk(d) => ReportedOk(d)'
    BY <1>8, <1>9 DEF ReportedOk
<1>12. DependencyInv'
  <2>1. ASSUME NEW d \in Workflow \ Called, results'[d] = "ok"
        PROVE  ReportedOk(d)'
    <3>1. CASE d = plan[pos]
      <4>1. results \in [Workflow -> {"none", "ok", "failed"}]
        BY DEF IInv, DataInv
      <4>2. out = "ok"
        BY <1>3, <2>1, <3>1, <4>1
      <4>. QED
        BY <1>9, <3>1, <4>2 DEF ReportedOk
    <3>2. CASE d # plan[pos]
      <4>1. results[d] = "ok"
        BY <2>1, <3>2 DEF IInv, DataInv
      <4>. QED
        BY <1>11, <4>1 DEF IInv, DependencyInv
    <3>. QED
      BY <3>1, <3>2
  <2>2. ASSUME Gated, NEW k \in DOMAIN reported', reported'[k][2] = "ok",
               NEW d \in DependsOn[reported'[k][1]] \ Called
        PROVE  \E j \in 1..k - 1 : reported'[j] = <<d, "ok">>
    <3>1. k \in 1..Len(reported')
      BY <1>8
    <3>2. CASE k \in 1..Len(reported)
      <4>1. k \in DOMAIN reported /\ reported'[k] = reported[k]
        BY <1>6, <1>8, <3>2
      <4>2. PICK j \in 1..k - 1 : reported[j] = <<d, "ok">>
        BY <2>2, <4>1 DEF IInv, DependencyInv, DependenciesReported
      <4>3. j \in 1..Len(reported)
        BY ONLY <1>9, <3>2, j \in 1..k - 1
      <4>. QED
        BY <1>8, <4>2, <4>3
    <3>3. CASE k = pos
      <4>1. out = "ok" /\ d \in DependsOn[plan[pos]] \ Called
        BY <1>9, <2>2, <3>3
      <4>2. PICK j \in 1..Len(reported) : reported[j] = <<d, "ok">>
        BY <2>2, <4>1 DEF ReportedOk
      <4>3. j \in 1..k - 1
        BY ONLY <1>3, <1>6, <3>3, j \in 1..Len(reported)
      <4>. QED
        BY <1>8, <4>2, <4>3
    <3>. QED
      BY <1>9, <3>1, <3>2, <3>3
  <2>3. DependenciesReported'
    BY <1>1, <2>2 DEF DependenciesReported
  <2>. QED
    BY <1>1, <2>1, <2>3 DEF DependencyInv
<1>. QED
    BY <1>4, <1>5, <1>10, <1>12 DEF IInv

LEMMA FinishKeepsInv == ASSUME IInv, Finish PROVE IInv'
<1>1. PICK ok \in BOOLEAN :
          /\ Top.at = "ended" \/ (Top.at = "aborted" /\ ~ok)
          /\ results' = [results EXCEPT ![Top.workflow] = IF ok THEN "ok" ELSE "failed"]
          /\ IF Below = << >>
             THEN /\ stack' = << >>
                  /\ reported' = Append(reported, <<Top.workflow, results'[Top.workflow]>>)
                  /\ success' = (success /\ ok)
                  /\ pos' = pos + 1
             ELSE /\ \E place \in Resumed(Last(Below), ok) :
                        stack' = [Below EXCEPT ![Len(Below)].at = place]
                  /\ UNCHANGED <<reported, success, pos>>
    BY DEF Finish
<1>2. /\ stack # << >> /\ active' \subseteq Workflow /\ UNCHANGED <<given, cancelled, call>>
      /\ given \in Calls /\ SoundStack(stack)
    BY DEF Finish, IInv, DataInv, StackInv
<1>3. /\ stack \in Seq(Frames) /\ Len(stack) \in Nat /\ Len(stack) > 0
      /\ Top.workflow \in Workflow
    BY <1>2, TopFacts DEF SoundStack
<1> DEFINE out == IF ok THEN "ok" ELSE "failed"
<1>4. results' \in [Workflow -> {"none", "ok", "failed"}] /\ results'[Top.workflow] = out
    BY <1>1, <1>3 DEF IInv, DataInv
<1>5. CASE Below = << >>
  <2>1. Len(stack) = 1
    <3>1. \A i \in 1..Len(stack) - 1 : stack[i] \in Frames
      BY ONLY <1>3
    <3>2. Len(Below) = IF 1 <= Len(stack) - 1 THEN Len(stack) - 1 - 1 + 1 ELSE 0
      BY ONLY <1>3, <3>1, SubSeqProperties DEF Below
    <3>3. Len(Below) = 0
      BY ONLY <1>5
    <3>4. Len(stack) \in Nat /\ Len(stack) # 0
      BY <1>3
    <3>5. ~(1 <= Len(stack) - 1)
      BY ONLY <3>2, <3>3, <3>4
    <3>6. \A n \in Nat : n # 0 /\ ~(1 <= n - 1) => n = 1
      OBVIOUS
    <3>. QED
      BY ONLY <3>4, <3>5, <3>6, Zenon
  <2>2. /\ Top.workflow = plan[pos] /\ pos <= Len(plan) /\ call = "running"
        /\ Gated => \A d \in DependsOn[plan[pos]] \ Called : ReportedOk(d)
    BY <1>2, <2>1 DEF IInv, StackInv, DependencyInv, Top
  <2>3. /\ results' = [results EXCEPT ![plan[pos]] = out]
        /\ reported' = Append(reported, <<plan[pos], out>>)
        /\ success' = (success /\ out = "ok")
        /\ out \in {"ok", "failed"}
        /\ stack' = << >> /\ pos' = pos + 1
    BY <1>1, <1>4, <1>5, <2>2
  <2> HIDE DEF out
  <2>. QED
    BY <1>2, <2>2, <2>3, Reporting
<1>6. CASE Below # << >>
  <2>1. PICK place \in Resumed(Last(Below), ok) :
             stack' = [Below EXCEPT ![Len(Below)].at = place]
    BY <1>1, <1>6
  <2>2. /\ SoundStack(stack') /\ stack' # << >> /\ stack'[1].workflow = stack[1].workflow
        /\ Top.workflow \in Called
    BY <1>2, <1>6, <2>1, WorkflowBelowGoesOn
  <2>3. \A d \in Workflow \ Called : results'[d] = results[d]
    BY <1>1, <1>3, <2>2 DEF IInv, DataInv
  <2>4. UNCHANGED <<pos, reported, success, call>> /\ cancelled' \in BOOLEAN
    BY <1>1, <1>2, <1>6 DEF IInv, DataInv
  <2>. QED
    BY <1>2, <1>4, <2>2, <2>3, <2>4, GoingOn
<1>. QED
    BY <1>5, <1>6

-----------------------------------------------------------------------------
(* RunAll and RunWorkflow. *)

\* What a workflow depends on is reported when it may run.
LEMMA MetAreReported ==
    ASSUME IInv, NEW w \in Workflow, DependenciesMet(w)
    PROVE  \A d \in DependsOn[w] \ Called : ReportedOk(d)
  BY DEF IInv, DependencyInv, DependenciesMet

LEMMA StartKeepsInv == ASSUME IInv, StartWorkflow PROVE IInv'
<1> DEFINE w == plan[pos]
<1>1. /\ call = "running" /\ pos <= Len(plan) /\ MayRun(w)
      /\ stack' = <<Frame(w)>> /\ active' = {w}
      /\ UNCHANGED <<given, pos, reported, success, call, results, cancelled>>
    BY DEF StartWorkflow, Idle, run
<1>2. given \in Calls /\ plan \in Seq(Workflow) /\ pos \in 1..Len(plan) + 1
    BY GivenFacts DEF IInv, DataInv
<1>3. w \in Workflow
    <2>1. pos \in 1..Len(plan)
      BY ONLY <1>1, <1>2
    <2>. QED
      BY <1>2, <2>1
<1>4. /\ plan' = plan /\ DependsOn' = DependsOn /\ Gated' = Gated /\ Called' = Called
      /\ SoundStack(stack') => SoundStack(stack)'
    BY <1>1, SameDocument
<1>5. DataInv'
    BY <1>1, <1>3, <1>4 DEF IInv, DataInv
<1>6. Frame(w) \in Frames /\ HasStep(Frame(w)) /\ Frame(w).workflow = w
    BY <1>2, <1>3, WorkflowStarts
<1> HIDE DEF w
<1>7. SoundStack(stack')
    <2>1. stack' \in Seq(Frames) /\ Len(stack') = 1 /\ stack'[1] = Frame(w)
      BY <1>1, <1>6
    <2>. QED
      BY <1>6, <2>1 DEF SoundStack
<1>8. stack'[1].workflow = plan[pos]
    BY <1>1, <1>6 DEF w
<1>9. StackInv'
    BY <1>1, <1>4, <1>7, <1>8 DEF StackInv
<1>10. ReportInv'
    BY <1>1, <1>4 DEF IInv, ReportInv
<1>11. DependencyInv'
  <2>1. \A d : ReportedOk(d)' <=> ReportedOk(d)
    BY <1>1 DEF ReportedOk
  <2>2. DependenciesReported' <=> DependenciesReported
    BY <1>1, <1>4 DEF DependenciesReported
  <2>3. Gated => \A d \in DependsOn[w] \ Called : ReportedOk(d)
    BY <1>1, <1>3, MetAreReported DEF MayRun
  <2>4. DependsOn[plan[pos]]' = DependsOn[w]
    BY <1>1, <1>4 DEF w
  <2>. QED
    BY <1>1, <1>4, <2>1, <2>2, <2>3, <2>4 DEF IInv, DependencyInv
<1>. QED
    BY <1>5, <1>9, <1>10, <1>11 DEF IInv

LEMMA SkipKeepsInv == ASSUME IInv, SkipDependent PROVE IInv'
<1>1. /\ call = "running" /\ pos <= Len(plan) /\ stack = << >>
      /\ results' = [results EXCEPT ![plan[pos]] = "failed"]
      /\ reported' = Append(reported, <<plan[pos], "failed">>)
      /\ success' = FALSE /\ pos' = pos + 1
      /\ UNCHANGED <<given, stack, active, cancelled, call>>
    BY DEF SkipDependent, Idle
<1>2. success' = (success /\ "failed" = "ok") /\ "failed" \in {"ok", "failed"} /\ "failed" # "ok"
    BY <1>1
<1>3. active' \subseteq Workflow /\ stack' = << >>
    BY <1>1 DEF IInv, DataInv
<1>. QED
    BY <1>1, <1>2, <1>3, Reporting

\* Nothing that is said of here changes but the end of the call.
LEMMA EndKeepsInv ==
    ASSUME IInv, UNCHANGED <<given, pos, stack, active, results, reported, success>>,
           cancelled' \in BOOLEAN,
           call' = call \/ (stack = << >> /\ call' \in {"running", "returned", "error"}),
           call' = "returned" => call = "returned" \/ pos > Len(plan)
    PROVE  IInv'
<1>1. /\ plan' = plan /\ DependsOn' = DependsOn /\ Gated' = Gated /\ Called' = Called
      /\ SoundStack(stack') => SoundStack(stack)'
    BY SameDocument
<1>2. DataInv'
    BY <1>1 DEF IInv, DataInv
<1>3. StackInv'
    BY <1>1 DEF IInv, StackInv
<1>4. ReportInv'
    BY <1>1 DEF IInv, ReportInv
<1>5. DependencyInv'
  <2>1. \A d : ReportedOk(d)' <=> ReportedOk(d)
    BY DEF ReportedOk
  <2>2. DependenciesReported' <=> DependenciesReported
    BY <1>1 DEF DependenciesReported
  <2>. QED
    BY <1>1, <2>1, <2>2 DEF IInv, DependencyInv
<1>. QED
    BY <1>2, <1>3, <1>4, <1>5 DEF IInv

LEMMA StepInv == IInv /\ [Next]_vars => IInv'
<1>. SUFFICES ASSUME IInv, [Next]_vars PROVE IInv'
    OBVIOUS
<1>1. CASE StartWorkflow
    BY <1>1, StartKeepsInv
<1>2. CASE SkipDependent
    BY <1>2, SkipKeepsInv
<1>3. CASE Return
  <2>1. /\ UNCHANGED <<given, pos, stack, active, results, reported, success, cancelled>>
        /\ stack = << >> /\ call' \in {"returned", "error"}
        /\ call' = "returned" => pos > Len(plan)
    BY <1>3 DEF Return, Idle
  <2>. QED
    BY <2>1, EndKeepsInv DEF IInv, DataInv
<1>4. CASE LeaveLoop \/ BeginStep \/ Executed
    BY <1>4, LoopKeepsInv
<1>5. CASE ProcessSuccess
    BY <1>5, SuccessKeepsInv
<1>6. CASE ProcessFailure
    BY <1>6, FailureKeepsInv
<1>7. CASE Finish
    BY <1>7, FinishKeepsInv
<1>8. CASE CancelContext
    BY <1>8, EndKeepsInv DEF CancelContext, run
<1>9. CASE UNCHANGED vars
    BY <1>9, EndKeepsInv DEF vars, IInv, DataInv
<1>. QED
    BY <1>1, <1>2, <1>3, <1>4, <1>5, <1>6, <1>7, <1>8, <1>9 DEF Next, Proceed, Terminated

\* Every step of the engine keeps the invariant.
THEOREM Invariance == Spec => []IInv
    BY InitInv, StepInv, PTL DEF Spec

-----------------------------------------------------------------------------

\* Every variable keeps its type: a frame is of a workflow of the document and at
\* one of its steps or behind the last, and no run goes over its transitions.
THEOREM TypeCorrect == Spec => []TypeOK
<1>1. IInv => TypeOK
  <2>. SUFFICES ASSUME IInv PROVE TypeOK
    OBVIOUS
  <2>1. given \in Calls /\ SoundStack(stack)
    BY DEF IInv, DataInv, StackInv
  <2>2. stack \in Seq(Frames) /\ DOMAIN stack = 1..Len(stack) /\ Len(stack) \in Nat
    BY <2>1 DEF SoundStack
  <2>3. ASSUME NEW k \in DOMAIN stack
        PROVE  /\ stack[k].workflow \in Workflow
               /\ stack[k] \in FramesOf(stack[k].workflow)
               /\ k < Len(stack) => stack[k].at \in {"call", "gotoEnd", "gotoAbort"}
    <3>1. stack[k] \in Frames
      BY <2>2
    <3>2. k < Len(stack) => k # Len(stack)
      BY <2>2
    <3>. QED
      BY <2>1, <2>2, <3>1, <3>2, FrameFacts, OthersWait DEF Waits
  <2>. QED
    BY <2>3 DEF TypeOK, IInv, DataInv, ReportInv, FramesOf
<1>. QED
    BY <1>1, Invariance, PTL

\* What RunAll returns has a result for each workflow of its order, in that order,
\* and its Success is their conjunction (engine.go, RunAll), although workflows
\* that steps and gotos run on the way store results as well.
THEOREM ResultsAreComplete == Spec => []SummaryIsTruthful
<1>1. IInv => SummaryIsTruthful
  <2>. SUFFICES ASSUME IInv, call = "returned"
                PROVE  /\ [k \in DOMAIN reported |-> reported[k][1]] = plan
                       /\ success <=> \A k \in DOMAIN reported : reported[k][2] = "ok"
    BY DEF SummaryIsTruthful
  <2>1. plan \in Seq(Workflow) /\ pos \in 1..Len(plan) + 1
    BY GivenFacts DEF IInv, DataInv
  <2>2. /\ reported \in Seq(Workflow \X {"ok", "failed"}) /\ Len(reported) = pos - 1
        /\ pos > Len(plan)
    BY DEF IInv, ReportInv
  <2>3. Len(reported) = Len(plan)
    BY ONLY <2>1, <2>2
  <2>4. DOMAIN reported = 1..Len(reported) /\ DOMAIN plan = 1..Len(reported)
    BY <2>1, <2>2, <2>3
  <2>5. \A k \in DOMAIN reported : reported[k][1] = plan[k]
    BY <2>4 DEF IInv, ReportInv
  <2>6. [k \in DOMAIN reported |-> reported[k][1]] = plan
    BY <2>1, <2>4, <2>5
  <2>. QED
    BY <2>4, <2>6 DEF IInv, ReportInv
<1>. QED
    BY <1>1, Invariance, PTL

\* A workflow that RunAll reports as successful has what it depends on before it, as
\* successful, unless a step or a goto runs that too (dependencyExecutionError).
THEOREM DependenciesComeFirst == Spec => []DependenciesReported
<1>1. IInv => DependenciesReported
    BY DEF IInv, DependencyInv
<1>. QED
    BY <1>1, Invariance, PTL

-----------------------------------------------------------------------------
(* The order in which RunAll runs the workflows. *)

LEMMA LeastIndex ==
    ASSUME NEW T, T \subseteq Nat, T # {}
    PROVE  \E n \in T : \A m \in T : n <= m
  <1>. DEFINE Less == {p \in Nat \X Nat : p[1] < p[2]}
  <1>1. Less = OpToRel(<, Nat)
    BY Zenon DEF OpToRel
  <1>2. IsWellFoundedOn(Less, Nat)
    BY <1>1, NatLessThanWellFounded, Zenon
  <1>3. PICK n \in T : \A m \in T : ~(<<m, n>> \in Less)
    <2>. HIDE DEF Less
    <2>. QED
      BY <1>2, WFMin
  <1>4. ASSUME NEW m \in T PROVE ~(m < n)
    BY <1>3
  <1>. QED
    BY <1>4

\* An order in which each workflow is behind those of the document it depends on.
IsTopological(order, deps, workflows) ==
    \A k \in DOMAIN order : \A d \in deps[order[k]] \cap workflows :
        \E j \in 1..k-1 : order[j] = d

\* What is not in the order yet.
Remaining == Listed \ Range(Order)

OutcomeInv ==
    /\ outcome = "sorted" => head = Cardinality(Listed)
    /\ outcome = "cycle" => head = Len(queue) /\ head # Cardinality(Listed)

QueueInv ==
    /\ IsInjective(queue)
    /\ \A w \in Listed : inDegree[w] = Cardinality(Mentions(w, Remaining))
    /\ \A w \in Listed : inDegree[w] = 0 <=> w \in Range(queue)

\* Each id of the order is behind those that its workflows depend on.
BehindInv ==
    \A k \in 1..head : \A d \in NamesOf[queue[k]] \cap Listed :
        \E j \in 1..k-1 : queue[j] = d

SortInv ==
    /\ SortTypeOK /\ OutcomeInv
    /\ RootsOnce => QueueInv /\ BehindInv

LEMMA FiniteRange ==
    ASSUME NEW n \in Nat, NEW f, f = [k \in 1..n |-> f[k]]
    PROVE  IsFiniteSet(Range(f))
  <1>1. f \in Surjection(1..n, Range(f))
    BY DEF Surjection, Range
  <1>2. IsFiniteSet(1..n)
    BY FS_Interval
  <1>. QED
    BY <1>1, <1>2, FS_Surjection

LEMMA DocumentFacts ==
    ASSUME document \in Documents
    PROVE  /\ Len(document) \in Nat /\ DOMAIN document = 1..Len(document)
           /\ \A p \in DOMAIN document :
                 /\ document[p].id \in Listed /\ document[p].id \in Name
                 /\ document[p].dependsOn \in Seq(Name)
           /\ IsFiniteSet(Listed) /\ Cardinality(Listed) \in Nat
           /\ IsFiniteSet(Places)
           /\ \A m \in Places : m[1] \in DOMAIN document
  <1>1. document \in Seq([id : Name, dependsOn : Seq(Name)])
    BY OrderAssumption
  <1>2. /\ Len(document) \in Nat /\ DOMAIN document = 1..Len(document)
        /\ \A p \in DOMAIN document :
                 /\ document[p].id \in Listed /\ document[p].id \in Name
                 /\ document[p].dependsOn \in Seq(Name)
    <2>1. Len(document) \in Nat /\ DOMAIN document = 1..Len(document)
      BY <1>1
    <2>2. ASSUME NEW p \in DOMAIN document PROVE document[p] \in [id : Name, dependsOn : Seq(Name)]
      <3>. DEFINE R == [id : Name, dependsOn : Seq(Name)]
      <3>1. document \in Seq(R) /\ p \in 1..Len(document)
        BY <1>1, <2>1
      <3>. HIDE DEF R
      <3>2. document[p] \in R
        BY <3>1
      <3>. QED
        BY <3>2 DEF R
    <2>3. ASSUME NEW p \in DOMAIN document PROVE document[p].id \in Listed
      BY DEF Listed
    <2>. QED
      BY <2>1, <2>2, <2>3
  <1>. DEFINE id(p) == document[p].id
              at(p) == {p} \X DOMAIN document[p].dependsOn
              ids == [p \in 1..Len(document) |-> id(p)]
              rows == [p \in 1..Len(document) |-> at(p)]
  <1>4. IsFiniteSet(Range(ids)) /\ Range(ids) = Listed
    <2>1. ids = [p \in 1..Len(document) |-> ids[p]]
      OBVIOUS
    <2>2. Range(ids) = Listed
      BY <1>2 DEF Range, Listed
    <2>. HIDE DEF ids
    <2>. QED
      BY <1>2, <2>1, <2>2, FiniteRange
  <1>5. IsFiniteSet(Range(rows)) /\ Range(rows) = {at(p) : p \in DOMAIN document}
    <2>1. rows = [p \in 1..Len(document) |-> rows[p]]
      OBVIOUS
    <2>2. Range(rows) = {at(p) : p \in DOMAIN document}
      BY <1>2 DEF Range
    <2>. HIDE DEF rows, at
    <2>. QED
      BY <1>2, <2>1, <2>2, FiniteRange
  <1>6. ASSUME NEW p \in DOMAIN document PROVE IsFiniteSet(at(p))
    <2>1. /\ Len(document[p].dependsOn) \in Int /\ 1 \in Int
          /\ DOMAIN document[p].dependsOn = 1..Len(document[p].dependsOn)
      BY <1>2
    <2>2. IsFiniteSet(DOMAIN document[p].dependsOn)
      BY <2>1, FS_Interval
    <2>3. IsFiniteSet({p})
      BY FS_Singleton
    <2>. QED
      BY <2>2, <2>3, FS_Product
  <1>7. Places = UNION {at(p) : p \in DOMAIN document}
    BY DEF Places
  <1>8. IsFiniteSet(Places)
    <2>1. \A T \in Range(rows) : IsFiniteSet(T)
      BY <1>5, <1>6
    <2>. HIDE DEF at, rows
    <2>. QED
      BY <1>5, <1>7, <2>1, FS_UNION
  <1>9. \A m \in Places : m[1] \in DOMAIN document
    BY DEF Places
  <1>10. IsFiniteSet(Listed)
    BY <1>4
  <1>. QED
    BY <1>2, <1>8, <1>9, <1>10, FS_CardinalityType

LEMMA MentionsAreFinite ==
    ASSUME document \in Documents, NEW w, NEW ids
    PROVE  IsFiniteSet(Mentions(w, ids)) /\ Cardinality(Mentions(w, ids)) \in Nat
  <1>1. Mentions(w, ids) \in SUBSET Places
    BY DEF Mentions
  <1>. QED
    BY <1>1, DocumentFacts, FS_Subset, FS_CardinalityType

LEMMA RangeOfAppend ==
    ASSUME NEW S, NEW s \in Seq(S), NEW x \in S
    PROVE  Range(Append(s, x)) = Range(s) \cup {x}
  <1>1. Append(s, x) = s \o <<x>> /\ <<x>> \in Seq(S)
    BY AppendIsConcat
  <1>2. Range(<<x>>) = {x}
    BY DEF Range
  <1>3. Range(s \o <<x>>) = Range(s) \cup Range(<<x>>)
    BY <1>1, RangeConcatenation
  <1>. QED
    BY <1>1, <1>2, <1>3

\* What is no longer waited for is taken off the count.
LEMMA MentionsAreTakenOff ==
    ASSUME document \in Documents, NEW w, NEW ids, NEW id \in ids
    PROVE  Cardinality(Mentions(w, ids \ {id})) =
               Cardinality(Mentions(w, ids)) - Cardinality(Mentions(w, {id}))
  <1>1. Mentions(w, ids \ {id}) = Mentions(w, ids) \ Mentions(w, {id})
    BY DEF Mentions
  <1>2. Mentions(w, ids) \cap Mentions(w, {id}) = Mentions(w, {id})
    BY DEF Mentions
  <1>3. IsFiniteSet(Mentions(w, ids))
    BY MentionsAreFinite
  <1>4. Cardinality(Mentions(w, ids) \ Mentions(w, {id})) =
            Cardinality(Mentions(w, ids)) - Cardinality(Mentions(w, ids) \cap Mentions(w, {id}))
    BY ONLY <1>3, FS_Difference
  <1>. QED
    BY <1>1, <1>2, <1>4

LEMMA NoMention ==
    ASSUME document \in Documents, NEW w \in Listed, NEW ids
    PROVE  Cardinality(Mentions(w, ids)) = 0 <=> NamesOf[w] \cap ids = {}
  <1>1. Cardinality(Mentions(w, ids)) = 0 <=> Mentions(w, ids) = {}
    BY MentionsAreFinite, FS_EmptySet
  <1>2. NamesOf[w] =
           UNION {Range(document[p].dependsOn) : p \in {p \in DOMAIN document : document[p].id = w}}
    BY DEF NamesOf
  <1>3. ASSUME NEW m \in Mentions(w, ids) PROVE NamesOf[w] \cap ids # {}
    <2>1. PICK p \in DOMAIN document : m \in {p} \X DOMAIN document[p].dependsOn
      BY DEF Mentions, Places
    <2>2. document[p].id = w /\ document[p].dependsOn[m[2]] \in ids
          /\ m[2] \in DOMAIN document[p].dependsOn
      BY <2>1 DEF Mentions
    <2>3. document[p].dependsOn[m[2]] \in Range(document[p].dependsOn)
      BY <2>2 DEF Range
    <2>. QED
      BY <1>2, <2>2, <2>3
  <1>4. ASSUME NEW d \in NamesOf[w] \cap ids PROVE Mentions(w, ids) # {}
    <2>1. PICK p \in DOMAIN document : document[p].id = w /\ d \in Range(document[p].dependsOn)
      BY <1>2
    <2>2. PICK k \in DOMAIN document[p].dependsOn : document[p].dependsOn[k] = d
      BY <2>1 DEF Range
    <2>3. <<p, k>> \in {p} \X DOMAIN document[p].dependsOn
      OBVIOUS
    <2>4. <<p, k>> \in Places
      BY <2>3 DEF Places
    <2>5. <<p, k>> \in Mentions(w, ids)
      BY <2>1, <2>2, <2>4 DEF Mentions
    <2>. QED
      BY <2>5
  <1>. QED
    BY <1>1, <1>3, <1>4

\* The mentions are counted from the first workflow of the document to the last.
LEMMA MentionsGrow ==
    ASSUME document \in Documents, NEW w, NEW id
    PROVE  /\ \A p \in Nat : MentionsUpTo(w, id, p) \in Nat
           /\ \A p, q \in Nat : p <= q => MentionsUpTo(w, id, p) <= MentionsUpTo(w, id, q)
           /\ MentionsUpTo(w, id, 0) = 0
           /\ MentionsUpTo(w, id, Len(document)) = Cardinality(Mentions(w, {id}))
           /\ \A p \in DOMAIN document :
                 document[p].id # w => MentionsUpTo(w, id, p - 1) = MentionsUpTo(w, id, p)
  <1>. DEFINE U(p) == {m \in Mentions(w, {id}) : m[1] <= p}
  <1>0. Len(document) \in Nat /\ DOMAIN document = 1..Len(document)
    BY DocumentFacts
  <1>1. ASSUME NEW m \in Mentions(w, {id})
        PROVE  m[1] \in Nat /\ 1 <= m[1] /\ m[1] <= Len(document) /\ document[m[1]].id = w
    <2>1. m \in Places /\ document[m[1]].id = w
      BY DEF Mentions
    <2>2. m[1] \in DOMAIN document
      BY <2>1, DocumentFacts
    <2>3. m[1] \in 1..Len(document)
      BY <1>0, <2>2
    <2>. QED
      BY <1>0, <2>1, <2>3
  <1>2. ASSUME NEW p PROVE IsFiniteSet(U(p)) /\ Cardinality(U(p)) \in Nat
    <2>1. U(p) \in SUBSET Mentions(w, {id})
      OBVIOUS
    <2>. QED
      BY <2>1, MentionsAreFinite, FS_Subset, FS_CardinalityType
  <1>3. ASSUME NEW p \in Nat, NEW q \in Nat, p <= q PROVE Cardinality(U(p)) <= Cardinality(U(q))
    <2>1. \A m \in Mentions(w, {id}) : m[1] <= p => m[1] <= q
      BY <1>1, <1>3
    <2>2. U(p) \in SUBSET U(q)
      BY <2>1
    <2>. HIDE DEF U
    <2>. QED
      BY <1>2, <2>2, FS_Subset
  <1>4. U(0) = {} /\ U(Len(document)) = Mentions(w, {id})
    <2>1. \A m \in Mentions(w, {id}) : ~(m[1] <= 0) /\ m[1] <= Len(document)
      BY <1>1
    <2>. QED
      BY <2>1
  <1>5. ASSUME NEW p \in DOMAIN document, document[p].id # w PROVE U(p - 1) = U(p)
    <2>1. \A m \in Mentions(w, {id}) : m[1] # p
      BY <1>1, <1>5
    <2>2. p \in Nat
      BY <1>0
    <2>3. \A n \in Nat : n # p => (n <= p - 1 <=> n <= p)
      BY <2>2
    <2>4. \A m \in Mentions(w, {id}) : m[1] <= p - 1 <=> m[1] <= p
      BY <1>1, <2>1, <2>3
    <2>. QED
      BY <2>4
  <1>6. Cardinality(U(0)) = 0
    BY <1>4, FS_EmptySet
  <1>. QED
    BY <1>0, <1>2, <1>3, <1>4, <1>5, <1>6 DEF MentionsUpTo

\* Positions put in order occur once each, and so do their ids if those are distinct.
LEMMA AscendingIds ==
    ASSUME document \in Documents, NEW positions, positions \subseteq DOMAIN document,
           NEW s \in Ascending(positions)
    PROVE  /\ IdsAt(s) \in Seq(Listed)
           /\ Range(IdsAt(s)) = {document[p].id : p \in positions}
           /\ (\A p, q \in positions : document[p].id = document[q].id => p = q)
                 => IsInjective(IdsAt(s))
  <1>1. /\ Len(document) \in Nat /\ DOMAIN document = 1..Len(document)
        /\ \A p \in DOMAIN document : document[p].id \in Listed
    BY DocumentFacts
  <1>2. Cardinality(positions) \in Nat
    <2>1. 1 \in Int /\ Len(document) \in Int /\ positions \in SUBSET (1..Len(document))
      BY <1>1
    <2>. QED
      BY <2>1, FS_Interval, FS_Subset, FS_CardinalityType
  <1>3. /\ s \in [1..Cardinality(positions) -> positions] /\ Range(s) = positions
        /\ \A j, k \in DOMAIN s : j < k => s[j] < s[k]
    BY DEF Ascending
  <1>4. /\ DOMAIN IdsAt(s) = 1..Cardinality(positions)
        /\ \A j \in 1..Cardinality(positions) : IdsAt(s)[j] = document[s[j]].id
    BY <1>3 DEF IdsAt
  <1>5. IdsAt(s) \in [1..Cardinality(positions) -> Listed]
    BY <1>1, <1>3 DEF IdsAt
  <1>6. IdsAt(s) \in Seq(Listed)
    BY <1>2, <1>5
  <1>7. Range(IdsAt(s)) = {document[p].id : p \in positions}
    BY <1>3, <1>4 DEF Range
  <1>8. ASSUME \A p, q \in positions : document[p].id = document[q].id => p = q,
               NEW j \in 1..Cardinality(positions), NEW k \in 1..Cardinality(positions),
               IdsAt(s)[j] = IdsAt(s)[k], j # k
        PROVE  FALSE
    <2>1. s[j] = s[k]
      BY <1>3, <1>4, <1>8
    <2>2. s[j] \in Nat /\ j \in Nat /\ k \in Nat
      BY <1>1, <1>2, <1>3
    <2>3. j < k \/ k < j
      BY <1>8, <2>2
    <2>. QED
      BY <1>3, <2>1, <2>2, <2>3
  <1>. QED
    BY <1>4, <1>6, <1>7, <1>8 DEF IsInjective

\* An order is a part of the queue; if that has each id once, the order has them all when it
\* is as long as there are.
LEMMA OrderFacts ==
    ASSUME SortTypeOK
    PROVE  /\ Len(queue) \in Nat /\ head \in Nat
           /\ Order \in Seq(Listed) /\ Len(Order) = head
           /\ \A k \in 1..head : Order[k] = queue[k] /\ queue[k] \in Listed
           /\ Range(Order) = {queue[k] : k \in 1..head}
           /\ IsInjective(queue) =>
                 /\ IsInjective(Order)
                 /\ head = Cardinality(Listed) <=> Remaining = {}
  <1>1. queue \in Seq(Listed) /\ Len(queue) \in Nat /\ head \in 0..Len(queue)
    BY DEF SortTypeOK
  <1>2. Order \in Seq(Listed) /\ Len(Order) = head
    BY <1>1 DEF Order
  <1>3. \A k \in 1..head : Order[k] = queue[k] /\ queue[k] \in Listed
    BY <1>1 DEF Order
  <1>4. Range(Order) = {queue[k] : k \in 1..head}
    BY <1>1, <1>2, <1>3 DEF Range
  <1>5. ASSUME IsInjective(queue)
        PROVE  IsInjective(Order) /\ (head = Cardinality(Listed) <=> Remaining = {})
    <2>. DEFINE q == [k \in 1..head |-> queue[k]]
    <2>1. \A j, k \in 1..head : queue[j] = queue[k] => j = k
      BY <1>1, <1>5 DEF IsInjective
    <2>2. q \in Bijection(1..head, Range(Order))
      BY <1>4, <2>1 DEF Bijection, Injection, Surjection, IsInjective
    <2>3. ExistsBijection(1..head, Range(Order))
      BY <2>2 DEF ExistsBijection
    <2>4. IsFiniteSet(Range(Order)) /\ Cardinality(Range(Order)) = head
      BY <1>1, <2>3, FS_Interval, FS_Bijection
    <2>5. Range(Order) \in SUBSET Listed
      BY <1>3, <1>4
    <2>6. IsFiniteSet(Listed)
      BY DocumentFacts DEF SortTypeOK
    <2>7. head = Cardinality(Listed) => Range(Order) = Listed
      BY <2>4, <2>5, <2>6, FS_Subset
    <2>8. Remaining = {} <=> Range(Order) = Listed
      BY <2>5 DEF Remaining
    <2>9. IsInjective(Order)
      BY <1>2, <1>3, <2>1 DEF IsInjective
    <2>. QED
      BY <2>4, <2>7, <2>8, <2>9
  <1>. QED
    BY <1>1, <1>2, <1>3, <1>4, <1>5

LEMMA SortInitInv == SortInit => SortInv
  <1>. SUFFICES ASSUME SortInit PROVE SortInv
    OBVIOUS
  <1>1. document \in Documents /\ head = 0 /\ outcome = "running"
    BY DEF SortInit
  <1>. DEFINE free == {p \in DOMAIN document : inDegree[document[p].id] = 0}
  <1>2. PICK s \in Ascending(free) : queue = IdsAt(s)
    BY DEF SortInit
  <1>3. inDegree = [w \in Listed |-> Cardinality(Mentions(w, Listed))]
    BY DEF SortInit
  <1>. HIDE DEF free
  <1>4. /\ queue \in Seq(Listed)
        /\ Range(queue) = {document[p].id : p \in free}
        /\ (\A p, q \in free : document[p].id = document[q].id => p = q) => IsInjective(queue)
    <2>1. free \subseteq DOMAIN document
      BY DEF free
    <2>. QED
      BY <1>1, <1>2, <2>1, AscendingIds
  <1>5. \A w \in Listed : Cardinality(Mentions(w, Listed)) \in Nat
    BY <1>1, MentionsAreFinite
  <1>6. SortTypeOK
    BY <1>1, <1>3, <1>4, <1>5 DEF SortTypeOK
  <1>7. Range(Order) = {}
    BY <1>1, <1>6, OrderFacts
  <1>8. Remaining = Listed
    BY <1>7 DEF Remaining
  <1>9. ASSUME RootsOnce PROVE IsInjective(queue)
    <2>. SUFFICES ASSUME NEW p \in free, NEW q \in free, document[p].id = document[q].id
                  PROVE  p = q
      BY <1>4
    <2>1. /\ p \in DOMAIN document /\ q \in DOMAIN document /\ document[p].id \in Listed
          /\ Cardinality(Mentions(document[p].id, Listed)) = 0
      BY <1>1, <1>3, DocumentFacts DEF free
    <2>2. Mentions(document[p].id, Listed) = {}
      BY <1>1, <2>1, MentionsAreFinite, FS_EmptySet
    <2>. QED
      BY <1>9, <2>1, <2>2 DEF RootsOnce
  <1>10. \A w \in Listed : inDegree[w] = 0 <=> w \in Range(queue)
    <2>1. \A w \in Listed : \E p \in DOMAIN document : document[p].id = w
      BY DEF Listed
    <2>. QED
      BY <1>4, <2>1 DEF free
  <1>11. RootsOnce => QueueInv
    BY <1>3, <1>8, <1>9, <1>10 DEF QueueInv
  <1>12. BehindInv
    BY <1>1 DEF BehindInv
  <1>. QED
    BY <1>1, <1>6, <1>11, <1>12 DEF SortInv, OutcomeInv

\* What a step of the loop does to any document: the next of the queue comes into the order,
\* and ids of the document are queued behind the others.
LEMMA Appended ==
    ASSUME SortTypeOK, Dequeue,
           NEW s \in Ascending(Freed(queue[head + 1])), queue' = queue \o IdsAt(s)
    PROVE  /\ SortTypeOK'
           /\ DOMAIN queue' = 1..Len(queue) + Len(IdsAt(s))
           /\ \A k \in 1..Len(queue) : queue'[k] = queue[k]
           /\ \A k \in 1..Len(IdsAt(s)) : queue'[Len(queue) + k] = IdsAt(s)[k]
           /\ Range(queue') = Range(queue) \cup Range(IdsAt(s))
           /\ Listed' = Listed /\ NamesOf' = NamesOf
           /\ queue[head + 1] \in Listed
           /\ Order' = Append(Order, queue[head + 1])
           /\ Remaining' = Remaining \ {queue[head + 1]}
  <1>. DEFINE id == queue[head + 1]
  <1>1. /\ Len(queue) \in Nat /\ head \in Nat /\ head + 1 \in 1..Len(queue)
        /\ queue \in Seq(Listed) /\ id \in Listed
    BY DEF SortTypeOK, Dequeue
  <1>2. inDegree' = Lowered(id) /\ head' = head + 1 /\ document' = document /\ outcome' = outcome
    BY DEF Dequeue
  <1>3. Listed' = Listed /\ NamesOf' = NamesOf
    BY <1>2 DEF Listed, NamesOf
  <1>4. document \in Documents /\ inDegree \in [Listed -> Int]
    BY DEF SortTypeOK
  <1>5. Lowered(id) \in [Listed -> Int]
    <2>1. \A w \in Listed : inDegree[w] - Cardinality(Mentions(w, {id})) \in Int
      BY <1>4, MentionsAreFinite
    <2>. QED
      BY <2>1 DEF Lowered
  <1>6. Freed(id) \subseteq DOMAIN document
    BY DEF Freed
  <1>7. IdsAt(s) \in Seq(Listed)
    BY <1>4, <1>6, AscendingIds
  <1>. DEFINE t == IdsAt(s)
  <1>. HIDE DEF t
  <1>8. t \in Seq(Listed) /\ queue' = queue \o t
    BY <1>7 DEF t
  <1>9. /\ queue' \in Seq(Listed) /\ Len(queue') = Len(queue) + Len(t) /\ Len(t) \in Nat
        /\ \A k \in 1..Len(queue) : queue'[k] = queue[k]
        /\ \A k \in 1..Len(t) : queue'[Len(queue) + k] = t[k]
        /\ DOMAIN queue' = 1..Len(queue) + Len(t)
    BY <1>1, <1>8
  <1>10. Range(queue') = Range(queue) \cup Range(t)
    BY <1>1, <1>8, RangeConcatenation
  <1>11. SortTypeOK'
    <2>1. head' \in 0..Len(queue')
      BY <1>1, <1>2, <1>9
    <2>. QED
      BY <1>2, <1>3, <1>5, <1>9, <2>1 DEF SortTypeOK
  <1>12. Order' = Append(Order, id)
    <2>1. Order = SubSeq(queue, 1, head) /\ Order' = SubSeq(queue', 1, head + 1)
      BY <1>2 DEF Order
    <2>2. Order \in Seq(Listed) /\ Len(Order) = head /\ \A k \in 1..head : Order[k] = queue[k]
      BY OrderFacts
    <2>3. head + 1 <= Len(queue') /\ \A k \in 1..head + 1 : queue'[k] = queue[k]
      BY <1>1, <1>9
    <2>4. Order' \in Seq(Listed) /\ Len(Order') = head + 1
          /\ \A k \in 1..head + 1 : Order'[k] = queue'[k]
      BY <1>1, <1>9, <2>1, <2>3
    <2>5. Append(Order, id) \in Seq(Listed) /\ Len(Append(Order, id)) = head + 1
          /\ \A k \in 1..head + 1 : Append(Order, id)[k] = queue[k]
      BY <1>1, <2>2
    <2>. HIDE DEF id
    <2>. QED
      BY <1>1, <2>3, <2>4, <2>5, SeqEqual
  <1>13. Remaining' = Remaining \ {id}
    <2>1. Order \in Seq(Listed)
      BY OrderFacts
    <2>. HIDE DEF id
    <2>2. Range(Append(Order, id)) = Range(Order) \cup {id}
      BY <1>1, <2>1, RangeOfAppend
    <2>. QED
      BY <1>3, <1>12, <2>2 DEF Remaining
  <1>. QED
    BY <1>1, <1>3, <1>9, <1>10, <1>11, <1>12, <1>13 DEF t

\* Where roots occur once, the ids that a step frees are those whose last dependencies it
\* takes, each at one position.
LEMMA FreedOnce ==
    ASSUME SortTypeOK, QueueInv, NEW id \in Remaining, NEW w \in Listed
    PROVE  /\ Lowered(id)[w] = Cardinality(Mentions(w, Remaining \ {id}))
           /\ Lowered(id)[w] = 0 /\ inDegree[w] # 0
                 <=> \E p \in Freed(id) : document[p].id = w
           /\ inDegree[w] = 0 => Lowered(id)[w] = 0
           /\ \A p, q \in Freed(id) : document[p].id = w /\ document[q].id = w => p = q
  <1>. DEFINE U(p) == MentionsUpTo(w, id, p)
              count == Cardinality(Mentions(w, {id}))
              rest == Cardinality(Mentions(w, Remaining \ {id}))
              n == Len(document)
              d == inDegree[w]
  <1>1. document \in Documents /\ n \in Nat /\ DOMAIN document = 1..n
    BY DocumentFacts DEF SortTypeOK
  <1>2. count \in Nat /\ rest \in Nat
    BY <1>1, MentionsAreFinite
  <1>3. d = Cardinality(Mentions(w, Remaining)) /\ d \in Nat
    BY <1>1, MentionsAreFinite DEF QueueInv
  <1>4. rest = d - count
    BY <1>1, <1>3, MentionsAreTakenOff
  <1>5. Lowered(id)[w] = d - count
    BY DEF Lowered
  <1>6. /\ \A p \in Nat : U(p) \in Nat
        /\ \A p, q \in Nat : p <= q => U(p) <= U(q)
        /\ U(0) = 0
        /\ U(n) = count
        /\ \A p \in DOMAIN document : document[p].id # w => U(p - 1) = U(p)
    BY <1>1, MentionsGrow
  <1>7. \A p \in DOMAIN document :
           document[p].id = w => (p \in Freed(id) <=> U(p - 1) < d /\ d <= U(p))
    BY DEF Freed
  <1>8. Freed(id) \subseteq DOMAIN document
    BY DEF Freed
  <1>. HIDE DEF U, count, rest, n, d
  <1>9. ASSUME NEW p \in Freed(id), document[p].id = w PROVE rest = 0 /\ d # 0
    <2>1. p \in 1..n /\ U(p - 1) < d /\ d <= U(p)
      BY <1>1, <1>7, <1>8, <1>9
    <2>2. p \in Nat /\ p - 1 \in Nat /\ p <= n
      BY <1>1, <2>1
    <2>3. U(p) <= count /\ U(p) \in Nat /\ U(p - 1) \in Nat
      BY <1>1, <1>6, <2>2
    <2>. QED
      BY <1>2, <1>3, <1>4, <2>1, <2>3
  <1>10. ASSUME rest = 0, d # 0 PROVE \E p \in Freed(id) : document[p].id = w
    <2>. DEFINE T == {p \in 1..n : d <= U(p)}
    <2>1. d = count /\ d > 0
      BY <1>2, <1>3, <1>4, <1>10
    <2>2. n # 0
      BY <1>6, <2>1
    <2>3. n \in T
      BY <1>1, <1>3, <1>6, <2>1, <2>2
    <2>4. T \subseteq Nat
      BY <1>1
    <2>5. PICK p \in T : \A m \in T : p <= m
      <3>. HIDE DEF T
      <3>. QED
        BY <2>3, <2>4, LeastIndex
    <2>6. p \in 1..n /\ p \in Nat /\ p - 1 \in Nat /\ d <= U(p) /\ ~(p <= p - 1)
      BY <1>1, <2>5
    <2>7. U(p - 1) < d
      <3>1. CASE p = 1
        BY <1>6, <2>1, <3>1
      <3>2. CASE p # 1
        <4>1. p - 1 \in 1..n
          BY <1>1, <2>6, <3>2
        <4>2. ~(d <= U(p - 1))
          BY <2>5, <2>6, <4>1
        <4>. QED
          BY <1>3, <1>6, <2>6, <4>2
      <3>. QED
        BY <3>1, <3>2
    <2>8. U(p - 1) # U(p)
      BY <1>3, <1>6, <2>6, <2>7
    <2>9. document[p].id = w
      BY <1>1, <1>6, <2>6, <2>8
    <2>. QED
      BY <1>1, <1>7, <2>6, <2>7, <2>9
  <1>11. ASSUME NEW p \in Freed(id), NEW q \in Freed(id), document[p].id = w, document[q].id = w, p < q
         PROVE  FALSE
    <2>1. p \in 1..n /\ q \in 1..n /\ d <= U(p) /\ U(q - 1) < d
      BY <1>1, <1>7, <1>8, <1>11
    <2>2. p \in Nat /\ q - 1 \in Nat /\ p <= q - 1
      BY <1>1, <1>11, <2>1
    <2>3. U(p) <= U(q - 1) /\ U(p) \in Nat /\ U(q - 1) \in Nat
      BY <1>6, <2>2
    <2>. QED
      BY <1>3, <2>1, <2>3
  <1>12. ASSUME NEW p \in Freed(id), NEW q \in Freed(id), document[p].id = w, document[q].id = w
         PROVE  p = q
    <2>1. p \in Nat /\ q \in Nat
      BY <1>1, <1>8
    <2>2. p = q \/ p < q \/ q < p
      BY <2>1
    <2>. QED
      BY <1>11, <1>12, <2>2
  <1>13. d = 0 => rest = 0
    BY <1>2, <1>3, <1>4
  <1>. QED
    BY <1>4, <1>5, <1>9, <1>10, <1>12, <1>13 DEF d, rest

\* And then that step takes an id that is left and waits for none.
LEMMA Taken ==
    ASSUME SortTypeOK, QueueInv, Dequeue
    PROVE  LET id == queue[head + 1]
           IN  /\ id \in Remaining
               /\ NamesOf[id] \cap Remaining = {}
               /\ Order' = Append(Order, id)
               /\ QueueInv'
  <1>. DEFINE id == queue[head + 1]
  <1>1. /\ Len(queue) \in Nat /\ head \in Nat /\ head + 1 \in 1..Len(queue)
        /\ id \in Listed /\ id \in Range(queue) /\ DOMAIN queue = 1..Len(queue)
        /\ document \in Documents
    BY DEF SortTypeOK, Dequeue, Range
  <1>2. \A j, k \in 1..Len(queue) : queue[j] = queue[k] => j = k
    BY <1>1 DEF QueueInv, IsInjective
  <1>3. id \in Remaining
    <2>1. \A k \in 1..head : queue[k] # id
      BY <1>1, <1>2
    <2>. QED
      BY <1>1, <2>1, OrderFacts DEF Remaining
  <1>4. NamesOf[id] \cap Remaining = {}
    BY <1>1, NoMention DEF QueueInv
  <1>5. PICK s \in Ascending(Freed(id)) : queue' = queue \o IdsAt(s)
    BY DEF Dequeue
  <1>6. /\ SortTypeOK'
        /\ DOMAIN queue' = 1..Len(queue) + Len(IdsAt(s))
        /\ \A k \in 1..Len(queue) : queue'[k] = queue[k]
        /\ \A k \in 1..Len(IdsAt(s)) : queue'[Len(queue) + k] = IdsAt(s)[k]
        /\ Range(queue') = Range(queue) \cup Range(IdsAt(s))
        /\ Listed' = Listed
        /\ Order' = Append(Order, id)
        /\ Remaining' = Remaining \ {id}
    BY <1>5, Appended
  <1>. DEFINE t == IdsAt(s)
  <1>7. \A w \in Listed :
           /\ Lowered(id)[w] = Cardinality(Mentions(w, Remaining \ {id}))
           /\ Lowered(id)[w] = 0 /\ inDegree[w] # 0 <=> \E p \in Freed(id) : document[p].id = w
           /\ inDegree[w] = 0 => Lowered(id)[w] = 0
           /\ \A p, q \in Freed(id) : document[p].id = w /\ document[q].id = w => p = q
    <2>. HIDE DEF id
    <2>. QED
      BY <1>3, FreedOnce
  <1>8. Freed(id) \subseteq DOMAIN document
    BY DEF Freed
  <1>9. /\ t \in Seq(Listed)
        /\ Range(t) = {document[p].id : p \in Freed(id)}
        /\ IsInjective(t)
    <2>1. \A p \in Freed(id) : document[p].id \in Listed
      BY <1>1, <1>8, DocumentFacts
    <2>2. \A p, q \in Freed(id) : document[p].id = document[q].id => p = q
      BY <1>7, <2>1
    <2>. HIDE DEF id
    <2>. QED
      BY <1>1, <1>5, <1>8, <2>2, AscendingIds
  <1>10. inDegree' = Lowered(id) /\ document' = document
    BY DEF Dequeue
  <1>. HIDE DEF id, t
  <1>11. \A w \in Listed : w \in Range(t) <=> Lowered(id)[w] = 0 /\ w \notin Range(queue)
    BY <1>7, <1>9 DEF QueueInv
  <1>12. /\ Len(t) \in Nat /\ DOMAIN t = 1..Len(t)
         /\ DOMAIN queue' = 1..Len(queue) + Len(t)
         /\ \A k \in 1..Len(t) : queue'[Len(queue) + k] = t[k]
    BY <1>6, <1>9 DEF t
  <1>13. IsInjective(queue')
    <2>. SUFFICES ASSUME NEW j \in 1..Len(queue) + Len(t), NEW k \in 1..Len(queue) + Len(t),
                         j < k, queue'[j] = queue'[k]
                  PROVE  FALSE
      BY <1>1, <1>12 DEF IsInjective
    <2>1. CASE k <= Len(queue)
      <3>1. j \in 1..Len(queue) /\ k \in 1..Len(queue)
        BY <1>1, <1>12, <2>1
      <3>2. queue[j] = queue[k]
        BY <1>6, <3>1
      <3>. QED
        BY <1>1, <1>2, <3>1, <3>2
    <2>2. CASE j > Len(queue)
      <3>1. /\ j - Len(queue) \in 1..Len(t) /\ j = Len(queue) + (j - Len(queue))
            /\ k - Len(queue) \in 1..Len(t) /\ k = Len(queue) + (k - Len(queue))
        BY <1>1, <1>12, <2>2
      <3>2. queue'[j] = t[j - Len(queue)] /\ queue'[k] = t[k - Len(queue)]
        BY <1>12, <3>1
      <3>3. j - Len(queue) = k - Len(queue)
        BY <1>9, <1>12, <3>1, <3>2 DEF IsInjective
      <3>. QED
        BY <1>1, <1>12, <3>3
    <2>3. CASE j <= Len(queue) /\ k > Len(queue)
      <3>1. k - Len(queue) \in 1..Len(t) /\ k = Len(queue) + (k - Len(queue)) /\ j \in 1..Len(queue)
        BY <1>1, <1>12, <2>3
      <3>2. queue'[k] = t[k - Len(queue)] /\ queue'[j] = queue[j]
        BY <1>6, <1>12, <3>1
      <3>3. queue'[k] \in Range(t) /\ queue'[j] \in Range(queue) /\ queue'[k] \in Listed
        BY <1>1, <1>9, <1>12, <3>1, <3>2 DEF Range
      <3>. QED
        BY <1>11, <3>3
    <2>. QED
      BY <1>1, <1>12, <2>1, <2>2, <2>3
  <1>14. QueueInv'
    <2>1. ASSUME NEW w \in Listed
          PROVE  /\ inDegree'[w] = Cardinality(Mentions(w, Remaining))'
                 /\ inDegree'[w] = 0 <=> w \in Range(queue')
      <3>1. Mentions(w, Remaining)' = Mentions(w, Remaining \ {id})
        BY <1>6, <1>10 DEF Mentions, Places
      <3>2. inDegree'[w] = Cardinality(Mentions(w, Remaining))'
        BY <1>7, <1>10, <3>1
      <3>3. inDegree[w] = 0 <=> w \in Range(queue)
        BY DEF QueueInv
      <3>. QED
        BY <1>6, <1>7, <1>10, <1>11, <3>2, <3>3 DEF t
    <2>. QED
      BY <1>6, <1>13, <2>1 DEF QueueInv
  <1>. QED
    BY <1>3, <1>4, <1>6, <1>14 DEF id

LEMMA SortUnchanged ==
    ASSUME UNCHANGED <<document, inDegree, queue, head>>
    PROVE  RootsOnce' = RootsOnce /\ QueueInv' = QueueInv /\ BehindInv' = BehindInv
  <1>1. Listed' = Listed /\ Places' = Places /\ NamesOf' = NamesOf /\ Order' = Order
    BY DEF Listed, Places, NamesOf, Order
  <1>2. Remaining' = Remaining
    BY <1>1 DEF Remaining
  <1>3. ASSUME NEW w, NEW ids PROVE Mentions(w, ids)' = Mentions(w, ids)
    BY <1>1 DEF Mentions
  <1>4. RootsOnce' = RootsOnce
    BY <1>1, <1>3 DEF RootsOnce
  <1>5. QueueInv' = QueueInv
    BY <1>1, <1>2, <1>3 DEF QueueInv, Mentions
  <1>6. BehindInv' = BehindInv
    BY <1>1 DEF BehindInv
  <1>. QED
    BY <1>4, <1>5, <1>6

LEMMA SortStep == SortInv /\ [SortNext]_sortVars => SortInv'
  <1>. SUFFICES ASSUME SortInv, [SortNext]_sortVars PROVE SortInv'
    OBVIOUS
  <1>0. SortTypeOK /\ OutcomeInv /\ (RootsOnce => QueueInv /\ BehindInv)
    BY DEF SortInv
  <1>1. ASSUME Dequeue PROVE SortInv'
    <2>. DEFINE id == queue[head + 1]
    <2>1. PICK s \in Ascending(Freed(id)) : queue' = queue \o IdsAt(s)
      BY <1>1 DEF Dequeue
    <2>2. /\ SortTypeOK'
          /\ \A k \in 1..Len(queue) : queue'[k] = queue[k]
          /\ Listed' = Listed /\ NamesOf' = NamesOf
      BY <1>0, <1>1, <2>1, Appended
    <2>3. /\ head' = head + 1 /\ head \in Nat /\ document' = document
          /\ outcome' = "running" /\ head + 1 \in 1..Len(queue) /\ Len(queue) \in Nat
      BY <1>0, <1>1, OrderFacts DEF Dequeue, SortTypeOK
    <2>4. OutcomeInv'
      BY <2>3 DEF OutcomeInv
    <2>5. RootsOnce' = RootsOnce
      BY <2>3 DEF RootsOnce, Mentions, Places, Listed
    <2>6. ASSUME RootsOnce PROVE QueueInv' /\ BehindInv'
      <3>1. QueueInv' /\ NamesOf[id] \cap Remaining = {}
        BY <1>0, <1>1, <2>6, Taken
      <3>2. ASSUME NEW k \in 1..head + 1, NEW d \in NamesOf[queue[k]] \cap Listed
            PROVE  \E j \in 1..k-1 : queue[j] = d
        <4>1. CASE k \in 1..head
          BY <1>0, <2>6, <3>2, <4>1 DEF BehindInv
        <4>2. CASE k = head + 1
          <5>1. d \in Range(Order)
            BY <3>1, <3>2, <4>2 DEF Remaining
          <5>2. \E j \in 1..head : queue[j] = d
            BY <1>0, <5>1, OrderFacts
          <5>. QED
            BY <2>3, <4>2, <5>2
        <4>. QED
          BY <2>3, <4>1, <4>2
      <3>3. BehindInv'
        <4>0. \A k \in 1..head + 1 : queue'[k] = queue[k]
          BY <2>2, <2>3
        <4>. SUFFICES ASSUME NEW k \in 1..head + 1, NEW d \in NamesOf[queue[k]] \cap Listed
                      PROVE  \E j \in 1..k-1 : queue'[j] = d
          BY <2>2, <2>3, <4>0 DEF BehindInv
        <4>1. PICK j \in 1..k-1 : queue[j] = d
          BY <3>2
        <4>2. j \in 1..head + 1
          BY <2>3
        <4>. QED
          BY <4>0, <4>1, <4>2
      <3>. QED
        BY <3>1, <3>3
    <2>. QED
      BY <2>2, <2>4, <2>5, <2>6 DEF SortInv
  <1>2. ASSUME Sorted PROVE SortInv'
    <2>1. UNCHANGED <<document, inDegree, queue, head>>
          /\ head = Len(queue) /\ outcome' = IF head = Cardinality(Listed) THEN "sorted" ELSE "cycle"
      BY <1>2 DEF Sorted
    <2>2. SortTypeOK'
      BY <1>0, <2>1 DEF SortTypeOK, Listed
    <2>3. OutcomeInv'
      BY <2>1 DEF OutcomeInv, Listed
    <2>4. (RootsOnce => QueueInv /\ BehindInv)'
      BY <1>0, <2>1, SortUnchanged
    <2>. QED
      BY <2>2, <2>3, <2>4 DEF SortInv
  <1>3. ASSUME UNCHANGED sortVars PROVE SortInv'
    <2>1. UNCHANGED <<document, inDegree, queue, head, outcome>>
      BY <1>3 DEF sortVars
    <2>2. SortTypeOK' /\ OutcomeInv'
      BY <1>0, <2>1 DEF SortTypeOK, OutcomeInv, Listed
    <2>. QED
      BY <1>0, <2>1, <2>2, SortUnchanged DEF SortInv
  <1>. QED
    BY <1>1, <1>2, <1>3 DEF SortNext, SortReturned

\* Every step of the sort keeps its invariant.
THEOREM SortInvariance == SortSpec => []SortInv
  BY SortInitInv, SortStep, PTL DEF SortSpec

\* Every step of the loop is one of DependencyOrder, for any document that has the ids of
\* workflows that depend on no other once: it takes an id that is ready, or it ends, when none
\* is, and says whether all are in the order (topologicalSort). That it ends is left to TLC.
THEOREM SortImplementsOrder == SortSpec /\ RootsOnce => DependencyOrder!Safety
  <1>1. SortInit /\ RootsOnce => DependencyOrder!Init
    <2>. SUFFICES ASSUME SortInit PROVE DependencyOrder!Init
      OBVIOUS
    <2>1. SortTypeOK /\ head = 0 /\ outcome = "running"
      BY SortInitInv DEF SortInit, SortInv
    <2>2. Order = << >>
      BY <2>1, OrderFacts
    <2>3. NamesOf \in [Listed -> SUBSET Name] /\ Listed \subseteq Name
      <3>1. /\ \A p \in DOMAIN document :
                  /\ document[p].id \in Name
                  /\ Range(document[p].dependsOn) \subseteq Name
        BY <2>1, DocumentFacts DEF SortTypeOK, Range
      <3>. QED
        BY <3>1 DEF NamesOf, Listed
    <2>4. DOMAIN NamesOf = Listed
      BY DEF NamesOf
    <2>. QED
      BY <2>1, <2>2, <2>3, <2>4 DEF DependencyOrder!Init
  <1>2. SortInv /\ RootsOnce /\ [SortNext]_sortVars
            => [DependencyOrder!Next]_DependencyOrder!orderVars
    <2>. SUFFICES ASSUME SortInv, RootsOnce, [SortNext]_sortVars
                  PROVE  [DependencyOrder!Next]_DependencyOrder!orderVars
      OBVIOUS
    <2>0. SortTypeOK /\ QueueInv
      BY DEF SortInv
    <2>1. DependencyOrder!Left = Remaining
      BY DEF DependencyOrder!Left, DependencyOrder!Range, Range, Remaining, NamesOf
    <2>2. \A w \in Listed : DependencyOrder!Ready(w) <=> NamesOf[w] \cap Remaining = {}
      BY <2>1 DEF DependencyOrder!Ready
    <2>3. CASE Dequeue
      <3>. DEFINE id == queue[head + 1]
      <3>1. /\ id \in Remaining /\ NamesOf[id] \cap Remaining = {}
            /\ Order' = Append(Order, id)
        BY <2>0, <2>3, Taken
      <3>2. outcome = "running" /\ NamesOf' = NamesOf /\ outcome' = outcome
        BY <2>3 DEF Dequeue, NamesOf, Listed
      <3>3. DependencyOrder!Take
        BY <2>1, <2>2, <3>1, <3>2 DEF DependencyOrder!Take, Remaining
      <3>. QED
        BY <3>3 DEF DependencyOrder!Next
    <2>4. CASE Sorted
      <3>1. /\ outcome = "running" /\ head = Len(queue)
            /\ outcome' = IF head = Cardinality(Listed) THEN "sorted" ELSE "cycle"
            /\ UNCHANGED <<NamesOf, Order>>
        BY <2>4 DEF Sorted, Order, NamesOf, Listed
      <3>2. ASSUME NEW w \in Remaining PROVE ~DependencyOrder!Ready(w)
        <4>1. w \in Listed /\ w \notin Range(Order)
          BY DEF Remaining
        <4>2. DOMAIN queue = 1..head
          BY <2>0, <3>1 DEF SortTypeOK
        <4>3. Range(Order) = Range(queue)
          BY <2>0, <4>2, OrderFacts DEF Range
        <4>. QED
          BY <2>0, <2>2, <4>1, <4>3, NoMention DEF QueueInv, SortTypeOK
      <3>3. head = Cardinality(Listed) <=> DependencyOrder!Left = {}
        BY <2>0, <2>1, OrderFacts DEF QueueInv
      <3>4. DependencyOrder!Finish
        BY <2>1, <3>1, <3>2, <3>3 DEF DependencyOrder!Finish
      <3>. QED
        BY <3>4 DEF DependencyOrder!Next
    <2>5. CASE UNCHANGED sortVars
      BY <2>5 DEF sortVars, DependencyOrder!orderVars, Order, NamesOf, Listed
    <2>. QED
      BY <2>3, <2>4, <2>5 DEF SortNext, SortReturned
  <1>3. RootsOnce /\ [SortNext]_sortVars => RootsOnce'
    <2>1. [SortNext]_sortVars => document' = document
      BY DEF SortNext, Dequeue, Sorted, SortReturned, sortVars
    <2>. QED
      BY <2>1 DEF RootsOnce, Mentions, Places, Listed
  <1>. QED
    BY <1>1, <1>2, <1>3, SortInvariance, PTL DEF SortSpec, DependencyOrder!Safety

\* Workflows each of which depends on one of them.
IsCycle(workflows) ==
    /\ workflows # {}
    /\ \A w \in workflows : NamesOf[w] \cap workflows # {}

\* RunAll reports a circular dependency exactly when some workflows of the document all wait
\* for one another, and else has an order of all in which each is behind those it depends on,
\* if workflows that depend on no other have their ids for themselves.
CyclesAreReported ==
    RootsOnce =>
        /\ outcome = "sorted" =>
              Range(Order) = Listed /\ IsTopological(Order, NamesOf, Listed)
        /\ outcome # "running" =>
              (outcome = "cycle" <=> \E workflows \in SUBSET Listed : IsCycle(workflows))

\* A circular dependency is reported when there is one and only then (topologicalSort).
THEOREM CyclesAreFound == SortSpec => []CyclesAreReported
  <1>1. SortInv => CyclesAreReported
    <2>. SUFFICES ASSUME SortInv, RootsOnce
                  PROVE  /\ outcome = "sorted" =>
                               Range(Order) = Listed /\ IsTopological(Order, NamesOf, Listed)
                         /\ outcome # "running" =>
                               (outcome = "cycle" <=> \E workflows \in SUBSET Listed : IsCycle(workflows))
      BY DEF CyclesAreReported
    <2>0. SortTypeOK /\ OutcomeInv /\ QueueInv /\ BehindInv
      BY DEF SortInv
    <2>1. /\ head \in Nat /\ Len(Order) = head /\ DOMAIN Order = 1..head
          /\ \A k \in 1..head : Order[k] = queue[k] /\ queue[k] \in Listed
          /\ Range(Order) = {queue[k] : k \in 1..head} /\ Range(Order) \subseteq Listed
          /\ head = Cardinality(Listed) <=> Remaining = {}
      BY <2>0, OrderFacts DEF QueueInv
    <2>2. ASSUME outcome = "sorted"
          PROVE  Range(Order) = Listed /\ IsTopological(Order, NamesOf, Listed)
      <3>1. Range(Order) = Listed
        BY <2>0, <2>1, <2>2 DEF OutcomeInv, Remaining
      <3>2. ASSUME NEW k \in 1..head, NEW d \in NamesOf[Order[k]] \cap Listed
            PROVE  \E j \in 1..k-1 : Order[j] = d
        <4>1. PICK j \in 1..k-1 : queue[j] = d
          BY <2>0, <2>1, <3>2 DEF BehindInv
        <4>2. j \in 1..head
          BY <2>1
        <4>. QED
          BY <2>1, <4>1, <4>2
      <3>. QED
        BY <2>1, <3>1, <3>2 DEF IsTopological
    <2>3. ASSUME outcome = "cycle" PROVE IsCycle(Remaining) /\ Remaining \subseteq Listed
      <3>1. head = Len(queue) /\ head # Cardinality(Listed)
        BY <2>0, <2>3 DEF OutcomeInv
      <3>2. Remaining # {} /\ Remaining \subseteq Listed
        BY <2>1, <3>1 DEF Remaining
      <3>3. Range(Order) = Range(queue)
        BY <2>0, <2>1, <3>1 DEF SortTypeOK, Range
      <3>4. \A w \in Remaining : NamesOf[w] \cap Remaining # {}
        BY <2>0, <3>3, NoMention DEF QueueInv, Remaining, SortTypeOK
      <3>. QED
        BY <3>2, <3>4 DEF IsCycle
    <2>4. ASSUME outcome = "sorted", NEW workflows \in SUBSET Listed, IsCycle(workflows)
          PROVE  FALSE
      <3>. DEFINE T == {k \in 1..head : queue[k] \in workflows}
      <3>1. workflows # {} /\ workflows \subseteq Range(Order)
        BY <2>2, <2>4 DEF IsCycle
      <3>2. T # {} /\ T \subseteq Nat
        BY <2>1, <3>1
      <3>3. PICK n \in T : \A m \in T : n <= m
        <4>. HIDE DEF T
        <4>. QED
          BY <3>2, LeastIndex
      <3>4. PICK d \in workflows : d \in NamesOf[queue[n]]
        BY <2>4, <3>3 DEF IsCycle
      <3>5. d \in Listed
        OBVIOUS
      <3>6. PICK j \in 1..n-1 : queue[j] = d
        BY <2>0, <3>3, <3>4, <3>5 DEF BehindInv
      <3>7. j \in T /\ j < n
        BY <2>1, <3>3, <3>4, <3>6
      <3>. QED
        BY <2>1, <3>3, <3>7
    <2>. QED
      BY <2>0, <2>2, <2>3, <2>4 DEF SortTypeOK
  <1>. QED
    BY <1>1, SortInvariance, PTL

\* What the sort returns is a plan as the engine takes it (CallAssumption): ids of the
\* document, whatever it repeats; none comes twice if no root does.
THEOREM OrderIsAPlan == SortSpec => [](Order \in Seq(Listed) /\ (RootsOnce => IsInjective(Order)))
  <1>1. SortInv => Order \in Seq(Listed) /\ (RootsOnce => IsInjective(Order))
    BY OrderFacts DEF SortInv, QueueInv
  <1>. QED
    BY <1>1, SortInvariance, PTL

\* RunAll over such an order fails a workflow for a dependency without a result only
\* if the document does not have it: of the others there is one when its turn comes,
\* though workflows are skipped, fail or run inside others (dependencyExecutionError).
DependenciesHaveResults ==
    IsTopological(plan, DependsOn, Workflow) /\ Idle /\ pos <= Len(plan) =>
        \A d \in DependsOn[plan[pos]] \cap Workflow : results[d] # "none"

PastInv == \A k \in 1..pos - 1 : results[plan[k]] # "none"

LEMMA PastStep == IInv /\ PastInv /\ [Next]_vars => PastInv'
  <1>. SUFFICES ASSUME IInv, PastInv, [Next]_vars PROVE PastInv'
    OBVIOUS
  <1>0. /\ given \in Calls /\ pos \in Nat /\ pos \in 1..Len(plan) + 1
        /\ results \in [Workflow -> {"none", "ok", "failed"}]
        /\ plan \in Seq(Workflow) /\ Len(plan) \in Nat
        /\ \A k \in 1..pos - 1 : plan[k] \in Workflow
    BY GivenFacts DEF IInv, DataInv
  <1>1. ASSUME given' = given, pos' = pos, \A w \in Workflow : results[w] # "none" => results'[w] # "none"
        PROVE  PastInv'
    BY <1>0, <1>1 DEF PastInv, plan
  <1>2. CASE SkipDependent
    <2>1. /\ given' = given /\ pos' = pos + 1 /\ plan[pos] \in Workflow
          /\ results' = [results EXCEPT ![plan[pos]] = "failed"]
      BY <1>0, <1>2 DEF SkipDependent, run
    <2>2. plan' = plan /\ \A k \in 1..pos : k \in 1..pos - 1 \/ k = pos
      BY <1>0, <2>1 DEF plan
    <2>. QED
      BY <1>0, <2>1, <2>2 DEF PastInv
  <1>3. CASE Finish
    <2>1. /\ given' = given /\ stack # << >> /\ Top.workflow \in Workflow
          /\ DOMAIN stack = 1..Len(stack) /\ Len(stack) \in Nat /\ Len(stack) > 0
          /\ SoundStack(stack) /\ pos <= Len(plan) /\ stack[1].workflow = plan[pos]
      BY <1>3, TopFacts DEF Finish, IInv, DataInv, StackInv
    <2>2. PICK ok \in BOOLEAN :
             /\ results' = [results EXCEPT ![Top.workflow] = IF ok THEN "ok" ELSE "failed"]
             /\ IF Below = << >> THEN pos' = pos + 1 ELSE pos' = pos
      BY <1>3 DEF Finish
    <2>3. /\ \A w \in Workflow : results[w] # "none" => results'[w] # "none"
          /\ results'[Top.workflow] # "none"
      BY <1>0, <2>1, <2>2
    <2>4. CASE Below = << >>
      <3>1. Len(Below) = Len(stack) - 1
        BY <2>1 DEF Below, SoundStack
      <3>2. Len(Below) = 0
        BY ONLY <2>4
      <3>3. Len(stack) \in Nat
        BY <2>1
      <3>4. Len(stack) = 1
        BY ONLY <3>1, <3>2, <3>3
      <3>5. Top.workflow = plan[pos]
        BY <2>1, <3>4 DEF Top
      <3>6. plan' = plan /\ pos' = pos + 1 /\ \A k \in 1..pos : k \in 1..pos - 1 \/ k = pos
        BY <1>0, <2>1, <2>2, <2>4 DEF plan
      <3>. QED
        BY <1>0, <2>3, <3>5, <3>6 DEF PastInv
    <2>5. CASE Below # << >>
      BY <1>1, <2>1, <2>2, <2>3, <2>5
    <2>. QED
      BY <2>4, <2>5
  <1>4. CASE StartWorkflow \/ Return \/ LeaveLoop \/ BeginStep \/ Executed \/ ProcessSuccess \/ ProcessFailure
             \/ CancelContext \/ Terminated \/ UNCHANGED vars
    <2>1. UNCHANGED <<given, pos, results>>
      BY <1>4 DEF StartWorkflow, Return, LeaveLoop, BeginStep, Executed, ProcessSuccess, ProcessFailure,
                  CancelContext, Terminated, vars, run
    <2>. QED
      BY <1>1, <2>1
  <1>. QED
    BY <1>2, <1>3, <1>4 DEF Next, Proceed

THEOREM DependenciesAreResolved == Spec => []DependenciesHaveResults
  <1>1. Init => PastInv
    BY DEF Init, PastInv
  <1>2. IInv /\ PastInv => DependenciesHaveResults
    <2>. SUFFICES ASSUME IInv, PastInv, IsTopological(plan, DependsOn, Workflow), pos <= Len(plan),
                         NEW d \in DependsOn[plan[pos]] \cap Workflow
                  PROVE  results[d] # "none"
      BY DEF DependenciesHaveResults
    <2>1. pos \in 1..Len(plan) + 1 /\ plan \in Seq(Workflow) /\ Len(plan) \in Nat
      BY GivenFacts DEF IInv, DataInv
    <2>2. pos \in DOMAIN plan
      BY <2>1
    <2>3. PICK j \in 1..pos - 1 : plan[j] = d
      BY <2>2 DEF IsTopological
    <2>. QED
      BY <2>3 DEF PastInv
  <1>. QED
    BY <1>1, <1>2, PastStep, Invariance, PTL DEF Spec
=============================================================================
