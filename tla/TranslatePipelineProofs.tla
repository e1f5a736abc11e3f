----------------------- MODULE TranslatePipelineProofs -----------------------
(***************************************************************************)
(* What the caller of TranslatePipeline receives, for all inputs, answers  *)
(* and pools of workers.                                                   *)
(*                                                                         *)
(* That the output is in order and complete is not inductive: it rests on  *)
(* where the inputs are. An input that has been fed is held, in a channel, *)
(* with a worker, waiting for an earlier one or handed on, unless a        *)
(* failure has cancelled the rest; and the goroutines end one after the    *)
(* other, so that a collector that finds the results closed has them all.  *)
(***************************************************************************)
EXTENDS TranslatePipeline, FiniteSetTheorems, TLAPS

In(seq, chan) == \E k \in DOMAIN chan : chan[k] = seq

\* Until its output is closed the collector waits for the next result.
CollectorInv ==
    /\ outClosed <=> collector \notin {"receive", "flush"}
    /\ done => outClosed
    /\ collector = "receive" => nextSeq \notin pending
    /\ collector = "flush" => nextSeq \in pending

\* The goroutines end in the order of the pipeline, or by a failure.
EndInv ==
    /\ inClosed => fed = N \/ outClosed
    /\ workClosed => held = 0 /\ (inClosed \/ cancelled)
    /\ \A w \in Worker :
          worker[w].at = "exited" =>
              worker[w] = Exited /\ (cancelled \/ (workClosed /\ workChan = << >>))
    /\ resultClosed => Waited
    /\ collector \in {"returned", "finished"} => Waited

\* Where a worker has an input in its hands.
HasInput == {"translated", "erred", "stored", "failed"}

\* An error is that of an input that failed, and whoever has met with a failure has
\* stored an error and cancelled the rest.
FailureInv ==
    /\ reterr # 0 => answer[reterr] = "fail"
    /\ cancelled /\ collector \notin {"returned", "finished"} => reterr # 0
    /\ \A w \in Worker :
          /\ worker[w].at \in {"stored", "failed"} => reterr # 0
          /\ worker[w].at = "failed" => cancelled
          /\ worker[w].at = "translated" => answer[worker[w].seq] # "fail"
          /\ worker[w].at = "erred" => answer[worker[w].seq] = "fail"
          /\ worker[w].at \in HasInput => worker[w].seq \in Index
    /\ \A k \in DOMAIN resultChan :
          answer[resultChan[k]] = "fail" => reterr # 0 /\ cancelled
    /\ \A seq \in pending : answer[seq] # "fail"

\* Where an input is.
Somewhere(i) ==
    \/ held = i \/ In(i, workChan)
    \/ \E w \in Worker : worker[w].at \in HasInput /\ worker[w].seq = i
    \/ In(i, resultChan) \/ i \in pending \/ i < nextSeq
NothingIsLost == ~cancelled => \A i \in 1..fed : Somewhere(i)

\* What has been handed on: all before nextSeq, but for the one that was waiting for
\* the reader when a failure ended it.
HandedOn(i) == answer[i] = "continue" \/ In(i, delivered)
DeliveryInv ==
    /\ \A j \in DOMAIN delivered : answer[delivered[j]] = "nil" /\ delivered[j] < nextSeq
    /\ \A j, k \in DOMAIN delivered : j < k => delivered[j] < delivered[k]
    /\ \A i \in 1..nextSeq - 1 : HandedOn(i) \/ (i = nextSeq - 1 /\ outClosed /\ reterr # 0)
    /\ outClosed /\ reterr = 0 => nextSeq = N + 1

IInv == TypeOK /\ CollectorInv /\ EndInv /\ FailureInv /\ NothingIsLost /\ DeliveryInv

(***************************************************************************)
(* Channels.                                                               *)
(***************************************************************************)
\* What is received from a channel, and what is sent on it.
LEMMA Received ==
    ASSUME NEW S, NEW chan \in Seq(S), chan # << >>
    PROVE  /\ Head(chan) \in S /\ Tail(chan) \in Seq(S) /\ Len(Tail(chan)) = Len(chan) - 1
           /\ \A x : In(x, chan) <=> x = Head(chan) \/ In(x, Tail(chan))
           /\ \A k \in DOMAIN Tail(chan) : k + 1 \in DOMAIN chan /\ Tail(chan)[k] = chan[k + 1]
           /\ 1 \in DOMAIN chan /\ chan[1] = Head(chan)
<1>1. /\ Head(chan) \in S /\ Tail(chan) \in Seq(S) /\ Len(Tail(chan)) = Len(chan) - 1
      /\ \A k \in DOMAIN Tail(chan) : k + 1 \in DOMAIN chan /\ Tail(chan)[k] = chan[k + 1]
      /\ 1 \in DOMAIN chan /\ chan[1] = Head(chan)
  OBVIOUS
<1>2. ASSUME NEW k \in DOMAIN chan, k # 1
      PROVE  k - 1 \in DOMAIN Tail(chan) /\ Tail(chan)[k - 1] = chan[k]
  BY <1>2
<1>. QED
  BY <1>1, <1>2 DEF In

LEMMA Sent ==
    ASSUME NEW S, NEW chan \in Seq(S), NEW e \in S
    PROVE  /\ Append(chan, e) \in Seq(S) /\ Len(Append(chan, e)) = Len(chan) + 1
           /\ \A x : In(x, Append(chan, e)) <=> x = e \/ In(x, chan)
           /\ \A k \in DOMAIN Append(chan, e) :
                 Append(chan, e)[k] = IF k = Len(chan) + 1 THEN e ELSE chan[k]
           /\ DOMAIN Append(chan, e) = DOMAIN chan \cup {Len(chan) + 1}
<1>1. /\ Append(chan, e) \in Seq(S) /\ Len(Append(chan, e)) = Len(chan) + 1
      /\ DOMAIN Append(chan, e) = DOMAIN chan \cup {Len(chan) + 1}
      /\ \A k \in DOMAIN Append(chan, e) :
            Append(chan, e)[k] = IF k = Len(chan) + 1 THEN e ELSE chan[k]
  OBVIOUS
<1>2. Len(chan) + 1 \notin DOMAIN chan
  OBVIOUS
<1>. QED
  BY <1>1, <1>2 DEF In

\* The pool is not empty.
LEMMA PoolNotEmpty == Worker # {}
BY PipelineAssumption, FS_EmptySet

(***************************************************************************)
(* The actions.                                                            *)
(***************************************************************************)
\* The feeder hands an input to the enqueuer.
LEMMA FeedKeepsInv ==
    ASSUME IInv, Feed
    PROVE  IInv'
<1>. USE PipelineAssumption DEF IInv, TypeOK, Index, Answer, WorkerState, Idle, Exited, Enter, HasInput,
             Feed, pool, output
<1>1. TypeOK'
  OBVIOUS
<1>2. CollectorInv'
  BY DEF CollectorInv
<1>3. EndInv'
  BY DEF EndInv, CollectorInv, FailureInv, Waited
<1>4. FailureInv'
  BY DEF FailureInv
<1>5. NothingIsLost'
  <2>. SUFFICES ASSUME ~cancelled, NEW i \in 1..fed' PROVE Somewhere(i)'
    BY DEF NothingIsLost
  <2>1. CASE i = fed + 1
    BY <2>1 DEF Somewhere
  <2>2. CASE i \in 1..fed
    BY <2>2 DEF Somewhere, NothingIsLost
  <2>. QED
    BY <2>1, <2>2
<1>6. DeliveryInv'
  BY DEF DeliveryInv, HandedOn
<1>. QED
  BY <1>1, <1>2, <1>3, <1>4, <1>5, <1>6

\* The feeder ends.
LEMMA CloseInKeepsInv ==
    ASSUME IInv, CloseIn
    PROVE  IInv'
<1>. USE PipelineAssumption DEF IInv, TypeOK, Index, Answer, WorkerState, Idle, Exited, Enter, HasInput,
             CloseIn, pool, output
<1>1. TypeOK'
  OBVIOUS
<1>2. CollectorInv'
  BY DEF CollectorInv
<1>3. EndInv'
  BY DEF EndInv, CollectorInv, FailureInv, Waited
<1>4. FailureInv'
  BY DEF FailureInv
<1>5. NothingIsLost'
  BY DEF NothingIsLost, Somewhere
<1>6. DeliveryInv'
  BY DEF DeliveryInv, HandedOn
<1>. QED
  BY <1>1, <1>2, <1>3, <1>4, <1>5, <1>6

\* The enqueuer numbers an input.
LEMMA EnqueueKeepsInv ==
    ASSUME IInv, Enqueue
    PROVE  IInv'
<1>. USE PipelineAssumption DEF IInv, TypeOK, Index, Answer, WorkerState, Idle, Exited, Enter, HasInput,
             Enqueue, pool, output
<1>0. /\ workChan' \in Seq(Index) /\ Len(workChan') = Len(workChan) + 1
      /\ \A x : In(x, workChan') <=> x = held \/ In(x, workChan)
  <2>1. held \in Index
    OBVIOUS
  <2>. QED
    BY <2>1, Sent
<1>1. TypeOK'
  BY <1>0 DEF ChannelCap
<1>2. CollectorInv'
  BY DEF CollectorInv
<1>3. EndInv'
  BY DEF EndInv, CollectorInv, FailureInv, Waited
<1>4. FailureInv'
  BY DEF FailureInv
<1>5. NothingIsLost'
  <2>. SUFFICES ASSUME ~cancelled, NEW i \in 1..fed PROVE Somewhere(i)'
    BY DEF NothingIsLost
  <2>. QED
    BY <1>0 DEF NothingIsLost, Somewhere
<1>6. DeliveryInv'
  BY DEF DeliveryInv, HandedOn
<1>. QED
  BY <1>1, <1>2, <1>3, <1>4, <1>5, <1>6

\* The enqueuer ends.
LEMMA CloseWorkKeepsInv ==
    ASSUME IInv, CloseWork
    PROVE  IInv'
<1>. USE PipelineAssumption DEF IInv, TypeOK, Index, Answer, WorkerState, Idle, Exited, Enter, HasInput,
             CloseWork, pool, output
<1>1. TypeOK'
  BY DEF ChannelCap
<1>2. CollectorInv'
  BY DEF CollectorInv
<1>3. EndInv'
  BY DEF EndInv, CollectorInv, FailureInv, Waited
<1>4. FailureInv'
  BY DEF FailureInv
<1>5. NothingIsLost'
  BY DEF NothingIsLost, Somewhere
<1>6. DeliveryInv'
  BY DEF DeliveryInv, HandedOn
<1>. QED
  BY <1>1, <1>2, <1>3, <1>4, <1>5, <1>6

\* A worker translates an input.
LEMMA TranslateKeepsInv ==
    ASSUME IInv, NEW w \in Worker, Translate(w)
    PROVE  IInv'
<1>. USE PipelineAssumption DEF IInv, TypeOK, Index, Answer, WorkerState, Idle, Exited, Enter, HasInput,
             Translate, output
<1>. DEFINE seq == Head(workChan)
<1>0. /\ seq \in Index /\ workChan' \in Seq(Index) /\ Len(workChan') = Len(workChan) - 1
      /\ \A x : In(x, workChan) <=> x = seq \/ In(x, workChan')
  BY Received
<1>a. /\ worker' = [worker EXCEPT ![w] = [at |-> IF answer[seq] = "fail" THEN "erred" ELSE "translated",
                                          seq |-> seq]]
      /\ worker[w].at = "idle"
  OBVIOUS
<1>b. \A v \in Worker : v # w => worker'[v] = worker[v]
  BY <1>a
<1>c. /\ worker'[w].at = IF answer[seq] = "fail" THEN "erred" ELSE "translated"
      /\ worker'[w].seq = seq
  BY <1>a
<1>. HIDE DEF seq
<1>1. TypeOK'
  <2>1. worker' \in [Worker -> WorkerState]
    BY <1>0, <1>a
  <2>2. workChan' \in Seq(Index) /\ Len(workChan') <= ChannelCap
    <3>. HIDE DEF Index
    <3>1. Len(workChan) \in Nat /\ ChannelCap \in Nat
      BY DEF ChannelCap
    <3>. QED
      BY <1>0, <3>1
  <2>. QED
    BY <2>1, <2>2
<1>2. CollectorInv'
  BY DEF CollectorInv
<1>3. EndInv'
  <2>1. \A v \in Worker :
           worker'[v].at = "exited" =>
               worker'[v] = Exited /\ (cancelled \/ (workClosed /\ workChan' = << >>))
    BY <1>a, <1>b, <1>c DEF EndInv
  <2>2. ~Waited
    BY <1>a DEF Waited
  <2>. QED
    BY <2>1, <2>2 DEF EndInv, Waited
<1>4. FailureInv'
  BY <1>0, <1>b, <1>c DEF FailureInv
<1>5. NothingIsLost'
  <2>. SUFFICES ASSUME ~cancelled, NEW i \in 1..fed PROVE Somewhere(i)'
    BY DEF NothingIsLost
  <2>1. Somewhere(i)
    BY DEF NothingIsLost
  <2>2. CASE i = seq
    BY <1>c, <2>2 DEF Somewhere
  <2>3. CASE i # seq
    BY <1>0, <1>a, <1>b, <2>1, <2>3 DEF Somewhere
  <2>. QED
    BY <2>2, <2>3
<1>6. DeliveryInv'
  BY DEF DeliveryInv, HandedOn
<1>. QED
  BY <1>1, <1>2, <1>3, <1>4, <1>5, <1>6

\* A worker stores the error of its input, unless another one has.
LEMMA StoreErrorKeepsInv ==
    ASSUME IInv, NEW w \in Worker, StoreError(w)
    PROVE  IInv'
<1>. USE PipelineAssumption DEF IInv, TypeOK, Index, Answer, WorkerState, Idle, Exited, Enter, HasInput,
             StoreError, input, output
<1>0. /\ worker[w].seq \in Index /\ answer[worker[w].seq] = "fail"
      /\ reterr' # 0 /\ answer[reterr'] = "fail" /\ reterr' \in Index
  BY DEF FailureInv
<1>a. /\ worker'[w] = [at |-> "stored", seq |-> worker[w].seq]
      /\ \A v \in Worker : v # w => worker'[v] = worker[v]
  OBVIOUS
<1>1. TypeOK'
  BY <1>0, <1>a
<1>2. CollectorInv'
  BY DEF CollectorInv
<1>3. EndInv'
  BY <1>a DEF EndInv, Waited
<1>4. FailureInv'
  BY <1>0, <1>a DEF FailureInv
<1>5. NothingIsLost'
  BY <1>a DEF NothingIsLost, Somewhere
<1>6. DeliveryInv'
  BY <1>0 DEF DeliveryInv, HandedOn
<1>. QED
  BY <1>1, <1>2, <1>3, <1>4, <1>5, <1>6

\* A worker cancels the rest.
LEMMA CancelKeepsInv ==
    ASSUME IInv, NEW w \in Worker, Cancel(w)
    PROVE  IInv'
<1>. USE PipelineAssumption DEF IInv, TypeOK, Index, Answer, WorkerState, Idle, Exited, Enter, HasInput,
             Cancel, input, output
<1>0. worker[w].seq \in Index /\ reterr # 0
  BY DEF FailureInv
<1>a. /\ worker'[w] = [at |-> "failed", seq |-> worker[w].seq]
      /\ \A v \in Worker : v # w => worker'[v] = worker[v]
  OBVIOUS
<1>1. TypeOK'
  BY <1>0, <1>a
<1>2. CollectorInv'
  BY DEF CollectorInv
<1>3. EndInv'
  BY <1>a DEF EndInv, Waited
<1>4. FailureInv'
  BY <1>0, <1>a DEF FailureInv
<1>5. NothingIsLost'
  BY DEF NothingIsLost
<1>6. DeliveryInv'
  BY DEF DeliveryInv, HandedOn
<1>. QED
  BY <1>1, <1>2, <1>3, <1>4, <1>5, <1>6

\* A worker sends a result.
LEMMA SendResultKeepsInv ==
    ASSUME IInv, NEW w \in Worker, SendResult(w)
    PROVE  IInv'
<1>. USE PipelineAssumption DEF IInv, TypeOK, Index, Answer, WorkerState, Idle, Exited, Enter, HasInput,
             SendResult, input, output
<1>0. /\ worker[w].seq \in Index /\ answer[worker[w].seq] # "fail"
      /\ resultChan' \in Seq(Index) /\ Len(resultChan') = Len(resultChan) + 1
      /\ \A x : In(x, resultChan') <=> x = worker[w].seq \/ In(x, resultChan)
      /\ \A k \in DOMAIN resultChan' :
            resultChan'[k] = worker[w].seq \/ (k \in DOMAIN resultChan /\ resultChan'[k] = resultChan[k])
  <2>1. worker[w].seq \in Index /\ answer[worker[w].seq] # "fail"
    BY DEF FailureInv
  <2>. QED
    BY <2>1, Sent
<1>a. worker'[w] = Idle /\ \A v \in Worker : v # w => worker'[v] = worker[v]
  OBVIOUS
<1>1. TypeOK'
  BY <1>0 DEF ChannelCap
<1>2. CollectorInv'
  BY DEF CollectorInv
<1>3. EndInv'
  BY DEF EndInv, CollectorInv, FailureInv, Waited
<1>4. FailureInv'
  BY <1>0, <1>a DEF FailureInv
<1>5. NothingIsLost'
  <2>. SUFFICES ASSUME ~cancelled, NEW i \in 1..fed PROVE Somewhere(i)'
    BY DEF NothingIsLost
  <2>1. Somewhere(i)
    BY DEF NothingIsLost
  <2>2. CASE i = worker[w].seq
    BY <1>0, <2>2 DEF Somewhere
  <2>3. CASE i # worker[w].seq
    BY <1>0, <1>a, <2>1, <2>3 DEF Somewhere
  <2>. QED
    BY <2>2, <2>3
<1>6. DeliveryInv'
  BY DEF DeliveryInv, HandedOn
<1>. QED
  BY <1>1, <1>2, <1>3, <1>4, <1>5, <1>6

\* A worker sends a failure, if there is room, and ends.
LEMMA SendErrorKeepsInv ==
    ASSUME IInv, NEW w \in Worker, SendError(w)
    PROVE  IInv'
<1>. USE PipelineAssumption DEF IInv, TypeOK, Index, Answer, WorkerState, Idle, Exited, Enter, HasInput,
             SendError, input, output
<1>0. /\ worker[w].seq \in Index
      /\ resultChan' \in Seq(Index) /\ Len(resultChan') <= ChannelCap
      /\ \A x : In(x, resultChan) => In(x, resultChan')
      /\ \A k \in DOMAIN resultChan' :
            resultChan'[k] = worker[w].seq \/ (k \in DOMAIN resultChan /\ resultChan'[k] = resultChan[k])
  <2>1. worker[w].seq \in Index /\ ChannelCap \in Nat
    BY DEF FailureInv, ChannelCap
  <2>2. CASE Len(resultChan) < ChannelCap
    <3>1. resultChan' = Append(resultChan, worker[w].seq)
      BY <2>2
    <3>2. Len(resultChan') <= ChannelCap
      BY <2>1, <2>2, <3>1
    <3>. HIDE DEF Index
    <3>. QED
      BY <2>1, <3>1, <3>2, Sent
  <2>3. CASE ~(Len(resultChan) < ChannelCap)
    BY <2>1, <2>3
  <2>. QED
    BY <2>1, <2>2, <2>3
<1>a. worker'[w] = Exited /\ \A v \in Worker : v # w => worker'[v] = worker[v]
  OBVIOUS
<1>b. reterr # 0 /\ cancelled
  BY DEF FailureInv
<1>1. TypeOK'
  BY <1>0
<1>2. CollectorInv'
  BY DEF CollectorInv
<1>3. EndInv'
  BY <1>a, <1>b DEF EndInv, Waited
<1>4. FailureInv'
  BY <1>0, <1>a, <1>b DEF FailureInv
<1>5. NothingIsLost'
  BY <1>b DEF NothingIsLost
<1>6. DeliveryInv'
  BY DEF DeliveryInv, HandedOn
<1>. QED
  BY <1>1, <1>2, <1>3, <1>4, <1>5, <1>6

\* A worker ends.
LEMMA ExitKeepsInv ==
    ASSUME IInv, NEW w \in Worker, Exit(w)
    PROVE  IInv'
<1>. USE PipelineAssumption DEF IInv, TypeOK, Index, Answer, WorkerState, Idle, Exited, Enter, HasInput,
             Exit, input, output
<1>1. TypeOK'
  OBVIOUS
<1>2. CollectorInv'
  BY DEF CollectorInv
<1>3. EndInv'
  BY DEF EndInv, CollectorInv, FailureInv, Waited
<1>4. FailureInv'
  BY DEF FailureInv
<1>5. NothingIsLost'
  BY DEF NothingIsLost, Somewhere
<1>6. DeliveryInv'
  BY DEF DeliveryInv, HandedOn
<1>. QED
  BY <1>1, <1>2, <1>3, <1>4, <1>5, <1>6

\* The results are closed.
LEMMA CloseResultKeepsInv ==
    ASSUME IInv, CloseResult
    PROVE  IInv'
<1>. USE PipelineAssumption DEF IInv, TypeOK, Index, Answer, WorkerState, Idle, Exited, Enter, HasInput,
             CloseResult, input, output
<1>1. TypeOK'
  OBVIOUS
<1>2. CollectorInv'
  BY DEF CollectorInv
<1>3. EndInv'
  BY DEF EndInv, Waited
<1>4. FailureInv'
  BY DEF FailureInv
<1>5. NothingIsLost'
  BY DEF NothingIsLost, Somewhere
<1>6. DeliveryInv'
  BY DEF DeliveryInv, HandedOn
<1>. QED
  BY <1>1, <1>2, <1>3, <1>4, <1>5, <1>6

\* The collector receives a result.
LEMMA ReceiveKeepsInv ==
    ASSUME IInv, Receive
    PROVE  IInv'
<1>. USE PipelineAssumption DEF IInv, TypeOK, Index, Answer, WorkerState, Idle, Exited, Enter, HasInput,
             Receive, input
<1>. DEFINE seq == Head(resultChan)
<1>0. /\ seq \in Index /\ resultChan' \in Seq(Index) /\ Len(resultChan') = Len(resultChan) - 1
      /\ \A x : In(x, resultChan) <=> x = seq \/ In(x, resultChan')
      /\ \A k \in DOMAIN resultChan' : k + 1 \in DOMAIN resultChan /\ resultChan'[k] = resultChan[k + 1]
      /\ 1 \in DOMAIN resultChan /\ resultChan[1] = seq
  BY Received
<1>a. /\ answer[seq] = "fail" => collector' = "wait" /\ outClosed' = TRUE /\ pending' = pending
      /\ answer[seq] # "fail" => /\ pending' = pending \cup {seq}
                                 /\ collector' = IF nextSeq \in pending' THEN "flush" ELSE "receive"
                                 /\ outClosed' = outClosed
  OBVIOUS
<1>b. answer[seq] = "fail" => reterr # 0 /\ cancelled
  BY <1>0 DEF FailureInv
<1>. HIDE DEF seq
<1>1. TypeOK'
  <2>1. pending' \subseteq Index /\ collector' \in {"receive", "flush", "wait"} /\ outClosed' \in BOOLEAN
    BY <1>0, <1>a
  <2>2. resultChan' \in Seq(Index) /\ Len(resultChan') <= ChannelCap
    <3>. HIDE DEF Index
    <3>1. Len(resultChan) \in Nat /\ ChannelCap \in Nat
      BY DEF ChannelCap
    <3>. QED
      BY <1>0, <3>1
  <2>. QED
    BY <2>1, <2>2
<1>2. CollectorInv'
  BY <1>a DEF CollectorInv
<1>3. EndInv'
  BY <1>a DEF EndInv, CollectorInv, Waited
<1>4. FailureInv'
  <2>1. \A k \in DOMAIN resultChan' : answer[resultChan'[k]] = "fail" => reterr # 0 /\ cancelled
    BY <1>0 DEF FailureInv
  <2>2. \A x \in pending' : answer[x] # "fail"
    BY <1>a DEF FailureInv
  <2>3. cancelled /\ collector' \notin {"returned", "finished"} => reterr # 0
    BY <1>a DEF FailureInv
  <2>. QED
    BY <2>1, <2>2, <2>3 DEF FailureInv
<1>5. NothingIsLost'
  <2>. SUFFICES ASSUME ~cancelled, NEW i \in 1..fed PROVE Somewhere(i)'
    BY DEF NothingIsLost
  <2>1. answer[seq] # "fail" /\ Somewhere(i)
    BY <1>b DEF NothingIsLost
  <2>. QED
    BY <1>0, <1>a, <2>1 DEF Somewhere
<1>6. DeliveryInv'
  BY <1>a, <1>b DEF DeliveryInv, HandedOn, CollectorInv
<1>. QED
  BY <1>1, <1>2, <1>3, <1>4, <1>5, <1>6

\* The collector hands on the next result.
LEMMA FlushKeepsInv ==
    ASSUME IInv, Flush
    PROVE  IInv'
<1>. USE PipelineAssumption DEF IInv, TypeOK, Index, Answer, WorkerState, Idle, Exited, Enter, HasInput,
             Flush, input, pool
<1>0. nextSeq \in pending /\ nextSeq \in Index /\ answer[nextSeq] \in {"nil", "continue"} /\ ~outClosed
  BY DEF CollectorInv, FailureInv
<1>a. \/ answer[nextSeq] = "continue" /\ delivered' = delivered
      \/ answer[nextSeq] = "nil" /\ delivered' = Append(delivered, nextSeq)
  BY <1>0
<1>b. /\ delivered' \in Seq(Index)
      /\ \A x : In(x, delivered) => In(x, delivered')
      /\ answer[nextSeq] = "nil" => In(nextSeq, delivered')
      /\ \A j \in DOMAIN delivered' :
            \/ j \in DOMAIN delivered /\ delivered'[j] = delivered[j]
            \/ /\ delivered'[j] = nextSeq /\ answer[nextSeq] = "nil"
               /\ j = Len(delivered) + 1 /\ DOMAIN delivered = 1..Len(delivered)
  <2>. HIDE DEF Index
  <2>1. CASE delivered' = delivered /\ answer[nextSeq] = "continue"
    BY <2>1
  <2>2. CASE delivered' = Append(delivered, nextSeq) /\ answer[nextSeq] = "nil"
    <3>1. /\ delivered' \in Seq(Index)
          /\ \A x : In(x, delivered') <=> x = nextSeq \/ In(x, delivered)
          /\ \A k \in DOMAIN delivered' :
                delivered'[k] = IF k = Len(delivered) + 1 THEN nextSeq ELSE delivered[k]
          /\ DOMAIN delivered' = DOMAIN delivered \cup {Len(delivered) + 1}
      BY <1>0, <2>2, Sent
    <3>2. DOMAIN delivered = 1..Len(delivered) /\ Len(delivered) \in Nat
      OBVIOUS
    <3>. QED
      BY <2>2, <3>1, <3>2
  <2>. QED
    BY <1>a, <2>1, <2>2
<1>1. TypeOK'
  BY <1>0, <1>b
<1>2. CollectorInv'
  BY DEF CollectorInv
<1>3. EndInv'
  BY DEF EndInv, CollectorInv, FailureInv, Waited
<1>4. FailureInv'
  BY DEF FailureInv
<1>5. NothingIsLost'
  <2>. SUFFICES ASSUME ~cancelled, NEW i \in 1..fed PROVE Somewhere(i)'
    BY DEF NothingIsLost
  <2>1. Somewhere(i) /\ i \in Nat /\ nextSeq \in Nat
    BY DEF NothingIsLost
  <2>2. i < nextSeq => i < nextSeq'
    BY <2>1
  <2>3. i \in pending => i \in pending' \/ i < nextSeq'
    BY <2>1
  <2>. QED
    BY <2>1, <2>2, <2>3 DEF Somewhere
<1>6. DeliveryInv'
  <2>1. \A j \in DOMAIN delivered' : answer[delivered'[j]] = "nil" /\ delivered'[j] < nextSeq'
    BY <1>0, <1>b DEF DeliveryInv
  <2>2. ASSUME NEW j \in DOMAIN delivered', NEW k \in DOMAIN delivered', j < k
        PROVE  delivered'[j] < delivered'[k]
    <3>1. delivered \in Seq(Index) /\ j \in Nat /\ k \in Nat /\ Len(delivered) \in Nat
      BY <1>b
    <3>2. j \in DOMAIN delivered /\ delivered'[j] = delivered[j]
      BY <1>b, <2>2, <3>1
    <3>. QED
      BY <1>b, <2>2, <3>2 DEF DeliveryInv
  <2>3. ASSUME NEW i \in 1..nextSeq' - 1
        PROVE  HandedOn(i)'
    <3>1. CASE i = nextSeq
      BY <1>0, <1>a, <1>b, <3>1 DEF HandedOn
    <3>2. CASE i \in 1..nextSeq - 1
      BY <1>0, <1>b, <3>2 DEF HandedOn, DeliveryInv
    <3>. QED
      BY <3>1, <3>2
  <2>. QED
    BY <1>0, <2>1, <2>2, <2>3 DEF DeliveryInv
<1>. QED
  BY <1>1, <1>2, <1>3, <1>4, <1>5, <1>6

\* A failure ends the collector while the reader is not ready.
LEMMA FlushCancelledKeepsInv ==
    ASSUME IInv, FlushCancelled
    PROVE  IInv'
<1>. USE PipelineAssumption DEF IInv, TypeOK, Index, Answer, WorkerState, Idle, Exited, Enter, HasInput,
             FlushCancelled, input, pool
<1>0. /\ nextSeq \in pending /\ nextSeq \in Index
      /\ ~outClosed /\ reterr # 0
  BY DEF CollectorInv, FailureInv
<1>1. TypeOK'
  BY <1>0
<1>2. CollectorInv'
  BY DEF CollectorInv
<1>3. EndInv'
  BY DEF EndInv, CollectorInv, FailureInv, Waited
<1>4. FailureInv'
  BY DEF FailureInv
<1>5. NothingIsLost'
  BY DEF NothingIsLost
<1>6. DeliveryInv'
  <2>1. \A i \in 1..nextSeq - 1 : HandedOn(i)'
    BY <1>0 DEF DeliveryInv, HandedOn
  <2>. QED
    BY <1>0, <2>1 DEF DeliveryInv
<1>. QED
  BY <1>1, <1>2, <1>3, <1>4, <1>5, <1>6

\* The collector has all results: every input is before nextSeq or waits, and the next one does not.
LEMMA CollectedKeepsInv ==
    ASSUME IInv, Collected
    PROVE  IInv'
<1>. USE PipelineAssumption DEF IInv, TypeOK, Index, Answer, WorkerState, Idle, Exited, Enter, HasInput,
             Collected, input, pool
<1>1. TypeOK'
  OBVIOUS
<1>2. CollectorInv'
  BY DEF CollectorInv
<1>3. EndInv'
  BY DEF EndInv, CollectorInv, FailureInv, Waited
<1>4. FailureInv'
  BY DEF FailureInv
<1>5. NothingIsLost'
  BY DEF NothingIsLost, Somewhere
<1>6. DeliveryInv'
  <2>1. ~outClosed /\ nextSeq \notin pending
    BY DEF CollectorInv
  <2>2. reterr = 0 => nextSeq = N + 1
    <3>. SUFFICES ASSUME reterr = 0, nextSeq \in Index PROVE FALSE
      OBVIOUS
    <3>1. ~cancelled
      BY DEF FailureInv
    <3>2. Waited /\ workClosed /\ fed = N /\ held = 0
      BY <2>1, <3>1 DEF EndInv, Waited
    <3>3. workChan = << >>
      BY <3>1, <3>2, PoolNotEmpty DEF EndInv, Waited
    <3>4. ~In(nextSeq, workChan) /\ ~In(nextSeq, resultChan)
      BY <3>3 DEF In
    <3>5. Somewhere(nextSeq)
      BY <3>1, <3>2 DEF NothingIsLost
    <3>. QED
      BY <2>1, <3>2, <3>4, <3>5 DEF Somewhere, Waited
  <2>. QED
    BY <2>1, <2>2 DEF DeliveryInv, HandedOn
<1>. QED
  BY <1>1, <1>2, <1>3, <1>4, <1>5, <1>6

\* The pool has ended, and the call returns.
LEMMA ReturnKeepsInv ==
    ASSUME IInv, Return
    PROVE  IInv'
<1>. USE PipelineAssumption DEF IInv, TypeOK, Index, Answer, WorkerState, Idle, Exited, Enter, HasInput,
             Return, input
<1>1. TypeOK'
  OBVIOUS
<1>2. CollectorInv'
  BY DEF CollectorInv
<1>3. EndInv'
  BY DEF EndInv, Waited, CollectorInv
<1>4. FailureInv'
  BY DEF FailureInv
<1>5. NothingIsLost'
  BY DEF NothingIsLost, Somewhere
<1>6. DeliveryInv'
  BY DEF DeliveryInv, HandedOn
<1>. QED
  BY <1>1, <1>2, <1>3, <1>4, <1>5, <1>6

\* The reader ends.
LEMMA CloseDoneKeepsInv ==
    ASSUME IInv, CloseDone
    PROVE  IInv'
<1>. USE PipelineAssumption DEF IInv, TypeOK, Index, Answer, WorkerState, Idle, Exited, Enter, HasInput,
             CloseDone, input, pool
<1>1. TypeOK'
  OBVIOUS
<1>2. CollectorInv'
  BY DEF CollectorInv
<1>3. EndInv'
  BY DEF EndInv, CollectorInv, FailureInv, Waited
<1>4. FailureInv'
  BY DEF FailureInv
<1>5. NothingIsLost'
  BY DEF NothingIsLost, Somewhere
<1>6. DeliveryInv'
  BY DEF DeliveryInv, HandedOn
<1>. QED
  BY <1>1, <1>2, <1>3, <1>4, <1>5, <1>6

\* The caller goes on.
LEMMA FinishKeepsInv ==
    ASSUME IInv, Finish
    PROVE  IInv'
<1>. USE PipelineAssumption DEF IInv, TypeOK, Index, Answer, WorkerState, Idle, Exited, Enter, HasInput,
             Finish, input, pool
<1>1. TypeOK'
  OBVIOUS
<1>2. CollectorInv'
  BY DEF CollectorInv
<1>3. EndInv'
  BY DEF EndInv, CollectorInv, FailureInv, Waited
<1>4. FailureInv'
  BY DEF FailureInv
<1>5. NothingIsLost'
  BY DEF NothingIsLost, Somewhere
<1>6. DeliveryInv'
  BY DEF DeliveryInv, HandedOn
<1>. QED
  BY <1>1, <1>2, <1>3, <1>4, <1>5, <1>6

\* Every goroutine's step keeps where the inputs are, and so what has been handed on.
THEOREM InvIsInductive == Safety => []IInv
<1>1. Init => IInv
  <2>. SUFFICES ASSUME Init PROVE IInv
    OBVIOUS
  <2>. USE DEF Init
  <2>1. TypeOK
    <3>1. << >> \in Seq(Index) /\ Len(<< >>) = 0 /\ 0 <= ChannelCap
      BY PipelineAssumption DEF ChannelCap
    <3>2. worker \in [Worker -> WorkerState]
      BY PipelineAssumption DEF WorkerState, Idle
    <3>3. nextSeq \in 1..N + 1 /\ 0 \in 0..N
      BY PipelineAssumption
    <3>. QED
      BY <3>1, <3>2, <3>3 DEF TypeOK
  <2>2. CollectorInv
    BY DEF CollectorInv
  <2>3. EndInv
    BY DEF EndInv, Idle
  <2>4. FailureInv
    BY DEF FailureInv, Idle, HasInput
  <2>5. NothingIsLost
    BY DEF NothingIsLost
  <2>6. DeliveryInv
    BY DEF DeliveryInv
  <2>. QED
    BY <2>1, <2>2, <2>3, <2>4, <2>5, <2>6 DEF IInv
<1>2. IInv /\ [Next]_vars => IInv'
  <2>. SUFFICES ASSUME IInv, [Next]_vars PROVE IInv'
    OBVIOUS
  <2>1. CASE FeederStep
    BY <2>1, FeedKeepsInv, CloseInKeepsInv DEF FeederStep
  <2>2. CASE EnqueuerStep
    BY <2>2, EnqueueKeepsInv, CloseWorkKeepsInv DEF EnqueuerStep
  <2>3. ASSUME NEW w \in Worker, WorkerStep(w)
        PROVE  IInv'
    BY <2>3, TranslateKeepsInv, StoreErrorKeepsInv, CancelKeepsInv, SendResultKeepsInv,
       SendErrorKeepsInv, ExitKeepsInv DEF WorkerStep
  <2>4. CASE CloseResult
    BY <2>4, CloseResultKeepsInv
  <2>5. CASE CollectorStep
    BY <2>5, ReceiveKeepsInv, FlushKeepsInv, FlushCancelledKeepsInv, CollectedKeepsInv,
       ReturnKeepsInv, FinishKeepsInv DEF CollectorStep
  <2>6. CASE CloseDone
    BY <2>6, CloseDoneKeepsInv
  <2>7. CASE UNCHANGED vars
    BY <2>7 DEF vars, IInv, TypeOK, CollectorInv, EndInv, FailureInv, NothingIsLost, DeliveryInv,
               Waited, Somewhere, HasInput, HandedOn
  <2>. QED
    BY <2>1, <2>2, <2>3, <2>4, <2>5, <2>6, <2>7 DEF Next, Terminated
<1>. QED
  BY <1>1, <1>2, PTL DEF Safety

\* The types of the variables, and the bounds of the two channels.
THEOREM TypeCorrect == Spec => []TypeOK
<1>1. IInv => TypeOK
  BY DEF IInv
<1>. QED
  BY <1>1, InvIsInductive, PTL DEF Spec

\* The reader receives the translated inputs in order, with nothing left out between
\* them (the collector of TranslatePipeline).
THEOREM OutputIsInOrder == Spec => []OutputInOrder
<1>1. IInv => OutputInOrder
  <2>. SUFFICES ASSUME IInv PROVE OutputInOrder
    OBVIOUS
  <2>. USE DEF IInv, TypeOK, Index
  <2>1. ASSUME NEW j \in DOMAIN delivered, NEW i \in 1..delivered[j]
        PROVE  answer[i] = "continue" \/ \E k \in 1..j : delivered[k] = i
    <3>1. /\ delivered[j] \in 1..nextSeq - 1
          /\ i \in 1..nextSeq - 1 /\ i <= delivered[j]
      <4>1. delivered[j] \in 1..N /\ nextSeq \in Nat
        BY PipelineAssumption
      <4>2. delivered[j] < nextSeq
        BY DEF DeliveryInv
      <4>. QED
        BY <4>1, <4>2, PipelineAssumption
    <3>2. CASE i = delivered[j]
      BY <3>2
    <3>3. CASE i < delivered[j]
      <4>1. HandedOn(i)
        BY <3>1, <3>3 DEF DeliveryInv
      <4>2. ASSUME NEW k \in DOMAIN delivered, delivered[k] = i
            PROVE  k \in 1..j
        <5>1. ~(j < k)
          <6>1. delivered[j] \in Nat /\ delivered[k] \in Nat
            BY PipelineAssumption
          <6>2. j < k => delivered[j] < delivered[k]
            BY DEF DeliveryInv
          <6>. QED
            BY <3>3, <4>2, <6>1, <6>2
        <5>. QED
          BY <5>1
      <4>. QED
        BY <4>1, <4>2 DEF HandedOn, In
    <3>. QED
      BY <3>1, <3>2, <3>3
  <2>. QED
    BY <2>1 DEF OutputInOrder, DeliveryInv
<1>. QED
  BY <1>1, InvIsInductive, PTL DEF Spec

\* A call without an error has handed on every input, and an error is that of an input
\* that failed (TranslatePipeline's reterr and its deferred wg.Wait).
THEOREM CallerIsToldTheTruth == Spec => []ReturnIsTruthful
<1>1. IInv => ReturnIsTruthful
  <2>. SUFFICES ASSUME IInv, collector \in {"returned", "finished"}
                PROVE  IF reterr = 0
                       THEN \A i \in Index :
                               \/ answer[i] = "continue"
                               \/ answer[i] = "nil" /\ \E k \in DOMAIN delivered : delivered[k] = i
                       ELSE answer[reterr] = "fail"
    BY DEF ReturnIsTruthful
  <2>. USE DEF IInv, TypeOK
  <2>1. CASE reterr = 0
    <3>1. nextSeq = N + 1
      BY <2>1 DEF DeliveryInv, CollectorInv
    <3>2. \A i \in Index : HandedOn(i)
      BY <2>1, <3>1, PipelineAssumption DEF DeliveryInv, Index
    <3>. QED
      BY <2>1, <3>2 DEF HandedOn, In, DeliveryInv
  <2>2. CASE reterr # 0
    BY <2>2 DEF FailureInv
  <2>. QED
    BY <2>1, <2>2
<1>. QED
  BY <1>1, InvIsInductive, PTL DEF Spec

(***************************************************************************)
(* The goroutines come to an end but for the scheduler: one of them can    *)
(* always go on, and whatever it does leaves less to do. TLC confirms of   *)
(* small pools that each of these is when the steps of its goroutine are   *)
(* enabled.                                                                *)
(***************************************************************************)
FeederCan == ~inClosed /\ ((fed < N /\ ~workClosed /\ held = 0) \/ fed = N \/ done)
EnqueuerCan ==
    \/ held # 0 /\ Len(workChan) < ChannelCap
    \/ ~workClosed /\ ((inClosed /\ held = 0) \/ cancelled)
WorkerCan(w) ==
    \/ worker[w].at = "idle" /\ (workChan # << >> \/ workClosed)
    \/ worker[w].at = "translated" /\ Len(resultChan) < ChannelCap
    \/ worker[w].at \in {"erred", "stored", "failed"}
    \/ worker[w].at \in {"idle", "translated"} /\ cancelled
CloserCan == Waited /\ ~resultClosed
CollectorCan ==
    \/ collector = "receive" /\ (resultChan # << >> \/ resultClosed)
    \/ collector = "flush" /\ (~done \/ (cancelled /\ answer[nextSeq] # "continue"))
    \/ collector = "wait" /\ Waited
    \/ collector = "returned" /\ inClosed /\ done
ReaderCan == outClosed /\ ~done

\* Nobody waits for one who waits: until all have ended, one goroutine is not blocked on a
\* channel, the wait group or the context.
NotStuck ==
    \/ collector = "finished" /\ resultClosed
    \/ FeederCan \/ EnqueuerCan \/ CloserCan \/ CollectorCan \/ ReaderCan
    \/ \E w \in Worker : WorkerCan(w)

\* The output is closed behind the last result or for a failure.
ClosedForCause == outClosed => resultClosed \/ cancelled

\* No step closes the output for nothing.
LEMMA CauseStep == IInv /\ ClosedForCause /\ [Next]_vars => ClosedForCause'
<1>. SUFFICES ASSUME IInv, ClosedForCause, [Next]_vars PROVE ClosedForCause'
  OBVIOUS
<1>. USE DEF ClosedForCause, input, pool, output
<1>1. CASE FeederStep \/ EnqueuerStep
  BY <1>1 DEF FeederStep, Feed, CloseIn, EnqueuerStep, Enqueue, CloseWork
<1>2. ASSUME NEW w \in Worker, WorkerStep(w)
      PROVE  ClosedForCause'
  BY <1>2 DEF WorkerStep, Translate, StoreError, Cancel, SendResult, SendError, Exit
<1>3. CASE CloseResult \/ CloseDone
  BY <1>3 DEF CloseResult, CloseDone
<1>4. CASE Receive
  <2>1. 1 \in DOMAIN resultChan /\ resultChan[1] = Head(resultChan)
    BY <1>4, Received DEF Receive, IInv, TypeOK
  <2>2. answer[Head(resultChan)] = "fail" => cancelled
    BY <2>1 DEF IInv, FailureInv
  <2>. QED
    BY <1>4, <2>2 DEF Receive
<1>5. CASE FlushCancelled
  BY <1>5 DEF FlushCancelled
<1>6. CASE Flush \/ Collected \/ Return \/ Finish \/ UNCHANGED vars
  BY <1>6 DEF Flush, Collected, Return, Finish, vars
<1>. QED
  BY <1>1, <1>2, <1>3, <1>4, <1>5, <1>6 DEF Next, CollectorStep, Terminated

\* Feeder, enqueuer, workers, collector and reader never all wait for one another, wherever a
\* translation fails and however full the channels are (TranslatePipeline and the Builds
\* that call it).
THEOREM PipelineIsNeverStuck == Spec => []NotStuck
<1>1. Init => ClosedForCause
  BY DEF Init, ClosedForCause
<1>2. IInv /\ ClosedForCause => NotStuck
  <2>. SUFFICES ASSUME IInv, ClosedForCause, ~(collector = "finished" /\ resultClosed),
                       ~FeederCan, ~EnqueuerCan, ~CloserCan, ~CollectorCan, ~ReaderCan,
                       \A w \in Worker : ~WorkerCan(w)
                PROVE  FALSE
    BY DEF NotStuck
  <2>1. /\ collector \in {"receive", "flush", "wait", "returned", "finished"}
        /\ fed \in Nat /\ N \in Nat /\ fed <= N /\ ChannelCap \in Nat \ {0}
        /\ \A w \in Worker : worker[w].at \in {"idle", "exited"} \cup HasInput
    BY PipelineAssumption DEF IInv, TypeOK, WorkerState, HasInput, ChannelCap
  <2>2. collector \notin {"flush", "returned", "finished"}
    <3>1. collector # "flush"
      BY DEF IInv, CollectorInv, CollectorCan
    <3>2. collector # "returned"
      BY DEF IInv, CollectorInv, CollectorCan, ReaderCan, FeederCan
    <3>3. collector # "finished"
      BY DEF IInv, EndInv, CloserCan
    <3>. QED
      BY <3>1, <3>2, <3>3
  <2>3. ~Waited
    BY <2>1, <2>2 DEF CloserCan, CollectorCan
  <2>4. ASSUME cancelled PROVE FALSE
    <3>1. workClosed
      BY <2>4 DEF EnqueuerCan
    <3>2. \A w \in Worker : worker[w].at = "exited"
      BY <2>1, <2>4 DEF WorkerCan, HasInput
    <3>. QED
      BY <2>3, <3>1, <3>2 DEF IInv, EndInv, Waited
  <2>5. collector = "receive" /\ resultChan = << >>
    <3>1. collector # "wait"
      BY <2>3, <2>4 DEF IInv, CollectorInv, EndInv, FailureInv, ClosedForCause
    <3>. QED
      BY <2>1, <2>2, <3>1 DEF CollectorCan
  <2>6. \A w \in Worker : worker[w].at \in {"idle", "exited"}
    BY <2>1, <2>5 DEF WorkerCan, HasInput
  <2>7. ~workClosed /\ workChan = << >>
    <3>1. PICK w \in Worker : TRUE
      BY PoolNotEmpty
    <3>2. ASSUME workClosed PROVE FALSE
      <4>1. \A v \in Worker : worker[v].at = "exited"
        BY <2>6, <3>2 DEF WorkerCan
      <4>. QED
        BY <2>3, <3>2, <4>1 DEF IInv, EndInv, Waited
    <3>3. worker[w].at = "idle"
      BY <2>4, <2>6, <3>2 DEF IInv, EndInv
    <3>. QED
      BY <3>2, <3>3 DEF WorkerCan
  <2>8. held = 0
    BY <2>1, <2>7 DEF EnqueuerCan
  <2>9. ~inClosed
    BY <2>7, <2>8 DEF EnqueuerCan
  <2>. QED
    BY <2>1, <2>7, <2>8, <2>9 DEF FeederCan
<1>. QED
  BY <1>1, <1>2, CauseStep, InvIsInductive, PTL DEF Spec, Safety

\* What is still to be done: an input is fed, sent, translated, received and handed on,
\* a worker may fail, once, and exits, and what is behind the workers is closed.
Busy == {w \in Worker : worker[w].at \in HasInput}
MayStore == {w \in Worker : worker[w].at \in {"idle", "translated", "erred"}}
MayCancel == {w \in Worker : worker[w].at \in {"idle", "translated", "erred", "stored"}}
Running == {w \in Worker : worker[w].at # "exited"}
ToFeed == 5 * (N - fed) + (IF held = 0 THEN 0 ELSE 4)
ToTranslate ==
    3 * Len(workChan) + 2 * Cardinality(Busy) + Len(resultChan)
        + Cardinality(Running) + Cardinality(MayStore) + Cardinality(MayCancel)
ToHandOn == N + 1 - nextSeq
ToClose ==
    (IF inClosed THEN 0 ELSE 1) + (IF workClosed THEN 0 ELSE 1)
        + (IF resultClosed THEN 0 ELSE 1) + (IF done THEN 0 ELSE 1)
ToReturn ==
    CASE collector \in {"receive", "flush"} -> 3
      [] collector = "wait" -> 2
      [] collector = "returned" -> 1
      [] OTHER -> 0
Work == ToFeed + ToTranslate + ToHandOn + ToClose + ToReturn
LeavesLess == Work \in Nat /\ Work' < Work

\* Counts of workers, and what a worker changes of them.
LEMMA WorkerCounts ==
    /\ IsFiniteSet(Busy) /\ Cardinality(Busy) \in Nat
    /\ IsFiniteSet(Running) /\ Cardinality(Running) \in Nat
    /\ IsFiniteSet(MayStore) /\ Cardinality(MayStore) \in Nat
    /\ IsFiniteSet(MayCancel) /\ Cardinality(MayCancel) \in Nat
<1>1. IsFiniteSet(Busy) /\ IsFiniteSet(Running) /\ IsFiniteSet(MayStore) /\ IsFiniteSet(MayCancel)
  BY PipelineAssumption, FS_Subset DEF Busy, Running, MayStore, MayCancel
<1>. QED
  BY <1>1, FS_CardinalityType

\* Which workers are busy and which run, behind a worker's entering a state.
LEMMA Entered ==
    ASSUME IInv, NEW w \in Worker, NEW at, NEW seq, Enter(w, at, seq)
    PROVE  /\ Busy' = IF at \in HasInput THEN Busy \cup {w} ELSE Busy \ {w}
           /\ Running' = IF at = "exited" THEN Running \ {w} ELSE Running \cup {w}
           /\ MayStore' = IF at \in {"idle", "translated", "erred"}
                          THEN MayStore \cup {w} ELSE MayStore \ {w}
           /\ MayCancel' = IF at \in {"idle", "translated", "erred", "stored"}
                           THEN MayCancel \cup {w} ELSE MayCancel \ {w}
  BY DEF IInv, TypeOK, Enter, Busy, Running, MayStore, MayCancel

\* What is counted are numbers.
Counts ==
    /\ fed \in 0..N /\ nextSeq \in 1..N + 1
    /\ Len(workChan) \in Nat /\ Len(resultChan) \in Nat
    /\ Cardinality(Busy) \in Nat /\ Cardinality(Running) \in Nat
    /\ Cardinality(MayStore) \in Nat /\ Cardinality(MayCancel) \in Nat
    /\ ToFeed \in Nat /\ ToTranslate \in Nat /\ ToHandOn \in Nat /\ ToClose \in Nat
    /\ ToReturn \in Nat

\* Every step of a pipeline does a part of the work of the call and none is done twice: a
\* call takes six steps for an input, three for a worker and seven more at most, in any
\* order of the goroutines (TranslatePipeline and the Builds that call it).
THEOREM PipelineWorksOff ==
    Spec => Work = 6 * N + 3 * Concurrency + 7 /\ [][LeavesLess]_vars
<1>1. ASSUME IInv, Counts, Counts', [Next]_vars
      PROVE  [LeavesLess]_vars
  <2>. DEFINE busy == Cardinality(Busy)
              running == Cardinality(Running)
              store == Cardinality(MayStore)
              cancel == Cardinality(MayCancel)
              works == Len(workChan)
              results == Len(resultChan)
  <2>0. N \in Nat /\ nextSeq \in Nat /\ fed \in Nat /\ fed <= N
    BY <1>1, PipelineAssumption DEF Counts
  <2>1. /\ ToFeed \in Nat /\ ToTranslate \in Nat /\ ToHandOn \in Nat /\ ToClose \in Nat
        /\ ToFeed' \in Nat /\ ToTranslate' \in Nat /\ ToHandOn' \in Nat /\ ToClose' \in Nat
        /\ ToReturn \in Nat /\ ToReturn' \in Nat
    BY <1>1 DEF Counts
  <2>2. /\ works \in Nat /\ results \in Nat /\ busy \in Nat /\ running \in Nat
        /\ works' \in Nat /\ results' \in Nat /\ busy' \in Nat /\ running' \in Nat
        /\ store \in Nat /\ cancel \in Nat /\ store' \in Nat /\ cancel' \in Nat
        /\ ToTranslate = 3 * works + 2 * busy + results + running + store + cancel
        /\ ToTranslate' = 3 * works' + 2 * busy' + results' + running' + store' + cancel'
    BY <1>1 DEF Counts, ToTranslate
  <2>. HIDE DEF busy, running, store, cancel
  <2>. USE DEF input, pool, output
  <2>3. ASSUME UNCHANGED worker
        PROVE  busy' = busy /\ running' = running /\ store' = store /\ cancel' = cancel
    BY <2>3 DEF busy, running, store, cancel, Busy, Running, MayStore, MayCancel
  <2>4. ASSUME FeederStep \/ EnqueuerStep PROVE Work' < Work
    <3>1. /\ busy' = busy /\ running' = running /\ store' = store /\ cancel' = cancel
          /\ results' = results
          /\ ToReturn' = ToReturn /\ ToHandOn' = ToHandOn
      BY <2>3, <2>4 DEF FeederStep, Feed, CloseIn, EnqueuerStep, Enqueue, CloseWork, ToReturn,
                        ToHandOn
    <3>2. CASE Feed
      <4>1. ToFeed' = ToFeed - 1 /\ ToTranslate' = ToTranslate /\ ToClose' = ToClose
        BY <2>0, <2>2, <3>1, <3>2 DEF Feed, ToFeed, ToClose
      <4>. QED
        BY <2>1, <3>1, <4>1 DEF Work
    <3>3. CASE CloseIn
      <4>1. ToFeed' = ToFeed /\ ToTranslate' = ToTranslate /\ ToClose' = ToClose - 1
        BY <2>0, <2>2, <3>1, <3>3 DEF CloseIn, ToFeed, ToClose
      <4>. QED
        BY <2>1, <3>1, <4>1 DEF Work
    <3>4. CASE Enqueue
      <4>1. works' = works + 1
        BY <1>1, <3>4, Sent DEF Enqueue, IInv, TypeOK, Index
      <4>2. ToFeed' = ToFeed - 4 /\ ToTranslate' = ToTranslate + 3 /\ ToClose' = ToClose
        BY <2>0, <2>2, <3>1, <3>4, <4>1 DEF Enqueue, ToFeed, ToClose
      <4>. QED
        BY <2>1, <3>1, <4>2 DEF Work
    <3>5. CASE CloseWork
      <4>1. ToTranslate' = ToTranslate /\ ToClose' = ToClose - 1
        BY <2>2, <3>1, <3>5 DEF CloseWork, ToClose
      <4>2. CASE held = 0
        <5>1. ToFeed' = ToFeed
          BY <3>5, <4>2 DEF CloseWork, ToFeed
        <5>. QED
          BY <2>1, <3>1, <4>1, <5>1 DEF Work
      <4>3. CASE held # 0
        <5>1. ToFeed' = ToFeed - 4
          BY <2>0, <2>2, <3>5, <4>3 DEF CloseWork, ToFeed
        <5>. QED
          BY <2>1, <3>1, <4>1, <5>1 DEF Work
      <4>. QED
        BY <4>2, <4>3
    <3>. QED
      BY <2>4, <3>2, <3>3, <3>4, <3>5 DEF FeederStep, EnqueuerStep
  <2>5. ASSUME NEW w \in Worker, WorkerStep(w) PROVE Work' < Work
    <3>1. /\ w \in Running
          /\ ToFeed' = ToFeed /\ ToHandOn' = ToHandOn /\ ToClose' = ToClose
          /\ ToReturn' = ToReturn
      BY <2>5 DEF WorkerStep, Translate, StoreError, Cancel, SendResult, SendError, Exit, Running,
                  ToFeed, ToHandOn, ToClose, ToReturn
    <3>a. ASSUME NEW S, IsFiniteSet(S)
          PROVE  /\ w \in S => Cardinality(S \cup {w}) = Cardinality(S)
                 /\ w \in S => Cardinality(S \ {w}) = Cardinality(S) - 1
                 /\ w \notin S => Cardinality(S \cup {w}) = Cardinality(S) + 1
                 /\ w \notin S => Cardinality(S \ {w}) = Cardinality(S)
      <4>1. CASE w \in S
        <5>1. S \cup {w} = S
          BY <4>1
        <5>. QED
          BY ONLY <3>a, <4>1, <5>1, FS_RemoveElement
      <4>2. CASE w \notin S
        <5>1. S \ {w} = S
          BY <4>2
        <5>. QED
          BY ONLY <3>a, <4>2, <5>1, FS_AddElement
      <4>. QED
        BY <4>1, <4>2
    <3>2. CASE Translate(w)
      <4>1. \E at \in {"translated", "erred"} : \E seq : Enter(w, at, seq)
        BY <3>2 DEF Translate
      <4>2. w \notin Busy /\ w \in MayStore /\ w \in MayCancel
        BY <3>2 DEF Translate, Busy, MayStore, MayCancel, HasInput
      <4>3. /\ Busy' = Busy \cup {w} /\ Running' = Running \cup {w}
            /\ MayStore' = MayStore \cup {w} /\ MayCancel' = MayCancel \cup {w}
        BY <1>1, <4>1, Entered DEF HasInput
      <4>4. busy' = busy + 1 /\ running' = running /\ store' = store /\ cancel' = cancel
        BY <3>1, <3>a, <4>2, <4>3, WorkerCounts DEF busy, running, store, cancel
      <4>5. works' = works - 1 /\ results' = results
        BY <1>1, <3>2, Received DEF Translate, IInv, TypeOK
      <4>. QED
        BY <2>1, <2>2, <3>1, <4>4, <4>5 DEF Work
    <3>3. CASE StoreError(w)
      <4>1. Enter(w, "stored", worker[w].seq) /\ works' = works /\ results' = results
        BY <3>3 DEF StoreError
      <4>2. w \in Busy /\ w \in MayStore /\ w \in MayCancel
        BY <3>3 DEF StoreError, Busy, MayStore, MayCancel, HasInput
      <4>3. /\ Busy' = Busy \cup {w} /\ Running' = Running \cup {w}
            /\ MayStore' = MayStore \ {w} /\ MayCancel' = MayCancel \cup {w}
        BY <1>1, <4>1, Entered DEF HasInput
      <4>4. busy' = busy /\ running' = running /\ store' = store - 1 /\ cancel' = cancel
        BY <3>1, <3>a, <4>2, <4>3, WorkerCounts DEF busy, running, store, cancel
      <4>. QED
        BY <2>1, <2>2, <3>1, <4>1, <4>4 DEF Work
    <3>4. CASE Cancel(w)
      <4>1. Enter(w, "failed", worker[w].seq) /\ works' = works /\ results' = results
        BY <3>4 DEF Cancel
      <4>2. w \in Busy /\ w \notin MayStore /\ w \in MayCancel
        BY <3>4 DEF Cancel, Busy, MayStore, MayCancel, HasInput
      <4>3. /\ Busy' = Busy \cup {w} /\ Running' = Running \cup {w}
            /\ MayStore' = MayStore \ {w} /\ MayCancel' = MayCancel \ {w}
        BY <1>1, <4>1, Entered DEF HasInput
      <4>4. busy' = busy /\ running' = running /\ store' = store /\ cancel' = cancel - 1
        BY <3>1, <3>a, <4>2, <4>3, WorkerCounts DEF busy, running, store, cancel
      <4>. QED
        BY <2>1, <2>2, <3>1, <4>1, <4>4 DEF Work
    <3>5. CASE SendResult(w)
      <4>1. Enter(w, "idle", 0)
        BY <3>5 DEF SendResult, Enter, Idle
      <4>2. w \in Busy /\ w \in MayStore /\ w \in MayCancel
        BY <3>5 DEF SendResult, Busy, MayStore, MayCancel, HasInput
      <4>3. /\ Busy' = Busy \ {w} /\ Running' = Running \cup {w}
            /\ MayStore' = MayStore \cup {w} /\ MayCancel' = MayCancel \cup {w}
        BY <1>1, <4>1, Entered DEF HasInput
      <4>4. busy' = busy - 1 /\ running' = running /\ store' = store /\ cancel' = cancel
        BY <3>1, <3>a, <4>2, <4>3, WorkerCounts DEF busy, running, store, cancel
      <4>5. results' = results + 1 /\ works' = works
        BY <1>1, <3>5, Sent DEF SendResult, IInv, FailureInv, TypeOK, HasInput
      <4>. QED
        BY <2>1, <2>2, <3>1, <4>4, <4>5 DEF Work
    <3>6. CASE SendError(w)
      <4>1. Enter(w, "exited", 0)
        BY <3>6 DEF SendError, Enter, Exited
      <4>2. w \in Busy /\ w \notin MayStore /\ w \notin MayCancel
        BY <3>6 DEF SendError, Busy, MayStore, MayCancel, HasInput
      <4>3. /\ Busy' = Busy \ {w} /\ Running' = Running \ {w}
            /\ MayStore' = MayStore \ {w} /\ MayCancel' = MayCancel \ {w}
        BY <1>1, <4>1, Entered DEF HasInput
      <4>4. busy' = busy - 1 /\ running' = running - 1 /\ store' = store /\ cancel' = cancel
        BY <3>1, <3>a, <4>2, <4>3, WorkerCounts DEF busy, running, store, cancel
      <4>5. (results' = results \/ results' = results + 1) /\ works' = works
        BY <1>1, <3>6, Sent DEF SendError, IInv, FailureInv, TypeOK, HasInput
      <4>. QED
        BY <2>1, <2>2, <3>1, <4>4, <4>5 DEF Work
    <3>7. CASE Exit(w)
      <4>1. Enter(w, "exited", 0) /\ works' = works /\ results' = results
        BY <3>7 DEF Exit, Enter, Exited
      <4>2. w \in MayStore /\ w \in MayCancel
        BY <3>7 DEF Exit, MayStore, MayCancel
      <4>3. /\ Busy' = Busy \ {w} /\ Running' = Running \ {w}
            /\ MayStore' = MayStore \ {w} /\ MayCancel' = MayCancel \ {w}
        BY <1>1, <4>1, Entered DEF HasInput
      <4>4. running' = running - 1 /\ store' = store - 1 /\ cancel' = cancel - 1
        BY <3>1, <3>a, <4>2, <4>3, WorkerCounts DEF running, store, cancel
      <4>5. busy' = busy \/ busy' = busy - 1
        BY <3>a, <4>3, WorkerCounts DEF busy
      <4>6. CASE busy' = busy
        BY <2>1, <2>2, <3>1, <4>1, <4>4, <4>6 DEF Work
      <4>7. CASE busy' = busy - 1
        BY <2>1, <2>2, <3>1, <4>1, <4>4, <4>7 DEF Work
      <4>. QED
        BY <4>5, <4>6, <4>7
    <3>. QED
      BY <2>5, <3>2, <3>3, <3>4, <3>5, <3>6, <3>7 DEF WorkerStep
  <2>6. ASSUME CloseResult \/ CloseDone PROVE Work' < Work
    <3>1. /\ ToFeed' = ToFeed /\ ToHandOn' = ToHandOn /\ ToReturn' = ToReturn
          /\ ToTranslate' = ToTranslate
      BY <2>2, <2>3, <2>6 DEF CloseResult, CloseDone, ToFeed, ToHandOn, ToReturn
    <3>2. ToClose' = ToClose - 1
      BY <2>6 DEF CloseResult, CloseDone, ToClose
    <3>. QED
      BY <2>1, <3>1, <3>2 DEF Work
  <2>7. ASSUME CollectorStep PROVE Work' < Work
    <3>1. /\ busy' = busy /\ running' = running /\ store' = store /\ cancel' = cancel
          /\ works' = works
          /\ ToFeed' = ToFeed /\ ToClose' = ToClose
      BY <2>3, <2>7 DEF CollectorStep, Receive, Flush, FlushCancelled, Collected, Return, Finish,
                        ToFeed, ToClose
    <3>2. CASE Receive
      <4>1. results' = results - 1
        BY <1>1, <3>2, Received DEF Receive, IInv, TypeOK
      <4>2. ToReturn' <= ToReturn /\ ToHandOn' = ToHandOn
        BY <3>2 DEF Receive, ToReturn, ToHandOn
      <4>. QED
        BY <2>1, <2>2, <3>1, <4>1, <4>2 DEF Work
    <3>3. CASE Flush
      <4>1. ToReturn' = ToReturn /\ ToHandOn' = ToHandOn - 1 /\ results' = results
        BY <2>0, <3>3 DEF Flush, ToReturn, ToHandOn
      <4>. QED
        BY <2>1, <2>2, <3>1, <4>1 DEF Work
    <3>4. CASE FlushCancelled
      <4>1. ToReturn' = ToReturn - 1 /\ ToHandOn' = ToHandOn - 1 /\ results' = results
        BY <2>0, <3>4 DEF FlushCancelled, ToReturn, ToHandOn
      <4>. QED
        BY <2>1, <2>2, <3>1, <4>1 DEF Work
    <3>5. CASE Collected \/ Return \/ Finish
      <4>1. ToReturn' = ToReturn - 1 /\ ToHandOn' = ToHandOn /\ results' = results
        BY <3>5 DEF Collected, Return, Finish, ToReturn, ToHandOn
      <4>. QED
        BY <2>1, <2>2, <3>1, <4>1 DEF Work
    <3>. QED
      BY <2>7, <3>2, <3>3, <3>4, <3>5 DEF CollectorStep
  <2>8. Work \in Nat
    BY <2>1 DEF Work
  <2>. QED
    BY <1>1, <2>4, <2>5, <2>6, <2>7, <2>8 DEF Next, Terminated, LeavesLess
<1>2. ASSUME Init
      PROVE  Work = 6 * N + 3 * Concurrency + 7
  <2>1. Busy = {} /\ Running = Worker /\ MayStore = Worker /\ MayCancel = Worker
    BY <1>2 DEF Init, Idle, Busy, Running, MayStore, MayCancel, HasInput
  <2>2. /\ Cardinality(Busy) = 0 /\ Cardinality(Running) = Concurrency
        /\ Cardinality(MayStore) = Concurrency /\ Cardinality(MayCancel) = Concurrency
        /\ N \in Nat /\ Concurrency \in Nat
    BY <2>1, PipelineAssumption, FS_EmptySet
  <2>3. ToFeed = 5 * N /\ ToTranslate = 3 * Concurrency /\ ToHandOn = N
    BY <1>2, <2>2 DEF Init, ToFeed, ToTranslate, ToHandOn
  <2>4. ToClose = 4 /\ ToReturn = 3
    BY <1>2, <2>2 DEF Init, ToClose, ToReturn
  <2>. QED
    BY <2>2, <2>3, <2>4 DEF Work
<1>3. IInv => Counts
  <2>. SUFFICES ASSUME IInv PROVE Counts
    OBVIOUS
  <2>1. /\ fed \in 0..N /\ nextSeq \in 1..N + 1 /\ N \in Nat
        /\ Len(workChan) \in Nat /\ Len(resultChan) \in Nat
    BY PipelineAssumption DEF IInv, TypeOK
  <2>2. ToFeed \in Nat /\ ToHandOn \in Nat
    BY <2>1 DEF ToFeed, ToHandOn
  <2>3. ToTranslate \in Nat
    BY <2>1, WorkerCounts DEF ToTranslate
  <2>4. ToClose \in Nat /\ ToReturn \in Nat
    BY DEF ToClose, ToReturn
  <2>. QED
    BY <2>1, <2>2, <2>3, <2>4, WorkerCounts DEF Counts
<1>. QED
  BY <1>1, <1>2, <1>3, InvIsInductive, PTL DEF Spec, Safety
==============================================================================
