-------------------------- MODULE TranslatePipeline -------------------------
(***************************************************************************)
(* TranslatePipeline (datamodel/translate.go) with the goroutines its      *)
(* callers put around it (Build of Paths and Definitions,                  *)
(* datamodel/low/v2/paths.go and definitions.go): a feeder sends the       *)
(* inputs, an enqueuer numbers them, a pool of workers translates them, a  *)
(* collector, running in the caller, puts the results back in order and    *)
(* a reader stores them.  A failing translation cancels the rest.          *)
(***************************************************************************)
EXTENDS Naturals, Sequences, FiniteSets

CONSTANTS
    N,            \* the number of inputs the caller has
    Worker,       \* the pool, runtime.NumCPU() goroutines
    Concurrency,  \* their number
    Inputs        \* what translate() answers, input by input

Index == 1..N
Answer == {"nil", "continue", "fail"}

ASSUME PipelineAssumption ==
    /\ N \in Nat
    /\ Concurrency \in Nat \ {0}
    /\ IsFiniteSet(Worker) /\ Cardinality(Worker) = Concurrency
    /\ Inputs \subseteq [Index -> Answer]

ChannelCap == Concurrency * 2   \* of workChan and of resultChan

VARIABLES
    answer,       \* the translations' answers, fixed by the input
    fed,          \* how many inputs the feeder has sent on `in`
    inClosed,     \* close(in), the feeder is gone
    held,         \* the input the enqueuer has received and not sent, or 0
    workChan,     \* pipelineWork, by sequence number
    workClosed,   \* close(workChan), the enqueuer is gone
    worker,       \* per worker [at, seq]
    resultChan,   \* pipelineResult, by sequence number
    resultClosed, \* close(resultChan)
    reterr,       \* the input whose error is returned, 0 for nil
    cancelled,    \* ctx is done
    pending,      \* results that wait for an earlier one
    nextSeq,      \* the result the collector delivers next
    collector,    \* where the calling goroutine is
    delivered,    \* what the reader has received from out
    outClosed,    \* close(out)
    done          \* close(done), the reader is gone

vars == <<answer, fed, inClosed, held, workChan, workClosed, worker, resultChan,
          resultClosed, reterr, cancelled, pending, nextSeq, collector, delivered,
          outClosed, done>>

input == <<fed, inClosed, held, workChan, workClosed>>
pool == <<worker, resultChan, resultClosed, reterr, cancelled>>
output == <<pending, nextSeq, collector, delivered, outClosed, done>>

WorkerState ==
    [at : {"idle", "translated", "erred", "stored", "failed", "exited"}, seq : 0..N]
Idle == [at |-> "idle", seq |-> 0]
Exited == [at |-> "exited", seq |-> 0]

TypeOK ==
    /\ answer \in Inputs
    /\ fed \in 0..N
    /\ inClosed \in BOOLEAN /\ workClosed \in BOOLEAN /\ resultClosed \in BOOLEAN
    /\ held \in 0..N
    /\ workChan \in Seq(Index) /\ Len(workChan) <= ChannelCap
    /\ worker \in [Worker -> WorkerState]
    /\ resultChan \in Seq(Index) /\ Len(resultChan) <= ChannelCap
    /\ reterr \in 0..N
    /\ cancelled \in BOOLEAN
    /\ pending \subseteq Index
    /\ nextSeq \in 1..N + 1
    /\ collector \in {"receive", "flush", "wait", "returned", "finished"}
    /\ delivered \in Seq(Index)
    /\ outClosed \in BOOLEAN /\ done \in BOOLEAN

Init ==
    /\ answer \in Inputs
    /\ fed = 0 /\ held = 0
    /\ inClosed = FALSE /\ workClosed = FALSE /\ resultClosed = FALSE
    /\ workChan = << >> /\ resultChan = << >>
    /\ worker = [w \in Worker |-> Idle]
    /\ reterr = 0
    /\ cancelled = FALSE
    /\ pending = {}
    /\ nextSeq = 1
    /\ collector = "receive"
    /\ delivered = << >>
    /\ outClosed = FALSE /\ done = FALSE

-----------------------------------------------------------------------------
(* The feeder and the enqueuer.  `in` is unbuffered: a send and the receive *)
(* it meets are one step.                                                   *)

Feed ==
    /\ ~inClosed /\ fed < N
    /\ ~workClosed /\ held = 0
    /\ fed' = fed + 1
    /\ held' = fed + 1
    /\ UNCHANGED <<answer, inClosed, workChan, workClosed, pool, output>>

CloseInAllSent ==   \* mutant: the feeder does not watch done
    /\ ~inClosed
    /\ fed = N
    /\ inClosed' = TRUE
    /\ UNCHANGED <<answer, fed, held, workChan, workClosed, pool, output>>

\* Everything is sent, or the reader has seen the end of the output.
CloseIn ==
    /\ ~inClosed
    /\ fed = N \/ done
    /\ inClosed' = TRUE
    /\ UNCHANGED <<answer, fed, held, workChan, workClosed, pool, output>>

Enqueue ==
    /\ held # 0
    /\ Len(workChan) < ChannelCap
    /\ workChan' = Append(workChan, held)
    /\ held' = 0
    /\ UNCHANGED <<answer, fed, inClosed, workClosed, pool, output>>

\* `in` is closed, or the context is done at either select.
CloseWork ==
    /\ ~workClosed
    /\ (inClosed /\ held = 0) \/ cancelled
    /\ workClosed' = TRUE
    /\ held' = 0
    /\ UNCHANGED <<answer, fed, inClosed, workChan, pool, output>>

-----------------------------------------------------------------------------
(* A worker. *)

Enter(w, at, seq) == worker' = [worker EXCEPT ![w] = [at |-> at, seq |-> seq]]

\* Receives an input and translates it.
Translate(w) ==
    /\ worker[w].at = "idle"
    /\ workChan # << >>
    /\ workChan' = Tail(workChan)
    /\ Enter(w, IF answer[Head(workChan)] = "fail" THEN "erred" ELSE "translated", Head(workChan))
    /\ UNCHANGED <<answer, fed, inClosed, held, workClosed, resultChan, resultClosed, reterr,
                   cancelled, output>>

\* A failure is stored under the mutex if it is the first to get there.
StoreError(w) ==
    /\ worker[w].at = "erred"
    /\ reterr' = IF reterr = 0 THEN worker[w].seq ELSE reterr
    /\ Enter(w, "stored", worker[w].seq)
    /\ UNCHANGED <<answer, input, resultChan, resultClosed, cancelled, output>>

Cancel(w) ==
    /\ worker[w].at = "stored"
    /\ cancelled' = TRUE
    /\ Enter(w, "failed", worker[w].seq)
    /\ UNCHANGED <<answer, input, resultChan, resultClosed, reterr, output>>

SendResult(w) ==
    /\ worker[w].at = "translated"
    /\ Len(resultChan) < ChannelCap
    /\ resultChan' = Append(resultChan, worker[w].seq)
    /\ worker' = [worker EXCEPT ![w] = Idle]
    /\ UNCHANGED <<answer, input, resultClosed, reterr, cancelled, output>>

\* The send of a failure does not wait for room; the worker returns.
SendError(w) ==
    /\ worker[w].at = "failed"
    /\ resultChan' = IF Len(resultChan) < ChannelCap
                     THEN Append(resultChan, worker[w].seq) ELSE resultChan
    /\ worker' = [worker EXCEPT ![w] = Exited]
    /\ UNCHANGED <<answer, input, resultClosed, reterr, cancelled, output>>

\* workChan is closed and empty, or the context is done at either select.
Exit(w) ==
    /\ \/ worker[w].at = "idle" /\ workClosed /\ workChan = << >>
       \/ worker[w].at \in {"idle", "translated"} /\ cancelled
    /\ worker' = [worker EXCEPT ![w] = Exited]
    /\ UNCHANGED <<answer, input, resultChan, resultClosed, reterr, cancelled, output>>

\* Every worker and the enqueuer have returned: wg.Wait() is over.
Waited == workClosed /\ \A w \in Worker : worker[w] = Exited

CloseResult ==
    /\ Waited
    /\ ~resultClosed
    /\ resultClosed' = TRUE
    /\ UNCHANGED <<answer, input, worker, resultChan, reterr, cancelled, output>>

-----------------------------------------------------------------------------
(* The collector, its defers and the reader. *)

Receive ==
    /\ collector = "receive"
    /\ resultChan # << >>
    /\ resultChan' = Tail(resultChan)
    /\ IF answer[Head(resultChan)] = "fail"
       THEN /\ collector' = "wait"
            /\ outClosed' = TRUE
            /\ UNCHANGED pending
       ELSE /\ pending' = pending \cup {Head(resultChan)}
            /\ collector' = IF nextSeq \in pending' THEN "flush" ELSE "receive"
            /\ UNCHANGED outClosed
    /\ UNCHANGED <<answer, input, worker, resultClosed, reterr, cancelled, nextSeq, delivered, done>>

FlushAny ==   \* mutant: results handed on as they come
    /\ collector = "flush"
    /\ ~done
    /\ \E seq \in pending :
         /\ pending' = pending \ {seq}
         /\ delivered' = IF answer[seq] = "continue" THEN delivered ELSE Append(delivered, seq)
    /\ nextSeq' = nextSeq + 1
    /\ collector' = IF pending' # {} THEN "flush" ELSE "receive"
    /\ UNCHANGED <<answer, input, pool, outClosed, done>>

\* One turn of the inner loop: the next result in order is skipped if it is
\* Continue, and otherwise handed to the reader over the unbuffered out.
Flush ==
    /\ collector = "flush"
    /\ ~done
    /\ pending' = pending \ {nextSeq}
    /\ nextSeq' = nextSeq + 1
    /\ delivered' = IF answer[nextSeq] = "continue" THEN delivered ELSE Append(delivered, nextSeq)
    /\ collector' = IF nextSeq' \in pending' THEN "flush" ELSE "receive"
    /\ UNCHANGED <<answer, input, pool, outClosed, done>>

\* The context is done while the result waits for the reader.
FlushCancelled ==
    /\ collector = "flush"
    /\ cancelled
    /\ answer[nextSeq] # "continue"
    /\ pending' = pending \ {nextSeq}
    /\ nextSeq' = nextSeq + 1
    /\ collector' = "wait"
    /\ outClosed' = TRUE
    /\ UNCHANGED <<answer, input, pool, delivered, done>>

CollectedNotClosed ==   \* mutant: an empty resultChan taken for the end
    /\ collector = "receive"
    /\ resultChan = << >>
    /\ collector' = "wait"
    /\ outClosed' = TRUE
    /\ UNCHANGED <<answer, input, pool, pending, nextSeq, delivered, done>>

\* resultChan is closed and empty.
Collected ==
    /\ collector = "receive"
    /\ resultChan = << >> /\ resultClosed
    /\ collector' = "wait"
    /\ outClosed' = TRUE
    /\ UNCHANGED <<answer, input, pool, pending, nextSeq, delivered, done>>

\* The deferred wg.Wait() and cancel(); TranslatePipeline returns reterr.
Return ==
    /\ collector = "wait"
    /\ Waited
    /\ collector' = "returned"
    /\ cancelled' = TRUE
    /\ UNCHANGED <<answer, input, worker, resultChan, resultClosed, reterr, pending,
                   nextSeq, delivered, outClosed, done>>

CloseDone ==
    /\ outClosed
    /\ ~done
    /\ done' = TRUE
    /\ UNCHANGED <<answer, input, pool, pending, nextSeq, collector, delivered, outClosed>>

\* The caller waits for the feeder and the reader, then uses what was stored
\* if there is no error.
Finish ==
    /\ collector = "returned"
    /\ inClosed /\ done
    /\ collector' = "finished"
    /\ UNCHANGED <<answer, input, pool, pending, nextSeq, delivered, outClosed, done>>

Terminated ==
    /\ collector = "finished"
    /\ resultClosed
    /\ UNCHANGED vars

FeederStep == Feed \/ CloseIn
EnqueuerStep == Enqueue \/ CloseWork
WorkerStep(w) ==
    Translate(w) \/ StoreError(w) \/ Cancel(w) \/ SendResult(w) \/ SendError(w) \/ Exit(w)
CollectorStep == Receive \/ Flush \/ FlushCancelled \/ Collected \/ Return \/ Finish

Next ==
    \/ FeederStep
    \/ EnqueuerStep
    \/ \E w \in Worker : WorkerStep(w)
    \/ CloseResult
    \/ CollectorStep
    \/ CloseDone
    \/ Terminated

Safety == Init /\ [][Next]_vars

\* The Go scheduler runs every goroutine that can run.
Fairness ==
    /\ WF_vars(FeederStep)
    /\ WF_vars(EnqueuerStep)
    /\ \A w \in Worker : WF_vars(WorkerStep(w))
    /\ WF_vars(CloseResult)
    /\ WF_vars(CollectorStep)
    /\ WF_vars(CloseDone)

Spec == Safety /\ Fairness

-----------------------------------------------------------------------------
\* The reader receives the translated inputs in input order, with nothing
\* left out between two of them but what translate() asked to skip, however
\* the workers overtake each other ("outputs in stable order",
\* translate.go:299-304).
OutputInOrder ==
    \A j \in DOMAIN delivered :
        /\ answer[delivered[j]] = "nil"
        /\ \A k \in DOMAIN delivered : j < k => delivered[j] < delivered[k]
        /\ \A i \in 1..delivered[j] :
              answer[i] = "continue" \/ \E k \in 1..j : delivered[k] = i

\* A caller that gets no error has every translated input, and no input
\* failed; an error it gets is that of a failed input, even when the failure
\* found no room on resultChan (translate.go:340-343).
ReturnIsTruthful ==
    collector \in {"returned", "finished"} =>
        IF reterr = 0
        THEN \A i \in Index :
                \/ answer[i] = "continue"
                \/ answer[i] = "nil" /\ \E k \in DOMAIN delivered : delivered[k] = i
        ELSE answer[reterr] = "fail"

\* The caller gets its answer and all five kinds of goroutine end, although
\* each waits for another one: the feeder for the enqueuer or the reader, the
\* reader for the collector, the collector for the workers and the enqueuer.
AllFinish == <>(collector = "finished" /\ resultClosed)
=============================================================================
