-------------------------- MODULE TranslateParallel -------------------------
(***************************************************************************)
(* The worker pool of TranslateSliceParallel and TranslateMapParallel      *)
(* (datamodel/translate.go).  A producer hands the indices to the workers  *)
(* over a bounded channel; the workers translate and answer over a channel *)
(* with room for every item; the caller puts the answers back in order.    *)
(* The first item that ends the iteration cancels the pool, and the caller *)
(* drains the answers until the producer has closed their channel.         *)
(***************************************************************************)
EXTENDS TranslateItems, FiniteSets

CONSTANTS
    Worker,     \* the goroutines of the pool, runtime.NumCPU() of them
    JobsCap     \* the capacity of jobChan, the number of workers

VARIABLES
    items,      \* the callbacks' answers, fixed by the caller
    enqueued,   \* how many indices the producer has sent
    taken,      \* how many of them workers have received
    jobsClosed, \* close(jobChan)
    job,        \* the index each worker translates, 0 for none
    exited,     \* the workers that returned
    done,       \* doneChan
    doneClosed, \* close(doneChan)
    cancelled,  \* ctx is done
    pending,    \* answers that wait for an earlier one
    next,       \* nextIdx
    delivered,  \* the items result() was called with, in order
    verdict,    \* the error the caller is going to return
    caller      \* where the calling goroutine is

vars == <<items, enqueued, taken, jobsClosed, job, exited, done, doneClosed,
          cancelled, pending, next, delivered, verdict, caller>>

pool == <<taken, job, exited>>
producer == <<enqueued, jobsClosed, doneClosed>>
ordering == <<cancelled, pending, next, delivered, verdict, caller>>

ASSUME PoolAssumption == JobsCap \in Nat \ {0} /\ Worker # {} /\ IsFiniteSet(Worker)

DoneCapWorkers == JobsCap   \* mutant: doneChan as small as jobChan
DoneCap == N

TypeOK ==
    /\ items \in Inputs
    /\ enqueued \in 0..N
    /\ taken \in 0..enqueued
    /\ jobsClosed \in BOOLEAN
    /\ job \in [Worker -> 0..N]
    /\ exited \subseteq Worker
    /\ done \in Seq(Index)
    /\ doneClosed \in BOOLEAN
    /\ cancelled \in BOOLEAN
    /\ pending \subseteq Index
    /\ next \in 1..N + 1
    /\ delivered \in Seq(Index)
    /\ verdict \in Verdict
    /\ caller \in {"receive", "flush", "drain", "returned"}

Init ==
    /\ items \in Inputs
    /\ enqueued = 0 /\ taken = 0
    /\ jobsClosed = FALSE /\ doneClosed = FALSE
    /\ job = [w \in Worker |-> 0]
    /\ exited = {}
    /\ done = << >>
    /\ cancelled = FALSE
    /\ pending = {}
    /\ next = 1
    /\ delivered = << >>
    /\ verdict = Running
    /\ caller = "receive"

-----------------------------------------------------------------------------
(* The producer.  Both cases of its select may be ready, then either runs. *)

Enqueue ==
    /\ ~jobsClosed
    /\ enqueued < N
    /\ enqueued - taken < JobsCap
    /\ enqueued' = enqueued + 1
    /\ UNCHANGED <<items, pool, jobsClosed, done, doneClosed, ordering>>

CloseJobsAllSent ==   \* mutant: the producer does not watch ctx.Done()
    /\ ~jobsClosed
    /\ enqueued = N
    /\ jobsClosed' = TRUE
    /\ UNCHANGED <<items, pool, enqueued, done, doneClosed, ordering>>

CloseJobs ==
    /\ ~jobsClosed
    /\ enqueued = N \/ cancelled
    /\ jobsClosed' = TRUE
    /\ UNCHANGED <<items, pool, enqueued, done, doneClosed, ordering>>

\* wg.Wait(), then close(doneChan).
CloseDone ==
    /\ jobsClosed
    /\ ~doneClosed
    /\ exited = Worker
    /\ doneClosed' = TRUE
    /\ UNCHANGED <<items, pool, enqueued, jobsClosed, done, ordering>>

-----------------------------------------------------------------------------
(* A worker. *)

TakeJob(w) ==
    /\ w \notin exited
    /\ job[w] = 0
    /\ taken < enqueued
    /\ taken' = taken + 1
    /\ job' = [job EXCEPT ![w] = taken + 1]
    /\ UNCHANGED <<items, exited, producer, done, ordering>>

\* translate() returns and the answer is sent; what it is lies in items.
Answer(w) ==
    /\ job[w] # 0
    /\ Len(done) < DoneCap
    /\ done' = Append(done, job[w])
    /\ job' = [job EXCEPT ![w] = 0]
    /\ UNCHANGED <<items, taken, exited, producer, ordering>>

\* jobChan is closed and empty, or the context is done.
Exit(w) ==
    /\ w \notin exited
    /\ job[w] = 0
    /\ (jobsClosed /\ taken = enqueued) \/ cancelled
    /\ exited' = exited \cup {w}
    /\ UNCHANGED <<items, taken, job, producer, done, ordering>>

-----------------------------------------------------------------------------
(* The caller. *)

Receive ==
    /\ caller = "receive"
    /\ done # << >>
    /\ done' = Tail(done)
    /\ pending' = pending \cup {Head(done)}
    /\ caller' = IF next \in pending' THEN "flush" ELSE "receive"
    /\ UNCHANGED <<items, pool, producer, cancelled, next, delivered, verdict>>

FlushNoDrain ==   \* mutant: returns without draining doneChan
    /\ caller = "flush"
    /\ pending' = pending \ {next}
    /\ next' = next + 1
    /\ delivered' = IF Delivers(items[next]) THEN Append(delivered, next) ELSE delivered
    /\ IF GoesOn(items[next])
       THEN caller' = IF next' \in pending' THEN "flush" ELSE "receive"
       ELSE caller' = "returned"
    /\ cancelled' = (caller' = "returned" \/ cancelled)
    /\ verdict' = IF GoesOn(items[next]) THEN verdict ELSE VerdictOf(next, items[next])
    /\ UNCHANGED <<items, pool, producer, done>>

FlushOnce ==   \* mutant: one answer delivered per answer received
    /\ caller = "flush"
    /\ pending' = pending \ {next}
    /\ next' = next + 1
    /\ delivered' = IF Delivers(items[next]) THEN Append(delivered, next) ELSE delivered
    /\ caller' = IF GoesOn(items[next]) THEN "receive" ELSE "drain"
    /\ cancelled' = ~GoesOn(items[next])
    /\ verdict' = IF GoesOn(items[next]) THEN verdict ELSE VerdictOf(next, items[next])
    /\ UNCHANGED <<items, pool, producer, done>>

\* One turn of the inner loop, which calls result().
Flush ==
    /\ caller = "flush"
    /\ pending' = pending \ {next}
    /\ next' = next + 1
    /\ delivered' = IF Delivers(items[next]) THEN Append(delivered, next) ELSE delivered
    /\ IF GoesOn(items[next])
       THEN /\ caller' = IF next' \in pending' THEN "flush" ELSE "receive"
            /\ UNCHANGED <<cancelled, verdict>>
       ELSE /\ caller' = "drain"
            /\ cancelled' = TRUE
            /\ verdict' = VerdictOf(next, items[next])
    /\ UNCHANGED <<items, pool, producer, done>>

\* for range doneChan {}
Drain ==
    /\ caller = "drain"
    /\ done # << >>
    /\ done' = Tail(done)
    /\ UNCHANGED <<items, pool, producer, ordering>>

\* doneChan is closed and empty; the deferred cancel() runs.
Return ==
    /\ caller \in {"receive", "drain"}
    /\ done = << >>
    /\ doneClosed
    /\ caller' = "returned"
    /\ cancelled' = TRUE
    /\ verdict' = IF caller = "receive" THEN << >> ELSE verdict
    /\ UNCHANGED <<items, pool, producer, done, pending, next, delivered>>

Terminated ==
    /\ caller = "returned"
    /\ doneClosed
    /\ UNCHANGED vars

ProducerStep == Enqueue \/ CloseJobs \/ CloseDone
WorkerStep(w) == TakeJob(w) \/ Answer(w) \/ Exit(w)
CallerStep == Receive \/ Flush \/ Drain \/ Return

Next ==
    \/ ProducerStep
    \/ \E w \in Worker : WorkerStep(w)
    \/ CallerStep
    \/ Terminated

Safety == Init /\ [][Next]_vars

\* The Go scheduler runs every goroutine that can run.
Fairness ==
    /\ WF_vars(ProducerStep)
    /\ \A w \in Worker : WF_vars(WorkerStep(w))
    /\ WF_vars(CallerStep)

Spec == Safety /\ Fairness

-----------------------------------------------------------------------------
Sequential == INSTANCE TranslateSequential

\* The pool does what the inline loop does: result() is called for the same
\* items in the same order, and the same item decides what the call returns,
\* whatever order the workers answer in ("same observable semantics",
\* translate.go:56-57, 184-185).
ImplementsInlineLoop == Sequential!Safety

\* Workers send their answers without looking at the context, and never come to
\* grief: there is room on doneChan for every answer that is held, so that no
\* worker blocks for ever, and it is open, so that none panics.
AnswersCanBeSent ==
    \A w \in Worker : job[w] # 0 => Len(done) < DoneCap /\ ~doneClosed

\* Once the call has returned no goroutine of it runs any more: no callback
\* is called behind the caller's back, and nothing leaks.
NothingRunsAfterReturn ==
    caller = "returned" => exited = Worker /\ jobsClosed /\ doneClosed

\* The call returns, whether the items go on to the end or one ends it while
\* the producer and the workers are busy.
Returns == <>(caller = "returned")
=============================================================================
