----------------------- MODULE TranslateParallelProofs ----------------------
(***************************************************************************)
(* Proofs about the worker pool of datamodel/translate.go, for every       *)
(* collection, every answer of the callbacks and every number of workers.  *)
(***************************************************************************)
EXTENDS TranslateParallel, FiniteSetTheorems, TLAPS

USE DEF Index

\* Until it is cancelled the pool loses nothing: the producer stops only when
\* everything is sent, and workers stop only when everything is taken.
PoolInv ==
    /\ jobsClosed /\ ~cancelled => enqueued = N
    /\ exited # {} /\ ~cancelled => jobsClosed /\ taken = enqueued
    /\ doneClosed => exited = Worker /\ jobsClosed
    /\ \A w \in exited : job[w] = 0

\* While the caller collects, every index taken is handled, waits for an
\* earlier one, is on doneChan, or is being translated.
Accounted(i) ==
    \/ i < next
    \/ i \in pending
    \/ \E k \in 1..Len(done) : done[k] = i
    \/ \E w \in Worker : job[w] = i

CallerInv ==
    /\ caller \in {"receive", "flush"} =>
          /\ ~cancelled
          /\ verdict = Running
          /\ next \in pending <=> caller = "flush"
          /\ \A i \in 1..taken : Accounted(i)
    /\ caller = "returned" => doneClosed

IInv == TypeOK /\ PoolInv /\ CallerInv

-----------------------------------------------------------------------------
LEMMA AppendToSeq ==
    ASSUME NEW S, NEW s \in Seq(S), NEW x \in S
    PROVE  /\ Append(s, x) \in Seq(S)
           /\ Len(Append(s, x)) = Len(s) + 1
           /\ \A k \in 1..Len(s) : Append(s, x)[k] = s[k]
           /\ Append(s, x)[Len(s) + 1] = x
    OBVIOUS

LEMMA TailOfSeq ==
    ASSUME NEW S, NEW s \in Seq(S), s # << >>
    PROVE  /\ Tail(s) \in Seq(S)
           /\ Head(s) \in S
           /\ Head(s) = s[1]
           /\ Len(Tail(s)) = Len(s) - 1
           /\ Len(s) \in Nat \ {0}
           /\ \A k \in 1..Len(Tail(s)) : Tail(s)[k] = s[k + 1]
    OBVIOUS

\* What ends the iteration is a verdict, never Running.
LEMMA VerdictOfType ==
    ASSUME NEW i \in Index, NEW item \in Item
    PROVE  VerdictOf(i, item) \in Verdict \ {Running}
<1>1. <<i, "translate">> \in Error /\ <<i, "result">> \in Error
    BY DEF Error
<1>2. VerdictOf(i, item) \in {<< >>} \cup Error
    BY <1>1 DEF VerdictOf
<1>. QED
    BY <1>2, ItemsAssumption DEF Verdict

-----------------------------------------------------------------------------
LEMMA InitInv == Init => IInv
<1>. SUFFICES ASSUME Init PROVE IInv
    OBVIOUS
<1>1. TypeOK
  <2>1. << >> \in Seq(Index) /\ {} \subseteq Index
    OBVIOUS
  <2>2. 0 \in 0..N /\ 0 \in 0..0 /\ 1 \in 1..N + 1 /\ Running \in Verdict
    BY ItemsAssumption DEF Verdict
  <2>3. job \in [Worker -> 0..N]
    BY <2>2 DEF Init
  <2>. QED
    BY <2>1, <2>2, <2>3 DEF Init, TypeOK
<1>2. PoolInv
    BY PoolAssumption DEF Init, PoolInv
<1>3. CallerInv
    BY DEF Init, CallerInv
<1>. QED
    BY <1>1, <1>2, <1>3 DEF IInv

LEMMA StepType ==
    ASSUME IInv, [Next]_vars
    PROVE  TypeOK'
<1>. USE ItemsAssumption, PoolAssumption DEF TypeOK, pool, producer, ordering
<1>1. CASE Enqueue
    BY <1>1 DEF IInv, Enqueue
<1>2. CASE CloseJobs
    BY <1>2 DEF IInv, CloseJobs
<1>3. CASE CloseDone
    BY <1>3 DEF IInv, CloseDone
<1>4. ASSUME NEW w \in Worker, TakeJob(w)
      PROVE  TypeOK'
    BY <1>4 DEF IInv, TakeJob
<1>5. ASSUME NEW w \in Worker, Answer(w)
      PROVE  TypeOK'
  <2>1. job[w] \in Index
    BY <1>5 DEF IInv, Answer
  <2>2. done' \in Seq(Index)
    BY <1>5, <2>1, AppendToSeq DEF IInv, Answer
  <2>. QED
    BY <1>5, <2>2 DEF IInv, Answer
<1>6. ASSUME NEW w \in Worker, Exit(w)
      PROVE  TypeOK'
    BY <1>6 DEF IInv, Exit
<1>7. CASE Receive
  <2>1. done' \in Seq(Index) /\ Head(done) \in Index
    BY <1>7, TailOfSeq DEF IInv, Receive
  <2>. QED
    BY <1>7, <2>1 DEF IInv, Receive
<1>8. CASE Flush
  <2>1. next \in Index
    BY <1>8 DEF IInv, CallerInv, Flush
  <2>2. items[next] \in Item
    BY <2>1 DEF IInv
  <2>3. VerdictOf(next, items[next]) \in Verdict
    BY <2>1, <2>2, VerdictOfType
  <2>4. delivered' \in Seq(Index)
    BY <1>8, <2>1, AppendToSeq DEF IInv, Flush
  <2>5. verdict' \in Verdict
    BY <1>8, <2>3 DEF IInv, Flush
  <2>6. next' \in 1..N + 1
    BY <1>8, <2>1 DEF Flush
  <2>7. cancelled' \in BOOLEAN /\ caller' \in {"receive", "flush", "drain", "returned"}
    BY <1>8 DEF IInv, Flush
  <2>. QED
    BY <1>8, <2>4, <2>5, <2>6, <2>7 DEF IInv, Flush
<1>9. CASE Drain
    BY <1>9, TailOfSeq DEF IInv, Drain
<1>10. CASE Return
    BY <1>10 DEF IInv, Return, Verdict
<1>11. CASE UNCHANGED vars
    BY <1>11 DEF IInv, vars
<1>. QED
    BY <1>1, <1>2, <1>3, <1>4, <1>5, <1>6, <1>7, <1>8, <1>9, <1>10, <1>11
    DEF Next, ProducerStep, WorkerStep, CallerStep, Terminated

LEMMA StepPool ==
    ASSUME IInv, [Next]_vars
    PROVE  PoolInv'
<1>. USE ItemsAssumption, PoolAssumption DEF TypeOK, PoolInv, pool, producer, ordering
<1>1. CASE Enqueue
    BY <1>1 DEF IInv, Enqueue
<1>2. CASE CloseJobs
    BY <1>2 DEF IInv, CloseJobs
<1>3. CASE CloseDone
    BY <1>3 DEF IInv, CloseDone
<1>4. ASSUME NEW w \in Worker, TakeJob(w)
      PROVE  PoolInv'
    BY <1>4 DEF IInv, TakeJob
<1>5. ASSUME NEW w \in Worker, Answer(w)
      PROVE  PoolInv'
    BY <1>5 DEF IInv, Answer
<1>6. ASSUME NEW w \in Worker, Exit(w)
      PROVE  PoolInv'
    BY <1>6 DEF IInv, Exit
<1>7. CASE Receive
    BY <1>7 DEF IInv, Receive
<1>8. CASE Flush
    BY <1>8 DEF IInv, Flush
<1>9. CASE Drain
    BY <1>9 DEF IInv, Drain
<1>10. CASE Return
    BY <1>10 DEF IInv, Return
<1>11. CASE UNCHANGED vars
    BY <1>11 DEF IInv, vars
<1>. QED
    BY <1>1, <1>2, <1>3, <1>4, <1>5, <1>6, <1>7, <1>8, <1>9, <1>10, <1>11
    DEF Next, ProducerStep, WorkerStep, CallerStep, Terminated

LEMMA StepCaller ==
    ASSUME IInv, [Next]_vars
    PROVE  CallerInv'
<1>. USE ItemsAssumption, PoolAssumption DEF TypeOK, CallerInv, Accounted, pool, producer, ordering
<1>1. CASE Enqueue
    BY <1>1 DEF IInv, Enqueue
<1>2. CASE CloseJobs
    BY <1>2 DEF IInv, CloseJobs
<1>3. CASE CloseDone
    BY <1>3 DEF IInv, CloseDone
<1>4. ASSUME NEW w \in Worker, TakeJob(w)
      PROVE  CallerInv'
  <2>1. ASSUME caller \in {"receive", "flush"}, NEW i \in 1..taken'
        PROVE  Accounted(i)'
    <3>1. CASE i = taken + 1
      <4>1. job'[w] = i
        BY <1>4, <3>1 DEF IInv, TakeJob
      <4>. QED
        BY <4>1
    <3>2. CASE i \in 1..taken
      <4>1. Accounted(i)
        BY <2>1, <3>2 DEF IInv
      <4>2. \A v \in Worker : job[v] = i => job'[v] = i
        BY <1>4, <3>2 DEF IInv, TakeJob
      <4>. QED
        BY <1>4, <4>1, <4>2 DEF TakeJob
    <3>. QED
        BY <1>4, <2>1, <3>1, <3>2 DEF IInv, TakeJob
  <2>. QED
    BY <1>4, <2>1 DEF IInv, TakeJob
<1>5. ASSUME NEW w \in Worker, Answer(w)
      PROVE  CallerInv'
  <2>1. job[w] \in Index
    BY <1>5 DEF IInv, Answer
  <2>2. /\ Len(done') = Len(done) + 1
        /\ \A k \in 1..Len(done) : done'[k] = done[k]
        /\ done'[Len(done) + 1] = job[w]
        /\ Len(done) \in Nat
    BY <1>5, <2>1, AppendToSeq DEF IInv, Answer
  <2>3. ASSUME caller \in {"receive", "flush"}, NEW i \in 1..taken
        PROVE  Accounted(i)'
    <3>1. Accounted(i)
        BY <2>3 DEF IInv
    <3>2. CASE \E k \in 1..Len(done) : done[k] = i
        BY <2>2, <3>2
    <3>3. CASE job[w] = i
        BY <2>2, <3>3
    <3>4. CASE \E v \in Worker \ {w} : job[v] = i
        BY <1>5, <3>4 DEF IInv, Answer
    <3>. QED
        BY <1>5, <3>1, <3>2, <3>3, <3>4 DEF Answer
  <2>. QED
    BY <1>5, <2>3 DEF IInv, Answer
<1>6. ASSUME NEW w \in Worker, Exit(w)
      PROVE  CallerInv'
    BY <1>6 DEF IInv, Exit
<1>7. CASE Receive
  <2>1. /\ Head(done) = done[1]
        /\ Len(done') = Len(done) - 1
        /\ Len(done) \in Nat \ {0}
        /\ \A k \in 1..Len(done') : done'[k] = done[k + 1]
    BY <1>7, TailOfSeq DEF IInv, Receive
  <2>2. ASSUME NEW i \in 1..taken
        PROVE  Accounted(i)'
    <3>1. Accounted(i)
        BY <1>7 DEF IInv, Receive
    <3>2. ASSUME NEW k \in 1..Len(done), done[k] = i
          PROVE  Accounted(i)'
      <4>1. CASE k = 1
        BY <1>7, <2>1, <3>2, <4>1 DEF Receive
      <4>2. CASE k # 1
        <5>1. k - 1 \in 1..Len(done') /\ done'[k - 1] = i
          BY <2>1, <3>2, <4>2
        <5>. QED
          BY <5>1
      <4>. QED
        BY <4>1, <4>2
    <3>. QED
        BY <1>7, <3>1, <3>2 DEF Receive
  <2>. QED
    BY <1>7, <2>2 DEF IInv, Receive
<1>8. CASE Flush
  <2>1. CASE GoesOn(items[next])
    <3>1. /\ ~cancelled' /\ verdict' = Running
          /\ next' \in pending' <=> caller' = "flush"
          /\ caller' \in {"receive", "flush"}
      BY <1>8, <2>1 DEF IInv, Flush
    <3>2. ASSUME NEW i \in 1..taken PROVE Accounted(i)'
      <4>1. Accounted(i)
        BY <1>8 DEF IInv, Flush
      <4>2. CASE i = next
        BY <1>8, <4>2 DEF IInv, Flush
      <4>. QED
        BY <1>8, <4>1, <4>2 DEF IInv, Flush
    <3>. QED
      BY <1>8, <3>1, <3>2 DEF IInv, Flush
  <2>2. CASE ~GoesOn(items[next])
    <3>1. caller' = "drain"
      BY <1>8, <2>2 DEF Flush
    <3>. QED
      BY <3>1
  <2>. QED
    BY <2>1, <2>2
<1>9. CASE Drain
    BY <1>9 DEF IInv, Drain
<1>10. CASE Return
    BY <1>10 DEF IInv, Return
<1>11. CASE UNCHANGED vars
    BY <1>11 DEF IInv, vars
<1>. QED
    BY <1>1, <1>2, <1>3, <1>4, <1>5, <1>6, <1>7, <1>8, <1>9, <1>10, <1>11
    DEF Next, ProducerStep, WorkerStep, CallerStep, Terminated

THEOREM Invariance == Safety => []IInv
<1>1. IInv /\ [Next]_vars => IInv'
    BY StepType, StepPool, StepCaller DEF IInv
<1>. QED
    BY <1>1, InitInv, PTL DEF Safety

\* Every variable keeps its type.
THEOREM TypeCorrect == Safety => []TypeOK
<1>1. IInv => TypeOK
    BY DEF IInv
<1>. QED
    BY <1>1, Invariance, PTL

\* A call that returned leaves no goroutine behind.
THEOREM NothingLeaks == Safety => []NothingRunsAfterReturn
<1>1. IInv => NothingRunsAfterReturn
    BY DEF IInv, PoolInv, CallerInv, NothingRunsAfterReturn
<1>. QED
    BY <1>1, Invariance, PTL

-----------------------------------------------------------------------------
(* Room on doneChan: an answer sent or under way was taken before. *)

Busy == {w \in Worker : job[w] # 0}
RoomInv == Len(done) + Cardinality(Busy) <= taken

LEMMA BusyIsFinite ==
    /\ IsFiniteSet(Busy) /\ Cardinality(Busy) \in Nat
    /\ Busy # {} => Cardinality(Busy) > 0
<1>1. IsFiniteSet(Busy)
    BY PoolAssumption, FS_Subset DEF Busy
<1>. QED
    BY <1>1, FS_CardinalityType, FS_EmptySet

LEMMA StepRoom ==
    ASSUME IInv, RoomInv, [Next]_vars
    PROVE  RoomInv'
<1>. USE DEF TypeOK, RoomInv, Busy, pool, producer, ordering
<1>1. CASE ProducerStep
    BY <1>1 DEF ProducerStep, Enqueue, CloseJobs, CloseDone
<1>2. ASSUME NEW w \in Worker, TakeJob(w)
      PROVE  RoomInv'
  <2>1. Busy' = Busy \cup {w} /\ w \notin Busy
    BY <1>2 DEF IInv, TakeJob
  <2>2. Cardinality(Busy') = Cardinality(Busy) + 1
    BY <2>1, BusyIsFinite, FS_AddElement
  <2>. QED
    BY <1>2, <2>2, BusyIsFinite DEF IInv, TakeJob
<1>3. ASSUME NEW w \in Worker, Answer(w)
      PROVE  RoomInv'
  <2>1. Busy' = Busy \ {w} /\ w \in Busy
    BY <1>3 DEF IInv, Answer
  <2>2. Cardinality(Busy') = Cardinality(Busy) - 1
    BY <2>1, BusyIsFinite, FS_RemoveElement
  <2>3. Len(done') = Len(done) + 1
    BY <1>3, AppendToSeq DEF IInv, Answer
  <2>. QED
    BY <1>3, <2>2, <2>3, BusyIsFinite DEF IInv, Answer
<1>4. ASSUME NEW w \in Worker, Exit(w)
      PROVE  RoomInv'
    BY <1>4 DEF Exit
<1>5. ASSUME Receive \/ Drain
      PROVE  RoomInv'
  <2>1. Len(done') = Len(done) - 1 /\ Len(done) \in Nat
    BY <1>5, TailOfSeq DEF IInv, Receive, Drain
  <2>2. job' = job /\ taken' = taken
    BY <1>5 DEF Receive, Drain
  <2>. QED
    BY <2>1, <2>2, BusyIsFinite DEF IInv
<1>6. CASE Flush \/ Return \/ UNCHANGED vars
    BY <1>6 DEF Flush, Return, vars
<1>. QED
    BY <1>1, <1>2, <1>3, <1>4, <1>5, <1>6 DEF Next, WorkerStep, CallerStep, Terminated

\* doneChan is open and has room whenever a worker has an answer for it: a send
\* neither panics nor blocks.
THEOREM AnswersAreSent == Safety => []AnswersCanBeSent
<1>1. Init => RoomInv
  <2>. SUFFICES ASSUME Init PROVE RoomInv
    OBVIOUS
  <2>1. Busy = {}
    BY DEF Init, Busy
  <2>. QED
    BY <2>1, FS_EmptySet DEF Init, RoomInv
<1>2. IInv /\ RoomInv /\ [Next]_vars => RoomInv'
    BY StepRoom
<1>3. IInv /\ RoomInv => AnswersCanBeSent
  <2>. SUFFICES ASSUME IInv, RoomInv, NEW w \in Worker, job[w] # 0
                PROVE  Len(done) < DoneCap /\ ~doneClosed
    BY DEF AnswersCanBeSent
  <2>1. Cardinality(Busy) > 0 /\ Cardinality(Busy) \in Nat
    BY BusyIsFinite DEF Busy
  <2>2. Len(done) \in Nat /\ taken \in Nat /\ taken <= N
    BY ItemsAssumption DEF IInv, TypeOK
  <2>3. ~doneClosed
    BY DEF IInv, PoolInv
  <2>. QED
    BY <2>1, <2>2, <2>3, ItemsAssumption DEF RoomInv, DoneCap
<1>. QED
    BY <1>1, <1>2, <1>3, Invariance, PTL DEF Safety

-----------------------------------------------------------------------------
\* When doneChan is closed and drained without a cancel, every item has been
\* handled: none was lost between the producer, the workers and the caller.
LEMMA NothingLost ==
    ASSUME IInv, caller = "receive", done = << >>, doneClosed
    PROVE  next = N + 1
<1>1. enqueued = N /\ taken = N /\ \A w \in Worker : job[w] = 0
    BY PoolAssumption DEF IInv, PoolInv, CallerInv
<1>2. \A i \in 1..N : i < next \/ i \in pending
    BY <1>1 DEF IInv, CallerInv, Accounted
<1>3. next \notin pending
    BY DEF IInv, CallerInv
<1>. QED
    BY <1>2, <1>3, ItemsAssumption DEF IInv, TypeOK

LEMMA StepImplements ==
    ASSUME IInv, [Next]_vars
    PROVE  [Sequential!Next]_(Sequential!vars)
<1>. USE DEF pool, producer, ordering, Sequential!vars
<1>1. CASE ProducerStep
    BY <1>1 DEF ProducerStep, Enqueue, CloseJobs, CloseDone
<1>2. ASSUME NEW w \in Worker, WorkerStep(w)
      PROVE  [Sequential!Next]_(Sequential!vars)
    BY <1>2 DEF WorkerStep, TakeJob, Answer, Exit
<1>3. CASE Receive
    BY <1>3 DEF Receive
<1>4. CASE Flush
  <2>1. verdict = Running /\ next \in Index
    BY <1>4 DEF IInv, TypeOK, CallerInv, Flush
  <2>2. /\ Sequential!GoesOn(items[next]) = GoesOn(items[next])
        /\ Sequential!Delivers(items[next]) = Delivers(items[next])
        /\ Sequential!VerdictOf(next, items[next]) = VerdictOf(next, items[next])
    BY DEF GoesOn, Delivers, VerdictOf, Translated, Skipped, Sequential!GoesOn,
           Sequential!Delivers, Sequential!VerdictOf, Sequential!Translated, Sequential!Skipped
  <2>3. Sequential!Handle
    BY <1>4, <2>1, <2>2 DEF Flush, Sequential!Handle, Sequential!Deliver, Sequential!Index
  <2>. QED
    BY <2>3 DEF Sequential!Next
<1>5. CASE Drain
    BY <1>5 DEF Drain
<1>6. CASE Return
  <2>1. CASE caller = "receive"
    <3>1. next = N + 1 /\ verdict = Running
      BY <1>6, <2>1, NothingLost DEF IInv, CallerInv, Return
    <3>. QED
      BY <1>6, <2>1, <3>1 DEF Return, Sequential!Next, Sequential!Finish
  <2>2. CASE caller = "drain"
    BY <1>6, <2>2 DEF Return
  <2>. QED
    BY <1>6, <2>1, <2>2 DEF Return
<1>7. CASE UNCHANGED vars
    BY <1>7 DEF vars
<1>. QED
    BY <1>1, <1>2, <1>3, <1>4, <1>5, <1>6, <1>7 DEF Next, CallerStep, Terminated

\* The worker pool delivers what the inline loop delivers and returns what it
\* returns, for every collection and every schedule of the goroutines.
THEOREM PoolImplementsLoop == Safety => ImplementsInlineLoop
<1>1. Init => Sequential!Init
    BY DEF Init, Sequential!Init
<1>. QED
    BY <1>1, Invariance, StepImplements, PTL DEF Safety, ImplementsInlineLoop, Sequential!Safety
-----------------------------------------------------------------------------
(* The call comes to an end but for the scheduler: some goroutine can always go on,    *)
(* and whatever it does leaves less to do. TLC confirms of small pools that each of    *)
(* these is when the steps of its goroutine are enabled.                               *)

ProducerCan ==
    \/ ~jobsClosed /\ enqueued < N /\ enqueued - taken < JobsCap
    \/ ~jobsClosed /\ (enqueued = N \/ cancelled)
    \/ jobsClosed /\ ~doneClosed /\ exited = Worker
WorkerCan(w) ==
    \/ job[w] # 0 /\ Len(done) < DoneCap
    \/ /\ w \notin exited /\ job[w] = 0
       /\ taken < enqueued \/ jobsClosed \/ cancelled
CallerCan ==
    \/ caller = "flush"
    \/ caller \in {"receive", "drain"} /\ (done # << >> \/ doneClosed)

\* Nobody waits for one who waits: until the call has returned and its goroutines are gone,
\* one of them is not blocked on a channel, the wait group or the context.
NotStuck ==
    \/ caller = "returned" /\ doneClosed
    \/ ProducerCan \/ CallerCan \/ \E w \in Worker : WorkerCan(w)

\* The producer, workers and caller of a pool never all wait for one another, whatever the
\* capacity of jobChan and wherever the context ends (TranslateSliceParallel,
\* TranslateMapParallel).
THEOREM PoolIsNeverStuck == Safety => []NotStuck
<1>1. IInv /\ AnswersCanBeSent => NotStuck
  <2>. SUFFICES ASSUME IInv, AnswersCanBeSent, ~ProducerCan, ~CallerCan,
                       \A w \in Worker : ~WorkerCan(w)
                PROVE  caller = "returned" /\ doneClosed
    BY DEF NotStuck
  <2>1. /\ enqueued \in Nat /\ taken \in Nat /\ enqueued <= N /\ taken <= enqueued
        /\ caller \in {"receive", "flush", "drain", "returned"}
        /\ N \in Nat /\ JobsCap \in Nat \ {0}
    BY ItemsAssumption, PoolAssumption DEF IInv, TypeOK
  <2>2. exited = Worker
    <3>. SUFFICES ASSUME exited # Worker PROVE FALSE
      OBVIOUS
    <3>1. PICK w \in Worker : w \notin exited
      BY DEF IInv, TypeOK
    <3>2. job[w] = 0
      BY DEF AnswersCanBeSent, WorkerCan
    <3>3. ~(taken < enqueued) /\ ~jobsClosed /\ ~cancelled
      BY <3>1, <3>2 DEF WorkerCan
    <3>4. enqueued - taken < JobsCap
      BY <2>1, <3>3
    <3>5. enqueued < N \/ enqueued = N
      BY <2>1
    <3>. QED
      BY <3>3, <3>4, <3>5 DEF ProducerCan
  <2>3. jobsClosed
    <3>1. cancelled \/ jobsClosed
      BY <2>2, PoolAssumption DEF IInv, PoolInv
    <3>. QED
      BY <3>1 DEF ProducerCan
  <2>4. doneClosed
    BY <2>2, <2>3 DEF ProducerCan
  <2>. QED
    BY <2>1, <2>4 DEF CallerCan
<1>. QED
    BY <1>1, Invariance, AnswersAreSent, PTL

\* What is still to be done: an index is sent, taken, translated, received and handed
\* on; a worker exits, the channels are closed and the caller returns.
ToSend == (N - enqueued) + 3 * (N - taken)
ToReceive == 2 * Cardinality(Busy) + Len(done)
ToHandOn == N + 1 - next
ToEnd ==
    Cardinality(Worker \ exited) + (IF jobsClosed THEN 0 ELSE 1)
        + (IF doneClosed THEN 0 ELSE 1) + (IF caller = "returned" THEN 0 ELSE 1)
Work == ToSend + ToReceive + ToHandOn + ToEnd
LeavesLess == Work \in Nat /\ Work' < Work

\* What is counted are numbers, and a worker that exits is one.
LEMMA WorkIsNat ==
    ASSUME IInv
    PROVE  /\ ToSend \in Nat /\ ToReceive \in Nat /\ ToHandOn \in Nat /\ ToEnd \in Nat
           /\ Len(done) \in Nat /\ Cardinality(Worker \ exited) \in Nat
           /\ N \in Nat /\ enqueued \in Nat /\ taken \in Nat /\ next \in Nat
           /\ \A w \in Worker : w \notin exited =>
                 Cardinality(Worker \ (exited \cup {w})) = Cardinality(Worker \ exited) - 1
<1>1. /\ N \in Nat /\ enqueued \in Nat /\ taken \in Nat /\ next \in Nat
      /\ enqueued <= N /\ taken <= enqueued /\ next <= N + 1 /\ Len(done) \in Nat
    BY ItemsAssumption DEF IInv, TypeOK
<1>2. IsFiniteSet(Worker \ exited) /\ Cardinality(Worker \ exited) \in Nat
    BY PoolAssumption, FS_Subset, FS_CardinalityType
<1>3. ASSUME NEW w \in Worker, w \notin exited
      PROVE  Cardinality(Worker \ (exited \cup {w})) = Cardinality(Worker \ exited) - 1
  <2>1. Worker \ (exited \cup {w}) = (Worker \ exited) \ {w} /\ w \in Worker \ exited
    BY <1>3
  <2>. QED
    BY <2>1, <1>2, FS_RemoveElement
<1>4. ToReceive \in Nat
    BY <1>1, BusyIsFinite DEF ToReceive
<1>5. ToSend \in Nat /\ ToHandOn \in Nat
    BY <1>1 DEF ToSend, ToHandOn
<1>6. ToEnd \in Nat
    BY <1>2 DEF ToEnd
<1>. QED
    BY <1>1, <1>2, <1>3, <1>4, <1>5, <1>6

\* Every step of a pool does a part of the work of the call and none is done twice: a call
\* takes five steps for an item, one for a worker and three more at most, in any order of
\* the goroutines (TranslateSliceParallel, TranslateMapParallel).
THEOREM PoolWorksOff ==
    Safety => Work = 5 * N + Cardinality(Worker) + 3 /\ [][LeavesLess]_vars
<1>1. ASSUME IInv, [Next]_vars
      PROVE  [LeavesLess]_vars
  <2>. USE DEF pool, producer, ordering
  <2>0. Work \in Nat
    BY <1>1, WorkIsNat DEF Work
  <2>. DEFINE busy == Cardinality(Busy)
              running == Cardinality(Worker \ exited)
  <2>a. /\ Len(done) \in Nat /\ busy \in Nat /\ running \in Nat
        /\ N \in Nat /\ enqueued \in Nat /\ taken \in Nat /\ next \in Nat
    BY <1>1, WorkIsNat, BusyIsFinite
  <2>b. /\ ToReceive = 2 * busy + Len(done) /\ ToReceive' = 2 * busy' + Len(done')
        /\ ToEnd = running + (IF jobsClosed THEN 0 ELSE 1) + (IF doneClosed THEN 0 ELSE 1)
                      + (IF caller = "returned" THEN 0 ELSE 1)
        /\ ToEnd' = running' + (IF jobsClosed' THEN 0 ELSE 1) + (IF doneClosed' THEN 0 ELSE 1)
                      + (IF caller' = "returned" THEN 0 ELSE 1)
    BY DEF ToReceive, ToEnd
  <2>. HIDE DEF busy, running
  <2>1. ASSUME Enqueue PROVE Work' < Work
    <3>1. busy' = busy /\ running' = running
      BY <2>1 DEF Enqueue, busy, running, Busy
    <3>. QED
      BY <2>1, <2>a, <2>b, <3>1 DEF Enqueue, Work, ToSend, ToHandOn
  <2>2. ASSUME CloseJobs \/ CloseDone PROVE Work' < Work
    <3>1. busy' = busy /\ running' = running
      BY <2>2 DEF CloseJobs, CloseDone, busy, running, Busy
    <3>2. /\ enqueued' = enqueued /\ taken' = taken /\ next' = next /\ done' = done
          /\ caller' = caller
          /\ \/ ~jobsClosed /\ jobsClosed' /\ doneClosed' = doneClosed
             \/ ~doneClosed /\ doneClosed' /\ jobsClosed' = jobsClosed
      BY <2>2 DEF CloseJobs, CloseDone
    <3>. QED
      BY <2>a, <2>b, <3>1, <3>2 DEF Work, ToSend, ToHandOn
  <2>3. ASSUME NEW w \in Worker, TakeJob(w) PROVE Work' < Work
    <3>1. Busy' = Busy \cup {w} /\ w \notin Busy
      BY <1>1, <2>3 DEF IInv, TypeOK, TakeJob, Busy
    <3>2. busy' = busy + 1 /\ running' = running
      BY <2>3, <3>1, BusyIsFinite, FS_AddElement DEF TakeJob, busy, running
    <3>. QED
      BY <2>3, <2>a, <2>b, <3>2 DEF TakeJob, Work, ToSend, ToHandOn
  <2>4. ASSUME NEW w \in Worker, Answer(w) PROVE Work' < Work
    <3>1. Busy' = Busy \ {w} /\ w \in Busy
      BY <1>1, <2>4 DEF IInv, TypeOK, Answer, Busy
    <3>2. busy' = busy - 1 /\ running' = running
      BY <2>4, <3>1, BusyIsFinite, FS_RemoveElement DEF Answer, busy, running
    <3>3. Len(done') = Len(done) + 1
      BY <1>1, <2>4, AppendToSeq DEF IInv, TypeOK, Answer
    <3>. QED
      BY <2>4, <2>a, <2>b, <3>2, <3>3 DEF Answer, Work, ToSend, ToHandOn
  <2>5. ASSUME NEW w \in Worker, Exit(w) PROVE Work' < Work
    <3>1. busy' = busy /\ running' = running - 1
      BY <1>1, <2>5, WorkIsNat DEF Exit, busy, running, Busy
    <3>. QED
      BY <2>5, <2>a, <2>b, <3>1 DEF Exit, Work, ToSend, ToHandOn
  <2>6. ASSUME Receive \/ Drain PROVE Work' < Work
    <3>1. busy' = busy /\ running' = running
      BY <2>6 DEF Receive, Drain, busy, running, Busy
    <3>2. Len(done') = Len(done) - 1
      BY <1>1, <2>6, TailOfSeq DEF IInv, TypeOK, Receive, Drain
    <3>3. /\ enqueued' = enqueued /\ taken' = taken /\ next' = next
          /\ jobsClosed' = jobsClosed /\ doneClosed' = doneClosed
          /\ caller # "returned" /\ caller' # "returned"
      BY <2>6 DEF Receive, Drain
    <3>. QED
      BY <2>a, <2>b, <3>1, <3>2, <3>3 DEF Work, ToSend, ToHandOn
  <2>7. ASSUME Flush PROVE Work' < Work
    <3>1. busy' = busy /\ running' = running
      BY <2>7 DEF Flush, busy, running, Busy
    <3>2. caller # "returned" /\ caller' # "returned"
      BY <2>7 DEF Flush
    <3>. QED
      BY <2>7, <2>a, <2>b, <3>1, <3>2 DEF Flush, Work, ToSend, ToHandOn
  <2>8. ASSUME Return PROVE Work' < Work
    <3>1. busy' = busy /\ running' = running
      BY <2>8 DEF Return, busy, running, Busy
    <3>. QED
      BY <2>8, <2>a, <2>b, <3>1 DEF Return, Work, ToSend, ToHandOn
  <2>. QED
    BY <1>1, <2>0, <2>1, <2>2, <2>3, <2>4, <2>5, <2>6, <2>7, <2>8
    DEF Next, ProducerStep, WorkerStep, CallerStep, Terminated, LeavesLess
<1>2. ASSUME Init
      PROVE  Work = 5 * N + Cardinality(Worker) + 3
  <2>1. Busy = {} /\ Worker \ exited = Worker /\ Len(done) = 0
    BY <1>2 DEF Init, Busy
  <2>2. Cardinality(Worker) \in Nat /\ Cardinality(Busy) = 0 /\ N \in Nat
    BY <2>1, PoolAssumption, ItemsAssumption, FS_CardinalityType, FS_EmptySet
  <2>3. ToSend = 4 * N /\ ToReceive = 0 /\ ToHandOn = N
    BY <1>2, <2>1, <2>2 DEF Init, ToSend, ToReceive, ToHandOn
  <2>4. ToEnd = Cardinality(Worker) + 3
    BY <1>2, <2>1, <2>2 DEF Init, ToEnd
  <2>. QED
    BY <2>2, <2>3, <2>4 DEF Work
<1>. QED
    BY <1>1, <1>2, Invariance, PTL DEF Safety
=============================================================================
