-------------------------- MODULE AsyncLoop_proofs --------------------------
(***************************************************************************)
(* AsyncLoop for any number of promises, any bounds and any number of      *)
(* workers: no coroutine is lost or queued twice, a throw never crosses    *)
(* stacks, the loop drives the worker pool as HttpPool says, and the whole *)
(* implements the settle-once futures of Futures.                          *)
(***************************************************************************)
EXTENDS AsyncLoop, TLAPS

-----------------------------------------------------------------------------
(* The worker pool, for any set of jobs and any number of workers *)

\* Where a worker is says what it holds and what it has written, and a job
\* before its creation has not been touched.
WorkerState ==
    /\ \A w \in Workers : wpc[w] = "idle" <=> holds[w] = NoJob
    /\ \A w \in Workers : wpc[w] = "publish" => outcome[holds[w]] \in Outcomes
    /\ \A j \in Job : alloc[j] = "no" => ~done[j]

PoolInv ==
    /\ PoolTypeOK
    /\ WorkerState
    /\ JobsInUseAreLive
    /\ JobsHeldOnce
    /\ PublishedHasOutcome

\* The initial states satisfy the inductive invariant.
LEMMA PoolInvInit == PoolInit => PoolInv
  BY PoolAssumption
  DEF PoolInit, PoolInv, PoolTypeOK, WorkerState, JobsInUseAreLive,
      JobsHeldOnce, PublishedHasOutcome, Outcomes

\* A worker takes the front job: it leaves the queue as it enters the hands of
\* a worker that held nothing.
LEMMA TakePreserves ==
  ASSUME PoolInv, NEW w \in Workers, WorkerTake(w)
  PROVE  PoolInv'
<1> USE PoolAssumption DEF PoolInv, WorkerTake
<1>1. /\ Head(queue) \in Job
      /\ Tail(queue) \in Seq(Job)
      /\ Len(Tail(queue)) = Len(queue) - 1
      /\ DOMAIN queue = 1..Len(queue)
      /\ DOMAIN Tail(queue) = 1..(Len(queue) - 1)
      /\ Len(queue) \in Nat \ {0}
      /\ Head(queue) = queue[1]
      /\ \A i \in 1..(Len(queue) - 1) : Tail(queue)[i] = queue[i + 1]
  BY DEF PoolTypeOK
<1>2. PoolTypeOK'
  BY <1>1 DEF PoolTypeOK
<1>3. WorkerState'
  BY <1>1 DEF WorkerState, PoolTypeOK
<1>4. JobsInUseAreLive'
  BY <1>1 DEF JobsInUseAreLive, PoolTypeOK
<1>5. JobsHeldOnce'
  <2>1. \A i, k \in DOMAIN queue' : queue'[i] = queue'[k] => i = k
    BY <1>1 DEF JobsHeldOnce
  <2>2. \A v \in Workers, i \in DOMAIN queue' : holds'[v] # queue'[i]
    <3> SUFFICES ASSUME NEW v \in Workers, NEW i \in DOMAIN queue'
                 PROVE  holds'[v] # queue'[i]
      OBVIOUS
    <3>1. /\ i \in DOMAIN queue /\ i + 1 \in DOMAIN queue
          /\ queue'[i] = queue[i + 1] /\ 1 \in DOMAIN queue /\ i + 1 # 1
      BY <1>1
    <3>2. CASE v = w
      BY <1>1, <3>1, <3>2 DEF JobsHeldOnce, PoolTypeOK
    <3>3. CASE v # w
      BY <1>1, <3>1, <3>3 DEF JobsHeldOnce, PoolTypeOK
    <3>4. QED
      BY <3>2, <3>3
  <2>3. \A u, v \in Workers : holds'[u] = holds'[v] /\ holds'[v] # NoJob => u = v
    BY <1>1 DEF JobsHeldOnce, PoolTypeOK
  <2>4. ASSUME NEW j \in Job, alloc'[j] = "live", ~done'[j]
        PROVE  \/ \E i \in DOMAIN queue' : queue'[i] = j
               \/ \E v \in Workers : holds'[v] = j
    <3>1. CASE \E i \in DOMAIN queue : queue[i] = j
      <4>1. PICK i \in DOMAIN queue : queue[i] = j
        BY <3>1
      <4>2. CASE i = 1
        BY <1>1, <4>1, <4>2 DEF PoolTypeOK
      <4>3. CASE i # 1
        <5>1. i - 1 \in DOMAIN queue' /\ queue'[i - 1] = j
          BY <1>1, <4>1, <4>3
        <5>2. QED
          BY <5>1
      <4>4. QED
        BY <4>2, <4>3
    <3>2. CASE \E v \in Workers : holds[v] = j
      <4>1. PICK v \in Workers : holds[v] = j
        BY <3>2
      <4>2. v # w
        BY <4>1 DEF WorkerState
      <4>3. holds'[v] = j
        BY <4>1, <4>2 DEF PoolTypeOK
      <4>4. QED
        BY <4>3
    <3>3. QED
      BY <2>4, <3>1, <3>2 DEF JobsHeldOnce
  <2>5. QED
    BY <2>1, <2>2, <2>3, <2>4 DEF JobsHeldOnce
<1>6. PublishedHasOutcome'
  BY DEF PublishedHasOutcome
<1>7. QED
  BY <1>2, <1>3, <1>4, <1>5, <1>6

\* A worker writes the outcome of its request.
LEMMA RequestPreserves ==
  ASSUME PoolInv, NEW w \in Workers, WorkerRequest(w)
  PROVE  PoolInv'
<1> USE PoolAssumption DEF PoolInv, WorkerRequest
<1>1. holds[w] \in Job
  BY DEF PoolTypeOK, WorkerState
<1>2. PoolTypeOK'
  BY <1>1 DEF PoolTypeOK, Outcomes
<1>3. WorkerState'
  BY <1>1 DEF WorkerState, PoolTypeOK, Outcomes
<1>4. JobsInUseAreLive' /\ JobsHeldOnce'
  BY DEF JobsInUseAreLive, JobsHeldOnce
<1>5. PublishedHasOutcome'
  BY <1>1 DEF PublishedHasOutcome, PoolTypeOK
<1>6. QED
  BY <1>2, <1>3, <1>4, <1>5

\* A worker raises the flag and lets go of the job.
LEMMA PublishPreserves ==
  ASSUME PoolInv, NEW w \in Workers, WorkerPublish(w)
  PROVE  PoolInv'
<1> USE PoolAssumption DEF PoolInv, WorkerPublish
<1>1. holds[w] \in Job /\ outcome[holds[w]] \in Outcomes
  BY DEF PoolTypeOK, WorkerState
<1>2. PoolTypeOK'
  BY <1>1 DEF PoolTypeOK
<1>3. WorkerState'
  BY <1>1 DEF WorkerState, PoolTypeOK, JobsHeldOnce, JobsInUseAreLive
<1>4. JobsInUseAreLive'
  BY <1>1 DEF JobsInUseAreLive, JobsHeldOnce, PoolTypeOK
<1>5. JobsHeldOnce'
  BY <1>1 DEF JobsHeldOnce, PoolTypeOK
<1>6. PublishedHasOutcome'
  BY <1>1 DEF PublishedHasOutcome, PoolTypeOK
<1>7. QED
  BY <1>2, <1>3, <1>4, <1>5, <1>6

\* A new job goes to the end of the queue.
LEMMA SubmitPreserves ==
  ASSUME PoolInv, NEW j \in Job, PoolSubmit(j)
  PROVE  PoolInv'
<1> USE PoolAssumption DEF PoolInv, PoolSubmit
<1>1. /\ Len(queue) \in Nat
      /\ DOMAIN queue = 1..Len(queue)
      /\ DOMAIN queue' = 1..(Len(queue) + 1)
      /\ queue' \in Seq(Job)
      /\ \A i \in 1..Len(queue) : queue'[i] = queue[i]
      /\ queue'[Len(queue) + 1] = j
  BY DEF PoolTypeOK
<1>2. PoolTypeOK'
  BY <1>1 DEF PoolTypeOK
<1>3. WorkerState'
  BY DEF WorkerState, PoolTypeOK
<1>4. ~done[j]
  BY DEF WorkerState
<1>5. JobsInUseAreLive'
  BY <1>1, <1>4 DEF JobsInUseAreLive, PoolTypeOK
<1>6. JobsHeldOnce'
  <2>1. /\ \A i \in DOMAIN queue : queue[i] # j
        /\ \A w \in Workers : holds[w] # j
    BY DEF JobsInUseAreLive
  <2>2. \A i, k \in DOMAIN queue' : queue'[i] = queue'[k] => i = k
    BY <1>1, <2>1 DEF JobsHeldOnce
  <2>3. \A w \in Workers, i \in DOMAIN queue' : holds'[w] # queue'[i]
    BY <1>1, <2>1 DEF JobsHeldOnce
  <2>4. \A v, w \in Workers : holds'[v] = holds'[w] /\ holds'[v] # NoJob => v = w
    BY DEF JobsHeldOnce
  <2>5. ASSUME NEW k \in Job, alloc'[k] = "live", ~done'[k]
        PROVE  \/ \E i \in DOMAIN queue' : queue'[i] = k
               \/ \E w \in Workers : holds'[w] = k
    <3>1. CASE k = j
      BY <1>1, <3>1
    <3>2. CASE k # j
      BY <1>1, <2>5, <3>2 DEF JobsHeldOnce, PoolTypeOK
    <3>3. QED
      BY <3>1, <3>2
  <2>6. QED
    BY <2>2, <2>3, <2>4, <2>5 DEF JobsHeldOnce
<1>7. PublishedHasOutcome'
  BY DEF PublishedHasOutcome
<1>8. QED
  BY <1>2, <1>3, <1>5, <1>6, <1>7

\* The event loop deletes a published job: nobody holds it any more.
LEMMA CollectPreserves ==
  ASSUME PoolInv, NEW j \in Job, PoolCollect(j)
  PROVE  PoolInv'
<1> USE PoolAssumption DEF PoolInv, PoolCollect
<1>1. PoolTypeOK'
  BY DEF PoolTypeOK
<1>2. WorkerState'
  BY DEF WorkerState, PoolTypeOK
<1>3. JobsInUseAreLive'
  BY DEF JobsInUseAreLive, PoolTypeOK
<1>4. JobsHeldOnce' /\ PublishedHasOutcome'
  BY DEF JobsHeldOnce, PublishedHasOutcome, PoolTypeOK
<1>5. QED
  BY <1>1, <1>2, <1>3, <1>4

\* Every step of the pool and of the loop preserves the invariant.
LEMMA PoolInvNext == PoolInv /\ [PoolNext]_poolVars => PoolInv'
<1> SUFFICES ASSUME PoolInv, [PoolNext]_poolVars
             PROVE  PoolInv'
  OBVIOUS
<1>1. ASSUME NEW w \in Workers, Worker(w)
      PROVE  PoolInv'
  BY <1>1, TakePreserves, RequestPreserves, PublishPreserves DEF Worker
<1>2. ASSUME NEW j \in Job, PoolSubmit(j) \/ PoolCollect(j)
      PROVE  PoolInv'
  BY <1>2, SubmitPreserves, CollectPreserves
<1>3. CASE UNCHANGED poolVars
  BY <1>3 DEF PoolInv, PoolTypeOK, WorkerState, JobsInUseAreLive, JobsHeldOnce,
              PublishedHasOutcome, poolVars
<1>4. QED
  BY <1>1, <1>2, <1>3 DEF PoolNext

LEMMA PoolInvariant == PoolSpec => []PoolInv
<1>1. PoolInit => PoolInv
  BY PoolInvInit
<1>2. PoolInv /\ [PoolNext]_poolVars => PoolInv'
  BY PoolInvNext
<1>3. QED
  BY <1>1, <1>2, PTL DEF PoolSpec

\* The pool is safe for every number of jobs and workers: http_async_poll
\* deletes no job a worker may still touch, every unfinished job is on the
\* queue or in one worker's hands, and a job's result is there before its flag.
THEOREM PoolSafe ==
    PoolSpec => [](JobsInUseAreLive /\ JobsHeldOnce /\ PublishedHasOutcome)
<1>1. PoolInv => JobsInUseAreLive /\ JobsHeldOnce /\ PublishedHasOutcome
  BY DEF PoolInv
<1>2. QED
  BY <1>1, PoolInvariant, PTL

\* http_async_poll finds the result written whenever it finds the flag raised,
\* whatever the order in which workers take, answer and publish.
THEOREM PoolPublishes == PoolSpec => []PublishedHasOutcome
  BY PoolSafe, PTL

-----------------------------------------------------------------------------
(* The event loop *)

\* The scheduler's own stack is never swapped out, and while a coroutine has
\* the control nothing but its code is run.
Control ==
    /\ prevEh = 0
    /\ current # 0 => pc \in {"code", "register"} /\ tpc[current] = "run"
    /\ pc = "register" <=> reg # 0

\* What settles a promise is what created it, and nobody knows a promise that
\* does not exist.
Kinded ==
    /\ \A t \in Id : tpc[t] # "none" <=> t \in Tasks
    /\ \A t \in Tasks : pst[t] # 0 <=> tpc[t] = "done"
    /\ \A p \in Id : kind[p] = "free" => pst[p] = 0 /\ waiters[p] = <<>>
    /\ \A c \in Ctx : aw[c] # 0 => kind[aw[c]] # "free"
    /\ \A p \in Id : \A i \in DOMAIN items[p] :
          items[p][i] # 0 => kind[items[p][i]] # "free"
    /\ \A p \in timers \cup fire : kind[p] = "timer"
    /\ \A p \in io : kind[p] = "http"
    /\ reg # 0 => kind[reg] = "http"

LoopInv ==
    /\ PoolInv
    /\ TypeOK
    /\ Control
    /\ Kinded
    /\ ThrowStaysOnStack
    /\ Scheduling

\* The initial states satisfy the inductive invariant.
LEMMA LoopInvInit == Init => LoopInv
<1> SUFFICES ASSUME Init
             PROVE  LoopInv
  OBVIOUS
<1> USE LoopAssumption DEF Init, Id, Ctx
<1>1. PoolInv
  BY PoolInvInit
<1>2. PromTypes
  BY DEF PromTypes, Value
<1>3. TaskTypes
  BY DEF TaskTypes
<1>4. CodeTypes
  BY DEF CodeTypes
<1>5. TimeTypes
  BY DEF TimeTypes
<1>6. CtlTypes
  BY DEF CtlTypes
<1>7. FlagTypes
  BY Zenon DEF FlagTypes
<1>8. TypeOK
  BY <1>1, <1>2, <1>3, <1>4, <1>5, <1>6, <1>7 DEF TypeOK, PoolInv
<1>9. Control
  BY DEF Control
<1>10. Kinded
  BY DEF Kinded, Tasks
<1>11. ThrowStaysOnStack
  BY DEF ThrowStaysOnStack
<1>12. Scheduling
  <2>1. IsInjective(<<>>) /\ Range(<<>>) = {}
    BY DEF IsInjective, Range
  <2>2. QED
    BY <2>1 DEF Scheduling, ReadyCanRun, WaitersAwait, NoLostTask
<1>13. QED
  BY <1>1, <1>8, <1>9, <1>10, <1>11, <1>12 DEF LoopInv

-----------------------------------------------------------------------------
(* The loop and the pool. *)

\* Every step of the process is a step of the pool or none of its business.
LEMMA PoolStep == [Next]_vars => [PoolNext]_poolVars
<1> SUFFICES ASSUME [Next]_vars
             PROVE  [PoolNext]_poolVars
  OBVIOUS
<1>1. CASE UNCHANGED vars
  BY <1>1 DEF vars
<1>2. CASE UserStep
  <2>1. CASE \E p \in Id : HttpSubmit(p)
    BY <2>1, LoopAssumption DEF HttpSubmit, PoolNext
  <2>2. CASE ~ \E p \in Id : HttpSubmit(p)
    BY <1>2, <2>2, Zenon
    DEF UserStep, Spawn, Gather, SleepAsync, HttpBadArgs, Await, TryEnter,
        TryLeave, UserThrow, TaskReturn, MainEnd
  <2>3. QED
    BY <2>1, <2>2
<1>3. CASE LoopStep
  <2>1. CASE \E p \in Id : PollFinished(p)
    BY <2>1, LoopAssumption DEF PollFinished, PoolNext
  <2>2. CASE ~ \E p \in Id : PollFinished(p)
    BY <1>3, <2>2, Zenon
    DEF LoopStep, HttpRegister, AwaitYield, AwaitPump, AwaitReturn, AwaitThrow,
        GatherNext, GatherReturn, PollPending, PollEnd, Resume, DispatchIoDone,
        DispatchTimers, FireTimer, DispatchIoWait, DispatchNothing
  <2>3. QED
    BY <2>1, <2>2
<1>4. CASE \E w \in Workers : WorkerStep(w)
  BY <1>4 DEF WorkerStep, PoolNext
<1>5. CASE Tick \/ Gone
  BY <1>5 DEF Tick, Gone, vars
<1>6. QED
  BY <1>1, <1>2, <1>3, <1>4, <1>5 DEF Next

\* The event loop drives the worker pool only as HttpPool allows: it never
\* collects a job that is not done and never submits one twice.
THEOREM LoopRunsPool == Spec => PoolSpec
<1>1. Init => PoolInit
  BY DEF Init
<1>2. QED
  BY <1>1, PoolStep, PTL DEF Spec, PoolSpec

\* So the loop inherits what the pool guarantees: no thread touches a deleted
\* job, no job is lost or taken twice, a raised flag means a written outcome.
THEOREM LoopPoolSafe ==
    Spec => [](JobsInUseAreLive /\ JobsHeldOnce /\ PublishedHasOutcome)
  BY LoopRunsPool, PoolSafe, PTL

-----------------------------------------------------------------------------
(* Types. *)

\* aot_promise_settle keeps the types.
LEMMA SettleTypes ==
  ASSUME TypeOK, NEW p \in Id, NEW v \in Value, NEW s \in {1, 2}, Settle(p, v, s)
  PROVE  /\ pst' \in [Id -> 0..2]
         /\ val' \in [Id -> Value]
         /\ ready' \in Seq(Id)
         /\ waiters' \in [Id -> Seq(Id)]
<1>1. pst \in [Id -> 0..2] /\ val \in [Id -> Value]
      /\ ready \in Seq(Id) /\ waiters \in [Id -> Seq(Id)]
  BY DEF TypeOK, PromTypes, CtlTypes
<1>2. CASE pst[p] # 0
  BY <1>1, <1>2 DEF Settle
<1>3. CASE pst[p] = 0
  <2>1. s \in 0..2 /\ waiters[p] \in Seq(Id) /\ <<>> \in Seq(Id)
    BY <1>1
  <2>2. ready \o waiters[p] \in Seq(Id)
    BY <1>1, <2>1
  <2>3. QED
    BY <1>1, <1>3, <2>1, <2>2 DEF Settle
<1>4. QED
  BY <1>2, <1>3

\* A promise number, negated or not, is a value.
LEMMA IdValues == \A p \in Ctx : p \in Value /\ -p \in Value
  BY LoopAssumption DEF Ctx, Value

\* loop_step returns true: types of the control variables.
LEMMA LoopAgainTypes ==
  ASSUME TypeOK, LoopAgain
  PROVE  pc' \in {"poll", "code"} /\ cursor' \in Ctx /\ FlagTypes'
<1>1. pc' = "poll" \/ pc' = "code"
  BY Zenon DEF LoopAgain
<1>2. cursor' = 0 /\ 0 \in Ctx
  BY LoopAssumption DEF LoopAgain, Ctx
<1>3. ioDone' = FALSE /\ drain' = drain
  BY Zenon DEF LoopAgain
<1>4. FlagTypes'
  BY <1>3, Zenon DEF TypeOK, FlagTypes
<1>5. QED
  BY <1>1, <1>2, <1>4

\* The number 0 names main or nothing, never a promise.
LEMMA Numbers == Ctx = Id \cup {0} /\ 0 \notin Id /\ Id \subseteq Nat
  BY LoopAssumption DEF Ctx, Id

-----------------------------------------------------------------------------
(* Steps that leave the coroutines alone. *)

Quiet == UNCHANGED <<promVars, taskVars, codeVars, ehVars, ready, current>>

LEMMA QuietKeeps ==
  ASSUME LoopInv, Quiet
  PROVE  /\ PromTypes' /\ TaskTypes' /\ CodeTypes'
         /\ ready' \in Seq(Id) /\ current' \in Ctx
         /\ ThrowStaysOnStack'
         /\ Scheduling'
<1> USE DEF Quiet, promVars, taskVars, codeVars, ehVars
<1>1. PromTypes' /\ TaskTypes'
  BY DEF LoopInv, TypeOK, PromTypes, TaskTypes
<1>2. CodeTypes'
  BY DEF LoopInv, TypeOK, CodeTypes
<1>3. ready' \in Seq(Id) /\ current' \in Ctx
  BY DEF LoopInv, TypeOK, CtlTypes
<1>4. ThrowStaysOnStack'
  BY DEF LoopInv, ThrowStaysOnStack
<1>5. Scheduling'
  BY DEF LoopInv, Scheduling, ReadyCanRun, WaitersAwait, NoLostTask
<1>6. QED
  BY <1>1, <1>2, <1>3, <1>4, <1>5

\* A quiet step that adds no timer and no source keeps who settles what.
LEMMA QuietKinded ==
  ASSUME LoopInv, Quiet,
         timers' \cup fire' \subseteq timers \cup fire,
         \A p \in io' : p \in io \/ (p = reg /\ p # 0),
         reg' \in {0, reg}
  PROVE  Kinded'
<1>1. UNCHANGED <<kind, pst, waiters, tpc, items, aw>> /\ Tasks' = Tasks
  BY DEF Quiet, promVars, taskVars, codeVars, Tasks
<1>2. \A p \in timers' \cup fire' : kind[p] = "timer"
  BY DEF LoopInv, Kinded
<1>3. \A p \in io' : kind[p] = "http"
  BY DEF LoopInv, Kinded
<1>4. reg' # 0 => kind[reg'] = "http"
  BY DEF LoopInv, Kinded
<1>5. QED
  BY <1>1, <1>2, <1>3, <1>4 DEF LoopInv, Kinded

\* The worker pool, the clock and a dead process leave the loop alone.
LEMMA OutsidePreserves ==
  ASSUME LoopInv, PoolInv',
         (\E w \in Workers : WorkerStep(w)) \/ Tick \/ UNCHANGED vars
  PROVE  LoopInv'
<1>1. /\ Quiet /\ UNCHANGED <<timers, dl, fire, io, reg, pc, cursor, ioDone, drain>>
      /\ now' = now \/ (now < MaxTime /\ now' = now + 1)
  BY DEF WorkerStep, Tick, vars, loopVars, timeVars, ioVars, ctlVars, Quiet
<1>2. /\ PromTypes' /\ TaskTypes' /\ CodeTypes'
      /\ ready' \in Seq(Id) /\ current' \in Ctx
      /\ ThrowStaysOnStack'
      /\ Scheduling'
  BY <1>1, QuietKeeps
<1>3. TimeTypes'
  BY <1>1, LoopAssumption DEF LoopInv, TypeOK, TimeTypes
<1>4. CtlTypes'
  BY <1>1, <1>2 DEF LoopInv, TypeOK, CtlTypes
<1>5. FlagTypes'
  BY <1>1, Zenon DEF LoopInv, TypeOK, FlagTypes
<1>6. Control'
  BY <1>1 DEF Quiet, LoopInv, Control, ehVars, taskVars
<1>7. Kinded'
  BY <1>1, QuietKinded
<1>8. QED
  BY <1>2, <1>3, <1>4, <1>5, <1>6, <1>7 DEF LoopInv, TypeOK, PoolInv

\* The steps of loop_step that run no coroutine and settle nothing, and the
\* steps of main that only start the loop.
LEMMA IdlePreserves ==
  ASSUME LoopInv, PoolInv',
         \/ HttpRegister \/ AwaitPump \/ MainEnd \/ PollEnd
         \/ \E p \in Id : PollPending(p)
         \/ DispatchIoDone \/ DispatchTimers \/ DispatchIoWait
  PROVE  LoopInv'
<1>1. Quiet
  BY Zenon
  DEF Quiet, HttpRegister, AwaitPump, MainEnd, PollEnd, PollPending,
      DispatchIoDone, DispatchTimers, DispatchIoWait
<1>2. /\ PromTypes' /\ TaskTypes' /\ CodeTypes'
      /\ ready' \in Seq(Id) /\ current' \in Ctx
      /\ ThrowStaysOnStack'
      /\ Scheduling'
  BY <1>1, QuietKeeps
<1>3. CASE HttpRegister
  <2>1. /\ reg \in Id /\ io' = io \cup {reg} /\ reg' = 0 /\ pc' = "code"
        /\ UNCHANGED <<timeVars, cursor, ioDone, drain>>
    BY <1>3, Numbers DEF HttpRegister, LoopInv, Control, TypeOK, CtlTypes
  <2>2. TimeTypes'
    BY <2>1 DEF LoopInv, TypeOK, TimeTypes, timeVars
  <2>3. CtlTypes'
    BY <1>2, <2>1, Numbers DEF LoopInv, TypeOK, CtlTypes
  <2>4. FlagTypes'
    BY <2>1, Zenon DEF LoopInv, TypeOK, FlagTypes
  <2>5. Control'
    BY <1>1, <2>1 DEF Quiet, LoopInv, Control, ehVars, taskVars
  <2>6. Kinded'
    BY <1>1, <2>1, QuietKinded, Numbers DEF timeVars
  <2>7. QED
    BY <1>2, <2>2, <2>3, <2>4, <2>5, <2>6 DEF LoopInv, TypeOK, PoolInv
<1>4. ASSUME UNCHANGED <<io, reg>>, current = 0, pc # "register",
             pc' \in {"code", "poll", "dispatch", "fire"},
             timers' \cup fire' \subseteq timers \cup fire,
             TimeTypes', cursor' \in Ctx, FlagTypes'
      PROVE  LoopInv'
  <2>1. CtlTypes'
    BY <1>2, <1>4 DEF LoopInv, TypeOK, CtlTypes
  <2>2. Control'
    BY <1>1, <1>4 DEF Quiet, LoopInv, Control, ehVars
  <2>3. Kinded'
    BY <1>1, <1>4, QuietKinded
  <2>4. QED
    BY <1>2, <1>4, <2>1, <2>2, <2>3 DEF LoopInv, TypeOK, PoolInv
<1>5. ASSUME pc \in {"poll", "dispatch"}
      PROVE  current = 0
  BY <1>5 DEF LoopInv, Control
<1>6. CASE AwaitPump \/ MainEnd \/ PollEnd \/ \E p \in Id : PollPending(p)
  <2>1. /\ UNCHANGED <<io, reg, timers, fire, dl, now>>
        /\ pc # "register" /\ pc' \in {"poll", "dispatch"}
    BY <1>6
    DEF AwaitPump, Awaiting, MainEnd, UserCode, PollEnd, PollPending, ioVars, timeVars
  <2>2. current = 0
    BY <1>5, <1>6, Zenon DEF AwaitPump, MainEnd, PollEnd, PollPending
  <2>3. cursor' = cursor \/ \E p \in Id : cursor' = p
    BY <1>6, Zenon DEF AwaitPump, MainEnd, PollEnd, PollPending
  <2>4. cursor' \in Ctx
    BY <2>3, Numbers DEF LoopInv, TypeOK, CtlTypes
  <2>5. UNCHANGED ioDone /\ (drain' = drain \/ drain' = TRUE)
    BY <1>6, Zenon DEF AwaitPump, MainEnd, PollEnd, PollPending
  <2>6. FlagTypes'
    BY <2>5, Zenon DEF LoopInv, TypeOK, FlagTypes
  <2>7. TimeTypes'
    BY <2>1 DEF LoopInv, TypeOK, TimeTypes
  <2>8. QED
    BY <1>4, <2>1, <2>2, <2>4, <2>6, <2>7
<1>7. CASE DispatchIoDone \/ DispatchIoWait
  <2>1. /\ UNCHANGED <<io, reg, timers, fire, dl>> /\ pc = "dispatch" /\ LoopAgain
        /\ now' \in {now, Smaller(now + 1, MaxTime)}
    BY <1>7 DEF DispatchIoDone, DispatchIoWait, Idle, ioVars, timeVars
  <2>2. TimeTypes'
    BY <2>1, LoopAssumption DEF LoopInv, TypeOK, TimeTypes, Smaller
  <2>3. pc' \in {"poll", "code"} /\ cursor' \in Ctx /\ FlagTypes'
    BY <2>1, LoopAgainTypes DEF LoopInv
  <2>4. QED
    BY <1>4, <1>5, <2>1, <2>2, <2>3
<1>8. CASE DispatchTimers
  <2>1. PICK p \in timers : now' \in WakeTime(p)..MaxTime
    BY <1>8 DEF DispatchTimers
  <2>2. now' \in 0..MaxTime
    BY <2>1, LoopAssumption DEF WakeTime, Larger, Smaller, LoopInv, TypeOK, TimeTypes
  <2>3. /\ fire' \subseteq timers /\ timers' \subseteq timers
        /\ UNCHANGED <<dl, io, reg>> /\ pc = "dispatch"
    BY <1>8 DEF DispatchTimers, Idle, ioVars
  <2>4. TimeTypes'
    BY <2>2, <2>3 DEF LoopInv, TypeOK, TimeTypes
  <2>5. pc' \in {"poll", "code", "fire"} /\ cursor' \in Ctx /\ FlagTypes'
    <3>1. CASE LoopAgain
      BY <3>1, LoopAgainTypes DEF LoopInv
    <3>2. CASE pc' = "fire" /\ UNCHANGED <<cursor, ioDone, drain>>
      BY <3>2, Zenon DEF LoopInv, TypeOK, CtlTypes, FlagTypes
    <3>3. QED
      BY <1>8, <3>1, <3>2 DEF DispatchTimers
  <2>6. QED
    BY <1>4, <1>5, <2>3, <2>4, <2>5
<1>9. QED
  BY <1>3, <1>6, <1>7, <1>8

-----------------------------------------------------------------------------
(* Queues of coroutines. *)

LEMMA EmptyQueue == IsInjective(<<>>) /\ Range(<<>>) = {} /\ <<>> \in Seq(Id)
  BY DEF IsInjective, Range

LEMMA AppendQueue ==
  ASSUME NEW s \in Seq(Id), NEW t \in Id
  PROVE  /\ Append(s, t) \in Seq(Id)
         /\ Range(Append(s, t)) = Range(s) \cup {t}
         /\ IsInjective(s) /\ t \notin Range(s) => IsInjective(Append(s, t))
<1>1. PICK r : r = Append(s, t)
  OBVIOUS
<1>2. /\ r \in Seq(Id)
      /\ DOMAIN s = 1..Len(s)
      /\ DOMAIN r = 1..(Len(s) + 1)
      /\ \A i \in 1..Len(s) : r[i] = s[i]
      /\ r[Len(s) + 1] = t
      /\ Len(s) \in Nat
  BY <1>1
<1>3. Range(r) = Range(s) \cup {t}
  BY <1>2 DEF Range
<1>4. ASSUME IsInjective(s), t \notin Range(s)
      PROVE  IsInjective(r)
  BY <1>2, <1>4 DEF IsInjective, Range
<1>5. QED
  BY <1>1, <1>2, <1>3, <1>4

LEMMA ConcatQueue ==
  ASSUME NEW s \in Seq(Id), NEW w \in Seq(Id)
  PROVE  /\ s \o w \in Seq(Id)
         /\ Range(s \o w) = Range(s) \cup Range(w)
         /\ IsInjective(s) /\ IsInjective(w) /\ Range(s) \cap Range(w) = {}
               => IsInjective(s \o w)
<1>1. PICK r : r = s \o w
  OBVIOUS
<1>2. /\ r \in Seq(Id)
      /\ DOMAIN s = 1..Len(s)
      /\ DOMAIN w = 1..Len(w)
      /\ DOMAIN r = 1..(Len(s) + Len(w))
      /\ Len(s) \in Nat /\ Len(w) \in Nat
  BY <1>1
<1>3. \A i \in 1..Len(s) : r[i] = s[i]
  BY <1>1
<1>4. \A i \in 1..Len(w) : r[Len(s) + i] = w[i]
  BY <1>1, <1>2
<1>5. \A i \in DOMAIN r : i \in 1..Len(s) \/ \E k \in 1..Len(w) : i = Len(s) + k
  <2> SUFFICES ASSUME NEW i \in DOMAIN r, i \notin 1..Len(s)
               PROVE  \E k \in 1..Len(w) : i = Len(s) + k
    OBVIOUS
  <2>1. i - Len(s) \in 1..Len(w) /\ i = Len(s) + (i - Len(s))
    BY <1>2
  <2>2. QED
    BY <2>1
<1>6. \A k \in 1..Len(w) : Len(s) + k \in DOMAIN r
  BY <1>2
<1>7. \A i \in 1..Len(s) : i \in DOMAIN r
  BY <1>2
<1>8. Range(r) = Range(s) \cup Range(w)
  <2>1. ASSUME NEW x \in Range(r) PROVE x \in Range(s) \cup Range(w)
    <3>1. PICK i \in DOMAIN r : x = r[i]
      BY DEF Range
    <3>2. CASE i \in 1..Len(s)
      BY <1>2, <1>3, <3>1, <3>2 DEF Range
    <3>3. CASE \E k \in 1..Len(w) : i = Len(s) + k
      BY <1>2, <1>4, <3>1, <3>3 DEF Range
    <3>4. QED
      BY <1>5, <3>2, <3>3
  <2>2. ASSUME NEW x \in Range(s) PROVE x \in Range(r)
    BY <1>2, <1>3, <1>7 DEF Range
  <2>3. ASSUME NEW x \in Range(w) PROVE x \in Range(r)
    BY <1>2, <1>4, <1>6 DEF Range
  <2>4. QED
    BY <2>1, <2>2, <2>3
<1>9. ASSUME IsInjective(s), IsInjective(w), Range(s) \cap Range(w) = {}
      PROVE  IsInjective(r)
  <2> SUFFICES ASSUME NEW i \in DOMAIN r, NEW k \in DOMAIN r, r[i] = r[k]
               PROVE  i = k
    BY DEF IsInjective
  <2>1. CASE i \in 1..Len(s) /\ k \in 1..Len(s)
    BY <1>2, <1>3, <1>9, <2>1 DEF IsInjective
  <2>2. ASSUME NEW a \in 1..Len(s), NEW b \in DOMAIN r, b \notin 1..Len(s)
        PROVE  r[a] # r[b]
    <3>1. PICK c \in 1..Len(w) : b = Len(s) + c
      BY <1>5, <2>2
    <3>2. r[a] = s[a] /\ r[b] = w[c]
      BY <1>3, <1>4, <3>1
    <3>3. s[a] \in Range(s) /\ w[c] \in Range(w)
      BY <1>2 DEF Range
    <3>4. QED
      BY <1>9, <3>2, <3>3
  <2>3. i \in 1..Len(s) <=> k \in 1..Len(s)
    BY <2>2
  <2>4. CASE i \notin 1..Len(s) /\ k \notin 1..Len(s)
    <3>1. PICK a \in 1..Len(w) : i = Len(s) + a
      BY <1>5, <2>4
    <3>2. PICK b \in 1..Len(w) : k = Len(s) + b
      BY <1>5, <2>4
    <3>3. w[a] = w[b]
      BY <1>4, <3>1, <3>2
    <3>4. a = b
      BY <1>2, <1>9, <3>3 DEF IsInjective
    <3>5. QED
      BY <3>1, <3>2, <3>4
  <2>5. QED
    BY <2>1, <2>3, <2>4
<1>10. QED
  BY <1>1, <1>2, <1>8, <1>9

LEMMA TailQueue ==
  ASSUME NEW s \in Seq(Id), s # <<>>, IsInjective(s)
  PROVE  /\ Head(s) \in Range(s)
         /\ Head(s) \in Id
         /\ Tail(s) \in Seq(Id)
         /\ Range(Tail(s)) = Range(s) \ {Head(s)}
         /\ IsInjective(Tail(s))
<1>1. PICK r : r = Tail(s)
  OBVIOUS
<1>2. /\ r \in Seq(Id)
      /\ DOMAIN s = 1..Len(s)
      /\ DOMAIN r = 1..(Len(s) - 1)
      /\ Len(s) \in Nat \ {0}
      /\ Head(s) = s[1]
      /\ \A i \in 1..(Len(s) - 1) : r[i] = s[i + 1]
  BY <1>1
<1>3. Head(s) \in Range(s) /\ Head(s) \in Id
  BY <1>2 DEF Range
<1>4. ASSUME NEW x \in Range(r) PROVE x \in Range(s) \ {Head(s)}
  <2>1. PICK i \in 1..(Len(s) - 1) : x = s[i + 1]
    BY <1>2 DEF Range
  <2>2. i + 1 \in DOMAIN s /\ i + 1 # 1 /\ 1 \in DOMAIN s
    BY <1>2
  <2>3. QED
    BY <1>2, <2>1, <2>2 DEF Range, IsInjective
<1>5. ASSUME NEW x \in Range(s), x # Head(s) PROVE x \in Range(r)
  <2>1. PICK i \in DOMAIN s : x = s[i]
    BY DEF Range
  <2>2. i - 1 \in DOMAIN r /\ r[i - 1] = x
    BY <1>2, <1>5, <2>1
  <2>3. QED
    BY <2>2 DEF Range
<1>6. IsInjective(r)
  <2> SUFFICES ASSUME NEW i \in DOMAIN r, NEW k \in DOMAIN r, r[i] = r[k]
               PROVE  i = k
    BY DEF IsInjective
  <2>1. i + 1 \in DOMAIN s /\ k + 1 \in DOMAIN s /\ s[i + 1] = s[k + 1]
    BY <1>2
  <2>2. i + 1 = k + 1
    BY <2>1 DEF IsInjective
  <2>3. QED
    BY <1>2, <2>2
<1>7. QED
  BY <1>1, <1>2, <1>3, <1>4, <1>5, <1>6

-----------------------------------------------------------------------------
(* Steps that create a promise. *)

\* The arguments of a gather are promises that exist and plain values.
LEMMA GatherArgsKnown ==
  ASSUME TypeOK, NEW s \in GatherArgs
  PROVE  /\ s \in Seq(Ctx)
         /\ \A i \in DOMAIN s : s[i] # 0 => kind[s[i]] # "free"
<1>1. PICK n \in 0..GatherMax : s \in [1..n -> {0} \cup {q \in Id : kind[q] # "free"}]
  BY DEF GatherArgs
<1>2. n \in Nat
  BY <1>1, LoopAssumption
<1>3. s \in [1..n -> Ctx]
  BY <1>1, Numbers
<1>4. QED
  BY <1>1, <1>2, <1>3

\* An async call or a gather: a new coroutine at the end of the ready queue.
LEMMA TaskPreserves ==
  ASSUME LoopInv, PoolInv', NEW p \in Id, Spawn(p) \/ Gather(p)
  PROVE  LoopInv'
<1>1. /\ UserCode /\ Fresh(p)
      /\ \E k \in {"task", "gather"} : kind' = [kind EXCEPT ![p] = k]
      /\ tpc' = [tpc EXCEPT ![p] = "new"]
      /\ ready' = Append(ready, p)
      /\ UNCHANGED <<pst, val, waiters, arr, codeVars, ehVars, timeVars, ioVars,
                     current, ctlVars>>
  BY DEF Spawn, Gather
<1>2. PICK k \in {"task", "gather"} : kind' = [kind EXCEPT ![p] = k]
  BY <1>1
<1>3. kind[p] = "free" /\ pc = "code"
  BY <1>1 DEF Fresh, UserCode
<1>4. /\ items' \in [Id -> Seq(Ctx)]
      /\ \A q \in Id : \A i \in DOMAIN items'[q] :
            items'[q][i] # 0 => kind[items'[q][i]] # "free"
  <2>1. /\ items \in [Id -> Seq(Ctx)]
        /\ \A q \in Id : \A i \in DOMAIN items[q] :
              items[q][i] # 0 => kind[items[q][i]] # "free"
    BY DEF LoopInv, TypeOK, TaskTypes, Kinded
  <2>2. CASE items' = items
    BY <2>1, <2>2
  <2>3. CASE \E s \in GatherArgs : items' = [items EXCEPT ![p] = s]
    <3>1. PICK s \in GatherArgs : items' = [items EXCEPT ![p] = s]
      BY <2>3
    <3>2. s \in Seq(Ctx) /\ \A i \in DOMAIN s : s[i] # 0 => kind[s[i]] # "free"
      BY GatherArgsKnown DEF LoopInv
    <3>3. QED
      BY <2>1, <3>1, <3>2
  <2>4. QED
    BY <2>2, <2>3 DEF Spawn, Gather
<1>5. tpc[p] = "none" /\ eh[p] = <<>>
  BY <1>3, Numbers DEF LoopInv, Kinded, Tasks, ThrowStaysOnStack, TypeOK, TaskTypes
<1>6. PromTypes'
  BY <1>1, <1>2 DEF LoopInv, TypeOK, PromTypes
<1>7. TaskTypes'
  BY <1>1, <1>4 DEF LoopInv, TypeOK, TaskTypes
<1>8. CodeTypes' /\ TimeTypes'
  BY <1>1 DEF LoopInv, TypeOK, CodeTypes, TimeTypes, codeVars, ehVars, timeVars
<1>9. ready \in Seq(Id)
  BY DEF LoopInv, TypeOK, CtlTypes
<1>10. /\ ready' \in Seq(Id)
       /\ Range(ready') = Range(ready) \cup {p}
       /\ IsInjective(ready) /\ p \notin Range(ready) => IsInjective(ready')
  BY <1>1, <1>9, AppendQueue
<1>11. CtlTypes'
  BY <1>1, <1>10 DEF LoopInv, TypeOK, CtlTypes, ioVars, ctlVars
<1>12. FlagTypes'
  BY <1>1, Zenon DEF LoopInv, TypeOK, FlagTypes, ctlVars
<1>13. \A q \in Id : /\ tpc'[q] = IF q = p THEN "new" ELSE tpc[q]
                     /\ kind'[q] = IF q = p THEN k ELSE kind[q]
  BY <1>1, <1>2 DEF LoopInv, TypeOK, PromTypes, TaskTypes
<1>14. Control'
  BY <1>1, <1>3, <1>5, <1>13, Numbers
  DEF LoopInv, Control, TypeOK, CtlTypes, ehVars, ioVars, ctlVars
<1>15. Kinded'
  <2>1. Tasks' = Tasks \cup {p}
    BY <1>13 DEF Tasks
  <2>2. \A t \in Id : tpc'[t] # "none" <=> t \in Tasks'
    BY <1>13, <2>1 DEF LoopInv, Kinded
  <2>3. \A t \in Tasks' : pst'[t] # 0 <=> tpc'[t] = "done"
    BY <1>1, <1>3, <1>13, <2>1 DEF LoopInv, Kinded, Tasks
  <2>4. \A q \in Id : kind'[q] = "free" => pst'[q] = 0 /\ waiters'[q] = <<>>
    BY <1>1, <1>13 DEF LoopInv, Kinded
  <2>5. \A c \in Ctx : aw'[c] # 0 => kind'[aw'[c]] # "free"
    BY <1>1, <1>13, Numbers DEF LoopInv, Kinded, TypeOK, CodeTypes, codeVars
  <2>6. \A q \in Id : \A i \in DOMAIN items'[q] :
           items'[q][i] # 0 => kind'[items'[q][i]] # "free"
    <3> SUFFICES ASSUME NEW q \in Id, NEW i \in DOMAIN items'[q], items'[q][i] # 0
                 PROVE  kind'[items'[q][i]] # "free"
      OBVIOUS
    <3> DEFINE it == items'[q][i]
    <3>1. it \in Ctx /\ it # 0
      BY <1>4
    <3>2. it \in Id
      BY <3>1, Numbers
    <3>3. kind[it] # "free" /\ k # "free"
      BY <1>4
    <3> HIDE DEF it
    <3>4. kind'[it] # "free"
      BY <1>13, <3>2, <3>3
    <3>5. QED
      BY <3>4 DEF it
  <2>7. /\ \A q \in timers' \cup fire' : kind'[q] = "timer"
        /\ \A q \in io' : kind'[q] = "http"
        /\ reg' # 0 => kind'[reg'] = "http"
    BY <1>1, <1>3, <1>13, Numbers
    DEF LoopInv, Kinded, TypeOK, TimeTypes, CtlTypes, timeVars, ioVars
  <2>8. QED
    BY <2>2, <2>3, <2>4, <2>5, <2>6, <2>7 DEF Kinded
<1>16. ThrowStaysOnStack'
  BY <1>1, <1>5, <1>13 DEF LoopInv, ThrowStaysOnStack, ehVars
<1>17. p \notin Range(ready)
  BY <1>5 DEF LoopInv, Scheduling, ReadyCanRun
<1>18. Scheduling'
  <2>1. Range(ready) \subseteq Id
    BY <1>9 DEF Range
  <2>2. ReadyCanRun'
    BY <1>1, <1>10, <1>13, <1>17, <2>1
    DEF LoopInv, Scheduling, ReadyCanRun, codeVars
  <2>3. \A q \in Id : Range(waiters[q]) \subseteq Id
    BY DEF LoopInv, TypeOK, PromTypes, Range
  <2>4. WaitersAwait'
    BY <1>1, <1>5, <1>13, <2>3 DEF LoopInv, Scheduling, WaitersAwait, codeVars
  <2>5. NoLostTask'
    BY <1>1, <1>10, <1>13 DEF LoopInv, Scheduling, NoLostTask, codeVars
  <2>6. QED
    BY <2>2, <2>4, <2>5 DEF Scheduling
<1>19. QED
  BY <1>6, <1>7, <1>8, <1>11, <1>12, <1>14, <1>15, <1>16, <1>18
  DEF LoopInv, TypeOK, PoolInv

\* A sleep or a request: a promise that no coroutine settles.
LEMMA ExternalPreserves ==
  ASSUME LoopInv, PoolInv', NEW p \in Id,
         SleepAsync(p) \/ HttpBadArgs(p) \/ HttpSubmit(p)
  PROVE  LoopInv'
<1>1. /\ UserCode /\ Fresh(p)
      /\ \E k \in {"timer", "http"} : kind' = [kind EXCEPT ![p] = k]
      /\ UNCHANGED <<waiters, taskVars, codeVars, ehVars, ready, current,
                     cursor, ioDone, drain, io, fire, now>>
  BY Zenon DEF SleepAsync, HttpBadArgs, HttpSubmit, timeVars, ioVars, ctlVars
<1>2. PICK k \in {"timer", "http"} : kind' = [kind EXCEPT ![p] = k]
  BY <1>1
<1>3. kind[p] = "free" /\ pc = "code" /\ reg = 0
  BY <1>1 DEF Fresh, UserCode, LoopInv, Control
<1>4. \A q \in Id : kind'[q] = IF q = p THEN k ELSE kind[q]
  BY <1>2 DEF LoopInv, TypeOK, PromTypes
<1>5. tpc[p] = "none" /\ pst[p] = 0 /\ waiters[p] = <<>>
  BY <1>3 DEF LoopInv, Kinded, Tasks
<1>6. /\ pst' \in [Id -> 0..2] /\ val' \in [Id -> Value]
      /\ \A q \in Id : q # p => pst'[q] = pst[q]
  <2>1. pst \in [Id -> 0..2] /\ val \in [Id -> Value] /\ -p \in Value
    BY Numbers, IdValues DEF LoopInv, TypeOK, PromTypes
  <2>2. CASE UNCHANGED <<pst, val>>
    BY <2>1, <2>2
  <2>3. CASE pst' = [pst EXCEPT ![p] = 1] /\ val' = [val EXCEPT ![p] = -p]
    BY <2>1, <2>3
  <2>4. QED
    BY <2>2, <2>3 DEF SleepAsync, HttpBadArgs, HttpSubmit
<1>7. PromTypes'
  BY <1>1, <1>2, <1>6 DEF LoopInv, TypeOK, PromTypes
<1>8. TaskTypes' /\ CodeTypes'
  BY <1>1 DEF LoopInv, TypeOK, TaskTypes, CodeTypes, taskVars, codeVars, ehVars
<1>9. TimeTypes'
  <2>1. CASE UNCHANGED timeVars
    BY <2>1 DEF LoopInv, TypeOK, TimeTypes, timeVars
  <2>2. CASE SleepAsync(p)
    <3>1. PICK d \in Delays :
             now + Larger(d, 0) <= MaxTime
             /\ dl' = [dl EXCEPT ![p] = now + Larger(d, 0)]
      BY <2>2 DEF SleepAsync
    <3>2. now + Larger(d, 0) \in 0..MaxTime
      BY <3>1, LoopAssumption DEF Larger, LoopInv, TypeOK, TimeTypes
    <3>3. dl' \in [Id -> 0..MaxTime]
      BY <3>1, <3>2 DEF LoopInv, TypeOK, TimeTypes
    <3>4. QED
      BY <1>1, <2>2, <3>3 DEF SleepAsync, LoopInv, TypeOK, TimeTypes
  <2>3. QED
    BY <2>1, <2>2 DEF HttpBadArgs, HttpSubmit
<1>10. reg' \in {0, p} /\ pc' \in {"code", "register"} /\ (pc' = "register" <=> reg' # 0)
       /\ (reg' = p => k = "http")
  <2>1. CASE SleepAsync(p) \/ HttpBadArgs(p)
    BY <1>3, <2>1, Numbers DEF SleepAsync, HttpBadArgs, ioVars, ctlVars
  <2>2. CASE HttpSubmit(p)
    <3>1. kind' = [kind EXCEPT ![p] = "http"] /\ reg' = p /\ pc' = "register"
      BY <2>2 DEF HttpSubmit
    <3>2. k = "http"
      BY <1>4, <3>1 DEF LoopInv, TypeOK, PromTypes
    <3>3. QED
      BY <3>1, <3>2, Numbers
  <2>3. QED
    BY <2>1, <2>2
<1>11. CtlTypes'
  BY <1>1, <1>10, Numbers DEF LoopInv, TypeOK, CtlTypes
<1>12. FlagTypes'
  BY <1>1, Zenon DEF LoopInv, TypeOK, FlagTypes
<1>13. Control'
  BY <1>1, <1>10 DEF LoopInv, Control, ehVars, taskVars
<1>14. Kinded'
  <2>1. Tasks' = Tasks /\ p \notin Tasks
    BY <1>3, <1>4 DEF Tasks
  <2>2. \A t \in Id : tpc'[t] # "none" <=> t \in Tasks'
    BY <1>1, <2>1 DEF LoopInv, Kinded, taskVars
  <2>3. \A t \in Tasks' : pst'[t] # 0 <=> tpc'[t] = "done"
    BY <1>1, <1>6, <2>1 DEF LoopInv, Kinded, Tasks, taskVars
  <2>4. \A q \in Id : kind'[q] = "free" => pst'[q] = 0 /\ waiters'[q] = <<>>
    BY <1>1, <1>4, <1>6 DEF LoopInv, Kinded
  <2>5. \A c \in Ctx : aw'[c] # 0 => kind'[aw'[c]] # "free"
    BY <1>1, <1>4, Numbers DEF LoopInv, Kinded, TypeOK, CodeTypes, codeVars
  <2>6. \A q \in Id : \A i \in DOMAIN items'[q] :
           items'[q][i] # 0 => kind'[items'[q][i]] # "free"
    <3> SUFFICES ASSUME NEW q \in Id, NEW i \in DOMAIN items[q], items[q][i] # 0
                 PROVE  kind'[items[q][i]] # "free"
      BY <1>1 DEF taskVars
    <3>1. items[q][i] \in Ctx /\ kind[items[q][i]] # "free"
      BY DEF LoopInv, TypeOK, TaskTypes, Kinded
    <3>2. QED
      BY <1>4, <3>1, Numbers
  <2>7. \A q \in timers' \cup fire' : kind'[q] = "timer"
    <3>1. CASE UNCHANGED timers
      BY <1>1, <1>3, <1>4, <3>1 DEF LoopInv, Kinded, TypeOK, TimeTypes
    <3>2. CASE SleepAsync(p)
      <4>1. kind' = [kind EXCEPT ![p] = "timer"] /\ timers' = timers \cup {p}
        BY <3>2 DEF SleepAsync
      <4>2. QED
        BY <1>1, <1>3, <1>4, <4>1
        DEF LoopInv, Kinded, TypeOK, TimeTypes, PromTypes
    <3>3. QED
      BY <3>1, <3>2 DEF HttpBadArgs, HttpSubmit, timeVars
  <2>8. /\ \A q \in io' : kind'[q] = "http"
        /\ reg' # 0 => kind'[reg'] = "http"
    BY <1>1, <1>3, <1>4, <1>10 DEF LoopInv, Kinded, TypeOK, CtlTypes
  <2>9. QED
    BY <2>2, <2>3, <2>4, <2>5, <2>6, <2>7, <2>8 DEF Kinded
<1>15. ThrowStaysOnStack'
  BY <1>1 DEF LoopInv, ThrowStaysOnStack, ehVars, taskVars
<1>16. Scheduling'
  <2>1. \A t \in Id : aw[t] # p
    BY <1>3, Numbers DEF LoopInv, Kinded
  <2>2. Range(ready) \subseteq Id /\ \A t \in Id : aw[t] \in Id \cup {0}
    <3>1. ready \in Seq(Id)
      BY DEF LoopInv, TypeOK, CtlTypes
    <3>2. aw \in [Ctx -> Ctx]
      BY DEF LoopInv, TypeOK, CodeTypes
    <3>3. Range(ready) \subseteq Id
      BY <3>1 DEF Range
    <3>4. QED
      BY <3>2, <3>3, Numbers
  <2>3. \A t \in Id : tpc[t] = "susp" => aw[t] # 0
    BY DEF LoopInv, Scheduling, NoLostTask
  <2>4. \A t \in Id : tpc[t] = "susp" => pst'[aw[t]] = pst[aw[t]]
    BY <1>6, <2>1, <2>2, <2>3
  <2>5. ReadyCanRun'
    BY <1>1, <2>2, <2>4
    DEF LoopInv, Scheduling, ReadyCanRun, codeVars, taskVars
  <2>6. WaitersAwait'
    BY <1>1, <1>5, <1>6 DEF LoopInv, Scheduling, WaitersAwait, codeVars, taskVars
  <2>7. NoLostTask'
    BY <1>1, <2>4 DEF LoopInv, Scheduling, NoLostTask, codeVars, taskVars
  <2>8. QED
    BY <2>5, <2>6, <2>7 DEF Scheduling
<1>17. QED
  BY <1>7, <1>8, <1>9, <1>11, <1>12, <1>13, <1>14, <1>15, <1>16
  DEF LoopInv, TypeOK, PoolInv

-----------------------------------------------------------------------------
(* Steps of the code that runs. *)

\* The frames the running code may hold on its own stack.
OwnFrames(s) ==
    /\ ehCur # 0 => s # <<>>
    /\ \A i \in DOMAIN s : s[i].owner = ehCur
    /\ \A i \in DOMAIN s : s[i].root <=> (ehCur # 0 /\ i = 1)

\* A step of the running code that touches its own await and its own handler
\* stack and settles nothing.
LEMMA CodePreserves ==
  ASSUME LoopInv, PoolInv',
         UNCHANGED <<promVars, tpc, items, ehCur, prevEh, timeVars, ioVars, ready,
                     current, ioDone, drain>>,
         NEW q \in Ctx, q # 0 => kind[q] # "free", aw' = [aw EXCEPT ![current] = q],
         NEW s \in Seq(Frame), OwnFrames(s), eh' = [eh EXCEPT ![ehCur] = s],
         arr' \in [Id -> Seq(Value)], fuel' \in 0..MaxOps, cursor' \in Ctx,
         pc # "register", pc' \in {"code", "exit", "abort"},
         current # 0 => pc' = "code"
  PROVE  LoopInv'
<1>1. eh \in [Ctx -> Seq(Frame)] /\ ehCur \in Ctx /\ current = ehCur
      /\ aw \in [Ctx -> Ctx]
  BY DEF LoopInv, TypeOK, CodeTypes, ThrowStaysOnStack
<1>2. \A t \in Id : tpc[t] \in {"run", "susp"} <=> eh[t] # <<>>
  BY DEF LoopInv, ThrowStaysOnStack
<1>3. ehCur # 0 => tpc[ehCur] = "run"
  BY <1>1 DEF LoopInv, Control
<1>4. CodeTypes'
  BY <1>1 DEF LoopInv, TypeOK, CodeTypes
<1>5. PromTypes' /\ TaskTypes' /\ TimeTypes'
  BY DEF LoopInv, TypeOK, PromTypes, TaskTypes, TimeTypes, promVars, timeVars
<1>6. CtlTypes'
  BY DEF LoopInv, TypeOK, CtlTypes, ioVars
<1>7. FlagTypes'
  BY Zenon DEF LoopInv, TypeOK, FlagTypes
<1>8. Control'
  BY DEF LoopInv, Control, ioVars
<1>9. Kinded'
  <2>1. Tasks' = Tasks
    BY DEF Tasks, promVars
  <2>2. \A c \in Ctx : aw'[c] # 0 => kind'[aw'[c]] # "free"
    BY <1>1 DEF LoopInv, Kinded, promVars
  <2>3. QED
    BY <2>1, <2>2 DEF LoopInv, Kinded, promVars, timeVars, ioVars
<1>10. ThrowStaysOnStack'
  <2>1. \A c \in Ctx : eh'[c] = IF c = ehCur THEN s ELSE eh[c]
    BY <1>1
  <2>2. \A c \in Ctx : \A i \in DOMAIN eh'[c] :
           eh'[c][i].owner = c /\ (eh'[c][i].root <=> c # 0 /\ i = 1)
    BY <2>1 DEF LoopInv, ThrowStaysOnStack, OwnFrames
  <2>3. \A t \in Id : tpc'[t] \in {"run", "susp"} <=> eh'[t] # <<>>
    BY <1>2, <1>3, <2>1, Numbers DEF OwnFrames
  <2>4. ehCur' = current'
    BY <1>1
  <2>5. QED
    BY <2>2, <2>3, <2>4 DEF ThrowStaysOnStack
<1>11. Scheduling'
  <2>1. \A t \in Id : tpc[t] = "susp" => aw'[t] = aw[t]
    BY <1>1, <1>3, Numbers
  <2>2. UNCHANGED <<pst, waiters, tpc, ready, current>>
    BY DEF promVars
  <2>3. Range(ready) \subseteq Id /\ \A p \in Id : Range(waiters[p]) \subseteq Id
    BY DEF LoopInv, TypeOK, PromTypes, CtlTypes, Range
  <2>4. ReadyCanRun'
    BY <2>1, <2>2, <2>3 DEF LoopInv, Scheduling, ReadyCanRun
  <2>5. WaitersAwait'
    BY <2>1, <2>2, <2>3 DEF LoopInv, Scheduling, WaitersAwait
  <2>6. NoLostTask'
    BY <2>1, <2>2 DEF LoopInv, Scheduling, NoLostTask
  <2>7. QED
    BY <2>4, <2>5, <2>6 DEF Scheduling
<1>12. QED
  BY <1>4, <1>5, <1>6, <1>7, <1>8, <1>9, <1>10, <1>11 DEF LoopInv, TypeOK, PoolInv

\* What the running code's own stack looks like.
LEMMA OwnStack ==
  ASSUME LoopInv
  PROVE  /\ eh \in [Ctx -> Seq(Frame)] /\ ehCur \in Ctx /\ current = ehCur
         /\ eh[ehCur] \in Seq(Frame)
         /\ OwnFrames(eh[ehCur])
         /\ eh = [eh EXCEPT ![ehCur] = eh[ehCur]]
         /\ aw = [aw EXCEPT ![current] = aw[current]]
         /\ current # 0 => current \in Id /\ tpc[current] = "run"
<1>1. /\ eh \in [Ctx -> Seq(Frame)] /\ ehCur \in Ctx /\ current = ehCur
      /\ eh[ehCur] \in Seq(Frame) /\ aw \in [Ctx -> Ctx]
  BY DEF LoopInv, TypeOK, CodeTypes, ThrowStaysOnStack
<1>2. ehCur # 0 => ehCur \in Id /\ tpc[ehCur] = "run" /\ eh[ehCur] # <<>>
  BY <1>1, Numbers DEF LoopInv, Control, ThrowStaysOnStack
<1>3. \A i \in DOMAIN eh[ehCur] : eh[ehCur][i].owner = ehCur
  BY <1>1 DEF LoopInv, ThrowStaysOnStack
<1>4. \A i \in DOMAIN eh[ehCur] : eh[ehCur][i].root <=> (ehCur # 0 /\ i = 1)
  BY <1>1 DEF LoopInv, ThrowStaysOnStack
<1>5. OwnFrames(eh[ehCur])
  BY <1>2, <1>3, <1>4 DEF OwnFrames
<1>6. QED
  BY <1>1, <1>2, <1>5

\* Leaving a try, and a throw to it, keep the frames below.
LEMMA PopOwn ==
  ASSUME LoopInv, eh[ehCur] # <<>>, ~Top(eh[ehCur]).root
  PROVE  Pop(eh[ehCur]) \in Seq(Frame) /\ OwnFrames(Pop(eh[ehCur]))
<1>1. eh[ehCur] \in Seq(Frame) /\ OwnFrames(eh[ehCur])
  BY OwnStack
<1>2. PICK s : s = Pop(eh[ehCur])
  OBVIOUS
<1>3. /\ s \in Seq(Frame) /\ Len(s) = Len(eh[ehCur]) - 1
      /\ DOMAIN s = 1..(Len(eh[ehCur]) - 1)
      /\ DOMAIN eh[ehCur] = 1..Len(eh[ehCur])
      /\ \A i \in 1..(Len(eh[ehCur]) - 1) : s[i] = eh[ehCur][i]
      /\ Len(eh[ehCur]) \in Nat \ {0}
  BY <1>1, <1>2 DEF Pop
<1>4. ehCur # 0 => Len(eh[ehCur]) # 1
  BY <1>1, <1>3 DEF Top, OwnFrames
<1>5. ehCur # 0 => s # <<>>
  <2>1. ASSUME ehCur # 0 PROVE Len(s) # 0
    BY <1>3, <1>4, <2>1
  <2>2. Len(<<>>) = 0
    OBVIOUS
  <2>3. QED
    BY <2>1, <2>2, Zenon
<1>6. \A i \in DOMAIN s : i \in DOMAIN eh[ehCur] /\ s[i] = eh[ehCur][i]
  BY <1>3
<1>7. \A i \in DOMAIN s : s[i].owner = ehCur
  BY <1>1, <1>6, Zenon DEF OwnFrames
<1>8. \A i \in DOMAIN s : s[i].root <=> (ehCur # 0 /\ i = 1)
  BY <1>1, <1>6, Zenon DEF OwnFrames
<1>9. QED
  BY <1>2, <1>3, <1>5, <1>7, <1>8 DEF OwnFrames

\* Entering a try adds a frame that is not a root.
LEMMA PushOwn ==
  ASSUME LoopInv, NEW f \in Frame, f.owner = ehCur, ~f.root
  PROVE  Append(eh[ehCur], f) \in Seq(Frame) /\ OwnFrames(Append(eh[ehCur], f))
<1>1. eh[ehCur] \in Seq(Frame) /\ OwnFrames(eh[ehCur])
  BY OwnStack
<1>2. PICK s : s = Append(eh[ehCur], f)
  OBVIOUS
<1>3. /\ s \in Seq(Frame) /\ Len(s) = Len(eh[ehCur]) + 1
      /\ DOMAIN s = 1..(Len(eh[ehCur]) + 1)
      /\ DOMAIN eh[ehCur] = 1..Len(eh[ehCur])
      /\ \A i \in 1..Len(eh[ehCur]) : s[i] = eh[ehCur][i]
      /\ s[Len(eh[ehCur]) + 1] = f
      /\ Len(eh[ehCur]) \in Nat
  BY <1>1, <1>2
<1>4. ehCur # 0 => Len(eh[ehCur]) + 1 # 1
  BY <1>1, <1>3 DEF OwnFrames
<1>5. s # <<>>
  BY <1>3
<1>6. \A i \in DOMAIN s : i \in 1..Len(eh[ehCur]) \/ i = Len(eh[ehCur]) + 1
  BY <1>3
<1>7. \A i \in DOMAIN s : s[i].owner = ehCur
  BY <1>1, <1>3, <1>6 DEF OwnFrames
<1>8. \A i \in DOMAIN s : s[i].root <=> (ehCur # 0 /\ i = 1)
  <2>1. ASSUME NEW i \in 1..Len(eh[ehCur])
        PROVE  s[i].root <=> (ehCur # 0 /\ i = 1)
    <3>1. s[i] = eh[ehCur][i] /\ i \in DOMAIN eh[ehCur]
      BY <1>3
    <3>2. QED
      BY <1>1, <3>1, Zenon DEF OwnFrames
  <2>2. ~ s[Len(eh[ehCur]) + 1].root
    BY <1>3, Zenon
  <2>3. ~ (ehCur # 0 /\ Len(eh[ehCur]) + 1 = 1)
    BY <1>4
  <2>4. ASSUME NEW i \in DOMAIN s, i = Len(eh[ehCur]) + 1
        PROVE  s[i].root <=> (ehCur # 0 /\ i = 1)
    BY <2>2, <2>3, <2>4, Zenon
  <2>5. QED
    BY <1>6, <2>1, <2>4, Zenon
<1>9. QED
  BY <1>2, <1>3, <1>5, <1>7, <1>8 DEF OwnFrames

\* Entering or leaving a try pushes or pops a frame of the running stack.
LEMMA TryPreserves ==
  ASSUME LoopInv, PoolInv', TryEnter \/ TryLeave
  PROVE  LoopInv'
<1>1. /\ UNCHANGED <<promVars, taskVars, aw, ehCur, prevEh, timeVars, ioVars, ready,
                     current, ctlVars>>
      /\ pc = "code"
  BY Zenon DEF TryEnter, TryLeave, UserCode, codeVars
<1>2. PICK s \in Seq(Frame) : OwnFrames(s) /\ eh' = [eh EXCEPT ![ehCur] = s]
  <2>1. CASE TryEnter
    <3> DEFINE f == [owner |-> current, root |-> FALSE]
    <3>1. f \in Frame /\ f.owner = ehCur /\ ~f.root
      BY OwnStack DEF Frame
    <3>2. PICK g \in Frame : g = f
      BY <3>1
    <3>3. Append(eh[ehCur], g) \in Seq(Frame) /\ OwnFrames(Append(eh[ehCur], g))
      <4>1. g.owner = ehCur
        BY <3>1, <3>2
      <4>2. ~g.root
        BY <3>1, <3>2, Zenon
      <4>3. QED
        BY <4>1, <4>2, PushOwn
    <3>4. eh' = [eh EXCEPT ![ehCur] = Append(eh[ehCur], g)]
      BY <2>1, <3>2 DEF TryEnter
    <3>5. QED
      BY <3>3, <3>4, Zenon
  <2>2. CASE TryLeave
    <3>1. eh[ehCur] # <<>> /\ ~Top(eh[ehCur]).root
          /\ eh' = [eh EXCEPT ![ehCur] = Pop(eh[ehCur])]
      BY <2>2 DEF TryLeave
    <3>2. QED
      BY <3>1, PopOwn, Zenon
  <2>3. QED
    BY <2>1, <2>2
<1>3. fuel' \in 0..MaxOps
  BY LoopAssumption DEF TryEnter, TryLeave, codeVars, LoopInv, TypeOK, CodeTypes
<1>4. /\ aw[current] \in Ctx /\ (aw[current] # 0 => kind[aw[current]] # "free")
      /\ aw' = [aw EXCEPT ![current] = aw[current]]
  BY <1>1, OwnStack DEF LoopInv, TypeOK, CodeTypes, Kinded
<1>5. arr' \in [Id -> Seq(Value)] /\ cursor' \in Ctx /\ pc' = "code"
  BY <1>1 DEF LoopInv, TypeOK, TaskTypes, CtlTypes, taskVars, ctlVars
<1>6. UNCHANGED <<promVars, tpc, items, ehCur, prevEh, timeVars, ioVars, ready,
                  current, ioDone, drain>>
  BY <1>1 DEF taskVars, ctlVars
<1>7. QED
  BY <1>1, <1>2, <1>3, <1>4, <1>5, <1>6, CodePreserves

\* Awaiting: entering an await, returning from one, and a main await that gives
\* up because nothing is left to run.
LEMMA AwaitPreserves ==
  ASSUME LoopInv, PoolInv',
         (\E p \in Id : Await(p)) \/ AwaitReturn \/ GatherNext \/ DispatchNothing
  PROVE  LoopInv'
<1>1. UNCHANGED <<promVars, tpc, items, ehVars, timeVars, ioVars, ready, current,
                  ioDone, drain>>
  BY Zenon DEF Await, AwaitReturn, GatherNext, DispatchNothing, taskVars, ctlVars
<1>2. UNCHANGED <<ehCur, prevEh>>
      /\ eh[ehCur] \in Seq(Frame) /\ OwnFrames(eh[ehCur])
      /\ eh' = [eh EXCEPT ![ehCur] = eh[ehCur]]
      /\ current \in Ctx
  BY <1>1, OwnStack DEF ehVars
<1>3. /\ fuel \in 0..MaxOps /\ MaxOps \in Nat
      /\ arr \in [Id -> Seq(Value)] /\ cursor \in Ctx
      /\ val \in [Id -> Value] /\ items \in [Id -> Seq(Ctx)]
      /\ aw \in [Ctx -> Ctx]
      /\ 0 \in Value /\ 0 \in Ctx
  <2>1. 0 \in Ctx /\ 0 \in Value
    BY Numbers, IdValues
  <2>2. MaxOps \in Nat
    BY LoopAssumption
  <2>3. fuel \in 0..MaxOps /\ aw \in [Ctx -> Ctx] /\ cursor \in Ctx
    BY DEF LoopInv, TypeOK, CodeTypes, CtlTypes
  <2>4. val \in [Id -> Value] /\ arr \in [Id -> Seq(Value)] /\ items \in [Id -> Seq(Ctx)]
    BY DEF LoopInv, TypeOK, PromTypes, TaskTypes
  <2>5. QED
    BY <2>1, <2>2, <2>3, <2>4
<1>4. ASSUME NEW q \in Ctx, q # 0 => kind[q] # "free", aw' = [aw EXCEPT ![current] = q],
             arr' \in [Id -> Seq(Value)], fuel' \in 0..MaxOps, cursor' \in Ctx,
             pc # "register", pc' \in {"code", "exit"}, current # 0 => pc' = "code"
      PROVE  LoopInv'
  BY <1>1, <1>2, <1>4, CodePreserves
<1>5. ASSUME NEW p \in Id, Await(p) PROVE LoopInv'
  <2>1. /\ fuel > 0 /\ kind[p] # "free" /\ aw' = [aw EXCEPT ![current] = p]
        /\ fuel' = fuel - 1 /\ pc = "code"
        /\ UNCHANGED <<arr, cursor, pc>>
    BY <1>5 DEF Await, UserCode, taskVars, ctlVars
  <2>2. fuel' \in 0..MaxOps
    BY <1>3, <2>1
  <2>3. QED
    BY <1>3, <1>4, <2>1, <2>2, Numbers
<1>6. CASE AwaitReturn
  <2>1. /\ aw' = [aw EXCEPT ![current] = 0] /\ UNCHANGED <<fuel, cursor, pc>>
        /\ pc = "code" /\ aw[current] # 0
    BY <1>6 DEF AwaitReturn, Awaiting, ctlVars
  <2>2. val[aw[current]] \in Value
    BY <1>2, <1>3, <2>1, Numbers
  <2>3. \/ arr' = arr
        \/ current \in Id /\ arr' = [arr EXCEPT ![current] = Append(arr[current], val[aw[current]])]
    BY <1>2, <1>6, Numbers DEF AwaitReturn
  <2>4. arr' \in [Id -> Seq(Value)]
    <3>1. CASE arr' = arr
      BY <1>3, <3>1
    <3>2. CASE arr' # arr
      <4>1. current \in Id /\ arr[current] \in Seq(Value)
        BY <1>3, <2>3, <3>2
      <4>2. PICK v \in Value : v = val[aw[current]]
        BY <2>2
      <4>3. PICK s \in Seq(Value) : s = Append(arr[current], v)
        <5>1. Append(arr[current], v) \in Seq(Value)
          BY <4>1
        <5>2. QED
          BY <5>1
      <4>4. arr' = [arr EXCEPT ![current] = s]
        BY <2>3, <3>2, <4>2, <4>3
      <4>5. QED
        BY <1>3, <4>4
    <3>3. QED
      BY <3>1, <3>2
  <2>5. QED
    BY <1>3, <1>4, <2>1, <2>4
<1>7. CASE GatherNext
  <2>1. PICK i : i = items[current][Len(arr[current]) + 1]
    OBVIOUS
  <2>2. /\ pc = "code" /\ current \in Id /\ aw[current] = 0
        /\ Len(arr[current]) < Len(items[current])
        /\ \/ /\ i = 0 /\ UNCHANGED aw
              /\ arr' = [arr EXCEPT ![current] = Append(arr[current], 0)]
           \/ /\ i # 0 /\ UNCHANGED arr
              /\ aw' = [aw EXCEPT ![current] = i]
        /\ UNCHANGED <<fuel, cursor, pc>>
    BY <1>2, <1>7, <2>1, Numbers DEF GatherNext, GatherCode, ctlVars
  <2>3. arr[current] \in Seq(Value) /\ items[current] \in Seq(Ctx)
    BY <1>3, <2>2
  <2>4. Len(arr[current]) + 1 \in DOMAIN items[current]
    BY <2>2, <2>3
  <2>5. i \in Ctx
    BY <2>1, <2>3, <2>4
  <2>6. i # 0 => kind[i] # "free"
    BY <2>1, <2>2, <2>4 DEF LoopInv, Kinded
  <2>7. CASE i = 0
    <3>1. PICK s \in Seq(Value) : s = Append(arr[current], 0)
      <4>1. 0 \in Value
        BY <1>3
      <4>2. Append(arr[current], 0) \in Seq(Value)
        BY <2>3, <4>1
      <4>3. QED
        BY <4>2
    <3>2. arr' \in [Id -> Seq(Value)]
      BY <1>3, <2>2, <2>7, <3>1
    <3>3. aw' = [aw EXCEPT ![current] = 0]
      BY <1>2, <1>3, <2>2, <2>7
    <3>4. QED
      BY <1>3, <1>4, <2>2, <3>2, <3>3
  <2>8. CASE i # 0
    BY <1>3, <1>4, <2>2, <2>5, <2>6, <2>8
  <2>9. QED
    BY <2>7, <2>8
<1>8. CASE DispatchNothing
  <2>1. /\ pc = "dispatch" /\ pc' \in {"code", "exit"} /\ aw' = [aw EXCEPT ![0] = 0]
        /\ cursor' = 0 /\ UNCHANGED <<arr, fuel>>
    BY <1>8 DEF DispatchNothing, Idle, taskVars
  <2>2. current = 0
    BY <2>1 DEF LoopInv, Control
  <2>3. QED
    BY <1>3, <1>4, <2>1, <2>2
<1>9. QED
  BY <1>5, <1>6, <1>7, <1>8

-----------------------------------------------------------------------------
(* Steps that settle a promise. *)

\* The first settle of p queues exactly its waiters; a later one does nothing.
LEMMA SettleQueues ==
  ASSUME LoopInv, NEW p \in Id, NEW v, NEW s \in {1, 2}, Settle(p, v, s)
  PROVE  /\ \A q \in Id : q # p => pst'[q] = pst[q] /\ waiters'[q] = waiters[q]
         /\ pst'[p] # 0 /\ waiters'[p] = <<>>
         /\ Range(ready') = Range(ready) \cup Range(waiters[p])
         /\ IsInjective(ready')
         /\ \A t \in Range(waiters[p]) : t \in Id /\ tpc[t] = "susp" /\ aw[t] = p
<1>1. /\ pst \in [Id -> 0..2] /\ waiters \in [Id -> Seq(Id)] /\ ready \in Seq(Id)
  BY DEF LoopInv, TypeOK, PromTypes, CtlTypes
<1>2. \A t \in Range(waiters[p]) : t \in Id /\ tpc[t] = "susp" /\ aw[t] = p
  BY <1>1 DEF LoopInv, Scheduling, WaitersAwait, Range
<1>3. /\ IsInjective(ready) /\ IsInjective(waiters[p])
      /\ pst[p] # 0 => waiters[p] = <<>>
      /\ \A t \in Range(ready) : tpc[t] = "new" \/ (tpc[t] = "susp" /\ pst[aw[t]] # 0)
  BY DEF LoopInv, Scheduling, WaitersAwait, ReadyCanRun
<1>4. CASE pst[p] # 0
  <2>1. UNCHANGED <<pst, ready, waiters>>
    BY <1>4 DEF Settle
  <2>2. Range(waiters[p]) = {}
    BY <1>3, <1>4, EmptyQueue
  <2>3. QED
    BY <1>2, <1>3, <1>4, <2>1, <2>2
<1>5. CASE pst[p] = 0
  <2>1. /\ pst' = [pst EXCEPT ![p] = s]
        /\ waiters' = [waiters EXCEPT ![p] = <<>>]
        /\ ready' = ready \o waiters[p]
    BY <1>5 DEF Settle
  <2>2. Range(ready) \cap Range(waiters[p]) = {}
    BY <1>2, <1>3, <1>5
  <2>3. Range(ready') = Range(ready) \cup Range(waiters[p]) /\ IsInjective(ready')
    BY <1>1, <1>3, <2>1, <2>2, ConcatQueue
  <2>4. QED
    BY <1>1, <1>2, <2>1, <2>3
<1>6. QED
  BY <1>1, <1>4, <1>5

\* Settling keeps every coroutine where it can be woken, whatever becomes of
\* the one that runs.
LEMMA SettleScheduling ==
  ASSUME LoopInv, NEW p \in Id, NEW v, NEW s \in {1, 2}, Settle(p, v, s),
         \A t \in Id : tpc'[t] = "susp" <=> tpc[t] = "susp",
         \A t \in Id : tpc'[t] = "new" <=> tpc[t] = "new",
         \A t \in Id : tpc'[t] = "run" => current' = t,
         \A t \in Id : tpc[t] = "susp" => aw'[t] = aw[t]
  PROVE  Scheduling'
<1>1. /\ \A q \in Id : q # p => pst'[q] = pst[q] /\ waiters'[q] = waiters[q]
      /\ pst'[p] # 0 /\ waiters'[p] = <<>>
      /\ Range(ready') = Range(ready) \cup Range(waiters[p])
      /\ IsInjective(ready')
      /\ \A t \in Range(waiters[p]) : t \in Id /\ tpc[t] = "susp" /\ aw[t] = p
  BY SettleQueues
<1>2. /\ Range(ready) \subseteq Id /\ \A q \in Id : Range(waiters[q]) \subseteq Id
      /\ aw \in [Ctx -> Ctx]
  BY DEF LoopInv, TypeOK, PromTypes, CtlTypes, CodeTypes, Range
<1>3. \A t \in Id : tpc[t] = "susp" => aw[t] \in Id
  BY <1>2, Numbers DEF LoopInv, Scheduling, NoLostTask
<1>4. ReadyCanRun'
  <2>1. ASSUME NEW t \in Range(ready)
        PROVE  tpc'[t] = "new" \/ (tpc'[t] = "susp" /\ pst'[aw'[t]] # 0)
    <3>1. t \in Id /\ (tpc[t] = "new" \/ (tpc[t] = "susp" /\ pst[aw[t]] # 0))
      BY <1>2, <2>1 DEF LoopInv, Scheduling, ReadyCanRun
    <3>2. QED
      BY <1>1, <1>3, <3>1
  <2>2. ASSUME NEW t \in Range(waiters[p])
        PROVE  tpc'[t] = "susp" /\ pst'[aw'[t]] # 0
    BY <1>1
  <2>3. QED
    BY <1>1, <2>1, <2>2 DEF ReadyCanRun
<1>5. WaitersAwait'
  <2>1. ASSUME NEW q \in Id, q # p
        PROVE  /\ IsInjective(waiters'[q])
               /\ \A t \in Range(waiters'[q]) : tpc'[t] = "susp" /\ aw'[t] = q
               /\ pst'[q] # 0 => waiters'[q] = <<>>
    BY <1>1, <1>2, <2>1 DEF LoopInv, Scheduling, WaitersAwait
  <2>2. /\ IsInjective(waiters'[p])
        /\ Range(waiters'[p]) = {}
    BY <1>1, EmptyQueue
  <2>3. QED
    BY <1>1, <2>1, <2>2 DEF WaitersAwait
<1>6. NoLostTask'
  <2>1. ASSUME NEW t \in Id, tpc[t] = "susp"
        PROVE  /\ aw'[t] # 0
               /\ t \in IF pst'[aw'[t]] = 0 THEN Range(waiters'[aw'[t]]) ELSE Range(ready')
    <3>1. /\ aw'[t] = aw[t] /\ aw[t] \in Id /\ aw[t] # 0
          /\ t \in IF pst[aw[t]] = 0 THEN Range(waiters[aw[t]]) ELSE Range(ready)
      BY <1>3, <2>1 DEF LoopInv, Scheduling, NoLostTask
    <3>2. CASE aw[t] = p
      BY <1>1, <3>1, <3>2
    <3>3. CASE aw[t] # p
      BY <1>1, <3>1, <3>3
    <3>4. QED
      BY <3>2, <3>3
  <2>2. ASSUME NEW t \in Id, tpc[t] = "new" PROVE t \in Range(ready')
    BY <1>1, <2>2 DEF LoopInv, Scheduling, NoLostTask
  <2>3. QED
    BY <2>1, <2>2 DEF NoLostTask
<1>7. QED
  BY <1>4, <1>5, <1>6 DEF Scheduling

\* The running coroutine t ends: its promise is settled, its handlers are freed
\* and the loop has the control again.
LEMMA FinishPreserves ==
  ASSUME LoopInv, PoolInv', pc = "code", current # 0,
         NEW t \in Id, t = current, NEW v \in Value, NEW s \in {1, 2}, Finish(t, v, s),
         aw' = [aw EXCEPT ![current] = 0],
         UNCHANGED <<kind, items, arr, fuel, timeVars, ioVars>>
  PROVE  LoopInv'
<1>1. /\ Settle(t, v, s)
      /\ tpc' = [tpc EXCEPT ![t] = "done"]
      /\ eh' = [eh EXCEPT ![t] = <<>>]
      /\ ehCur' = prevEh /\ current' = 0 /\ UNCHANGED prevEh /\ LoopAgain
  BY DEF Finish, EndSlice
<1>2. /\ tpc \in [Id -> {"none", "new", "run", "susp", "done"}]
      /\ eh \in [Ctx -> Seq(Frame)] /\ aw \in [Ctx -> Ctx]
      /\ current \in Ctx /\ prevEh = 0 /\ reg = 0 /\ tpc[t] = "run" /\ t \in Ctx
      /\ pst \in [Id -> 0..2]
  BY Numbers DEF LoopInv, TypeOK, TaskTypes, CodeTypes, CtlTypes, PromTypes, Control
<1>3. pst[t] = 0 /\ t \in Tasks
  BY <1>2 DEF LoopInv, Kinded
<1>4. /\ pst' \in [Id -> 0..2] /\ val' \in [Id -> Value]
      /\ ready' \in Seq(Id) /\ waiters' \in [Id -> Seq(Id)]
  BY <1>1, SettleTypes DEF LoopInv
<1>5. /\ \A q \in Id : q # t => pst'[q] = pst[q] /\ waiters'[q] = waiters[q]
      /\ pst'[t] # 0
  BY <1>1, SettleQueues
<1>6. PromTypes' /\ TaskTypes'
  BY <1>1, <1>2, <1>4 DEF LoopInv, TypeOK, PromTypes, TaskTypes
<1>7. CodeTypes'
  <2>1. <<>> \in Seq(Frame)
    OBVIOUS
  <2>2. QED
    BY <1>1, <1>2, <2>1, Numbers DEF LoopInv, TypeOK, CodeTypes
<1>8. TimeTypes'
  BY DEF LoopInv, TypeOK, TimeTypes, timeVars
<1>9. pc' \in {"poll", "code"} /\ cursor' \in Ctx /\ FlagTypes'
  BY <1>1, LoopAgainTypes DEF LoopInv
<1>10. CtlTypes'
  BY <1>1, <1>4, <1>9, Numbers DEF LoopInv, TypeOK, CtlTypes, ioVars
<1>11. Control'
  BY <1>1, <1>2, <1>9 DEF Control, ioVars
<1>12. Kinded'
  <2>1. Tasks' = Tasks
    BY DEF Tasks
  <2>2. \A q \in Id : tpc'[q] # "none" <=> q \in Tasks'
    BY <1>1, <1>2, <1>3, <2>1 DEF LoopInv, Kinded
  <2>3. \A q \in Tasks' : pst'[q] # 0 <=> tpc'[q] = "done"
    BY <1>1, <1>2, <1>5, <2>1 DEF LoopInv, Kinded, Tasks
  <2>4. \A q \in Id : kind'[q] = "free" => pst'[q] = 0 /\ waiters'[q] = <<>>
    BY <1>3, <1>5 DEF LoopInv, Kinded, Tasks
  <2>5. \A c \in Ctx : aw'[c] # 0 => kind'[aw'[c]] # "free"
    BY <1>2 DEF LoopInv, Kinded
  <2>6. QED
    BY <2>2, <2>3, <2>4, <2>5 DEF LoopInv, Kinded, timeVars, ioVars
<1>13. ThrowStaysOnStack'
  <2>1. \A c \in Ctx : eh'[c] = IF c = t THEN <<>> ELSE eh[c]
    BY <1>1, <1>2
  <2>2. DOMAIN <<>> = {}
    OBVIOUS
  <2>3. \A c \in Ctx : \A i \in DOMAIN eh'[c] :
           eh'[c][i].owner = c /\ (eh'[c][i].root <=> c # 0 /\ i = 1)
    <3> SUFFICES ASSUME NEW c \in Ctx, NEW i \in DOMAIN eh'[c]
                 PROVE  eh'[c][i].owner = c /\ (eh'[c][i].root <=> c # 0 /\ i = 1)
      OBVIOUS
    <3>1. c # t /\ eh'[c] = eh[c] /\ i \in DOMAIN eh[c]
      BY <2>1, <2>2
    <3>2. eh[c][i].owner = c /\ (eh[c][i].root <=> c # 0 /\ i = 1)
      BY <3>1 DEF LoopInv, ThrowStaysOnStack
    <3>3. QED
      BY <3>1, <3>2, Zenon
  <2>4. \A q \in Id : tpc'[q] \in {"run", "susp"} <=> eh'[q] # <<>>
    BY <1>1, <1>2, <2>1, Numbers DEF LoopInv, ThrowStaysOnStack
  <2>5. ehCur' = current'
    BY <1>1, <1>2
  <2>6. QED
    BY <2>3, <2>4, <2>5 DEF ThrowStaysOnStack
<1>14. Scheduling'
  <2>1. \A q \in Id : tpc[q] = "run" => q = t
    BY DEF LoopInv, Scheduling, NoLostTask
  <2>2. /\ \A q \in Id : tpc'[q] = "susp" <=> tpc[q] = "susp"
        /\ \A q \in Id : tpc'[q] = "new" <=> tpc[q] = "new"
        /\ \A q \in Id : tpc'[q] = "run" => current' = q
        /\ \A q \in Id : tpc[q] = "susp" => aw'[q] = aw[q]
    BY <1>1, <1>2, <2>1, Numbers
  <2>3. QED
    BY <1>1, <2>2, SettleScheduling
<1>15. QED
  BY <1>6, <1>7, <1>8, <1>9, <1>10, <1>11, <1>12, <1>13, <1>14
  DEF LoopInv, TypeOK, PoolInv

\* A throw of the running code.
LEMMA ThrowPreserves ==
  ASSUME LoopInv, PoolInv', pc = "code", NEW v \in Value, Throw(v),
         aw' = [aw EXCEPT ![current] = 0],
         UNCHANGED <<kind, items, arr, fuel, timeVars, ioVars>>
  PROVE  LoopInv'
<1>1. /\ eh \in [Ctx -> Seq(Frame)] /\ ehCur \in Ctx /\ current = ehCur
      /\ eh[ehCur] \in Seq(Frame)
      /\ OwnFrames(eh[ehCur])
      /\ eh = [eh EXCEPT ![ehCur] = eh[ehCur]]
      /\ current # 0 => current \in Id
  BY OwnStack
<1>2. fuel \in 0..MaxOps /\ arr \in [Id -> Seq(Value)] /\ cursor \in Ctx /\ 0 \in Ctx
  BY Numbers DEF LoopInv, TypeOK, CodeTypes, TaskTypes, CtlTypes
<1>3. CASE eh[ehCur] = <<>>
  <2>1. /\ pc' = "abort"
        /\ UNCHANGED <<pst, val, ready, waiters, tpc, ehVars, current,
                       cursor, ioDone, drain>>
    BY <1>3, Zenon DEF Throw
  <2>2. current = 0
    BY <1>1, <1>3 DEF OwnFrames
  <2>3. eh' = [eh EXCEPT ![ehCur] = eh[ehCur]] /\ UNCHANGED <<ehCur, prevEh>>
    BY <1>1, <2>1 DEF ehVars
  <2>4. UNCHANGED promVars
    BY <2>1 DEF promVars
  <2>5. QED
    BY <1>1, <1>2, <2>1, <2>2, <2>3, <2>4, CodePreserves
<1>4. CASE eh[ehCur] # <<>> /\ ~Top(eh[ehCur]).root
  <2>1. /\ eh' = [eh EXCEPT ![ehCur] = Pop(eh[ehCur])]
        /\ UNCHANGED <<pst, val, ready, waiters, tpc, ehCur, prevEh, current, ctlVars>>
    BY <1>4, Zenon DEF Throw
  <2>2. Pop(eh[ehCur]) \in Seq(Frame) /\ OwnFrames(Pop(eh[ehCur]))
    BY <1>4, PopOwn
  <2>3. PICK s \in Seq(Frame) : s = Pop(eh[ehCur]) /\ OwnFrames(s)
    BY <2>2
  <2>4. eh' = [eh EXCEPT ![ehCur] = s]
    BY <2>1, <2>3, Zenon
  <2>5. UNCHANGED <<promVars, cursor, ioDone, drain, pc>>
    BY <2>1 DEF promVars, ctlVars
  <2>6. arr' \in [Id -> Seq(Value)] /\ fuel' \in 0..MaxOps /\ cursor' \in Ctx
    BY <1>2, <2>5
  <2>7. QED
    BY <1>2, <2>1, <2>3, <2>4, <2>5, <2>6, CodePreserves
<1>5. CASE eh[ehCur] # <<>> /\ Top(eh[ehCur]).root
  <2>1. Finish(Top(eh[ehCur]).owner, v, 2)
    BY <1>5, Zenon DEF Throw
  <2>2. Len(eh[ehCur]) \in DOMAIN eh[ehCur]
    BY <1>1, <1>5
  <2>3. Top(eh[ehCur]).owner = ehCur
    BY <1>1, <2>2 DEF OwnFrames, Top
  <2>4. ehCur # 0
    BY <1>1, <1>5, <2>2, Zenon DEF OwnFrames, Top
  <2>5. QED
    BY <1>1, <2>1, <2>3, <2>4, FinishPreserves
<1>6. QED
  BY <1>3, <1>4, <1>5, Zenon

\* The ends of a coroutine and the throws.
LEMMA EndPreserves ==
  ASSUME LoopInv, PoolInv', UserThrow \/ TaskReturn \/ AwaitThrow \/ GatherReturn
  PROVE  LoopInv'
<1>1. /\ current \in Ctx /\ (current # 0 => current \in Id)
      /\ aw \in [Ctx -> Ctx] /\ val \in [Id -> Value]
      /\ aw = [aw EXCEPT ![current] = aw[current]]
  BY OwnStack DEF LoopInv, TypeOK, CodeTypes, PromTypes, CtlTypes
<1>2. current \in Value
  BY <1>1, IdValues
<1>3. CASE UserThrow
  <2>1. /\ Throw(current) /\ pc = "code" /\ aw[current] = 0
        /\ UNCHANGED <<kind, items, arr, codeVars, timeVars, ioVars>>
    BY <1>3 DEF UserThrow, UserCode
  <2>2. aw' = [aw EXCEPT ![current] = 0] /\ UNCHANGED fuel
    BY <1>1, <2>1 DEF codeVars
  <2>3. QED
    BY <1>2, <2>1, <2>2, ThrowPreserves
<1>4. CASE TaskReturn \/ GatherReturn
  <2>1. /\ Finish(current, current, 1) /\ pc = "code" /\ aw[current] = 0
        /\ current # 0
        /\ UNCHANGED <<kind, items, arr, codeVars, timeVars, ioVars>>
    BY <1>4 DEF TaskReturn, GatherReturn, UserCode, GatherCode
  <2>2. aw' = [aw EXCEPT ![current] = 0] /\ UNCHANGED fuel
    BY <1>1, <2>1 DEF codeVars
  <2>3. QED
    BY <1>1, <1>2, <2>1, <2>2, FinishPreserves
<1>5. CASE AwaitThrow
  <2>1. /\ Throw(val[aw[current]]) /\ pc = "code" /\ aw[current] # 0
        /\ aw' = [aw EXCEPT ![current] = 0]
        /\ UNCHANGED <<kind, items, arr, fuel, timeVars, ioVars>>
    BY <1>5 DEF AwaitThrow, Awaiting
  <2>2. val[aw[current]] \in Value
    BY <1>1, <2>1, Numbers
  <2>3. QED
    BY <2>1, <2>2, ThrowPreserves
<1>6. QED
  BY <1>3, <1>4, <1>5

\* A pending await suspends the coroutine on the promise's waiter list.
LEMMA YieldPreserves ==
  ASSUME LoopInv, PoolInv', AwaitYield
  PROVE  LoopInv'
<1> DEFINE t == current
           p == aw[current]
<1>1. /\ pc = "code" /\ t # 0 /\ p # 0 /\ pst[p] = 0
      /\ waiters' = [waiters EXCEPT ![p] = Append(waiters[p], t)]
      /\ tpc' = [tpc EXCEPT ![t] = "susp"]
      /\ ehCur' = prevEh /\ current' = 0 /\ UNCHANGED prevEh /\ LoopAgain
      /\ UNCHANGED <<kind, pst, val, items, arr, codeVars, eh, timeVars, ioVars, ready>>
  BY DEF AwaitYield, Awaiting, EndSlice
<1>2. /\ t \in Id /\ p \in Id /\ tpc[t] = "run" /\ t \in Ctx
      /\ tpc \in [Id -> {"none", "new", "run", "susp", "done"}]
      /\ waiters \in [Id -> Seq(Id)] /\ ready \in Seq(Id)
      /\ prevEh = 0 /\ reg = 0 /\ waiters[p] \in Seq(Id)
  BY <1>1, Numbers
  DEF LoopInv, TypeOK, TaskTypes, CodeTypes, CtlTypes, PromTypes, Control
<1>3. \A q \in Id : \A u \in Range(waiters[q]) : tpc[u] = "susp" /\ aw[u] = q
  BY DEF LoopInv, Scheduling, WaitersAwait
<1>4. t \notin Range(waiters[p]) /\ IsInjective(waiters[p])
  BY <1>2, <1>3 DEF LoopInv, Scheduling, WaitersAwait
<1>5. PICK w \in Seq(Id) : w = Append(waiters[p], t)
  BY <1>2, AppendQueue
<1>6. Range(w) = Range(waiters[p]) \cup {t} /\ IsInjective(w)
  BY <1>2, <1>4, <1>5, AppendQueue
<1>7. waiters' = [waiters EXCEPT ![p] = w]
  BY <1>1, <1>5
<1>8. PromTypes' /\ TaskTypes'
  <2>1. waiters' \in [Id -> Seq(Id)]
    BY <1>2, <1>5, <1>7
  <2>2. tpc' \in [Id -> {"none", "new", "run", "susp", "done"}]
    BY <1>1, <1>2
  <2>3. QED
    BY <1>1, <2>1, <2>2 DEF LoopInv, TypeOK, PromTypes, TaskTypes
<1>9. CodeTypes' /\ TimeTypes'
  BY <1>1, <1>2, Numbers
  DEF LoopInv, TypeOK, CodeTypes, TimeTypes, codeVars, timeVars
<1>10. pc' \in {"poll", "code"} /\ cursor' \in Ctx /\ FlagTypes'
  BY <1>1, LoopAgainTypes DEF LoopInv
<1>11. CtlTypes'
  BY <1>1, <1>10, Numbers DEF LoopInv, TypeOK, CtlTypes, ioVars
<1>12. Control'
  BY <1>1, <1>2, <1>10 DEF Control, ioVars
<1>13. Kinded'
  <2>1. Tasks' = Tasks
    BY <1>1 DEF Tasks
  <2>2. t \in Tasks
    BY <1>2 DEF LoopInv, Kinded
  <2>3. \A q \in Id : tpc'[q] # "none" <=> q \in Tasks'
    BY <1>1, <1>2, <2>1, <2>2 DEF LoopInv, Kinded
  <2>4. \A q \in Tasks' : pst'[q] # 0 <=> tpc'[q] = "done"
    BY <1>1, <1>2, <2>1 DEF LoopInv, Kinded, Tasks
  <2>5. kind[p] # "free"
    BY <1>1, <1>2, Numbers DEF LoopInv, Kinded
  <2>6. \A q \in Id : kind'[q] = "free" => pst'[q] = 0 /\ waiters'[q] = <<>>
    BY <1>1, <1>2, <1>7, <2>5 DEF LoopInv, Kinded
  <2>7. QED
    BY <1>1, <2>3, <2>4, <2>6 DEF LoopInv, Kinded, timeVars, ioVars, codeVars
<1>14. ThrowStaysOnStack'
  BY <1>1, <1>2 DEF LoopInv, ThrowStaysOnStack
<1>15. Scheduling'
  <2>1. UNCHANGED <<aw, pst, ready>>
    BY <1>1 DEF codeVars
  <2>2. \A q \in Id : tpc'[q] = IF q = t THEN "susp" ELSE tpc[q]
    BY <1>1, <1>2
  <2>3. \A q \in Id : waiters'[q] = IF q = p THEN w ELSE waiters[q]
    BY <1>2, <1>7
  <2>4. Range(ready) \subseteq Id /\ \A q \in Id : Range(waiters[q]) \subseteq Id
    BY <1>2 DEF Range
  <2>5. t \notin Range(ready)
    BY <1>2 DEF LoopInv, Scheduling, ReadyCanRun
  <2>6. ReadyCanRun'
    BY <2>1, <2>2, <2>4, <2>5 DEF LoopInv, Scheduling, ReadyCanRun
  <2>7. WaitersAwait'
    <3>1. ASSUME NEW q \in Id, q # p
          PROVE  /\ IsInjective(waiters'[q])
                 /\ \A u \in Range(waiters'[q]) : tpc'[u] = "susp" /\ aw'[u] = q
                 /\ pst'[q] # 0 => waiters'[q] = <<>>
      BY <1>3, <2>1, <2>2, <2>3, <2>4, <3>1 DEF LoopInv, Scheduling, WaitersAwait
    <3>2. \A u \in Range(w) : tpc'[u] = "susp" /\ aw'[u] = p
      BY <1>3, <1>6, <1>2, <2>1, <2>2, <2>4
    <3>3. QED
      BY <1>1, <1>6, <2>1, <2>3, <3>1, <3>2 DEF WaitersAwait
  <2>8. NoLostTask'
    <3>1. \A q \in Id : tpc[q] = "run" => q = t
      BY DEF LoopInv, Scheduling, NoLostTask
    <3>2. ASSUME NEW q \in Id, tpc[q] = "susp"
          PROVE  /\ aw'[q] # 0
                 /\ q \in IF pst'[aw'[q]] = 0
                          THEN Range(waiters'[aw'[q]]) ELSE Range(ready')
      <4>1. /\ aw[q] \in Ctx /\ aw[q] # 0
            /\ q \in IF pst[aw[q]] = 0 THEN Range(waiters[aw[q]]) ELSE Range(ready)
        BY <3>2, Numbers DEF LoopInv, TypeOK, CodeTypes, Scheduling, NoLostTask
      <4>2. QED
        BY <1>6, <2>1, <2>3, <4>1, Numbers
    <3>3. t \in Range(waiters'[p])
      BY <1>2, <1>6, <2>3
    <3>4. QED
      BY <1>1, <1>2, <2>1, <2>2, <3>1, <3>2, <3>3
      DEF NoLostTask, LoopInv, Scheduling
  <2>9. QED
    BY <2>6, <2>7, <2>8 DEF Scheduling
<1>16. QED
  BY <1>8, <1>9, <1>10, <1>11, <1>12, <1>13, <1>14, <1>15
  DEF LoopInv, TypeOK, PoolInv

\* The coroutine at the head of the ready queue gets the control.
LEMMA ResumePreserves ==
  ASSUME LoopInv, PoolInv', Resume
  PROVE  LoopInv'
<1>1. PICK t : t = Head(ready)
  OBVIOUS
<1>2. /\ pc = "dispatch" /\ ready # <<>> /\ pc' = "code"
      /\ current' = t /\ prevEh' = ehCur /\ ehCur' = t
      /\ eh' = IF tpc[t] = "new"
               THEN [eh EXCEPT ![t] = <<[owner |-> t, root |-> TRUE]>>]
               ELSE eh
      /\ tpc' = [tpc EXCEPT ![t] = "run"]
      /\ ready' = Tail(ready)
      /\ UNCHANGED <<promVars, items, arr, codeVars, timeVars, ioVars, cursor,
                     ioDone, drain>>
  BY <1>1 DEF Resume
<1>3. /\ ready \in Seq(Id) /\ IsInjective(ready)
      /\ eh \in [Ctx -> Seq(Frame)]
      /\ tpc \in [Id -> {"none", "new", "run", "susp", "done"}]
      /\ current = 0 /\ ehCur = 0 /\ reg = 0
  BY <1>2
  DEF LoopInv, TypeOK, CtlTypes, CodeTypes, TaskTypes, Control, Scheduling,
      ReadyCanRun, ThrowStaysOnStack
<1>4. /\ t \in Range(ready) /\ t \in Id
      /\ ready' \in Seq(Id)
      /\ Range(ready') = Range(ready) \ {t}
      /\ IsInjective(ready')
  BY <1>1, <1>2, <1>3, TailQueue
<1>5. /\ tpc[t] = "new" \/ (tpc[t] = "susp" /\ pst[aw[t]] # 0)
      /\ t \in Ctx /\ t # 0
  BY <1>4, Numbers DEF LoopInv, Scheduling, ReadyCanRun
<1>6. \A q \in Id : tpc[q] # "run"
  BY <1>3, Numbers DEF LoopInv, Scheduling, NoLostTask
<1>7. PICK f : f = <<[owner |-> t, root |-> TRUE]>>
  OBVIOUS
<1>8. f \in Seq(Frame) /\ f # <<>> /\ DOMAIN f = {1} /\ f[1].owner = t
  <2>1. PICK g \in Frame : g = [owner |-> t, root |-> TRUE]
    BY <1>5 DEF Frame
  <2>2. f = <<g>>
    BY <1>7, <2>1
  <2>3. f \in Seq(Frame) /\ f # <<>> /\ DOMAIN f = {1} /\ f[1] = g
    BY <2>2
  <2>4. g.owner = t
    BY <2>1
  <2>5. QED
    BY <2>3, <2>4
<1>9. f[1].root
  <2> DEFINE g == [owner |-> t, root |-> TRUE]
  <2>1. g.root
    OBVIOUS
  <2>2. f[1] = g
    BY <1>7
  <2>3. QED
    BY <2>1, <2>2, Zenon
<1>10. eh' = IF tpc[t] = "new" THEN [eh EXCEPT ![t] = f] ELSE eh
  BY <1>2, <1>7
<1>11. PromTypes' /\ TaskTypes' /\ TimeTypes'
  BY <1>2, <1>3, <1>4
  DEF LoopInv, TypeOK, PromTypes, TaskTypes, TimeTypes, promVars, timeVars
<1>12. CodeTypes'
  BY <1>2, <1>3, <1>5, <1>8, <1>10 DEF LoopInv, TypeOK, CodeTypes, codeVars
<1>13. CtlTypes'
  BY <1>2, <1>4, <1>5 DEF LoopInv, TypeOK, CtlTypes, ioVars
<1>14. FlagTypes'
  BY <1>2, Zenon DEF LoopInv, TypeOK, FlagTypes
<1>15. Control'
  BY <1>2, <1>3, <1>4 DEF Control, ioVars
<1>16. Kinded'
  <2>1. UNCHANGED <<kind, pst, waiters, items, aw, timers, fire, io, reg>>
    BY <1>2 DEF promVars, codeVars, timeVars, ioVars
  <2>2. Tasks' = Tasks
    BY <2>1 DEF Tasks
  <2>3. \A q \in Id : tpc'[q] = IF q = t THEN "run" ELSE tpc[q]
    BY <1>2, <1>3
  <2>4. \A q \in Id : tpc'[q] # "none" <=> q \in Tasks'
    BY <1>5, <2>2, <2>3 DEF LoopInv, Kinded
  <2>5. \A q \in Tasks' : pst'[q] # 0 <=> tpc'[q] = "done"
    BY <1>5, <2>1, <2>2, <2>3 DEF LoopInv, Kinded, Tasks
  <2>6. QED
    BY <2>1, <2>2, <2>4, <2>5 DEF LoopInv, Kinded
<1>17. ThrowStaysOnStack'
  <2>1. \A c \in Ctx : eh'[c] = eh[c] \/ (c = t /\ eh'[c] = f)
    BY <1>3, <1>10
  <2>2. \A i \in DOMAIN f : f[i].owner = t
    BY <1>8
  <2>3. \A i \in DOMAIN f : f[i].root <=> t # 0 /\ i = 1
    BY <1>5, <1>8, <1>9, Zenon
  <2>4. ASSUME NEW c \in Ctx
        PROVE  \A i \in DOMAIN eh'[c] :
                  eh'[c][i].owner = c /\ (eh'[c][i].root <=> c # 0 /\ i = 1)
    <3>1. CASE eh'[c] = eh[c]
      BY <3>1 DEF LoopInv, ThrowStaysOnStack
    <3>2. CASE c = t /\ eh'[c] = f
      BY <2>2, <2>3, <3>2, Zenon
    <3>3. QED
      BY <2>1, <3>1, <3>2
  <2>5. ASSUME NEW q \in Id
        PROVE  tpc'[q] \in {"run", "susp"} <=> eh'[q] # <<>>
    <3>1. tpc[q] \in {"run", "susp"} <=> eh[q] # <<>>
      BY DEF LoopInv, ThrowStaysOnStack
    <3>2. CASE q = t
      BY <1>2, <1>3, <1>5, <1>8, <1>10, <3>1, <3>2
    <3>3. CASE q # t
      BY <1>2, <1>3, <1>10, <3>1, <3>3, Numbers
    <3>4. QED
      BY <3>2, <3>3
  <2>6. ehCur' = current'
    BY <1>2
  <2>7. QED
    BY <2>4, <2>5, <2>6 DEF ThrowStaysOnStack
<1>18. Scheduling'
  <2>1. UNCHANGED <<aw, pst, waiters>>
    BY <1>2 DEF codeVars, promVars
  <2>2. \A q \in Id : tpc'[q] = IF q = t THEN "run" ELSE tpc[q]
    BY <1>2, <1>3
  <2>3. /\ Range(ready) \subseteq Id /\ \A q \in Id : Range(waiters[q]) \subseteq Id
    BY <1>3 DEF LoopInv, TypeOK, PromTypes, Range
  <2>4. ReadyCanRun'
    BY <1>4, <2>1, <2>2, <2>3 DEF LoopInv, Scheduling, ReadyCanRun
  <2>5. \A q \in Id : t \notin Range(waiters[q])
    BY <1>5 DEF LoopInv, Scheduling, WaitersAwait, Range
  <2>6. WaitersAwait'
    BY <2>1, <2>2, <2>3, <2>5 DEF LoopInv, Scheduling, WaitersAwait
  <2>7. NoLostTask'
    BY <1>2, <1>4, <1>6, <2>1, <2>2 DEF LoopInv, Scheduling, NoLostTask
  <2>8. QED
    BY <2>4, <2>6, <2>7 DEF Scheduling
<1>19. QED
  BY <1>11, <1>12, <1>13, <1>14, <1>15, <1>16, <1>17, <1>18
  DEF LoopInv, TypeOK, PoolInv

\* A timer fires, or a finished request answers: a promise no coroutine
\* produces is settled by the loop.
LEMMA SourcePreserves ==
  ASSUME LoopInv, PoolInv', current = 0, reg = 0, reg' = 0,
         NEW p \in Id, p \notin Tasks, kind[p] # "free",
         NEW v \in Value, NEW s \in {1, 2}, Settle(p, v, s),
         UNCHANGED <<kind, taskVars, codeVars, ehVars, timers, dl, now, current>>,
         fire' \subseteq fire, io' \subseteq io,
         pc' \in {"code", "poll", "fire"}, cursor' \in Ctx, FlagTypes'
  PROVE  LoopInv'
<1>1. /\ pst' \in [Id -> 0..2] /\ val' \in [Id -> Value]
      /\ ready' \in Seq(Id) /\ waiters' \in [Id -> Seq(Id)]
  BY SettleTypes DEF LoopInv
<1>2. /\ \A q \in Id : q # p => pst'[q] = pst[q] /\ waiters'[q] = waiters[q]
      /\ pst'[p] # 0 /\ waiters'[p] = <<>>
  BY SettleQueues
<1>3. PromTypes' /\ TaskTypes'
  BY <1>1 DEF LoopInv, TypeOK, PromTypes, TaskTypes, taskVars
<1>4. CodeTypes' /\ TimeTypes'
  BY DEF LoopInv, TypeOK, CodeTypes, TimeTypes, codeVars, ehVars
<1>5. CtlTypes'
  BY <1>1, Numbers DEF LoopInv, TypeOK, CtlTypes
<1>6. Control'
  BY DEF LoopInv, Control, ehVars
<1>7. Kinded'
  <2>1. Tasks' = Tasks
    BY DEF Tasks
  <2>2. UNCHANGED <<tpc, items, aw>>
    BY DEF taskVars, codeVars
  <2>3. \A q \in Tasks' : pst'[q] # 0 <=> tpc'[q] = "done"
    BY <1>2, <2>1, <2>2 DEF LoopInv, Kinded, Tasks
  <2>4. \A q \in Id : kind'[q] = "free" => pst'[q] = 0 /\ waiters'[q] = <<>>
    BY <1>2 DEF LoopInv, Kinded
  <2>5. /\ \A q \in timers' \cup fire' : kind'[q] = "timer"
        /\ \A q \in io' : kind'[q] = "http"
    BY DEF LoopInv, Kinded
  <2>6. QED
    BY <2>1, <2>2, <2>3, <2>4, <2>5 DEF LoopInv, Kinded
<1>8. ThrowStaysOnStack'
  BY DEF LoopInv, ThrowStaysOnStack, ehVars, taskVars
<1>9. Scheduling'
  <2>1. /\ \A t \in Id : tpc'[t] = "susp" <=> tpc[t] = "susp"
        /\ \A t \in Id : tpc'[t] = "new" <=> tpc[t] = "new"
        /\ \A t \in Id : tpc'[t] = "run" => current' = t
        /\ \A t \in Id : tpc[t] = "susp" => aw'[t] = aw[t]
    BY DEF LoopInv, Scheduling, NoLostTask, taskVars, codeVars
  <2>2. QED
    BY <2>1, SettleScheduling
<1>10. QED
  BY <1>3, <1>4, <1>5, <1>6, <1>7, <1>8, <1>9 DEF LoopInv, TypeOK, PoolInv

LEMMA FirePreserves ==
  ASSUME LoopInv, PoolInv', FireTimer \/ \E p \in Id : PollFinished(p)
  PROVE  LoopInv'
<1>1. CASE FireTimer
  <2>1. PICK p \in fire : Settle(p, 0, 1) /\ fire' = fire \ {p}
    BY <1>1 DEF FireTimer
  <2>2. /\ pc = "fire" /\ (LoopAgain \/ UNCHANGED ctlVars)
        /\ UNCHANGED <<kind, taskVars, codeVars, ehVars, timers, dl, now, ioVars, current>>
    BY <1>1 DEF FireTimer
  <2>3. p \in Id /\ kind[p] = "timer"
    BY DEF LoopInv, TypeOK, TimeTypes, Kinded
  <2>4. p \notin Tasks /\ kind[p] # "free"
    BY <2>3 DEF Tasks
  <2>5. current = 0 /\ reg = 0 /\ UNCHANGED <<io, reg>>
    BY <2>2 DEF LoopInv, Control, ioVars
  <2>6. pc' \in {"code", "poll", "fire"} /\ cursor' \in Ctx /\ FlagTypes'
    <3>1. CASE LoopAgain
      BY <3>1, LoopAgainTypes DEF LoopInv
    <3>2. CASE UNCHANGED ctlVars
      <4>1. pc' = "fire" /\ cursor' \in Ctx
        BY <2>2, <3>2 DEF ctlVars, LoopInv, TypeOK, CtlTypes
      <4>2. FlagTypes'
        BY <3>2, Zenon DEF ctlVars, LoopInv, TypeOK, FlagTypes
      <4>3. QED
        BY <4>1, <4>2
    <3>3. QED
      BY <2>2, <3>1, <3>2
  <2>7. 0 \in Value
    BY Numbers, IdValues
  <2>8. QED
    BY <2>1, <2>2, <2>3, <2>4, <2>5, <2>6, <2>7, SourcePreserves
<1>2. ASSUME NEW p \in Id, PollFinished(p) PROVE LoopInv'
  <2>1. PICK v : v = IF outcome[p] = "ok" THEN p ELSE -p
    OBVIOUS
  <2>2. /\ pc = "poll" /\ p \in io /\ Settle(p, v, 1)
        /\ io' = io \ {p} /\ ioDone' = TRUE /\ cursor' = p
        /\ UNCHANGED <<kind, taskVars, codeVars, ehVars, timeVars, reg, current, pc, drain>>
    BY <1>2, <2>1, Zenon DEF PollFinished, NextSource
  <2>3. v \in Value /\ p \in Ctx
    BY <2>1, Numbers, IdValues
  <2>4. p \notin Tasks /\ kind[p] # "free"
    BY <2>2 DEF LoopInv, Kinded, Tasks
  <2>5. current = 0 /\ reg = 0 /\ reg' = 0 /\ pc' = "poll"
    BY <2>2 DEF LoopInv, Control
  <2>6. UNCHANGED <<timers, dl, now, fire>>
    BY <2>2 DEF timeVars
  <2>7. FlagTypes'
    BY <2>2, Zenon DEF LoopInv, TypeOK, FlagTypes
  <2>8. QED
    BY <2>2, <2>3, <2>4, <2>5, <2>6, <2>7, SourcePreserves
<1>3. QED
  BY <1>1, <1>2

-----------------------------------------------------------------------------
(* The theorems. *)

\* Every step of the process preserves the inductive invariant.
LEMMA LoopInvNext == LoopInv /\ [Next]_vars => LoopInv'
<1> SUFFICES ASSUME LoopInv, [Next]_vars
             PROVE  LoopInv'
  OBVIOUS
<1>1. PoolInv'
  BY PoolStep, PoolInvNext DEF LoopInv
<1>2. CASE UserStep
  BY <1>1, <1>2, TaskPreserves, ExternalPreserves, AwaitPreserves, TryPreserves,
     EndPreserves, IdlePreserves DEF UserStep
<1>3. CASE LoopStep
  BY <1>1, <1>3, IdlePreserves, YieldPreserves, AwaitPreserves, EndPreserves,
     FirePreserves, ResumePreserves DEF LoopStep
<1>4. CASE (\E w \in Workers : WorkerStep(w)) \/ Tick \/ UNCHANGED vars
  BY <1>1, <1>4, OutsidePreserves
<1>5. QED
  BY <1>2, <1>3, <1>4 DEF Next, Gone

LEMMA LoopInvariant == Spec => []LoopInv
  BY LoopInvInit, LoopInvNext, PTL DEF Spec

\* The scheduler of tulpar_async.cpp loses no coroutine and wakes none twice,
\* whatever the program: each one that can go on is queued exactly once, each
\* one that cannot is on exactly the waiter list of what it awaits.
THEOREM LoopSchedules == Spec => []Scheduling
<1>1. LoopInv => Scheduling
  BY DEF LoopInv
<1>2. QED
  BY <1>1, LoopInvariant, PTL

\* The context swap of resume() keeps every throw on the stack it was thrown
\* on, and every coroutine's rejection frame at the bottom of its own stack.
THEOREM LoopThrowsStay == Spec => [](TypeOK /\ ThrowStaysOnStack)
<1>1. LoopInv => TypeOK /\ ThrowStaysOnStack
  BY DEF LoopInv
<1>2. QED
  BY <1>1, LoopInvariant, PTL

\* The whole state stays typed, time in its bounds and every handler frame owned
\* by a stack that exists.
THEOREM LoopTypes == Spec => []TypeOK
<1>1. LoopInv => TypeOK
  BY DEF LoopInv
<1>2. QED
  BY <1>1, LoopInvariant, PTL

-----------------------------------------------------------------------------
(* The refinement of Futures. *)

Runnable == Range(ready) \cup ({current} \ {0})
Blocked == [p \in Id |-> Range(waiters[p])]

\* The future of a promise in two cases.
LEMMA AbsStatus ==
  /\ absStatus = [p \in Id |-> absStatus[p]]
  /\ \A p \in Id :
        /\ kind[p] = "free" => absStatus[p] = "none"
        /\ kind[p] # "free" /\ pst[p] = 0 => absStatus[p] = "pending"
  BY DEF absStatus

\* Whatever leaves the promises, the queue and the control alone is no step.
LEMMA FutStutter ==
  ASSUME UNCHANGED <<promVars, Runnable>>
  PROVE  UNCHANGED Fut!futVars
<1>1. UNCHANGED <<kind, pst, val, waiters>>
  BY DEF promVars
<1>2. UNCHANGED <<absStatus, Tasks>> /\ [p \in Id |-> Range(waiters[p])]' = [p \in Id |-> Range(waiters[p])]
  BY <1>1 DEF absStatus, Tasks
<1>3. QED
  BY <1>1, <1>2 DEF Fut!futVars, Runnable

\* aot_promise_settle of a pending promise settles its future.
LEMMA FutSettles ==
  ASSUME LoopInv, NEW p \in Id, NEW v \in Value, NEW s \in {1, 2}, Settle(p, v, s),
         kind[p] # "free", pst[p] = 0, UNCHANGED kind,
         p \in Tasks => p \in Runnable,
         Runnable' = (Runnable \ {p}) \cup Range(waiters[p])
  PROVE  Fut!Settle(p)
<1>1. /\ pst' = [pst EXCEPT ![p] = s] /\ val' = [val EXCEPT ![p] = v]
      /\ waiters' = [waiters EXCEPT ![p] = <<>>]
  BY DEF Settle
<1>2. pst \in [Id -> 0..2] /\ waiters \in [Id -> Seq(Id)]
  BY DEF LoopInv, TypeOK, PromTypes
<1>3. absStatus[p] = "pending"
  BY AbsStatus
<1>4. \E t \in Fut!Settled : absStatus' = [absStatus EXCEPT ![p] = t]
  <2>1. \A q \in Id : pst'[q] = IF q = p THEN s ELSE pst[q]
    BY <1>1, <1>2
  <2>2. absStatus' = [q \in Id |-> IF q = p THEN (IF s = 1 THEN "fulfilled" ELSE "rejected")
                                  ELSE absStatus[q]]
    BY <2>1 DEF absStatus
  <2>3. QED
    BY <2>2 DEF Fut!Settled, absStatus
<1>5. Blocked' = [Blocked EXCEPT ![p] = {}]
  BY <1>1, <1>2, EmptyQueue DEF Blocked
<1>6. Tasks' = Tasks
  BY DEF Tasks
<1>7. QED
  BY <1>1, <1>3, <1>4, <1>5, <1>6 DEF Fut!Settle, Runnable, Blocked

\* A promise created pending.
LEMMA FutCreated ==
  ASSUME LoopInv, NEW p \in Id, NEW k \in {"task", "gather", "timer", "http"},
         kind[p] = "free", kind' = [kind EXCEPT ![p] = k], UNCHANGED pst
  PROVE  /\ absStatus[p] = "none" /\ absStatus' = [absStatus EXCEPT ![p] = "pending"]
         /\ Tasks' = IF k \in {"task", "gather"} THEN Tasks \cup {p} ELSE Tasks
<1>1. kind \in [Id -> {"free", "task", "gather", "timer", "http"}] /\ pst[p] = 0
  BY DEF LoopInv, TypeOK, PromTypes, Kinded
<1>2. \A q \in Id : kind'[q] = IF q = p THEN k ELSE kind[q]
  BY <1>1
<1>3. absStatus' = [q \in Id |-> IF q = p THEN "pending" ELSE absStatus[q]]
  BY <1>1, <1>2 DEF absStatus
<1>4. Tasks' = IF k \in {"task", "gather"} THEN Tasks \cup {p} ELSE Tasks
  BY <1>2 DEF Tasks
<1>5. absStatus[p] = "none"
  BY AbsStatus
<1>6. absStatus' = [absStatus EXCEPT ![p] = "pending"]
  BY <1>3, AbsStatus
<1>7. QED
  BY <1>4, <1>5, <1>6

\* The steps of user code.
LEMMA UserRefines ==
  ASSUME LoopInv, UserStep, ~TaskReturn, ~UserThrow
  PROVE  [Fut!FutNext]_(Fut!futVars)
<1>1. CASE \E p \in Id : Spawn(p) \/ Gather(p)
  <2>1. PICK p \in Id : Spawn(p) \/ Gather(p)
    BY <1>1
  <2>2. PICK k \in {"task", "gather"} :
           /\ kind[p] = "free" /\ kind' = [kind EXCEPT ![p] = k]
           /\ ready' = Append(ready, p)
           /\ UNCHANGED <<pst, val, waiters, current>>
    BY <2>1 DEF Spawn, Gather, Fresh
  <2>3. /\ absStatus[p] = "none" /\ absStatus' = [absStatus EXCEPT ![p] = "pending"]
        /\ Tasks' = Tasks \cup {p}
    BY <2>2, FutCreated
  <2>4. Runnable' = Runnable \cup {p}
    BY <2>2, AppendQueue DEF Runnable, LoopInv, TypeOK, CtlTypes
  <2>5. Blocked' = Blocked
    BY <2>2 DEF Blocked
  <2>6. Fut!CreateTask(p)
    BY <2>2, <2>3, <2>4, <2>5 DEF Fut!CreateTask, Runnable, Blocked
  <2>7. QED
    BY <2>6 DEF Fut!FutNext
<1>2. CASE \E p \in Id : SleepAsync(p) \/ HttpSubmit(p)
  <2>1. PICK p \in Id : SleepAsync(p) \/ HttpSubmit(p)
    BY <1>2
  <2>2. PICK k \in {"timer", "http"} :
           /\ kind[p] = "free" /\ kind' = [kind EXCEPT ![p] = k]
           /\ UNCHANGED <<pst, val, waiters, ready, current>>
    BY <2>1 DEF SleepAsync, HttpSubmit, Fresh
  <2>3. /\ absStatus[p] = "none" /\ absStatus' = [absStatus EXCEPT ![p] = "pending"]
        /\ Tasks' = Tasks
    BY <2>2, FutCreated
  <2>4. Runnable' = Runnable /\ Blocked' = Blocked
    BY <2>2 DEF Runnable, Blocked
  <2>5. Fut!CreateExternal(p)
    BY <2>2, <2>3, <2>4 DEF Fut!CreateExternal, Runnable, Blocked
  <2>6. QED
    BY <2>5 DEF Fut!FutNext
<1>3. CASE \E p \in Id : HttpBadArgs(p)
  <2>1. PICK p \in Id : HttpBadArgs(p)
    BY <1>3
  <2>2. /\ kind[p] = "free" /\ kind' = [kind EXCEPT ![p] = "http"]
        /\ pst' = [pst EXCEPT ![p] = 1] /\ val' = [val EXCEPT ![p] = -p]
        /\ UNCHANGED <<waiters, ready, current>>
    BY <2>1 DEF HttpBadArgs, Fresh
  <2>3. /\ kind \in [Id -> {"free", "task", "gather", "timer", "http"}]
        /\ pst \in [Id -> 0..2]
    BY DEF LoopInv, TypeOK, PromTypes
  <2>4. \A q \in Id : /\ kind'[q] = IF q = p THEN "http" ELSE kind[q]
                     /\ pst'[q] = IF q = p THEN 1 ELSE pst[q]
    BY <2>2, <2>3
  <2>5. absStatus[p] = "none" /\ absStatus' = [absStatus EXCEPT ![p] = "fulfilled"]
    <3>1. absStatus' = [q \in Id |-> IF q = p THEN "fulfilled" ELSE absStatus[q]]
      BY <2>4 DEF absStatus
    <3>2. QED
      BY <2>2, <3>1 DEF absStatus
  <2>6. Tasks' = Tasks
    BY <2>2, <2>4 DEF Tasks
  <2>7. Runnable' = Runnable /\ Blocked' = Blocked
    BY <2>2 DEF Runnable, Blocked
  <2>8. -p \in Value
    BY IdValues, Numbers
  <2>9. Fut!CreateSettled(p)
    BY <2>2, <2>5, <2>6, <2>7, <2>8 DEF Fut!CreateSettled, Runnable, Blocked
  <2>10. QED
    BY <2>9 DEF Fut!FutNext
<1>4. CASE (\E p \in Id : Await(p)) \/ TryEnter \/ TryLeave \/ MainEnd
  <2>1. UNCHANGED <<promVars, ready, current>>
    BY <1>4, Zenon DEF Await, TryEnter, TryLeave, MainEnd
  <2>2. QED
    BY <2>1, FutStutter DEF Runnable
<1>5. QED
  BY <1>1, <1>2, <1>3, <1>4 DEF UserStep

\* The coroutine that runs is not in the ready queue.
LEMMA RunnerNotQueued ==
  ASSUME LoopInv, current # 0
  PROVE  /\ current \in Id /\ current \in Tasks /\ current \notin Range(ready)
         /\ pst[current] = 0 /\ kind[current] # "free"
         /\ Runnable \ {current} = Range(ready)
<1>1. current \in Id /\ tpc[current] = "run"
  BY Numbers DEF LoopInv, TypeOK, CtlTypes, Control
<1>2. current \in Tasks /\ pst[current] = 0
  <2>1. tpc \in [Id -> {"none", "new", "run", "susp", "done"}] /\ pst \in [Id -> 0..2]
    BY DEF LoopInv, TypeOK, TaskTypes, PromTypes
  <2>2. QED
    BY <1>1, <2>1 DEF LoopInv, Kinded
<1>3. current \notin Range(ready)
  BY <1>1 DEF LoopInv, Scheduling, ReadyCanRun
<1>4. kind[current] # "free"
  BY <1>2 DEF Tasks
<1>5. QED
  BY <1>1, <1>2, <1>3, <1>4 DEF Runnable

\* A coroutine that ends settles the future it is named by.
LEMMA FinishRefines ==
  ASSUME LoopInv, current # 0, NEW t, t = current, NEW v \in Value, NEW s \in {1, 2},
         Finish(t, v, s), UNCHANGED kind
  PROVE  Fut!Settle(t)
<1>1. Settle(t, v, s) /\ current' = 0
  BY DEF Finish, EndSlice
<1>2. /\ t \in Id /\ t \in Tasks /\ pst[t] = 0 /\ kind[t] # "free"
      /\ Runnable \ {t} = Range(ready)
      /\ t \in Runnable
  BY RunnerNotQueued DEF Runnable
<1>3. Range(ready') = Range(ready) \cup Range(waiters[t])
  BY <1>1, <1>2, SettleQueues
<1>4. Runnable' = (Runnable \ {t}) \cup Range(waiters[t])
  BY <1>1, <1>2, <1>3 DEF Runnable
<1>5. QED
  BY <1>1, <1>2, <1>4, FutSettles

\* A throw settles the future of the coroutine it ends, or no future at all.
LEMMA ThrowRefines ==
  ASSUME LoopInv, NEW v \in Value, Throw(v), UNCHANGED kind
  PROVE  [Fut!FutNext]_(Fut!futVars)
<1>1. /\ eh \in [Ctx -> Seq(Frame)] /\ ehCur \in Ctx /\ current = ehCur
      /\ eh[ehCur] \in Seq(Frame)
      /\ OwnFrames(eh[ehCur])
      /\ current # 0 => current \in Id
  BY OwnStack
<1>2. CASE eh[ehCur] # <<>> /\ Top(eh[ehCur]).root
  <2>1. Finish(Top(eh[ehCur]).owner, v, 2)
    BY <1>2, Zenon DEF Throw
  <2>2. Len(eh[ehCur]) \in DOMAIN eh[ehCur]
    BY <1>1, <1>2
  <2>3. Top(eh[ehCur]).owner = ehCur
    BY <1>1, <2>2 DEF OwnFrames, Top
  <2>4. ehCur # 0
    BY <1>1, <1>2, <2>2, Zenon DEF OwnFrames, Top
  <2>5. Fut!Settle(current)
    BY <1>1, <2>1, <2>3, <2>4, FinishRefines
  <2>6. QED
    BY <1>1, <2>4, <2>5 DEF Fut!FutNext
<1>3. CASE eh[ehCur] = <<>> \/ ~Top(eh[ehCur]).root
  <2>1. UNCHANGED <<pst, val, ready, waiters, current>>
    BY <1>3, Zenon DEF Throw
  <2>2. UNCHANGED <<promVars, Runnable>>
    BY <2>1 DEF promVars, Runnable
  <2>3. QED
    BY <2>2, FutStutter
<1>4. QED
  BY <1>2, <1>3

\* The ends of a coroutine and the throws.
LEMMA EndRefines ==
  ASSUME LoopInv, UserThrow \/ TaskReturn \/ AwaitThrow \/ GatherReturn
  PROVE  [Fut!FutNext]_(Fut!futVars)
<1>1. current \in Ctx /\ aw \in [Ctx -> Ctx] /\ val \in [Id -> Value]
  BY DEF LoopInv, TypeOK, CodeTypes, PromTypes, CtlTypes
<1>2. current \in Value
  BY <1>1, IdValues
<1>3. CASE UserThrow
  BY <1>2, <1>3, ThrowRefines DEF UserThrow
<1>4. CASE TaskReturn \/ GatherReturn
  <2>1. current # 0 /\ Finish(current, current, 1) /\ UNCHANGED kind
    BY <1>4 DEF TaskReturn, GatherReturn, UserCode, GatherCode
  <2>2. Fut!Settle(current)
    BY <1>2, <2>1, FinishRefines
  <2>3. QED
    BY <1>1, <2>1, <2>2, Numbers DEF Fut!FutNext
<1>5. CASE AwaitThrow
  <2>1. Throw(val[aw[current]]) /\ UNCHANGED kind /\ val[aw[current]] \in Value
    BY <1>1, <1>5, Numbers DEF AwaitThrow, Awaiting
  <2>2. QED
    BY <2>1, ThrowRefines
<1>6. QED
  BY <1>3, <1>4, <1>5

\* A coroutine that yields in aot_await blocks on the promise.
LEMMA YieldRefines ==
  ASSUME LoopInv, AwaitYield
  PROVE  [Fut!FutNext]_(Fut!futVars)
<1>1. PICK t, p : t = current /\ p = aw[current]
  OBVIOUS
<1>2. /\ t # 0 /\ p # 0 /\ pst[p] = 0
      /\ waiters' = [waiters EXCEPT ![p] = Append(waiters[p], t)]
      /\ current' = 0 /\ UNCHANGED <<kind, pst, val, ready>>
  BY <1>1 DEF AwaitYield, Awaiting, EndSlice
<1>3. /\ t \in Id /\ t \in Runnable /\ Runnable \ {t} = Range(ready)
      /\ p \in Id /\ waiters \in [Id -> Seq(Id)]
  BY <1>1, <1>2, RunnerNotQueued, Numbers
  DEF LoopInv, TypeOK, CodeTypes, CtlTypes, PromTypes, Runnable
<1>4. absStatus[p] = "pending"
  <2>1. kind[p] # "free"
    BY <1>1, <1>2, <1>3, Numbers DEF LoopInv, Kinded, TypeOK, CtlTypes
  <2>2. QED
    BY <1>2, <1>3, <2>1, AbsStatus
<1>5. Runnable' = Runnable \ {t}
  BY <1>2, <1>3 DEF Runnable
<1>6. Blocked' = [Blocked EXCEPT ![p] = @ \cup {t}]
  <2>1. Range(Append(waiters[p], t)) = Range(waiters[p]) \cup {t}
    BY <1>3, AppendQueue
  <2>2. \A q \in Id : Range(waiters'[q]) =
            IF q = p THEN Range(waiters[p]) \cup {t} ELSE Range(waiters[q])
    BY <1>2, <1>3, <2>1
  <2>3. QED
    BY <1>3, <2>2 DEF Blocked
<1>7. absStatus' = absStatus /\ Tasks' = Tasks
  BY <1>2 DEF absStatus, Tasks
<1>8. Fut!Block(t, p)
  BY <1>2, <1>3, <1>4, <1>5, <1>6, <1>7 DEF Fut!Block, Runnable, Blocked
<1>9. QED
  BY <1>3, <1>8 DEF Fut!FutNext

\* A timer or a request settles its promise's future, once.
LEMMA SourceRefines ==
  ASSUME LoopInv, FireTimer \/ \E p \in Id : PollFinished(p)
  PROVE  [Fut!FutNext]_(Fut!futVars)
<1>1. PICK p \in Id, v \in Value :
         Settle(p, v, 1) /\ p \notin Tasks /\ kind[p] # "free"
         /\ UNCHANGED <<kind, current>>
  <2>1. CASE FireTimer
    <3>1. PICK p \in fire : Settle(p, 0, 1) /\ UNCHANGED <<kind, current>>
      BY <2>1 DEF FireTimer
    <3>2. p \in Id /\ kind[p] = "timer"
      BY DEF LoopInv, TypeOK, TimeTypes, Kinded
    <3>3. p \notin Tasks /\ kind[p] # "free" /\ 0 \in Value
      BY <3>2, Numbers, IdValues DEF Tasks
    <3>4. QED
      BY <3>1, <3>2, <3>3
  <2>2. CASE \E p \in Id : PollFinished(p)
    <3>1. PICK p \in Id : PollFinished(p)
      BY <2>2
    <3>2. PICK v : v = IF outcome[p] = "ok" THEN p ELSE -p
      OBVIOUS
    <3>3. p \in io /\ Settle(p, v, 1) /\ UNCHANGED <<kind, current>>
      BY <3>1, <3>2, Zenon DEF PollFinished, NextSource
    <3>4. v \in Value
      BY <3>2, Numbers, IdValues
    <3>5. p \notin Tasks /\ kind[p] # "free"
      BY <3>3 DEF LoopInv, Kinded, Tasks
    <3>6. QED
      BY <3>3, <3>4, <3>5
  <2>3. QED
    BY <2>1, <2>2
<1>2. CASE pst[p] = 0
  <2>1. Range(ready') = Range(ready) \cup Range(waiters[p])
    BY <1>1, SettleQueues
  <2>2. ready \in Seq(Id) /\ \A t \in Range(ready) : tpc[t] = "new" \/ tpc[t] = "susp"
    BY DEF LoopInv, TypeOK, CtlTypes, Scheduling, ReadyCanRun
  <2>3. p \notin Range(ready)
    <3>1. tpc[p] = "none"
      BY <1>1 DEF LoopInv, Kinded
    <3>2. QED
      BY <2>2, <3>1
  <2>4. p # current
    <3>1. current # 0 => current \in Tasks
      BY RunnerNotQueued
    <3>2. QED
      BY <1>1, <3>1, Numbers
  <2>5. Runnable' = (Runnable \ {p}) \cup Range(waiters[p])
    BY <1>1, <2>1, <2>3, <2>4 DEF Runnable
  <2>6. Fut!Settle(p)
    BY <1>1, <1>2, <2>5, FutSettles
  <2>7. QED
    BY <2>6 DEF Fut!FutNext
<1>3. CASE pst[p] # 0
  <2>1. UNCHANGED <<promVars, Runnable>>
    BY <1>1, <1>3 DEF Settle, promVars, Runnable
  <2>2. QED
    BY <2>1, FutStutter
<1>4. QED
  BY <1>2, <1>3

\* resume() runs a task that could run already.
LEMMA ResumeRefines ==
  ASSUME LoopInv, Resume
  PROVE  UNCHANGED Fut!futVars
<1>1. PICK t : t = Head(ready)
  OBVIOUS
<1>2. /\ ready # <<>> /\ current' = t /\ ready' = Tail(ready) /\ UNCHANGED promVars
      /\ pc = "dispatch"
  BY <1>1 DEF Resume
<1>3. ready \in Seq(Id) /\ IsInjective(ready) /\ current = 0
  BY <1>2 DEF LoopInv, TypeOK, CtlTypes, Scheduling, ReadyCanRun, Control
<1>4. t \in Range(ready) /\ t \in Id /\ Range(ready') = Range(ready) \ {t}
  BY <1>1, <1>2, <1>3, TailQueue
<1>5. Runnable' = Runnable
  BY <1>2, <1>3, <1>4, Numbers DEF Runnable
<1>6. QED
  BY <1>2, <1>5, FutStutter

\* The steps of the event loop.
LEMMA LoopRefines ==
  ASSUME LoopInv, LoopStep
  PROVE  [Fut!FutNext]_(Fut!futVars)
<1>1. CASE \/ HttpRegister \/ AwaitPump \/ AwaitReturn \/ GatherNext \/ PollEnd
           \/ DispatchIoDone \/ DispatchTimers \/ DispatchIoWait \/ DispatchNothing
           \/ \E p \in Id : PollPending(p)
  <2>1. UNCHANGED <<promVars, ready, current>>
    BY <1>1, Zenon
    DEF HttpRegister, AwaitPump, AwaitReturn, GatherNext, PollEnd, DispatchIoDone,
        DispatchTimers, DispatchIoWait, DispatchNothing, PollPending
  <2>2. QED
    BY <2>1, FutStutter DEF Runnable
<1>2. QED
  BY <1>1, YieldRefines, EndRefines, SourceRefines, ResumeRefines DEF LoopStep

\* The steps beside the event loop are none of the futures' business.
LEMMA OutsideRefines ==
  ASSUME (\E w \in Workers : WorkerStep(w)) \/ Tick \/ UNCHANGED vars
  PROVE  UNCHANGED Fut!futVars
<1>1. UNCHANGED <<promVars, ready, current>>
  BY DEF WorkerStep, Tick, vars, loopVars
<1>2. QED
  BY <1>1, FutStutter DEF Runnable

\* Queues, waiter lists, timers, stacks and workers implement settle-once
\* futures: aot_promise_settle settles each promise once and makes exactly the
\* coroutines blocked on it runnable; only the coroutine of a promise ends it.
THEOREM LoopImplementsFutures == Spec => ImplementsFutures
<1>1. Init => Fut!FutInit
  <2> SUFFICES ASSUME Init
               PROVE  Fut!FutInit
    OBVIOUS
  <2>1. /\ kind = [p \in Id |-> "free"] /\ val = [p \in Id |-> 0]
        /\ waiters = [p \in Id |-> <<>>] /\ ready = <<>> /\ current = 0
    BY DEF Init
  <2>2. absStatus = [p \in Id |-> "none"] /\ Tasks = {}
    BY <2>1 DEF absStatus, Tasks
  <2>3. Range(ready) = {} /\ Blocked = [p \in Id |-> {}]
    BY <2>1, EmptyQueue DEF Blocked
  <2>4. QED
    BY <2>1, <2>2, <2>3 DEF Fut!FutInit, Blocked
<1>2. LoopInv /\ [Next]_vars => [Fut!FutNext]_(Fut!futVars)
  <2> SUFFICES ASSUME LoopInv, [Next]_vars
               PROVE  [Fut!FutNext]_(Fut!futVars)
    OBVIOUS
  <2>1. CASE UserStep
    BY <2>1, UserRefines, EndRefines
  <2>2. CASE LoopStep
    BY <2>2, LoopRefines
  <2>3. CASE (\E w \in Workers : WorkerStep(w)) \/ Tick \/ UNCHANGED vars
    BY <2>3, OutsideRefines
  <2>4. QED
    BY <2>1, <2>2, <2>3 DEF Next, Gone
<1>3. QED
  BY <1>1, <1>2, LoopInvariant, PTL DEF Spec, ImplementsFutures, Fut!FutSpec

-----------------------------------------------------------------------------
(* Who settles a promise. *)

SettledBy(p, v, s) ==
    \/ HttpBadArgs(p) /\ s = 1 /\ v = -p
    \/ FireTimer /\ p \in fire /\ s = 1
    \/ PollFinished(p) /\ s = 1 /\ v = IF outcome[p] = "ok" THEN p ELSE -p
    \/ /\ p = current
       /\ \/ s = 1 /\ (TaskReturn \/ GatherReturn)
          \/ s = 2 /\ UserThrow
          \/ s = 2 /\ AwaitThrow /\ v = val[aw[p]]

Settles(p, v, s) ==
    /\ pst[p] = 0
    /\ pst' = [pst EXCEPT ![p] = s] /\ val' = [val EXCEPT ![p] = v]
    /\ SettledBy(p, v, s)

\* A step settles no promise, or one promise by what is entitled to.
SettlesAtMostOne ==
    \/ UNCHANGED <<pst, val>>
    \/ \E p \in Id, v \in Value, s \in {1, 2} : Settles(p, v, s)

\* The call of aot_promise_settle under one of its callers.
LEMMA SettleOne ==
  ASSUME NEW p \in Id, NEW v \in Value, NEW s \in {1, 2}, Settle(p, v, s),
         SettledBy(p, v, s)
  PROVE  SettlesAtMostOne
<1>1. CASE pst[p] # 0
  BY <1>1 DEF Settle, SettlesAtMostOne
<1>2. CASE pst[p] = 0
  BY <1>2 DEF Settle, Settles, SettlesAtMostOne
<1>3. QED
  BY <1>1, <1>2

\* A throw settles the promise of the coroutine it ends, or none.
LEMMA ThrowSettles ==
  ASSUME LoopInv, NEW v \in Value, Throw(v), SettledBy(current, v, 2)
  PROVE  SettlesAtMostOne
<1>1. /\ ehCur \in Ctx /\ current = ehCur
      /\ eh[ehCur] \in Seq(Frame)
      /\ OwnFrames(eh[ehCur])
  BY OwnStack
<1>2. CASE eh[ehCur] # <<>> /\ Top(eh[ehCur]).root
  <2>1. Settle(Top(eh[ehCur]).owner, v, 2)
    BY <1>2, Zenon DEF Throw, Finish
  <2>2. Len(eh[ehCur]) \in DOMAIN eh[ehCur]
    BY <1>1, <1>2
  <2>3. Top(eh[ehCur]).owner = ehCur
    BY <1>1, <2>2 DEF OwnFrames, Top
  <2>4. ehCur # 0
    BY <1>1, <1>2, <2>2, Zenon DEF OwnFrames, Top
  <2>5. Settle(current, v, 2) /\ current \in Id
    BY <1>1, <2>1, <2>3, <2>4, Numbers
  <2>6. QED
    BY <2>5, SettleOne
<1>3. CASE eh[ehCur] = <<>> \/ ~Top(eh[ehCur]).root
  <2>1. UNCHANGED <<pst, val>>
    BY <1>3, Zenon DEF Throw
  <2>2. QED
    BY <2>1 DEF SettlesAtMostOne
<1>4. QED
  BY <1>2, <1>3

\* The steps that end a coroutine.
LEMMA EndSettles ==
  ASSUME LoopInv, UserThrow \/ TaskReturn \/ AwaitThrow \/ GatherReturn
  PROVE  SettlesAtMostOne
<1>1. current \in Ctx /\ aw \in [Ctx -> Ctx] /\ val \in [Id -> Value]
  BY DEF LoopInv, TypeOK, CodeTypes, PromTypes, CtlTypes
<1>2. current \in Value
  BY <1>1, IdValues
<1>3. CASE UserThrow
  <2>1. Throw(current) /\ SettledBy(current, current, 2)
    BY <1>3 DEF UserThrow, SettledBy
  <2>2. QED
    BY <1>2, <2>1, ThrowSettles
<1>4. CASE TaskReturn \/ GatherReturn
  <2>1. current # 0 /\ Settle(current, current, 1)
    BY <1>4 DEF TaskReturn, GatherReturn, UserCode, GatherCode, Finish
  <2>2. current \in Id /\ SettledBy(current, current, 1)
    BY <1>1, <1>4, <2>1, Numbers DEF SettledBy
  <2>3. QED
    BY <1>2, <2>1, <2>2, SettleOne
<1>5. CASE AwaitThrow
  <2>1. Throw(val[aw[current]]) /\ val[aw[current]] \in Value
    BY <1>1, <1>5, Numbers DEF AwaitThrow, Awaiting
  <2>2. SettledBy(current, val[aw[current]], 2)
    BY <1>5 DEF SettledBy
  <2>3. QED
    BY <2>1, <2>2, ThrowSettles
<1>6. QED
  BY <1>3, <1>4, <1>5

LEMMA NextSettles == LoopInv /\ [Next]_vars => SettlesAtMostOne
<1> SUFFICES ASSUME LoopInv, [Next]_vars
             PROVE  SettlesAtMostOne
  OBVIOUS
<1>1. CASE FireTimer
  <2>1. PICK p \in fire : Settle(p, 0, 1)
    BY <1>1 DEF FireTimer
  <2>2. p \in Id /\ 0 \in Value
    BY <2>1, Numbers, IdValues DEF LoopInv, TypeOK, TimeTypes
  <2>3. SettledBy(p, 0, 1)
    BY <1>1, <2>1 DEF SettledBy
  <2>4. QED
    BY <2>1, <2>2, <2>3, SettleOne
<1>2. ASSUME NEW p \in Id, PollFinished(p)
      PROVE  SettlesAtMostOne
  <2>1. PICK v : v = IF outcome[p] = "ok" THEN p ELSE -p
    OBVIOUS
  <2>2. Settle(p, v, 1) /\ v \in Value
    BY <1>2, <2>1, Numbers, IdValues, Zenon DEF PollFinished
  <2>3. SettledBy(p, v, 1)
    BY <1>2, <2>1 DEF SettledBy
  <2>4. QED
    BY <2>2, <2>3, SettleOne
<1>3. ASSUME NEW p \in Id, HttpBadArgs(p)
      PROVE  SettlesAtMostOne
  <2>1. pst[p] = 0 /\ -p \in Value
    BY <1>3, Numbers, IdValues DEF HttpBadArgs, Fresh, LoopInv, Kinded
  <2>2. Settles(p, -p, 1)
    BY <1>3, <2>1 DEF HttpBadArgs, Settles, SettledBy
  <2>3. QED
    BY <2>1, <2>2 DEF SettlesAtMostOne
<1>4. CASE UserThrow \/ TaskReturn \/ AwaitThrow \/ GatherReturn
  BY <1>4, EndSettles
<1>5. CASE UserStep /\ ~(\E p \in Id : HttpBadArgs(p)) /\ ~UserThrow /\ ~TaskReturn
  <2>1. UNCHANGED <<pst, val>>
    BY <1>5, Zenon
    DEF UserStep, Spawn, Gather, SleepAsync, HttpSubmit, Await, TryEnter, TryLeave,
        MainEnd, promVars
  <2>2. QED
    BY <2>1 DEF SettlesAtMostOne
<1>6. CASE /\ LoopStep /\ ~FireTimer /\ ~(\E p \in Id : PollFinished(p))
           /\ ~AwaitThrow /\ ~GatherReturn
  <2>1. UNCHANGED <<pst, val>>
    BY <1>6, Zenon
    DEF LoopStep, HttpRegister, AwaitYield, AwaitPump, AwaitReturn, GatherNext,
        PollPending, PollEnd, Resume, DispatchIoDone, DispatchTimers, DispatchIoWait,
        DispatchNothing, promVars
  <2>2. QED
    BY <2>1 DEF SettlesAtMostOne
<1>7. CASE (\E w \in Workers : WorkerStep(w)) \/ Tick \/ UNCHANGED vars
  <2>1. UNCHANGED <<pst, val>>
    BY <1>7 DEF WorkerStep, Tick, vars, loopVars, promVars
  <2>2. QED
    BY <2>1 DEF SettlesAtMostOne
<1>8. QED
  BY <1>1, <1>2, <1>3, <1>4, <1>5, <1>6, <1>7 DEF Next, Gone

-----------------------------------------------------------------------------
(* Timers. *)

\* What loop_step has taken off the timers is due.
FireDue == \A p \in fire : dl[p] <= now

LEMMA FireDueNext == LoopInv /\ FireDue /\ [Next]_vars => FireDue'
<1> SUFFICES ASSUME LoopInv, FireDue, [Next]_vars
             PROVE  FireDue'
  OBVIOUS
<1>1. dl \in [Id -> 0..MaxTime] /\ now \in 0..MaxTime /\ fire \subseteq Id /\ MaxTime \in Nat
  BY LoopAssumption DEF LoopInv, TypeOK, TimeTypes
<1>2. ASSUME fire' \subseteq fire, dl' = dl, now' \in {now, now + 1, Smaller(now + 1, MaxTime)}
      PROVE  FireDue'
  BY <1>1, <1>2 DEF FireDue, Smaller
<1>3. ASSUME NEW p \in Id, SleepAsync(p)
      PROVE  FireDue'
  <2>1. /\ kind[p] = "free" /\ UNCHANGED <<fire, now>>
        /\ \E d \in Delays : dl' = [dl EXCEPT ![p] = now + Larger(d, 0)]
    BY <1>3 DEF SleepAsync, Fresh
  <2>2. p \notin fire
    BY <2>1 DEF LoopInv, Kinded
  <2>3. \A q \in fire : dl'[q] = dl[q]
    BY <1>1, <2>1, <2>2
  <2>4. QED
    BY <2>1, <2>3 DEF FireDue
<1>4. CASE DispatchTimers
  <2>1. fire' = {p \in timers : dl[p] <= now'} /\ dl' = dl
    BY <1>4 DEF DispatchTimers
  <2>2. QED
    BY <2>1 DEF FireDue
<1>5. CASE FireTimer \/ DispatchIoWait \/ Tick
  <2>1. fire' \subseteq fire /\ dl' = dl /\ now' \in {now, now + 1, Smaller(now + 1, MaxTime)}
    BY <1>5 DEF FireTimer, DispatchIoWait, Tick
  <2>2. QED
    BY <1>2, <2>1
<1>6. CASE UNCHANGED timeVars
  BY <1>2, <1>6 DEF timeVars
<1>7. CASE UserStep /\ ~(\E p \in Id : SleepAsync(p))
  <2>1. UNCHANGED timeVars
    BY <1>7, Zenon
    DEF UserStep, Spawn, Gather, HttpBadArgs, HttpSubmit, Await, TryEnter, TryLeave,
        UserThrow, TaskReturn, MainEnd
  <2>2. QED
    BY <1>6, <2>1
<1>8. CASE LoopStep /\ ~DispatchTimers /\ ~FireTimer /\ ~DispatchIoWait
  <2>1. UNCHANGED timeVars
    BY <1>8, Zenon
    DEF LoopStep, HttpRegister, AwaitYield, AwaitPump, AwaitReturn, AwaitThrow,
        GatherNext, GatherReturn, PollPending, PollFinished, PollEnd, Resume,
        DispatchIoDone, DispatchNothing, timeVars
  <2>2. QED
    BY <1>6, <2>1
<1>9. CASE (\E w \in Workers : WorkerStep(w)) \/ UNCHANGED vars
  <2>1. UNCHANGED timeVars
    BY <1>9 DEF WorkerStep, vars, loopVars
  <2>2. QED
    BY <1>6, <2>1
<1>10. QED
  BY <1>3, <1>4, <1>5, <1>7, <1>8, <1>9 DEF Next, Gone

\* sleep_async never wakes its awaiter before the deadline, although loop_step
\* cuts its sleep short while requests are outstanding.
THEOREM LoopTimersWait == Spec => NoEarlyTimer
<1> DEFINE OnTime == \A p \in Id : kind[p] = "timer" /\ pst[p] = 0 /\ pst'[p] # 0
                        => dl[p] <= now
<1>1. Init => FireDue
  BY DEF Init, FireDue
<1>2. LoopInv /\ FireDue /\ [Next]_vars => [OnTime]_vars
  <2> SUFFICES ASSUME LoopInv, FireDue, [Next]_vars,
                      NEW p \in Id, kind[p] = "timer", pst[p] = 0, pst'[p] # 0
               PROVE  dl[p] <= now
    OBVIOUS
  <2>1. PICK q \in Id, v \in Value, s \in {1, 2} : Settles(q, v, s)
    BY NextSettles DEF SettlesAtMostOne
  <2>2. q = p
    BY <2>1 DEF Settles, LoopInv, TypeOK, PromTypes
  <2>3. ~HttpBadArgs(p)
    BY DEF HttpBadArgs, Fresh
  <2>4. ~PollFinished(p)
    BY DEF PollFinished, NextSource, LoopInv, Kinded
  <2>5. CASE p = current
    <3>1. p \in Tasks
      BY <2>5, Numbers DEF LoopInv, Control, Kinded
    <3>2. QED
      BY <3>1 DEF Tasks
  <2>6. QED
    BY <2>1, <2>2, <2>3, <2>4, <2>5 DEF Settles, SettledBy, FireDue
<1>3. [][OnTime]_vars => NoEarlyTimer
  BY DEF NoEarlyTimer
<1>4. QED
  BY <1>1, <1>2, <1>3, LoopInvariant, FireDueNext, PTL DEF Spec

-----------------------------------------------------------------------------
(* Requests. *)

\* Only a request has a job.
OnlyRequestsHaveJobs == \A p \in Id : kind[p] # "http" => alloc[p] = "no"

HttpInv == OnlyRequestsHaveJobs /\ HttpConsistent

\* What HttpConsistent says of one request.
RequestConsistent(p) ==
    /\ pst[p] = 0 => (p \in io \/ p = reg) /\ alloc[p] = "live"
    /\ pst[p] # 0 =>
          /\ p \notin io /\ p # reg
          /\ \/ alloc[p] = "no" /\ val[p] = -p
             \/ alloc[p] = "freed" /\ val[p] = IF outcome[p] = "ok" THEN p ELSE -p

LEMMA HttpByRequest == HttpConsistent <=> \A p \in Id : kind[p] = "http" => RequestConsistent(p)
  BY DEF HttpConsistent, RequestConsistent

\* A step that touches neither the requests nor their jobs, and settles at most
\* the promise of a coroutine or of a timer.
LEMMA HttpUntouched ==
  ASSUME LoopInv, HttpInv, UNCHANGED <<io, reg, alloc, outcome>>, SettlesAtMostOne,
         ~ \E p \in Id : HttpBadArgs(p) \/ PollFinished(p),
         kind' = kind
            \/ \E p \in Id, k \in {"task", "gather", "timer"} :
                  kind' = [kind EXCEPT ![p] = k] /\ kind[p] = "free"
  PROVE  HttpInv'
<1>1. kind \in [Id -> {"free", "task", "gather", "timer", "http"}]
      /\ pst \in [Id -> 0..2] /\ val \in [Id -> Value]
  BY DEF LoopInv, TypeOK, PromTypes
<1>2. \A p \in Id : kind'[p] = "http" <=> kind[p] = "http"
  BY <1>1
<1>3. \A p \in Id : kind[p] = "http" => pst'[p] = pst[p] /\ val'[p] = val[p]
  <2> SUFFICES ASSUME NEW p \in Id, kind[p] = "http", ~UNCHANGED <<pst, val>>
               PROVE  pst'[p] = pst[p] /\ val'[p] = val[p]
    OBVIOUS
  <2>1. PICK q \in Id, v \in Value, s \in {1, 2} : Settles(q, v, s)
    BY DEF SettlesAtMostOne
  <2>2. q \in fire \/ q = current
    BY <2>1 DEF Settles, SettledBy
  <2>3. q # p
    BY <2>2, Numbers DEF LoopInv, Kinded, Control, Tasks
  <2>4. QED
    BY <1>1, <2>1, <2>3 DEF Settles
<1>4. OnlyRequestsHaveJobs'
  BY <1>2 DEF HttpInv, OnlyRequestsHaveJobs
<1>5. ASSUME NEW p \in Id, kind'[p] = "http"
      PROVE  RequestConsistent(p)'
  <2>1. RequestConsistent(p)
    BY <1>2, <1>5, HttpByRequest DEF HttpInv
  <2>2. QED
    BY <1>2, <1>3, <1>5, <2>1 DEF RequestConsistent
<1>6. HttpConsistent'
  BY <1>5, HttpByRequest DEF HttpConsistent, RequestConsistent
<1>7. QED
  BY <1>4, <1>6 DEF HttpInv

\* A worker writes only the outcome of a job that is not answered yet.
LEMMA WorkerKeepsHttp ==
  ASSUME LoopInv, HttpInv, NEW w \in Workers, WorkerStep(w)
  PROVE  HttpInv'
<1>1. UNCHANGED <<kind, pst, val, io, reg, alloc>>
  BY DEF WorkerStep, Worker, WorkerTake, WorkerRequest, WorkerPublish, loopVars,
         promVars, ioVars
<1>2. \A p \in Id : alloc[p] = "freed" => outcome'[p] = outcome[p]
  <2>1. CASE outcome' = outcome
    BY <2>1
  <2>2. CASE WorkerRequest(w)
    <3>1. holds[w] # NoJob /\ holds[w] \in Id
      BY <2>2, LoopAssumption
      DEF WorkerRequest, LoopInv, PoolInv, WorkerState, PoolTypeOK
    <3>2. alloc[holds[w]] = "live"
      BY <3>1 DEF LoopInv, PoolInv, JobsInUseAreLive
    <3>3. PICK r \in Outcomes : outcome' = [outcome EXCEPT ![holds[w]] = r]
      BY <2>2 DEF WorkerRequest
    <3>4. outcome \in [Id -> Outcomes \cup {"unset"}]
      BY LoopAssumption DEF LoopInv, PoolInv, PoolTypeOK
    <3>5. QED
      BY <3>2, <3>3, <3>4
  <2>3. QED
    BY <2>1, <2>2 DEF WorkerStep, Worker, WorkerTake, WorkerPublish
<1>3. OnlyRequestsHaveJobs'
  BY <1>1 DEF HttpInv, OnlyRequestsHaveJobs
<1>4. HttpConsistent'
  BY <1>1, <1>2 DEF HttpInv, HttpConsistent
<1>5. QED
  BY <1>3, <1>4 DEF HttpInv

\* aot_http_request_async and the registration of its source.
LEMMA RequestKeepsHttp ==
  ASSUME LoopInv, HttpInv, NEW p \in Id, HttpBadArgs(p) \/ HttpSubmit(p)
  PROVE  HttpInv'
<1>1. /\ kind[p] = "free" /\ pc = "code"
      /\ kind' = [kind EXCEPT ![p] = "http"]
      /\ UNCHANGED <<io, outcome>>
  BY DEF HttpBadArgs, HttpSubmit, Fresh, UserCode, ioVars, poolVars, PoolSubmit
<1>2. /\ kind \in [Id -> {"free", "task", "gather", "timer", "http"}]
      /\ pst \in [Id -> 0..2] /\ val \in [Id -> Value]
      /\ alloc \in [Id -> {"no", "live", "freed"}]
  BY LoopAssumption DEF LoopInv, TypeOK, PromTypes, PoolTypeOK
<1>3. /\ pst[p] = 0 /\ p \notin io /\ reg = 0 /\ p # 0 /\ alloc[p] = "no"
  BY <1>1, Numbers DEF LoopInv, Kinded, Control, HttpInv, OnlyRequestsHaveJobs
<1>4. \A q \in Id : kind'[q] = IF q = p THEN "http" ELSE kind[q]
  BY <1>1, <1>2
<1>5. /\ \A q \in Id : q # p => /\ pst'[q] = pst[q] /\ val'[q] = val[q]
                                /\ alloc'[q] = alloc[q]
      /\ reg' \in {0, p}
      /\ \/ pst'[p] = 1 /\ val'[p] = -p /\ alloc'[p] = "no" /\ reg' = 0
         \/ pst'[p] = 0 /\ alloc'[p] = "live" /\ reg' = p
  <2>1. CASE HttpBadArgs(p)
    BY <1>2, <1>3, <2>1 DEF HttpBadArgs, ioVars, poolVars
  <2>2. CASE HttpSubmit(p)
    BY <1>2, <1>3, <2>2 DEF HttpSubmit, PoolSubmit
  <2>3. QED
    BY <2>1, <2>2
<1>6. OnlyRequestsHaveJobs'
  BY <1>4, <1>5 DEF HttpInv, OnlyRequestsHaveJobs
<1>7. HttpConsistent'
  <2> SUFFICES ASSUME NEW q \in Id, kind'[q] = "http"
               PROVE  /\ pst'[q] = 0 => (q \in io' \/ q = reg') /\ alloc'[q] = "live"
                      /\ pst'[q] # 0 =>
                            /\ q \notin io' /\ q # reg'
                            /\ \/ alloc'[q] = "no" /\ val'[q] = -q
                               \/ /\ alloc'[q] = "freed"
                                  /\ val'[q] = IF outcome'[q] = "ok" THEN q ELSE -q
    BY DEF HttpConsistent
  <2>1. CASE q = p
    BY <1>1, <1>3, <1>5, <2>1
  <2>2. CASE q # p
    <3>1. RequestConsistent(q)
      BY <1>4, <2>2, HttpByRequest DEF HttpInv
    <3>2. QED
      BY <1>1, <1>3, <1>5, <2>2, <3>1, Numbers DEF RequestConsistent
  <2>3. QED
    BY <2>1, <2>2
<1>8. QED
  BY <1>6, <1>7 DEF HttpInv

\* http_async_poll answers a request that is pending and registered.
LEMMA AnswerKeepsHttp ==
  ASSUME LoopInv, HttpInv, NEW p \in Id, PollFinished(p)
  PROVE  HttpInv'
<1>1. PICK v : v = IF outcome[p] = "ok" THEN p ELSE -p
  OBVIOUS
<1>2. /\ pc = "poll" /\ p \in io /\ Settle(p, v, 1) /\ io' = io \ {p}
      /\ alloc' = [alloc EXCEPT ![p] = "freed"]
      /\ UNCHANGED <<kind, reg, outcome>>
  BY <1>1, Zenon DEF PollFinished, PoolCollect, NextSource
<1>3. kind[p] = "http" /\ reg = 0 /\ p # 0
  BY <1>2, Numbers DEF LoopInv, Kinded, Control
<1>4. /\ pst \in [Id -> 0..2] /\ val \in [Id -> Value]
      /\ alloc \in [Id -> {"no", "live", "freed"}]
  BY LoopAssumption DEF LoopInv, TypeOK, PromTypes, PoolTypeOK
<1>5. pst[p] = 0
  BY <1>2, <1>3 DEF HttpInv, HttpConsistent
<1>6. /\ pst' = [pst EXCEPT ![p] = 1] /\ val' = [val EXCEPT ![p] = v]
  BY <1>2, <1>5 DEF Settle
<1>7. OnlyRequestsHaveJobs'
  BY <1>2, <1>3, <1>4 DEF HttpInv, OnlyRequestsHaveJobs
<1>8. ASSUME NEW q \in Id, kind'[q] = "http"
      PROVE  /\ pst'[q] = 0 => (q \in io' \/ q = reg') /\ alloc'[q] = "live"
             /\ pst'[q] # 0 =>
                   /\ q \notin io' /\ q # reg'
                   /\ \/ alloc'[q] = "no" /\ val'[q] = -q
                      \/ /\ alloc'[q] = "freed"
                         /\ val'[q] = IF outcome'[q] = "ok" THEN q ELSE -q
  <2>1. CASE q = p
    BY <1>1, <1>2, <1>3, <1>4, <1>6, <2>1
  <2>2. CASE q # p
    <3>1. RequestConsistent(q)
      BY <1>2, <1>8, HttpByRequest DEF HttpInv
    <3>2. QED
      BY <1>2, <1>4, <1>6, <2>2, <3>1 DEF RequestConsistent
  <2>3. QED
    BY <2>1, <2>2
<1>9. HttpConsistent'
  BY <1>8 DEF HttpConsistent
<1>10. QED
  BY <1>7, <1>9 DEF HttpInv

LEMMA HttpInvNext == LoopInv /\ HttpInv /\ [Next]_vars => HttpInv'
<1> SUFFICES ASSUME LoopInv, HttpInv, [Next]_vars
             PROVE  HttpInv'
  OBVIOUS
<1>1. SettlesAtMostOne
  BY NextSettles
<1>2. CASE \E p \in Id : HttpBadArgs(p) \/ HttpSubmit(p)
  BY <1>2, RequestKeepsHttp
<1>3. CASE \E p \in Id : PollFinished(p)
  BY <1>3, AnswerKeepsHttp
<1>4. CASE \E w \in Workers : WorkerStep(w)
  BY <1>4, WorkerKeepsHttp
<1>5. CASE HttpRegister
  <2>1. /\ io' = io \cup {reg} /\ reg' = 0 /\ reg # 0
        /\ UNCHANGED <<kind, pst, val, alloc, outcome>>
    BY <1>5 DEF HttpRegister, promVars, poolVars, LoopInv, Control
  <2>2. OnlyRequestsHaveJobs'
    BY <2>1 DEF HttpInv, OnlyRequestsHaveJobs
  <2>3. HttpConsistent'
    BY <2>1, Numbers DEF HttpInv, HttpConsistent
  <2>4. QED
    BY <2>2, <2>3 DEF HttpInv
<1>6. ASSUME UNCHANGED <<io, reg, alloc, outcome>>,
             kind' = kind
                \/ \E p \in Id, k \in {"task", "gather", "timer"} :
                      kind' = [kind EXCEPT ![p] = k] /\ kind[p] = "free",
             ~ \E p \in Id : HttpBadArgs(p) \/ PollFinished(p)
      PROVE  HttpInv'
  BY <1>1, <1>6, HttpUntouched
<1>7. CASE /\ UserStep \/ LoopStep
           /\ ~(\E p \in Id : HttpBadArgs(p) \/ HttpSubmit(p)) /\ ~HttpRegister
           /\ ~(\E p \in Id : PollFinished(p))
  <2>1. UNCHANGED <<ioVars, poolVars>>
    BY <1>7, Zenon
    DEF UserStep, Spawn, Gather, SleepAsync, Await, TryEnter, TryLeave, UserThrow,
        TaskReturn, MainEnd, LoopStep, AwaitYield, AwaitPump, AwaitReturn, AwaitThrow,
        GatherNext, GatherReturn, PollPending, PollEnd, Resume, DispatchIoDone,
        DispatchTimers, FireTimer, DispatchIoWait, DispatchNothing
  <2>2. ASSUME NEW p \in Id, Spawn(p) \/ Gather(p) \/ SleepAsync(p)
        PROVE  \E k \in {"task", "gather", "timer"} :
                  kind' = [kind EXCEPT ![p] = k] /\ kind[p] = "free"
    BY <2>2 DEF Spawn, Gather, SleepAsync, Fresh
  <2>3. \/ kind' = kind
        \/ \E p \in Id, k \in {"task", "gather", "timer"} :
              kind' = [kind EXCEPT ![p] = k] /\ kind[p] = "free"
    <3>1. CASE \E p \in Id : Spawn(p) \/ Gather(p) \/ SleepAsync(p)
      BY <2>2, <3>1
    <3>2. CASE ~ \E p \in Id : Spawn(p) \/ Gather(p) \/ SleepAsync(p)
      <4>1. UNCHANGED kind
        BY <1>7, <3>2, Zenon
        DEF UserStep, Await, TryEnter, TryLeave, UserThrow, TaskReturn, MainEnd,
            LoopStep, AwaitYield, AwaitPump, AwaitReturn, AwaitThrow, GatherNext,
            GatherReturn, PollPending, PollEnd, Resume, DispatchIoDone,
            DispatchTimers, FireTimer, DispatchIoWait, DispatchNothing, promVars
      <4>2. QED
        BY <4>1
    <3>3. QED
      BY <3>1, <3>2
  <2>4. UNCHANGED <<io, reg, alloc, outcome>>
    BY <2>1 DEF ioVars, poolVars
  <2>5. QED
    BY <1>6, <1>7, <2>3, <2>4
<1>8. CASE Tick \/ UNCHANGED vars
  <2>1. UNCHANGED <<kind, pst, val, io, reg, alloc, outcome>>
    BY <1>8 DEF Tick, vars, loopVars, promVars, ioVars, poolVars
  <2>2. QED
    BY <2>1 DEF HttpInv, OnlyRequestsHaveJobs, HttpConsistent
<1>9. QED
  BY <1>2, <1>3, <1>4, <1>5, <1>7, <1>8 DEF Next, Gone

\* Each request is answered once, with what its worker wrote, and its job is
\* deleted by that answer: never before, and never twice.
THEOREM LoopAnswersRequests == Spec => []HttpConsistent
<1>1. Init => HttpInv
  BY LoopAssumption DEF Init, PoolInit, HttpInv, OnlyRequestsHaveJobs, HttpConsistent
<1>2. HttpInv => HttpConsistent
  BY DEF HttpInv
<1>3. QED
  BY <1>1, <1>2, LoopInvariant, HttpInvNext, PTL DEF Spec

-----------------------------------------------------------------------------
(* Gather. *)

\* The i-th argument of gather p is a plain value, or fulfilled.
ItemDone(p, i) == items[p][i] = 0 \/ pst[items[p][i]] = 1

\* gather_body has collected the values of the first items, in order, and is at
\* the next one or between two.
Collected(p) ==
    /\ Len(arr[p]) <= Len(items[p])
    /\ \A i \in 1..Len(arr[p]) :
          ItemDone(p, i) /\ arr[p][i] = IF items[p][i] = 0 THEN 0 ELSE val[items[p][i]]
    /\ aw[p] # 0 => /\ Len(arr[p]) < Len(items[p])
                    /\ items[p][Len(arr[p]) + 1] = aw[p]

Fulfils(p) == pst[p] = 1 => Len(arr[p]) = Len(items[p])

Rejects(p) ==
    pst[p] = 2 => \E i \in 1..Len(items[p]) :
                     /\ items[p][i] # 0 /\ pst[items[p][i]] = 2
                     /\ val[p] = val[items[p][i]]
                     /\ \A k \in 1..(i - 1) : ItemDone(p, k)

\* Who has not run yet awaits nothing and has collected nothing.
NotStarted == \A t \in Id : tpc[t] \in {"none", "new"} => aw[t] = 0 /\ arr[t] = <<>>

GatherInv ==
    /\ NotStarted
    /\ \A p \in Id : kind[p] = "gather" => Collected(p) /\ Fulfils(p) /\ Rejects(p)

\* A settled promise keeps its state and its value.
SettledKept == \A p \in Id : pst[p] # 0 => pst'[p] = pst[p] /\ val'[p] = val[p]

LEMMA NextKeepsSettled == LoopInv /\ SettlesAtMostOne => SettledKept
  BY DEF SettlesAtMostOne, Settles, SettledKept, LoopInv, TypeOK, PromTypes

\* What is known of the sequences of a gather.
LEMMA GatherTypes ==
  ASSUME LoopInv, NEW p \in Id
  PROVE  /\ items[p] \in Seq(Ctx) /\ Len(items[p]) \in Nat
         /\ DOMAIN items[p] = 1..Len(items[p])
         /\ arr[p] \in Seq(Value) /\ Len(arr[p]) \in Nat
         /\ DOMAIN arr[p] = 1..Len(arr[p])
         /\ \A i \in 1..Len(items[p]) : items[p][i] = 0 \/ items[p][i] \in Id
         /\ pst[p] \in 0..2 /\ aw[p] \in Ctx
<1>1. items[p] \in Seq(Ctx) /\ arr[p] \in Seq(Value) /\ pst[p] \in 0..2 /\ aw[p] \in Ctx
  BY Numbers DEF LoopInv, TypeOK, TaskTypes, PromTypes, CodeTypes
<1>2. QED
  BY <1>1, Numbers

\* As long as a gather neither collects nor settles, it stays as it is.
LEMMA GatherStays ==
  ASSUME LoopInv, SettledKept, NEW p \in Id,
         Collected(p), Fulfils(p), Rejects(p),
         items'[p] = items[p], arr'[p] = arr[p], aw'[p] \in {0, aw[p]}
  PROVE  /\ Collected(p)'
         /\ pst'[p] = pst[p] => Fulfils(p)' /\ (val'[p] = val[p] => Rejects(p)')
<1>1. /\ Len(items[p]) \in Nat /\ Len(arr[p]) \in Nat
      /\ \A i \in 1..Len(items[p]) : items[p][i] = 0 \/ items[p][i] \in Id
  BY GatherTypes
<1>2. \A i \in 1..Len(items[p]) : ItemDone(p, i) => ItemDone(p, i)'
  BY <1>1 DEF ItemDone, SettledKept
<1>3. \A i \in 1..Len(arr[p]) :
         items[p][i] # 0 /\ ItemDone(p, i) => val'[items[p][i]] = val[items[p][i]]
  BY <1>1 DEF ItemDone, SettledKept, Collected
<1>4. \A i \in 1..Len(arr[p]) : i \in 1..Len(items[p])
  BY <1>1 DEF Collected
<1>5. \A i \in 1..Len(arr[p]) :
         ItemDone(p, i)' /\ arr'[p][i] = IF items'[p][i] = 0 THEN 0 ELSE val'[items'[p][i]]
  BY <1>2, <1>3, <1>4 DEF Collected
<1>6. Collected(p)'
  BY <1>5 DEF Collected
<1>7. ASSUME pst'[p] = pst[p]
      PROVE  Fulfils(p)'
  BY <1>7 DEF Fulfils
<1>8. ASSUME pst'[p] = pst[p], val'[p] = val[p]
      PROVE  Rejects(p)'
  <2> SUFFICES ASSUME pst[p] = 2
               PROVE  Rejects(p)'
    BY <1>8 DEF Rejects
  <2>1. PICK i \in 1..Len(items[p]) :
           /\ items[p][i] # 0 /\ pst[items[p][i]] = 2
           /\ val[p] = val[items[p][i]]
           /\ \A k \in 1..(i - 1) : ItemDone(p, k)
    BY DEF Rejects
  <2>2. \A k \in 1..(i - 1) : k \in 1..Len(items[p])
    BY <1>1, <2>1
  <2>3. pst'[items[p][i]] = 2 /\ val'[items[p][i]] = val[items[p][i]]
    BY <1>1, <2>1 DEF SettledKept
  <2>4. \A k \in 1..(i - 1) : ItemDone(p, k)'
    BY <1>2, <2>1, <2>2
  <2>5. QED
    BY <1>8, <2>1, <2>3, <2>4 DEF Rejects
<1>9. QED
  BY <1>6, <1>7, <1>8

\* gather_body returns when it has collected all, and is thrown out of the await
\* of an item that was rejected.
LEMMA GatherSettles ==
  ASSUME LoopInv, SettledKept, NEW p \in Id, kind[p] = "gather",
         Collected(p), items'[p] = items[p], arr'[p] = arr[p],
         NEW v \in Value, NEW s \in {1, 2}, Settles(p, v, s)
  PROVE  Fulfils(p)' /\ Rejects(p)'
<1>1. /\ Len(items[p]) \in Nat /\ Len(arr[p]) \in Nat
      /\ \A i \in 1..Len(items[p]) : items[p][i] = 0 \/ items[p][i] \in Id
  BY GatherTypes
<1>2. pst'[p] = s /\ val'[p] = v
  BY DEF Settles, LoopInv, TypeOK, PromTypes
<1>3. /\ p = current
      /\ \/ GatherReturn /\ s = 1
         \/ AwaitThrow /\ s = 2 /\ v = val[aw[p]]
  <2>1. ~HttpBadArgs(p)
    BY DEF HttpBadArgs, Fresh
  <2>2. ~PollFinished(p) /\ p \notin fire
    BY DEF PollFinished, NextSource, LoopInv, Kinded
  <2>3. p # 0
    BY Numbers
  <2>4. p = current => ~UserThrow /\ ~TaskReturn
    BY <2>3 DEF UserThrow, TaskReturn, UserCode
  <2>5. QED
    BY <2>1, <2>2, <2>3, <2>4 DEF Settles, SettledBy
<1>4. CASE GatherReturn
  <2>1. s = 1 /\ Len(arr[p]) = Len(items[p])
    BY <1>3, <1>4 DEF GatherReturn, AwaitThrow, GatherCode, Awaiting
  <2>2. QED
    BY <1>2, <2>1 DEF Fulfils, Rejects
<1>5. CASE AwaitThrow /\ s = 2 /\ v = val[aw[p]]
  <2>1. aw[p] # 0 /\ pst[aw[p]] = 2
    BY <1>3, <1>5 DEF AwaitThrow, Awaiting
  <2>2. PICK i : i = Len(arr[p]) + 1
    OBVIOUS
  <2>3. i \in 1..Len(items[p]) /\ items[p][i] = aw[p] /\ aw[p] \in Id
    BY <1>1, <2>1, <2>2 DEF Collected
  <2>4. pst'[aw[p]] = 2 /\ val'[aw[p]] = val[aw[p]]
    BY <2>1, <2>3 DEF SettledKept
  <2>5. \A k \in 1..(i - 1) : ItemDone(p, k) /\ k \in 1..Len(items[p])
    BY <1>1, <2>2, <2>3 DEF Collected
  <2>6. \A k \in 1..(i - 1) : ItemDone(p, k)'
    BY <1>1, <2>5 DEF ItemDone, SettledKept
  <2>7. QED
    BY <1>2, <1>5, <2>1, <2>3, <2>4, <2>6 DEF Fulfils, Rejects
<1>6. QED
  BY <1>3, <1>4, <1>5

\* A step in which no gather collects, awaits or is created.
LEMMA GatherUntouched ==
  ASSUME LoopInv, SettlesAtMostOne, GatherInv, UNCHANGED <<items, arr>>,
         \A p \in Id : kind'[p] = "gather" => kind[p] = "gather",
         \A p \in Id : kind[p] = "gather" => aw'[p] \in {0, aw[p]}
  PROVE  \A p \in Id : kind'[p] = "gather" => (Collected(p) /\ Fulfils(p) /\ Rejects(p))'
<1> SUFFICES ASSUME NEW p \in Id, kind'[p] = "gather"
             PROVE  (Collected(p) /\ Fulfils(p) /\ Rejects(p))'
  OBVIOUS
<1>1. SettledKept
  BY NextKeepsSettled
<1>2. kind[p] = "gather" /\ Collected(p) /\ Fulfils(p) /\ Rejects(p)
  BY DEF GatherInv
<1>3. aw'[p] \in {0, aw[p]}
  BY <1>2
<1>4. /\ Collected(p)'
      /\ pst'[p] = pst[p] => Fulfils(p)' /\ (val'[p] = val[p] => Rejects(p)')
  BY <1>1, <1>2, <1>3, GatherStays
<1>5. CASE UNCHANGED <<pst, val>>
  BY <1>4, <1>5
<1>6. ASSUME NEW q \in Id, NEW v \in Value, NEW s \in {1, 2}, Settles(q, v, s)
      PROVE  (Fulfils(p) /\ Rejects(p))'
  <2>1. CASE q = p
    BY <1>1, <1>2, <1>6, <2>1, GatherSettles
  <2>2. CASE q # p
    <3>1. pst'[p] = pst[p] /\ val'[p] = val[p]
      BY <1>6, <2>2 DEF Settles, LoopInv, TypeOK, PromTypes
    <3>2. QED
      BY <1>4, <3>1
  <2>3. QED
    BY <2>1, <2>2
<1>7. QED
  BY <1>4, <1>5, <1>6 DEF SettlesAtMostOne

\* aot_gather: a gather coroutine that has collected nothing.
LEMMA GatherCreated ==
  ASSUME LoopInv, SettlesAtMostOne, GatherInv, NEW p \in Id, Gather(p)
  PROVE  GatherInv'
<1>1. /\ kind[p] = "free" /\ kind' = [kind EXCEPT ![p] = "gather"]
      /\ tpc' = [tpc EXCEPT ![p] = "new"]
      /\ UNCHANGED <<pst, val, arr, aw>>
  BY DEF Gather, Fresh, codeVars
<1>2. PICK s : s \in GatherArgs /\ items' = [items EXCEPT ![p] = s]
  BY DEF Gather
<1>3. s \in Seq(Ctx)
  BY <1>2, GatherArgsKnown DEF LoopInv
<1>4. /\ kind \in [Id -> {"free", "task", "gather", "timer", "http"}]
      /\ items \in [Id -> Seq(Ctx)] /\ tpc \in [Id -> {"none", "new", "run", "susp", "done"}]
      /\ pst[p] = 0 /\ tpc[p] = "none"
  BY <1>1 DEF LoopInv, TypeOK, PromTypes, TaskTypes, Kinded, Tasks
<1>5. aw[p] = 0 /\ arr[p] = <<>>
  BY <1>4 DEF GatherInv, NotStarted
<1>6. NotStarted'
  BY <1>1, <1>4, <1>5 DEF GatherInv, NotStarted
<1>7. ASSUME NEW q \in Id, kind'[q] = "gather"
      PROVE  (Collected(q) /\ Fulfils(q) /\ Rejects(q))'
  <2>1. CASE q = p
    <3>1. items'[q] = s /\ Len(s) \in Nat
      BY <1>2, <1>3, <1>4, <2>1
    <3>2. arr'[q] = <<>> /\ aw'[q] = 0 /\ pst'[q] = 0
      BY <1>1, <1>4, <1>5, <2>1
    <3>3. Len(arr'[q]) = 0 /\ 1..0 = {}
      BY <3>2
    <3>4. QED
      BY <3>1, <3>2, <3>3 DEF Collected, Fulfils, Rejects
  <2>2. CASE q # p
    <3>1. kind[q] = "gather" /\ items'[q] = items[q]
      BY <1>1, <1>2, <1>4, <1>7, <2>2
    <3>2. Collected(q) /\ Fulfils(q) /\ Rejects(q) /\ SettledKept
      BY <3>1, NextKeepsSettled DEF GatherInv
    <3>3. QED
      BY <1>1, <3>1, <3>2, GatherStays
  <2>3. QED
    BY <2>1, <2>2
<1>8. QED
  BY <1>6, <1>7 DEF GatherInv

\* gather_body goes on with the next item, or collects the one it awaited.
LEMMA GatherCollects ==
  ASSUME LoopInv, GatherInv, GatherNext \/ AwaitReturn
  PROVE  GatherInv'
<1>1. UNCHANGED <<kind, pst, val, tpc, items, current>>
  BY DEF GatherNext, AwaitReturn, promVars
<1>2. /\ aw \in [Ctx -> Ctx] /\ arr \in [Id -> Seq(Value)] /\ current \in Ctx
      /\ current # 0 => tpc[current] = "run" /\ current \in Id
  BY Numbers DEF LoopInv, TypeOK, CodeTypes, TaskTypes, CtlTypes, Control
<1>3. SettledKept
  BY <1>1 DEF SettledKept
<1>4. \A q \in Id : q # current => aw'[q] = aw[q] /\ arr'[q] = arr[q]
  BY <1>2, Numbers DEF GatherNext, AwaitReturn, GatherCode
<1>5. NotStarted'
  <2> SUFFICES ASSUME NEW t \in Id, tpc[t] \in {"none", "new"}
               PROVE  aw'[t] = 0 /\ arr'[t] = <<>>
    BY <1>1 DEF NotStarted
  <2>1. t # current
    BY <1>2, Numbers
  <2>2. QED
    BY <1>4, <2>1 DEF GatherInv, NotStarted
<1>6. ASSUME NEW q \in Id, kind[q] = "gather", q # current
      PROVE  (Collected(q) /\ Fulfils(q) /\ Rejects(q))'
  <2>1. Collected(q) /\ Fulfils(q) /\ Rejects(q)
    BY <1>6 DEF GatherInv
  <2>2. items'[q] = items[q] /\ pst'[q] = pst[q] /\ val'[q] = val[q]
    BY <1>1
  <2>3. QED
    BY <1>3, <1>4, <1>6, <2>1, <2>2, GatherStays
<1>7. ASSUME NEW q \in Id, kind[q] = "gather", q = current
      PROVE  (Collected(q) /\ Fulfils(q) /\ Rejects(q))'
  <2>1. Collected(q) /\ pst[q] = 0
    BY <1>2, <1>7, Numbers DEF GatherInv, LoopInv, Kinded, Tasks
  <2>2. /\ items[q] \in Seq(Ctx) /\ Len(items[q]) \in Nat
        /\ arr[q] \in Seq(Value) /\ Len(arr[q]) \in Nat
        /\ \A i \in 1..Len(items[q]) : items[q][i] = 0 \/ items[q][i] \in Id
        /\ aw[q] \in Ctx
    BY GatherTypes
  <2>3. PICK n : n = Len(arr[q]) + 1
    OBVIOUS
  <2>4. (Fulfils(q) /\ Rejects(q))'
    BY <1>1, <2>1 DEF Fulfils, Rejects
  <2>5. ASSUME NEW x, x \in Value, arr'[q] = Append(arr[q], x), aw'[q] = 0,
               n <= Len(items[q]), ItemDone(q, n),
               x = IF items[q][n] = 0 THEN 0 ELSE val[items[q][n]]
        PROVE  Collected(q)'
    <3>1. /\ Len(arr'[q]) = n /\ arr'[q][n] = x
          /\ \A i \in 1..n : i # n => i \in 1..Len(arr[q]) /\ arr'[q][i] = arr[q][i]
      BY <2>2, <2>3, <2>5
    <3>2. \A i \in 1..n : ItemDone(q, i)
                          /\ arr'[q][i] = IF items[q][i] = 0 THEN 0 ELSE val[items[q][i]]
      BY <2>1, <2>5, <3>1 DEF Collected
    <3>3. \A i \in 1..n : ItemDone(q, i)'
      BY <1>1, <3>2 DEF ItemDone
    <3>4. QED
      BY <1>1, <2>5, <3>1, <3>2, <3>3 DEF Collected
  <2>6. CASE GatherNext
    <3>1. aw[q] = 0 /\ n <= Len(items[q]) /\ n \in 1..Len(items[q])
      BY <1>7, <2>2, <2>3, <2>6 DEF GatherNext, GatherCode
    <3>2. CASE items[q][n] = 0
      <4>1. arr'[q] = Append(arr[q], 0) /\ aw'[q] = 0
        BY <1>2, <1>7, <2>3, <2>6, <3>1, <3>2 DEF GatherNext
      <4>2. 0 \in Value
        BY Numbers, IdValues
      <4>3. ItemDone(q, n)
        BY <3>2 DEF ItemDone
      <4>4. QED
        BY <2>4, <2>5, <3>1, <3>2, <4>1, <4>2, <4>3
    <3>3. CASE items[q][n] # 0
      <4>1. arr'[q] = arr[q] /\ aw'[q] = items[q][n]
        BY <1>2, <1>7, <2>3, <2>6, <3>3, Numbers DEF GatherNext
      <4>2. \A i \in 1..Len(arr[q]) : ItemDone(q, i) => ItemDone(q, i)'
        BY <1>1 DEF ItemDone
      <4>3. Collected(q)'
        BY <1>1, <2>1, <2>2, <2>3, <3>1, <4>1, <4>2 DEF Collected
      <4>4. QED
        BY <2>4, <4>3
    <3>4. QED
      BY <3>2, <3>3
  <2>7. CASE AwaitReturn
    <3>1. /\ aw[q] # 0 /\ pst[aw[q]] = 1 /\ aw'[q] = 0
          /\ arr'[q] = Append(arr[q], val[aw[q]])
      BY <1>2, <1>7, <2>7, Numbers DEF AwaitReturn, Awaiting
    <3>2. n <= Len(items[q]) /\ items[q][n] = aw[q]
      BY <2>1, <2>2, <2>3, <3>1 DEF Collected
    <3>3. aw[q] \in Id /\ val[aw[q]] \in Value
      BY <2>2, <3>1, Numbers DEF LoopInv, TypeOK, PromTypes
    <3>4. ItemDone(q, n)
      BY <3>1, <3>2 DEF ItemDone
    <3>5. QED
      BY <2>4, <2>5, <3>1, <3>2, <3>3, <3>4
  <2>8. QED
    BY <2>6, <2>7
<1>8. QED
  BY <1>1, <1>5, <1>6, <1>7 DEF GatherInv

\* A step in which no gather collects, awaits or is created: who has not
\* started stays so.
LEMMA OthersKeepGather ==
  ASSUME LoopInv, SettlesAtMostOne, GatherInv, UNCHANGED <<items, arr>>,
         \A p \in Id : kind'[p] = "gather" => kind[p] = "gather",
         \A p \in Id : aw'[p] # aw[p] =>
            aw'[p] = 0 \/ (tpc[p] = "run" /\ kind[p] # "gather"),
         \A p \in Id : tpc'[p] \in {"none", "new"} => tpc[p] \in {"none", "new"}
  PROVE  GatherInv'
<1>1. \A p \in Id : kind[p] = "gather" => aw'[p] \in {0, aw[p]}
  OBVIOUS
<1>2. \A p \in Id : kind'[p] = "gather" => (Collected(p) /\ Fulfils(p) /\ Rejects(p))'
  BY <1>1, GatherUntouched
<1>3. NotStarted'
  BY DEF GatherInv, NotStarted
<1>4. QED
  BY <1>2, <1>3 DEF GatherInv

LEMMA GatherInvNext == LoopInv /\ GatherInv /\ [Next]_vars => GatherInv'
<1> SUFFICES ASSUME LoopInv, GatherInv, [Next]_vars
             PROVE  GatherInv'
  OBVIOUS
<1>1. SettlesAtMostOne
  BY NextSettles
<1>2. /\ tpc \in [Id -> {"none", "new", "run", "susp", "done"}] /\ aw \in [Ctx -> Ctx]
      /\ kind \in [Id -> {"free", "task", "gather", "timer", "http"}]
      /\ ready \in Seq(Id) /\ current \in Ctx
      /\ current # 0 => current \in Id /\ tpc[current] = "run"
  BY Numbers
  DEF LoopInv, TypeOK, TaskTypes, CodeTypes, PromTypes, CtlTypes, Control
<1>3. ASSUME UNCHANGED <<items, arr>>,
             kind' = kind
                \/ \E p \in Id, k \in {"task", "timer", "http"} : kind' = [kind EXCEPT ![p] = k],
             aw' = aw \/ aw' = [aw EXCEPT ![current] = 0] \/ aw' = [aw EXCEPT ![0] = 0]
                \/ (UserCode /\ \E p \in Id : aw' = [aw EXCEPT ![current] = p]),
             tpc' = tpc
                \/ (\E p \in Id : kind[p] = "free" /\ tpc' = [tpc EXCEPT ![p] = "new"])
                \/ \E p \in Id, l \in {"run", "susp", "done"} : tpc' = [tpc EXCEPT ![p] = l]
      PROVE  GatherInv'
  <2>1. \A p \in Id : kind'[p] = "gather" => kind[p] = "gather"
    BY <1>2, <1>3
  <2>2. \A p \in Id : aw'[p] # aw[p] =>
            aw'[p] = 0 \/ (tpc[p] = "run" /\ kind[p] # "gather")
    BY <1>2, <1>3, Numbers DEF UserCode
  <2>3. \A p \in Id : tpc'[p] \in {"none", "new"} => tpc[p] \in {"none", "new"}
    BY <1>2, <1>3 DEF LoopInv, Kinded, Tasks
  <2>4. QED
    BY <1>1, <1>3, <2>1, <2>2, <2>3, OthersKeepGather
<1>4. CASE \E p \in Id : Gather(p)
  BY <1>1, <1>4, GatherCreated
<1>5. CASE GatherNext \/ AwaitReturn
  BY <1>5, GatherCollects
<1>6. CASE UserThrow \/ TaskReturn \/ AwaitThrow \/ GatherReturn
  <2>1. /\ UNCHANGED <<kind, items, arr>>
        /\ aw' = aw \/ aw' = [aw EXCEPT ![current] = 0]
    BY <1>6, Zenon DEF UserThrow, TaskReturn, AwaitThrow, GatherReturn, codeVars
  <2>2. ASSUME NEW v, Throw(v)
        PROVE  tpc' = tpc \/ \E p \in Id : tpc' = [tpc EXCEPT ![p] = "done"]
    <3>1. /\ ehCur \in Ctx /\ eh[ehCur] \in Seq(Frame) /\ OwnFrames(eh[ehCur])
      BY OwnStack
    <3>2. CASE eh[ehCur] = <<>> \/ ~Top(eh[ehCur]).root
      BY <2>2, <3>2, Zenon DEF Throw
    <3>3. CASE eh[ehCur] # <<>> /\ Top(eh[ehCur]).root
      <4>1. tpc' = [tpc EXCEPT ![Top(eh[ehCur]).owner] = "done"]
        BY <2>2, <3>3, Zenon DEF Throw, Finish
      <4>2. Len(eh[ehCur]) \in DOMAIN eh[ehCur]
        BY <3>1, <3>3
      <4>3. Top(eh[ehCur]).owner = ehCur
        BY <3>1, <4>2 DEF OwnFrames, Top
      <4>4. ehCur # 0
        BY <3>1, <3>3, <4>2, Zenon DEF OwnFrames, Top
      <4>5. ehCur \in Id
        BY <3>1, <4>4, Numbers
      <4>6. QED
        BY <4>1, <4>3, <4>5
    <3>4. QED
      BY <3>2, <3>3
  <2>3. tpc' = tpc \/ \E p \in Id : tpc' = [tpc EXCEPT ![p] = "done"]
    <3>1. CASE UserThrow \/ AwaitThrow
      BY <2>2, <3>1 DEF UserThrow, AwaitThrow
    <3>2. CASE TaskReturn \/ GatherReturn
      BY <1>2, <3>2 DEF TaskReturn, GatherReturn, UserCode, GatherCode, Finish
    <3>3. QED
      BY <1>6, <3>1, <3>2
  <2>4. QED
    BY <1>3, <2>1, <2>3
<1>7. ASSUME NEW p \in Id,
             Spawn(p) \/ SleepAsync(p) \/ HttpBadArgs(p) \/ HttpSubmit(p) \/ Await(p)
      PROVE  GatherInv'
  <2>1. UNCHANGED <<items, arr>>
    BY <1>7, Zenon DEF Spawn, SleepAsync, HttpBadArgs, HttpSubmit, Await, taskVars
  <2>2. \/ kind' = kind
        \/ \E q \in Id, k \in {"task", "timer", "http"} : kind' = [kind EXCEPT ![q] = k]
    BY <1>7 DEF Spawn, SleepAsync, HttpBadArgs, HttpSubmit, Await, promVars
  <2>3. aw' = aw \/ (UserCode /\ \E q \in Id : aw' = [aw EXCEPT ![current] = q])
    BY <1>7, Zenon DEF Spawn, SleepAsync, HttpBadArgs, HttpSubmit, Await, codeVars
  <2>4. tpc' = tpc \/ (\E q \in Id : kind[q] = "free" /\ tpc' = [tpc EXCEPT ![q] = "new"])
    BY <1>7, Zenon DEF Spawn, Fresh, SleepAsync, HttpBadArgs, HttpSubmit, Await, taskVars
  <2>5. QED
    BY <1>3, <2>1, <2>2, <2>3, <2>4
<1>8. CASE AwaitYield \/ Resume \/ DispatchNothing
  <2>1. UNCHANGED <<kind, items, arr>>
    BY <1>8, Zenon DEF AwaitYield, Resume, DispatchNothing, promVars, taskVars
  <2>2. aw' = aw \/ aw' = [aw EXCEPT ![0] = 0]
    BY <1>8, Zenon DEF AwaitYield, Resume, DispatchNothing, codeVars
  <2>3. tpc' = tpc \/ \E p \in Id, l \in {"run", "susp", "done"} : tpc' = [tpc EXCEPT ![p] = l]
    <3>1. CASE AwaitYield
      BY <1>2, <3>1 DEF AwaitYield
    <3>2. CASE Resume
      <4>1. Head(ready) \in Id /\ tpc' = [tpc EXCEPT ![Head(ready)] = "run"]
        BY <1>2, <3>2 DEF Resume
      <4>2. QED
        BY <4>1
    <3>3. CASE DispatchNothing
      BY <3>3, Zenon DEF DispatchNothing, taskVars
    <3>4. QED
      BY <1>8, <3>1, <3>2, <3>3
  <2>4. QED
    BY <1>3, <2>1, <2>2, <2>3
<1>9. CASE \/ TryEnter \/ TryLeave \/ MainEnd
           \/ HttpRegister \/ AwaitPump
           \/ \E p \in Id : PollPending(p) \/ PollFinished(p)
           \/ PollEnd \/ DispatchIoDone \/ DispatchTimers \/ FireTimer \/ DispatchIoWait
  <2>1. UNCHANGED <<kind, tpc, items, arr, aw>>
    BY <1>9, Zenon
    DEF TryEnter, TryLeave, MainEnd, HttpRegister, AwaitPump, PollPending, PollFinished,
        PollEnd, DispatchIoDone, DispatchTimers, FireTimer, DispatchIoWait, promVars,
        taskVars, codeVars
  <2>2. QED
    BY <1>3, <2>1
<1>10. CASE (\E w \in Workers : WorkerStep(w)) \/ Tick \/ UNCHANGED vars
  <2>1. UNCHANGED <<kind, tpc, items, arr, aw>>
    BY <1>10 DEF WorkerStep, Tick, vars, loopVars, promVars, taskVars, codeVars
  <2>2. QED
    BY <1>3, <2>1
<1>11. QED
  BY <1>4, <1>5, <1>6, <1>7, <1>8, <1>9, <1>10, Zenon DEF Next, UserStep, LoopStep, Gone

\* await gather(...) gives the values of its arguments in their order, whatever
\* the order in which they settled, and throws only what the first argument that
\* is not fulfilled threw.
THEOREM LoopGathersInOrder == Spec => []GatherInOrder
<1>1. Init => GatherInv
  BY Numbers DEF Init, GatherInv, NotStarted
<1>2. LoopInv /\ GatherInv => GatherInOrder
  <2> SUFFICES ASSUME LoopInv, GatherInv, NEW p \in Id, kind[p] = "gather"
               PROVE  /\ pst[p] = 1 =>
                            /\ Len(arr[p]) = Len(items[p])
                            /\ \A i \in DOMAIN items[p] :
                                  IF items[p][i] = 0
                                  THEN arr[p][i] = 0
                                  ELSE /\ pst[items[p][i]] = 1
                                       /\ arr[p][i] = val[items[p][i]]
                      /\ pst[p] = 2 =>
                            \E i \in DOMAIN items[p] :
                               /\ items[p][i] # 0 /\ pst[items[p][i]] = 2
                               /\ val[p] = val[items[p][i]]
                               /\ \A k \in 1..(i - 1) : items[p][k] = 0 \/ pst[items[p][k]] = 1
    BY DEF GatherInOrder
  <2>1. Collected(p) /\ Fulfils(p) /\ Rejects(p) /\ DOMAIN items[p] = 1..Len(items[p])
    BY GatherTypes DEF GatherInv
  <2>2. QED
    BY <2>1 DEF Collected, Fulfils, Rejects, ItemDone
<1>3. QED
  BY <1>1, <1>2, LoopInvariant, GatherInvNext, PTL DEF Spec

-----------------------------------------------------------------------------
(* The drain at the end of main. *)

\* A pending timer is still to fire, what is about to fire is fired before
\* anything else, and neither a timer nor a request is ever rejected.
TimerInv ==
    /\ fire # {} => pc = "fire"
    /\ \A p \in Id : kind[p] = "timer" /\ pst[p] = 0 => p \in timers \cup fire
    /\ \A p \in Id : kind[p] \in {"timer", "http"} => pst[p] # 2

\* A step that leaves the timers alone and is not in the middle of firing them.
LEMMA TimersUntouched ==
  ASSUME LoopInv, TimerInv, SettlesAtMostOne, UNCHANGED <<timers, fire>>,
         pc' = pc \/ pc # "fire",
         kind' = kind
            \/ \E p \in Id, k \in {"task", "gather", "http"} :
                  kind' = [kind EXCEPT ![p] = k] /\ kind[p] = "free"
  PROVE  TimerInv'
<1>1. kind \in [Id -> {"free", "task", "gather", "timer", "http"}]
      /\ pst \in [Id -> 0..2]
  BY DEF LoopInv, TypeOK, PromTypes
<1>2. \A p \in Id : pst[p] # 0 => pst'[p] = pst[p]
  BY NextKeepsSettled DEF SettledKept
<1>3. \A p \in Id : kind'[p] \in {"timer", "http"} =>
         \/ kind[p] = kind'[p]
         \/ kind[p] = "free" /\ pst[p] = 0
  BY <1>1 DEF LoopInv, Kinded
<1>4. ASSUME NEW p \in Id, kind'[p] \in {"timer", "http"}, pst'[p] = 2, pst[p] # 2
      PROVE  FALSE
  <2>1. PICK q \in Id, v \in Value, s \in {1, 2} : Settles(q, v, s)
    BY <1>4 DEF SettlesAtMostOne
  <2>2. q = p /\ s = 2
    BY <1>1, <1>4, <2>1 DEF Settles
  <2>3. p = current /\ (UserThrow \/ AwaitThrow)
    BY <2>1, <2>2 DEF Settles, SettledBy
  <2>4. p \in Tasks /\ kind' = kind
    BY <2>3, Numbers DEF LoopInv, Control, Kinded, UserThrow, AwaitThrow
  <2>5. QED
    BY <1>4, <2>4 DEF Tasks
<1>5. \A p \in Id : kind'[p] \in {"timer", "http"} => pst'[p] # 2
  BY <1>3, <1>4 DEF TimerInv
<1>6. fire' # {} => pc' = "fire"
  BY DEF TimerInv
<1>7. \A p \in Id : kind'[p] = "timer" /\ pst'[p] = 0 => p \in timers' \cup fire'
  <2> SUFFICES ASSUME NEW p \in Id, kind'[p] = "timer", pst'[p] = 0
               PROVE  p \in timers \cup fire
    OBVIOUS
  <2>1. kind[p] = "timer"
    BY <1>1
  <2>2. pst[p] = 0
    BY <1>2
  <2>3. QED
    BY <2>1, <2>2 DEF TimerInv
<1>8. QED
  BY <1>5, <1>6, <1>7 DEF TimerInv

LEMMA TimerInvNext == LoopInv /\ TimerInv /\ [Next]_vars => TimerInv'
<1> SUFFICES ASSUME LoopInv, TimerInv, [Next]_vars
             PROVE  TimerInv'
  OBVIOUS
<1>1. SettlesAtMostOne
  BY NextSettles
<1>2. kind \in [Id -> {"free", "task", "gather", "timer", "http"}]
      /\ pst \in [Id -> 0..2]
  BY DEF LoopInv, TypeOK, PromTypes
<1>3. ASSUME NEW p \in Id, SleepAsync(p)
      PROVE  TimerInv'
  <2>1. /\ kind[p] = "free" /\ kind' = [kind EXCEPT ![p] = "timer"]
        /\ timers' = timers \cup {p} /\ UNCHANGED <<pst, fire, pc>>
    BY <1>3 DEF SleepAsync, Fresh, ctlVars
  <2>2. pst[p] = 0
    BY <2>1 DEF LoopInv, Kinded
  <2>3. \A q \in Id : kind'[q] = IF q = p THEN "timer" ELSE kind[q]
    BY <1>2, <2>1
  <2>4. QED
    BY <2>1, <2>2, <2>3 DEF TimerInv
<1>4. CASE DispatchTimers
  <2>1. /\ fire' \cup timers' = timers /\ (fire' # {} => pc' = "fire")
        /\ UNCHANGED <<kind, pst>> /\ pc = "dispatch"
    BY <1>4 DEF DispatchTimers, Idle, promVars
  <2>2. QED
    BY <2>1 DEF TimerInv
<1>5. CASE FireTimer
  <2>1. PICK p \in fire : Settle(p, 0, 1) /\ fire' = fire \ {p}
    BY <1>5 DEF FireTimer
  <2>2. UNCHANGED <<kind, timers>> /\ pc = "fire" /\ (fire' # {} => pc' = pc)
    BY <1>5 DEF FireTimer, ctlVars
  <2>3. p \in Id
    BY <2>1 DEF LoopInv, TypeOK, TimeTypes
  <2>4. /\ pst'[p] # 0 /\ (pst[p] = 0 => pst'[p] = 1)
        /\ pst[p] # 0 => pst'[p] = pst[p]
        /\ \A q \in Id : q # p => pst'[q] = pst[q]
    BY <1>2, <2>1, <2>3 DEF Settle
  <2>5. QED
    BY <2>1, <2>2, <2>4 DEF TimerInv
<1>6. ASSUME UNCHANGED <<timers, fire>>,
             pc' = pc \/ pc # "fire",
             kind' = kind
                \/ \E p \in Id, k \in {"task", "gather", "http"} :
                      kind' = [kind EXCEPT ![p] = k] /\ kind[p] = "free"
      PROVE  TimerInv'
  BY <1>1, <1>6, TimersUntouched
<1>7. CASE UserStep /\ ~ \E p \in Id : SleepAsync(p)
  <2>1. UNCHANGED timeVars
    BY <1>7, Zenon
    DEF UserStep, Spawn, Gather, HttpBadArgs, HttpSubmit, Await, TryEnter, TryLeave,
        UserThrow, TaskReturn, MainEnd
  <2>2. UserCode
    BY <1>7, Zenon
    DEF UserStep, Spawn, Gather, HttpBadArgs, HttpSubmit, Await, TryEnter, TryLeave,
        UserThrow, TaskReturn, MainEnd
  <2>3. \/ kind' = kind
        \/ \E p \in Id, k \in {"task", "gather", "http"} :
              kind' = [kind EXCEPT ![p] = k] /\ kind[p] = "free"
    <3>1. CASE \E p \in Id : Spawn(p) \/ Gather(p) \/ HttpBadArgs(p) \/ HttpSubmit(p)
      BY <3>1 DEF Spawn, Gather, HttpBadArgs, HttpSubmit, Fresh
    <3>2. CASE ~ \E p \in Id : Spawn(p) \/ Gather(p) \/ HttpBadArgs(p) \/ HttpSubmit(p)
      <4>1. UNCHANGED kind
        BY <1>7, <3>2, Zenon
        DEF UserStep, Await, TryEnter, TryLeave, UserThrow, TaskReturn, MainEnd, promVars
      <4>2. QED
        BY <4>1
    <3>3. QED
      BY <3>1, <3>2
  <2>4. QED
    BY <1>6, <2>1, <2>2, <2>3 DEF timeVars, UserCode
<1>8. CASE LoopStep /\ ~DispatchTimers /\ ~FireTimer
  <2>1. UNCHANGED <<kind, timers, fire>>
    BY <1>8, Zenon
    DEF LoopStep, HttpRegister, AwaitYield, AwaitPump, AwaitReturn, AwaitThrow,
        GatherNext, GatherReturn, PollPending, PollFinished, PollEnd, Resume,
        DispatchIoDone, DispatchIoWait, DispatchNothing, timeVars, promVars
  <2>2. pc # "fire"
    BY <1>8
    DEF LoopStep, HttpRegister, AwaitYield, AwaitPump, AwaitReturn, AwaitThrow, Awaiting,
        GatherNext, GatherReturn, GatherCode, PollPending, PollFinished, PollEnd, Resume,
        DispatchIoDone, DispatchIoWait, DispatchNothing, Idle
  <2>3. QED
    BY <1>6, <2>1, <2>2
<1>9. CASE (\E w \in Workers : WorkerStep(w)) \/ Tick \/ UNCHANGED vars
  <2>1. UNCHANGED <<kind, timers, fire, pc>>
    BY <1>9 DEF WorkerStep, Tick, vars, loopVars, promVars, timeVars, ctlVars
  <2>2. QED
    BY <1>6, <2>1
<1>10. QED
  BY <1>3, <1>4, <1>5, <1>7, <1>8, <1>9 DEF Next, Gone

\* When loop_step finds nothing to run, nothing is left that could run.
LEMMA NothingLeft ==
  ASSUME LoopInv, HttpInv, TimerInv, DispatchNothing
  PROVE  DrainComplete'
<1>1. /\ ready = <<>> /\ timers = {} /\ io = {} /\ pc = "dispatch"
      /\ UNCHANGED <<kind, pst, tpc, timers, io, queue>>
      /\ \A t \in Id : aw'[t] = aw[t]
  BY Numbers
  DEF DispatchNothing, Idle, promVars, taskVars, timeVars, ioVars, poolVars, LoopInv,
      TypeOK, CodeTypes
<1>2. current = 0 /\ reg = 0 /\ fire = {}
  BY <1>1 DEF LoopInv, Control, TimerInv
<1>3. Range(ready) = {}
  BY <1>1, EmptyQueue
<1>4. \A p \in Id : kind[p] \in {"timer", "http"} => pst[p] = 1
  <2> SUFFICES ASSUME NEW p \in Id, kind[p] \in {"timer", "http"}, pst[p] = 0
               PROVE  FALSE
    BY DEF TimerInv, LoopInv, TypeOK, PromTypes
  <2>1. CASE kind[p] = "timer"
    BY <1>1, <1>2, <2>1 DEF TimerInv
  <2>2. CASE kind[p] = "http"
    BY <1>1, <1>2, <2>2, Numbers DEF HttpInv, HttpConsistent
  <2>3. QED
    BY <2>1, <2>2
<1>5. queue = <<>>
  <2> SUFFICES ASSUME queue # <<>>
               PROVE  FALSE
    OBVIOUS
  <2>1. queue \in Seq(Id)
    BY LoopAssumption DEF LoopInv, PoolInv, PoolTypeOK
  <2>2. 1 \in DOMAIN queue /\ queue[1] \in Id
    BY <2>1
  <2>3. alloc[queue[1]] = "live"
    BY <2>2 DEF LoopInv, PoolInv, JobsInUseAreLive
  <2>4. kind[queue[1]] = "http"
    BY <2>2, <2>3 DEF HttpInv, OnlyRequestsHaveJobs
  <2>5. pst[queue[1]] = 1
    BY <1>4, <2>2, <2>4
  <2>6. QED
    BY <2>2, <2>3, <2>4, <2>5 DEF HttpInv, HttpConsistent
<1>6. ASSUME NEW t \in Tasks, tpc[t] # "done"
      PROVE  tpc[t] = "susp" /\ aw[t] \in Tasks /\ tpc[aw[t]] # "done"
  <2>1. t \in Id /\ tpc[t] \in {"new", "run", "susp"} /\ aw[t] \in Ctx
    BY <1>6, Numbers DEF LoopInv, Kinded, TypeOK, TaskTypes, CodeTypes, Tasks
  <2>2. tpc[t] = "susp"
    BY <1>2, <1>3, <2>1, Numbers DEF LoopInv, Scheduling, NoLostTask
  <2>3. aw[t] # 0 /\ pst[aw[t]] = 0
    BY <1>3, <2>1, <2>2 DEF LoopInv, Scheduling, NoLostTask
  <2>4. aw[t] \in Id /\ kind[aw[t]] # "free"
    BY <2>1, <2>3, Numbers DEF LoopInv, Kinded
  <2>5. aw[t] \in Tasks
    <3>1. kind[aw[t]] \in {"free", "task", "gather", "timer", "http"}
      BY <2>4 DEF LoopInv, TypeOK, PromTypes
    <3>2. kind[aw[t]] \notin {"timer", "http"}
      BY <1>4, <2>3, <2>4
    <3>3. QED
      BY <2>4, <3>1, <3>2 DEF Tasks
  <2>6. tpc[aw[t]] # "done"
    BY <2>3, <2>5 DEF LoopInv, Kinded
  <2>7. QED
    BY <2>2, <2>5, <2>6
<1>7. Tasks' = Tasks
  BY <1>1 DEF Tasks
<1>8. QED
  BY <1>1, <1>4, <1>5, <1>6, <1>7 DEF DrainComplete, Tasks

\* Only loop_step with nothing to run ends the drain, and the process is gone.
LEMMA ExitIsDrain ==
  ASSUME [Next]_vars, pc' = "exit"
  PROVE  DispatchNothing \/ UNCHANGED vars
<1> SUFFICES ASSUME ~DispatchNothing, ~UNCHANGED vars
             PROVE  FALSE
  OBVIOUS
<1>1. ASSUME NEW v, Throw(v), pc = "code"
      PROVE  FALSE
  BY <1>1 DEF Throw, Finish, EndSlice, LoopAgain, ctlVars
<1>2. CASE UserStep
  BY <1>1, <1>2
  DEF UserStep, UserCode, Spawn, Gather, SleepAsync, HttpBadArgs, HttpSubmit, Await,
      TryEnter, TryLeave, UserThrow, TaskReturn, MainEnd, Finish, EndSlice, LoopAgain,
      ctlVars
<1>3. CASE LoopStep
  BY <1>1, <1>3
  DEF LoopStep, HttpRegister, AwaitYield, AwaitPump, AwaitReturn, AwaitThrow, Awaiting,
      GatherNext, GatherReturn, GatherCode, PollPending, PollFinished, PollEnd, Resume,
      DispatchIoDone, DispatchTimers, FireTimer, DispatchIoWait, Idle, Finish, EndSlice,
      LoopAgain, ctlVars
<1>4. CASE (\E w \in Workers : WorkerStep(w)) \/ Tick
  BY <1>4 DEF WorkerStep, Tick, Stopped, loopVars, ctlVars
<1>5. QED
  BY <1>2, <1>3, <1>4 DEF Next, Gone

\* A program that exits has left nothing behind that could still run: every
\* timer fired, every request was answered, and a coroutine that is not done
\* awaits one that is not done either.
THEOREM LoopDrains == Spec => []DrainComplete
<1>1. Init => HttpInv /\ TimerInv /\ DrainComplete
  BY LoopAssumption
  DEF Init, PoolInit, HttpInv, OnlyRequestsHaveJobs, HttpConsistent, TimerInv, DrainComplete
<1>2. LoopInv /\ HttpInv /\ TimerInv /\ DrainComplete /\ [Next]_vars => DrainComplete'
  <2> SUFFICES ASSUME LoopInv, HttpInv, TimerInv, DrainComplete, [Next]_vars, pc' = "exit"
               PROVE  DrainComplete'
    BY DEF DrainComplete
  <2>1. CASE DispatchNothing
    BY <2>1, NothingLeft
  <2>2. CASE UNCHANGED vars
    BY <2>2
    DEF DrainComplete, Tasks, vars, loopVars, promVars, taskVars, codeVars, timeVars,
        ioVars, ctlVars, poolVars
  <2>3. QED
    BY <2>1, <2>2, ExitIsDrain
<1>3. QED
  BY <1>1, <1>2, LoopInvariant, HttpInvNext, TimerInvNext, PTL DEF Spec
=============================================================================
