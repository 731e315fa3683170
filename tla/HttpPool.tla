------------------------------ MODULE HttpPool ------------------------------
(***************************************************************************)
(* The worker pool behind http_request_async                               *)
(* (src/src/vm/runtime_bindings.cpp, "Async HTTP").                        *)
(*                                                                         *)
(* The event-loop thread puts a job on a mutex-guarded queue; detached     *)
(* worker threads take jobs, run the blocking request and publish its      *)
(* outcome through the one atomic flag `done`.  The event-loop thread      *)
(* polls the flag, reads the outcome and deletes the job.  Nothing else    *)
(* orders the two sides, so the flag has to be the last thing a worker     *)
(* touches.                                                                *)
(*                                                                         *)
(* A job is named by the promise it will settle.  The text of a request    *)
(* and of its response are abstracted to the outcome "ok" or "err".        *)
(***************************************************************************)
EXTENDS Integers, Sequences

CONSTANTS
    Job,      \* the jobs that can ever be submitted
    Workers,  \* the worker threads of the pool (TULPAR_HTTP_POOL, 1..64)
    NoJob     \* what an idle worker holds

ASSUME PoolAssumption ==
    /\ NoJob \notin Job
    /\ Workers # {}

VARIABLES
    queue,    \* g_http_pool_queue, under g_http_pool_mtx
    holds,    \* holds[w]: the `job` local of worker w
    wpc,      \* wpc[w]: where worker w is in http_pool_worker
    outcome,  \* outcome[j]: job->ok and job->buf/err; "unset" before the write
    done,     \* done[j]: the atomic flag of job j
    alloc     \* alloc[j]: "no" before new, "live", then "freed" after delete

poolVars == <<queue, holds, wpc, outcome, done, alloc>>

Outcomes == {"ok", "err"}

PoolTypeOK ==
    /\ queue \in Seq(Job)
    /\ holds \in [Workers -> Job \cup {NoJob}]
    /\ wpc \in [Workers -> {"idle", "request", "publish"}]
    /\ outcome \in [Job -> Outcomes \cup {"unset"}]
    /\ done \in [Job -> BOOLEAN]
    /\ alloc \in [Job -> {"no", "live", "freed"}]

PoolInit ==
    /\ queue = <<>>
    /\ holds = [w \in Workers |-> NoJob]
    /\ wpc = [w \in Workers |-> "idle"]
    /\ outcome = [j \in Job |-> "unset"]
    /\ done = [j \in Job |-> FALSE]
    /\ alloc = [j \in Job |-> "no"]

-----------------------------------------------------------------------------
(* Worker threads. *)

\* Mutant: the flag is raised when the job is taken, before the outcome exists.
WorkerTake_FlagFirst(w) ==
    /\ wpc[w] = "idle"
    /\ queue # <<>>
    /\ holds' = [holds EXCEPT ![w] = Head(queue)]
    /\ queue' = Tail(queue)
    /\ done' = [done EXCEPT ![Head(queue)] = TRUE]
    /\ wpc' = [wpc EXCEPT ![w] = "request"]
    /\ UNCHANGED <<outcome, alloc>>

\* Mutant: without the mutex a worker may read the front before another erases it.
WorkerTake_NoLock(w) ==
    /\ wpc[w] = "idle"
    /\ queue # <<>>
    /\ holds' = [holds EXCEPT ![w] = Head(queue)]
    /\ queue' \in {queue, Tail(queue)}
    /\ wpc' = [wpc EXCEPT ![w] = "request"]
    /\ UNCHANGED <<outcome, done, alloc>>

\* Mutant: a worker pops a job and forgets it.
WorkerTake_Drops(w) ==
    /\ wpc[w] = "idle"
    /\ queue # <<>>
    /\ queue' = Tail(queue)
    /\ UNCHANGED <<holds, wpc, outcome, done, alloc>>

\* The critical section of http_pool_worker: pop the front job, if any.
WorkerTake(w) ==
    /\ wpc[w] = "idle"
    /\ queue # <<>>
    /\ holds' = [holds EXCEPT ![w] = Head(queue)]
    /\ queue' = Tail(queue)
    /\ wpc' = [wpc EXCEPT ![w] = "request"]
    /\ UNCHANGED <<outcome, done, alloc>>

\* job->ok = http_request_url(...): the request ends one way or the other.
WorkerRequest(w) ==
    /\ wpc[w] = "request"
    /\ \E r \in Outcomes : outcome' = [outcome EXCEPT ![holds[w]] = r]
    /\ wpc' = [wpc EXCEPT ![w] = "publish"]
    /\ UNCHANGED <<queue, holds, done, alloc>>

\* job->done.store(1, release): the worker never touches the job again.
WorkerPublish(w) ==
    /\ wpc[w] = "publish"
    /\ done' = [done EXCEPT ![holds[w]] = TRUE]
    /\ holds' = [holds EXCEPT ![w] = NoJob]
    /\ wpc' = [wpc EXCEPT ![w] = "idle"]
    /\ UNCHANGED <<queue, outcome, alloc>>

Worker(w) == WorkerTake(w) \/ WorkerRequest(w) \/ WorkerPublish(w)

-----------------------------------------------------------------------------
(* The event-loop thread's side. *)

\* The locked push of aot_http_request_async: a new job on the queue.
PoolSubmit(j) ==
    /\ alloc[j] = "no"
    /\ alloc' = [alloc EXCEPT ![j] = "live"]
    /\ queue' = Append(queue, j)
    /\ UNCHANGED <<holds, wpc, outcome, done>>

\* http_async_poll finds the flag raised: it reads the outcome and deletes
\* the job.  (The promise it settles belongs to AsyncLoop.)
PoolCollect(j) ==
    /\ alloc[j] = "live"
    /\ done[j]
    /\ alloc' = [alloc EXCEPT ![j] = "freed"]
    /\ UNCHANGED <<queue, holds, wpc, outcome, done>>

PoolNext ==
    \/ \E w \in Workers : Worker(w)
    \/ \E j \in Job : PoolSubmit(j) \/ PoolCollect(j)

PoolSpec == PoolInit /\ [][PoolNext]_poolVars

-----------------------------------------------------------------------------
(* Correctness. *)

\* No thread touches a job after it was deleted: every job on the queue or in
\* a worker's hands is still allocated and still unpublished (http_async_poll
\* deletes without a lock, so this rests on `done` being stored last).
JobsInUseAreLive ==
    /\ \A i \in DOMAIN queue : alloc[queue[i]] = "live" /\ ~done[queue[i]]
    /\ \A w \in Workers :
          holds[w] # NoJob => alloc[holds[w]] = "live" /\ ~done[holds[w]]

\* No job is lost or handed out twice: an allocated unpublished job is on the
\* queue at one position or held by one worker, never both.
JobsHeldOnce ==
    /\ \A i, k \in DOMAIN queue : queue[i] = queue[k] => i = k
    /\ \A w \in Workers, i \in DOMAIN queue : holds[w] # queue[i]
    /\ \A v, w \in Workers : holds[v] = holds[w] /\ holds[v] # NoJob => v = w
    /\ \A j \in Job : alloc[j] = "live" /\ ~done[j] =>
          \/ \E i \in DOMAIN queue : queue[i] = j
          \/ \E w \in Workers : holds[w] = j

\* A raised flag means the outcome is there: the loop never reads the result
\* fields of a job before its worker wrote them.
PublishedHasOutcome == \A j \in Job : done[j] => outcome[j] \in Outcomes
=============================================================================
