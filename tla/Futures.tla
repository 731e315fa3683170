------------------------------ MODULE Futures -------------------------------
(***************************************************************************)
(* What `async func` / `await` promise, with no queues, timers or stacks:  *)
(* a future is settled once and never changes afterwards; a task blocks    *)
(* only on a pending future and the settlement of that future makes every  *)
(* task blocked on it runnable in the same step; a task's own future is    *)
(* settled by that task, when it ends.  AsyncLoop is shown to implement    *)
(* this specification.                                                     *)
(***************************************************************************)
EXTENDS Integers

CONSTANTS
    Future,   \* the futures; a task is named by the future it settles
    Value     \* what a future can be settled with

VARIABLES
    status,   \* status[f]: "none", "pending", "fulfilled" or "rejected"
    value,    \* value[f]: what f was settled with
    tasks,    \* the futures settled by a task
    runnable, \* the tasks that can run
    blocked   \* blocked[f]: the tasks waiting for f

futVars == <<status, value, tasks, runnable, blocked>>

Settled == {"fulfilled", "rejected"}

FutInit ==
    /\ status = [f \in Future |-> "none"]
    /\ value = [f \in Future |-> 0]
    /\ tasks = {}
    /\ runnable = {}
    /\ blocked = [f \in Future |-> {}]

\* A future that a timer or a worker thread will settle.
CreateExternal(f) ==
    /\ status[f] = "none"
    /\ status' = [status EXCEPT ![f] = "pending"]
    /\ UNCHANGED <<value, tasks, runnable, blocked>>

\* A future that is born settled (a request with bad arguments).
CreateSettled(f) ==
    /\ status[f] = "none"
    /\ status' = [status EXCEPT ![f] = "fulfilled"]
    /\ \E v \in Value : value' = [value EXCEPT ![f] = v]
    /\ UNCHANGED <<tasks, runnable, blocked>>

\* An async call or a gather: the new task can run.
CreateTask(f) ==
    /\ status[f] = "none"
    /\ status' = [status EXCEPT ![f] = "pending"]
    /\ tasks' = tasks \cup {f}
    /\ runnable' = runnable \cup {f}
    /\ UNCHANGED <<value, blocked>>

\* A running task awaits a pending future.
Block(t, f) ==
    /\ t \in runnable
    /\ status[f] = "pending"
    /\ runnable' = runnable \ {t}
    /\ blocked' = [blocked EXCEPT ![f] = @ \cup {t}]
    /\ UNCHANGED <<status, value, tasks>>

\* f is settled once; whoever waited for it can run.  The future of a task is
\* settled by that task, which must be able to run and ends by it.
Settle(f) ==
    /\ status[f] = "pending"
    /\ f \in tasks => f \in runnable
    /\ \E s \in Settled : status' = [status EXCEPT ![f] = s]
    /\ \E v \in Value : value' = [value EXCEPT ![f] = v]
    /\ runnable' = (runnable \ {f}) \cup blocked[f]
    /\ blocked' = [blocked EXCEPT ![f] = {}]
    /\ UNCHANGED tasks

FutNext ==
    \E f \in Future :
        \/ CreateExternal(f)
        \/ CreateSettled(f)
        \/ CreateTask(f)
        \/ \E t \in Future : Block(t, f)
        \/ Settle(f)

FutSpec == FutInit /\ [][FutNext]_futVars

-----------------------------------------------------------------------------
(* Consequences of the abstract specification, for every Future and Value. *)

\* An unfinished task is either able to run or blocked on exactly one future,
\* and that future is pending: no wake-up is lost, none is delivered twice.
Placed ==
    /\ runnable \subseteq tasks
    /\ \A f \in Future :
          /\ blocked[f] \subseteq tasks \ runnable
          /\ blocked[f] # {} => status[f] = "pending"
    /\ \A f, g \in Future : f # g => blocked[f] \cap blocked[g] = {}
    /\ \A t \in tasks :
          status[t] = "pending" <=>
              (t \in runnable \/ \E f \in Future : t \in blocked[f])

\* A settled future never changes again.
SettledForEver ==
    [][\A f \in Future : status[f] \in Settled =>
          status'[f] = status[f] /\ value'[f] = value[f]]_futVars
=============================================================================
