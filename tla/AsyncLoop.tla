----------------------------- MODULE AsyncLoop ------------------------------
(***************************************************************************)
(* The async runtime: event loop, stackful coroutines, promises, timers,   *)
(* background I/O (src/runtime/tulpar_async.cpp), the per-coroutine        *)
(* exception contexts it swaps (src/src/vm/runtime_bindings.cpp, aot_try_  *)
(* push ... aot_eh_context_swap), and async HTTP on the pool of HttpPool.  *)
(*                                                                         *)
(* One thread runs main and, through loop_step, every coroutine; the pool  *)
(* workers run beside it.  The program is arbitrary: at each point of user *)
(* code, main or the running coroutine may spawn, sleep, gather, request,  *)
(* await any promise that exists, enter or leave a try, throw, or return.  *)
(*                                                                         *)
(* A promise is a number, given out in order of creation; a coroutine is   *)
(* named by the promise it settles, main by 0.  Values are tokens: 0 is    *)
(* void or any plain value, p what the producer of promise p returned,     *)
(* threw or fetched, -p the error object of HTTP request p.                *)
(***************************************************************************)
EXTENDS HttpPool, Functions

CONSTANTS
    N,          \* bound: promises a run can create
    Sources,    \* the kinds of promise the program creates
    Delays,     \* the arguments of sleep_async
    MaxTime,    \* bound: the clock stops here
    MaxOps,     \* bound: try-enters plus awaits of a whole run
    GatherMax,  \* bound: the arguments of one gather
    EhMax       \* EH_STACK_MAX

Id  == 1..N
Ctx == 0..N     \* stacks: main is 0

ASSUME LoopAssumption ==
    /\ N \in Nat
    /\ Job = Id
    /\ NoJob = 0
    /\ Sources \subseteq {"task", "gather", "timer", "http"}
    /\ Delays \subseteq Int
    /\ MaxTime \in Nat
    /\ MaxOps \in Nat
    /\ GatherMax \in Nat
    /\ EhMax \in Nat \ {0}

VARIABLES
    kind,     \* kind[p]: what settles promise p; "free" before it exists
    pst,      \* p->state: 0 pending, 1 fulfilled, 2 rejected
    val,      \* p->value
    waiters,  \* p->waiters
    tpc,      \* tpc[t]: where coroutine t is
    items,    \* items[t]: gs->items of a gather
    arr,      \* arr[t]: gs->arr, the results collected so far
    aw,       \* aw[c]: the promise stack c is inside aot_await of, or 0
    fuel,     \* what the program has left of MaxOps
    eh,       \* eh[c]: the handler stack of the EhContext of c
    ehCur,    \* eh_cur
    prevEh,   \* the local prev_eh of resume
    ready,    \* g_ready
    timers,   \* g_timers; insertion order is the order of the promises
    dl,       \* dl[p]: the deadline of timer p
    fire,     \* the local vector `fire` of loop_step
    io,       \* g_io_sources; insertion order is the order of the promises
    reg,      \* the request pushed to the pool and not yet registered, or 0
    current,  \* g_current, 0 for null
    now,      \* steady_clock, in units of kIoPollMs
    pc,       \* where the event-loop thread is
    cursor,   \* the last source poll_io_sources looked at
    ioDone,   \* io_done
    drain     \* main returned; aot_event_loop_run drives the loop

promVars == <<kind, pst, val, waiters>>
taskVars == <<tpc, items, arr>>
codeVars == <<aw, fuel>>
ehVars   == <<eh, ehCur, prevEh>>
timeVars == <<timers, dl, fire, now>>
ioVars   == <<io, reg>>
ctlVars  == <<pc, cursor, ioDone, drain>>
loopVars == <<promVars, taskVars, codeVars, ehVars, timeVars, ioVars,
              ready, current, ctlVars>>
vars     == <<loopVars, poolVars>>

Frame == [owner : Ctx, root : BOOLEAN]
Value == (-N)..N

PromTypes ==
    /\ kind \in [Id -> {"free", "task", "gather", "timer", "http"}]
    /\ pst \in [Id -> 0..2]
    /\ val \in [Id -> Value]
    /\ waiters \in [Id -> Seq(Id)]

TaskTypes ==
    /\ tpc \in [Id -> {"none", "new", "run", "susp", "done"}]
    /\ items \in [Id -> Seq(Ctx)]
    /\ arr \in [Id -> Seq(Value)]

CodeTypes ==
    /\ aw \in [Ctx -> Ctx]
    /\ fuel \in 0..MaxOps
    /\ eh \in [Ctx -> Seq(Frame)]
    /\ ehCur \in Ctx
    /\ prevEh \in Ctx

TimeTypes ==
    /\ timers \subseteq Id
    /\ fire \subseteq Id
    /\ dl \in [Id -> 0..MaxTime]
    /\ now \in 0..MaxTime

CtlTypes ==
    /\ io \subseteq Id
    /\ reg \in Ctx
    /\ ready \in Seq(Id)
    /\ current \in Ctx
    /\ pc \in {"code", "register", "poll", "dispatch", "fire", "exit", "abort"}
    /\ cursor \in Ctx

FlagTypes ==
    /\ ioDone \in BOOLEAN
    /\ drain \in BOOLEAN

TypeOK ==
    /\ PoolTypeOK /\ PromTypes /\ TaskTypes /\ CodeTypes
    /\ TimeTypes /\ CtlTypes /\ FlagTypes

Init ==
    /\ PoolInit
    /\ kind = [p \in Id |-> "free"]
    /\ pst = [p \in Id |-> 0]
    /\ val = [p \in Id |-> 0]
    /\ waiters = [p \in Id |-> <<>>]
    /\ tpc = [p \in Id |-> "none"]
    /\ items = [p \in Id |-> <<>>]
    /\ arr = [p \in Id |-> <<>>]
    /\ aw = [c \in Ctx |-> 0]
    /\ fuel = MaxOps
    /\ eh = [c \in Ctx |-> <<>>]
    /\ ehCur = 0 /\ prevEh = 0 /\ current = 0 /\ reg = 0
    /\ ready = <<>>
    /\ timers = {} /\ fire = {} /\ io = {}
    /\ dl = [p \in Id |-> 0]
    /\ now = 0
    /\ pc = "code"
    /\ cursor = 0
    /\ ioDone = FALSE /\ drain = FALSE

-----------------------------------------------------------------------------
(* Helpers. *)

Stopped == pc \in {"exit", "abort"}

Top(s) == s[Len(s)]
Pop(s) == SubSeq(s, 1, Len(s) - 1)

Larger(a, b)  == IF a < b THEN b ELSE a
Smaller(a, b) == IF a < b THEN a ELSE b

\* aot_promise_new hands out the promises in order.
Fresh(p) == kind[p] = "free" /\ \A q \in Id : q < p => kind[q] # "free"

\* loop_step returned true: main re-tests its await, or the drain goes on.
LoopAgain ==
    /\ pc' = IF drain THEN "poll" ELSE "code"
    /\ cursor' = 0
    /\ ioDone' = FALSE
    /\ UNCHANGED drain

\* Mutant: only the first waiter is woken, the others are dropped.
Settle_WakesOne(p, v, s) ==
    IF pst[p] # 0
    THEN UNCHANGED <<pst, val, ready, waiters>>
    ELSE /\ pst' = [pst EXCEPT ![p] = s]
         /\ val' = [val EXCEPT ![p] = v]
         /\ ready' = ready \o SubSeq(waiters[p], 1, Smaller(1, Len(waiters[p])))
         /\ waiters' = [waiters EXCEPT ![p] = <<>>]

\* aot_promise_settle.
Settle(p, v, s) ==
    IF pst[p] # 0
    THEN UNCHANGED <<pst, val, ready, waiters>>
    ELSE /\ pst' = [pst EXCEPT ![p] = s]
         /\ val' = [val EXCEPT ![p] = v]
         /\ ready' = ready \o waiters[p]
         /\ waiters' = [waiters EXCEPT ![p] = <<>>]

\* Mutant: the caller's handler context is not swapped back.
EndSlice_KeepsEh ==
    /\ current' = 0
    /\ UNCHANGED <<ehCur, prevEh>>
    /\ LoopAgain

\* The end of resume(): the caller's handler context is back.
EndSlice ==
    /\ ehCur' = prevEh
    /\ current' = 0
    /\ UNCHANGED prevEh
    /\ LoopAgain

\* The end of task_body and the `if (t->done)` of resume(): the promise is
\* settled, the handler context freed.
Finish(t, v, s) ==
    /\ Settle(t, v, s)
    /\ tpc' = [tpc EXCEPT ![t] = "done"]
    /\ eh' = [eh EXCEPT ![t] = <<>>]
    /\ EndSlice

\* aot_throw: control goes to the top handler of eh_cur.  A try resumes user
\* code; the root frame of task_body rejects the promise; with no handler the
\* process prints the exception and exits.
Throw(v) ==
    \/ /\ eh[ehCur] = <<>>
       /\ pc' = "abort"
       /\ UNCHANGED <<pst, val, ready, waiters, tpc, ehVars, current,
                      cursor, ioDone, drain>>
    \/ /\ eh[ehCur] # <<>>
       /\ ~Top(eh[ehCur]).root
       /\ eh' = [eh EXCEPT ![ehCur] = Pop(@)]
       /\ UNCHANGED <<pst, val, ready, waiters, tpc, ehCur, prevEh, current,
                      ctlVars>>
    \/ /\ eh[ehCur] # <<>>
       /\ Top(eh[ehCur]).root
       /\ Finish(Top(eh[ehCur]).owner, v, 2)

-----------------------------------------------------------------------------
(* User code, on main or in a coroutine that runs a user function. *)

UserCode ==
    /\ pc = "code"
    /\ aw[current] = 0
    /\ current # 0 => kind[current] = "task"

\* aot_async_spawn: the task is queued, not run.
Spawn(p) ==
    /\ UserCode /\ Fresh(p) /\ "task" \in Sources
    /\ kind' = [kind EXCEPT ![p] = "task"]
    /\ tpc' = [tpc EXCEPT ![p] = "new"]
    /\ ready' = Append(ready, p)
    /\ UNCHANGED <<pst, val, waiters, items, arr, codeVars, ehVars, timeVars,
                   ioVars, current, ctlVars, poolVars>>

\* The argument lists of gather: promises that exist and plain values.
GatherArgs ==
    UNION {[1..n -> {0} \cup {q \in Id : kind[q] # "free"}] : n \in 0..GatherMax}

\* aot_gather.
Gather(p) ==
    /\ UserCode /\ Fresh(p) /\ "gather" \in Sources
    /\ kind' = [kind EXCEPT ![p] = "gather"]
    /\ tpc' = [tpc EXCEPT ![p] = "new"]
    /\ \E s \in GatherArgs : items' = [items EXCEPT ![p] = s]
    /\ ready' = Append(ready, p)
    /\ UNCHANGED <<pst, val, waiters, arr, codeVars, ehVars, timeVars, ioVars,
                   current, ctlVars, poolVars>>

\* Mutant: the delay is not clamped at 0.
SleepAsync_NoClamp(p) ==
    /\ UserCode /\ Fresh(p) /\ "timer" \in Sources
    /\ \E d \in Delays : now + d <= MaxTime /\ dl' = [dl EXCEPT ![p] = now + d]
    /\ kind' = [kind EXCEPT ![p] = "timer"]
    /\ timers' = timers \cup {p}
    /\ UNCHANGED <<pst, val, waiters, taskVars, codeVars, ehVars, fire, now,
                   ioVars, ready, current, ctlVars, poolVars>>

\* aot_sleep_async: a negative delay counts as 0.
SleepAsync(p) ==
    /\ UserCode /\ Fresh(p) /\ "timer" \in Sources
    /\ \E d \in Delays :
          /\ now + Larger(d, 0) <= MaxTime
          /\ dl' = [dl EXCEPT ![p] = now + Larger(d, 0)]
    /\ kind' = [kind EXCEPT ![p] = "timer"]
    /\ timers' = timers \cup {p}
    /\ UNCHANGED <<pst, val, waiters, taskVars, codeVars, ehVars, fire, now,
                   ioVars, ready, current, ctlVars, poolVars>>

\* aot_http_request_async with arguments that are not strings.
HttpBadArgs(p) ==
    /\ UserCode /\ Fresh(p) /\ "http" \in Sources
    /\ kind' = [kind EXCEPT ![p] = "http"]
    /\ pst' = [pst EXCEPT ![p] = 1]
    /\ val' = [val EXCEPT ![p] = -p]
    /\ UNCHANGED <<waiters, taskVars, codeVars, ehVars, timeVars, ioVars, ready,
                   current, ctlVars, poolVars>>

\* aot_http_request_async up to the unlock: a worker may take the job now.
HttpSubmit(p) ==
    /\ UserCode /\ Fresh(p) /\ "http" \in Sources
    /\ kind' = [kind EXCEPT ![p] = "http"]
    /\ PoolSubmit(p)
    /\ reg' = p
    /\ pc' = "register"
    /\ UNCHANGED <<pst, val, waiters, taskVars, codeVars, ehVars, timeVars, io,
                   ready, current, cursor, ioDone, drain>>

\* aot_io_register, after the job is already with the pool.
HttpRegister ==
    /\ pc = "register"
    /\ io' = io \cup {reg}
    /\ reg' = 0
    /\ pc' = "code"
    /\ UNCHANGED <<promVars, taskVars, codeVars, ehVars, timeVars, ready,
                   current, cursor, ioDone, drain, poolVars>>

\* aot_try_push of a user try.  (On a full stack the code calls setjmp on a
\* null buffer; TryCatch models that, here the stack has room.)
TryEnter ==
    /\ UserCode
    /\ fuel > 0
    /\ Len(eh[ehCur]) < EhMax
    /\ eh' = [eh EXCEPT ![ehCur] = Append(@, [owner |-> current, root |-> FALSE])]
    /\ fuel' = fuel - 1
    /\ UNCHANGED <<promVars, taskVars, aw, ehCur, prevEh, timeVars, ioVars,
                   ready, current, ctlVars, poolVars>>

\* aot_try_pop at the end of a try block.
TryLeave ==
    /\ UserCode
    /\ eh[ehCur] # <<>>
    /\ ~Top(eh[ehCur]).root
    /\ eh' = [eh EXCEPT ![ehCur] = Pop(@)]
    /\ UNCHANGED <<promVars, taskVars, codeVars, ehCur, prevEh, timeVars, ioVars,
                   ready, current, ctlVars, poolVars>>

\* A throw statement.
UserThrow ==
    /\ UserCode
    /\ Throw(current)
    /\ UNCHANGED <<kind, items, arr, codeVars, timeVars, ioVars, poolVars>>

\* The user function of a coroutine returns, out of any number of tries.
TaskReturn ==
    /\ UserCode /\ current # 0
    /\ Finish(current, current, 1)
    /\ UNCHANGED <<kind, items, arr, codeVars, timeVars, ioVars, poolVars>>

\* Main reaches its end: the backend emits aot_event_loop_run there.
MainEnd ==
    /\ UserCode /\ current = 0
    /\ drain' = TRUE
    /\ pc' = "poll"
    /\ UNCHANGED <<promVars, taskVars, codeVars, ehVars, timeVars, ioVars, ready,
                   current, cursor, ioDone, poolVars>>

-----------------------------------------------------------------------------
(* aot_await. *)

\* Entry.  An await of a plain value or of a fulfilled promise returns at once
\* and changes nothing: it is no step here.
Await(p) ==
    /\ UserCode
    /\ fuel > 0
    /\ kind[p] # "free" /\ pst[p] # 1
    /\ aw' = [aw EXCEPT ![current] = p]
    /\ fuel' = fuel - 1
    /\ UNCHANGED <<promVars, taskVars, ehVars, timeVars, ioVars, ready, current,
                   ctlVars, poolVars>>

Awaiting == pc = "code" /\ aw[current] # 0

\* Mutant: the coroutine yields without registering as a waiter.
AwaitYield_NoRegister ==
    /\ Awaiting /\ current # 0
    /\ pst[aw[current]] = 0
    /\ tpc' = [tpc EXCEPT ![current] = "susp"]
    /\ EndSlice
    /\ UNCHANGED <<promVars, items, arr, codeVars, eh, timeVars, ioVars, ready,
                   poolVars>>

\* In a coroutine, still pending: register as a waiter and yield.
AwaitYield ==
    /\ Awaiting /\ current # 0
    /\ pst[aw[current]] = 0
    /\ waiters' = [waiters EXCEPT ![aw[current]] = Append(@, current)]
    /\ tpc' = [tpc EXCEPT ![current] = "susp"]
    /\ EndSlice
    /\ UNCHANGED <<kind, pst, val, items, arr, codeVars, eh, timeVars, ioVars,
                   ready, poolVars>>

\* On main, still pending: pump the loop.
AwaitPump ==
    /\ Awaiting /\ current = 0
    /\ pst[aw[0]] = 0
    /\ pc' = "poll"
    /\ UNCHANGED <<promVars, taskVars, codeVars, ehVars, timeVars, ioVars, ready,
                   current, cursor, ioDone, drain, poolVars>>

\* Mutant: gather_body stores each result at the front.
AwaitReturn_PushFront ==
    /\ Awaiting
    /\ pst[aw[current]] = 1
    /\ aw' = [aw EXCEPT ![current] = 0]
    /\ IF current # 0 /\ kind[current] = "gather"
       THEN arr' = [arr EXCEPT ![current] = <<val[aw[current]]>> \o @]
       ELSE UNCHANGED arr
    /\ UNCHANGED <<promVars, tpc, items, fuel, ehVars, timeVars, ioVars, ready,
                   current, ctlVars, poolVars>>

\* Fulfilled: the value goes to user code, or gather_body pushes it.
AwaitReturn ==
    /\ Awaiting
    /\ pst[aw[current]] = 1
    /\ aw' = [aw EXCEPT ![current] = 0]
    /\ IF current # 0 /\ kind[current] = "gather"
       THEN arr' = [arr EXCEPT ![current] = Append(@, val[aw[current]])]
       ELSE UNCHANGED arr
    /\ UNCHANGED <<promVars, tpc, items, fuel, ehVars, timeVars, ioVars, ready,
                   current, ctlVars, poolVars>>

\* Rejected: aot_throw_ptr in the awaiter.
AwaitThrow ==
    /\ Awaiting
    /\ pst[aw[current]] = 2
    /\ aw' = [aw EXCEPT ![current] = 0]
    /\ Throw(val[aw[current]])
    /\ UNCHANGED <<kind, items, arr, fuel, timeVars, ioVars, poolVars>>

-----------------------------------------------------------------------------
(* gather_body. *)

GatherCode == pc = "code" /\ current # 0 /\ kind[current] = "gather" /\ aw[current] = 0

\* aot_await of the next item; a plain value passes through.
GatherNext ==
    /\ GatherCode
    /\ Len(arr[current]) < Len(items[current])
    /\ LET i == items[current][Len(arr[current]) + 1] IN
          IF i = 0
          THEN arr' = [arr EXCEPT ![current] = Append(@, 0)] /\ UNCHANGED aw
          ELSE aw' = [aw EXCEPT ![current] = i] /\ UNCHANGED arr
    /\ UNCHANGED <<promVars, tpc, items, fuel, ehVars, timeVars, ioVars, ready,
                   current, ctlVars, poolVars>>

\* All collected: the gather coroutine returns the array.
GatherReturn ==
    /\ GatherCode
    /\ Len(arr[current]) = Len(items[current])
    /\ Finish(current, current, 1)
    /\ UNCHANGED <<kind, items, arr, codeVars, timeVars, ioVars, poolVars>>

-----------------------------------------------------------------------------
(* loop_step: poll_io_sources. *)

NextSource(p) == p \in io /\ p > cursor /\ \A q \in io : q > cursor => p <= q

\* http_async_poll of a request still in flight.
PollPending(p) ==
    /\ pc = "poll" /\ NextSource(p)
    /\ ~done[p]
    /\ cursor' = p
    /\ UNCHANGED <<promVars, taskVars, codeVars, ehVars, timeVars, ioVars, ready,
                   current, pc, ioDone, drain, poolVars>>

\* Mutant: the finished source stays registered.
PollFinished_KeepsSource(p) ==
    /\ pc = "poll" /\ NextSource(p)
    /\ PoolCollect(p)
    /\ Settle(p, IF outcome[p] = "ok" THEN p ELSE -p, 1)
    /\ ioDone' = TRUE
    /\ cursor' = p
    /\ UNCHANGED <<kind, taskVars, codeVars, ehVars, timeVars, ioVars, current, pc,
                   drain>>

\* http_async_poll of a finished request: it fulfils the promise with the
\* response or with an error object, deletes the job, and the loop drops it.
PollFinished(p) ==
    /\ pc = "poll" /\ NextSource(p)
    /\ PoolCollect(p)
    /\ Settle(p, IF outcome[p] = "ok" THEN p ELSE -p, 1)
    /\ io' = io \ {p}
    /\ ioDone' = TRUE
    /\ cursor' = p
    /\ UNCHANGED <<kind, taskVars, codeVars, ehVars, timeVars, reg, current, pc,
                   drain>>

PollEnd ==
    /\ pc = "poll"
    /\ \A q \in io : q <= cursor
    /\ pc' = "dispatch"
    /\ UNCHANGED <<promVars, taskVars, codeVars, ehVars, timeVars, ioVars, ready,
                   current, cursor, ioDone, drain, poolVars>>

-----------------------------------------------------------------------------
(* loop_step: the choice of what to run. *)

\* resume(): install the coroutine's handler context and switch to it.  A new
\* coroutine enters task_body, which pushes its root frame.
Resume ==
    /\ pc = "dispatch" /\ ready # <<>>
    /\ LET t == Head(ready) IN
          /\ current' = t
          /\ prevEh' = ehCur
          /\ ehCur' = t
          /\ eh' = IF tpc[t] = "new"
                   THEN [eh EXCEPT ![t] = <<[owner |-> t, root |-> TRUE]>>]
                   ELSE eh
          /\ tpc' = [tpc EXCEPT ![t] = "run"]
    /\ ready' = Tail(ready)
    /\ pc' = "code"
    /\ UNCHANGED <<promVars, items, arr, codeVars, timeVars, ioVars, cursor,
                   ioDone, drain, poolVars>>

Idle == pc = "dispatch" /\ ready = <<>>

\* A source finished but woke nobody.
DispatchIoDone ==
    /\ Idle /\ ioDone
    /\ LoopAgain
    /\ UNCHANGED <<promVars, taskVars, codeVars, ehVars, timeVars, ioVars, ready,
                   current, poolVars>>

Earliest(p) == p \in timers /\ \A q \in timers : dl[p] <= dl[q]

\* When loop_step wakes at the earliest: at the earliest deadline, that of p,
\* kIoPollMs from now at most while I/O is outstanding.
WakeTime(p) ==
    Larger(now, IF io # {} THEN Smaller(dl[p], now + 1) ELSE dl[p])

\* Mutant: the earliest timers fire although the sleep was cut short.
DispatchTimers_FiresFirst ==
    /\ Idle /\ ~ioDone
    /\ \E p \in timers : Earliest(p) /\ now' \in WakeTime(p)..MaxTime
    /\ fire' = {p \in timers : Earliest(p)}
    /\ timers' = timers \ fire'
    /\ pc' = "fire"
    /\ UNCHANGED <<promVars, taskVars, codeVars, ehVars, dl, ioVars, ready,
                   current, cursor, ioDone, drain, poolVars>>

\* Sleep (at least that long), then take every timer that is due.
DispatchTimers ==
    /\ Idle /\ ~ioDone
    /\ \E p \in timers : Earliest(p) /\ now' \in WakeTime(p)..MaxTime
    /\ fire' = {p \in timers : dl[p] <= now'}
    /\ timers' = timers \ fire'
    /\ IF fire' = {}
       THEN LoopAgain
       ELSE pc' = "fire" /\ UNCHANGED <<cursor, ioDone, drain>>
    /\ UNCHANGED <<promVars, taskVars, codeVars, ehVars, dl, ioVars, ready,
                   current, poolVars>>

\* Settle the due timers in the order they were created.
FireTimer ==
    /\ pc = "fire"
    /\ \E p \in fire :
          /\ \A q \in fire : p <= q
          /\ Settle(p, 0, 1)
          /\ fire' = fire \ {p}
    /\ IF fire' = {} THEN LoopAgain ELSE UNCHANGED ctlVars
    /\ UNCHANGED <<kind, taskVars, codeVars, ehVars, timers, dl, now, ioVars,
                   current, poolVars>>

\* No task and no timer, but a worker is still busy: poll again in a while.
DispatchIoWait ==
    /\ Idle /\ ~ioDone /\ timers = {} /\ io # {}
    /\ now' = Smaller(now + 1, MaxTime)
    /\ LoopAgain
    /\ UNCHANGED <<promVars, taskVars, codeVars, ehVars, timers, dl, fire, ioVars,
                   ready, current, poolVars>>

\* Mutant: outstanding I/O does not keep the loop alive.
DispatchNothing_IgnoresIo ==
    /\ Idle /\ ~ioDone /\ timers = {}
    /\ pc' = IF drain THEN "exit" ELSE "code"
    /\ aw' = [aw EXCEPT ![0] = 0]
    /\ cursor' = 0
    /\ UNCHANGED <<promVars, taskVars, fuel, ehVars, timeVars, ioVars, ready,
                   current, ioDone, drain, poolVars>>

\* loop_step returns false: a main await gives up and returns p->value, the
\* drain is over and the process exits.
DispatchNothing ==
    /\ Idle /\ ~ioDone /\ timers = {} /\ io = {}
    /\ pc' = IF drain THEN "exit" ELSE "code"
    /\ aw' = [aw EXCEPT ![0] = 0]
    /\ cursor' = 0
    /\ UNCHANGED <<promVars, taskVars, fuel, ehVars, timeVars, ioVars, ready,
                   current, ioDone, drain, poolVars>>

-----------------------------------------------------------------------------
(* The threads. *)

UserStep ==
    \/ \E p \in Id : \/ Spawn(p) \/ Gather(p) \/ SleepAsync(p)
                     \/ HttpBadArgs(p) \/ HttpSubmit(p) \/ Await(p)
    \/ TryEnter \/ TryLeave \/ UserThrow \/ TaskReturn \/ MainEnd

LoopStep ==
    \/ HttpRegister
    \/ AwaitYield \/ AwaitPump \/ AwaitReturn \/ AwaitThrow
    \/ GatherNext \/ GatherReturn
    \/ \E p \in Id : PollPending(p) \/ PollFinished(p)
    \/ PollEnd
    \/ Resume \/ DispatchIoDone \/ DispatchTimers \/ FireTimer
    \/ DispatchIoWait \/ DispatchNothing

\* A pool worker; the process' exit ends it.
WorkerStep(w) == ~Stopped /\ Worker(w) /\ UNCHANGED loopVars

\* Time passes while code runs.
Tick ==
    /\ ~Stopped /\ now < MaxTime
    /\ now' = now + 1
    /\ UNCHANGED <<promVars, taskVars, codeVars, ehVars, timers, dl, fire, ioVars,
                   ready, current, ctlVars, poolVars>>

\* The process is gone.
Gone == Stopped /\ UNCHANGED vars

Next ==
    \/ UserStep \/ LoopStep
    \/ \E w \in Workers : WorkerStep(w)
    \/ Tick
    \/ Gone

Spec == Init /\ [][Next]_vars

\* The OS schedules the event-loop thread and every worker, and a request ends
\* (http_request_url has a timeout).  Nothing is assumed of the clock.
Fairness ==
    /\ WF_vars(UserStep \/ LoopStep)
    /\ \A w \in Workers : WF_vars(WorkerStep(w))

FairSpec == Spec /\ Fairness

-----------------------------------------------------------------------------
(* Correctness. *)

Tasks == {p \in Id : kind[p] \in {"task", "gather"}}

\* The ready queue holds no coroutine twice, and only coroutines that can go
\* on: new ones, and suspended ones whose awaited promise is settled.
ReadyCanRun ==
    /\ IsInjective(ready)
    /\ \A t \in Range(ready) :
          tpc[t] = "new" \/ (tpc[t] = "susp" /\ pst[aw[t]] # 0)

\* A waiter list holds no coroutine twice, only coroutines suspended on that
\* promise, and is empty once the promise is settled.
WaitersAwait ==
    \A p \in Id :
        /\ IsInjective(waiters[p])
        /\ \A t \in Range(waiters[p]) : tpc[t] = "susp" /\ aw[t] = p
        /\ pst[p] # 0 => waiters[p] = <<>>

\* No coroutine is lost: a new one is queued; a suspended one is in the waiter
\* list of the pending promise it awaits, or queued once that is settled.
NoLostTask ==
    \A t \in Id :
        /\ tpc[t] = "new" => t \in Range(ready)
        /\ tpc[t] = "run" => current = t
        /\ tpc[t] = "susp" =>
              /\ aw[t] # 0
              /\ t \in IF pst[aw[t]] = 0 THEN Range(waiters[aw[t]]) ELSE Range(ready)

\* Every coroutine that can go on is queued exactly once and every coroutine
\* that cannot is on exactly one waiter list (aot_await, aot_promise_settle).
Scheduling == ReadyCanRun /\ WaitersAwait /\ NoLostTask

\* A timer's promise is not settled before its deadline, although loop_step
\* wakes early while I/O is outstanding.
NoEarlyTimer ==
    [][\A p \in Id : kind[p] = "timer" /\ pst[p] = 0 /\ pst'[p] # 0
          => dl[p] <= now]_vars

\* A throw never crosses stacks: the active handler context is that of the
\* code that runs, holds only frames set by it, and has the root frame of
\* task_body at its bottom exactly when that code is a coroutine.
ThrowStaysOnStack ==
    /\ ehCur = current
    /\ \A c \in Ctx : \A i \in DOMAIN eh[c] :
          eh[c][i].owner = c /\ (eh[c][i].root <=> c # 0 /\ i = 1)
    /\ \A t \in Id : tpc[t] \in {"run", "susp"} <=> eh[t] # <<>>

\* gather fulfils with its items' values in argument order, whatever order they
\* settled in, and rejects with the exception of an item before which, in
\* argument order, all are fulfilled.
GatherInOrder ==
    \A p \in Id : kind[p] = "gather" =>
        /\ pst[p] = 1 =>
              /\ Len(arr[p]) = Len(items[p])
              /\ \A i \in DOMAIN items[p] :
                    IF items[p][i] = 0
                    THEN arr[p][i] = 0
                    ELSE /\ pst[items[p][i]] = 1
                         /\ arr[p][i] = val[items[p][i]]
        /\ pst[p] = 2 =>
              \E i \in DOMAIN items[p] :
                 /\ items[p][i] # 0 /\ pst[items[p][i]] = 2
                 /\ val[p] = val[items[p][i]]
                 /\ \A k \in 1..(i - 1) : items[p][k] = 0 \/ pst[items[p][k]] = 1

\* A request's promise, its job and its registration move together: a source
\* the loop still polls has a pending promise and a live job, a settled request
\* was answered with what its worker wrote and its job is gone.
HttpConsistent ==
    \A p \in Id : kind[p] = "http" =>
        /\ pst[p] = 0 => (p \in io \/ p = reg) /\ alloc[p] = "live"
        /\ pst[p] # 0 =>
              /\ p \notin io /\ p # reg
              /\ \/ alloc[p] = "no" /\ val[p] = -p
                 \/ /\ alloc[p] = "freed"
                    /\ val[p] = IF outcome[p] = "ok" THEN p ELSE -p

\* The drain at program exit leaves nothing behind that could still run: every
\* timer fired, every request was answered, and a coroutine that is not done
\* awaits a coroutine that is not done either (so it is behind a cycle).
DrainComplete ==
    pc = "exit" =>
        /\ timers = {} /\ io = {} /\ queue = <<>>
        /\ \A p \in Id : kind[p] \in {"timer", "http"} => pst[p] = 1
        /\ \A t \in Tasks : tpc[t] # "done" =>
              /\ tpc[t] = "susp"
              /\ aw[t] \in Tasks /\ tpc[aw[t]] # "done"

\* Under the OS' fairness every program whose user code ends comes to an end:
\* the loop never spins for ever on sources, timers or ready coroutines.
Terminates == <>Stopped

-----------------------------------------------------------------------------
(* The abstract specification this one implements. *)

absStatus ==
    [p \in Id |-> IF kind[p] = "free" THEN "none"
                  ELSE IF pst[p] = 0 THEN "pending"
                  ELSE IF pst[p] = 1 THEN "fulfilled" ELSE "rejected"]

Fut == INSTANCE Futures WITH
    Future   <- Id,
    status   <- absStatus,
    value    <- val,
    tasks    <- Tasks,
    runnable <- Range(ready) \cup ({current} \ {0}),
    blocked  <- [p \in Id |-> Range(waiters[p])]

\* The queues, waiter lists, timers and workers of the runtime implement
\* settle-once futures with atomic wake-up.
ImplementsFutures == Fut!FutSpec

-----------------------------------------------------------------------------
(* What the documentation says and the code does not do. *)

\* tests/async.test.tpr: the shorter of two sleeps settles first.  Coroutines
\* woken by timers would then be queued in the order of their deadlines.
TimersWakeByDeadline ==
    \A i, k \in DOMAIN ready :
        /\ i < k
        /\ tpc[ready[i]] = "susp" /\ kind[aw[ready[i]]] = "timer"
        /\ tpc[ready[k]] = "susp" /\ kind[aw[ready[k]]] = "timer"
        => dl[aw[ready[i]]] <= dl[aw[ready[k]]]

\* tulpar_async.h: await on the main thread drives the loop until p settles.
MainAwaitSettles ==
    [][aw[0] # 0 /\ aw'[0] = 0 => pst[aw[0]] # 0]_vars
=============================================================================
