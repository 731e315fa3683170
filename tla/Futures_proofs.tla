--------------------------- MODULE Futures_proofs ---------------------------
(***************************************************************************)
(* What the abstract futures guarantee, for any set of futures and values. *)
(* A runtime shown to implement Futures inherits both theorems.            *)
(***************************************************************************)
EXTENDS Futures, TLAPS

FutTypeOK ==
    /\ status \in [Future -> {"none", "pending"} \cup Settled]
    /\ DOMAIN value = Future
    /\ tasks \subseteq Future
    /\ runnable \subseteq Future
    /\ blocked \in [Future -> SUBSET Future]

\* A future that does not exist yet is nobody's.
Unborn == \A f \in Future : status[f] = "none" => f \notin tasks

FutInv == FutTypeOK /\ Unborn /\ Placed

\* The initial states satisfy the inductive invariant.
LEMMA FutInvInit == FutInit => FutInv
  BY DEF FutInit, FutInv, FutTypeOK, Unborn, Placed, Settled

\* Creating a future keeps every task where it is.
LEMMA CreatePreserves ==
  ASSUME FutInv, NEW f \in Future,
         CreateExternal(f) \/ CreateSettled(f) \/ CreateTask(f)
  PROVE  FutInv'
<1>1. CASE CreateExternal(f)
  BY <1>1 DEF CreateExternal, FutInv, FutTypeOK, Unborn, Placed, Settled
<1>2. CASE CreateSettled(f)
  <2>1. PICK v \in Value : value' = [value EXCEPT ![f] = v]
    BY <1>2 DEF CreateSettled
  <2>2. QED
    BY <1>2, <2>1
    DEF CreateSettled, FutInv, FutTypeOK, Unborn, Placed, Settled
<1>3. CASE CreateTask(f)
  BY <1>3 DEF CreateTask, FutInv, FutTypeOK, Unborn, Placed, Settled
<1>4. QED
  BY <1>1, <1>2, <1>3

\* A task that blocks moves from the runnable tasks to one pending future.
LEMMA BlockPreserves ==
  ASSUME FutInv, NEW f \in Future, NEW t \in Future, Block(t, f)
  PROVE  FutInv'
<1>1. /\ t \in runnable /\ t \in tasks /\ status[f] = "pending"
      /\ status[t] = "pending" /\ \A g \in Future : t \notin blocked[g]
  BY DEF Block, FutInv, FutTypeOK, Placed
<1>2. FutTypeOK' /\ Unborn'
  BY DEF Block, FutInv, FutTypeOK, Unborn
<1>3. \A g \in Future : blocked'[g] = IF g = f THEN blocked[f] \cup {t} ELSE blocked[g]
  BY DEF Block, FutInv, FutTypeOK
<1>4. Placed'
  BY <1>1, <1>3 DEF Block, FutInv, FutTypeOK, Placed
<1>5. QED
  BY <1>2, <1>4 DEF FutInv

\* A settlement moves every task blocked on the future to the runnable ones.
LEMMA SettlePreserves ==
  ASSUME FutInv, NEW f \in Future, Settle(f)
  PROVE  FutInv'
<1>1. PICK s \in Settled, v \in Value :
         /\ status' = [status EXCEPT ![f] = s]
         /\ value' = [value EXCEPT ![f] = v]
  BY DEF Settle
<1>2. /\ status[f] = "pending" /\ (f \in tasks => f \in runnable)
      /\ runnable' = (runnable \ {f}) \cup blocked[f]
      /\ tasks' = tasks
      /\ \A g \in Future : blocked'[g] = IF g = f THEN {} ELSE blocked[g]
  BY DEF Settle, FutInv, FutTypeOK
<1>3. FutTypeOK' /\ Unborn'
  BY <1>1, <1>2 DEF Settle, FutInv, FutTypeOK, Unborn, Settled
<1>4. s \in {"fulfilled", "rejected"}
      /\ \A g \in Future : status'[g] = IF g = f THEN s ELSE status[g]
  BY <1>1 DEF FutInv, FutTypeOK, Settled
<1>5. \A g \in Future : f \notin blocked[g]
  BY <1>2 DEF FutInv, Placed, FutTypeOK
<1>6. Placed'
  BY <1>2, <1>4, <1>5 DEF FutInv, FutTypeOK, Placed
<1>7. QED
  BY <1>3, <1>6 DEF FutInv

\* Every step keeps the inductive invariant.
LEMMA FutInvStep == FutInv /\ [FutNext]_futVars => FutInv'
<1> SUFFICES ASSUME FutInv, [FutNext]_futVars
             PROVE  FutInv'
  OBVIOUS
<1>1. CASE UNCHANGED futVars
  BY <1>1 DEF futVars, FutInv, FutTypeOK, Unborn, Placed
<1>2. CASE FutNext
  BY <1>2, CreatePreserves, BlockPreserves, SettlePreserves DEF FutNext
<1>3. QED
  BY <1>1, <1>2

\* No wake-up is lost and none is delivered twice: an unfinished task can run
\* or is blocked on exactly one pending future.
THEOREM NoLostWakeup == FutSpec => []Placed
<1>1. FutInv => Placed
  BY DEF FutInv
<1>2. QED
  BY <1>1, FutInvInit, FutInvStep, PTL DEF FutSpec

\* Once settled, a future keeps its status and its value for ever.
THEOREM SettledOnce == FutSpec => SettledForEver
<1> DEFINE Kept == \A f \in Future : status[f] \in Settled =>
                      status'[f] = status[f] /\ value'[f] = value[f]
<1>1. FutInv /\ [FutNext]_futVars => [Kept]_futVars
  <2> SUFFICES ASSUME FutInv, FutNext
               PROVE  Kept
    OBVIOUS
  <2>1. PICK f \in Future :
           \/ CreateExternal(f) \/ CreateSettled(f) \/ CreateTask(f)
           \/ \E t \in Future : Block(t, f)
           \/ Settle(f)
    BY DEF FutNext
  <2>2. CASE CreateExternal(f) \/ CreateTask(f)
    BY <2>2 DEF CreateExternal, CreateTask, FutInv, FutTypeOK, Settled
  <2>3. CASE CreateSettled(f)
    BY <2>3 DEF CreateSettled, FutInv, FutTypeOK, Settled
  <2>4. CASE \E t \in Future : Block(t, f)
    BY <2>4 DEF Block
  <2>5. CASE Settle(f)
    BY <2>5 DEF Settle, FutInv, FutTypeOK, Settled
  <2>6. QED
    BY <2>1, <2>2, <2>3, <2>4, <2>5
<1>2. [][Kept]_futVars => SettledForEver
  BY DEF SettledForEver
<1>3. QED
  BY <1>1, <1>2, FutInvInit, FutInvStep, PTL DEF FutSpec
=============================================================================
