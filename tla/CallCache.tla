------------------------------ MODULE CallCache -----------------------------
(***************************************************************************)
(* The cache of dlsym results behind call()                                *)
(* (src/src/vm/runtime_bindings.cpp, "Dynamic-call dlsym cache").          *)
(*                                                                         *)
(* A fixed table with linear probing, shared by the threads of a worker    *)
(* pool.  A lookup takes no lock: it walks from the home slot of the name  *)
(* and stops at the first slot whose key is null.  An insert holds a mutex,*)
(* looks for the name again, writes the fields of the first empty slot and *)
(* stores its key last, because the key is what a lookup reads first.      *)
(* Slots are never emptied; when the table is full the insert is dropped.  *)
(*                                                                         *)
(* A name is compared by hash, length and text; here a slot's klen and     *)
(* khash are the name they were computed from.  A function is named by its *)
(* symbol.                                                                 *)
(***************************************************************************)
EXTENDS Integers, DynamicCall

CONSTANTS
    CacheSlots,  \* AOT_CALL_CACHE_SLOTS
    HomeSlot     \* HomeSlot[n]: the hash of n masked to a slot

ASSUME CacheAssumption ==
    /\ CacheSlots \in Nat \ {0}
    /\ HomeSlot \in [Names -> 0..(CacheSlots - 1)]
    /\ NoName \notin Names \cup Callers
    /\ Exported \subseteq Names

VARIABLES
    ccKey,   \* ccKey[i]: the key of slot i, NoName while null
    ccMeta,  \* ccMeta[i]: the name klen and khash of slot i were computed from
    ccPtr,   \* ccPtr[i]: the function pointer of slot i
    ccLock,  \* the thread that holds g_call_cache_mu, or NoName
    ccPc,    \* ccPc[c]: where thread c is in aot_call_dynamic
    ccStep   \* ccStep[c]: the probe's step counter

cacheVars == <<ccReq, ccRun, ccKey, ccMeta, ccPtr, ccLock, ccPc, ccStep>>

table == <<ccKey, ccMeta, ccPtr>>

SlotIds == 0..(CacheSlots - 1)

CacheTypeOK ==
    /\ ccReq \in [Callers -> Names \cup {NoName}]
    /\ ccRun \in [Callers -> Names \cup {NoName}]
    /\ ccKey \in [SlotIds -> Names \cup {NoName}]
    /\ ccMeta \in [SlotIds -> Names \cup {NoName}]
    /\ ccPtr \in [SlotIds -> Names \cup {NoName}]
    /\ ccLock \in Callers \cup {NoName}
    /\ ccPc \in [Callers -> {"idle", "lookup", "dlsym", "lock", "insert",
                             "publish", "run"}]
    /\ ccStep \in [Callers -> SlotIds]

CacheInit ==
    /\ DynInit
    /\ ccKey = [i \in SlotIds |-> NoName]
    /\ ccMeta = [i \in SlotIds |-> NoName]
    /\ ccPtr = [i \in SlotIds |-> NoName]
    /\ ccLock = NoName
    /\ ccPc = [c \in Callers |-> "idle"]
    /\ ccStep = [c \in Callers |-> 0]

\* The slot k steps from the home slot of n.
Slot(n, k) == (HomeSlot[n] + k) % CacheSlots

\* The slot thread c is looking at.
At(c) == Slot(ccReq[c], ccStep[c])

\* That slot holds the name c looks for.
Match(c) == ccKey[At(c)] = ccReq[c] /\ ccMeta[At(c)] = ccReq[c]

Goto(c, pc) == ccPc' = [ccPc EXCEPT ![c] = pc]

\* The next step of a probe, or pc when every slot was looked at.
Advance(c, pc) ==
    \/ /\ ccStep[c] < CacheSlots - 1
       /\ ccStep' = [ccStep EXCEPT ![c] = @ + 1]
       /\ UNCHANGED ccPc
    \/ /\ ccStep[c] = CacheSlots - 1
       /\ ccStep' = [ccStep EXCEPT ![c] = 0]
       /\ Goto(c, pc)

\* The function found starts.
Run(c, f) ==
    /\ ccRun' = [ccRun EXCEPT ![c] = f]
    /\ Goto(c, "run")
    /\ ccStep' = [ccStep EXCEPT ![c] = 0]

-----------------------------------------------------------------------------
(* aot_call_dynamic and aot_call_cache_lookup *)

\* call(n): hash the name and start probing.
CacheCall(c, n) ==
    /\ ccPc[c] = "idle"
    /\ ccReq' = [ccReq EXCEPT ![c] = n]
    /\ Goto(c, "lookup")
    /\ UNCHANGED <<ccRun, table, ccLock, ccStep>>

\* The lookup meets a null key: the name is not cached.
CacheMiss(c) ==
    /\ ccPc[c] = "lookup"
    /\ ccKey[At(c)] = NoName
    /\ Goto(c, "dlsym")
    /\ ccStep' = [ccStep EXCEPT ![c] = 0]
    /\ UNCHANGED <<ccReq, ccRun, table, ccLock>>

\* The lookup finds the name and takes the pointer next to it.
CacheHit(c) ==
    /\ ccPc[c] = "lookup"
    /\ Match(c)
    /\ Run(c, ccPtr[At(c)])
    /\ UNCHANGED <<ccReq, table, ccLock>>

\* Another name is there: on to the next slot, or give up after the last.
CacheProbe(c) ==
    /\ ccPc[c] = "lookup"
    /\ ccKey[At(c)] # NoName /\ ~Match(c)
    /\ Advance(c, "dlsym")
    /\ UNCHANGED <<ccReq, ccRun, table, ccLock>>

\* tulpar_dlsym finds the symbol.
CacheResolve(c) ==
    /\ ccPc[c] = "dlsym"
    /\ ccReq[c] \in Exported
    /\ Goto(c, "lock")
    /\ UNCHANGED <<ccReq, ccRun, table, ccLock, ccStep>>

\* It does not: "Function not found", and the call returns.
CacheNotFound(c) ==
    /\ ccPc[c] = "dlsym"
    /\ ccReq[c] \notin Exported
    /\ ccReq' = [ccReq EXCEPT ![c] = NoName]
    /\ Goto(c, "idle")
    /\ UNCHANGED <<ccRun, table, ccLock, ccStep>>

\* The function returns.
CacheReturn(c) ==
    /\ ccPc[c] = "run"
    /\ ccReq' = [ccReq EXCEPT ![c] = NoName]
    /\ ccRun' = [ccRun EXCEPT ![c] = NoName]
    /\ Goto(c, "idle")
    /\ UNCHANGED <<table, ccLock, ccStep>>

-----------------------------------------------------------------------------
(* aot_call_cache_insert *)

\* Mutant: the insert does not take the mutex.
CacheLock_None(c) ==
    /\ ccPc[c] = "lock"
    /\ ccLock' = c
    /\ Goto(c, "insert")
    /\ UNCHANGED <<ccReq, ccRun, table, ccStep>>

\* std::lock_guard on g_call_cache_mu.
CacheLock(c) ==
    /\ ccPc[c] = "lock"
    /\ ccLock = NoName
    /\ ccLock' = c
    /\ Goto(c, "insert")
    /\ UNCHANGED <<ccReq, ccRun, table, ccStep>>

\* Another thread inserted the name meanwhile: the insert has nothing to do.
CacheRecheck(c) ==
    /\ ccPc[c] = "insert"
    /\ Match(c)
    /\ ccLock' = NoName
    /\ Run(c, ccReq[c])
    /\ UNCHANGED <<ccReq, table>>

\* Mutant: the key is stored before the fields it guards.
CacheFill_KeyFirst(c) ==
    /\ ccPc[c] = "insert"
    /\ ccKey[At(c)] = NoName
    /\ ccKey' = [ccKey EXCEPT ![At(c)] = ccReq[c]]
    /\ ccMeta' = [ccMeta EXCEPT ![At(c)] = ccReq[c]]
    /\ Goto(c, "publish")
    /\ UNCHANGED <<ccReq, ccRun, ccPtr, ccLock, ccStep>>

\* The first empty slot gets klen, khash and ptr; its key is still null.
CacheFill(c) ==
    /\ ccPc[c] = "insert"
    /\ ccKey[At(c)] = NoName
    /\ ccMeta' = [ccMeta EXCEPT ![At(c)] = ccReq[c]]
    /\ ccPtr' = [ccPtr EXCEPT ![At(c)] = ccReq[c]]
    /\ Goto(c, "publish")
    /\ UNCHANGED <<ccReq, ccRun, ccKey, ccLock, ccStep>>

\* malloc fails: the insert returns and the call goes on uncached.
CacheNoMemory(c) ==
    /\ ccPc[c] = "insert"
    /\ ccKey[At(c)] = NoName
    /\ ccLock' = NoName
    /\ Run(c, ccReq[c])
    /\ UNCHANGED <<ccReq, table>>

\* The release store of the key: the slot is visible to lookups.
CachePublish(c) ==
    /\ ccPc[c] = "publish"
    /\ ccKey' = [ccKey EXCEPT ![At(c)] = ccReq[c]]
    /\ ccLock' = NoName
    /\ Run(c, ccReq[c])
    /\ UNCHANGED <<ccReq, ccMeta, ccPtr>>

\* The slot is taken: on to the next one.
CacheInsertProbe(c) ==
    /\ ccPc[c] = "insert"
    /\ ccKey[At(c)] # NoName /\ ~Match(c)
    /\ ccStep[c] < CacheSlots - 1
    /\ ccStep' = [ccStep EXCEPT ![c] = @ + 1]
    /\ UNCHANGED <<ccReq, ccRun, table, ccLock, ccPc>>

\* The table is full: the insert is silently dropped.
CacheFull(c) ==
    /\ ccPc[c] = "insert"
    /\ ccKey[At(c)] # NoName /\ ~Match(c)
    /\ ccStep[c] = CacheSlots - 1
    /\ ccLock' = NoName
    /\ Run(c, ccReq[c])
    /\ UNCHANGED <<ccReq, table>>

CacheStep(c) ==
    \/ \E n \in Names : CacheCall(c, n)
    \/ CacheMiss(c) \/ CacheHit(c) \/ CacheProbe(c)
    \/ CacheResolve(c) \/ CacheNotFound(c) \/ CacheReturn(c)
    \/ CacheLock(c) \/ CacheRecheck(c) \/ CacheFill(c) \/ CacheNoMemory(c)
    \/ CachePublish(c) \/ CacheInsertProbe(c) \/ CacheFull(c)

CacheNext == \E c \in Callers : CacheStep(c)

CacheSpec == CacheInit /\ [][CacheNext]_cacheVars

-----------------------------------------------------------------------------
(* Correctness. *)

\* A name is in the table at most once, and every slot between its home slot
\* and its own is taken: the lookup, which stops at the first null key, finds
\* every name that was inserted.
ProbePathWhole ==
    /\ \A i, j \in SlotIds : ccKey[i] = ccKey[j] /\ ccKey[i] # NoName => i = j
    /\ \A i \in SlotIds :
          ccKey[i] # NoName =>
              \E k \in SlotIds :
                  /\ Slot(ccKey[i], k) = i
                  /\ \A j \in 0..(k - 1) : ccKey[Slot(ccKey[i], j)] # NoName

\* The cache cannot be seen: whatever the interleaving of lookups and inserts,
\* every call runs the function dlsym has for its name, or is told there is
\* none exactly when there is none.
Transparent == DynSpec
=============================================================================
