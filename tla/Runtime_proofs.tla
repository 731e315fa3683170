--------------------------- MODULE Runtime_proofs ---------------------------
(***************************************************************************)
(* What a compiled program calls into (src/src/vm/runtime_bindings.cpp).   *)
(*                                                                         *)
(* The cache behind call() for any number of threads, names and slots and  *)
(* any hash: a lookup that holds no lock never sees a half-written slot,   *)
(* so the cache implements DynamicCall.                                    *)
(*                                                                         *)
(* The arena for any blocks, sizes and scopes: blocks and places in them   *)
(* order the live strings, and rewinds cut that order short.  The serve    *)
(* loops of Wings, which find their scopes as they left them.              *)
(*                                                                         *)
(* And the requests those loops read, for any requests, buffer and limit:  *)
(* each call returns one, wherever the bytes are cut.                      *)
(***************************************************************************)
EXTENDS CallCache, WingsServe, HttpRecv, WellFoundedInduction, TLAPS

-----------------------------------------------------------------------------
(* The call cache *)

\* A slot with a key is completely written, and dlsym resolved its name.
FilledSlots ==
    \A i \in SlotIds :
        ccKey[i] # NoName =>
            ccMeta[i] = ccKey[i] /\ ccPtr[i] = ccKey[i] /\ ccKey[i] \in Exported

\* Where a thread is says what it asked for, what it runs and whether it
\* holds the mutex.
CallerStateOf(c) ==
    /\ ccPc[c] = "idle" => ccReq[c] = NoName
    /\ ccPc[c] # "idle" => ccReq[c] \in Names
    /\ ccPc[c] # "run" => ccRun[c] = NoName
    /\ ccPc[c] = "run" => ccRun[c] = ccReq[c]
    /\ ccPc[c] \in {"lock", "insert", "publish", "run"} => ccReq[c] \in Exported
    /\ ccPc[c] \in {"insert", "publish"} => ccLock = c
    /\ ccPc[c] \in {"idle", "dlsym", "lock", "run"} => ccStep[c] = 0

\* An insert has passed only slots taken by other names, and the slot it is
\* about to publish is written but for its key.
InsertPathOf(c) ==
    /\ ccPc[c] \in {"insert", "publish"} =>
          \A j \in 0..(ccStep[c] - 1) :
              ccKey[Slot(ccReq[c], j)] \notin {NoName, ccReq[c]}
    /\ ccPc[c] = "publish" =>
          /\ ccKey[At(c)] = NoName
          /\ ccMeta[At(c)] = ccReq[c]
          /\ ccPtr[At(c)] = ccReq[c]

CallerState == \A c \in Callers : CallerStateOf(c)
InsertPath == \A c \in Callers : InsertPathOf(c)

CacheInv ==
    /\ CacheTypeOK
    /\ FilledSlots
    /\ CallerState
    /\ InsertPath
    /\ ProbePathWhole

-----------------------------------------------------------------------------

\* A probe stays inside the table.
LEMMA SlotInTable ==
  ASSUME NEW n \in Names, NEW k \in Nat
  PROVE  Slot(n, k) \in SlotIds
<1>1. HomeSlot[n] \in Nat /\ CacheSlots \in Nat \ {0}
  BY CacheAssumption
<1>2. (HomeSlot[n] + k) % CacheSlots \in 0..(CacheSlots - 1)
  BY <1>1
<1> QED
  BY <1>2 DEF Slot, SlotIds

\* So does the slot a busy thread looks at.
LEMMA AtInTable ==
  ASSUME CacheTypeOK, NEW c \in Callers, ccReq[c] \in Names
  PROVE  At(c) \in SlotIds /\ ccStep[c] \in Nat
BY SlotInTable, CacheAssumption DEF At, CacheTypeOK, SlotIds

\* The initial states satisfy the invariant: the table is empty.
LEMMA CacheInvInit == CacheInit => CacheInv
  BY CacheAssumption
  DEF CacheInit, DynInit, CacheInv, CacheTypeOK, FilledSlots, CallerState,
      CallerStateOf, InsertPath, InsertPathOf, ProbePathWhole, SlotIds

\* What another thread has not touched stays as it is.
Unmoved(c) ==
    \A d \in Callers \ {c} :
        /\ ccPc'[d] = ccPc[d] /\ ccReq'[d] = ccReq[d]
        /\ ccRun'[d] = ccRun[d] /\ ccStep'[d] = ccStep[d]

\* A step of c that leaves the table alone, does not let go of a mutex another
\* thread holds and ends outside the insert keeps the invariant if it keeps
\* what is said of c.
LEMMA LeaveTable ==
  ASSUME CacheInv, NEW c \in Callers, Unmoved(c),
         UNCHANGED table, CacheTypeOK', CallerStateOf(c)',
         ccLock' = ccLock \/ ccLock = c,
         ccPc'[c] \notin {"insert", "publish"}
  PROVE  CacheInv'
<1>1. FilledSlots' /\ ProbePathWhole'
  BY DEF CacheInv, FilledSlots, ProbePathWhole, table, Slot
<1>2. ASSUME NEW d \in Callers PROVE CallerStateOf(d)' /\ InsertPathOf(d)'
  <2>1. CASE d = c
    BY <2>1 DEF InsertPathOf
  <2>2. CASE d # c
    <3>1. CallerStateOf(d) /\ InsertPathOf(d)
      BY DEF CacheInv, CallerState, InsertPath
    <3>2. ccPc[d] \in {"insert", "publish"} => ccLock' = d
      BY <2>2, <3>1 DEF CallerStateOf
    <3> QED
      BY <2>2, <3>1, <3>2 DEF CallerStateOf, InsertPathOf, Unmoved, table, Slot, At
  <2> QED BY <2>1, <2>2
<1> QED
  BY <1>1, <1>2 DEF CacheInv, CallerState, InsertPath

\* The lookup and what surrounds it.
LEMMA LookupPreserves ==
  ASSUME CacheInv, NEW c \in Callers,
         \/ \E n \in Names : CacheCall(c, n)
         \/ CacheMiss(c) \/ CacheHit(c) \/ CacheProbe(c)
         \/ CacheResolve(c) \/ CacheNotFound(c) \/ CacheReturn(c)
  PROVE  CacheInv'
<1> USE CacheAssumption
<1>0. CacheTypeOK /\ CallerStateOf(c) /\ FilledSlots
  BY DEF CacheInv, CallerState
<1> SUFFICES /\ Unmoved(c) /\ UNCHANGED table /\ CacheTypeOK' /\ CallerStateOf(c)'
             /\ ccLock' = ccLock /\ ccPc'[c] \notin {"insert", "publish"}
  BY LeaveTable
<1>1. CASE \E n \in Names : CacheCall(c, n)
  BY <1>0, <1>1 DEF CacheCall, Goto, table, Unmoved, CacheTypeOK, CallerStateOf
<1>2. CASE CacheMiss(c)
  BY <1>0, <1>2 DEF CacheMiss, Goto, table, Unmoved, CacheTypeOK, CallerStateOf, SlotIds
<1>3. CASE CacheHit(c)
  <2>1. At(c) \in SlotIds
    BY <1>0, <1>3, AtInTable DEF CacheHit, CallerStateOf
  <2>2. ccPtr[At(c)] = ccReq[c] /\ ccReq[c] \in Exported
    BY <2>1, <1>0, <1>3 DEF CacheHit, Match, FilledSlots, CallerStateOf
  <2> QED
    BY <1>0, <1>3, <2>2
    DEF CacheHit, Run, Goto, table, Unmoved, CacheTypeOK, CallerStateOf, SlotIds
<1>4. CASE CacheProbe(c)
  <2> USE DEF CacheProbe, Goto, table
  <2>1. \/ /\ ccStep[c] < CacheSlots - 1
           /\ ccStep' = [ccStep EXCEPT ![c] = @ + 1] /\ ccPc' = ccPc
        \/ ccStep' = [ccStep EXCEPT ![c] = 0] /\ ccPc' = [ccPc EXCEPT ![c] = "dlsym"]
    BY <1>4 DEF Advance
  <2>2. ccStep' \in [Callers -> SlotIds]
    <3>1. /\ ccStep \in [Callers -> SlotIds] /\ 0 \in SlotIds
          /\ ccStep[c] < CacheSlots - 1 => ccStep[c] + 1 \in SlotIds
      BY <1>0 DEF CacheTypeOK, SlotIds
    <3> QED BY <2>1, <3>1
  <2>3. CacheTypeOK'
    BY <1>0, <1>4, <2>1, <2>2 DEF CacheTypeOK, SlotIds
  <2>4. Unmoved(c) /\ CallerStateOf(c)' /\ ccPc'[c] \notin {"insert", "publish"}
    BY <1>0, <1>4, <2>1 DEF CacheTypeOK, Unmoved, CallerStateOf
  <2> QED BY <1>4, <2>3, <2>4
<1>5. CASE CacheResolve(c)
  BY <1>0, <1>5 DEF CacheResolve, Goto, table, Unmoved, CacheTypeOK, CallerStateOf
<1>6. CASE CacheNotFound(c)
  BY <1>0, <1>6 DEF CacheNotFound, Goto, table, Unmoved, CacheTypeOK, CallerStateOf
<1>7. CASE CacheReturn(c)
  BY <1>0, <1>7 DEF CacheReturn, Goto, table, Unmoved, CacheTypeOK, CallerStateOf
<1> QED
  BY <1>1, <1>2, <1>3, <1>4, <1>5, <1>6, <1>7

\* The ways out of the insert that leave the table alone.
LEMMA GiveUpPreserves ==
  ASSUME CacheInv, NEW c \in Callers,
         CacheRecheck(c) \/ CacheNoMemory(c) \/ CacheFull(c)
  PROVE  CacheInv'
<1> USE CacheAssumption DEF CacheRecheck, CacheNoMemory, CacheFull, Run, Goto
<1>1. CacheTypeOK /\ CallerStateOf(c)
  BY DEF CacheInv, CallerState
<1>2. /\ Unmoved(c) /\ UNCHANGED table /\ ccLock = c
      /\ ccPc'[c] \notin {"insert", "publish"}
  BY <1>1 DEF table, Unmoved, CacheTypeOK, CallerStateOf
<1>3. ccStep' \in [Callers -> SlotIds] /\ ccStep'[c] = 0
  <2>1. ccStep \in [Callers -> SlotIds] /\ 0 \in SlotIds
    BY <1>1 DEF CacheTypeOK, SlotIds
  <2>2. ccStep' = [ccStep EXCEPT ![c] = 0]
    OBVIOUS
  <2> QED BY <2>1, <2>2
<1>4. CacheTypeOK'
  BY <1>1, <1>3 DEF table, CacheTypeOK, CallerStateOf
<1>5. CallerStateOf(c)'
  BY <1>1, <1>3 DEF CacheTypeOK, CallerStateOf
<1> QED
  BY <1>2, <1>4, <1>5, LeaveTable

\* Only the holder of the mutex is inside the insert.
LEMMA OneInserter ==
  ASSUME CacheInv, NEW c \in Callers, NEW d \in Callers, ccLock \in {c, NoName},
         d # c
  PROVE  ccPc[d] \notin {"insert", "publish"}
BY CacheAssumption DEF CacheInv, CallerState, CallerStateOf

\* The mutex is taken, and the first slot is the home slot.
LEMMA LockPreserves ==
  ASSUME CacheInv, NEW c \in Callers, CacheLock(c)
  PROVE  CacheInv'
<1> USE CacheAssumption DEF CacheLock, Goto
<1>1. CacheTypeOK /\ FilledSlots /\ ProbePathWhole /\ CallerState
  BY DEF CacheInv
<1>2. CacheTypeOK'
  BY <1>1 DEF CacheTypeOK, table
<1>3. FilledSlots' /\ ProbePathWhole'
  BY <1>1 DEF FilledSlots, ProbePathWhole, table, Slot
<1>4. ASSUME NEW d \in Callers PROVE CallerStateOf(d)' /\ InsertPathOf(d)'
  <2>1. d # c => ccPc[d] \notin {"insert", "publish"}
    BY OneInserter
  <2>2. ccPc'[d] = (IF d = c THEN "insert" ELSE ccPc[d]) /\ CallerStateOf(d)
    BY <1>1 DEF CacheTypeOK, CallerState
  <2>3. CallerStateOf(d)'
    BY <2>1, <2>2 DEF CallerStateOf
  <2>4. InsertPathOf(d)'
    <3>1. d = c => ccStep'[d] = 0
      BY <2>2 DEF CallerStateOf
    <3> QED BY <2>1, <2>2, <3>1 DEF InsertPathOf
  <2> QED BY <2>3, <2>4
<1> QED
  BY <1>2, <1>3, <1>4 DEF CacheInv, CallerState, InsertPath

\* A slot is written while its key is still null: no lookup can tell.
LEMMA FillPreserves ==
  ASSUME CacheInv, NEW c \in Callers, CacheFill(c)
  PROVE  CacheInv'
<1> USE CacheAssumption DEF CacheFill, Goto
<1>1. /\ CacheTypeOK /\ FilledSlots /\ ProbePathWhole
      /\ CallerStateOf(c) /\ InsertPathOf(c)
  BY DEF CacheInv, CallerState, InsertPath
<1>2. At(c) \in SlotIds /\ ccLock = c /\ ccReq[c] \in Names
  BY <1>1, AtInTable DEF CallerStateOf
<1>3. CacheTypeOK'
  BY <1>1, <1>2 DEF CacheTypeOK
<1>4. FilledSlots' /\ ProbePathWhole'
  BY <1>1, <1>2 DEF FilledSlots, ProbePathWhole, Slot, CacheTypeOK
<1>5. ASSUME NEW d \in Callers PROVE CallerStateOf(d)' /\ InsertPathOf(d)'
  <2>1. CallerStateOf(d) /\ (d # c => ccPc[d] \notin {"insert", "publish"})
    BY <1>2, OneInserter DEF CacheInv, CallerState
  <2>2. ccPc'[d] = IF d = c THEN "publish" ELSE ccPc[d]
    BY <1>1 DEF CacheTypeOK
  <2>3. CallerStateOf(d)'
    BY <1>1, <2>1, <2>2 DEF CallerStateOf
  <2>4. CASE d = c
    <3>1. At(c)' = At(c)
      BY DEF At, Slot
    <3>2. ccMeta'[At(c)] = ccReq[c] /\ ccPtr'[At(c)] = ccReq[c]
      BY <1>1, <1>2 DEF CacheTypeOK
    <3> QED BY <1>1, <2>3, <2>4, <3>1, <3>2 DEF InsertPathOf, Slot
  <2> QED BY <2>1, <2>2, <2>3, <2>4 DEF InsertPathOf
<1> QED
  BY <1>3, <1>4, <1>5 DEF CacheInv, CallerState, InsertPath

\* The insert goes on to the next slot, past one that has another name's key.
LEMMA InsertProbePreserves ==
  ASSUME CacheInv, NEW c \in Callers, CacheInsertProbe(c)
  PROVE  CacheInv'
<1> USE CacheAssumption DEF CacheInsertProbe, table
<1>1. /\ CacheTypeOK /\ FilledSlots /\ ProbePathWhole
      /\ CallerStateOf(c) /\ InsertPathOf(c)
  BY DEF CacheInv, CallerState, InsertPath
<1>2. /\ At(c) \in SlotIds /\ ccLock = c /\ ccReq[c] \in Names
      /\ ccStep[c] \in Nat /\ ccStep[c] + 1 \in SlotIds
  BY <1>1, AtInTable DEF CallerStateOf, CacheTypeOK, SlotIds
<1>3. CacheTypeOK'
  BY <1>1, <1>2 DEF CacheTypeOK
<1>4. FilledSlots' /\ ProbePathWhole'
  BY <1>1 DEF FilledSlots, ProbePathWhole, Slot
<1>5. ccKey[At(c)] \notin {NoName, ccReq[c]}
  BY <1>1, <1>2 DEF FilledSlots, Match
<1>6. ASSUME NEW d \in Callers PROVE CallerStateOf(d)' /\ InsertPathOf(d)'
  <2>1. CallerStateOf(d) /\ (d # c => ccPc[d] \notin {"insert", "publish"})
    BY <1>2, OneInserter DEF CacheInv, CallerState
  <2>2. ccStep'[d] = IF d = c THEN ccStep[c] + 1 ELSE ccStep[d]
    BY <1>1 DEF CacheTypeOK
  <2>3. CallerStateOf(d)'
    BY <2>1, <2>2 DEF CallerStateOf
  <2>4. CASE d = c
    <3> SUFFICES ASSUME NEW j \in 0..ccStep[c]
                 PROVE  ccKey[Slot(ccReq[c], j)] \notin {NoName, ccReq[c]}
      <4>1. ccPc'[d] = "insert" /\ ccStep'[d] - 1 = ccStep[c] /\ ccReq'[d] = ccReq[c]
        BY <1>2, <2>2, <2>4
      <4> QED BY <2>3, <2>4, <4>1 DEF InsertPathOf, Slot
    <3>1. CASE j = ccStep[c]
      BY <1>5, <3>1 DEF At
    <3>2. CASE j # ccStep[c]
      <4>1. j \in 0..(ccStep[c] - 1)
        BY <1>2, <3>2
      <4> QED BY <1>1, <4>1 DEF InsertPathOf
    <3> QED BY <3>1, <3>2
  <2> QED BY <2>1, <2>2, <2>3, <2>4 DEF InsertPathOf
<1> QED
  BY <1>3, <1>4, <1>6 DEF CacheInv, CallerState, InsertPath

\* The key is stored: the name was nowhere in the table, and every slot before
\* this one on its path is taken.
LEMMA PublishPreserves ==
  ASSUME CacheInv, NEW c \in Callers, CachePublish(c)
  PROVE  CacheInv'
<1> USE CacheAssumption DEF CachePublish, Run, Goto
<1>1. /\ CacheTypeOK /\ FilledSlots /\ ProbePathWhole
      /\ CallerStateOf(c) /\ InsertPathOf(c)
  BY DEF CacheInv, CallerState, InsertPath
<1>2. /\ At(c) \in SlotIds /\ ccLock = c /\ ccReq[c] \in Names
      /\ ccReq[c] \in Exported /\ ccReq[c] # NoName
      /\ ccStep[c] \in SlotIds /\ At(c) = Slot(ccReq[c], ccStep[c])
      /\ ccKey[At(c)] = NoName /\ 0 \in SlotIds
      /\ ccMeta[At(c)] = ccReq[c] /\ ccPtr[At(c)] = ccReq[c]
  BY <1>1, AtInTable DEF CallerStateOf, CacheTypeOK, InsertPathOf, At, SlotIds
<1>3. /\ \A i \in SlotIds : ccKey'[i] = IF i = At(c) THEN ccReq[c] ELSE ccKey[i]
      /\ \A d \in Callers : /\ ccPc'[d] = IF d = c THEN "run" ELSE ccPc[d]
                            /\ ccRun'[d] = IF d = c THEN ccReq[c] ELSE ccRun[d]
                            /\ ccStep'[d] = IF d = c THEN 0 ELSE ccStep[d]
  BY <1>1, <1>2 DEF CacheTypeOK
<1>4. CacheTypeOK'
  BY <1>1, <1>2 DEF CacheTypeOK
<1>5. FilledSlots'
  BY <1>1, <1>2, <1>3 DEF FilledSlots
<1>6. \A i \in SlotIds : ccKey[i] # ccReq[c]
  <2> SUFFICES ASSUME NEW i \in SlotIds, ccKey[i] = ccReq[c] PROVE FALSE
    OBVIOUS
  <2>1. PICK k \in SlotIds :
           /\ Slot(ccReq[c], k) = i
           /\ \A j \in 0..(k - 1) : ccKey[Slot(ccReq[c], j)] # NoName
    BY <1>1, <1>2 DEF ProbePathWhole
  <2>2. CASE k < ccStep[c]
    <3>1. k \in 0..(ccStep[c] - 1)
      BY <1>2, <2>2 DEF SlotIds
    <3> QED BY <1>1, <2>1, <3>1 DEF InsertPathOf
  <2>3. CASE k = ccStep[c]
    BY <1>2, <2>1, <2>3
  <2>4. CASE k > ccStep[c]
    <3>1. ccStep[c] \in 0..(k - 1)
      BY <1>2, <2>4 DEF SlotIds
    <3> QED BY <1>2, <2>1, <3>1
  <2> QED BY <1>2, <2>2, <2>3, <2>4 DEF SlotIds
<1>7. ProbePathWhole'
  <2>1. \A i, j \in SlotIds : ccKey'[i] = ccKey'[j] /\ ccKey'[i] # NoName => i = j
    BY <1>1, <1>3, <1>6 DEF ProbePathWhole
  <2>2. ASSUME NEW i \in SlotIds, ccKey'[i] # NoName
        PROVE  \E k \in SlotIds :
                  /\ Slot(ccKey'[i], k) = i
                  /\ \A j \in 0..(k - 1) : ccKey'[Slot(ccKey'[i], j)] # NoName
    <3>1. PICK k \in SlotIds :
             /\ Slot(ccKey'[i], k) = i
             /\ \A j \in 0..(k - 1) : ccKey[Slot(ccKey'[i], j)] # NoName
      <4>1. CASE i = At(c)
        <5>1. /\ ccStep[c] \in SlotIds /\ ccKey'[i] = ccReq[c]
              /\ Slot(ccReq[c], ccStep[c]) = i
          BY <1>2, <1>3, <4>1
        <5>2. \A j \in 0..(ccStep[c] - 1) : ccKey[Slot(ccReq[c], j)] # NoName
          BY <1>1 DEF InsertPathOf
        <5> QED BY <5>1, <5>2
      <4>2. CASE i # At(c)
        BY <1>1, <1>3, <2>2, <4>2 DEF ProbePathWhole
      <4> QED BY <4>1, <4>2
    <3>2. ccKey'[i] \in Names
      BY <1>4, <2>2 DEF CacheTypeOK
    <3>3. \A j \in 0..(k - 1) : ccKey'[Slot(ccKey'[i], j)] # NoName
      <4> TAKE j \in 0..(k - 1)
      <4>1. j \in Nat
        BY DEF SlotIds
      <4>2. Slot(ccKey'[i], j) \in SlotIds
        BY <3>2, <4>1, SlotInTable
      <4> QED BY <1>2, <1>3, <3>1, <4>2
    <3> QED BY <3>1, <3>3
  <2> QED BY <2>1, <2>2 DEF ProbePathWhole, Slot
<1>8. ASSUME NEW d \in Callers PROVE CallerStateOf(d)' /\ InsertPathOf(d)'
  <2>1. CallerStateOf(d) /\ (d # c => ccPc[d] \notin {"insert", "publish"})
    BY <1>2, OneInserter DEF CacheInv, CallerState
  <2> QED BY <1>2, <1>3, <2>1 DEF CallerStateOf, InsertPathOf
<1> QED
  BY <1>4, <1>5, <1>7, <1>8 DEF CacheInv, CallerState, InsertPath

-----------------------------------------------------------------------------

\* Every step keeps the invariant.
LEMMA CacheInvNext == CacheInv /\ [CacheNext]_cacheVars => CacheInv'
<1> SUFFICES ASSUME CacheInv, [CacheNext]_cacheVars PROVE CacheInv'
  OBVIOUS
<1>1. CASE CacheNext
  <2>1. PICK c \in Callers : CacheStep(c)
    BY <1>1 DEF CacheNext
  <2> QED
    BY <2>1, LookupPreserves, GiveUpPreserves, LockPreserves, FillPreserves,
       InsertProbePreserves, PublishPreserves DEF CacheStep
<1>2. CASE UNCHANGED cacheVars
  BY <1>2
  DEF cacheVars, CacheInv, CacheTypeOK, FilledSlots, CallerState, CallerStateOf,
      InsertPath, InsertPathOf, ProbePathWhole, Slot, At
<1> QED
  BY <1>1, <1>2

\* The lookup finds every name that was inserted, and the types hold.
THEOREM CacheIsSound == CacheSpec => [](CacheTypeOK /\ ProbePathWhole)
<1>1. CacheSpec => []CacheInv
  BY CacheInvInit, CacheInvNext, PTL DEF CacheSpec
<1> QED
  BY <1>1, PTL DEF CacheInv

\* Every step of the cache is a step of DynamicCall or changes nothing of it.
LEMMA CacheStepIsDyn ==
  CacheInv /\ [CacheNext]_cacheVars => [DynNext]_dynVars
<1> SUFFICES ASSUME CacheInv, [CacheNext]_cacheVars PROVE [DynNext]_dynVars
  OBVIOUS
<1> USE CacheAssumption DEF dynVars
<1>1. CASE UNCHANGED cacheVars
  BY <1>1 DEF cacheVars
<1>2. CASE CacheNext
  <2>1. PICK c \in Callers : CacheStep(c)
    BY <1>2 DEF CacheNext
  <2>2. CallerStateOf(c) /\ CacheTypeOK /\ FilledSlots
    BY DEF CacheInv, CallerState
  <2>3. CASE \E n \in Names : CacheCall(c, n)
    BY <2>2, <2>3 DEF CacheCall, CallerStateOf, DynRequest, DynNext
  <2>4. CASE CacheHit(c)
    <3>1. At(c) \in SlotIds
      BY <2>2, <2>4, AtInTable DEF CacheHit, CallerStateOf
    <3>2. ccPtr[At(c)] = ccReq[c] /\ ccReq[c] \in Exported
      BY <2>2, <2>4, <3>1 DEF CacheHit, Match, FilledSlots, CallerStateOf
    <3> QED
      BY <2>2, <2>4, <3>2 DEF CacheHit, Run, CallerStateOf, DynRun, DynNext
  <2>5. CASE CacheNotFound(c)
    BY <2>2, <2>5 DEF CacheNotFound, CallerStateOf, DynNotFound, DynNext
  <2>6. CASE CacheReturn(c)
    BY <2>2, <2>6 DEF CacheReturn, CallerStateOf, DynReturn, DynNext
  <2>7. CASE CacheRecheck(c) \/ CacheNoMemory(c) \/ CacheFull(c) \/ CachePublish(c)
    <3>1. /\ ccReq[c] \in Exported /\ ccRun[c] = NoName
          /\ ccRun' = [ccRun EXCEPT ![c] = ccReq[c]] /\ UNCHANGED ccReq
      BY <2>2, <2>7
      DEF CacheRecheck, CacheNoMemory, CacheFull, CachePublish, Run, CallerStateOf
    <3> QED BY <3>1 DEF DynRun, DynNext
  <2>8. CASE \/ CacheMiss(c) \/ CacheProbe(c) \/ CacheResolve(c) \/ CacheLock(c)
            \/ CacheFill(c) \/ CacheInsertProbe(c)
    BY <2>8
    DEF CacheMiss, CacheProbe, CacheResolve, CacheLock, CacheFill, CacheInsertProbe
  <2> QED
    BY <2>1, <2>3, <2>4, <2>5, <2>6, <2>7, <2>8 DEF CacheStep
<1> QED
  BY <1>1, <1>2

\* The cache cannot be seen: it implements DynamicCall.
THEOREM CacheIsTransparent == CacheSpec => Transparent
<1>1. CacheInit => DynInit
  BY DEF CacheInit
<1>2. CacheSpec => []CacheInv
  BY CacheInvInit, CacheInvNext, PTL DEF CacheSpec
<1> QED
  BY <1>1, <1>2, CacheStepIsDyn, PTL DEF CacheSpec, DynSpec, Transparent

-----------------------------------------------------------------------------
(* The arena *)

Strings == [block : Blocks, off : Nat, size : Nat]
Scopes == [block : Blocks, used : Nat, region : Nat, mark : Nat]

\* What the type invariant says of the strings.
ArTyped ==
    /\ arChain \in Seq(Blocks)
    /\ arSize \in [Blocks -> Nat] /\ arUsed \in [Blocks -> Nat]
    /\ arCur \in Blocks
    /\ arCps \in Seq(Scopes)
    /\ arRegion \in Seq(Objs)
    /\ arLive \in Seq(Strings)

\* Block b is in chain s, and its place there.
InChain(s, b) == \E i \in DOMAIN s : s[i] = b
PlaceIn(s, b) == CHOOSE i \in DOMAIN s : s[i] = b

\* A block is in chain s once.
NoRepeats(s) == \A i, j \in DOMAIN s : s[i] = s[j] => i = j

\* A block is in the chain once, and only when it has a size.
ChainOnce ==
    /\ NoRepeats(arChain)
    /\ \A b \in Blocks : InChain(arChain, b) => arSize[b] # 0
    /\ InChain(arChain, arCur)

\* No block is fuller than it is big.
UsedFits == \A b \in Blocks : arUsed[b] <= arSize[b]

\* String x ends before offset `used` of block b, or is in a block before b.
EndsBefore(s, x, b, used) ==
    \/ PlaceIn(s, x.block) < PlaceIn(s, b)
    \/ x.block = b /\ x.off + x.size <= used

\* Live strings are up to the current block and below the `used` of their
\* block, the older before the younger.
LiveInOrder ==
    \A i \in DOMAIN arLive :
        /\ InChain(arChain, arLive[i].block)
        /\ PlaceIn(arChain, arLive[i].block) <= PlaceIn(arChain, arCur)
        /\ arLive[i].off + arLive[i].size <= arUsed[arLive[i].block]
        /\ \A j \in 1..(i - 1) :
              EndsBefore(arChain, arLive[j], arLive[i].block, arLive[i].off)

\* A checkpoint is up to the current block; what was live when it was made
\* ends before it, and checkpoints above it are not behind it.
CheckpointsInOrder ==
    \A k \in DOMAIN arCps :
        /\ InChain(arChain, arCps[k].block)
        /\ PlaceIn(arChain, arCps[k].block) <= PlaceIn(arChain, arCur)
        /\ arCps[k].used <= arSize[arCps[k].block]
        /\ arCps[k].mark <= Len(arLive)
        /\ \A i \in 1..arCps[k].mark :
              EndsBefore(arChain, arLive[i], arCps[k].block, arCps[k].used)
        /\ \A j \in 1..(k - 1) :
              /\ PlaceIn(arChain, arCps[j].block) <= PlaceIn(arChain, arCps[k].block)
              /\ arCps[j].mark <= arCps[k].mark

\* The checkpoint stack does not overflow, and the containers a checkpoint
\* leaves are no more than there are, nor than those above it leave.
ScopesFit ==
    /\ Len(arCps) <= CheckpointMax
    /\ \A k \in DOMAIN arCps :
          /\ arCps[k].region <= Len(arRegion)
          /\ \A j \in 1..(k - 1) : arCps[j].region <= arCps[k].region

ArInv ==
    /\ ArTyped /\ ChainOnce /\ UsedFits /\ LiveInOrder /\ CheckpointsInOrder
    /\ ScopesFit

\* The places of a sequence, and what is at them.
LEMMA Elements ==
  ASSUME NEW S, NEW s \in Seq(S)
  PROVE  /\ Len(s) \in Nat
         /\ DOMAIN s = 1..Len(s)
         /\ \A i \in 1..Len(s) : s[i] \in S
  OBVIOUS

\* The places of a sequence with one more element.
LEMMA Appended ==
  ASSUME NEW S, NEW s \in Seq(S), NEW x \in S
  PROVE  /\ Append(s, x) \in Seq(S)
         /\ Len(Append(s, x)) = Len(s) + 1
         /\ \A i \in 1..Len(s) : Append(s, x)[i] = s[i]
         /\ Append(s, x)[Len(s) + 1] = x
  OBVIOUS

\* The places of a concatenation.
LEMMA Joined ==
  ASSUME NEW S, NEW s \in Seq(S), NEW t \in Seq(S)
  PROVE  /\ s \o t \in Seq(S)
         /\ Len(s \o t) = Len(s) + Len(t)
         /\ \A i \in 1..Len(s) : (s \o t)[i] = s[i]
         /\ \A i \in 1..Len(t) : (s \o t)[Len(s) + i] = t[i]
  OBVIOUS

\* A block of a chain without repetitions is where its place says.
LEMMA PlaceIs ==
  ASSUME NEW S, NEW s \in Seq(S), NoRepeats(s), NEW k \in DOMAIN s
  PROVE  PlaceIn(s, s[k]) = k
  BY DEF NoRepeats, PlaceIn

\* A block of the chain has a place, and is there.
LEMMA PlaceOf ==
  ASSUME NEW S, NEW s \in Seq(S), NoRepeats(s), NEW b, InChain(s, b)
  PROVE  PlaceIn(s, b) \in 1..Len(s) /\ s[PlaceIn(s, b)] = b
<1>1. PICK k \in DOMAIN s : s[k] = b
  BY DEF InChain
<1> QED
  BY <1>1, PlaceIs

\* At first there is one block, and nothing in it.
LEMMA ArInvInit == ArInit => ArInv
<1> SUFFICES ASSUME ArInit PROVE ArInv
  OBVIOUS
<1>1. 1 \in Blocks /\ BlockSize \in Nat \ {0}
  BY ArenaAssumption
<1>2. \A S : <<>> \in Seq(S)
  OBVIOUS
<1>3. ArTyped
  BY <1>1, <1>2 DEF ArInit, ArTyped
<1>4. ChainOnce
  BY <1>1 DEF ArInit, ChainOnce, InChain, NoRepeats
<1>5. UsedFits /\ LiveInOrder /\ CheckpointsInOrder
  BY <1>1 DEF ArInit, UsedFits, LiveInOrder, CheckpointsInOrder
<1>6. ScopesFit
  BY ArenaAssumption DEF ArInit, ScopesFit
<1> QED
  BY <1>3, <1>4, <1>5, <1>6 DEF ArInv

\* A step that leaves strings and checkpoints alone.
LEMMA ArInvKept ==
  ASSUME ArInv, UNCHANGED <<strings, arCps>>,
         \/ UNCHANGED arRegion
         \/ \E o \in Objs : arRegion' = Append(arRegion, o)
  PROVE  ArInv'
<1>1. arRegion \in Seq(Objs) /\ arCps \in Seq(Scopes)
  BY Zenon DEF ArInv, ArTyped
<1>2. arRegion' \in Seq(Objs) /\ Len(arRegion) <= Len(arRegion')
      /\ Len(arRegion) \in Nat /\ Len(arRegion') \in Nat
  <2>1. Len(arRegion) \in Nat
    BY <1>1, Elements
  <2>2. CASE UNCHANGED arRegion
    BY <1>1, <2>1, <2>2
  <2>3. ASSUME NEW o \in Objs, arRegion' = Append(arRegion, o)
        PROVE  arRegion' \in Seq(Objs) /\ Len(arRegion') = Len(arRegion) + 1
    BY <1>1, <2>3, Appended
  <2> QED
    BY <2>1, <2>2, <2>3
<1>3. ScopesFit'
  <2>1. \A k \in DOMAIN arCps : arCps[k] \in Scopes
    BY <1>1, Elements
  <2>2. \A k \in DOMAIN arCps : arCps[k].region \in Nat
    BY <2>1 DEF Scopes
  <2> QED
    BY <1>2, <2>2 DEF ArInv, ScopesFit
<1> QED
  BY <1>2, <1>3
  DEF ArInv, ArTyped, ChainOnce, UsedFits, LiveInOrder, CheckpointsInOrder, strings

\* A string is taken from block b at offset off, behind all live ones; the
\* chain t the step leaves has the blocks in use at the same places.
LEMMA TakeKeeps ==
  ASSUME ArInv, ArTyped', ChainOnce', UsedFits',
         NEW b \in Blocks, NEW off \in Nat, NEW n \in Nat, Take(b, off, n),
         UNCHANGED arCps,
         \A c \in Blocks :
            InChain(arChain, c) =>
               /\ InChain(arChain', c)
               /\ arSize'[c] = arSize[c]
               /\ PlaceIn(arChain, c) <= PlaceIn(arChain, arCur) =>
                     PlaceIn(arChain', c) = PlaceIn(arChain, c),
         \/ b = arCur /\ off = arUsed[arCur]
         \/ PlaceIn(arChain', b) > PlaceIn(arChain, arCur) /\ ~InChain(arChain, b)
         \/ PlaceIn(arChain', b) > PlaceIn(arChain, arCur)
            /\ PlaceIn(arChain, b) > PlaceIn(arChain, arCur)
  PROVE  LiveInOrder' /\ CheckpointsInOrder'
<1> DEFINE x == [block |-> b, off |-> off, size |-> n]
<1>1. /\ arLive' = Append(arLive, x)
      /\ arUsed' = [arUsed EXCEPT ![b] = off + n]
      /\ arCur' = b
  BY DEF Take
<1>2. arLive \in Seq(Strings) /\ arChain \in Seq(Blocks) /\ arUsed \in [Blocks -> Nat]
      /\ NoRepeats(arChain) /\ InChain(arChain, arCur) /\ arCur \in Blocks
  BY Zenon DEF ArInv, ArTyped, ChainOnce
<1>3. arLive' \in Seq(Strings) /\ arChain' \in Seq(Blocks)
      /\ NoRepeats(arChain') /\ InChain(arChain', arCur')
  BY Zenon DEF ArTyped, ChainOnce
<1>4. \A c \in Blocks : InChain(arChain, c) => PlaceIn(arChain, c) \in Nat
  BY <1>2, PlaceOf
<1>5. InChain(arChain', b) /\ PlaceIn(arChain', b) \in Nat
  BY <1>1, <1>3, PlaceOf
<1>6. PlaceIn(arChain, arCur) \in Nat /\ PlaceIn(arChain', arCur) = PlaceIn(arChain, arCur)
  BY <1>2, <1>4
<1>7. PlaceIn(arChain, arCur) <= PlaceIn(arChain', b)
  BY <1>5, <1>6
\* The new string is behind whatever is up to the current block and in use.
<1>8. ASSUME NEW c \in Blocks, InChain(arChain, c),
             PlaceIn(arChain, c) <= PlaceIn(arChain, arCur)
      PROVE  /\ PlaceIn(arChain', c) = PlaceIn(arChain, c)
             /\ InChain(arChain', c)
             /\ PlaceIn(arChain', c) <= PlaceIn(arChain', b)
             /\ c = b => b = arCur /\ off = arUsed[b]
             /\ c # b => arUsed'[c] = arUsed[c] /\ PlaceIn(arChain', c) < PlaceIn(arChain', b)
  <2>3. PlaceIn(arChain', c) = PlaceIn(arChain, c) /\ InChain(arChain', c)
    BY <1>8
  <2>2. c # b => PlaceIn(arChain', c) # PlaceIn(arChain', b)
    <3>1. arChain'[PlaceIn(arChain', c)] = c
      BY <1>3, <2>3, PlaceOf
    <3>2. arChain'[PlaceIn(arChain', b)] = b
      BY <1>3, <1>5, PlaceOf
    <3> QED
      BY <3>1, <3>2
  <2>4. PlaceIn(arChain', c) <= PlaceIn(arChain', b)
    BY <1>4, <1>5, <1>6, <1>7, <1>8, <2>3
  <2>5. c = b => b = arCur /\ off = arUsed[b]
    BY <1>4, <1>5, <1>6, <1>7, <1>8, <2>3
  <2>6. c # b => arUsed'[c] = arUsed[c]
    BY <1>1, <1>2
  <2>7. c # b => PlaceIn(arChain', c) < PlaceIn(arChain', b)
    BY <1>4, <1>5, <1>8, <2>2, <2>3, <2>4
  <2> QED
    BY <2>3, <2>4, <2>5, <2>6, <2>7
\* Hence order among strings, and between strings and checkpoints, is kept.
<1>9. ASSUME NEW y \in Strings, NEW c \in Blocks, NEW used \in Nat,
             InChain(arChain, c), PlaceIn(arChain, c) <= PlaceIn(arChain, arCur),
             InChain(arChain, y.block), EndsBefore(arChain, y, c, used)
      PROVE  EndsBefore(arChain', y, c, used)
  <2>1. y.block \in Blocks /\ PlaceIn(arChain, y.block) <= PlaceIn(arChain, arCur)
    BY <1>4, <1>6, <1>9 DEF EndsBefore, Strings
  <2> QED
    BY <1>8, <1>9, <2>1 DEF EndsBefore
<1>10. LiveInOrder'
  <2> SUFFICES ASSUME NEW i \in 1..Len(arLive')
               PROVE  /\ InChain(arChain', arLive'[i].block)
                      /\ PlaceIn(arChain', arLive'[i].block) <= PlaceIn(arChain', arCur')
                      /\ arLive'[i].off + arLive'[i].size <= arUsed'[arLive'[i].block]
                      /\ \A j \in 1..(i - 1) :
                            EndsBefore(arChain', arLive'[j], arLive'[i].block,
                                       arLive'[i].off)
    <3>1. DOMAIN arLive' = 1..Len(arLive')
      BY <1>3, Elements
    <3> QED
      BY <3>1, Zenon DEF LiveInOrder
  <2>1. x \in Strings /\ Len(arLive') = Len(arLive) + 1 /\ Len(arLive) \in Nat
        /\ arLive'[Len(arLive) + 1] = x
        /\ \A j \in 1..Len(arLive) : arLive'[j] = arLive[j] /\ arLive[j] \in Strings
    <3>1. x \in Strings
      BY DEF Strings
    <3> QED
      BY <1>1, <1>2, <3>1, Appended, Elements
  <2>2. \A j \in 1..Len(arLive) :
           /\ InChain(arChain, arLive[j].block)
           /\ PlaceIn(arChain, arLive[j].block) <= PlaceIn(arChain, arCur)
           /\ arLive[j].off + arLive[j].size <= arUsed[arLive[j].block]
           /\ \A k \in 1..(j - 1) :
                 EndsBefore(arChain, arLive[k], arLive[j].block, arLive[j].off)
    BY <1>2, Elements DEF ArInv, LiveInOrder
  <2>3. CASE i = Len(arLive) + 1
    <3>1. arLive'[i].block = b /\ arLive'[i].off = off /\ arLive'[i].size = n
      BY <2>1, <2>3
    <3>2. \A j \in 1..(i - 1) : EndsBefore(arChain', arLive'[j], b, off)
      <4> SUFFICES ASSUME NEW j \in 1..Len(arLive)
                   PROVE  EndsBefore(arChain', arLive[j], b, off)
        BY <2>1, <2>3
      <4>1. arLive[j].block \in Blocks
        BY <2>1 DEF Strings
      <4> QED
        BY <1>8, <2>2, <4>1 DEF EndsBefore
    <3>3. arUsed'[b] = off + n
      BY <1>1, <1>2
    <3>4. PlaceIn(arChain', b) <= PlaceIn(arChain', arCur') /\ off + n <= arUsed'[b]
      BY <1>1, <1>5, <3>3
    <3> QED
      BY <1>5, <3>1, <3>2, <3>4
  <2>4. CASE i \in 1..Len(arLive)
    <3>1. arLive'[i] = arLive[i] /\ arLive[i].block \in Blocks
          /\ arLive[i].off \in Nat /\ arLive[i].size \in Nat
      BY <2>1, <2>4 DEF Strings
    <3>2. \A j \in 1..(i - 1) :
             EndsBefore(arChain', arLive'[j], arLive[i].block, arLive[i].off)
      <4> SUFFICES ASSUME NEW j \in 1..(i - 1)
                   PROVE  EndsBefore(arChain', arLive[j], arLive[i].block, arLive[i].off)
        BY <2>1, <2>4
      <4>1. j \in 1..Len(arLive)
        BY <2>1, <2>4
      <4>2. /\ InChain(arChain, arLive[i].block) /\ InChain(arChain, arLive[j].block)
            /\ PlaceIn(arChain, arLive[i].block) <= PlaceIn(arChain, arCur)
            /\ EndsBefore(arChain, arLive[j], arLive[i].block, arLive[i].off)
            /\ arLive[j] \in Strings
        BY <2>1, <2>2, <2>4, <4>1
      <4> QED
        BY <1>9, <3>1, <4>2
    <3>3. arLive[i].off + arLive[i].size <= arUsed'[arLive[i].block]
      <4>1. /\ InChain(arChain, arLive[i].block)
            /\ PlaceIn(arChain, arLive[i].block) <= PlaceIn(arChain, arCur)
            /\ arLive[i].off + arLive[i].size <= arUsed[arLive[i].block]
        BY <2>2, <2>4
      <4>2. /\ arLive[i].block = b => b = arCur /\ off = arUsed[b]
            /\ arLive[i].block # b =>
                  arUsed'[arLive[i].block] = arUsed[arLive[i].block]
        BY <1>8, <3>1, <4>1
      <4>3. arUsed'[b] = off + n
        BY <1>1, <1>2
      <4>4. CASE arLive[i].block = b
        <5>1. arLive[i].off + arLive[i].size <= off
          BY <4>1, <4>2, <4>4
        <5> QED
          BY <3>1, <4>3, <4>4, <5>1
      <4>5. CASE arLive[i].block # b
        BY <4>1, <4>2, <4>5
      <4> QED
        BY <4>4, <4>5
    <3> QED
      BY <1>1, <1>8, <2>2, <2>4, <3>1, <3>2, <3>3
  <2> QED
    BY <2>1, <2>3, <2>4
<1>11. CheckpointsInOrder'
  <2>1. arCps \in Seq(Scopes) /\ arCps' = arCps
    BY Zenon DEF ArInv, ArTyped
  <2>2. /\ DOMAIN arCps = 1..Len(arCps) /\ Len(arCps) \in Nat
        /\ \A k \in 1..Len(arCps) : arCps[k] \in Scopes
    BY <2>1, Elements
  <2>3. Len(arLive') = Len(arLive) + 1 /\ Len(arLive) \in Nat
        /\ \A j \in 1..Len(arLive) : arLive'[j] = arLive[j] /\ arLive[j] \in Strings
    <3>1. x \in Strings
      BY DEF Strings
    <3> QED
      BY <1>1, <1>2, <3>1, Appended, Elements
  <2> SUFFICES ASSUME NEW k \in 1..Len(arCps)
               PROVE  /\ InChain(arChain', arCps[k].block)
                      /\ PlaceIn(arChain', arCps[k].block) <= PlaceIn(arChain', arCur')
                      /\ arCps[k].used <= arSize'[arCps[k].block]
                      /\ arCps[k].mark <= Len(arLive')
                      /\ \A i \in 1..arCps[k].mark :
                            EndsBefore(arChain', arLive'[i], arCps[k].block, arCps[k].used)
                      /\ \A j \in 1..(k - 1) :
                            /\ PlaceIn(arChain', arCps[j].block)
                                  <= PlaceIn(arChain', arCps[k].block)
                            /\ arCps[j].mark <= arCps[k].mark
    BY <2>1, <2>2, Zenon DEF CheckpointsInOrder
  <2>4. \A j \in 1..Len(arCps) :
           /\ arCps[j].block \in Blocks /\ arCps[j].used \in Nat /\ arCps[j].mark \in Nat
           /\ InChain(arChain, arCps[j].block)
           /\ PlaceIn(arChain, arCps[j].block) <= PlaceIn(arChain, arCur)
           /\ PlaceIn(arChain', arCps[j].block) = PlaceIn(arChain, arCps[j].block)
    BY <1>8, <2>2 DEF ArInv, CheckpointsInOrder, Scopes
  <2>5. /\ arCps[k].used <= arSize[arCps[k].block]
        /\ arCps[k].mark <= Len(arLive)
        /\ \A i \in 1..arCps[k].mark :
              EndsBefore(arChain, arLive[i], arCps[k].block, arCps[k].used)
        /\ \A j \in 1..(k - 1) :
              /\ PlaceIn(arChain, arCps[j].block) <= PlaceIn(arChain, arCps[k].block)
              /\ arCps[j].mark <= arCps[k].mark
    BY <2>2 DEF ArInv, CheckpointsInOrder
  <2>6. \A i \in 1..arCps[k].mark :
           EndsBefore(arChain', arLive'[i], arCps[k].block, arCps[k].used)
    <3> SUFFICES ASSUME NEW i \in 1..arCps[k].mark
                 PROVE  EndsBefore(arChain', arLive[i], arCps[k].block, arCps[k].used)
      <4>1. \A i \in 1..arCps[k].mark : i \in 1..Len(arLive)
        BY <2>3, <2>4, <2>5
      <4> QED
        BY <2>3, <4>1
    <3>1. i \in 1..Len(arLive)
      BY <2>3, <2>4, <2>5
    <3>2. InChain(arChain, arLive[i].block)
      BY <1>2, <3>1, Elements DEF ArInv, LiveInOrder
    <3> QED
      BY <1>9, <2>3, <2>4, <2>5, <3>1, <3>2
  <2>7. \A j \in 1..(k - 1) :
           PlaceIn(arChain', arCps[j].block) <= PlaceIn(arChain', arCps[k].block)
    BY <2>2, <2>4, <2>5
  <2>8. InChain(arChain', arCps[k].block)
        /\ PlaceIn(arChain', arCps[k].block) <= PlaceIn(arChain', arCur')
    BY <1>1, <1>8, <2>4
  <2>9. arCps[k].used <= arSize'[arCps[k].block] /\ arCps[k].mark <= Len(arLive')
    BY <2>3, <2>4, <2>5
  <2> QED
    BY <2>5, <2>6, <2>7, <2>8, <2>9
<1> QED
  BY <1>10, <1>11

\* A block spliced in behind place p moves only those behind it.
LEMMA Inserted ==
  ASSUME NEW s \in Seq(Blocks), NEW b \in Blocks, NEW p \in 1..Len(s)
  PROVE  /\ Spliced(s, p, b) \in Seq(Blocks)
         /\ Len(Spliced(s, p, b)) = Len(s) + 1
         /\ \A i \in 1..p : Spliced(s, p, b)[i] = s[i]
         /\ Spliced(s, p, b)[p + 1] = b
         /\ \A i \in (p + 1)..Len(s) : Spliced(s, p, b)[i + 1] = s[i]
<1> DEFINE front == SubSeq(s, 1, p)
           back == SubSeq(s, p + 1, Len(s))
<1>1. Len(s) \in Nat /\ \A i \in 1..Len(s) : s[i] \in Blocks
  OBVIOUS
<1>2. front \in Seq(Blocks) /\ Len(front) = p /\ \A i \in 1..p : front[i] = s[i]
  BY <1>1
<1>3. back \in Seq(Blocks) /\ Len(back) = Len(s) - p
      /\ \A i \in 1..(Len(s) - p) : back[i] = s[p + i]
  BY <1>1
<1>4. Spliced(s, p, b) = front \o <<b>> \o back
  BY Zenon DEF Spliced
<1> HIDE DEF front, back
<1>5. <<b>> \in Seq(Blocks) /\ Len(<<b>>) = 1 /\ <<b>>[1] = b
  OBVIOUS
<1>6. /\ front \o <<b>> \in Seq(Blocks) /\ Len(front \o <<b>>) = p + 1
      /\ \A i \in 1..p : (front \o <<b>>)[i] = s[i]
      /\ (front \o <<b>>)[p + 1] = b
  BY <1>1, <1>2, <1>5, Joined
<1> DEFINE most == front \o <<b>>
<1> HIDE DEF most
<1>7. /\ most \in Seq(Blocks) /\ Len(most) = p + 1
      /\ \A i \in 1..p : most[i] = s[i]
      /\ most[p + 1] = b
      /\ Spliced(s, p, b) = most \o back
  BY <1>4, <1>6 DEF most
<1>8. /\ most \o back \in Seq(Blocks) /\ Len(most \o back) = p + 1 + (Len(s) - p)
      /\ \A i \in 1..(p + 1) : (most \o back)[i] = most[i]
      /\ \A i \in 1..(Len(s) - p) : (most \o back)[p + 1 + i] = back[i]
  <2>1. /\ most \o back \in Seq(Blocks) /\ Len(most \o back) = Len(most) + Len(back)
        /\ \A i \in 1..Len(most) : (most \o back)[i] = most[i]
        /\ \A i \in 1..Len(back) : (most \o back)[Len(most) + i] = back[i]
    <3>1. most \in Seq(Blocks) /\ back \in Seq(Blocks)
      BY <1>3, <1>7, Zenon
    <3> QED
      BY <3>1, Joined
  <2> QED
    BY <1>3, <1>7, <2>1, Zenon
<1>9. ASSUME NEW i \in (p + 1)..Len(s) PROVE (most \o back)[i + 1] = s[i]
  <2>1. i - p \in 1..(Len(s) - p) /\ p + 1 + (i - p) = i + 1 /\ p + (i - p) = i
    BY <1>1
  <2> QED
    <3>1. (most \o back)[p + 1 + (i - p)] = back[i - p] /\ back[i - p] = s[p + (i - p)]
      BY <1>3, <1>8, <2>1, Zenon
    <3> QED
      BY <2>1, <3>1, Zenon
<1>10. p + 1 \in 1..(p + 1) /\ (\A i \in 1..p : i \in 1..(p + 1))
       /\ p + 1 + (Len(s) - p) = Len(s) + 1
  BY <1>1
<1>11. /\ (most \o back)[p + 1] = b /\ \A i \in 1..p : (most \o back)[i] = s[i]
  BY <1>7, <1>8, <1>10, Zenon
<1> QED
  BY <1>7, <1>8, <1>9, <1>10, <1>11, Zenon

\* What the three ways to allocate leave typed.
LEMMA TakeTyped ==
  ASSUME ArInv, NEW b \in Blocks, NEW off \in Nat, NEW n \in Nat,
         Take(b, off, n), UNCHANGED <<arCps, arRegion>>,
         arChain' \in Seq(Blocks), arSize' \in [Blocks -> Nat]
  PROVE  ArTyped'
<1>1. [block |-> b, off |-> off, size |-> n] \in Strings
  BY DEF Strings
<1>2. arLive \in Seq(Strings) /\ arUsed \in [Blocks -> Nat]
      /\ arCps \in Seq(Scopes) /\ arRegion \in Seq(Objs)
  BY Zenon DEF ArInv, ArTyped
<1>3. arLive' \in Seq(Strings)
  BY <1>1, <1>2, Appended DEF Take
<1>4. arUsed' \in [Blocks -> Nat] /\ arCur' \in Blocks
  BY <1>2 DEF Take
<1> QED
  BY <1>2, <1>3, <1>4 DEF ArTyped

\* aot_arena_alloc keeps the order, whichever way it finds room.
LEMMA AllocKeeps ==
  ASSUME ArInv, NEW n \in AllocSizes, ArPut(n), UNCHANGED <<arCps, arRegion>>
  PROVE  ArInv'
<1>1. n \in Nat /\ n > 0 /\ BlockSize \in Nat /\ BlockSize > 0
  BY ArenaAssumption
<1>2. arChain \in Seq(Blocks) /\ arSize \in [Blocks -> Nat] /\ arUsed \in [Blocks -> Nat]
      /\ arCur \in Blocks /\ NoRepeats(arChain) /\ InChain(arChain, arCur)
  BY Zenon DEF ArInv, ArTyped, ChainOnce
<1>3. arCps' = arCps /\ arRegion' = arRegion
  OBVIOUS
<1>4. /\ PlaceIn(arChain, arCur) \in 1..Len(arChain) /\ Len(arChain) \in Nat
      /\ arChain[PlaceIn(arChain, arCur)] = arCur
      /\ Place(arCur) = PlaceIn(arChain, arCur)
  <2>1. Place(arCur) = PlaceIn(arChain, arCur)
    BY DEF Place, PlaceIn
  <2> QED
    BY <1>2, <2>1, PlaceOf, Elements
<1>5. \A c \in Blocks : arUsed[c] <= arSize[c]
  BY DEF ArInv, UsedFits
<1>9. ScopesFit'
  BY <1>3, Zenon DEF ArInv, ScopesFit
<1>6. CASE ArBump(n)
  <2>1. Take(arCur, arUsed[arCur], n) /\ arUsed[arCur] + n <= arSize[arCur]
        /\ arChain' = arChain /\ arSize' = arSize
    BY <1>6 DEF ArBump, Fits
  <2>2. ArTyped'
    BY <1>1, <1>2, <1>3, <2>1, TakeTyped
  <2>3. ChainOnce' /\ UsedFits'
    BY <1>1, <1>2, <1>5, <2>1 DEF Take, ArInv, ChainOnce, UsedFits
  <2>4. LiveInOrder' /\ CheckpointsInOrder'
    BY <1>1, <1>2, <1>3, <2>1, <2>2, <2>3, TakeKeeps
  <2> QED
    BY <1>9, <2>2, <2>3, <2>4 DEF ArInv
<1>7. CASE ArReuse(n)
  <2> DEFINE b == NextBlock(arCur)
  <2>1. Take(b, 0, n) /\ n <= arSize[b] /\ HasNext(arCur)
        /\ arChain' = arChain /\ arSize' = arSize
    BY <1>7 DEF ArReuse
  <2>2. PlaceIn(arChain, arCur) + 1 \in DOMAIN arChain
        /\ b = arChain[PlaceIn(arChain, arCur) + 1]
    BY <1>2, <1>4, <2>1, Elements DEF HasNext, NextBlock
  <2>3. b \in Blocks /\ InChain(arChain, b)
        /\ PlaceIn(arChain, b) = PlaceIn(arChain, arCur) + 1
    BY <1>2, <2>2, PlaceIs, Elements DEF InChain
  <2> HIDE DEF b
  <2>4. ArTyped'
    BY <1>1, <1>2, <1>3, <2>1, <2>3, TakeTyped
  <2>5. ChainOnce' /\ UsedFits'
    BY <1>1, <1>2, <1>5, <2>1, <2>3 DEF Take, ArInv, ChainOnce, UsedFits
  <2>6. LiveInOrder' /\ CheckpointsInOrder'
    BY <1>1, <1>2, <1>3, <1>4, <2>1, <2>3, <2>4, <2>5, TakeKeeps
  <2> QED
    BY <1>9, <2>4, <2>5, <2>6 DEF ArInv
<1>8. CASE ArGrow(n)
  <2> DEFINE p == PlaceIn(arChain, arCur)
  <2>1. PICK b \in Blocks :
           /\ arSize[b] = 0
           /\ arSize' = [arSize EXCEPT ![b] = IF n > BlockSize THEN n ELSE BlockSize]
           /\ arChain' = Spliced(arChain, p, b)
           /\ Take(b, 0, n)
    BY <1>4, <1>8 DEF ArGrow
  <2> HIDE DEF p
  <2>2. p \in 1..Len(arChain) /\ arChain[p] = arCur /\ Len(arChain) \in Nat
    BY <1>4 DEF p
  <2>3. /\ arChain' \in Seq(Blocks) /\ Len(arChain') = Len(arChain) + 1
        /\ \A i \in 1..p : arChain'[i] = arChain[i]
        /\ arChain'[p + 1] = b
        /\ \A i \in (p + 1)..Len(arChain) : arChain'[i + 1] = arChain[i]
        /\ DOMAIN arChain' = 1..(Len(arChain) + 1)
        /\ DOMAIN arChain = 1..Len(arChain)
    <3>1. /\ arChain' \in Seq(Blocks) /\ Len(arChain') = Len(arChain) + 1
          /\ \A i \in 1..p : arChain'[i] = arChain[i]
          /\ arChain'[p + 1] = b
          /\ \A i \in (p + 1)..Len(arChain) : arChain'[i + 1] = arChain[i]
      <4>1. arChain \in Seq(Blocks) /\ b \in Blocks /\ p \in 1..Len(arChain)
            /\ arChain' = Spliced(arChain, p, b)
        BY <1>2, <2>1, <2>2, Zenon
      <4> QED
        <5>1. arChain \in Seq(Blocks) /\ b \in Blocks /\ p \in 1..Len(arChain)
          BY <4>1
        <5>2. /\ Spliced(arChain, p, b) \in Seq(Blocks)
              /\ Len(Spliced(arChain, p, b)) = Len(arChain) + 1
              /\ \A i \in 1..p : Spliced(arChain, p, b)[i] = arChain[i]
              /\ Spliced(arChain, p, b)[p + 1] = b
              /\ \A i \in (p + 1)..Len(arChain) :
                    Spliced(arChain, p, b)[i + 1] = arChain[i]
          BY <5>1, Inserted, Zenon
        <5> QED
          BY <4>1, <5>2, Zenon
    <3> QED
      BY <1>2, <3>1, Elements
  <2>4. ~InChain(arChain, b)
    BY <2>1 DEF ArInv, ChainOnce
  <2>5. NoRepeats(arChain')
    <3> SUFFICES ASSUME NEW i \in 1..(Len(arChain) + 1), NEW j \in 1..(Len(arChain) + 1),
                        arChain'[i] = arChain'[j], i < j
                 PROVE  FALSE
      <4> QED
        BY <2>2, <2>3 DEF NoRepeats
    <3> DEFINE old(k) == IF k <= p THEN k ELSE k - 1
    <3>1. ASSUME NEW k \in 1..(Len(arChain) + 1), k # p + 1
          PROVE  old(k) \in 1..Len(arChain) /\ arChain'[k] = arChain[old(k)]
      <4>1. CASE k <= p
        BY <2>2, <2>3, <4>1
      <4>2. CASE k > p
        <5>1. k - 1 \in (p + 1)..Len(arChain) /\ k - 1 + 1 = k /\ old(k) = k - 1
          BY <2>2, <3>1, <4>2
        <5>2. arChain'[k - 1 + 1] = arChain[k - 1]
          BY <2>3, <5>1
        <5> QED
          BY <2>2, <5>1, <5>2
      <4> QED
        BY <2>2, <4>1, <4>2
    <3>2. ASSUME NEW k \in 1..(Len(arChain) + 1), k # p + 1
          PROVE  arChain'[k] # b
      <4>1. old(k) \in DOMAIN arChain /\ arChain'[k] = arChain[old(k)]
        BY <2>3, <3>1, <3>2
      <4> QED
        BY <2>4, <4>1 DEF InChain
    <3>3. i # p + 1 /\ j # p + 1
      BY <2>2, <2>3, <3>2
    <3>4. old(i) \in DOMAIN arChain /\ old(j) \in DOMAIN arChain
          /\ arChain[old(i)] = arChain[old(j)]
      BY <2>3, <3>1, <3>3
    <3>5. old(i) # old(j)
      BY <2>2, <3>3
    <3> QED
      BY <1>2, <3>4, <3>5 DEF NoRepeats
  <2>6. ASSUME NEW c \in Blocks, InChain(arChain, c)
        PROVE  /\ InChain(arChain', c)
               /\ arSize'[c] = arSize[c]
               /\ PlaceIn(arChain, c) <= p => PlaceIn(arChain', c) = PlaceIn(arChain, c)
    <3>1. PlaceIn(arChain, c) \in 1..Len(arChain) /\ arChain[PlaceIn(arChain, c)] = c
      BY <1>2, <2>6, PlaceOf
    <3>2. c # b
      BY <2>4, <2>6
    <3>3. CASE PlaceIn(arChain, c) <= p
      <4>1. PlaceIn(arChain, c) \in 1..p /\ PlaceIn(arChain, c) \in DOMAIN arChain'
        BY <2>2, <2>3, <3>1, <3>3
      <4>2. arChain'[PlaceIn(arChain, c)] = c
        BY <2>3, <3>1, <4>1
      <4>3. PlaceIn(arChain', c) = PlaceIn(arChain, c)
        BY <2>3, <2>5, <4>1, <4>2, PlaceIs
      <4> QED
        BY <1>2, <2>1, <3>2, <4>1, <4>2, <4>3 DEF InChain
    <3>4. CASE PlaceIn(arChain, c) > p
      <4>1. PlaceIn(arChain, c) \in (p + 1)..Len(arChain)
            /\ PlaceIn(arChain, c) + 1 \in DOMAIN arChain'
        BY <2>2, <2>3, <3>1, <3>4
      <4>2. arChain'[PlaceIn(arChain, c) + 1] = c
        BY <2>3, <3>1, <4>1
      <4>3. InChain(arChain', c)
        BY <4>1, <4>2 DEF InChain
      <4>4. arSize'[c] = arSize[c]
        BY <1>2, <2>1, <3>2
      <4> QED
        BY <2>2, <3>1, <3>4, <4>3, <4>4
    <3> QED
      BY <2>2, <3>1, <3>3, <3>4
  <2>7. InChain(arChain', b) /\ PlaceIn(arChain', b) = p + 1
    <3>1. p + 1 \in DOMAIN arChain'
      BY <2>2, <2>3
    <3> QED
      BY <2>3, <2>5, <3>1, PlaceIs DEF InChain
  <2>8. arSize' \in [Blocks -> Nat] /\ arSize'[b] # 0 /\ n <= arSize'[b]
    BY <1>1, <1>2, <2>1
  <2>9. ArTyped'
    BY <1>1, <1>2, <1>3, <2>1, <2>3, <2>8, TakeTyped
  <2>10. ChainOnce'
    <3>1. ASSUME NEW c \in Blocks, InChain(arChain', c) PROVE arSize'[c] # 0
      <4>1. CASE c = b
        BY <2>8, <4>1
      <4>2. CASE c # b
        <5>1. PICK i \in 1..(Len(arChain) + 1) : arChain'[i] = c
          BY <2>3, <3>1 DEF InChain
        <5>2. i # p + 1
          BY <2>3, <4>2, <5>1
        <5>3. i \in 1..p \/ i - 1 \in (p + 1)..Len(arChain)
          BY <2>2, <5>2
        <5>4. CASE i \in 1..p
          <6>1. InChain(arChain, c)
            BY <2>2, <2>3, <5>1, <5>4 DEF InChain
          <6> QED
            BY <2>6, <6>1 DEF ArInv, ChainOnce
        <5>5. CASE i - 1 \in (p + 1)..Len(arChain)
          <6>1. arChain[i - 1] = c /\ i - 1 \in DOMAIN arChain
            BY <2>2, <2>3, <5>1, <5>5
          <6>2. InChain(arChain, c)
            BY <6>1 DEF InChain
          <6> QED
            BY <2>6, <6>2 DEF ArInv, ChainOnce
        <5> QED
          BY <5>3, <5>4, <5>5
      <4> QED
        BY <4>1, <4>2
    <3>2. arCur' = b
      BY <2>1 DEF Take
    <3> QED
      BY <2>5, <2>7, <3>1, <3>2 DEF ChainOnce
  <2>11. UsedFits'
    BY <1>1, <1>2, <1>5, <2>1, <2>8 DEF Take, UsedFits
  <2>12. LiveInOrder' /\ CheckpointsInOrder'
    <3>1. p \in Nat /\ p + 1 > p
      BY <2>2
    <3> QED
      BY <1>1, <1>3, <2>1, <2>4, <2>6, <2>7, <2>9, <2>10, <2>11, <3>1, TakeKeeps DEF p
  <2> QED
    BY <1>9, <2>9, <2>10, <2>11, <2>12 DEF ArInv
<1> QED
  BY <1>6, <1>7, <1>8 DEF ArPut

\* The first m elements of a sequence.
LEMMA Front ==
  ASSUME NEW S, NEW s \in Seq(S), NEW m \in 0..Len(s)
  PROVE  /\ SubSeq(s, 1, m) \in Seq(S)
         /\ Len(SubSeq(s, 1, m)) = m
         /\ \A i \in 1..m : SubSeq(s, 1, m)[i] = s[i]
  OBVIOUS

\* A checkpoint is pushed.
LEMMA SaveKeeps ==
  ASSUME ArInv, ArSave, UNCHANGED <<strings, arRegion>>
  PROVE  ArInv'
<1> DEFINE c == [block |-> arCur, used |-> arUsed[arCur],
                 region |-> Len(arRegion), mark |-> Len(arLive)]
<1>1. /\ arCps \in Seq(Scopes) /\ arRegion \in Seq(Objs) /\ arLive \in Seq(Strings)
      /\ arCur \in Blocks /\ arUsed \in [Blocks -> Nat] /\ arChain \in Seq(Blocks)
      /\ NoRepeats(arChain) /\ InChain(arChain, arCur)
  BY Zenon DEF ArInv, ArTyped, ChainOnce
<1>2. c \in Scopes
  BY <1>1 DEF Scopes
<1>3. /\ arCps' = Append(arCps, c) /\ Len(arCps) < CheckpointMax
      /\ UNCHANGED <<arChain, arSize, arUsed, arCur, arLive, arRegion>>
  BY DEF ArSave, strings
<1>4. /\ arCps' \in Seq(Scopes) /\ Len(arCps') = Len(arCps) + 1 /\ Len(arCps) \in Nat
      /\ \A i \in 1..Len(arCps) : arCps'[i] = arCps[i] /\ arCps[i] \in Scopes
      /\ arCps'[Len(arCps) + 1] = c
      /\ DOMAIN arCps' = 1..(Len(arCps) + 1) /\ DOMAIN arCps = 1..Len(arCps)
  BY <1>1, <1>2, <1>3, Appended, Elements
<1>5. ArTyped' /\ ChainOnce' /\ UsedFits' /\ LiveInOrder'
  BY <1>3, <1>4 DEF ArInv, ArTyped, ChainOnce, UsedFits, LiveInOrder
<1>6. PlaceIn(arChain, arCur) \in Nat
  BY <1>1, PlaceOf
<1>7. CheckpointsInOrder'
  <2> SUFFICES ASSUME NEW k \in 1..(Len(arCps) + 1)
               PROVE  /\ InChain(arChain, arCps'[k].block)
                      /\ PlaceIn(arChain, arCps'[k].block) <= PlaceIn(arChain, arCur)
                      /\ arCps'[k].used <= arSize[arCps'[k].block]
                      /\ arCps'[k].mark <= Len(arLive)
                      /\ \A i \in 1..arCps'[k].mark :
                            EndsBefore(arChain, arLive[i], arCps'[k].block, arCps'[k].used)
                      /\ \A j \in 1..(k - 1) :
                            /\ PlaceIn(arChain, arCps'[j].block)
                                  <= PlaceIn(arChain, arCps'[k].block)
                            /\ arCps'[j].mark <= arCps'[k].mark
    BY <1>3, <1>4, Zenon DEF CheckpointsInOrder
  <2>1. \A j \in 1..Len(arCps) :
           /\ InChain(arChain, arCps[j].block)
           /\ PlaceIn(arChain, arCps[j].block) <= PlaceIn(arChain, arCur)
           /\ arCps[j].used <= arSize[arCps[j].block]
           /\ arCps[j].mark <= Len(arLive)
           /\ \A i \in 1..arCps[j].mark :
                 EndsBefore(arChain, arLive[i], arCps[j].block, arCps[j].used)
           /\ \A l \in 1..(j - 1) :
                 /\ PlaceIn(arChain, arCps[l].block) <= PlaceIn(arChain, arCps[j].block)
                 /\ arCps[l].mark <= arCps[j].mark
    BY <1>4 DEF ArInv, CheckpointsInOrder
  <2>2. CASE k \in 1..Len(arCps)
    <3>1. arCps'[k] = arCps[k] /\ \A j \in 1..(k - 1) : arCps'[j] = arCps[j] /\ j \in 1..Len(arCps)
      BY <1>4, <2>2
    <3> QED
      BY <2>1, <2>2, <3>1
  <2>3. CASE k = Len(arCps) + 1
    <3>1. arCps'[k] = c /\ \A j \in 1..(k - 1) : arCps'[j] = arCps[j] /\ j \in 1..Len(arCps)
      BY <1>4, <2>3
    <3>2. c.block = arCur /\ c.used = arUsed[arCur] /\ c.mark = Len(arLive)
      OBVIOUS
    <3>3. arUsed[arCur] <= arSize[arCur] /\ Len(arLive) \in Nat
      BY <1>1 DEF ArInv, UsedFits
    <3>4. \A i \in 1..Len(arLive) : EndsBefore(arChain, arLive[i], arCur, arUsed[arCur])
      <4> SUFFICES ASSUME NEW i \in 1..Len(arLive)
                   PROVE  EndsBefore(arChain, arLive[i], arCur, arUsed[arCur])
        OBVIOUS
      <4>1. /\ InChain(arChain, arLive[i].block)
            /\ PlaceIn(arChain, arLive[i].block) <= PlaceIn(arChain, arCur)
            /\ arLive[i].off + arLive[i].size <= arUsed[arLive[i].block]
        BY <1>1, Elements DEF ArInv, LiveInOrder
      <4>2. CASE arLive[i].block = arCur
        BY <4>1, <4>2 DEF EndsBefore
      <4>3. CASE arLive[i].block # arCur
        <5>1. PlaceIn(arChain, arLive[i].block) \in Nat
              /\ arChain[PlaceIn(arChain, arLive[i].block)] = arLive[i].block
          <6> DEFINE home == arLive[i].block
          <6>1. InChain(arChain, home)
            BY <4>1
          <6> HIDE DEF home
          <6>2. PlaceIn(arChain, home) \in 1..Len(arChain) /\ arChain[PlaceIn(arChain, home)] = home
            BY <1>1, <6>1, PlaceOf
          <6> QED
            BY <6>2 DEF home
        <5>2. arChain[PlaceIn(arChain, arCur)] = arCur
          BY <1>1, PlaceOf
        <5>3. PlaceIn(arChain, arLive[i].block) # PlaceIn(arChain, arCur)
          BY <4>3, <5>1, <5>2
        <5> QED
          BY <1>6, <4>1, <5>1, <5>3 DEF EndsBefore
      <4> QED
        BY <4>2, <4>3
    <3>5. \A j \in 1..(k - 1) :
             /\ PlaceIn(arChain, arCps'[j].block) <= PlaceIn(arChain, arCps'[k].block)
             /\ arCps'[j].mark <= arCps'[k].mark
      BY <2>1, <3>1, <3>2
    <3> HIDE DEF c
    <3> QED
      BY <1>1, <1>6, <3>1, <3>2, <3>3, <3>4, <3>5
  <2> QED
    BY <2>2, <2>3
<1>8. ScopesFit'
  <2>1. Len(arRegion) \in Nat /\ CheckpointMax \in Nat
    BY <1>1, ArenaAssumption
  <2>2. c.region = Len(arRegion) /\ \A i \in 1..Len(arCps) : arCps[i].region \in Nat
    BY <1>4 DEF Scopes
  <2>3. \A k \in 1..Len(arCps) :
           /\ arCps[k].region <= Len(arRegion)
           /\ \A j \in 1..(k - 1) : arCps[j].region <= arCps[k].region
    BY <1>4 DEF ArInv, ScopesFit
  <2> HIDE DEF c
  <2> QED
    BY <1>3, <1>4, <2>1, <2>2, <2>3 DEF ScopesFit
<1> QED
  BY <1>5, <1>7, <1>8 DEF ArInv

\* A rewind to checkpoint k that keeps the first m checkpoints, of which k is
\* the last or just released.
LEMMA RewindKeeps ==
  ASSUME ArInv, NEW k \in DOMAIN arCps, Rewind(k), NEW m \in {k - 1, k},
         arCps' = SubSeq(arCps, 1, m)
  PROVE  ArInv'
<1> DEFINE b == arCps[k].block
           mark == arCps[k].mark
           region == arCps[k].region
<1>1. /\ arCps \in Seq(Scopes) /\ arRegion \in Seq(Objs) /\ arLive \in Seq(Strings)
      /\ arCur \in Blocks /\ arUsed \in [Blocks -> Nat] /\ arSize \in [Blocks -> Nat]
      /\ arChain \in Seq(Blocks) /\ NoRepeats(arChain) /\ InChain(arChain, arCur)
  BY Zenon DEF ArInv, ArTyped, ChainOnce
<1>2. /\ k \in 1..Len(arCps) /\ Len(arCps) \in Nat /\ m \in 0..Len(arCps) /\ m \in 0..k
      /\ DOMAIN arCps = 1..Len(arCps)
      /\ \A j \in 1..Len(arCps) : arCps[j] \in Scopes
  BY <1>1, Elements
<1>3. /\ b \in Blocks /\ arCps[k].used \in Nat /\ region \in Nat /\ mark \in Nat
  BY <1>2 DEF Scopes
<1>4. /\ InChain(arChain, b) /\ PlaceIn(arChain, b) <= PlaceIn(arChain, arCur)
      /\ arCps[k].used <= arSize[b] /\ mark <= Len(arLive)
      /\ \A i \in 1..mark : EndsBefore(arChain, arLive[i], b, arCps[k].used)
      /\ \A j \in 1..(k - 1) :
            PlaceIn(arChain, arCps[j].block) <= PlaceIn(arChain, b) /\ arCps[j].mark <= mark
  BY <1>2 DEF ArInv, CheckpointsInOrder
<1>5. region <= Len(arRegion) /\ \A j \in 1..(k - 1) : arCps[j].region <= region
  BY <1>2 DEF ArInv, ScopesFit
<1>6. /\ arUsed' = [c \in Blocks |-> IF c \in Behind(b) THEN 0
                                     ELSE IF c = b THEN arCps[k].used ELSE arUsed[c]]
      /\ arCur' = b
      /\ arLive' = SubSeq(arLive, 1, mark)
      /\ arRegion' = SubSeq(arRegion, 1, region)
      /\ arChain' = arChain /\ arSize' = arSize
  BY DEF Rewind, RewindRegion
<1> HIDE DEF b, mark, region
<1>7. /\ arCps' \in Seq(Scopes) /\ Len(arCps') = m
      /\ \A j \in 1..m : arCps'[j] = arCps[j]
  BY <1>1, <1>2, Front
<1>8. mark \in 0..Len(arLive) /\ region \in 0..Len(arRegion) /\ Len(arLive) \in Nat
  BY <1>1, <1>3, <1>4, <1>5
<1>9. /\ arLive' \in Seq(Strings) /\ Len(arLive') = mark
      /\ \A i \in 1..mark : arLive'[i] = arLive[i] /\ i \in 1..Len(arLive)
  BY <1>1, <1>6, <1>8, Front
<1>10. arRegion' \in Seq(Objs) /\ Len(arRegion') = region
  BY <1>1, <1>6, <1>8, Front
<1>11. ArTyped'
  BY <1>1, <1>3, <1>6, <1>7, <1>9, <1>10 DEF ArTyped
<1>12. ChainOnce' /\ UsedFits'
  <2>1. \A c \in Blocks : arUsed'[c] <= arSize[c]
    BY <1>1, <1>3, <1>4, <1>6 DEF ArInv, UsedFits
  <2> QED
    BY <1>4, <1>6, <2>1 DEF ArInv, ChainOnce, UsedFits
<1>13. PlaceIn(arChain, b) \in Nat
  BY <1>1, <1>4, PlaceOf
\* Blocks up to b are not behind it.
<1>14. ASSUME NEW c \in Blocks, InChain(arChain, c),
              PlaceIn(arChain, c) <= PlaceIn(arChain, b)
       PROVE  arUsed'[c] = IF c = b THEN arCps[k].used ELSE arUsed[c]
  <2>1. c \notin Behind(b)
    <3>1. Behind(b) = {arChain[i] : i \in {i \in DOMAIN arChain : i > PlaceIn(arChain, b)}}
      BY DEF Behind, Place, PlaceIn
    <3>2. ASSUME NEW i \in DOMAIN arChain, i > PlaceIn(arChain, b), arChain[i] = c
          PROVE  FALSE
      <4>1. PlaceIn(arChain, c) = i
        BY <1>1, <3>2, PlaceIs
      <4>2. i \in Nat
        <5>1. DOMAIN arChain = 1..Len(arChain) /\ Len(arChain) \in Nat
          BY <1>1, Elements
        <5> QED
          BY <3>2, <5>1
      <4> QED
        BY <1>13, <1>14, <3>2, <4>1, <4>2
    <3> QED
      BY <3>1, <3>2
  <2> QED
    BY <1>6, <2>1
<1>15. LiveInOrder'
  <2> SUFFICES ASSUME NEW i \in 1..mark
               PROVE  /\ InChain(arChain, arLive[i].block)
                      /\ PlaceIn(arChain, arLive[i].block) <= PlaceIn(arChain, b)
                      /\ arLive[i].off + arLive[i].size <= arUsed'[arLive[i].block]
                      /\ \A j \in 1..(i - 1) :
                            EndsBefore(arChain, arLive[j], arLive[i].block, arLive[i].off)
    <3>1. DOMAIN arLive' = 1..mark
      BY <1>9, Elements
    <3>2. \A i \in 1..mark : arLive'[i] = arLive[i] /\ \A j \in 1..(i - 1) : arLive'[j] = arLive[j]
      BY <1>3, <1>9
    <3> QED
      BY <1>6, <3>1, <3>2, Zenon DEF LiveInOrder
  <2>1. /\ InChain(arChain, arLive[i].block)
        /\ arLive[i].off + arLive[i].size <= arUsed[arLive[i].block]
        /\ \A j \in 1..(i - 1) :
              EndsBefore(arChain, arLive[j], arLive[i].block, arLive[i].off)
        /\ arLive[i] \in Strings
    BY <1>1, <1>9, Elements DEF ArInv, LiveInOrder
  <2>2. EndsBefore(arChain, arLive[i], b, arCps[k].used)
    BY <1>4
  <2>7. arLive[i].block \in Blocks
    BY <2>1 DEF Strings
  <2>3. arLive[i].block \in Blocks /\ PlaceIn(arChain, arLive[i].block) \in Nat
    BY <1>1, <2>1, <2>7, PlaceOf
  <2>4. PlaceIn(arChain, arLive[i].block) <= PlaceIn(arChain, b)
    BY <1>13, <2>2, <2>3 DEF EndsBefore
  <2>5. arUsed'[arLive[i].block] =
           IF arLive[i].block = b THEN arCps[k].used ELSE arUsed[arLive[i].block]
    BY <1>14, <2>1, <2>3, <2>4
  <2>6. arLive[i].block = b => arLive[i].off + arLive[i].size <= arCps[k].used
    BY <1>13, <2>2, <2>3 DEF EndsBefore
  <2> QED
    BY <2>1, <2>4, <2>5, <2>6
<1>16. CheckpointsInOrder'
  <2> SUFFICES ASSUME NEW l \in 1..m
               PROVE  /\ InChain(arChain, arCps[l].block)
                      /\ PlaceIn(arChain, arCps[l].block) <= PlaceIn(arChain, b)
                      /\ arCps[l].used <= arSize[arCps[l].block]
                      /\ arCps[l].mark <= mark
                      /\ \A i \in 1..arCps[l].mark :
                            EndsBefore(arChain, arLive'[i], arCps[l].block, arCps[l].used)
                      /\ \A j \in 1..(l - 1) :
                            /\ PlaceIn(arChain, arCps[j].block)
                                  <= PlaceIn(arChain, arCps[l].block)
                            /\ arCps[j].mark <= arCps[l].mark
    <3>1. DOMAIN arCps' = 1..m
      BY <1>7, Elements
    <3>2. \A l \in 1..m : arCps'[l] = arCps[l] /\ \A j \in 1..(l - 1) : arCps'[j] = arCps[j]
      BY <1>2, <1>7
    <3> QED
      BY <1>6, <1>9, <3>1, <3>2, ZenonT(60) DEF CheckpointsInOrder
  <2>1. l \in 1..Len(arCps) /\ (l \in 1..(k - 1) \/ l = k) /\ arCps[l].mark \in Nat
    <3>1. l \in 1..Len(arCps) /\ (l \in 1..(k - 1) \/ l = k)
      BY <1>2
    <3>2. arCps[l] \in Scopes
      BY <1>2, <3>1
    <3> QED
      BY <3>1, <3>2 DEF Scopes
  <2>2. /\ InChain(arChain, arCps[l].block)
        /\ arCps[l].used <= arSize[arCps[l].block]
        /\ \A i \in 1..arCps[l].mark :
              EndsBefore(arChain, arLive[i], arCps[l].block, arCps[l].used)
        /\ \A j \in 1..(l - 1) :
              /\ PlaceIn(arChain, arCps[j].block) <= PlaceIn(arChain, arCps[l].block)
              /\ arCps[j].mark <= arCps[l].mark
    BY <1>2, <2>1 DEF ArInv, CheckpointsInOrder
  <2>3. PlaceIn(arChain, arCps[l].block) <= PlaceIn(arChain, b) /\ arCps[l].mark <= mark
    BY <1>3, <1>4, <1>13, <2>1 DEF b, mark
  <2>4. \A i \in 1..arCps[l].mark : arLive'[i] = arLive[i]
    BY <1>3, <1>9, <2>1, <2>3
  <2> QED
    BY <2>2, <2>3, <2>4
<1>17. ScopesFit'
  <2>1. DOMAIN arCps' = 1..m /\ m <= CheckpointMax
    <3>1. DOMAIN arCps' = 1..m
      BY <1>7, Elements
    <3> QED
      BY <1>2, <3>1, ArenaAssumption DEF ArInv, ScopesFit
  <2>2. \A l \in 1..m :
           /\ arCps'[l] = arCps[l] /\ arCps[l].region <= region
           /\ \A j \in 1..(l - 1) : arCps'[j] = arCps[j] /\ arCps[j].region <= arCps[l].region
    <3> SUFFICES ASSUME NEW l \in 1..m
                 PROVE  /\ arCps'[l] = arCps[l] /\ arCps[l].region <= region
                        /\ \A j \in 1..(l - 1) :
                              arCps'[j] = arCps[j] /\ arCps[j].region <= arCps[l].region
      OBVIOUS
    <3>1. l \in 1..Len(arCps) /\ (l \in 1..(k - 1) \/ l = k)
      BY <1>2
    <3>2. arCps[l].region <= region
      BY <1>3, <1>5, <3>1 DEF region
    <3>3. \A j \in 1..(l - 1) : arCps[j].region <= arCps[l].region
      BY <1>2, <3>1 DEF ArInv, ScopesFit
    <3>4. \A j \in 1..(l - 1) : j \in 1..m
      BY <1>2
    <3> QED
      BY <1>7, <3>2, <3>3, <3>4
  <2> QED
    BY <1>7, <1>10, <2>1, <2>2 DEF ScopesFit
<1> QED
  BY <1>11, <1>12, <1>15, <1>16, <1>17 DEF ArInv

\* Every step of the arena keeps it in order.
LEMMA ArInvNext ==
  ASSUME ArInv, [ArNext]_arVars
  PROVE  ArInv'
<1>1. CASE UNCHANGED arVars
  BY <1>1, ArInvKept DEF arVars, strings
<1>2. ASSUME NEW n \in AllocSizes, ArAlloc(n) \/ ArNewArray(n)
      PROVE  ArInv'
  BY <1>2, AllocKeeps DEF ArAlloc, ArNewArray, containers
<1>3. CASE ArSave /\ UNCHANGED <<strings, containers>>
  BY <1>3, SaveKeeps DEF containers
<1>4. ASSUME NEW k \in 1..CheckpointMax, ArRestore(k) \/ ArDrop(k)
      PROVE  ArInv'
  <2>1. k \in DOMAIN arCps /\ Rewind(k)
    BY <1>4 DEF ArRestore, ArDrop
  <2>2. PICK m \in {k - 1, k} : arCps' = SubSeq(arCps, 1, m)
    BY <1>4 DEF ArRestore, ArDrop
  <2> QED
    BY <2>1, <2>2, RewindKeeps
<1>5. CASE ArNewObject
  BY <1>5, ArInvKept DEF ArNewObject
<1>6. ASSUME NEW c \in Objs, ArStoreString(c) \/ \E v \in Objs : ArStoreObject(c, v)
      PROVE  ArInv'
  BY <1>6, ArInvKept DEF ArStoreString, ArStoreObject
<1> QED
  BY <1>1, <1>2, <1>3, <1>4, <1>5, <1>6 DEF ArNext

\* Strings in order are disjoint.
LEMMA OrderedDisjoint ==
  ASSUME ArInv
  PROVE  LiveDisjoint
<1>1. /\ arLive \in Seq(Strings) /\ arChain \in Seq(Blocks) /\ NoRepeats(arChain)
      /\ arUsed \in [Blocks -> Nat] /\ arSize \in [Blocks -> Nat]
  BY Zenon DEF ArInv, ArTyped, ChainOnce
<1> SUFFICES ASSUME NEW i \in DOMAIN arLive
             PROVE  /\ arLive[i].off + arLive[i].size <= arSize[arLive[i].block]
                    /\ arLive[i].off + arLive[i].size <= arUsed[arLive[i].block]
                    /\ \A j \in 1..(i - 1) :
                          arLive[j].block = arLive[i].block =>
                             arLive[j].off + arLive[j].size <= arLive[i].off
  BY DEF LiveDisjoint
<1>2. arLive[i] \in Strings
  BY <1>1, Elements
<1>3. arLive[i].block \in Blocks /\ arLive[i].off \in Nat /\ arLive[i].size \in Nat
  BY <1>2 DEF Strings
<1>4. /\ InChain(arChain, arLive[i].block)
      /\ arLive[i].off + arLive[i].size <= arUsed[arLive[i].block]
      /\ \A j \in 1..(i - 1) :
            EndsBefore(arChain, arLive[j], arLive[i].block, arLive[i].off)
  BY DEF ArInv, LiveInOrder
<1>5. arUsed[arLive[i].block] <= arSize[arLive[i].block]
  BY <1>3 DEF ArInv, UsedFits
<1>6. arLive[i].off + arLive[i].size <= arSize[arLive[i].block]
  BY <1>1, <1>3, <1>4, <1>5
<1>7. PlaceIn(arChain, arLive[i].block) \in Nat
  BY <1>1, <1>4, PlaceOf
<1> QED
  BY <1>4, <1>6, <1>7 DEF EndsBefore

\* Strings of one thread that no rewind has ended share no memory, whatever
\* the order of saves, restores and drops, the number and size of blocks and
\* the sizes asked for (aot_arena_alloc, aot_arena_rewind_to).
THEOREM ArenaKeepsDisjoint == ArSpec => []LiveDisjoint
<1>1. ArInv /\ [ArNext]_arVars => ArInv'
  BY ArInvNext
<1>2. ArInv => LiveDisjoint
  BY OrderedDisjoint
<1> QED
  BY ArInvInit, <1>1, <1>2, PTL DEF ArSpec

-----------------------------------------------------------------------------
(* The regions *)

Values == [to : {"null", "permanent", "dead", "string", "object"}, id : Nat,
           inner : BOOLEAN]

\* The region lists the tracked containers once each; with no scope open it is
\* empty, and the outermost scope found it so.
RegionTracks ==
    /\ NoRepeats(arRegion)
    /\ \A o \in Objs : o \in arSet <=> InChain(arRegion, o)
    /\ arSet \subseteq arHeap
    /\ Len(arCps) = 0 => Len(arRegion) = 0
    /\ 1 \in DOMAIN arCps => arCps[1].region = 0

\* Containers in the arena have a place in it, the others none.
ArraysPlaced ==
    /\ arAt \in [Objs -> Nat]
    /\ \A o \in Objs :
          /\ arAt[o] <= Len(arLive)
          /\ o \in arSet \/ o \notin arHeap => arAt[o] = 0

\* What container o refers to: a value some rewind ends without o was stored
\* from an inner scope; only transient containers refer to strings and to
\* transient containers, so only they can be left with a dead reference.
RefFine(o, r) ==
    /\ r.to = "string" =>
          /\ r.id <= Len(arLive) /\ Transient(o)
          /\ ~r.inner => EndString(r.id) \subseteq EndObject(o)
    /\ r.to = "object" =>
          /\ r.id \in arHeap
          /\ ~Transient(o) => ~Transient(r.id)
          /\ ~r.inner => EndObject(r.id) \subseteq EndObject(o)
    /\ r.to = "dead" => r.inner /\ Transient(o)

RegionInv ==
    /\ arHeap \subseteq Objs /\ arRef \in [Objs -> Values]
    /\ RegionTracks
    /\ ArraysPlaced
    /\ \A o \in arHeap : RefFine(o, arRef[o])

\* The checkpoints a rewind to which frees container o, and those a rewind to
\* which takes back the memory it is in.
RegionEnds(o) == {k \in DOMAIN arCps : o \in FreedBy(k)}
ArenaEnds(o) == {k \in DOMAIN arCps : o \in Objs /\ arAt[o] > arCps[k].mark}

\* At first there is no container.
LEMMA RegionInvInit == ArInit => RegionInv
<1> SUFFICES ASSUME ArInit PROVE RegionInv
  OBVIOUS
<1>1. Null \in Values
  BY DEF Null, Values
<1>2. arRef \in [Objs -> Values] /\ arHeap = {} /\ arSet = {}
  BY <1>1 DEF ArInit
<1>3. arRegion = <<>> /\ arCps = <<>>
  BY DEF ArInit
<1>4. RegionTracks
  BY <1>2, <1>3 DEF RegionTracks, NoRepeats, InChain
<1>5. ArraysPlaced
  BY DEF ArInit, ArraysPlaced
<1> QED
  BY <1>2, <1>4, <1>5 DEF RegionInv

\* When a rewind frees a container.
LEMMA EndsObject ==
  ASSUME NEW o, NEW k
  PROVE  k \in RegionEnds(o) <=>
            /\ k \in DOMAIN arCps
            /\ \E i \in DOMAIN arRegion : arRegion[i] = o /\ i > arCps[k].region
  BY DEF RegionEnds, FreedBy

\* A step that leaves scopes, containers and references alone, and ends no
\* string.
LEMMA RegionKept ==
  ASSUME ArInv, RegionInv, UNCHANGED <<arCps, containers>>, ArInv',
         Len(arLive) <= Len(arLive')
  PROVE  RegionInv'
<1>1. arLive \in Seq(Strings) /\ arLive' \in Seq(Strings)
  BY Zenon DEF ArInv, ArTyped
<1>2. Len(arLive) \in Nat /\ Len(arLive') \in Nat
  BY <1>1, Elements
<1>3. \A o : EndObject(o)' = EndObject(o) /\ EndString(o)' = EndString(o)
  BY DEF EndObject, Ended, EndString, FreedBy, containers
<1>4. RegionTracks' /\ ArraysPlaced'
  <2>1. RegionTracks'
    BY DEF RegionInv, RegionTracks, containers
  <2>2. ArraysPlaced'
    BY <1>2 DEF RegionInv, ArraysPlaced, containers
  <2> QED
    BY <2>1, <2>2
<1>5. ASSUME NEW o \in arHeap
      PROVE  RefFine(o, arRef[o])'
  <2>1. RefFine(o, arRef[o]) /\ arRef' = arRef /\ arHeap' = arHeap /\ arSet' = arSet
        /\ arAt' = arAt
    BY <1>5 DEF RegionInv, containers
  <2>2. arRef[o] \in Values
    BY <1>5 DEF RegionInv
  <2>3. arRef[o].id \in Nat
    BY <2>2 DEF Values
  <2> QED
    BY <1>2, <1>3, <2>1, <2>3 DEF RefFine, Transient
<1> QED
  BY <1>4, <1>5 DEF RegionInv, containers

\* A new scope ends nothing there is.
LEMMA RegionSaved ==
  ASSUME ArInv, RegionInv, ArSave, UNCHANGED <<strings, containers>>
  PROVE  RegionInv'
<1>1. /\ arCps \in Seq(Scopes) /\ arRegion \in Seq(Objs) /\ arLive \in Seq(Strings)
      /\ arCur \in Blocks /\ arUsed \in [Blocks -> Nat]
  BY Zenon DEF ArInv, ArTyped
<1> DEFINE c == [block |-> arCur, used |-> arUsed[arCur],
                 region |-> Len(arRegion), mark |-> Len(arLive)]
           n == Len(arCps)
<1>2. c \in Scopes /\ c.region = Len(arRegion) /\ c.mark = Len(arLive)
  BY <1>1 DEF Scopes
<1>3. arCps' = Append(arCps, c)
  BY DEF ArSave
<1> HIDE DEF c
<1>4. /\ arCps' \in Seq(Scopes) /\ Len(arCps') = n + 1
      /\ \A i \in 1..n : arCps'[i] = arCps[i]
      /\ arCps'[n + 1] = c
  BY <1>1, <1>2, <1>3, Appended
<1>5. /\ DOMAIN arCps = 1..n /\ DOMAIN arCps' = 1..(n + 1) /\ n \in Nat
      /\ DOMAIN arRegion = 1..Len(arRegion) /\ Len(arRegion) \in Nat
  BY <1>1, <1>4, Elements
<1>6. arRegion' = arRegion /\ arLive' = arLive /\ arSet' = arSet /\ arHeap' = arHeap
      /\ arRef' = arRef /\ arAt' = arAt
  BY DEF strings, containers
<1>7. ASSUME NEW o
      PROVE  EndObject(o)' = EndObject(o)
  <2>1. ASSUME NEW k
        PROVE  k \in RegionEnds(o)' <=> k \in RegionEnds(o)
    <3>1. k \in RegionEnds(o)' <=>
             /\ k \in DOMAIN arCps'
             /\ \E i \in DOMAIN arRegion : arRegion[i] = o /\ i > arCps'[k].region
      BY <1>6 DEF RegionEnds, FreedBy
    <3>2. CASE k \in 1..n
      BY <1>4, <1>5, <3>1, <3>2, EndsObject
    <3>3. CASE k = n + 1
      BY <1>2, <1>4, <1>5, <3>1, <3>3, EndsObject
    <3>4. CASE k \notin 1..(n + 1)
      BY <1>5, <3>1, <3>4, EndsObject
    <3> QED
      BY <1>5, <3>2, <3>3, <3>4
  <2>2. ASSUME o \in Objs
        PROVE  ArenaEnds(o)' = ArenaEnds(o)
    <3>1. arAt[o] \in Nat /\ arAt[o] <= Len(arLive) /\ Len(arLive) \in Nat
      BY <1>1, <2>2, Elements DEF RegionInv, ArraysPlaced
    <3>2. \A k \in 1..(n + 1) :
             arAt[o] > arCps'[k].mark <=> k \in 1..n /\ arAt[o] > arCps[k].mark
      BY <1>2, <1>4, <1>5, <3>1
    <3> QED
      BY <1>5, <1>6, <3>2 DEF ArenaEnds
  <2>3. o \notin Objs => ArenaEnds(o)' = {} /\ ArenaEnds(o) = {}
    BY DEF ArenaEnds
  <2>4. /\ EndObject(o) = RegionEnds(o) \cup ArenaEnds(o)
        /\ EndObject(o)' = RegionEnds(o)' \cup ArenaEnds(o)'
    BY DEF EndObject, Ended, RegionEnds, ArenaEnds
  <2>5. RegionEnds(o)' = RegionEnds(o)
    BY <2>1
  <2> QED
    BY <2>2, <2>3, <2>4, <2>5
<1>8. ASSUME NEW p \in Nat, p <= Len(arLive)
      PROVE  EndString(p)' = EndString(p)
  <2>1. Len(arLive) \in Nat
    BY <1>1, Elements
  <2>2. \A k \in 1..(n + 1) : p > arCps'[k].mark <=> k \in 1..n /\ p > arCps[k].mark
    BY <1>2, <1>4, <1>5, <1>8, <2>1
  <2> QED
    BY <1>5, <2>2 DEF EndString
<1>9. RegionTracks'
  <2>1. arCps'[1].region = 0
    <3>1. CASE n = 0
      BY <1>2, <1>4, <3>1 DEF RegionInv, RegionTracks
    <3>2. CASE n # 0
      BY <1>4, <1>5, <3>2 DEF RegionInv, RegionTracks
    <3> QED
      BY <3>1, <3>2
  <2> QED
    BY <1>4, <1>5, <1>6, <2>1 DEF RegionInv, RegionTracks
<1>10. ASSUME NEW o \in arHeap
       PROVE  RefFine(o, arRef[o])'
  <2>1. RefFine(o, arRef[o]) /\ arRef[o] \in Values
    BY <1>10 DEF RegionInv
  <2>2. arRef[o].id \in Nat
    BY <2>1 DEF Values
  <2>3. Transient(o)' <=> Transient(o)
    BY <1>6 DEF Transient
  <2>4. Transient(arRef[o].id)' <=> Transient(arRef[o].id)
    BY <1>6 DEF Transient
  <2> QED
    BY <1>6, <1>7, <1>8, <2>1, <2>2, <2>3, <2>4 DEF RefFine
<1>11. ArraysPlaced'
  BY <1>6 DEF RegionInv, ArraysPlaced
<1> QED
  BY <1>6, <1>9, <1>10, <1>11 DEF RegionInv

\* A rewind to checkpoint k: the values it ends are those born since k.
LEMMA RegionRewound ==
  ASSUME ArInv, RegionInv, NEW k \in DOMAIN arCps, Rewind(k), NEW m \in {k - 1, k},
         arCps' = SubSeq(arCps, 1, m)
  PROVE  RegionInv'
<1> DEFINE region == arCps[k].region
           mark == arCps[k].mark
<1>1. /\ arCps \in Seq(Scopes) /\ arRegion \in Seq(Objs) /\ arLive \in Seq(Strings)
  BY Zenon DEF ArInv, ArTyped
<1>2. /\ k \in 1..Len(arCps) /\ Len(arCps) \in Nat /\ m \in 0..Len(arCps) /\ m \in 0..k
      /\ DOMAIN arCps = 1..Len(arCps)
      /\ \A j \in 1..Len(arCps) : arCps[j] \in Scopes
  BY <1>1, Elements
<1>3. /\ region \in 0..Len(arRegion) /\ mark \in 0..Len(arLive)
      /\ \A j \in 1..k : arCps[j].region <= region
  <2>1. region \in Nat /\ mark \in Nat
    BY <1>2 DEF Scopes
  <2>2. region <= Len(arRegion) /\ mark <= Len(arLive)
        /\ \A j \in 1..(k - 1) : arCps[j].region <= region
    BY DEF ArInv, ScopesFit, CheckpointsInOrder
  <2>3. Len(arRegion) \in Nat /\ Len(arLive) \in Nat
    BY <1>1, Elements
  <2> QED
    BY <1>2, <2>1, <2>2, <2>3
<1>4. /\ arHeap' = arHeap \ Ended(k) /\ arSet' = arSet \ FreedBy(k)
      /\ arAt' = [o \in Objs |-> IF o \in Ended(k) THEN 0 ELSE arAt[o]]
      /\ arRegion' = SubSeq(arRegion, 1, region) /\ arLive' = SubSeq(arLive, 1, mark)
      /\ arRef' = [o \in Objs |->
                     IF o \in Ended(k) THEN Null ELSE Buried(k, arRef[o])]
  BY DEF Rewind, RewindRegion
<1> HIDE DEF region, mark
<1>5. /\ Len(arRegion') = region /\ DOMAIN arRegion' = 1..region
      /\ \A i \in 1..region : arRegion'[i] = arRegion[i]
      /\ DOMAIN arRegion = 1..Len(arRegion) /\ Len(arRegion) \in Nat
  <2>1. arRegion' \in Seq(Objs) /\ Len(arRegion') = region
        /\ \A i \in 1..region : arRegion'[i] = arRegion[i]
    BY <1>1, <1>3, <1>4, Front
  <2> QED
    BY <1>1, <2>1, Elements
<1>6. Len(arLive') = mark
  BY <1>1, <1>3, <1>4, Front
<1>7. /\ Len(arCps') = m /\ DOMAIN arCps' = 1..m
      /\ \A j \in 1..m : arCps'[j] = arCps[j]
  <2>1. arCps' \in Seq(Scopes) /\ Len(arCps') = m /\ \A j \in 1..m : arCps'[j] = arCps[j]
    BY <1>1, <1>2, Front
  <2> QED
    BY <2>1, Elements
<1>8. /\ \A o : o \in FreedBy(k) <=> k \in RegionEnds(o)
      /\ \A o : o \in Ended(k) <=> k \in EndObject(o)
      /\ \A o : o \in Ended(k) <=> o \in FreedBy(k) \/ (o \in Objs /\ arAt[o] > mark)
  BY DEF EndObject, RegionEnds, Ended, mark
<1>9. \A i, j \in DOMAIN arRegion : arRegion[i] = arRegion[j] => i = j
  BY DEF RegionInv, RegionTracks, NoRepeats
\* Of what stays, a checkpoint that stays ends what it ended.
<1>10. ASSUME NEW o, o \notin Ended(k)
       PROVE  EndObject(o)' = EndObject(o) \cap (1..m)
  <2>0. o \notin FreedBy(k)
    BY <1>8, <1>10
  <2>1. ASSUME NEW j \in 1..m
        PROVE  j \in RegionEnds(o)' <=> j \in RegionEnds(o)
    <3>1. j \in RegionEnds(o)' <=>
             \E i \in 1..region : arRegion[i] = o /\ i > arCps[j].region
      <4>1. j \in RegionEnds(o)' <=>
               \E i \in DOMAIN arRegion' : arRegion'[i] = o /\ i > arCps'[j].region
        BY <1>7 DEF RegionEnds, FreedBy
      <4> QED
        BY <1>5, <1>7, <4>1
    <3>2. j \in RegionEnds(o) <=>
             \E i \in 1..Len(arRegion) : arRegion[i] = o /\ i > arCps[j].region
      BY <1>2, <1>5, EndsObject
    <3>3. \A i \in 1..Len(arRegion) : arRegion[i] = o => i <= region
      <4>1. ~\E i \in DOMAIN arRegion : arRegion[i] = o /\ i > region
        BY <1>8, <2>0, EndsObject DEF region
      <4>2. \A i \in 1..Len(arRegion) : i <= region \/ i > region
        BY <1>3, <1>5
      <4> QED
        BY <1>5, <4>1, <4>2
    <3>4. \A i \in 1..Len(arRegion) : arRegion[i] = o => i \in 1..region
      BY <1>3, <1>5, <3>3
    <3>5. \A i \in 1..region : i \in 1..Len(arRegion)
      BY <1>3, <1>5
    <3> QED
      BY <3>1, <3>2, <3>4, <3>5
  <2>2. RegionEnds(o)' \subseteq 1..m
    BY <1>7 DEF RegionEnds
  <2>3. RegionEnds(o)' = RegionEnds(o) \cap (1..m)
    BY <2>1, <2>2
  <2>4. ASSUME o \in Objs
        PROVE  ArenaEnds(o)' = ArenaEnds(o) \cap (1..m)
    <3>1. arAt'[o] = arAt[o]
      BY <1>4, <1>10, <2>4
    <3>2. \A j \in 1..m : j \in DOMAIN arCps
      BY <1>2
    <3> QED
      BY <1>7, <2>4, <3>1, <3>2 DEF ArenaEnds
  <2>5. o \notin Objs => ArenaEnds(o)' = {} /\ ArenaEnds(o) = {}
    BY DEF ArenaEnds
  <2>6. /\ EndObject(o) = RegionEnds(o) \cup ArenaEnds(o)
        /\ EndObject(o)' = RegionEnds(o)' \cup ArenaEnds(o)'
    BY DEF EndObject, Ended, RegionEnds, ArenaEnds
  <2> QED
    BY <2>3, <2>4, <2>5, <2>6
<1>11. \A p : EndString(p)' = EndString(p) \cap (1..m)
  <2>1. \A j \in 1..m : j \in DOMAIN arCps
    BY <1>2
  <2> QED
    BY <1>7, <2>1 DEF EndString
<1>12. RegionTracks'
  <2>1. NoRepeats(arRegion')
    <3>1. \A i \in 1..region : i \in DOMAIN arRegion
      BY <1>3, <1>5
    <3> QED
      BY <1>5, <1>9, <3>1 DEF NoRepeats
  <2>2. ASSUME NEW o \in Objs
        PROVE  o \in arSet' <=> InChain(arRegion', o)
    <3>1. o \in arSet <=> \E i \in 1..Len(arRegion) : arRegion[i] = o
      BY <1>5 DEF RegionInv, RegionTracks, InChain
    <3>2. o \in FreedBy(k) <=> \E i \in 1..Len(arRegion) : arRegion[i] = o /\ i > region
      BY <1>5, <1>8, EndsObject DEF region
    <3>3. InChain(arRegion', o) <=> \E i \in 1..region : arRegion[i] = o
      BY <1>5 DEF InChain
    <3>4. ASSUME NEW i \in 1..region, arRegion[i] = o
          PROVE  o \in arSet /\ o \notin FreedBy(k)
      <4>1. i \in 1..Len(arRegion) /\ i <= region
        BY <1>3, <1>5
      <4>2. o \in arSet
        BY <3>1, <3>4, <4>1
      <4>3. \A j \in 1..Len(arRegion) : arRegion[j] = o => j = i
        BY <1>5, <1>9, <3>4, <4>1
      <4>4. ~(i > region)
        BY <1>3, <4>1
      <4> QED
        BY <3>2, <4>2, <4>3, <4>4
    <3>5. ASSUME NEW i \in 1..Len(arRegion), arRegion[i] = o, o \notin FreedBy(k)
          PROVE  i \in 1..region
      BY <1>3, <3>2, <3>5
    <3> QED
      BY <1>4, <3>1, <3>3, <3>4, <3>5
  <2>3. arSet' \subseteq arHeap'
    <3>1. \A o \in arSet : o \in Objs /\ arAt[o] = 0
      BY DEF RegionInv, RegionTracks, ArraysPlaced
    <3>2. \A o \in arSet : o \in Ended(k) => o \in FreedBy(k)
      BY <1>3, <1>8, <3>1
    <3> QED
      BY <1>4, <3>2 DEF RegionInv, RegionTracks
  <2>4. m = 0 => region = 0
    BY <1>2 DEF RegionInv, RegionTracks, region
  <2>5. 1 \in 1..m => arCps'[1].region = 0
    <3>1. 1 \in 1..m => 1 \in DOMAIN arCps
      BY <1>2
    <3> QED
      BY <1>7, <3>1 DEF RegionInv, RegionTracks
  <2> QED
    BY <1>5, <1>7, <2>1, <2>2, <2>3, <2>4, <2>5 DEF RegionTracks
<1>13. ASSUME NEW o \in Objs
       PROVE  arRef[o] \in Values /\ Null \in Values /\ Buried(k, arRef[o]) \in Values
  <2>1. arRef[o] \in Values
    BY DEF RegionInv
  <2> QED
    BY <2>1 DEF Values, Null, Buried
<1>14. arRef' \in [Objs -> Values]
  BY <1>4, <1>13
<1>15. ArraysPlaced'
  <2> SUFFICES ASSUME NEW o \in Objs
               PROVE  /\ arAt'[o] \in Nat /\ arAt'[o] <= mark
                      /\ o \in arSet' \/ o \notin arHeap' => arAt'[o] = 0
    BY <1>4, <1>6 DEF ArraysPlaced
  <2>1. /\ arAt[o] \in Nat
        /\ o \in arSet \/ o \notin arHeap => arAt[o] = 0
    BY DEF RegionInv, ArraysPlaced
  <2>2. CASE o \in Ended(k)
    BY <1>3, <1>4, <2>2
  <2>3. CASE o \notin Ended(k)
    <3>1. arAt'[o] = arAt[o] /\ arAt[o] <= mark
      BY <1>3, <1>4, <1>8, <2>1, <2>3
    <3>2. (o \in arSet' => o \in arSet) /\ (o \notin arHeap' => o \notin arHeap)
      BY <1>4, <2>3
    <3> QED
      BY <2>1, <3>1, <3>2
  <2> QED
    BY <2>2, <2>3
<1>16. ASSUME NEW o \in Objs, o \notin Ended(k)
       PROVE  Transient(o)' <=> Transient(o)
  <2>1. o \notin FreedBy(k) /\ arAt'[o] = arAt[o]
    BY <1>4, <1>8, <1>16
  <2> QED
    BY <1>4, <2>1 DEF Transient
<1>17. ASSUME NEW o \in arHeap, o \notin Ended(k)
       PROVE  RefFine(o, arRef[o])'
  <2>0. PICK r \in Values : r = arRef[o]
    BY <1>13 DEF RegionInv
  <2>1. o \in Objs /\ RefFine(o, r)
    BY <2>0 DEF RegionInv
  <2>2. arRef'[o] = Buried(k, r)
    BY <1>4, <1>17, <2>0, <2>1
  <2>3. r.id \in Nat
    BY DEF Values
  <2>4. k \notin EndObject(o) /\ EndObject(o)' = EndObject(o) \cap (1..m)
    BY <1>8, <1>10, <1>17
  <2>5. ASSUME r.to = "string", r.id > mark
        PROVE  r.inner /\ Transient(o)
    <3>1. k \in EndString(r.id)
      BY <2>5 DEF EndString, mark
    <3> QED
      BY <2>1, <2>4, <2>5, <3>1 DEF RefFine
  <2>6. ASSUME r.to = "object", r.id \in Ended(k)
        PROVE  r.inner /\ Transient(o)
    <3>1. k \in EndObject(r.id)
      BY <1>8, <2>6
    <3>2. Transient(r.id)
      <4>1. CASE r.id \in FreedBy(k)
        <5>1. PICK i \in DOMAIN arRegion : arRegion[i] = r.id
          BY <1>8, <4>1, EndsObject
        <5>2. r.id \in Objs
          BY <1>1, <5>1, Elements
        <5> QED
          BY <5>1, <5>2 DEF RegionInv, RegionTracks, InChain, Transient
      <4>2. CASE r.id \in Objs /\ arAt[r.id] > mark
        <5>1. arAt[r.id] \in Nat
          BY <4>2 DEF RegionInv, ArraysPlaced
        <5> QED
          BY <1>3, <4>2, <5>1 DEF Transient
      <4> QED
        BY <1>8, <2>6, <4>1, <4>2
    <3> QED
      BY <2>1, <2>4, <2>6, <3>1, <3>2 DEF RefFine
  <2>7. CASE \/ r.to = "string" /\ r.id > mark
             \/ r.to = "object" /\ r.id \in Ended(k)
    <3>1. arRef'[o].to = "dead" /\ arRef'[o].inner = r.inner
      BY <2>2, <2>7 DEF Buried, mark
    <3>2. r.inner /\ Transient(o)'
      BY <1>17, <1>16, <2>1, <2>5, <2>6, <2>7
    <3> QED
      BY <3>1, <3>2 DEF RefFine
  <2>8. CASE ~(\/ r.to = "string" /\ r.id > mark
               \/ r.to = "object" /\ r.id \in Ended(k))
    <3>1. arRef'[o] = r
      BY <2>2, <2>8 DEF Buried, mark
    <3>2. r.to = "string" => r.id <= Len(arLive')
      BY <1>3, <1>6, <2>3, <2>8
    <3>3. r.to = "object" => r.id \in arHeap' /\ EndObject(r.id)' = EndObject(r.id) \cap (1..m)
      BY <1>4, <1>10, <2>1, <2>8 DEF RefFine
    <3>4. Transient(o)' <=> Transient(o)
      BY <1>17, <1>16, <2>1
    <3>5. r.to = "object" => (Transient(r.id)' <=> Transient(r.id))
      <4>1. r.to = "object" => r.id \in Objs /\ r.id \notin Ended(k)
        BY <2>1, <2>8 DEF RefFine, RegionInv
      <4> QED
        BY <1>16, <4>1
    <3>6. EndString(r.id)' = EndString(r.id) \cap (1..m)
      BY <1>11
    <3>7. RefFine(o, r)'
      BY <2>1, <2>4, <3>2, <3>3, <3>4, <3>5, <3>6 DEF RefFine
    <3> QED
      BY <3>1, <3>7
  <2> QED
    BY <2>7, <2>8
<1> QED
  BY <1>4, <1>12, <1>14, <1>17, <1>15 DEF RegionInv

\* A new container refers to nothing, and nothing to it.
LEMMA RegionAdds ==
  ASSUME ArInv, RegionInv, ArNewObject
  PROVE  RegionInv'
<1>1. PICK o \in Objs \ arHeap :
         /\ arHeap' = arHeap \cup {o}
         /\ arRef' = [arRef EXCEPT ![o] = Null]
         /\ IF arCps = <<>>
            THEN UNCHANGED <<arRegion, arSet>>
            ELSE arRegion' = Append(arRegion, o) /\ arSet' = arSet \cup {o}
         /\ UNCHANGED <<strings, arCps, arAt>>
  BY DEF ArNewObject
<1>2. arCps' = arCps /\ arLive' = arLive /\ arAt' = arAt
  BY <1>1 DEF strings
<1>3. arCps \in Seq(Scopes) /\ arRegion \in Seq(Objs)
  BY Zenon DEF ArInv, ArTyped
<1>4. DOMAIN arRegion = 1..Len(arRegion) /\ Len(arRegion) \in Nat
      /\ (arCps # <<>> => Len(arCps) # 0)
  BY <1>3, Elements
<1>5. o \notin arSet /\ ~InChain(arRegion, o)
  BY <1>1 DEF RegionInv, RegionTracks
\* No scope ends another container earlier or later than before.
<1>6. ASSUME NEW x, x # o
      PROVE  EndObject(x)' = EndObject(x)
  <2>1. ASSUME arRegion' = arRegion
        PROVE  RegionEnds(x)' = RegionEnds(x)
    BY <1>2, <2>1 DEF RegionEnds, FreedBy
  <2>2. ASSUME arRegion' = Append(arRegion, o)
        PROVE  RegionEnds(x)' = RegionEnds(x)
    <3>1. /\ arRegion' \in Seq(Objs) /\ Len(arRegion') = Len(arRegion) + 1
          /\ \A i \in 1..Len(arRegion) : arRegion'[i] = arRegion[i]
          /\ arRegion'[Len(arRegion) + 1] = o
      BY <1>1, <1>3, <2>2, Appended
    <3>2. DOMAIN arRegion' = 1..(Len(arRegion) + 1)
      BY <3>1, Elements
    <3>3. ASSUME NEW k
          PROVE  k \in RegionEnds(x)' <=> k \in RegionEnds(x)
      <4>1. k \in RegionEnds(x)' <=>
               /\ k \in DOMAIN arCps
               /\ \E i \in DOMAIN arRegion' : arRegion'[i] = x /\ i > arCps[k].region
        BY <1>2 DEF RegionEnds, FreedBy
      <4>2. \A i \in DOMAIN arRegion' :
               arRegion'[i] = x => i \in DOMAIN arRegion /\ arRegion[i] = x
        BY <1>4, <1>6, <3>1, <3>2
      <4>3. \A i \in DOMAIN arRegion : i \in DOMAIN arRegion' /\ arRegion'[i] = arRegion[i]
        BY <1>4, <3>1, <3>2
      <4> QED
        BY <4>1, <4>2, <4>3, EndsObject
    <3> QED
      BY <3>3 DEF RegionEnds
  <2>3. ArenaEnds(x)' = ArenaEnds(x)
    BY <1>2 DEF ArenaEnds
  <2>4. /\ EndObject(x) = RegionEnds(x) \cup ArenaEnds(x)
        /\ EndObject(x)' = RegionEnds(x)' \cup ArenaEnds(x)'
    BY DEF EndObject, Ended, RegionEnds, ArenaEnds
  <2>5. RegionEnds(x)' = RegionEnds(x)
    BY <1>1, <2>1, <2>2
  <2> QED
    BY <2>3, <2>4, <2>5
<1>7. RegionTracks'
  <2>1. CASE arCps = <<>>
    BY <1>1, <1>2, <2>1 DEF RegionInv, RegionTracks
  <2>2. CASE arCps # <<>>
    <3>1. arRegion' = Append(arRegion, o) /\ arSet' = arSet \cup {o}
      BY <1>1, <2>2
    <3>2. /\ arRegion' \in Seq(Objs) /\ Len(arRegion') = Len(arRegion) + 1
          /\ \A i \in 1..Len(arRegion) : arRegion'[i] = arRegion[i]
          /\ arRegion'[Len(arRegion) + 1] = o
      BY <1>1, <1>3, <3>1, Appended
    <3>3. DOMAIN arRegion' = 1..(Len(arRegion) + 1)
      BY <3>2, Elements
    <3>4. NoRepeats(arRegion')
      <4>1. \A i \in 1..Len(arRegion) : arRegion[i] # o
        BY <1>4, <1>5 DEF InChain
      <4>2. \A i, j \in 1..Len(arRegion) : arRegion[i] = arRegion[j] => i = j
        BY <1>4 DEF RegionInv, RegionTracks, NoRepeats
      <4>3. \A i \in DOMAIN arRegion' : i \in 1..Len(arRegion) \/ i = Len(arRegion) + 1
        BY <1>4, <3>3
      <4> QED
        BY <3>2, <4>1, <4>2, <4>3 DEF NoRepeats
    <3>5. ASSUME NEW x \in Objs
          PROVE  x \in arSet' <=> InChain(arRegion', x)
      <4>1. x \in arSet <=> \E i \in 1..Len(arRegion) : arRegion[i] = x
        BY <1>4 DEF RegionInv, RegionTracks, InChain
      <4>2. InChain(arRegion', x) <=> (\E i \in 1..Len(arRegion) : arRegion[i] = x) \/ x = o
        <5>1. \A i : i \in DOMAIN arRegion' <=> i \in 1..Len(arRegion) \/ i = Len(arRegion) + 1
          BY <1>4, <3>3
        <5> QED
          BY <3>2, <5>1 DEF InChain
      <4> QED
        BY <3>1, <4>1, <4>2
    <3>6. Len(arCps) # 0
      BY <1>4, <2>2
    <3> QED
      BY <1>1, <1>2, <3>1, <3>4, <3>5, <3>6 DEF RegionInv, RegionTracks
  <2> QED
    BY <2>1, <2>2
<1>8. \A x : x # o => (Transient(x)' <=> Transient(x))
  BY <1>1, <1>2 DEF Transient
<1>9. Null \in Values /\ RefFine(o, Null)'
  BY DEF Null, Values, RefFine
<1>10. \A p : EndString(p)' = EndString(p)
  BY <1>2 DEF EndString
<1>11. ASSUME NEW x \in arHeap
       PROVE  RefFine(x, arRef[x])'
  <2>1. PICK r : r = arRef[x]
    OBVIOUS
  <2>2. RefFine(x, r) /\ x # o /\ x \in Objs
    BY <1>1, <2>1 DEF RegionInv
  <2>3. arRef'[x] = r
    BY <1>1, <2>1, <2>2
  <2>4. EndObject(x)' = EndObject(x)
    BY <1>6, <2>2
  <2>5. r.to = "object" => r.id # o /\ EndObject(r.id)' = EndObject(r.id)
    BY <1>1, <1>6, <2>2 DEF RefFine
  <2>6. RefFine(x, r)'
    BY <1>1, <1>2, <1>8, <1>10, <2>2, <2>4, <2>5 DEF RefFine
  <2> QED
    BY <2>3, <2>6
<1>12. arHeap' \subseteq Objs /\ arRef' \in [Objs -> Values] /\ arRef'[o] = Null
  BY <1>1, <1>9 DEF RegionInv
<1>13. ArraysPlaced'
  BY <1>1, <1>2 DEF RegionInv, ArraysPlaced
<1> QED
  BY <1>1, <1>7, <1>9, <1>11, <1>12, <1>13 DEF RegionInv

\* Nor does a new container in the arena, which is not tracked and ends with
\* the memory it took.
LEMMA RegionBuilds ==
  ASSUME ArInv, RegionInv, NEW n \in AllocSizes, ArNewArray(n)
  PROVE  RegionInv'
<1>1. PICK o \in Objs \ arHeap :
         /\ arHeap' = arHeap \cup {o}
         /\ arAt' = [arAt EXCEPT ![o] = Len(arLive) + 1]
         /\ arRef' = [arRef EXCEPT ![o] = Null]
         /\ UNCHANGED <<arCps, arRegion, arSet>>
  BY DEF ArNewArray
<1>2. arLive \in Seq(Strings) /\ arAt \in [Objs -> Nat]
  BY Zenon DEF ArInv, ArTyped, RegionInv, ArraysPlaced
<1>3. Len(arLive) \in Nat /\ Len(arLive') = Len(arLive) + 1
  <2>1. \E x : arLive' = Append(arLive, x)
    BY DEF ArNewArray, ArPut, ArBump, ArReuse, ArGrow, Take
  <2>2. PICK x : arLive' = Append(arLive, x)
    BY <2>1
  <2> QED
    BY <1>2, <2>2
<1>4. /\ arAt' \in [Objs -> Nat] /\ arAt'[o] = Len(arLive) + 1
      /\ \A x \in Objs : x # o => arAt'[x] = arAt[x]
  BY <1>1, <1>2, <1>3
<1>5. o \notin arSet
  BY <1>1 DEF RegionInv, RegionTracks
<1>6. RegionTracks'
  BY <1>1 DEF RegionInv, RegionTracks
<1>7. ArraysPlaced'
  <2> SUFFICES ASSUME NEW x \in Objs
               PROVE  /\ arAt'[x] <= Len(arLive')
                      /\ x \in arSet' \/ x \notin arHeap' => arAt'[x] = 0
    BY <1>4 DEF ArraysPlaced
  <2>1. CASE x = o
    BY <1>1, <1>3, <1>4, <1>5, <2>1
  <2>2. CASE x # o
    <3>1. /\ arAt[x] \in Nat /\ arAt[x] <= Len(arLive)
          /\ x \in arSet \/ x \notin arHeap => arAt[x] = 0
      BY DEF RegionInv, ArraysPlaced
    <3> QED
      BY <1>1, <1>3, <1>4, <2>2, <3>1
  <2> QED
    BY <2>1, <2>2
<1>8. ASSUME NEW x \in Objs, x # o
      PROVE  /\ EndObject(x)' = EndObject(x)
             /\ Transient(x)' <=> Transient(x)
  <2>1. arAt'[x] = arAt[x]
    BY <1>4, <1>8
  <2> QED
    BY <1>1, <2>1 DEF EndObject, Ended, FreedBy, Transient
<1>9. \A p : EndString(p)' = EndString(p)
  BY <1>1 DEF EndString
<1>10. Null \in Values /\ RefFine(o, Null)'
  BY DEF Null, Values, RefFine
<1>11. ASSUME NEW x \in arHeap
       PROVE  RefFine(x, arRef[x])'
  <2>1. PICK r \in Values : r = arRef[x]
    BY DEF RegionInv
  <2>2. RefFine(x, r) /\ x # o /\ x \in Objs
    BY <1>1, <2>1 DEF RegionInv
  <2>3. arRef'[x] = r
    BY <1>1, <2>1, <2>2
  <2>4. r.to = "object" => r.id # o /\ r.id \in Objs
    BY <1>1, <2>2 DEF RefFine, RegionInv
  <2>5. r.to = "string" => r.id <= Len(arLive')
    <3>1. r.id \in Nat
      BY DEF Values
    <3> QED
      BY <1>3, <2>2, <3>1 DEF RefFine
  <2>6. RefFine(x, r)'
    BY <1>1, <1>8, <1>9, <2>2, <2>4, <2>5 DEF RefFine
  <2> QED
    BY <2>3, <2>6
<1>12. arHeap' \subseteq Objs /\ arRef' \in [Objs -> Values] /\ arRef'[o] = Null
  BY <1>1, <1>10 DEF RegionInv
<1> QED
  BY <1>1, <1>6, <1>7, <1>10, <1>11, <1>12 DEF RegionInv

\* The write barrier: what is stored in a container is fine for it.
LEMMA RegionStores ==
  ASSUME ArInv, RegionInv,
         NEW c \in Objs, ArStoreString(c) \/ \E v \in Objs : ArStoreObject(c, v)
  PROVE  RegionInv'
<1>1. /\ c \in arHeap
      /\ UNCHANGED <<strings, arCps, arRegion, arSet, arHeap, arAt>>
  BY DEF ArStoreString, ArStoreObject
<1>2. \A x : EndObject(x)' = EndObject(x) /\ EndString(x)' = EndString(x)
  BY <1>1 DEF EndObject, Ended, EndString, FreedBy
<1>3. arLive' = arLive /\ arSet' = arSet /\ arHeap' = arHeap /\ arAt' = arAt
  BY <1>1 DEF strings
<1>4. RegionTracks' /\ ArraysPlaced'
  BY <1>1, <1>3 DEF RegionInv, RegionTracks, ArraysPlaced
<1>5. Len(arLive) \in Nat
  <2>1. arLive \in Seq(Strings)
    BY Zenon DEF ArInv, ArTyped
  <2> QED
    BY <2>1, Elements
<1>6. \E r \in Values : arRef' = [arRef EXCEPT ![c] = r] /\ RefFine(c, r)
  <2>1. CASE ArStoreString(c)
    <3>1. PICK r : r = Stored(c, "string", Len(arLive), TRUE, EndString(Len(arLive)))
      OBVIOUS
    <3>2. arRef' = [arRef EXCEPT ![c] = r]
      BY <2>1, <3>1 DEF ArStoreString
    <3>3. CASE ~Transient(c)
      <4>1. r = [to |-> "permanent", id |-> 0, inner |-> FALSE]
        BY <3>1, <3>3 DEF Stored
      <4>2. r \in Values /\ RefFine(c, r)
        BY <4>1 DEF Values, RefFine
      <4> QED
        BY <3>2, <4>2
    <3>4. CASE Transient(c)
      <4>1. r = [to |-> "string", id |-> Len(arLive),
                 inner |-> ~(EndString(Len(arLive)) \subseteq EndObject(c))]
        BY <3>1, <3>4 DEF Stored
      <4>2. r \in Values
        BY <1>5, <4>1 DEF Values
      <4>3. r.to = "string" /\ r.id = Len(arLive)
        BY <4>1
      <4>4. r.inner <=> ~(EndString(Len(arLive)) \subseteq EndObject(c))
        BY <4>1, Zenon
      <4>5. RefFine(c, r)
        BY <1>5, <3>4, <4>3, <4>4 DEF RefFine
      <4> QED
        BY <3>2, <4>2, <4>5
    <3> QED
      BY <3>3, <3>4
  <2>2. ASSUME NEW v \in Objs, ArStoreObject(c, v)
        PROVE  \E r \in Values : arRef' = [arRef EXCEPT ![c] = r] /\ RefFine(c, r)
    <3>1. PICK r : r = Stored(c, "object", v, Transient(v), EndObject(v))
      OBVIOUS
    <3>2. arRef' = [arRef EXCEPT ![c] = r] /\ v \in arHeap
      BY <2>2, <3>1 DEF ArStoreObject
    <3>3. v \in Nat
      BY ArenaAssumption
    <3>4. r \in Values /\ RefFine(c, r)
      BY <3>1, <3>2, <3>3 DEF Stored, Values, RefFine
    <3> QED
      BY <3>2, <3>4
  <2> QED
    BY <2>1, <2>2
<1>7. PICK r \in Values : arRef' = [arRef EXCEPT ![c] = r] /\ RefFine(c, r)
  BY <1>6
<1>8. ASSUME NEW x \in arHeap
      PROVE  RefFine(x, arRef[x])'
  <2>1. PICK s : s = arRef'[x]
    OBVIOUS
  <2>2. RefFine(x, s)
    BY <1>7, <2>1 DEF RegionInv
  <2>3. RefFine(x, s)'
    BY <1>2, <1>3, <2>2 DEF RefFine, Transient
  <2> QED
    BY <2>1, <2>3
<1> QED
  BY <1>3, <1>4, <1>7, <1>8 DEF RegionInv

\* Every step of the arena keeps the region in step with the scopes.
LEMMA RegionInvNext ==
  ASSUME ArInv, RegionInv, ArInv', [ArNext]_arVars
  PROVE  RegionInv'
<1>1. CASE UNCHANGED arVars
  BY <1>1, RegionKept DEF arVars, containers
<1>2. ASSUME NEW n \in AllocSizes, ArAlloc(n)
      PROVE  RegionInv'
  <2>1. \E x : arLive' = Append(arLive, x)
    BY <1>2 DEF ArAlloc, ArPut, ArBump, ArReuse, ArGrow, Take
  <2>2. arLive \in Seq(Strings)
    BY Zenon DEF ArInv, ArTyped
  <2>3. Len(arLive') = Len(arLive) + 1 /\ Len(arLive) \in Nat
    BY <2>1, <2>2
  <2>4. UNCHANGED <<arCps, containers>>
    BY <1>2 DEF ArAlloc
  <2> QED
    BY <2>3, <2>4, RegionKept
<1>3. CASE ArSave /\ UNCHANGED <<strings, containers>>
  BY <1>3, RegionSaved
<1>4. ASSUME NEW k \in 1..CheckpointMax, ArRestore(k) \/ ArDrop(k)
      PROVE  RegionInv'
  <2>1. k \in DOMAIN arCps /\ Rewind(k)
    BY <1>4 DEF ArRestore, ArDrop
  <2>2. PICK m \in {k - 1, k} : arCps' = SubSeq(arCps, 1, m)
    BY <1>4 DEF ArRestore, ArDrop
  <2> QED
    BY <2>1, <2>2, RegionRewound
<1>5. CASE ArNewObject
  BY <1>5, RegionAdds
<1>6. ASSUME NEW c \in Objs, ArStoreString(c) \/ \E v \in Objs : ArStoreObject(c, v)
      PROVE  RegionInv'
  BY <1>6, RegionStores
<1>7. ASSUME NEW n \in AllocSizes, ArNewArray(n)
      PROVE  RegionInv'
  BY <1>7, RegionBuilds
<1> QED
  BY <1>1, <1>2, <1>3, <1>4, <1>5, <1>6, <1>7 DEF ArNext

\* A tracked container is of some scope.
LEMMA DanglesTracked ==
  ASSUME ArInv, RegionInv
  PROVE  DanglesOnlyAcrossScopes
<1>0. SUFFICES ASSUME NEW o \in arHeap, arRef[o].to = "dead", ~(arAt[o] > 0)
               PROVE  arRef[o].inner /\ EndObject(o) # {}
  <2>1. ASSUME NEW o \in arHeap, arRef[o].to = "dead"
        PROVE  arRef[o].inner
    BY <2>1 DEF RegionInv, RefFine
  <2> QED
    BY <2>1 DEF DanglesOnlyAcrossScopes
<1>1. arRef[o].inner /\ o \in arSet /\ o \in Objs
  BY <1>0 DEF RegionInv, RefFine, Transient
<1>2. PICK i \in DOMAIN arRegion : arRegion[i] = o
  BY <1>1 DEF RegionInv, RegionTracks, InChain
<1>3. arRegion \in Seq(Objs) /\ arCps \in Seq(Scopes)
  BY Zenon DEF ArInv, ArTyped
<1>4. /\ DOMAIN arRegion = 1..Len(arRegion) /\ Len(arRegion) \in Nat
      /\ DOMAIN arCps = 1..Len(arCps) /\ Len(arCps) \in Nat
  BY <1>3, Elements
<1>5. 1 \in DOMAIN arCps /\ arCps[1].region = 0
  <2>1. Len(arCps) # 0
    BY <1>2, <1>4 DEF RegionInv, RegionTracks
  <2>2. 1 \in DOMAIN arCps
    BY <1>4, <2>1
  <2> QED
    BY <2>2 DEF RegionInv, RegionTracks
<1>6. 1 \in EndObject(o)
  <2>1. 1 \in RegionEnds(o)
    BY <1>2, <1>4, <1>5, EndsObject
  <2> QED
    BY <2>1 DEF RegionEnds, EndObject, Ended
<1> QED
  BY <1>1, <1>6

\* A malloc'd container outside every scope never refers to memory a rewind
\* has ended; any other, one in the arena among them, only when a value of an
\* inner scope was stored into it (wb_persist_escape, aot_arena_rewind_to).
THEOREM ArenaDanglesOnlyAcross == ArSpec => []DanglesOnlyAcrossScopes
<1>1. ArInv /\ [ArNext]_arVars => ArInv'
  BY ArInvNext
<1>2. ArInv /\ RegionInv /\ ArInv' /\ [ArNext]_arVars => RegionInv'
  BY RegionInvNext
<1>3. ArInv /\ RegionInv => DanglesOnlyAcrossScopes
  BY DanglesTracked
<1> QED
  BY ArInvInit, RegionInvInit, <1>1, <1>2, <1>3, PTL DEF ArSpec

\* What ArInv and RegionInv do not say of types: as many strings are alive as
\* the bound allows, of the sizes asked for, and containers refer to them.
ArRest ==
    /\ Len(arLive) <= MaxLive
    /\ \A i \in DOMAIN arLive : arLive[i].size \in AllocSizes
    /\ arRef \in [Objs -> Refs]

\* At first nothing is alive.
LEMMA ArRestInit == ArInit => ArRest
<1> SUFFICES ASSUME ArInit PROVE ArRest
  OBVIOUS
<1>1. Null \in Refs
  BY DEF Null, Refs
<1> QED
  BY <1>1, ArenaAssumption DEF ArInit, ArRest

\* Each step of the arena keeps these.
LEMMA ArRestNext ==
  ASSUME ArInv, RegionInv, ArRest, [ArNext]_arVars
  PROVE  ArRest'
<1>1. arLive \in Seq(Strings) /\ arCps \in Seq(Scopes)
  BY Zenon DEF ArInv, ArTyped
<1>2. /\ Len(arLive) \in Nat /\ DOMAIN arLive = 1..Len(arLive)
      /\ DOMAIN arCps = 1..Len(arCps) /\ MaxLive \in Nat
  BY <1>1, Elements, ArenaAssumption
<1>3. CASE UNCHANGED arVars
  BY <1>3 DEF ArRest, arVars
<1>4. ASSUME NEW n \in AllocSizes, ArAlloc(n) \/ ArNewArray(n)
      PROVE  ArRest'
  <2>1. PICK b, off : Take(b, off, n)
    BY <1>4 DEF ArAlloc, ArNewArray, ArPut, ArBump, ArReuse, ArGrow
  <2> DEFINE x == [block |-> b, off |-> off, size |-> n]
  <2>2. arLive' = Append(arLive, x) /\ Len(arLive) < MaxLive /\ x.size = n
    BY <2>1 DEF Take
  <2> HIDE DEF x
  <2>3. /\ Len(arLive') = Len(arLive) + 1 /\ DOMAIN arLive' = 1..(Len(arLive) + 1)
        /\ \A i \in 1..Len(arLive) : arLive'[i] = arLive[i]
        /\ arLive'[Len(arLive) + 1] = x
    BY <1>1, <2>2
  <2>4. \A i \in DOMAIN arLive' : arLive'[i].size \in AllocSizes
    <3> SUFFICES ASSUME NEW i \in DOMAIN arLive' PROVE arLive'[i].size \in AllocSizes
      OBVIOUS
    <3>1. i \in 1..Len(arLive) \/ i = Len(arLive) + 1
      BY <1>2, <2>3
    <3> QED
      BY <1>2, <2>2, <2>3, <3>1 DEF ArRest
  <2>5. arRef' \in [Objs -> Refs]
    <3>1. Null \in Refs
      BY DEF Null, Refs
    <3>2. CASE ArAlloc(n)
      BY <3>2 DEF ArAlloc, containers, ArRest
    <3>3. CASE ArNewArray(n)
      BY <3>1, <3>3 DEF ArNewArray, ArRest
    <3> QED
      BY <1>4, <3>2, <3>3
  <2> QED
    BY <1>2, <2>2, <2>3, <2>4, <2>5 DEF ArRest
<1>5. CASE ArSave /\ UNCHANGED <<strings, containers>>
  BY <1>5 DEF ArRest, strings, containers
<1>6. ASSUME NEW k \in 1..CheckpointMax, ArRestore(k) \/ ArDrop(k)
      PROVE  ArRest'
  <2>1. k \in DOMAIN arCps /\ Rewind(k)
    BY <1>6 DEF ArRestore, ArDrop
  <2>2. arCps[k].mark \in 0..Len(arLive)
    <3>1. arCps[k] \in Scopes
      BY <1>1, <1>2, <2>1, Elements
    <3>2. arCps[k].mark \in Nat /\ arCps[k].mark <= Len(arLive)
      BY <2>1, <3>1 DEF Scopes, ArInv, CheckpointsInOrder
    <3> QED
      BY <1>2, <3>2
  <2> DEFINE m == arCps[k].mark
  <2>3. arLive' = SubSeq(arLive, 1, m)
    BY <2>1 DEF Rewind
  <2>4. m \in 0..Len(arLive)
    BY <2>2
  <2> HIDE DEF m
  <2>5. Len(arLive') = m /\ \A i \in 1..m : arLive'[i] = arLive[i]
    BY <1>1, <1>2, <2>3, <2>4, Front
  <2>6. DOMAIN arLive' = 1..m
    BY <1>1, <1>2, <2>3, <2>4
  <2>7. \A r \in Refs : Buried(k, r) \in Refs
    BY DEF Buried, Refs
  <2>8. arRef' \in [Objs -> Refs]
    <3>1. Null \in Refs
      BY DEF Null, Refs
    <3> QED
      BY <2>1, <2>7, <3>1 DEF Rewind, RewindRegion, ArRest
  <2> QED
    BY <1>2, <2>4, <2>5, <2>6, <2>8 DEF ArRest
<1>7. CASE ArNewObject
  <2>1. Null \in Refs
    BY DEF Null, Refs
  <2>2. UNCHANGED arLive
    BY <1>7 DEF ArNewObject, strings
  <2>3. arRef' \in [Objs -> Refs]
    BY <1>7, <2>1 DEF ArNewObject, ArRest
  <2> QED
    BY <2>2, <2>3 DEF ArRest
<1>8. ASSUME NEW c \in Objs, ArStoreString(c)
      PROVE  ArRest'
  <2>1. Len(arLive) \in 1..MaxLive
    BY <1>1, <1>2, <1>8 DEF ArStoreString, ArRest
  <2> DEFINE p == Len(arLive)
  <2>2. Stored(c, "string", p, TRUE, EndString(p)) \in Refs
    BY <2>1 DEF Stored, Refs
  <2>3. UNCHANGED arLive /\ arRef' \in [Objs -> Refs]
    BY <1>8, <2>2 DEF ArStoreString, ArRest, strings
  <2> QED
    BY <2>3 DEF ArRest
<1>9. ASSUME NEW c \in Objs, NEW v \in Objs, ArStoreObject(c, v)
      PROVE  ArRest'
  <2>1. Stored(c, "object", v, Transient(v), EndObject(v)) \in Refs
    BY DEF Stored, Refs
  <2>2. UNCHANGED arLive /\ arRef' \in [Objs -> Refs]
    BY <1>9, <2>1 DEF ArStoreObject, ArRest, strings
  <2> QED
    BY <2>2 DEF ArRest
<1> QED
  BY <1>3, <1>4, <1>5, <1>6, <1>7, <1>8, <1>9 DEF ArNext

\* With the invariants of the strings and of the regions these are the types.
LEMMA ArTypes ==
  ASSUME ArInv, RegionInv, ArRest
  PROVE  ArTypeOK
<1>1. arLive \in Seq(Strings) /\ arCps \in Seq(Scopes)
  BY Zenon DEF ArInv, ArTyped
<1>2. /\ DOMAIN arLive = 1..Len(arLive) /\ Len(arLive) \in Nat
      /\ DOMAIN arCps = 1..Len(arCps) /\ Len(arCps) \in Nat
  BY <1>1, Elements
<1>3. arLive \in Seq([block : Blocks, off : Nat, size : AllocSizes])
  <2>1. \A i \in 1..Len(arLive) : arLive[i] \in [block : Blocks, off : Nat, size : AllocSizes]
    <3> SUFFICES ASSUME NEW i \in 1..Len(arLive)
                 PROVE  arLive[i] \in [block : Blocks, off : Nat, size : AllocSizes]
      OBVIOUS
    <3>1. arLive[i] \in Strings /\ arLive[i].size \in AllocSizes
      BY <1>1, <1>2, Elements DEF ArRest
    <3> QED
      BY <3>1 DEF Strings
  <2> HIDE DEF Strings
  <2> DEFINE T == [block : Blocks, off : Nat, size : AllocSizes]
  <2>2. \A i \in 1..Len(arLive) : arLive[i] \in T
    BY <2>1
  <2> HIDE DEF T
  <2>3. arLive \in Seq(T)
    BY <1>1, <1>2, <2>2
  <2> QED
    BY <2>3 DEF T
<1>4. arCps \in Seq(Checkpoints)
  <2>1. \A k \in 1..Len(arCps) : arCps[k] \in Checkpoints
    <3> SUFFICES ASSUME NEW k \in 1..Len(arCps) PROVE arCps[k] \in Checkpoints
      OBVIOUS
    <3>1. arCps[k] \in Scopes
      BY <1>1, Elements
    <3>2. arCps[k].mark <= Len(arLive) /\ Len(arLive) <= MaxLive
      BY <1>2 DEF ArInv, CheckpointsInOrder, ArRest
    <3> DEFINE m == arCps[k].mark
    <3>3. m \in Nat /\ m <= Len(arLive) /\ Len(arLive) <= MaxLive /\ MaxLive \in Nat
      BY <3>1, <3>2, ArenaAssumption DEF Scopes
    <3> HIDE DEF m
    <3>4. m \in 0..MaxLive
      BY <1>2, <3>3
    <3>5. arCps[k].mark \in 0..MaxLive
      BY <3>4 DEF m
    <3> QED
      BY <3>1, <3>5 DEF Scopes, Checkpoints
  <2> QED
    BY <1>1, <1>2, <2>1
<1>5. arSet \subseteq Objs /\ arHeap \subseteq Objs
  BY DEF RegionInv, RegionTracks
<1>6. arAt \in [Objs -> 0..MaxLive]
  <2>1. ASSUME NEW o \in Objs
        PROVE  arAt[o] \in 0..MaxLive
    <3>1. arAt[o] \in Nat /\ arAt[o] <= Len(arLive)
      BY DEF RegionInv, ArraysPlaced
    <3>2. Len(arLive) <= MaxLive /\ MaxLive \in Nat
      BY ArenaAssumption DEF ArRest
    <3> QED
      BY <1>2, <3>1, <3>2
  <2>2. arAt = [o \in Objs |-> arAt[o]]
    BY DEF RegionInv, ArraysPlaced
  <2> QED
    BY <2>1, <2>2
<1> QED
  BY <1>3, <1>4, <1>5, <1>6, Zenon DEF ArTypeOK, ArInv, ArTyped, ScopesFit, ArRest

\* The arena stays typed: no more strings are alive than the bound allows, and
\* every checkpoint, container and reference is of the arena's own.
THEOREM ArenaTypes == ArSpec => []ArTypeOK
<1>1. ArInv /\ [ArNext]_arVars => ArInv'
  BY ArInvNext
<1>2. ArInv /\ RegionInv /\ ArInv' /\ [ArNext]_arVars => RegionInv'
  BY RegionInvNext
<1>3. ArInv /\ RegionInv /\ ArRest /\ [ArNext]_arVars => ArRest'
  BY ArRestNext
<1>4. ArInv /\ RegionInv /\ ArRest => ArTypeOK
  BY ArTypes
<1> QED
  BY ArInvInit, RegionInvInit, ArRestInit, <1>1, <1>2, <1>3, <1>4, PTL DEF ArSpec

-----------------------------------------------------------------------------
(* The serve loops *)

\* The stack of checkpoints at the head of a loop, and what each handle names:
\* checkpoint w is there and was taken with nothing of a request in memory.
Held(w) ==
    /\ w \in DOMAIN arCps
    /\ arCps[w].region = 0 /\ arCps[w].mark = 0
Bare(n) ==
    /\ Len(arCps) = n
    /\ arRegion = <<>>
    /\ Len(arLive) = srvEmpty

\* A scope of a request: the handle names the first checkpoint, or the second
\* with the tick's below it.
Serving ==
    IF srvMode = "evented"
    THEN srvTick = 1 /\ Held(1) /\ srvWm = 2 /\ 2 \in DOMAIN arCps
    ELSE srvTick = 0 /\ srvWm = 1 /\ Held(1)

ServeInv ==
    /\ srvMode \in {"pool", "evented", "listen"}
    /\ srvPc \in {"start", "idle", "tick", "recv", "request", "leave"}
    /\ srvMode # "listen" => srvEmpty = 0
    /\ srvPc = "start" => Bare(0) /\ srvWm = 0 /\ srvTick = 0 /\ srvEmpty = 0
    /\ srvPc = "idle" /\ srvMode # "listen" =>
          Bare(0) /\ srvTick = 0
    /\ srvPc = "idle" /\ srvMode = "listen" =>
          Bare(1) /\ srvWm = 1 /\ Held(1) /\ srvTick = 0
    /\ srvPc = "tick" =>
          srvMode = "evented" /\ srvTick = 1 /\ Len(arCps) = 1 /\ Held(1)
    /\ srvPc \in {"recv", "request", "leave"} => Serving
    /\ srvPc = "recv" /\ srvMode = "listen" => Bare(1)
    /\ srvPc = "leave" => srvMode # "listen"

srvAll == <<arVars, srvVars>>

\* The scope arena_save opens, and those below it.
LEMMA Saved ==
  ASSUME ArInv, ArSave
  PROVE  /\ Len(arCps') = Len(arCps) + 1
         /\ \A i \in DOMAIN arCps : i \in DOMAIN arCps' /\ arCps'[i] = arCps[i]
         /\ Len(arCps) + 1 \in DOMAIN arCps'
         /\ arCps'[Len(arCps) + 1].region = Len(arRegion)
         /\ arCps'[Len(arCps) + 1].mark = Len(arLive)
<1>1. arCps \in Seq(Scopes) /\ arRegion \in Seq(Objs) /\ arLive \in Seq(Strings)
      /\ arCur \in Blocks /\ arUsed \in [Blocks -> Nat]
  BY Zenon DEF ArInv, ArTyped
<1> DEFINE c == [block |-> arCur, used |-> arUsed[arCur],
                 region |-> Len(arRegion), mark |-> Len(arLive)]
<1>2. c \in Scopes
  BY <1>1 DEF Scopes
<1>3. arCps' = Append(arCps, c)
  BY DEF ArSave
<1>4. c.region = Len(arRegion) /\ c.mark = Len(arLive)
  OBVIOUS
<1> HIDE DEF c
<1>5. /\ arCps' \in Seq(Scopes) /\ Len(arCps') = Len(arCps) + 1
      /\ \A i \in 1..Len(arCps) : arCps'[i] = arCps[i]
      /\ arCps'[Len(arCps) + 1] = c
  BY <1>1, <1>2, <1>3, Appended
<1>6. DOMAIN arCps = 1..Len(arCps) /\ DOMAIN arCps' = 1..Len(arCps')
      /\ Len(arCps) \in Nat
  BY <1>1, <1>5, Elements
<1> QED
  BY <1>4, <1>5, <1>6

\* A rewind to a scope taken with nothing of a request in memory leaves
\* nothing of one.
LEMMA RewoundTo ==
  ASSUME ArInv, NEW w, Held(w), NEW m \in {w - 1, w}, Rewind(w),
         arCps' = SubSeq(arCps, 1, m)
  PROVE  /\ arRegion' = <<>> /\ Len(arLive') = 0 /\ Len(arCps') = m
         /\ \A i \in 1..m : i \in DOMAIN arCps' /\ i \in DOMAIN arCps /\ arCps'[i] = arCps[i]
<1>1. arCps \in Seq(Scopes) /\ arRegion \in Seq(Objs) /\ arLive \in Seq(Strings)
  BY Zenon DEF ArInv, ArTyped
<1>2. w \in 1..Len(arCps) /\ m \in 0..Len(arCps) /\ Len(arCps) \in Nat
      /\ DOMAIN arCps = 1..Len(arCps)
  BY <1>1, Elements DEF Held
<1>3. arRegion' = SubSeq(arRegion, 1, 0) /\ arLive' = SubSeq(arLive, 1, 0)
  BY DEF Held, Rewind, RewindRegion
<1>4. arRegion' = <<>> /\ Len(arLive') = 0
  BY <1>1, <1>3
<1>5. arCps' \in Seq(Scopes) /\ Len(arCps') = m /\ \A i \in 1..m : arCps'[i] = arCps[i]
  BY <1>1, <1>2, Front
<1>6. DOMAIN arCps' = 1..m
  BY <1>5, Elements
<1> QED
  BY <1>2, <1>4, <1>5, <1>6

\* A step of a serve loop is a step of the arena, or leaves it alone.
LEMMA ServeStepsArena ==
  ASSUME ArInv, [SrvNext]_srvAll
  PROVE  [ArNext]_arVars
<1>1. \A w \in DOMAIN arCps : w \in 1..CheckpointMax
  <2>1. arCps \in Seq(Scopes)
    BY Zenon DEF ArInv, ArTyped
  <2>2. DOMAIN arCps = 1..Len(arCps) /\ Len(arCps) \in Nat
    BY <2>1, Elements
  <2> QED
    BY <2>2, ArenaAssumption DEF ArInv, ScopesFit
<1>2. ASSUME NEW w, RestoreTo(w) \/ DropTo(w)
      PROVE  [ArNext]_arVars
  BY <1>1, <1>2 DEF RestoreTo, DropTo, ArRestore, ArDrop, ArNext
<1>3. ASSUME NEW n \in AllocSizes, ArAlloc(n) \/ ArNewArray(n)
      PROVE  ArNext
  BY <1>3 DEF ArNext
<1>4. ASSUME ArSave \/ UNCHANGED arCps, UNCHANGED <<strings, containers>>
      PROVE  [ArNext]_arVars
  BY <1>4 DEF ArNext, arVars, strings, containers
<1>5. CASE SrvListenStart \/ SrvAccept \/ SrvTick \/ SrvServeOne
  BY <1>4, <1>5 DEF SrvListenStart, SrvAccept, SrvTick, SrvServeOne, SaveInto
<1>6. CASE SrvOtherStart \/ UNCHANGED srvAll
  BY <1>6 DEF SrvOtherStart, srvAll
<1>7. CASE SrvTickEnd \/ SrvKeep \/ SrvFinish \/ SrvLeave
  BY <1>2, <1>7 DEF SrvTickEnd, SrvKeep, SrvFinish, SrvLeave
<1>8. CASE SrvTickObject
  BY <1>3, <1>8 DEF SrvTickObject, ArNext
<1>9. CASE SrvRecv \/ SrvRecvEmpty
  BY <1>3, <1>9 DEF SrvRecv, SrvRecvEmpty
<1>10. CASE SrvWork
  BY <1>3, <1>4, <1>10 DEF SrvWork, ArNext
<1> QED
  BY <1>5, <1>6, <1>7, <1>8, <1>9, <1>10 DEF SrvNext

\* The serve loops use the arena as it may be used: whatever holds of the
\* arena under any sequence of calls holds under theirs.
THEOREM ServeUsesArena == SrvSpec => ArSpec
<1>1. ArInv /\ [SrvNext]_srvAll => [ArNext]_arVars
  BY ServeStepsArena
<1>2. ArInv /\ [ArNext]_arVars => ArInv'
  BY ArInvNext
<1> QED
  BY ArInvInit, <1>1, <1>2, PTL DEF SrvSpec, ArSpec, srvAll

\* At first nothing is held.
LEMMA ServeInvInit ==
  ASSUME ArInit, SrvInit
  PROVE  ServeInv
<1>1. Len(arCps) = 0 /\ arRegion = <<>> /\ Len(arLive) = 0
  BY DEF ArInit
<1>2. srvMode \in {"pool", "evented", "listen"}
  BY ServeAssumption DEF SrvInit
<1> QED
  BY <1>1, <1>2 DEF SrvInit, ServeInv, Bare

\* Every step of a serve loop keeps its scopes.
LEMMA ServeInvNext ==
  ASSUME 2 <= CheckpointMax, ArInv, ServeInv, [SrvNext]_srvAll
  PROVE  ServeInv'
<1>1. arCps \in Seq(Scopes) /\ arRegion \in Seq(Objs) /\ arLive \in Seq(Strings)
  BY Zenon DEF ArInv, ArTyped
<1>2. DOMAIN arCps = 1..Len(arCps) /\ Len(arCps) \in Nat /\ Len(arLive) \in Nat
      /\ CheckpointMax \in Nat /\ (arRegion = <<>> => Len(arRegion) = 0)
  BY <1>1, Elements, ArenaAssumption
<1>3. ASSUME NEW n \in AllocSizes, ArAlloc(n) \/ ArNewArray(n)
      PROVE  /\ UNCHANGED <<arCps, arRegion>>
             /\ Len(arLive') = Len(arLive) + 1
  <2>1. \E x : arLive' = Append(arLive, x)
    BY <1>3 DEF ArAlloc, ArNewArray, ArPut, ArBump, ArReuse, ArGrow, Take
  <2>2. PICK x : arLive' = Append(arLive, x)
    BY <2>1
  <2>3. Len(arLive') = Len(arLive) + 1
    BY <1>1, <2>2
  <2> QED
    BY <1>3, <2>3 DEF ArAlloc, ArNewArray, containers
<1>4. CASE UNCHANGED srvAll
  BY <1>4, Zenon DEF ServeInv, Bare, Held, Serving, srvAll, srvVars, arVars
<1>5. CASE SrvListenStart
  <2>1. Bare(0) /\ srvEmpty = 0
    BY <1>5 DEF SrvListenStart, ServeInv
  <2>2. /\ srvWm' = 1 /\ Len(arCps') = 1 /\ 1 \in DOMAIN arCps'
        /\ arCps'[1].region = 0 /\ arCps'[1].mark = 0
    BY <1>2, <1>5, <2>1, Saved DEF SrvListenStart, SaveInto, Bare
  <2> QED
    BY <1>5, <2>1, <2>2
    DEF SrvListenStart, ServeInv, Bare, Held, strings, containers
<1>6. CASE SrvOtherStart
  BY <1>6 DEF SrvOtherStart, ServeInv, Bare, Held, arVars
<1>7. CASE SrvAccept
  <2>1. CASE srvMode = "listen"
    BY <1>7, <2>1
    DEF SrvAccept, ServeInv, Bare, Held, Serving, strings, containers
  <2>2. CASE srvMode = "pool"
    <3>1. Bare(0) /\ srvEmpty = 0 /\ srvTick = 0
      BY <1>7, <2>2 DEF SrvAccept, ServeInv
    <3>2. /\ srvWm' = 1 /\ 1 \in DOMAIN arCps'
          /\ arCps'[1].region = 0 /\ arCps'[1].mark = 0
      BY <1>2, <1>7, <2>2, <3>1, Saved DEF SrvAccept, SaveInto, Bare
    <3> QED
      BY <1>7, <2>2, <3>1, <3>2 DEF SrvAccept, ServeInv, Held, Serving
  <2> QED
    BY <1>7, <2>1, <2>2 DEF SrvAccept
<1>8. CASE SrvTick
  <2>1. Bare(0) /\ srvEmpty = 0
    BY <1>8 DEF SrvTick, ServeInv
  <2>2. /\ srvTick' = 1 /\ Len(arCps') = 1 /\ 1 \in DOMAIN arCps'
        /\ arCps'[1].region = 0 /\ arCps'[1].mark = 0
    BY <1>2, <1>8, <2>1, Saved DEF SrvTick, SaveInto, Bare
  <2> QED
    BY <1>8, <2>1, <2>2 DEF SrvTick, ServeInv, Held
<1>9. CASE SrvTickObject
  <2>1. UNCHANGED arCps
    BY <1>3, <1>9 DEF SrvTickObject, ArNewObject
  <2> QED
    BY <1>9, <2>1 DEF SrvTickObject, ServeInv, Held, srvVars
<1>10. CASE SrvServeOne
  <2>1. srvMode = "evented" /\ srvTick = 1 /\ Len(arCps) = 1 /\ Held(1)
    BY <1>10 DEF SrvServeOne, ServeInv
  <2>2. /\ srvWm' = 2 /\ 2 \in DOMAIN arCps' /\ 1 \in DOMAIN arCps'
        /\ arCps'[1] = arCps[1]
    BY <1>2, <1>10, <2>1, Saved DEF SrvServeOne, SaveInto
  <2> QED
    BY <1>10, <2>1, <2>2 DEF SrvServeOne, ServeInv, Held, Serving
<1>11. CASE SrvTickEnd
  <2>1. srvMode = "evented" /\ srvTick = 1 /\ Held(1) /\ srvEmpty = 0
    BY <1>11 DEF SrvTickEnd, ServeInv
  <2>2. Rewind(1) /\ arCps' = SubSeq(arCps, 1, 0)
    BY <1>11, <2>1 DEF SrvTickEnd, DropTo, ArDrop, Held
  <2>3. arRegion' = <<>> /\ Len(arLive') = 0 /\ Len(arCps') = 0
    BY <2>1, <2>2, RewoundTo
  <2> QED
    BY <1>11, <2>1, <2>3 DEF SrvTickEnd, ServeInv, Bare
<1>12. CASE SrvRecv
  <2>1. UNCHANGED arCps
    BY <1>3, <1>12 DEF SrvRecv
  <2> QED
    BY <1>12, <2>1 DEF SrvRecv, ServeInv, Held, Serving
<1>13. CASE SrvRecvEmpty
  <2>1. UNCHANGED <<arCps, arRegion>> /\ Len(arLive') = Len(arLive) + 1
    BY <1>3, <1>13 DEF SrvRecvEmpty
  <2> QED
    BY <1>13, <2>1 DEF SrvRecvEmpty, ServeInv, Bare, Held, Serving
<1>14. CASE SrvWork
  <2>1. \A i \in DOMAIN arCps : i \in DOMAIN arCps' /\ arCps'[i] = arCps[i]
    <3>1. CASE ArSave
      BY <3>1, Saved
    <3>2. CASE UNCHANGED arCps
      BY <3>2
    <3> QED
      BY <1>3, <1>14, <3>1, <3>2 DEF SrvWork, ArNewObject
  <2> QED
    BY <1>14, <2>1 DEF SrvWork, ServeInv, Held, Serving, srvVars
<1>15. ASSUME srvMode # "evented", RestoreTo(srvWm), srvPc = "request"
       PROVE  /\ srvWm = 1 /\ srvTick = 0
              /\ arRegion' = <<>> /\ Len(arLive') = 0 /\ Len(arCps') = 1
              /\ 1 \in DOMAIN arCps' /\ arCps'[1].region = 0 /\ arCps'[1].mark = 0
  <2>1. srvWm = 1 /\ Held(1) /\ srvTick = 0
    BY <1>15 DEF ServeInv, Serving
  <2>2. Rewind(1) /\ arCps' = SubSeq(arCps, 1, 1)
    BY <1>15, <2>1 DEF RestoreTo, ArRestore, Held
  <2>3. 1 \in {1 - 1, 1} /\ 1 \in 1..1
    OBVIOUS
  <2> QED
    BY <2>1, <2>2, <2>3, RewoundTo DEF Held
<1>16. CASE SrvKeep
  BY <1>15, <1>16 DEF SrvKeep, ServeInv, Bare, Held, Serving
<1>17. CASE SrvFinish
  <2>1. CASE srvMode = "evented"
    BY <1>17, <2>1 DEF SrvFinish, ServeInv, Held, Serving, arVars
  <2>2. CASE srvMode # "evented"
    BY <1>15, <1>17, <2>2 DEF SrvFinish, ServeInv, Bare, Held, Serving
  <2> QED
    BY <2>1, <2>2
<1>18. CASE SrvLeave
  <2>1. srvMode # "listen" /\ srvEmpty = 0 /\ Serving
    BY <1>18 DEF SrvLeave, ServeInv
  <2>2. CASE srvMode = "evented"
    <3>1. srvWm = 2 /\ 2 \in DOMAIN arCps /\ Held(1) /\ srvTick = 1
      BY <2>1, <2>2 DEF Serving
    <3>2. arCps' = SubSeq(arCps, 1, 1)
      BY <1>18, <3>1 DEF SrvLeave, DropTo, ArDrop
    <3>3. Len(arCps') = 1 /\ arCps'[1] = arCps[1] /\ 1 \in DOMAIN arCps'
      BY <1>1, <1>2, <3>1, <3>2, Front, Elements
    <3> QED
      BY <1>18, <2>1, <2>2, <3>1, <3>3 DEF SrvLeave, ServeInv, Held
  <2>3. CASE srvMode # "evented"
    <3>1. srvWm = 1 /\ Held(1) /\ srvTick = 0
      BY <2>1, <2>3 DEF Serving
    <3>2. Rewind(1) /\ arCps' = SubSeq(arCps, 1, 0)
      BY <1>18, <3>1 DEF SrvLeave, DropTo, ArDrop, Held
    <3>3. arRegion' = <<>> /\ Len(arLive') = 0 /\ Len(arCps') = 0
      BY <3>1, <3>2, RewoundTo
    <3> QED
      BY <1>18, <2>1, <2>3, <3>1, <3>3 DEF SrvLeave, ServeInv, Bare
  <2> QED
    BY <2>2, <2>3
<1> QED
  BY <1>4, <1>5, <1>6, <1>7, <1>8, <1>9, <1>10, <1>11, <1>12, <1>13, <1>14,
     <1>16, <1>17, <1>18 DEF SrvNext

\* With a checkpoint stack of at least two, nothing a request used is held at
\* the head of a serve loop, however many requests were served and whatever
\* scopes their handlers left open (_wings_serve_connection, listen,
\* listen_evented).
THEOREM ServeReclaimsAll ==
  ASSUME 2 <= CheckpointMax
  PROVE  SrvSpec => []ServeReclaims
<1>1. ArInit /\ SrvInit => ServeInv
  BY ServeInvInit
<1>2. ArInv /\ ServeInv /\ [SrvNext]_srvAll => ServeInv'
  BY ServeInvNext
<1>3. ArInv /\ [SrvNext]_srvAll => ArInv'
  BY ServeStepsArena, ArInvNext
<1>4. ServeInv => ServeReclaims
  BY DEF ServeInv, Bare, ServeReclaims
<1> QED
  BY ArInvInit, <1>1, <1>2, <1>3, <1>4, PTL DEF SrvSpec, srvAll

\* The serve loops count the connections that sent nothing, and the arena
\* holds a string of each; the handles are those of open scopes or none.
SrvInv ==
    /\ srvMode \in ServeModes
    /\ srvPc \in {"start", "idle", "tick", "recv", "request", "leave"}
    /\ srvWm \in 0..CheckpointMax /\ srvTick \in 0..CheckpointMax
    /\ srvEmpty \in 0..Len(arLive)
    /\ srvMode # "listen" => srvEmpty = 0
    /\ srvPc = "tick" => srvMode = "evented"
    /\ srvPc = "leave" => srvMode # "listen"

\* At first no handle is held.
LEMMA SrvInvInit == ArInit /\ SrvInit => SrvInv
  BY ArenaAssumption DEF ArInit, SrvInit, SrvInv

\* Each step of a serve loop keeps these, however small the stack of scopes.
LEMMA SrvInvNext ==
  ASSUME ArInv, SrvInv, [SrvNext]_srvAll
  PROVE  SrvInv'
<1>1. arLive \in Seq(Strings) /\ arCps \in Seq(Scopes)
  BY Zenon DEF ArInv, ArTyped
<1>2. Len(arLive) \in Nat /\ Len(arCps) \in Nat /\ CheckpointMax \in Nat
  BY <1>1, Elements, ArenaAssumption
<1>3. ASSUME NEW n \in AllocSizes, ArAlloc(n) \/ ArNewArray(n)
      PROVE  Len(arLive') = Len(arLive) + 1
  <2>1. PICK x : arLive' = Append(arLive, x)
    BY <1>3 DEF ArAlloc, ArNewArray, ArPut, ArBump, ArReuse, ArGrow, Take
  <2> QED
    BY <1>1, <2>1
<1>4. ASSUME NEW w, RestoreTo(w) \/ DropTo(w)
      PROVE  Len(arLive') \in Nat
  <2>1. CASE UNCHANGED arLive
    BY <1>2, <2>1
  <2>2. CASE w \in DOMAIN arCps /\ Rewind(w)
    <3>1. DOMAIN arCps = 1..Len(arCps)
      BY <1>1, Elements
    <3>2. arCps[w] \in Scopes
      BY <1>1, <2>2, <3>1, Elements
    <3>3. arCps[w].mark \in Nat /\ arCps[w].mark <= Len(arLive)
      BY <2>2, <3>2 DEF Scopes, ArInv, CheckpointsInOrder
    <3> DEFINE m == arCps[w].mark
    <3>4. m \in 0..Len(arLive) /\ arLive' = SubSeq(arLive, 1, m)
      BY <1>2, <2>2, <3>3 DEF Rewind
    <3> HIDE DEF m
    <3> QED
      BY <1>1, <1>2, <3>4, Front
  <2> QED
    BY <1>4, <2>1, <2>2 DEF RestoreTo, DropTo, ArRestore, ArDrop, arVars
<1>5. CASE UNCHANGED srvAll
  BY <1>5 DEF srvAll, arVars, srvVars, SrvInv
<1>6. CASE SrvListenStart \/ SrvAccept \/ SrvServeOne
  <2>1. srvWm' \in 0..CheckpointMax
    BY <1>2, <1>6
    DEF SrvListenStart, SrvAccept, SrvServeOne, SaveInto, ArSave, SrvInv
  <2> QED
    BY <1>6, <2>1 DEF SrvListenStart, SrvAccept, SrvServeOne, SrvInv, strings
<1>7. CASE SrvTick
  <2>1. srvTick' \in 0..CheckpointMax
    BY <1>2, <1>7 DEF SrvTick, SaveInto, ArSave
  <2> QED
    BY <1>7, <2>1 DEF SrvTick, SrvInv, strings
<1>8. CASE SrvOtherStart
  BY <1>8 DEF SrvOtherStart, SrvInv, arVars
<1>9. CASE SrvTickObject
  <2>1. Len(arLive') \in {Len(arLive), Len(arLive) + 1}
    BY <1>3, <1>9 DEF SrvTickObject, ArNewObject, strings
  <2> QED
    BY <1>2, <1>9, <2>1 DEF SrvTickObject, SrvInv, srvVars
<1>10. CASE SrvTickEnd
  <2>1. srvEmpty = 0 /\ Len(arLive') \in Nat
    BY <1>4, <1>10 DEF SrvTickEnd, SrvInv
  <2> QED
    BY <1>2, <1>10, <2>1 DEF SrvTickEnd, SrvInv
<1>11. CASE SrvRecv \/ SrvRecvEmpty
  <2>1. Len(arLive') = Len(arLive) + 1
    BY <1>3, <1>11 DEF SrvRecv, SrvRecvEmpty
  <2> QED
    BY <1>2, <1>11, <2>1 DEF SrvRecv, SrvRecvEmpty, SrvInv
<1>12. CASE SrvWork
  <2>1. Len(arLive') \in {Len(arLive), Len(arLive) + 1}
    BY <1>3, <1>12 DEF SrvWork, ArNewObject, strings
  <2> QED
    BY <1>2, <1>12, <2>1 DEF SrvWork, SrvInv, srvVars
<1>13. CASE SrvKeep
  BY <1>2, <1>4, <1>13 DEF SrvKeep, SrvInv
<1>14. CASE SrvFinish
  <2>1. Len(arLive') \in Nat
    BY <1>2, <1>4, <1>14 DEF SrvFinish, arVars
  <2> QED
    BY <1>2, <1>14, <2>1 DEF SrvFinish, SrvInv
<1>15. CASE SrvLeave
  <2>1. srvEmpty = 0 /\ Len(arLive') \in Nat
    BY <1>4, <1>15 DEF SrvLeave, SrvInv
  <2> QED
    BY <1>2, <1>15, <2>1 DEF SrvLeave, SrvInv
<1> QED
  BY <1>5, <1>6, <1>7, <1>8, <1>9, <1>10, <1>11, <1>12, <1>13, <1>14, <1>15
  DEF SrvNext
-----------------------------------------------------------------------------
(* Requests on a connection *)

\* A set of natural numbers has a least one.
LEMMA LeastNumber ==
  ASSUME NEW T, T \subseteq Nat, T # {}
  PROVE  \E x \in T : \A y \in T : x <= y
<1>1. PICK x \in T : \A y \in T : <<y, x>> \notin OpToRel(<, Nat)
  BY WFMin, NatLessThanWellFounded, Zenon
<1>2. ASSUME NEW y \in T
      PROVE  x <= y
  <2>1. <<y, x>> \in Nat \X Nat /\ <<y, x>>[1] = y /\ <<y, x>>[2] = x
    OBVIOUS
  <2>2. ~(<<y, x>>[1] < <<y, x>>[2])
    BY <1>1, <2>1 DEF OpToRel
  <2> QED
    BY <2>1, <2>2
<1> QED
  BY <1>2

(* The wire *)

\* The last byte of request k, and where the first begins.
End(k) == IF k = 0 THEN 0 ELSE rqScript[k].at + Size(rqScript[k])

\* Each request begins where the one before it ends.
LEMMA RequestsAdjoin ==
  ASSUME rqScript \in RqScripts, NEW k \in DOMAIN rqScript
  PROVE  /\ Len(rqScript) \in Nat /\ DOMAIN rqScript = 1..Len(rqScript)
         /\ rqScript[k].head \in Nat \ {0} /\ rqScript[k].body \in 0..RqIntMax
         /\ rqScript[k].body \in Nat /\ rqScript[k].declares \in BOOLEAN
         /\ IF rqScript[k].declares THEN rqScript[k].head > 1
            ELSE rqScript[k].body = 0
         /\ rqScript[k].at = End(k - 1) /\ End(k - 1) \in Nat
         /\ End(k) = End(k - 1) + rqScript[k].head + 4 + rqScript[k].body
         /\ End(k) \in Nat
         /\ Whole(k) = (End(k - 1) + 1)..End(k)
<1>1. /\ rqScript \in Seq(Requests) /\ rqScript[1].at = 0
      /\ \A j \in 2..Len(rqScript) :
            rqScript[j].at = rqScript[j - 1].at + Size(rqScript[j - 1])
      /\ rqScript[k].body <= RqIntMax /\ RqIntMax \in Nat
      /\ IF rqScript[k].declares THEN rqScript[k].head > 1
         ELSE rqScript[k].body = 0
  BY RqAssumption
<1>2. /\ rqScript[k] \in Requests
      /\ Len(rqScript) \in Nat /\ DOMAIN rqScript = 1..Len(rqScript)
      /\ k \in 1..Len(rqScript)
  BY <1>1
<1>3. /\ rqScript[k].head \in Nat \ {0} /\ rqScript[k].body \in Nat
      /\ rqScript[k].declares \in BOOLEAN /\ rqScript[k].at \in Nat
  BY <1>2 DEF Requests
<1>4. rqScript[k].at = End(k - 1)
  <2>1. CASE k = 1
    BY <1>1, <2>1 DEF End
  <2>2. CASE k # 1
    BY <1>1, <1>2, <2>2 DEF End
  <2> QED
    BY <2>1, <2>2
<1>5. End(k) = rqScript[k].at + Size(rqScript[k])
  BY <1>2 DEF End
<1>6. Size(rqScript[k]) = rqScript[k].head + 4 + rqScript[k].body
  BY DEF Size
<1>7. /\ End(k) = End(k - 1) + rqScript[k].head + 4 + rqScript[k].body
      /\ End(k - 1) \in Nat /\ End(k) \in Nat
  BY <1>3, <1>4, <1>5, <1>6
<1>8. Whole(k) = (End(k - 1) + 1)..End(k)
  BY <1>4, <1>5 DEF Whole
<1>9. rqScript[k].body \in 0..RqIntMax
  BY <1>1, <1>3
<1> QED
  BY <1>1, <1>2, <1>3, <1>4, <1>7, <1>8, <1>9

\* The wire is as long as its requests.
LEMMA WireEnds ==
  ASSUME rqScript \in RqScripts
  PROVE  /\ Len(rqScript) \in Nat \ {0} /\ DOMAIN rqScript = 1..Len(rqScript)
         /\ WireLen = End(Len(rqScript)) /\ WireLen \in Nat
<1>1. rqScript \in Seq(Requests) /\ rqScript # <<>>
  BY RqAssumption
<1>2. Len(rqScript) \in Nat \ {0} /\ DOMAIN rqScript = 1..Len(rqScript)
  BY <1>1
<1>3. WireLen = End(Len(rqScript))
  BY <1>2 DEF WireLen, End
<1>4. Len(rqScript) \in DOMAIN rqScript
  BY <1>2
<1>5. End(Len(rqScript)) \in Nat
  BY <1>4, RequestsAdjoin
<1> QED
  BY <1>2, <1>3, <1>5

\* Later requests end later.
LEMMA EndsOrdered ==
  ASSUME rqScript \in RqScripts, NEW j \in 0..Len(rqScript),
         NEW k \in 0..Len(rqScript), j <= k
  PROVE  End(j) \in Nat /\ End(k) \in Nat /\ End(j) <= End(k)
<1>1. Len(rqScript) \in Nat /\ DOMAIN rqScript = 1..Len(rqScript)
  BY WireEnds
<1>2. \A m \in 0..Len(rqScript) : End(m) \in Nat
  <2>1. End(0) = 0
    BY DEF End
  <2> QED
    BY <1>1, <2>1, RequestsAdjoin
<1> DEFINE Bad == {m \in j..Len(rqScript) : End(m) < End(j)}
<1>3. Bad = {}
  <2> SUFFICES ASSUME Bad # {} PROVE FALSE
    OBVIOUS
  <2>0. Bad \subseteq Nat
    BY <1>1
  <2>1. PICK m \in Bad : \A x \in Bad : m <= x
    BY <2>0, LeastNumber
  <2>2. m # j /\ m \in 1..Len(rqScript) /\ m - 1 \in j..Len(rqScript)
    BY <1>1, <1>2, <2>1
  <2>3. m - 1 \notin Bad
    BY <2>1, <2>2
  <2>4. End(m - 1) <= End(m)
    <3> DEFINE H == rqScript[m].head
               B == rqScript[m].body
    <3>1. m \in DOMAIN rqScript
      BY <1>1, <2>2
    <3>2. End(m - 1) \in Nat /\ H \in Nat /\ B \in Nat /\ End(m) = End(m - 1) + H + 4 + B
      BY <3>1, RequestsAdjoin
    <3> HIDE DEF H, B
    <3> QED
      BY <3>2
  <2>5. End(m) < End(j) /\ ~(End(m - 1) < End(j))
    BY <2>1, <2>2, <2>3
  <2>6. End(m) \in Nat /\ End(m - 1) \in Nat /\ End(j) \in Nat
    BY <1>1, <1>2, <2>2
  <2> QED
    BY <2>4, <2>5, <2>6
<1> QED
  BY <1>1, <1>2, <1>3

\* A byte of request k belongs to no other.
LEMMA OwnerIs ==
  ASSUME rqScript \in RqScripts, NEW k \in DOMAIN rqScript, NEW byte \in Whole(k)
  PROVE  Owner(byte) = k
<1>1. ASSUME NEW j \in DOMAIN rqScript, byte \in Whole(j)
      PROVE  j = k
  <2> DEFINE n == Len(rqScript)
  <2>1. /\ n \in Nat /\ j \in 1..n /\ k \in 1..n
        /\ End(j) \in Nat /\ End(j - 1) \in Nat /\ End(k) \in Nat /\ End(k - 1) \in Nat
    BY RequestsAdjoin, WireEnds
  <2>2. byte \in (End(j - 1) + 1)..End(j) /\ byte \in (End(k - 1) + 1)..End(k)
    BY <1>1, RequestsAdjoin
  <2> HIDE DEF n
  <2>3. /\ j \in Nat /\ k \in Nat /\ n \in Nat
        /\ 1 <= j /\ j <= n /\ 1 <= k /\ k <= n
    BY <2>1
  <2>4. byte \in Int /\ End(j - 1) < byte /\ byte <= End(j) /\ End(k - 1) < byte /\ byte <= End(k)
    BY <2>1, <2>2
  <2>5. ~(j < k)
    <3>1. CASE j < k
      <4>1. j \in 0..n /\ k - 1 \in 0..n /\ j <= k - 1
        BY <2>3, <3>1
      <4>2. End(j) <= End(k - 1)
        BY <4>1, EndsOrdered DEF n
      <4> QED
        BY <2>1, <2>4, <4>2
    <3> QED
      BY <3>1
  <2>6. ~(k < j)
    <3>1. CASE k < j
      <4>1. k \in 0..n /\ j - 1 \in 0..n /\ k <= j - 1
        BY <2>3, <3>1
      <4>2. End(k) <= End(j - 1)
        BY <4>1, EndsOrdered DEF n
      <4> QED
        BY <2>1, <2>4, <4>2
    <3> QED
      BY <3>1
  <2> QED
    BY <2>3, <2>5, <2>6
<1> QED
  BY <1>1 DEF Owner

\* Every byte belongs to some request.
LEMMA OwnerExists ==
  ASSUME rqScript \in RqScripts, NEW byte \in 1..WireLen
  PROVE  Owner(byte) \in DOMAIN rqScript /\ byte \in Whole(Owner(byte))
<1>1. /\ Len(rqScript) \in Nat \ {0} /\ DOMAIN rqScript = 1..Len(rqScript)
      /\ WireLen = End(Len(rqScript)) /\ WireLen \in Nat
  BY WireEnds
<1> DEFINE Reach == {m \in 1..Len(rqScript) : byte <= End(m)}
<1>2. Reach # {} /\ Reach \subseteq Nat
  <2>1. Len(rqScript) \in Reach
    BY <1>1
  <2> QED
    BY <1>1, <2>1
<1>3. PICK m \in Reach : \A x \in Reach : m <= x
  BY <1>2, LeastNumber
<1>4. /\ m \in DOMAIN rqScript /\ End(m) \in Nat /\ End(m - 1) \in Nat
      /\ Whole(m) = (End(m - 1) + 1)..End(m)
  BY <1>1, <1>3, RequestsAdjoin
<1>5. End(m - 1) < byte
  <2>1. CASE m = 1
    <3>1. End(m - 1) = 0
      BY <2>1 DEF End
    <3> QED
      BY <1>1, <3>1
  <2>2. CASE m # 1
    <3>1. m - 1 \in 1..Len(rqScript) /\ m - 1 \notin Reach
      BY <1>1, <1>3, <2>2
    <3> QED
      BY <1>1, <1>4, <3>1
  <2> QED
    BY <2>1, <2>2
<1>6. byte \in Whole(m)
  BY <1>1, <1>3, <1>4, <1>5
<1> QED
  BY <1>4, <1>6, OwnerIs

\* What is where in a request.
LEMMA CharsOf ==
  ASSUME rqScript \in RqScripts, NEW k \in DOMAIN rqScript,
         NEW nth \in 1..(rqScript[k].head + 4 + rqScript[k].body)
  PROVE  /\ Owner(End(k - 1) + nth) = k
         /\ Char(End(k - 1) + nth) =
               IF nth <= rqScript[k].head
               THEN IF nth = 2 /\ rqScript[k].declares THEN "c" ELSE "h"
               ELSE IF nth <= rqScript[k].head + 4
                    THEN <<"r", "n", "r", "n">>[nth - rqScript[k].head]
               ELSE "b"
<1>1. /\ rqScript[k].head \in Nat \ {0} /\ rqScript[k].body \in Nat
      /\ rqScript[k].at = End(k - 1) /\ End(k - 1) \in Nat
      /\ End(k) = End(k - 1) + rqScript[k].head + 4 + rqScript[k].body
      /\ Whole(k) = (End(k - 1) + 1)..End(k)
  BY RequestsAdjoin
<1>2. End(k - 1) + nth \in Whole(k)
  <2> DEFINE H == rqScript[k].head
             B == rqScript[k].body
  <2>1. /\ H \in Nat /\ B \in Nat /\ nth \in 1..(H + 4 + B)
        /\ End(k - 1) \in Nat /\ End(k) = End(k - 1) + H + 4 + B
    BY <1>1
  <2> HIDE DEF H, B
  <2>2. End(k - 1) + nth \in (End(k - 1) + 1)..End(k)
    BY <2>1
  <2> QED
    BY <1>1, <2>2
<1>3. Owner(End(k - 1) + nth) = k
  BY <1>2, OwnerIs
<1>4. (End(k - 1) + nth) - rqScript[k].at = nth
  BY <1>1
<1> DEFINE byte == End(k - 1) + nth
<1>5. Char(byte) =
         IF byte - rqScript[Owner(byte)].at <= rqScript[Owner(byte)].head
         THEN IF byte - rqScript[Owner(byte)].at = 2 /\ rqScript[Owner(byte)].declares
              THEN "c" ELSE "h"
         ELSE IF byte - rqScript[Owner(byte)].at <= rqScript[Owner(byte)].head + 4
              THEN <<"r", "n", "r", "n">>
                      [byte - rqScript[Owner(byte)].at - rqScript[Owner(byte)].head]
         ELSE "b"
  BY DEF Char
<1>6. Owner(byte) = k /\ byte - rqScript[k].at = nth
  BY <1>3, <1>4
<1> HIDE DEF byte
<1>7. Char(byte) =
               IF nth <= rqScript[k].head
               THEN IF nth = 2 /\ rqScript[k].declares THEN "c" ELSE "h"
               ELSE IF nth <= rqScript[k].head + 4
                    THEN <<"r", "n", "r", "n">>[nth - rqScript[k].head]
               ELSE "b"
  BY <1>5, <1>6, Zenon
<1> QED
  BY <1>3, <1>7 DEF byte

\* The body of a request is what follows its blank line.
LEMMA BodyIs ==
  ASSUME rqScript \in RqScripts, NEW k \in DOMAIN rqScript
  PROVE  BodyOf(k) = (End(k - 1) + rqScript[k].head + 5)..End(k)
<1> DEFINE E == End(k - 1)
           H == rqScript[k].head
           B == rqScript[k].body
<1>1. /\ E \in Nat /\ H \in Nat \ {0} /\ B \in Nat
      /\ End(k) = E + H + 4 + B /\ Whole(k) = (E + 1)..End(k)
  BY RequestsAdjoin
<1>2. \A nth \in 1..(H + 4 + B) :
         Char(E + nth) =
            IF nth <= H THEN IF nth = 2 /\ rqScript[k].declares THEN "c" ELSE "h"
            ELSE IF nth <= H + 4 THEN <<"r", "n", "r", "n">>[nth - H]
            ELSE "b"
  BY CharsOf
<1> HIDE DEF E, H, B
<1>3. ASSUME NEW byte \in Whole(k)
      PROVE  Char(byte) = "b" <=> byte >= E + H + 5
  <2>1. PICK nth \in 1..(H + 4 + B) : byte = E + nth
    <3>1. byte - E \in 1..(H + 4 + B) /\ byte = E + (byte - E)
      BY <1>1
    <3> QED
      BY <3>1
  <2>2. nth \in Nat /\ (byte >= E + H + 5 <=> nth > H + 4)
    BY <1>1, <2>1
  <2>3. CASE nth <= H
    <3>1. Char(byte) \in {"c", "h"}
      BY <1>2, <2>1, <2>3
    <3> QED
      BY <1>1, <2>2, <2>3, <3>1
  <2>4. CASE nth > H /\ nth <= H + 4
    <3>1. nth - H = 1 \/ nth - H = 2 \/ nth - H = 3 \/ nth - H = 4
      BY <1>1, <2>2, <2>4
    <3>2. Char(byte) = <<"r", "n", "r", "n">>[nth - H]
      BY <1>1, <1>2, <2>1, <2>2, <2>4
    <3>3. Char(byte) \in {"r", "n"}
      BY <3>1, <3>2
    <3> QED
      BY <1>1, <2>2, <2>4, <3>3
  <2>5. CASE nth > H + 4
    <3>1. Char(byte) = "b"
      BY <1>1, <1>2, <2>1, <2>2, <2>5
    <3> QED
      BY <2>2, <2>5, <3>1
  <2> QED
    BY <1>1, <2>2, <2>3, <2>4, <2>5
<1>4. BodyOf(k) = (E + H + 5)..End(k)
  BY <1>1, <1>3 DEF BodyOf
<1> QED
  BY <1>4 DEF E, H

-----------------------------------------------------------------------------
(* The scan *)

\* The least of a set of numbers is in it.
LEMMA MinIn ==
  ASSUME NEW T, T \subseteq Nat, T # {}
  PROVE  Min(T) \in T
  BY LeastNumber DEF Min

\* The only one is the least.
LEMMA MinOfOne ==
  ASSUME NEW n \in Nat
  PROVE  Min({n}) = n
<1>1. {n} \subseteq Nat /\ {n} # {}
  OBVIOUS
<1>2. Min({n}) \in {n}
  BY <1>1, MinIn
<1> QED
  BY <1>2

\* What is in a window that begins with request k.
LEMMA BytesAt ==
  ASSUME rqScript \in RqScripts, NEW k \in DOMAIN rqScript, rqStart = End(k - 1),
         NEW at \in 0..(rqScript[k].head + 3 + rqScript[k].body)
  PROVE  /\ Owner(rqStart + at + 1) = k
         /\ at < rqScript[k].head =>
              ByteAt(at) = IF at = 1 /\ rqScript[k].declares THEN "c" ELSE "h"
         /\ at = rqScript[k].head => ByteAt(at) = "r"
         /\ at = rqScript[k].head + 1 => ByteAt(at) = "n"
         /\ at = rqScript[k].head + 2 => ByteAt(at) = "r"
         /\ at = rqScript[k].head + 3 => ByteAt(at) = "n"
         /\ at > rqScript[k].head + 3 => ByteAt(at) = "b"
<1>1. rqScript[k].head \in Nat \ {0} /\ rqScript[k].body \in Nat /\ rqStart \in Nat
  BY RequestsAdjoin
<1> DEFINE nth == at + 1
<1>2. /\ nth \in 1..(rqScript[k].head + 4 + rqScript[k].body)
      /\ rqStart + at + 1 = End(k - 1) + nth
  BY <1>1
<1>3. /\ at < rqScript[k].head <=> nth <= rqScript[k].head
      /\ at = 1 <=> nth = 2
      /\ at <= rqScript[k].head + 3 <=> nth <= rqScript[k].head + 4
      /\ at = rqScript[k].head <=> nth - rqScript[k].head = 1
      /\ at = rqScript[k].head + 1 <=> nth - rqScript[k].head = 2
      /\ at = rqScript[k].head + 2 <=> nth - rqScript[k].head = 3
      /\ at = rqScript[k].head + 3 <=> nth - rqScript[k].head = 4
      /\ at \in Nat
  BY <1>1
<1> HIDE DEF nth
<1>4. /\ Owner(rqStart + at + 1) = k
      /\ Char(rqStart + at + 1) =
               IF nth <= rqScript[k].head
               THEN IF nth = 2 /\ rqScript[k].declares THEN "c" ELSE "h"
               ELSE IF nth <= rqScript[k].head + 4
                    THEN <<"r", "n", "r", "n">>[nth - rqScript[k].head]
               ELSE "b"
  BY <1>2, CharsOf
<1>5. ByteAt(at) = Char(rqStart + at + 1)
  BY DEF ByteAt
<1>6. CASE at < rqScript[k].head
  BY <1>1, <1>3, <1>4, <1>5, <1>6
<1>7. CASE at > rqScript[k].head + 3
  BY <1>1, <1>3, <1>4, <1>5, <1>7
<1>8. CASE at >= rqScript[k].head /\ at <= rqScript[k].head + 3
  <2>1. ByteAt(at) = <<"r", "n", "r", "n">>[nth - rqScript[k].head]
    BY <1>1, <1>3, <1>4, <1>5, <1>8
  <2>2. at = rqScript[k].head => ByteAt(at) = "r"
    BY <1>3, <2>1
  <2>3. at = rqScript[k].head + 1 => ByteAt(at) = "n"
    BY <1>3, <2>1
  <2>4. at = rqScript[k].head + 2 => ByteAt(at) = "r"
    BY <1>3, <2>1
  <2>5. at = rqScript[k].head + 3 => ByteAt(at) = "n"
    BY <1>3, <2>1
  <2> QED
    BY <1>1, <1>3, <1>4, <1>8, <2>2, <2>3, <2>4, <2>5
<1> QED
  BY <1>1, <1>3, <1>6, <1>7, <1>8

\* The scan finds the end of the headers as soon as the window holds it, however
\* the bytes were cut, and nothing else.
LEMMA ScanFinds ==
  ASSUME rqScript \in RqScripts, NEW k \in DOMAIN rqScript, rqStart = End(k - 1),
         NEW total \in Nat, NEW n \in Nat, n <= total,
         total <= rqScript[k].head + 4 + rqScript[k].body,
         total - n < rqScript[k].head + 4
  PROVE  BlankLines(total, n) =
            IF total >= rqScript[k].head + 4 THEN {rqScript[k].head + 4} ELSE {}
<1>1. rqScript[k].head \in Nat \ {0} /\ rqScript[k].body \in Nat /\ rqStart \in Nat
  BY RequestsAdjoin
<1> DEFINE IsBlank(at) ==
              <<ByteAt(at), ByteAt(at + 1), ByteAt(at + 2), ByteAt(at + 3)>>
                  = <<"r", "n", "r", "n">>
           Hits == {at \in ScanFrom(total, n)..(total - 4) : IsBlank(at)}
<1>2. /\ ScanFrom(total, n) \in Nat /\ ScanFrom(total, n) <= rqScript[k].head
  BY <1>1 DEF ScanFrom
<1>3. ASSUME NEW at \in 0..(total - 4)
      PROVE  IsBlank(at) <=> at = rqScript[k].head
  <2>1. /\ at \in 0..(rqScript[k].head + 3 + rqScript[k].body)
        /\ at + 2 \in 0..(rqScript[k].head + 3 + rqScript[k].body)
        /\ at + 1 \in 0..(rqScript[k].head + 3 + rqScript[k].body)
        /\ at + 3 \in 0..(rqScript[k].head + 3 + rqScript[k].body)
        /\ at \in Nat
    BY <1>1
  <2>2. CASE at = rqScript[k].head
    <3>1. ByteAt(at) = "r"
      BY <2>1, <2>2, BytesAt
    <3>2. ByteAt(at + 1) = "n"
      BY <2>1, <2>2, BytesAt
    <3>3. ByteAt(at + 2) = "r"
      BY <2>1, <2>2, BytesAt
    <3>4. ByteAt(at + 3) = "n"
      BY <2>1, <2>2, BytesAt
    <3> QED
      BY <2>2, <3>1, <3>2, <3>3, <3>4
  <2>3. CASE at = rqScript[k].head + 2
    <3>1. at + 2 > rqScript[k].head + 3
      BY <1>1, <2>3
    <3>2. ByteAt(at + 2) = "b"
      BY <2>1, <3>1, BytesAt
    <3> QED
      BY <1>1, <2>3, <3>2
  <2>4. CASE at # rqScript[k].head /\ at # rqScript[k].head + 2
    <3>1. ByteAt(at) \in {"h", "c", "n", "b"}
      <4>1. \/ at < rqScript[k].head \/ at = rqScript[k].head + 1
            \/ at = rqScript[k].head + 3 \/ at > rqScript[k].head + 3
        BY <1>1, <2>1, <2>4
      <4> QED
        BY <2>1, <4>1, BytesAt
    <3> QED
      BY <2>4, <3>1
  <2> QED
    BY <2>2, <2>3, <2>4
<1> HIDE DEF IsBlank
<1>4. Hits = IF total >= rqScript[k].head + 4 THEN {rqScript[k].head} ELSE {}
  BY <1>1, <1>2, <1>3
<1>5. BlankLines(total, n) = {at + 4 : at \in Hits}
  BY DEF BlankLines, IsBlank
<1> HIDE DEF Hits
<1> QED
  BY <1>1, <1>4, <1>5

\* The Content-Length that is read is the request's own.
LEMMA DeclaredIs ==
  ASSUME rqScript \in RqScripts, NEW k \in DOMAIN rqScript, rqStart = End(k - 1)
  PROVE  Declared(rqScript[k].head + 4) =
            IF rqScript[k].declares THEN rqScript[k].body ELSE -1
<1>1. /\ rqScript[k].head \in Nat \ {0} /\ rqScript[k].body \in Nat /\ rqStart \in Nat
      /\ rqScript[k].declares => rqScript[k].head > 1
  BY RequestsAdjoin
<1> DEFINE lines == {at \in 0..(rqScript[k].head + 3) : ByteAt(at) = "c"}
<1>2. ASSUME NEW at \in 0..(rqScript[k].head + 3)
      PROVE  ByteAt(at) = "c" <=> at = 1 /\ rqScript[k].declares
  <2>1. at \in 0..(rqScript[k].head + 3 + rqScript[k].body) /\ at \in Nat
    BY <1>1
  <2>2. CASE at < rqScript[k].head
    BY <2>1, <2>2, BytesAt
  <2>3. CASE at >= rqScript[k].head
    <3>1. \/ at = rqScript[k].head \/ at = rqScript[k].head + 1
          \/ at = rqScript[k].head + 2 \/ at = rqScript[k].head + 3
      BY <1>1, <2>1, <2>3
    <3>2. ByteAt(at) \in {"r", "n"}
      BY <2>1, <3>1, BytesAt
    <3> QED
      BY <1>1, <2>1, <2>3, <3>2
  <2> QED
    BY <1>1, <2>1, <2>2, <2>3
<1>3. lines = IF rqScript[k].declares THEN {1} ELSE {}
  BY <1>1, <1>2
<1>4. Declared(rqScript[k].head + 4) =
         IF lines = {} THEN -1 ELSE rqScript[Owner(rqStart + Min(lines) + 1)].body
  <2>1. (rqScript[k].head + 4) - 1 = rqScript[k].head + 3
    BY <1>1
  <2> QED
    BY <2>1 DEF Declared
<1> HIDE DEF lines
<1>5. CASE rqScript[k].declares
  <2>1. Min(lines) = 1
    BY <1>3, <1>5, MinOfOne
  <2>2. 1 \in 0..(rqScript[k].head + 3 + rqScript[k].body)
    BY <1>1
  <2>3. Owner(rqStart + 1 + 1) = k
    BY <2>2, BytesAt
  <2> QED
    BY <1>3, <1>4, <1>5, <2>1, <2>3
<1>6. CASE ~rqScript[k].declares
  BY <1>3, <1>4, <1>6
<1> QED
  BY <1>5, <1>6

\* Whatever the window holds, a length is read from a request of the client.
LEMMA DeclaredType ==
  ASSUME rqScript \in RqScripts, rqStart \in Nat, NEW headEnd \in Nat,
         rqStart + headEnd <= WireLen
  PROVE  Declared(headEnd) \in 0..RqIntMax \cup {-1}
<1> DEFINE lines == {at \in 0..(headEnd - 1) : ByteAt(at) = "c"}
<1>1. CASE lines = {}
  BY <1>1 DEF Declared
<1>2. CASE lines # {}
  <2>1. lines \subseteq Nat
    OBVIOUS
  <2>2. Min(lines) \in lines
    BY <1>2, <2>1, MinIn
  <2>3. rqStart + Min(lines) + 1 \in 1..WireLen
    BY <2>2, WireEnds
  <2>4. rqScript[Owner(rqStart + Min(lines) + 1)].body \in 0..RqIntMax
    BY <2>3, OwnerExists, RequestsAdjoin
  <2> QED
    BY <1>2, <2>4 DEF Declared
<1> QED
  BY <1>1, <1>2

\* The sum of two ints is their sum, or less than the difference to the least.
LEMMA IntSumIs ==
  ASSUME NEW x \in 0..RqIntMax, NEW y \in 0..RqIntMax
  PROVE  /\ x + y <= RqIntMax => IntSum(x, y) = x + y
         /\ x + y > RqIntMax => IntSum(x, y) \in (-(RqIntMax + 1))..(-1)
  BY RqAssumption DEF IntSum

-----------------------------------------------------------------------------
(* The calls *)

\* A call that reads has returned nothing yet, and has room for the headers
\* until it has seen their end, which is within what it has read.
RqCalls ==
    /\ rqPc = "recv" => Len(rqGot) = rqReplies
    /\ rqPc = "handling" => Len(rqGot) = rqReplies + 1
    /\ rqHeadEnd < 0 => rqNeeded = -1 /\ rqRoom = RqCap
    /\ rqHeadEnd >= 0 => /\ rqNeeded < 0 \/ rqNeeded >= rqHeadEnd
                         /\ rqStart + rqHeadEnd <= rqRead

RqTyped == RqTypeOK /\ RqCalls

\* What the calls rest on in every step: the wire does not change.
LEMMA WireStays ==
  ASSUME RqTypeOK, rqScript' = rqScript
  PROVE  /\ WireLen' = WireLen
         /\ \A k : Whole(k)' = Whole(k) /\ BodyOf(k)' = BodyOf(k) /\ End(k)' = End(k)
<1>1. WireLen' = WireLen
  BY DEF WireLen
<1>2. ASSUME NEW k
      PROVE  Whole(k)' = Whole(k) /\ End(k)' = End(k)
  BY DEF Whole, End
<1>3. ASSUME NEW k
      PROVE  BodyOf(k)' = BodyOf(k)
  BY DEF BodyOf, Char, Owner, Whole
<1> QED
  BY <1>1, <1>2, <1>3

\* A call goes on, or returns bytes that have arrived.
LEMMA GoesOnTyped ==
  ASSUME RqTyped, rqPc = "recv", NEW n \in Nat \ {0}, rqRead + n <= rqSent,
         NEW headEnd \in 4..RqCap, headEnd <= rqRead - rqStart + n,
         NEW needed \in (-(RqIntMax + 1))..(-1) \cup 4..RqMax,
         needed < 0 \/ needed >= headEnd,
         NEW room \in {RqCap} \cup RqCap..RqMax, NEW enough,
         GoesOn(headEnd, needed, room, rqRead - rqStart + n, enough),
         rqRead' = rqRead + n, UNCHANGED <<clientVars, rqReplies>>
  PROVE  RqTyped'
<1> DEFINE total == rqRead - rqStart + n
<1>1. /\ rqScript \in RqScripts /\ rqStart \in Nat /\ rqRead \in Nat
      /\ rqStart <= rqRead /\ rqSent \in Nat /\ rqSent <= WireLen /\ WireLen \in Nat
      /\ RqCap \in Nat /\ RqMax \in Nat
  BY RqAssumption, WireEnds DEF RqTyped, RqTypeOK
<1>2. total \in Nat /\ rqStart + total = rqRead + n /\ rqStart + total <= WireLen
  BY <1>1
<1>3. WireLen' = WireLen
  BY WireStays DEF clientVars, RqTyped
<1>4. /\ rqScript' = rqScript /\ rqSent' = rqSent /\ rqEof' = rqEof
      /\ rqPipelined' = rqPipelined /\ rqReplies' = rqReplies
      /\ rqStart' = rqStart /\ rqHeadEnd' = headEnd /\ rqNeeded' = needed
      /\ rqRoom' = room /\ rqStart' + rqHeadEnd' <= rqRead'
  <2>1. /\ UNCHANGED <<clientVars, rqReplies, rqStart>>
        /\ rqHeadEnd' = headEnd /\ rqNeeded' = needed /\ rqRoom' = room
    BY DEF GoesOn
  <2>2. rqStart + headEnd <= rqRead + n
    BY <1>1, <1>2
  <2> QED
    BY <2>1, <2>2 DEF clientVars
<1> HIDE DEF total
<1>5. CASE ~enough
  <2>1. rqPc' = rqPc /\ rqGot' = rqGot
    BY <1>5 DEF GoesOn
  <2> QED
    BY <1>1, <1>3, <1>4, <2>1 DEF RqTyped, RqTypeOK, RqCalls
<1>6. CASE enough
  <2> DEFINE raw == (rqStart + 1)..(rqStart + total)
             body == ParsedBody(headEnd, total)
  <2>1. rqPc' = "handling" /\ rqGot' = Append(rqGot, [raw |-> raw, body |-> body])
    BY <1>6 DEF GoesOn, total
  <2>2. raw \subseteq 1..WireLen
    BY <1>1, <1>2
  <2>3. body \subseteq 1..WireLen
    <3>1. rqStart + headEnd <= WireLen /\ headEnd \in Nat
      BY <1>1, <1>2 DEF total
    <3>2. Declared(headEnd) \in Int
      BY <1>1, <3>1, DeclaredType, RqAssumption
    <3>3. ASSUME NEW at \in (headEnd + 1)..total
          PROVE  rqStart + at \in 1..WireLen
      BY <1>1, <1>2, <3>1
    <3>4. body \subseteq {rqStart + at : at \in (headEnd + 1)..total}
      BY <1>1, <1>2, <3>1, <3>2 DEF ParsedBody
    <3> QED
      BY <3>3, <3>4
  <2>4. rqGot \in Seq([raw : SUBSET (1..WireLen), body : SUBSET (1..WireLen)])
    BY DEF RqTyped, RqTypeOK
  <2> HIDE DEF raw, body
  <2>5. /\ rqGot' \in Seq([raw : SUBSET (1..WireLen), body : SUBSET (1..WireLen)])
        /\ Len(rqGot') = Len(rqGot) + 1 /\ Len(rqGot) \in Nat
    BY <2>1, <2>2, <2>3, <2>4
  <2>6. Len(rqGot) = rqReplies /\ rqReplies \in Nat
    BY DEF RqTyped, RqTypeOK, RqCalls
  <2> QED
    BY <1>1, <1>3, <1>4, <2>1, <2>5, <2>6 DEF RqTyped, RqTypeOK, RqCalls
<1> QED
  BY <1>5, <1>6

\* Each step keeps the types.
LEMMA RqTypedNext == RqTyped /\ [RqNext]_rqVars => RqTyped'
<1> SUFFICES ASSUME RqTyped, [RqNext]_rqVars
             PROVE  RqTyped'
  OBVIOUS
<1>1. /\ rqScript \in RqScripts /\ rqStart \in Nat /\ rqRead \in Nat
      /\ rqStart <= rqRead /\ rqRead <= rqSent /\ rqSent \in Nat
      /\ rqSent <= WireLen /\ WireLen \in Nat
      /\ rqHeadEnd \in {-1} \cup 4..RqCap
      /\ rqNeeded \in (-(RqIntMax + 1))..(-1) \cup 4..RqMax
      /\ rqRoom \in {RqCap} \cup RqCap..RqMax /\ rqReplies \in Nat
      /\ rqGot \in Seq([raw : SUBSET (1..WireLen), body : SUBSET (1..WireLen)])
      /\ Len(rqGot) \in Nat /\ rqReplies <= Len(rqGot)
      /\ RqCap \in Nat /\ RqMax \in Nat /\ RqIntMax \in Nat
      /\ 4 < RqCap /\ RqCap <= RqIntMax /\ RqMax <= RqIntMax
  BY RqAssumption, WireEnds DEF RqTyped, RqTypeOK
<1>2. rqScript' = rqScript => WireLen' = WireLen
  BY WireStays DEF RqTyped
<1>3. ASSUME NEW n \in 1..WireLen, RqSend(n)
      PROVE  RqTyped'
  BY <1>1, <1>2, <1>3 DEF RqSend, RqTyped, RqTypeOK, RqCalls, callVars
<1>4. ASSUME RqHangUp
      PROVE  RqTyped'
  BY <1>1, <1>2, <1>4 DEF RqHangUp, RqTyped, RqTypeOK, RqCalls, callVars
<1>5. ASSUME RqRecvFails
      PROVE  RqTyped'
  BY <1>1, <1>2, <1>5 DEF RqRecvFails, GivesUp, RqTyped, RqTypeOK, RqCalls, clientVars
<1>6. ASSUME NEW keep \in BOOLEAN, RqRespond(keep)
      PROVE  RqTyped'
  <2>1. CASE keep
    BY <1>1, <1>2, <1>6, <2>1
    DEF RqRespond, Fresh, RqTyped, RqTypeOK, RqCalls, clientVars
  <2>2. CASE ~keep
    BY <1>1, <1>2, <1>6, <2>2
    DEF RqRespond, RqTyped, RqTypeOK, RqCalls, clientVars, callVars
  <2> QED
    BY <2>1, <2>2
<1>7. ASSUME NEW n \in 1..WireLen, RqRecv(n)
      PROVE  RqTyped'
  <2> DEFINE total == rqRead - rqStart + n
             found == BlankLines(total, n)
  <2>1. /\ rqPc = "recv" /\ rqRead + n <= rqSent /\ total <= Target
        /\ rqRead' = rqRead + n /\ UNCHANGED <<clientVars, rqReplies>>
    BY <1>7 DEF RqRecv
  <2>2. /\ total \in Nat /\ rqStart + total <= WireLen /\ n \in Nat \ {0}
        /\ rqScript' = rqScript /\ rqSent' = rqSent
    BY <1>1, <2>1 DEF clientVars
  <2>3. CASE rqHeadEnd >= 0
    <3>1. GoesOn(rqHeadEnd, rqNeeded, rqRoom, total, total >= Target)
      BY <1>1, <1>7, <2>3 DEF RqRecv
    <3>2. /\ rqHeadEnd \in 4..RqCap /\ rqHeadEnd <= total
          /\ rqNeeded < 0 \/ rqNeeded >= rqHeadEnd
      BY <1>1, <2>2, <2>3 DEF RqTyped, RqCalls
    <3> QED
      BY <1>1, <2>1, <2>2, <3>1, <3>2, GoesOnTyped
  <2>4. CASE rqHeadEnd < 0
    <3>1. rqNeeded = -1 /\ rqRoom = RqCap /\ total <= RqCap
      BY <1>1, <2>1, <2>4 DEF RqTyped, RqCalls, Target
    <3>2. found \subseteq 4..total
      <4>1. ScanFrom(total, n) \in Nat
        BY <2>2 DEF ScanFrom
      <4> QED
        BY <2>2, <4>1 DEF BlankLines
    <3>3. ASSUME found # {}
          PROVE  /\ Min(found) \in 4..total
                 /\ \/ NeededFor(Min(found)) \in (-(RqIntMax + 1))..(-1)
                    \/ /\ NeededFor(Min(found)) \in Nat
                       /\ NeededFor(Min(found)) >= Min(found)
      <4>1. Min(found) \in 4..total
        <5>1. found \subseteq Nat
          BY <2>2, <3>2
        <5> QED
          BY <3>2, <3>3, <5>1, MinIn
      <4>2. Declared(Min(found)) \in 0..RqIntMax \cup {-1}
        BY <1>1, <2>2, <4>1, DeclaredType
      <4> DEFINE h == Min(found)
                 b == IF Declared(h) < 0 THEN 0 ELSE Declared(h)
      <4>3. NeededFor(h) = IntSum(h, b)
        BY DEF NeededFor
      <4>4. b \in 0..RqIntMax /\ h \in 0..RqIntMax /\ h \in 4..total
        BY <1>1, <3>1, <4>1, <4>2
      <4> HIDE DEF h, b
      <4>5. /\ h + b <= RqIntMax => IntSum(h, b) = h + b
            /\ h + b > RqIntMax => IntSum(h, b) \in (-(RqIntMax + 1))..(-1)
        BY <4>4, IntSumIs
      <4>6. \/ NeededFor(h) \in (-(RqIntMax + 1))..(-1)
            \/ NeededFor(h) \in Nat /\ NeededFor(h) >= h
        BY <1>1, <4>3, <4>4, <4>5
      <4> QED
        BY <4>1, <4>6 DEF h
    <3>4. rqHeadEnd \in Int /\ RqMax \in Nat /\ RqCap \in Nat /\ total \in Nat
      BY <1>1, <2>2
    <3> DEFINE needed == NeededFor(Min(found))
               room == IF needed > rqRoom THEN needed ELSE rqRoom
    <3> HIDE DEF found, total
    <3>5. CASE found # {} /\ NeededFor(Min(found)) <= RqMax
      <4>1. PICK enough \in Enough(needed, room, total) :
               GoesOn(Min(found), needed, room, total, enough)
        BY <1>7, <2>4, <3>3, <3>4, <3>5 DEF RqRecv, found, total
      <4>2. /\ Min(found) \in 4..RqCap /\ Min(found) <= total
            /\ needed \in (-(RqIntMax + 1))..(-1) \cup 4..RqMax
            /\ needed < 0 \/ needed >= Min(found)
        BY <1>1, <2>2, <3>1, <3>3, <3>4, <3>5
      <4>3. room \in {RqCap} \cup RqCap..RqMax
        BY <1>1, <3>1, <4>2
      <4> HIDE DEF needed, room
      <4> QED
        BY <2>1, <2>2, <4>1, <4>2, <4>3, GoesOnTyped DEF total
    <3>6. CASE ~(found # {} /\ NeededFor(Min(found)) <= RqMax)
      <4>1. /\ rqPc' = rqPc \/ rqPc' = "closed"
            /\ UNCHANGED <<rqStart, rqHeadEnd, rqNeeded, rqRoom, rqGot>>
        BY <1>7, <2>4, <3>3, <3>4, <3>6 DEF RqRecv, GivesUp, found, total
      <4> QED
        BY <1>1, <1>2, <2>1, <2>2, <4>1 DEF RqTyped, RqTypeOK, RqCalls, clientVars
    <3> QED
      BY <3>5, <3>6
  <2> QED
    BY <1>1, <2>3, <2>4
<1>8. ASSUME UNCHANGED rqVars
      PROVE  RqTyped'
  BY <1>2, <1>8 DEF rqVars, clientVars, callVars, RqTyped, RqTypeOK, RqCalls
<1> QED
  BY <1>3, <1>4, <1>5, <1>6, <1>7, <1>8 DEF RqNext

\* The first state is typed.
LEMMA RqTypedInit == RqInit => RqTyped
<1> SUFFICES ASSUME RqInit PROVE RqTyped
  OBVIOUS
<1>1. /\ WireLen \in Nat /\ RqCap \in Nat /\ RqMax \in Nat /\ 4 < RqCap
      /\ RqIntMax \in Nat
  BY RqAssumption, WireEnds DEF RqInit
<1>2. rqGot \in Seq([raw : SUBSET (1..WireLen), body : SUBSET (1..WireLen)])
  BY DEF RqInit
<1>3. Len(rqGot) = 0
  BY DEF RqInit
<1>4. /\ rqScript \in RqScripts /\ rqSent = 0 /\ rqEof = FALSE /\ rqPipelined = FALSE
      /\ rqPc = "recv" /\ rqStart = 0 /\ rqRead = 0 /\ rqHeadEnd = -1
      /\ rqNeeded = -1 /\ rqRoom = RqCap /\ rqReplies = 0
  BY DEF RqInit
<1>5. RqTypeOK
  <2>1. /\ rqScript \in RqScripts /\ rqEof \in BOOLEAN /\ rqPipelined \in BOOLEAN
        /\ rqPc \in {"recv", "handling", "closed"}
    BY <1>4
  <2>2. rqSent \in 0..WireLen /\ rqRead \in 0..rqSent /\ rqStart \in 0..rqRead
    BY <1>1, <1>4
  <2>3. /\ rqHeadEnd \in {-1} \cup 4..RqCap
        /\ rqNeeded \in (-(RqIntMax + 1))..(-1) \cup 4..RqMax
        /\ rqRoom \in {RqCap} \cup RqCap..RqMax
    BY <1>1, <1>4
  <2>4. rqReplies \in 0..Len(rqGot)
    BY <1>3, <1>4
  <2> QED
    BY <1>2, <2>1, <2>2, <2>3, <2>4 DEF RqTypeOK
<1>6. RqCalls
  BY <1>3, <1>4 DEF RqCalls
<1> QED
  BY <1>5, <1>6 DEF RqTyped

\* Every window lies within the bytes that have arrived and every call returns
\* such bytes, in a buffer between its own and the largest, whatever the client
\* sends and announces and however it is cut.
THEOREM RecvTypes == RqSpec => []RqTypeOK
<1>1. RqTyped => RqTypeOK
  BY DEF RqTyped
<1> QED
  BY <1>1, RqTypedInit, RqTypedNext, PTL DEF RqSpec

-----------------------------------------------------------------------------
(* Client and server in step *)

\* The lengths of request k up to its body, and whole.
HeadOf(k) == rqScript[k].head + 4
LenOf(k) == Size(rqScript[k])

\* Where a request, its headers and its body are.
LEMMA Lengths ==
  ASSUME rqScript \in RqScripts, NEW k \in DOMAIN rqScript
  PROVE  /\ HeadOf(k) \in Nat /\ 4 < HeadOf(k)
         /\ LenOf(k) \in Nat /\ HeadOf(k) <= LenOf(k)
         /\ End(k - 1) \in Nat /\ End(k) \in Nat /\ End(k) = End(k - 1) + LenOf(k)
         /\ Whole(k) = (End(k - 1) + 1)..End(k)
         /\ BodyOf(k) = (End(k - 1) + HeadOf(k) + 1)..End(k)
<1> DEFINE H == rqScript[k].head
           B == rqScript[k].body
<1>1. /\ H \in Nat \ {0} /\ B \in Nat /\ End(k - 1) \in Nat /\ End(k) \in Nat
      /\ End(k) = End(k - 1) + H + 4 + B
      /\ Whole(k) = (End(k - 1) + 1)..End(k)
      /\ BodyOf(k) = (End(k - 1) + H + 5)..End(k)
  BY RequestsAdjoin, BodyIs
<1>2. HeadOf(k) = H + 4 /\ LenOf(k) = H + 4 + B
  BY DEF HeadOf, LenOf, Size
<1> HIDE DEF H, B
<1>3. HeadOf(k) \in Nat /\ 4 < HeadOf(k) /\ LenOf(k) \in Nat /\ HeadOf(k) <= LenOf(k)
  BY <1>1, <1>2
<1>4. End(k) = End(k - 1) + LenOf(k)
  BY <1>1, <1>2
<1>5. BodyOf(k) = (End(k - 1) + HeadOf(k) + 1)..End(k)
  BY <1>1, <1>2
<1> QED
  BY <1>1, <1>3, <1>4, <1>5

\* In a window that begins with request k the scan finds the end of its headers,
\* and from them its length, if that is an int.
LEMMA ScanOfRequest ==
  ASSUME rqScript \in RqScripts, NEW k \in DOMAIN rqScript, rqStart = End(k - 1)
  PROVE  /\ \A total, n \in Nat :
               n <= total /\ total <= LenOf(k) /\ total - n < HeadOf(k) =>
               BlankLines(total, n) =
                  IF total >= HeadOf(k) THEN {HeadOf(k)} ELSE {}
         /\ Declared(HeadOf(k)) \in Int
         /\ IF Declared(HeadOf(k)) >= 0 THEN LenOf(k) = HeadOf(k) + Declared(HeadOf(k))
            ELSE LenOf(k) = HeadOf(k)
         /\ LenOf(k) <= RqIntMax => NeededFor(HeadOf(k)) = LenOf(k)
<1>1. /\ HeadOf(k) = rqScript[k].head + 4
      /\ LenOf(k) = rqScript[k].head + 4 + rqScript[k].body
  BY DEF HeadOf, LenOf, Size
<1>2. ASSUME NEW total \in Nat, NEW n \in Nat,
             n <= total, total <= LenOf(k), total - n < HeadOf(k)
      PROVE  BlankLines(total, n) = IF total >= HeadOf(k) THEN {HeadOf(k)} ELSE {}
  BY <1>1, <1>2, ScanFinds
<1>3. /\ rqScript[k].head \in Nat /\ rqScript[k].body \in Nat
      /\ rqScript[k].declares \in BOOLEAN
      /\ ~rqScript[k].declares => rqScript[k].body = 0
  BY RequestsAdjoin
<1>4. Declared(HeadOf(k)) = IF rqScript[k].declares THEN rqScript[k].body ELSE -1
  BY <1>1, DeclaredIs
<1> DEFINE b == IF Declared(HeadOf(k)) < 0 THEN 0 ELSE Declared(HeadOf(k))
<1>7. /\ b = rqScript[k].body /\ LenOf(k) = HeadOf(k) + b
      /\ HeadOf(k) \in Nat /\ b \in Nat
  BY <1>1, <1>3, <1>4
<1>8. LenOf(k) <= RqIntMax => NeededFor(HeadOf(k)) = LenOf(k)
  <2> SUFFICES ASSUME LenOf(k) <= RqIntMax
               PROVE  NeededFor(HeadOf(k)) = LenOf(k)
    OBVIOUS
  <2>1. NeededFor(HeadOf(k)) = IntSum(HeadOf(k), b)
    BY DEF NeededFor
  <2> HIDE DEF b
  <2>2. IntSum(HeadOf(k), b) = HeadOf(k) + b
    BY <1>7, RqAssumption DEF IntSum
  <2> QED
    BY <1>7, <2>1, <2>2
<1>5. CASE rqScript[k].declares
  <2>1. Declared(HeadOf(k)) = rqScript[k].body
    BY <1>4, <1>5
  <2>2. /\ Declared(HeadOf(k)) \in Nat
        /\ LenOf(k) = HeadOf(k) + Declared(HeadOf(k))
    BY <1>1, <1>3, <2>1
  <2> QED
    BY <1>2, <1>8, <2>2
<1>6. CASE ~rqScript[k].declares
  <2>1. Declared(HeadOf(k)) = -1 /\ rqScript[k].body = 0
    BY <1>3, <1>4, <1>6
  <2>2. LenOf(k) = HeadOf(k) /\ HeadOf(k) \in Nat
    BY <1>1, <1>3, <2>1
  <2> QED
    BY <1>2, <1>8, <2>1, <2>2
<1> QED
  BY <1>5, <1>6

\* The last byte a client may send that waits for its responses.
Allowed == End(IF rqReplies < Len(rqScript) THEN rqReplies + 1 ELSE rqReplies)

\* The window of a call that reads begins with the request after the last that
\* was answered and does not hold all of it; what the call knows is about it.
RqWindow ==
    /\ rqStart = End(rqReplies)
    /\ rqReplies < Len(rqScript) =>
          IF rqHeadEnd < 0 THEN rqRead < rqStart + HeadOf(rqReplies + 1)
          ELSE /\ rqHeadEnd = HeadOf(rqReplies + 1)
               /\ rqNeeded = LenOf(rqReplies + 1)
               /\ rqRead < rqStart + rqNeeded

\* What every call returned, and where the next is, as long as the client waits
\* and the length of each request is an int.
RqInStep ==
    /\ Len(rqGot) <= Len(rqScript)
    /\ rqSent <= Allowed
    /\ \A n \in DOMAIN rqGot : rqGot[n].raw = Whole(n) /\ rqGot[n].body = BodyOf(n)
    /\ rqPc = "handling" => rqRead = End(rqReplies + 1)
    /\ rqPc = "recv" => RqWindow

RqInv == RqTyped /\ (~rqPipelined /\ Representable => RqInStep)

\* A call that reads of a client that waits is within one request.
LEMMA OneRequest ==
  ASSUME RqTyped, RqInStep, rqPc = "recv", NEW n \in Nat \ {0}, rqRead + n <= rqSent,
         NEW k, k = rqReplies + 1
  PROVE  /\ k \in DOMAIN rqScript /\ k - 1 = rqReplies /\ rqReplies < Len(rqScript)
         /\ rqStart = End(k - 1) /\ rqStart \in Nat /\ rqRead \in Nat
         /\ rqStart <= rqRead
         /\ rqRead - rqStart + n \in Nat /\ rqRead - rqStart + n <= LenOf(k)
<1>1. /\ rqScript \in RqScripts /\ rqStart \in Nat /\ rqRead \in Nat /\ rqStart <= rqRead
      /\ rqSent \in Nat /\ rqReplies \in Nat /\ Len(rqScript) \in Nat
      /\ DOMAIN rqScript = 1..Len(rqScript) /\ rqStart = End(rqReplies)
      /\ rqSent <= Allowed
  BY WireEnds DEF RqTyped, RqTypeOK, RqInStep, RqWindow
<1>2. rqReplies < Len(rqScript)
  <2> SUFFICES ASSUME ~(rqReplies < Len(rqScript)) PROVE FALSE
    OBVIOUS
  <2>1. Allowed = End(rqReplies)
    BY DEF Allowed
  <2> QED
    BY <1>1, <2>1
<1>3. k \in DOMAIN rqScript /\ k - 1 = rqReplies
  BY <1>1, <1>2
<1>4. Allowed = End(k)
  BY <1>2 DEF Allowed
<1>5. LenOf(k) \in Nat /\ End(k) \in Nat /\ End(k) = End(k - 1) + LenOf(k)
  BY <1>1, <1>3, Lengths
<1>6. rqRead - rqStart + n \in Nat /\ rqRead - rqStart + n <= LenOf(k)
  <2>1. /\ rqStart \in Nat /\ rqRead \in Nat /\ rqStart <= rqRead
        /\ rqRead + n <= rqStart + LenOf(k) /\ LenOf(k) \in Nat
    <3>1. rqRead + n <= End(k)
      BY <1>1, <1>4, <1>5
    <3>2. End(k) = rqStart + LenOf(k)
      BY <1>1, <1>3, <1>5
    <3> QED
      BY <1>1, <1>5, <3>1, <3>2
  <2> QED
    BY <2>1
<1> QED
  BY <1>1, <1>2, <1>3, <1>6

\* A call that knows its request goes on, or returns exactly that.
LEMMA GoesOnInStep ==
  ASSUME RqTyped, RqInStep, rqPc = "recv",
         NEW k \in DOMAIN rqScript, k = rqReplies + 1, rqReplies < Len(rqScript),
         NEW total \in Nat, total <= LenOf(k), rqRead' = rqStart + total, NEW room,
         GoesOn(HeadOf(k), LenOf(k), room, total, total >= LenOf(k)), UNCHANGED <<clientVars, rqReplies>>
  PROVE  RqInStep'
<1>1. rqStart = End(k - 1) /\ rqReplies \in Nat /\ rqStart \in Nat /\ k - 1 = rqReplies
  <2>1. rqReplies \in Nat /\ rqStart \in Nat /\ rqStart = End(rqReplies)
    BY DEF RqTyped, RqTypeOK, RqInStep, RqWindow
  <2> QED
    BY <2>1
<1>2. /\ rqScript \in RqScripts /\ Len(rqGot) = rqReplies /\ Len(rqGot) \in Nat
      /\ rqGot \in Seq([raw : SUBSET (1..WireLen), body : SUBSET (1..WireLen)])
      /\ Len(rqGot) <= Len(rqScript) /\ rqSent <= Allowed
      /\ \A j \in DOMAIN rqGot : rqGot[j].raw = Whole(j) /\ rqGot[j].body = BodyOf(j)
  BY DEF RqTyped, RqTypeOK, RqCalls, RqInStep
<1>3. /\ Len(rqScript) \in Nat /\ HeadOf(k) \in Nat /\ LenOf(k) \in Nat
      /\ HeadOf(k) <= LenOf(k) /\ End(k) \in Nat /\ End(k) = rqStart + LenOf(k)
      /\ Whole(k) = (rqStart + 1)..End(k)
      /\ BodyOf(k) = (rqStart + HeadOf(k) + 1)..End(k)
  BY <1>1, <1>2, Lengths, WireEnds
<1>4. /\ rqScript' = rqScript /\ rqSent' = rqSent /\ rqReplies' = rqReplies
      /\ rqStart' = rqStart
  BY DEF clientVars, GoesOn
<1>5. \A j : /\ Whole(j)' = Whole(j) /\ BodyOf(j)' = BodyOf(j) /\ End(j)' = End(j)
             /\ HeadOf(j)' = HeadOf(j) /\ LenOf(j)' = LenOf(j)
  BY <1>4, WireStays DEF RqTyped, HeadOf, LenOf
<1>6. Allowed' = Allowed
  BY <1>4 DEF Allowed, End
<1>7. CASE total < LenOf(k)
  <2>1. /\ rqPc' = rqPc /\ rqGot' = rqGot
        /\ rqHeadEnd' = HeadOf(k) /\ rqNeeded' = LenOf(k)
    BY <1>3, <1>7 DEF GoesOn
  <2>2. rqRead' < rqStart' + rqNeeded'
    <3>1. rqStart \in Nat /\ LenOf(k) \in Nat /\ rqStart' = rqStart
      BY <1>1, <1>3, <1>4
    <3> QED
      BY <1>7, <2>1, <3>1
  <2>3. /\ End(rqReplies)' = End(rqReplies)
        /\ HeadOf(rqReplies + 1)' = HeadOf(k) /\ LenOf(rqReplies + 1)' = LenOf(k)
    BY <1>4 DEF End, HeadOf, LenOf
  <2>4. rqStart' = End(rqReplies)'
    BY <1>1, <1>4, <2>3
  <2>5. ~(rqHeadEnd' < 0)
    BY <1>3, <2>1
  <2>6. RqWindow'
    BY <1>4, <2>1, <2>2, <2>3, <2>4, <2>5 DEF RqWindow
  <2> QED
    BY <1>2, <1>4, <1>5, <1>6, <2>1, <2>6 DEF RqInStep
<1>8. CASE total >= LenOf(k)
  <2> DEFINE raw == (rqStart + 1)..(rqStart + total)
             body == ParsedBody(HeadOf(k), total)
  <2>1. rqPc' = "handling" /\ rqGot' = Append(rqGot, [raw |-> raw, body |-> body])
    BY <1>8 DEF GoesOn
  <2>2. total = LenOf(k) /\ rqStart + total = End(k)
    BY <1>3, <1>8
  <2>3. raw = Whole(k)
    BY <1>3, <2>2
  <2>4. body = BodyOf(k)
    <3>1. /\ Declared(HeadOf(k)) \in Int
          /\ IF Declared(HeadOf(k)) >= 0
             THEN LenOf(k) = HeadOf(k) + Declared(HeadOf(k))
             ELSE LenOf(k) = HeadOf(k)
      BY <1>1, <1>2, ScanOfRequest
    <3>2. body = {rqStart + at : at \in (HeadOf(k) + 1)..total}
      BY <1>3, <2>2, <3>1 DEF ParsedBody
    <3> DEFINE h == HeadOf(k)
    <3>3. h \in Nat /\ rqStart \in Nat
      BY <1>1, <1>3
    <3> HIDE DEF h
    <3>4. ASSUME NEW byte \in (rqStart + h + 1)..(rqStart + total)
          PROVE  \E at \in (h + 1)..total : byte = rqStart + at
      <4>1. byte - rqStart \in (h + 1)..total
        BY <3>3
      <4>2. byte = rqStart + (byte - rqStart)
        BY <3>3
      <4> QED
        BY <4>1, <4>2
    <3>5. ASSUME NEW at \in (h + 1)..total
          PROVE  rqStart + at \in (rqStart + h + 1)..(rqStart + total)
      BY <3>3
    <3>6. {rqStart + at : at \in (h + 1)..total} = (rqStart + h + 1)..(rqStart + total)
      BY <3>4, <3>5
    <3> QED
      BY <1>3, <2>2, <3>2, <3>6 DEF h
  <2> HIDE DEF raw, body
  <2>5. /\ Len(rqGot') = Len(rqGot) + 1 /\ DOMAIN rqGot' = 1..(Len(rqGot) + 1)
        /\ \A j \in 1..Len(rqGot) : rqGot'[j] = rqGot[j]
        /\ rqGot'[Len(rqGot) + 1] = [raw |-> raw, body |-> body]
    BY <1>2, <2>1
  <2>6. \A j \in DOMAIN rqGot' : rqGot'[j].raw = Whole(j) /\ rqGot'[j].body = BodyOf(j)
    <3> SUFFICES ASSUME NEW j \in DOMAIN rqGot'
                 PROVE  rqGot'[j].raw = Whole(j) /\ rqGot'[j].body = BodyOf(j)
      OBVIOUS
    <3>1. CASE j \in 1..Len(rqGot)
      <4>1. j \in DOMAIN rqGot
        BY <1>2, <3>1
      <4> QED
        BY <1>2, <2>5, <3>1, <4>1
    <3>2. CASE j = Len(rqGot) + 1
      BY <1>2, <2>3, <2>4, <2>5, <3>2
    <3> QED
      BY <1>2, <2>5, <3>1, <3>2
  <2>7. rqRead' = End(k)
    BY <2>2
  <2>8. Len(rqGot') <= Len(rqScript)
    BY <1>2, <1>3, <2>5
  <2>9. End(rqReplies + 1)' = End(rqReplies + 1)
    BY <1>4 DEF End
  <2>10. rqPc' = "handling" => rqRead' = End(rqReplies + 1)'
    BY <2>7, <2>9
  <2>11. \A j \in DOMAIN rqGot' : rqGot'[j].raw = Whole(j)' /\ rqGot'[j].body = BodyOf(j)'
    BY <1>5, <2>6
  <2> QED
    BY <1>2, <1>4, <1>6, <2>1, <2>8, <2>10, <2>11 DEF RqInStep
<1> QED
  BY <1>3, <1>7, <1>8

\* As long as the client waits, it and the server stay in step.
LEMMA RqInvNext == RqInv /\ [RqNext]_rqVars => RqInv'
<1> SUFFICES ASSUME RqInv, [RqNext]_rqVars
             PROVE  RqInv'
  OBVIOUS
<1>1. RqTyped /\ RqTyped'
  BY RqTypedNext DEF RqInv
<1>2. /\ rqScript \in RqScripts /\ rqSent \in Nat /\ rqStart \in Nat /\ rqRead \in Nat
      /\ rqStart <= rqRead /\ rqRead <= rqSent /\ rqHeadEnd \in Int
      /\ rqReplies \in Nat /\ Len(rqGot) \in Nat /\ rqPipelined \in BOOLEAN
      /\ Len(rqScript) \in Nat /\ DOMAIN rqScript = 1..Len(rqScript)
      /\ RqCap \in Nat /\ RqMax \in Nat
  BY <1>1, RqAssumption, WireEnds DEF RqTyped, RqTypeOK
<1>3. rqScript' = rqScript => \A j : /\ Whole(j)' = Whole(j) /\ BodyOf(j)' = BodyOf(j)
                                     /\ End(j)' = End(j)
                                     /\ HeadOf(j)' = HeadOf(j) /\ LenOf(j)' = LenOf(j)
  BY <1>1, WireStays DEF RqTyped, HeadOf, LenOf
<1> SUFFICES ASSUME ~rqPipelined', Representable'
             PROVE  RqInStep'
  BY <1>1 DEF RqInv
<1>13. rqScript' = rqScript /\ Representable
  <2>1. rqScript' = rqScript
    BY DEF RqNext, RqSend, RqRecv, RqHangUp, RqRecvFails, RqRespond, clientVars, rqVars
  <2> QED
    BY <2>1 DEF Representable
<1>4. rqPipelined' = rqPipelined \/ \E n \in 1..WireLen : RqSend(n)
  BY DEF RqNext, RqRecv, RqHangUp, RqRecvFails, RqRespond, clientVars, rqVars
<1>5. ~rqPipelined
  BY <1>2, <1>4 DEF RqSend
<1>6. RqInStep
  BY <1>5, <1>13 DEF RqInv
<1>7. ASSUME NEW n \in 1..WireLen, RqSend(n)
      PROVE  RqInStep'
  <2>1. /\ rqScript' = rqScript /\ rqSent' = rqSent + n /\ rqSent' <= WireLen
        /\ ~(Owner(rqSent') > rqReplies + 1)
        /\ UNCHANGED <<rqPc, rqGot, rqReplies, rqStart, rqRead, rqHeadEnd, rqNeeded>>
    BY <1>7 DEF RqSend, callVars
  <2>2. rqSent' \in 1..WireLen /\ WireLen \in Nat
    BY <1>2, <2>1, WireEnds
  <2> DEFINE o == Owner(rqSent')
             top == IF rqReplies < Len(rqScript) THEN rqReplies + 1 ELSE rqReplies
  <2>3. o \in DOMAIN rqScript /\ rqSent' \in Whole(o)
    BY <1>2, <2>2, OwnerExists
  <2>4. /\ End(o) \in Nat /\ End(o - 1) \in Nat /\ Whole(o) = (End(o - 1) + 1)..End(o)
    BY <1>2, <2>3, Lengths
  <2>5. rqSent' <= End(o)
    BY <2>3, <2>4
  <2>6. rqReplies <= Len(rqScript)
    BY <1>1, <1>2, <1>6 DEF RqTyped, RqTypeOK, RqInStep
  <2>7. o \in 0..Len(rqScript) /\ top \in 0..Len(rqScript) /\ o <= top
    BY <1>2, <2>1, <2>3, <2>6
  <2>8. End(o) <= End(top) /\ End(top) \in Nat
    BY <1>2, <2>7, EndsOrdered
  <2> HIDE DEF o
  <2>9. rqSent' <= Allowed
    BY <2>2, <2>4, <2>5, <2>8 DEF Allowed
  <2>10. Allowed' = Allowed
    BY <2>1 DEF Allowed, End
  <2>11. RqWindow' <=> RqWindow
    BY <2>1 DEF RqWindow, End, HeadOf, LenOf
  <2>12. End(rqReplies + 1)' = End(rqReplies + 1)
    BY <2>1 DEF End
  <2> QED
    BY <1>3, <1>6, <2>1, <2>9, <2>10, <2>11, <2>12 DEF RqInStep
<1>8. ASSUME rqPc' = "closed", UNCHANGED <<clientVars, rqGot, rqReplies>>
      PROVE  RqInStep'
  <2>1. Allowed' = Allowed
    BY <1>8 DEF Allowed, End, clientVars
  <2> QED
    BY <1>3, <1>6, <1>8, <2>1 DEF RqInStep, clientVars
<1>9. ASSUME UNCHANGED <<clientVars, rqPc, callVars, rqGot, rqReplies>> \/ RqHangUp
      PROVE  RqInStep'
  <2>1. UNCHANGED <<rqScript, rqSent, rqPc, callVars, rqGot, rqReplies>>
    BY <1>9 DEF RqHangUp, clientVars
  <2>2. Allowed' = Allowed /\ End(rqReplies + 1)' = End(rqReplies + 1)
    BY <2>1 DEF Allowed, End
  <2>3. RqWindow' <=> RqWindow
    BY <2>1 DEF RqWindow, End, HeadOf, LenOf, callVars
  <2> QED
    BY <1>3, <1>6, <2>1, <2>2, <2>3 DEF RqInStep, callVars
<1>10. ASSUME NEW keep \in BOOLEAN, RqRespond(keep)
       PROVE  RqInStep'
  <2>1. /\ rqPc = "handling" /\ rqReplies' = rqReplies + 1 /\ rqGot' = rqGot
        /\ rqScript' = rqScript /\ rqSent' = rqSent
    BY <1>10 DEF RqRespond, clientVars
  <2> DEFINE k == rqReplies + 1
  <2>2. Len(rqGot) = k /\ k \in 1..Len(rqScript) /\ rqRead = End(k)
    BY <1>1, <1>2, <1>6, <2>1 DEF RqTyped, RqCalls, RqInStep
  <2>3. Allowed = End(k)
    BY <1>2, <2>2 DEF Allowed
  <2>4. Allowed' = End(IF k < Len(rqScript) THEN k + 1 ELSE k)
    BY <2>1 DEF Allowed, End
  <2>5. rqSent <= Allowed'
    <3>1. (IF k < Len(rqScript) THEN k + 1 ELSE k) \in 0..Len(rqScript)
          /\ k \in 0..Len(rqScript)
          /\ k <= (IF k < Len(rqScript) THEN k + 1 ELSE k)
      BY <1>2, <2>2
    <3> HIDE DEF k
    <3>2. /\ End(k) \in Nat /\ Allowed' \in Nat /\ End(k) <= Allowed'
      BY <1>2, <2>4, <3>1, EndsOrdered
    <3>3. rqSent <= Allowed
      BY <1>6 DEF RqInStep
    <3> QED
      BY <1>2, <2>3, <3>2, <3>3
  <2>6. CASE keep
    <3>1. rqPc' = "recv" /\ rqStart' = rqRead /\ rqRead' = rqRead /\ rqHeadEnd' = -1
      BY <1>10, <2>6 DEF RqRespond, Fresh
    <3>2. rqReplies' < Len(rqScript) => rqRead' < rqStart' + HeadOf(rqReplies' + 1)
      <4>1. ASSUME rqReplies' < Len(rqScript)
            PROVE  rqReplies' + 1 \in DOMAIN rqScript
        BY <1>2, <2>1, <4>1
      <4>2. ASSUME rqReplies' < Len(rqScript)
            PROVE  HeadOf(rqReplies' + 1) \in Nat /\ 4 < HeadOf(rqReplies' + 1)
        BY <1>2, <4>1, <4>2, Lengths
      <4> QED
        BY <1>2, <3>1, <4>2
    <3>3. HeadOf(rqReplies + 1)' = HeadOf(rqReplies' + 1)
      BY <2>1 DEF HeadOf
    <3>4. End(rqReplies)' = End(rqReplies')
      BY <2>1 DEF End
    <3>5. RqWindow'
      BY <1>3, <2>1, <2>2, <3>1, <3>2, <3>3, <3>4 DEF RqWindow
    <3> QED
      BY <1>3, <1>6, <2>1, <2>5, <3>1, <3>5 DEF RqInStep
  <2>7. CASE ~keep
    <3>1. rqPc' = "closed"
      BY <1>10, <2>7 DEF RqRespond
    <3> QED
      BY <1>3, <1>6, <2>1, <2>5, <3>1 DEF RqInStep
  <2> QED
    BY <2>6, <2>7
<1>11. ASSUME NEW n \in 1..WireLen, RqRecv(n)
       PROVE  RqInStep'
  <2> DEFINE k == rqReplies + 1
             total == rqRead - rqStart + n
             found == BlankLines(total, n)
  <2>1. /\ rqPc = "recv" /\ rqRead + n <= rqSent /\ n \in Nat \ {0}
        /\ rqRead' = rqRead + n /\ UNCHANGED <<clientVars, rqReplies>>
    BY <1>11, WireEnds, <1>2 DEF RqRecv
  <2>2. /\ k \in DOMAIN rqScript /\ k - 1 = rqReplies /\ rqReplies < Len(rqScript)
        /\ rqStart = End(k - 1) /\ total \in Nat /\ total <= LenOf(k)
    BY <1>1, <1>6, <2>1, OneRequest
  <2>3. rqRead' = rqStart + total
    BY <1>2, <2>1
  <2>4. /\ HeadOf(k) \in Nat /\ LenOf(k) \in Nat /\ 0 < LenOf(k)
        /\ NeededFor(HeadOf(k)) = LenOf(k)
    <3>1. HeadOf(k) \in Nat /\ LenOf(k) \in Nat /\ 4 < HeadOf(k) /\ HeadOf(k) <= LenOf(k)
      BY <1>2, <2>2, Lengths
    <3>2. LenOf(k) <= RqIntMax
      BY <1>13, <2>2 DEF Representable, LenOf
    <3>3. NeededFor(HeadOf(k)) = LenOf(k)
      BY <1>2, <2>2, <3>2, ScanOfRequest
    <3> QED
      BY <3>1, <3>3
  <2>5. CASE rqHeadEnd >= 0
    <3>1. GoesOn(rqHeadEnd, rqNeeded, rqRoom, total, total >= Target)
      BY <1>2, <1>11, <2>5 DEF RqRecv
    <3>2. rqHeadEnd = HeadOf(k) /\ rqNeeded = LenOf(k)
      BY <1>2, <1>6, <2>1, <2>2, <2>5 DEF RqInStep, RqWindow
    <3>3. Target = LenOf(k)
      BY <2>4, <3>2 DEF Target
    <3> HIDE DEF k, total
    <3> QED
      BY <1>1, <1>6, <2>1, <2>2, <2>3, <3>1, <3>2, <3>3, GoesOnInStep DEF k
  <2>6. CASE rqHeadEnd < 0
    <3>1. rqRead < rqStart + HeadOf(k)
      BY <1>2, <1>6, <2>1, <2>2, <2>6 DEF RqInStep, RqWindow
    <3>2. total - n < HeadOf(k) /\ n <= total /\ n \in Nat
      BY <1>2, <2>1, <2>4, <3>1
    <3> HIDE DEF k
    <3>3. found = IF total >= HeadOf(k) THEN {HeadOf(k)} ELSE {}
      BY <1>2, <2>2, <3>2, ScanOfRequest
    <3> HIDE DEF total, found
    <3>4. CASE total < HeadOf(k)
      <4>1. found = {}
        BY <2>2, <2>4, <3>3, <3>4
      <4>2. \/ UNCHANGED <<rqStart, rqPc, rqHeadEnd, rqNeeded, rqGot>>
            \/ rqPc' = "closed" /\ UNCHANGED <<rqStart, rqGot>>
        BY <1>2, <1>11, <2>6, <4>1 DEF RqRecv, GivesUp, found, total
      <4>3. CASE rqPc' = "closed" /\ UNCHANGED <<rqStart, rqGot>>
        BY <1>8, <2>1, <4>3
      <4>4. CASE UNCHANGED <<rqStart, rqPc, rqHeadEnd, rqNeeded, rqGot>>
        <5>1. Allowed' = Allowed /\ rqScript' = rqScript /\ rqSent' = rqSent
          BY <2>1 DEF Allowed, End, clientVars
        <5>2. rqRead' < rqStart + HeadOf(k)
          BY <1>2, <2>2, <2>3, <2>4, <3>4
        <5>3. End(rqReplies)' = End(rqReplies) /\ HeadOf(rqReplies + 1)' = HeadOf(k)
          BY <2>1, <5>1 DEF End, HeadOf, k
        <5>4. RqWindow'
          BY <1>2, <1>6, <2>1, <2>6, <4>4, <5>1, <5>2, <5>3 DEF RqInStep, RqWindow
        <5> QED
          BY <1>3, <1>6, <2>1, <4>4, <5>1, <5>4 DEF RqInStep
      <4> QED
        BY <4>2, <4>3, <4>4
    <3>5. CASE total >= HeadOf(k)
      <4>1. found # {} /\ Min(found) = HeadOf(k) /\ NeededFor(Min(found)) = LenOf(k)
        <5>1. found = {HeadOf(k)}
          BY <3>3, <3>5
        <5>2. Min(found) = HeadOf(k)
          BY <2>4, <5>1, MinOfOne
        <5> QED
          BY <2>4, <5>1, <5>2
      <4> DEFINE room == IF LenOf(k) > rqRoom THEN LenOf(k) ELSE rqRoom
      <4>5. Enough(LenOf(k), room, total) = {total >= LenOf(k)}
        BY <2>4 DEF Enough
      <4>2. \/ \E enough \in Enough(LenOf(k), room, total) :
                  GoesOn(HeadOf(k), LenOf(k), room, total, enough)
            \/ rqPc' = "closed" /\ UNCHANGED <<rqStart, rqGot>>
        BY <1>2, <1>11, <2>4, <2>6, <4>1 DEF RqRecv, GivesUp, found, total
      <4>3. CASE rqPc' = "closed" /\ UNCHANGED <<rqStart, rqGot>>
        BY <1>8, <2>1, <4>3
      <4> HIDE DEF room
      <4>4. CASE GoesOn(HeadOf(k), LenOf(k), room, total, total >= LenOf(k))
        BY <1>1, <1>6, <2>1, <2>2, <2>3, <4>4, GoesOnInStep DEF k
      <4> QED
        BY <4>2, <4>3, <4>4, <4>5
    <3> QED
      BY <2>2, <2>4, <3>4, <3>5
  <2> QED
    BY <1>2, <2>5, <2>6
<1>12. ASSUME RqRecvFails
       PROVE  RqInStep'
  BY <1>8, <1>12 DEF RqRecvFails, GivesUp
<1> QED
  BY <1>7, <1>9, <1>10, <1>11, <1>12 DEF RqNext, rqVars

\* In the first state nothing was sent.
LEMMA RqInvInit == RqInit => RqInv
<1> SUFFICES ASSUME RqInit PROVE RqInv
  OBVIOUS
<1>1. /\ rqScript \in RqScripts /\ rqSent = 0 /\ rqPc = "recv" /\ rqStart = 0
      /\ rqRead = 0 /\ rqHeadEnd = -1 /\ rqReplies = 0 /\ rqGot = <<>>
  BY DEF RqInit
<1>2. Len(rqScript) \in Nat \ {0} /\ 1 \in DOMAIN rqScript
  BY <1>1, WireEnds
<1>3. End(0) = 0 /\ End(1) \in Nat /\ HeadOf(1) \in Nat /\ 4 < HeadOf(1)
  BY <1>1, <1>2, Lengths DEF End
<1>4. RqWindow
  BY <1>1, <1>3 DEF RqWindow
<1>5. rqSent <= Allowed
  BY <1>1, <1>2, <1>3 DEF Allowed
<1>6. Len(rqGot) = 0 /\ DOMAIN rqGot = {}
  BY <1>1
<1> QED
  BY <1>1, <1>2, <1>4, <1>5, <1>6, RqTypedInit DEF RqInv, RqInStep

\* The invariant holds throughout.
LEMMA RqInvariant == RqSpec => []RqInv
  BY RqInvInit, RqInvNext, PTL DEF RqSpec

\* For any requests whose lengths are ints, any buffer and limit, and however the
\* bytes are cut on their way, the i-th call of http_recv_request returns the i-th
\* request whole and the handler sees its body, as long as the client waits for
\* its responses.
THEOREM RecvFramesWhole == RqSpec => []FramesWhole
<1>1. RqInv => FramesWhole
  BY DEF RqInv, RqInStep, FramesWhole
<1> QED
  BY <1>1, RqInvariant, PTL

\* When recv blocks, every request that has arrived whole was answered: server
\* and client never wait for each other, if the length of each request is an int.
THEOREM RecvNeverMutual == RqSpec => []NoMutualWait
<1>1. RqInv => NoMutualWait
  <2> SUFFICES ASSUME RqInv, rqPc = "recv", rqRead = rqSent, ~rqPipelined,
                      Representable, NEW j \in DOMAIN rqScript, Whole(j) \subseteq 1..rqSent,
                      ~(j <= rqReplies)
               PROVE  FALSE
    BY DEF NoMutualWait
  <2>1. /\ rqScript \in RqScripts /\ rqStart \in Nat /\ rqRead \in Nat
        /\ rqHeadEnd \in Int /\ rqReplies \in Nat /\ Len(rqScript) \in Nat
        /\ DOMAIN rqScript = 1..Len(rqScript)
    BY WireEnds DEF RqInv, RqTyped, RqTypeOK
  <2>2. RqWindow
    BY DEF RqInv, RqInStep
  <2> DEFINE k == rqReplies + 1
  <2>3. k \in DOMAIN rqScript /\ rqReplies < Len(rqScript) /\ k - 1 = rqReplies /\ k <= j
    BY <2>1
  <2>4. /\ HeadOf(k) \in Nat /\ LenOf(k) \in Nat /\ HeadOf(k) <= LenOf(k)
        /\ End(k) \in Nat /\ End(k) = rqStart + LenOf(k)
    BY <2>1, <2>2, <2>3, Lengths DEF RqWindow
  <2>5. rqRead < End(k)
    BY <2>1, <2>2, <2>3, <2>4 DEF RqWindow
  <2>6. End(j) \in Whole(j) /\ End(j) \in Nat
    <3>1. /\ LenOf(j) \in Nat /\ HeadOf(j) \in Nat /\ 4 < HeadOf(j) /\ HeadOf(j) <= LenOf(j)
          /\ End(j - 1) \in Nat /\ End(j) \in Nat /\ End(j) = End(j - 1) + LenOf(j)
          /\ Whole(j) = (End(j - 1) + 1)..End(j)
      BY <2>1, Lengths
    <3> QED
      BY <3>1
  <2>7. End(k) <= End(j)
    <3>1. k \in 0..Len(rqScript) /\ j \in 0..Len(rqScript)
      BY <2>1, <2>3
    <3> QED
      BY <2>1, <2>3, <3>1, EndsOrdered
  <2>8. End(j) \in 1..rqRead
    BY <2>6
  <2> QED
    BY <2>1, <2>4, <2>5, <2>6, <2>7, <2>8
<1> QED
  BY <1>1, RqInvariant, PTL
=============================================================================
