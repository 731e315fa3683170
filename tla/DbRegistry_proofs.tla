-------------------------- MODULE DbRegistry_proofs -------------------------
(***************************************************************************)
(* The database registry for any number of threads, databases, connection  *)
(* addresses and statements: which connection a call may use, whose rowid  *)
(* it reads, what the statement caches hold, and what a close leaves.      *)
(***************************************************************************)
EXTENDS DbRegistry, TLAPS

\* What the type invariant says of single values.
Typed ==
    /\ dbOpened \subseteq Dbs
    /\ \A t \in DbThreads :
          dbCur[t] \in Dbs \cup {NoDb} /\ dbAt[t] \in DbAddrs \cup {NoConn}
    /\ \A t \in DbThreads, d \in Dbs : dbTls[t][d] \in DbAddrs \cup {NoConn}
    /\ \A a \in DbAddrs : dbOf[a] \in Dbs \cup {NoDb}
    /\ \A d \in Dbs :
          dbShared[d] \in DbAddrs \cup {NoConn} /\ dbConns[d] \subseteq DbAddrs

\* An address is free exactly when it belongs to no database, only opened
\* databases have connections, and only a close makes a zombie.
AddrState ==
    \A a \in DbAddrs :
        /\ dbSt[a] = "free" <=> dbOf[a] = NoDb
        /\ dbOf[a] # NoDb => dbOf[a] \in dbOpened
        /\ dbSt[a] = "zombie" => Closed(dbOf[a])

\* A call names an open handle and, once resolved, a connection.
CallNames ==
    \A t \in DbThreads :
        /\ dbPc[t] # "idle" => dbCur[t] \in dbOpened
        /\ dbPc[t] = "using" => dbAt[t] \in DbAddrs

\* Only the thread that won the exchange closes a database.
OneCloser ==
    /\ \A t \in DbThreads :
          /\ dbPc[t] \in {"closing", "nulling"} => dbCloser[dbCur[t]] = t
          /\ dbPc[t] = "nulling" => dbCur[t] \in MemDbs
    /\ \A d \in Dbs : Closed(d) => d \in dbOpened

\* A call that goes on although its database is closed was overlapped.
OverlapKnown ==
    \A t \in DbThreads :
        dbPc[t] \in {"checked", "opened", "using"} /\ Closed(dbCur[t]) =>
            <<t, dbCur[t]>> \in dbOverlap

\* A registered connection is open and its database's own.
RegisteredOpen ==
    \A d \in Dbs : \A a \in dbConns[d] :
        d \in FileDbs /\ dbSt[a] = "open" /\ dbOf[a] = d

\* So is a connection just opened, and it is not registered yet.
OpenedOpen ==
    \A t \in DbThreads :
        dbPc[t] = "opened" =>
            /\ dbCur[t] \in FileDbs
            /\ dbAt[t] \in DbAddrs
            /\ dbSt[dbAt[t]] = "open" /\ dbOf[dbAt[t]] = dbCur[t]
            /\ \A d \in Dbs : dbAt[t] \notin dbConns[d]
            /\ \A u \in DbThreads :
                  dbPc[u] = "opened" /\ dbAt[u] = dbAt[t] => u = t

\* A shared connection is open until its close has begun to null the pointer.
SharedOpen ==
    \A d \in Dbs :
        dbShared[d] # NoConn =>
            /\ d \in MemDbs /\ d \in dbOpened
            /\ \/ dbSt[dbShared[d]] = "open" /\ dbOf[dbShared[d]] = d
               \/ \E t \in DbThreads : dbPc[t] = "nulling" /\ dbCur[t] = d

\* While its database is open, a call uses the connection of its own slot, or
\* the shared one.
UsesResolved ==
    \A t \in DbThreads :
        dbPc[t] = "using" /\ ~Closed(dbCur[t]) =>
            dbAt[t] = IF dbCur[t] \in FileDbs
                      THEN dbTls[t][dbCur[t]] ELSE dbShared[dbCur[t]]

\* Only t, or a call that a close overlapped, ran an INSERT on a.
OwnRowid(t, a) ==
    \/ dbIns[a] \in {NoThread, t}
    \/ \E e \in Dbs : <<dbIns[a], e>> \in dbOverlap

\* Thread t has connection a to database d: in its slot, or just opened.
Holds(t, a, d) ==
    \/ dbTls[t][d] = a
    \/ dbPc[t] = "opened" /\ dbCur[t] = d /\ dbAt[t] = a

\* While a file is open, the connection a thread has to it is open, the file's
\* own, and that thread's own.
HeldIsOwn ==
    \A t \in DbThreads, a \in DbAddrs, d \in FileDbs :
        Holds(t, a, d) /\ ~Closed(d) =>
            dbSt[a] = "open" /\ dbOf[a] = d /\ OwnRowid(t, a)

\* No two threads have the same connection.
HeldOnce ==
    \A t, u \in DbThreads, a \in DbAddrs, d \in FileDbs :
        Holds(t, a, d) /\ Holds(u, a, d) /\ ~Closed(d) => t = u

\* A zombie is pinned by a statement its closer could not reach.
ZombiePinned ==
    \A a \in DbAddrs :
        dbSt[a] = "zombie" =>
            \/ a \in dbLeak
            \/ \E t \in DbThreads : t # dbCloser[dbOf[a]] /\ dbCache[t][a] # <<>>

\* Nobody is inside a close of d.
NotClosing(d) ==
    \A t \in DbThreads : ~(dbPc[t] \in {"closing", "nulling"} /\ dbCur[t] = d)

\* Every open connection is the shared one of its database, registered, or
\* about to be.
OpenIsReachable ==
    \A a \in DbAddrs :
        dbSt[a] = "open" =>
            \/ dbOf[a] \in MemDbs /\ dbShared[dbOf[a]] = a
            \/ dbOf[a] \in FileDbs /\ a \in dbConns[dbOf[a]]
            \/ /\ dbOf[a] \in FileDbs
               /\ \E t \in DbThreads :
                     dbPc[t] = "opened" /\ dbCur[t] = dbOf[a] /\ dbAt[t] = a

\* The shared connection is closed before its pointer is nulled.
NullsClosed ==
    \A t \in DbThreads, a \in DbAddrs :
        dbPc[t] = "nulling" => ~(dbOf[a] = dbCur[t] /\ dbSt[a] = "open")

\* After a close, only a call it overlapped can have registered a connection,
\* and no shared one is left.
ClosedIsEmpty ==
    \A d \in Dbs :
        Closed(d) /\ NotClosing(d) =>
            /\ dbShared[d] = NoConn
            /\ dbConns[d] # {} => \E t \in DbThreads : <<t, d>> \in dbOverlap

DbInv ==
    /\ DbTypeOK
    /\ AddrState /\ CallNames /\ OneCloser /\ OverlapKnown
    /\ RegisteredOpen /\ OpenedOpen /\ SharedOpen
    /\ UsesResolved /\ HeldIsOwn /\ HeldOnce
    /\ StmtsMatchConn /\ ZombiePinned
    /\ OpenIsReachable /\ NullsClosed /\ ClosedIsEmpty

-----------------------------------------------------------------------------

\* The initial states satisfy the invariant: no connection exists.
LEMMA DbInvInit == DbInit => DbInv
  BY DbAssumption
  DEF DbInit, DbInv, DbTypeOK, AddrState, CallNames, OneCloser, OverlapKnown,
      RegisteredOpen, OpenedOpen, SharedOpen, UsesResolved, HeldIsOwn, HeldOnce,
      Holds, StmtsMatchConn, ZombiePinned, OpenIsReachable, NullsClosed,
      ClosedIsEmpty, NotClosing, Closed, InCall, Closing, Dbs

\* The type invariant, value by value.
LEMMA TypedHolds == DbTypeOK => Typed
  BY DEF DbTypeOK, Typed

\* What a cache holds after a statement was added to it.
LEMMA CacheGrows ==
  ASSUME NEW c \in Seq(Stmts), NEW s \in Stmts
  PROVE  /\ Append(Evicted(c), s) \in Seq(Stmts)
         /\ Append(Evicted(c), s) # <<>>
         /\ \A i \in DOMAIN Append(Evicted(c), s) :
               \/ Append(Evicted(c), s)[i] = s
               \/ \E j \in DOMAIN c : Append(Evicted(c), s)[i] = c[j]
<1>1. /\ Evicted(c) \in Seq(Stmts)
      /\ \A i \in DOMAIN Evicted(c) : \E j \in DOMAIN c : Evicted(c)[i] = c[j]
  <2>1. CASE Len(c) >= DbStmtCap
    <3>1. c # <<>> /\ Evicted(c) = Tail(c)
      BY <2>1, DbAssumption DEF Evicted
    <3>2. \A i \in DOMAIN Tail(c) : i + 1 \in DOMAIN c /\ Tail(c)[i] = c[i + 1]
      BY <3>1
    <3> QED BY <3>1, <3>2
  <2>2. CASE ~(Len(c) >= DbStmtCap)
    BY <2>2 DEF Evicted
  <2> QED BY <2>1, <2>2
<1>2. /\ Len(Append(Evicted(c), s)) = Len(Evicted(c)) + 1
      /\ \A i \in 1..Len(Evicted(c)) : Append(Evicted(c), s)[i] = Evicted(c)[i]
      /\ Append(Evicted(c), s)[Len(Evicted(c)) + 1] = s
      /\ Append(Evicted(c), s) \in Seq(Stmts)
  BY <1>1
<1> QED
  BY <1>1, <1>2

\* The thread that uses the connection another thread has to an open file is
\* that other thread, unless a close overlapped its call.
LEMMA UserOwns ==
  ASSUME DbInv, NEW t \in DbThreads, NEW u \in DbThreads, NEW d \in FileDbs,
         dbPc[t] = "using", dbAt[t] \in DbAddrs,
         Holds(u, dbAt[t], d), ~Closed(d)
  PROVE  t = u \/ \E e \in Dbs : <<t, e>> \in dbOverlap
<1> USE DbAssumption DEF Dbs
<1>1. dbCur[t] \in Dbs
  BY TypedHolds DEF DbInv, CallNames, Typed
<1>2. CASE Closed(dbCur[t])
  BY <1>1, <1>2 DEF DbInv, OverlapKnown
<1>3. CASE ~Closed(dbCur[t]) /\ dbCur[t] \in FileDbs
  <2>1. Holds(t, dbAt[t], dbCur[t])
    BY <1>3 DEF DbInv, UsesResolved, Holds
  <2>2. dbOf[dbAt[t]] = d /\ dbOf[dbAt[t]] = dbCur[t]
    BY <1>3, <2>1 DEF DbInv, HeldIsOwn
  <2> QED
    BY <1>3, <2>1, <2>2 DEF DbInv, HeldOnce
<1>4. CASE ~Closed(dbCur[t]) /\ dbCur[t] \in MemDbs
  <2>1. dbAt[t] = dbShared[dbCur[t]]
    BY <1>4 DEF DbInv, UsesResolved
  <2>2. ~ \E v \in DbThreads : dbPc[v] = "nulling" /\ dbCur[v] = dbCur[t]
    BY <1>4 DEF DbInv, OneCloser, Closed
  <2>3. dbOf[dbAt[t]] = dbCur[t]
    BY <1>1, <2>1, <2>2 DEF DbInv, SharedOpen
  <2>4. dbOf[dbAt[t]] = d
    BY DEF DbInv, HeldIsOwn
  <2> QED
    BY <1>4, <2>3, <2>4
<1> QED
  BY <1>1, <1>2, <1>3, <1>4

-----------------------------------------------------------------------------
(* What the steps do, point by point. *)

\* The function new is old with v at x.
Sets(new, old, S, x, v) == \A y \in S : new[y] = IF y = x THEN v ELSE old[y]

\* Slot d of thread t gets v.
SetsSlot(t, d, v) ==
    \A u \in DbThreads, e \in Dbs :
        dbTls'[u][e] = IF u = t /\ e = d THEN v ELSE dbTls[u][e]

\* A connection to d appears at a.
Opens(a, d) ==
    /\ Sets(dbSt', dbSt, DbAddrs, a, "open")
    /\ Sets(dbOf', dbOf, DbAddrs, a, d)
    /\ Sets(dbIns', dbIns, DbAddrs, a, NoThread)

\* Thread t may have run an INSERT on a.
MayInsertOn(t, a) ==
    \A b \in DbAddrs : dbIns'[b] = dbIns[b] \/ (b = a /\ dbIns'[b] = t)

\* Thread t has one more statement cached for a, and maybe one less.
AddsStmt(t, a) ==
    /\ \A u \in DbThreads, b \in DbAddrs :
          u # t \/ b # a => dbCache'[u][b] = dbCache[u][b]
    /\ dbCache'[t][a] # <<>>
    /\ \A i \in DOMAIN dbCache'[t][a] :
          \/ dbCache'[t][a][i].of = dbOf[a]
          \/ \E j \in DOMAIN dbCache[t][a] : dbCache'[t][a][i] = dbCache[t][a][j]

\* Thread t drops its statements on A and closes A.
Closes(t, A) ==
    /\ \A u \in DbThreads, b \in DbAddrs :
          dbCache'[u][b] = IF u = t /\ b \in A THEN <<>> ELSE dbCache[u][b]
    /\ \A b \in DbAddrs \ A :
          dbSt'[b] = dbSt[b] /\ dbOf'[b] = dbOf[b] /\ dbIns'[b] = dbIns[b]
    /\ \A b \in DbAddrs \cap A :
          \/ /\ dbSt'[b] = "free" /\ dbOf'[b] = NoDb
             /\ \A u \in DbThreads : dbCache'[u][b] = <<>>
          \/ /\ dbSt'[b] = "zombie" /\ dbOf'[b] = dbOf[b]
             /\ b \in dbLeak \/ \E u \in DbThreads : dbCache'[u][b] # <<>>

-----------------------------------------------------------------------------
(* Every step keeps the invariant. *)

\* A new handle of a file.
LEMMA DbOpenFilePreserves ==
  ASSUME DbInv, NEW t \in DbThreads, NEW d \in Dbs, DbOpenFile(t, d)
  PROVE  DbInv'
<1> USE DbAssumption DEF Sets, Dbs
<1>1. /\ DbTypeOK /\ AddrState /\ CallNames /\ OneCloser /\ OverlapKnown
      /\ RegisteredOpen /\ OpenedOpen /\ SharedOpen /\ UsesResolved
      /\ HeldIsOwn /\ HeldOnce /\ StmtsMatchConn
      /\ ZombiePinned /\ OpenIsReachable /\ NullsClosed /\ ClosedIsEmpty /\ Typed
  BY TypedHolds DEF DbInv
<1>2. PICK a \in DbAddrs :
         /\ dbPc[t] = "idle" /\ d \in FileDbs \ dbOpened
         /\ SqliteOpen(a, d) /\ dbConns' = [dbConns EXCEPT ![d] = {a}]
         /\ dbTls' = [dbTls EXCEPT ![t][d] = a] /\ dbOpened' = dbOpened \cup {d}
         /\ UNCHANGED <<dbCloser, dbShared, dbCache, dbLeak, dbPc,
                      dbCur, dbAt, dbOverlap>>
  BY DEF DbOpenFile, SqliteOpen
<1>3. /\ Opens(a, d)
      /\ Sets(dbConns', dbConns, Dbs, d, {a})
      /\ SetsSlot(t, d, a)
      /\ dbOpened' = dbOpened \cup {d}
      /\ dbSt[a] = "free"
  BY <1>1, <1>2 DEF DbTypeOK, SqliteOpen, SetsSlot, Opens
<1>4. DbTypeOK'
  BY <1>1, <1>2 DEF DbTypeOK, InCall, Closing, SqliteOpen
<1>5. AddrState'
  BY <1>1, <1>2, <1>3, <1>4 DEF AddrState, Closed, SetsSlot, Opens
<1>6. CallNames'
  BY <1>1, <1>2, <1>3, <1>4 DEF CallNames, SetsSlot, Opens
<1>7. OneCloser'
  BY <1>1, <1>2, <1>3, <1>4 DEF OneCloser, Closed, Typed, SetsSlot, Opens
<1>8. OverlapKnown'
  BY <1>1, <1>2, <1>3, <1>4 DEF OverlapKnown, Closed, Typed, SetsSlot, Opens
<1>9. RegisteredOpen'
  BY <1>1, <1>2, <1>3, <1>4 DEF RegisteredOpen, Typed, SetsSlot, Opens
<1>10. OpenedOpen'
  BY <1>1, <1>2, <1>3, <1>4 DEF OpenedOpen, SetsSlot, Opens
<1>11. SharedOpen'
  BY <1>1, <1>2, <1>3, <1>4 DEF SharedOpen, Typed, SetsSlot, Opens
<1>12. UsesResolved'
  BY <1>1, <1>2, <1>3, <1>4 DEF UsesResolved, Closed, Typed, SetsSlot, Opens
<1>13. HeldIsOwn'
  BY <1>1, <1>2, <1>3, <1>4 DEF HeldIsOwn, Holds, OwnRowid, Closed, SetsSlot, Opens
<1>14. HeldOnce'
  BY <1>1, <1>2, <1>3, <1>4 DEF HeldOnce, Holds, Closed, SetsSlot, Opens,
     HeldIsOwn
<1>15. StmtsMatchConn'
  BY <1>1, <1>2, <1>3, <1>4 DEF StmtsMatchConn, SetsSlot, Opens
<1>16. ZombiePinned'
  BY <1>1, <1>2, <1>3, <1>4 DEF ZombiePinned, SetsSlot, Opens
<1>17. OpenIsReachable'
  BY <1>1, <1>2, <1>3, <1>4 DEF OpenIsReachable, SetsSlot, Opens, AddrState,
     OpenedOpen
<1>18. NullsClosed'
  BY <1>1, <1>2, <1>3, <1>4 DEF NullsClosed, SetsSlot, Opens, CallNames
<1>19. ClosedIsEmpty'
  BY <1>1, <1>2, <1>3, <1>4 DEF ClosedIsEmpty, NotClosing, Closed, SetsSlot,
     Opens, OneCloser
<1> QED
  BY <1>4, <1>5, <1>6, <1>7, <1>8, <1>9, <1>10, <1>11,
     <1>12, <1>13, <1>14, <1>15, <1>16, <1>17, <1>18, <1>19 DEF DbInv

\* A new handle of a shared database.
LEMMA DbOpenSharedPreserves ==
  ASSUME DbInv, NEW t \in DbThreads, NEW d \in Dbs, DbOpenShared(t, d)
  PROVE  DbInv'
<1> USE DbAssumption DEF Sets, Dbs
<1>1. /\ DbTypeOK /\ AddrState /\ CallNames /\ OneCloser /\ OverlapKnown
      /\ RegisteredOpen /\ OpenedOpen /\ SharedOpen /\ UsesResolved
      /\ HeldIsOwn /\ HeldOnce /\ StmtsMatchConn
      /\ ZombiePinned /\ OpenIsReachable /\ NullsClosed /\ ClosedIsEmpty /\ Typed
  BY TypedHolds DEF DbInv
<1>2. PICK a \in DbAddrs :
         /\ dbPc[t] = "idle" /\ d \in MemDbs \ dbOpened
         /\ SqliteOpen(a, d) /\ dbShared' = [dbShared EXCEPT ![d] = a]
         /\ dbOpened' = dbOpened \cup {d}
         /\ UNCHANGED <<dbCloser, dbConns, dbTls, dbCache, dbLeak,
                      dbPc, dbCur, dbAt, dbOverlap>>
  BY DEF DbOpenShared, SqliteOpen
<1>3. /\ Opens(a, d)
      /\ Sets(dbShared', dbShared, Dbs, d, a)
      /\ dbOpened' = dbOpened \cup {d}
      /\ dbSt[a] = "free"
  BY <1>1, <1>2 DEF DbTypeOK, SqliteOpen, SetsSlot, Opens
<1>4. DbTypeOK'
  BY <1>1, <1>2 DEF DbTypeOK, InCall, Closing, SqliteOpen
<1>5. AddrState'
  BY <1>1, <1>2, <1>3, <1>4 DEF AddrState, Closed, Opens
<1>6. CallNames'
  BY <1>1, <1>2, <1>3, <1>4 DEF CallNames, Opens
<1>7. OneCloser'
  BY <1>1, <1>2, <1>3, <1>4 DEF OneCloser, Closed, Typed, Opens
<1>8. OverlapKnown'
  BY <1>1, <1>2, <1>3, <1>4 DEF OverlapKnown, Closed, Typed, Opens
<1>9. RegisteredOpen'
  BY <1>1, <1>2, <1>3, <1>4 DEF RegisteredOpen, Typed, Opens
<1>10. OpenedOpen'
  BY <1>1, <1>2, <1>3, <1>4 DEF OpenedOpen, Opens
<1>11. SharedOpen'
  BY <1>1, <1>2, <1>3, <1>4 DEF SharedOpen, Typed, Opens
<1>12. UsesResolved'
  BY <1>1, <1>2, <1>3, <1>4 DEF UsesResolved, Closed, Typed, Opens, CallNames
<1>13. HeldIsOwn'
  BY <1>1, <1>2, <1>3, <1>4 DEF HeldIsOwn, Holds, OwnRowid, Closed, Opens
<1>14. HeldOnce'
  BY <1>1, <1>2, <1>3, <1>4 DEF HeldOnce, Holds, Closed, Opens
<1>15. StmtsMatchConn'
  BY <1>1, <1>2, <1>3, <1>4 DEF StmtsMatchConn, Opens
<1>16. ZombiePinned'
  BY <1>1, <1>2, <1>3, <1>4 DEF ZombiePinned, Opens
<1>17. OpenIsReachable'
  BY <1>1, <1>2, <1>3, <1>4 DEF OpenIsReachable, Opens, AddrState, SharedOpen
<1>18. NullsClosed'
  BY <1>1, <1>2, <1>3, <1>4 DEF NullsClosed, Opens, CallNames
<1>19. ClosedIsEmpty'
  BY <1>1, <1>2, <1>3, <1>4 DEF ClosedIsEmpty, NotClosing, Closed, Opens,
     OneCloser
<1> QED
  BY <1>4, <1>5, <1>6, <1>7, <1>8, <1>9, <1>10, <1>11,
     <1>12, <1>13, <1>14, <1>15, <1>16, <1>17, <1>18, <1>19 DEF DbInv

\* A call passes the check of `closed`.
LEMMA DbCheckPreserves ==
  ASSUME DbInv, NEW t \in DbThreads, NEW d \in Dbs, DbCheck(t, d)
  PROVE  DbInv'
<1> USE DbAssumption DEF Sets, Dbs
<1>1. /\ DbTypeOK /\ AddrState /\ CallNames /\ OneCloser /\ OverlapKnown
      /\ RegisteredOpen /\ OpenedOpen /\ SharedOpen /\ UsesResolved
      /\ HeldIsOwn /\ HeldOnce /\ StmtsMatchConn
      /\ ZombiePinned /\ OpenIsReachable /\ NullsClosed /\ ClosedIsEmpty /\ Typed
  BY TypedHolds DEF DbInv
<1>2. /\ dbPc[t] = "idle" /\ d \in dbOpened /\ ~Closed(d)
      /\ Sets(dbPc', dbPc, DbThreads, t, "checked")
      /\ Sets(dbCur', dbCur, DbThreads, t, d)
      /\ UNCHANGED <<dbOpened, dbCloser, dbConns, dbShared, dbTls,
                   dbCache, dbSt, dbOf, dbIns, dbLeak, dbAt, dbOverlap>>
  BY <1>1 DEF DbTypeOK, DbCheck, registry, sqlite, SetsSlot, Opens,
     MayInsertOn, AddsStmt, Closes, InCall
<1>3. DbTypeOK'
  BY <1>1 DEF DbTypeOK, InCall, Closing, DbCheck, registry, sqlite
<1>4. AddrState'
  BY <1>1, <1>2, <1>3 DEF AddrState, Closed
<1>5. CallNames'
  BY <1>1, <1>2, <1>3 DEF CallNames
<1>6. OneCloser'
  BY <1>1, <1>2, <1>3 DEF OneCloser, Closed, Typed
<1>7. OverlapKnown'
  BY <1>1, <1>2, <1>3 DEF OverlapKnown, Closed, Typed
<1>8. RegisteredOpen'
  BY <1>1, <1>2, <1>3 DEF RegisteredOpen, Typed
<1>9. OpenedOpen'
  BY <1>1, <1>2, <1>3 DEF OpenedOpen
<1>10. SharedOpen'
  BY <1>1, <1>2, <1>3 DEF SharedOpen, Typed
<1>11. UsesResolved'
  BY <1>1, <1>2, <1>3 DEF UsesResolved, Closed, Typed
<1>12. HeldIsOwn'
  BY <1>1, <1>2, <1>3 DEF HeldIsOwn, Holds, OwnRowid, Closed
<1>13. HeldOnce'
  BY <1>1, <1>2, <1>3 DEF HeldOnce, Holds, Closed
<1>14. StmtsMatchConn'
  BY <1>1, <1>2, <1>3 DEF StmtsMatchConn
<1>15. ZombiePinned'
  BY <1>1, <1>2, <1>3 DEF ZombiePinned
<1>16. OpenIsReachable'
  BY <1>1, <1>2, <1>3 DEF OpenIsReachable
<1>17. NullsClosed'
  BY <1>1, <1>2, <1>3 DEF NullsClosed
<1>18. ClosedIsEmpty'
  BY <1>1, <1>2, <1>3 DEF ClosedIsEmpty, NotClosing, Closed
<1> QED
  BY <1>3, <1>4, <1>5, <1>6, <1>7, <1>8, <1>9, <1>10,
     <1>11, <1>12, <1>13, <1>14, <1>15, <1>16, <1>17, <1>18 DEF DbInv

\* A close wins the exchange: the calls in progress are overlapped.
LEMMA DbCloseBeginPreserves ==
  ASSUME DbInv, NEW t \in DbThreads, NEW d \in Dbs, DbCloseBegin(t, d)
  PROVE  DbInv'
<1> USE DbAssumption DEF Sets, Dbs
<1>1. /\ DbTypeOK /\ AddrState /\ CallNames /\ OneCloser /\ OverlapKnown
      /\ RegisteredOpen /\ OpenedOpen /\ SharedOpen /\ UsesResolved
      /\ HeldIsOwn /\ HeldOnce /\ StmtsMatchConn
      /\ ZombiePinned /\ OpenIsReachable /\ NullsClosed /\ ClosedIsEmpty /\ Typed
  BY TypedHolds DEF DbInv
<1>2. /\ dbPc[t] = "idle" /\ d \in dbOpened /\ dbCloser[d] = NoThread
      /\ Sets(dbPc', dbPc, DbThreads, t, "closing")
      /\ Sets(dbCur', dbCur, DbThreads, t, d)
      /\ Sets(dbCloser', dbCloser, Dbs, d, t)
      /\ dbOverlap \subseteq dbOverlap'
      /\ \A u \in DbThreads : dbPc[u] \in {"checked", "opened", "using"} /\ dbCur[u] = d =>
             <<u, d>> \in dbOverlap'
      /\ UNCHANGED <<dbOpened, dbConns, dbShared, dbTls, dbCache,
                   dbSt, dbOf, dbIns, dbLeak, dbAt>>
  BY <1>1 DEF DbTypeOK, DbCloseBegin, sqlite, Closed, SetsSlot, Opens,
     MayInsertOn, AddsStmt, Closes, InCall
<1>3. DbTypeOK'
  BY <1>1 DEF DbTypeOK, InCall, Closing, DbCloseBegin, sqlite, Closed
<1>4. AddrState'
  BY <1>1, <1>2, <1>3 DEF AddrState, Closed, Typed
<1>5. CallNames'
  BY <1>1, <1>2, <1>3 DEF CallNames
<1>6. OneCloser'
  BY <1>1, <1>2, <1>3 DEF OneCloser, Closed, Typed, CallNames
<1>7. OverlapKnown'
  BY <1>1, <1>2, <1>3 DEF OverlapKnown, Closed, Typed, CallNames
<1>8. RegisteredOpen'
  BY <1>1, <1>2, <1>3 DEF RegisteredOpen, Typed
<1>9. OpenedOpen'
  BY <1>1, <1>2, <1>3 DEF OpenedOpen
<1>10. SharedOpen'
  BY <1>1, <1>2, <1>3 DEF SharedOpen, Typed
<1>11. UsesResolved'
  BY <1>1, <1>2, <1>3 DEF UsesResolved, Closed, Typed, CallNames
<1>12. HeldIsOwn'
  BY <1>1, <1>2, <1>3 DEF HeldIsOwn, Holds, OwnRowid, Closed
<1>13. HeldOnce'
  BY <1>1, <1>2, <1>3 DEF HeldOnce, Holds, Closed
<1>14. StmtsMatchConn'
  BY <1>1, <1>2, <1>3 DEF StmtsMatchConn
<1>15. ZombiePinned'
  BY <1>1, <1>2, <1>3 DEF ZombiePinned, AddrState, Closed, Typed
<1>16. OpenIsReachable'
  BY <1>1, <1>2, <1>3 DEF OpenIsReachable
<1>17. NullsClosed'
  BY <1>1, <1>2, <1>3 DEF NullsClosed
<1>18. ClosedIsEmpty'
  BY <1>1, <1>2, <1>3 DEF ClosedIsEmpty, NotClosing, Closed
<1> QED
  BY <1>3, <1>4, <1>5, <1>6, <1>7, <1>8, <1>9, <1>10,
     <1>11, <1>12, <1>13, <1>14, <1>15, <1>16, <1>17, <1>18 DEF DbInv

\* A call finds the shared connection gone.
LEMMA DbLookupGonePreserves ==
  ASSUME DbInv, NEW t \in DbThreads, DbLookupShared(t),
         dbShared[dbCur[t]] = NoConn
  PROVE  DbInv'
<1> USE DbAssumption DEF Sets, Dbs
<1>1. /\ DbTypeOK /\ AddrState /\ CallNames /\ OneCloser /\ OverlapKnown
      /\ RegisteredOpen /\ OpenedOpen /\ SharedOpen /\ UsesResolved
      /\ HeldIsOwn /\ HeldOnce /\ StmtsMatchConn
      /\ ZombiePinned /\ OpenIsReachable /\ NullsClosed /\ ClosedIsEmpty /\ Typed
  BY TypedHolds DEF DbInv
<1>2. /\ dbPc[t] = "checked" /\ dbCur[t] \in MemDbs
      /\ Sets(dbPc', dbPc, DbThreads, t, "idle")
      /\ Sets(dbCur', dbCur, DbThreads, t, NoDb)
      /\ Sets(dbAt', dbAt, DbThreads, t, NoConn)
      /\ UNCHANGED <<dbOpened, dbCloser, dbConns, dbShared, dbTls,
                   dbCache, dbSt, dbOf, dbIns, dbLeak, dbOverlap>>
  BY <1>1 DEF DbTypeOK, DbLookupShared, Return, registry, sqlite, SetsSlot, Opens,
     MayInsertOn, AddsStmt, Closes, InCall
<1>3. DbTypeOK'
  <2>1. Return(t) /\ UNCHANGED <<registry, sqlite, dbTls, dbCache, dbOverlap>>
    BY DEF DbLookupShared
  <2> QED
    BY <1>1, <2>1 DEF DbTypeOK, Return, registry, sqlite
<1>4. AddrState'
  BY <1>1, <1>2, <1>3 DEF AddrState, Closed
<1>5. CallNames'
  BY <1>1, <1>2, <1>3 DEF CallNames
<1>6. OneCloser'
  BY <1>1, <1>2, <1>3 DEF OneCloser, Closed, Typed
<1>7. OverlapKnown'
  BY <1>1, <1>2, <1>3 DEF OverlapKnown, Closed, Typed
<1>8. RegisteredOpen'
  BY <1>1, <1>2, <1>3 DEF RegisteredOpen, Typed
<1>9. OpenedOpen'
  BY <1>1, <1>2, <1>3 DEF OpenedOpen
<1>10. SharedOpen'
  BY <1>1, <1>2, <1>3 DEF SharedOpen, Typed
<1>11. UsesResolved'
  BY <1>1, <1>2, <1>3 DEF UsesResolved, Closed, Typed
<1>12. HeldIsOwn'
  BY <1>1, <1>2, <1>3 DEF HeldIsOwn, Holds, OwnRowid, Closed
<1>13. HeldOnce'
  BY <1>1, <1>2, <1>3 DEF HeldOnce, Holds, Closed
<1>14. StmtsMatchConn'
  BY <1>1, <1>2, <1>3 DEF StmtsMatchConn
<1>15. ZombiePinned'
  BY <1>1, <1>2, <1>3 DEF ZombiePinned
<1>16. OpenIsReachable'
  BY <1>1, <1>2, <1>3 DEF OpenIsReachable
<1>17. NullsClosed'
  BY <1>1, <1>2, <1>3 DEF NullsClosed
<1>18. ClosedIsEmpty'
  BY <1>1, <1>2, <1>3 DEF ClosedIsEmpty, NotClosing, Closed
<1> QED
  BY <1>3, <1>4, <1>5, <1>6, <1>7, <1>8, <1>9, <1>10,
     <1>11, <1>12, <1>13, <1>14, <1>15, <1>16, <1>17, <1>18 DEF DbInv

\* A call reads the shared connection.
LEMMA DbLookupSharedPreserves ==
  ASSUME DbInv, NEW t \in DbThreads, DbLookupShared(t),
         dbShared[dbCur[t]] # NoConn
  PROVE  DbInv'
<1> USE DbAssumption DEF Sets, Dbs
<1>1. /\ DbTypeOK /\ AddrState /\ CallNames /\ OneCloser /\ OverlapKnown
      /\ RegisteredOpen /\ OpenedOpen /\ SharedOpen /\ UsesResolved
      /\ HeldIsOwn /\ HeldOnce /\ StmtsMatchConn
      /\ ZombiePinned /\ OpenIsReachable /\ NullsClosed /\ ClosedIsEmpty /\ Typed
  BY TypedHolds DEF DbInv
<1>2. /\ dbPc[t] = "checked" /\ dbCur[t] \in MemDbs /\ dbShared[dbCur[t]] \in DbAddrs
      /\ Sets(dbPc', dbPc, DbThreads, t, "using")
      /\ Sets(dbAt', dbAt, DbThreads, t, dbShared[dbCur[t]])
      /\ UNCHANGED <<dbOpened, dbCloser, dbConns, dbShared, dbTls,
                   dbCache, dbSt, dbOf, dbIns, dbLeak, dbCur, dbOverlap>>
  BY <1>1 DEF DbTypeOK, DbLookupShared, Return, registry, sqlite, SetsSlot, Opens,
     MayInsertOn, AddsStmt, Closes, InCall
<1>3. DbTypeOK'
  <2>1. dbAt' \in [DbThreads -> DbAddrs \cup {NoConn}]
    BY <1>1, <1>2 DEF DbTypeOK, DbLookupShared
  <2>2. dbPc' \in [DbThreads -> {"idle"} \cup InCall \cup Closing]
    <3>1. dbPc' = [dbPc EXCEPT ![t] = "using"]
      BY <1>2 DEF DbLookupShared, Return
    <3>2. "using" \in InCall
      BY DEF InCall
    <3> QED
      BY <1>1, <3>1, <3>2 DEF DbTypeOK
  <2> QED
    BY <1>1, <1>2, <2>1, <2>2 DEF DbTypeOK
<1>4. AddrState'
  BY <1>1, <1>2, <1>3 DEF AddrState, Closed
<1>5. CallNames'
  BY <1>1, <1>2, <1>3 DEF CallNames
<1>6. OneCloser'
  BY <1>1, <1>2, <1>3 DEF OneCloser, Closed, Typed
<1>7. OverlapKnown'
  BY <1>1, <1>2, <1>3 DEF OverlapKnown, Closed, Typed
<1>8. RegisteredOpen'
  BY <1>1, <1>2, <1>3 DEF RegisteredOpen, Typed
<1>9. OpenedOpen'
  BY <1>1, <1>2, <1>3 DEF OpenedOpen
<1>10. SharedOpen'
  BY <1>1, <1>2, <1>3 DEF SharedOpen, Typed
<1>11. UsesResolved'
  BY <1>1, <1>2, <1>3 DEF UsesResolved, Closed, Typed
<1>12. HeldIsOwn'
  BY <1>1, <1>2, <1>3 DEF HeldIsOwn, Holds, OwnRowid, Closed
<1>13. HeldOnce'
  BY <1>1, <1>2, <1>3 DEF HeldOnce, Holds, Closed
<1>14. StmtsMatchConn'
  BY <1>1, <1>2, <1>3 DEF StmtsMatchConn
<1>15. ZombiePinned'
  BY <1>1, <1>2, <1>3 DEF ZombiePinned
<1>16. OpenIsReachable'
  BY <1>1, <1>2, <1>3 DEF OpenIsReachable
<1>17. NullsClosed'
  BY <1>1, <1>2, <1>3 DEF NullsClosed
<1>18. ClosedIsEmpty'
  BY <1>1, <1>2, <1>3 DEF ClosedIsEmpty, NotClosing, Closed
<1> QED
  BY <1>3, <1>4, <1>5, <1>6, <1>7, <1>8, <1>9, <1>10,
     <1>11, <1>12, <1>13, <1>14, <1>15, <1>16, <1>17, <1>18 DEF DbInv

\* A call finds a connection in its slot.
LEMMA DbLookupSlotPreserves ==
  ASSUME DbInv, NEW t \in DbThreads, DbLookupSlot(t)
  PROVE  DbInv'
<1> USE DbAssumption DEF Sets, Dbs
<1>1. /\ DbTypeOK /\ AddrState /\ CallNames /\ OneCloser /\ OverlapKnown
      /\ RegisteredOpen /\ OpenedOpen /\ SharedOpen /\ UsesResolved
      /\ HeldIsOwn /\ HeldOnce /\ StmtsMatchConn
      /\ ZombiePinned /\ OpenIsReachable /\ NullsClosed /\ ClosedIsEmpty /\ Typed
  BY TypedHolds DEF DbInv
<1>2. /\ dbPc[t] = "checked" /\ dbCur[t] \in FileDbs /\ dbTls[t][dbCur[t]] \in DbAddrs
      /\ Sets(dbPc', dbPc, DbThreads, t, "using")
      /\ Sets(dbAt', dbAt, DbThreads, t, dbTls[t][dbCur[t]])
      /\ UNCHANGED <<dbOpened, dbCloser, dbConns, dbShared, dbTls,
                   dbCache, dbSt, dbOf, dbIns, dbLeak, dbCur, dbOverlap>>
  BY <1>1 DEF DbTypeOK, DbLookupSlot, registry, sqlite, SetsSlot, Opens,
     MayInsertOn, AddsStmt, Closes, InCall
<1>3. DbTypeOK'
  <2>1. dbAt' \in [DbThreads -> DbAddrs \cup {NoConn}]
    BY <1>1, <1>2 DEF DbTypeOK, DbLookupSlot
  <2>2. dbPc' \in [DbThreads -> {"idle"} \cup InCall \cup Closing]
    BY <1>1 DEF DbTypeOK, DbLookupSlot, InCall
  <2> QED
    BY <1>1, <1>2, <2>1, <2>2 DEF DbTypeOK
<1>4. AddrState'
  BY <1>1, <1>2, <1>3 DEF AddrState, Closed
<1>5. CallNames'
  BY <1>1, <1>2, <1>3 DEF CallNames
<1>6. OneCloser'
  BY <1>1, <1>2, <1>3 DEF OneCloser, Closed, Typed
<1>7. OverlapKnown'
  BY <1>1, <1>2, <1>3 DEF OverlapKnown, Closed, Typed
<1>8. RegisteredOpen'
  BY <1>1, <1>2, <1>3 DEF RegisteredOpen, Typed
<1>9. OpenedOpen'
  BY <1>1, <1>2, <1>3 DEF OpenedOpen
<1>10. SharedOpen'
  BY <1>1, <1>2, <1>3 DEF SharedOpen, Typed
<1>11. UsesResolved'
  BY <1>1, <1>2, <1>3 DEF UsesResolved, Closed, Typed
<1>12. HeldIsOwn'
  BY <1>1, <1>2, <1>3 DEF HeldIsOwn, Holds, OwnRowid, Closed
<1>13. HeldOnce'
  BY <1>1, <1>2, <1>3 DEF HeldOnce, Holds, Closed
<1>14. StmtsMatchConn'
  BY <1>1, <1>2, <1>3 DEF StmtsMatchConn
<1>15. ZombiePinned'
  BY <1>1, <1>2, <1>3 DEF ZombiePinned
<1>16. OpenIsReachable'
  BY <1>1, <1>2, <1>3 DEF OpenIsReachable
<1>17. NullsClosed'
  BY <1>1, <1>2, <1>3 DEF NullsClosed
<1>18. ClosedIsEmpty'
  BY <1>1, <1>2, <1>3 DEF ClosedIsEmpty, NotClosing, Closed
<1> QED
  BY <1>3, <1>4, <1>5, <1>6, <1>7, <1>8, <1>9, <1>10,
     <1>11, <1>12, <1>13, <1>14, <1>15, <1>16, <1>17, <1>18 DEF DbInv

\* A call opens the thread's connection to a file.
LEMMA DbLookupOpenPreserves ==
  ASSUME DbInv, NEW t \in DbThreads, DbLookupOpen(t),
         dbPc'[t] = "opened"
  PROVE  DbInv'
<1> USE DbAssumption DEF Sets, Dbs
<1>1. /\ DbTypeOK /\ AddrState /\ CallNames /\ OneCloser /\ OverlapKnown
      /\ RegisteredOpen /\ OpenedOpen /\ SharedOpen /\ UsesResolved
      /\ HeldIsOwn /\ HeldOnce /\ StmtsMatchConn
      /\ ZombiePinned /\ OpenIsReachable /\ NullsClosed /\ ClosedIsEmpty /\ Typed
  BY TypedHolds DEF DbInv
<1>2. PICK a \in DbAddrs :
         /\ dbPc[t] = "checked" /\ dbCur[t] \in FileDbs
         /\ SqliteOpen(a, dbCur[t]) /\ dbAt' = [dbAt EXCEPT ![t] = a]
         /\ dbPc' = [dbPc EXCEPT ![t] = "opened"]
         /\ UNCHANGED <<dbOpened, dbCloser, dbConns, dbShared,
                      dbTls, dbCache, dbLeak, dbCur, dbOverlap>>
  BY <1>1 DEF DbLookupOpen, SqliteOpen, Return, registry, DbTypeOK
<1>3. /\ Opens(a, dbCur[t])
      /\ Sets(dbPc', dbPc, DbThreads, t, "opened")
      /\ Sets(dbAt', dbAt, DbThreads, t, a)
      /\ dbSt[a] = "free"
  BY <1>1, <1>2 DEF DbTypeOK, SqliteOpen, SetsSlot, Opens
<1>4. DbTypeOK'
  BY <1>1, <1>2 DEF DbTypeOK, InCall, Closing, SqliteOpen
<1>5. AddrState'
  BY <1>1, <1>2, <1>3, <1>4 DEF AddrState, Closed, Opens, CallNames
<1>6. CallNames'
  BY <1>1, <1>2, <1>3, <1>4 DEF CallNames, Opens
<1>7. OneCloser'
  BY <1>1, <1>2, <1>3, <1>4 DEF OneCloser, Closed, Typed, Opens
<1>8. OverlapKnown'
  BY <1>1, <1>2, <1>3, <1>4 DEF OverlapKnown, Closed, Typed, Opens
<1>9. RegisteredOpen'
  BY <1>1, <1>2, <1>3, <1>4 DEF RegisteredOpen, Typed, Opens
<1>10. OpenedOpen'
  BY <1>1, <1>2, <1>3, <1>4 DEF OpenedOpen, Opens, RegisteredOpen, Typed
<1>11. SharedOpen'
  BY <1>1, <1>2, <1>3, <1>4 DEF SharedOpen, Typed, Opens
<1>12. UsesResolved'
  BY <1>1, <1>2, <1>3, <1>4 DEF UsesResolved, Closed, Typed, Opens
<1>13. HeldIsOwn'
  BY <1>1, <1>2, <1>3, <1>4 DEF HeldIsOwn, Holds, OwnRowid, Closed, Opens
<1>14. HeldOnce'
  BY <1>1, <1>2, <1>3, <1>4 DEF HeldOnce, Holds, Closed, Opens, HeldIsOwn,
     Typed
<1>15. StmtsMatchConn'
  BY <1>1, <1>2, <1>3, <1>4 DEF StmtsMatchConn, Opens
<1>16. ZombiePinned'
  BY <1>1, <1>2, <1>3, <1>4 DEF ZombiePinned, Opens
<1>17. OpenIsReachable'
  BY <1>1, <1>2, <1>3, <1>4 DEF OpenIsReachable, Opens, OpenedOpen
<1>18. NullsClosed'
  BY <1>1, <1>2, <1>3, <1>4 DEF NullsClosed, Opens, OneCloser, CallNames,
     OverlapKnown
<1>19. ClosedIsEmpty'
  BY <1>1, <1>2, <1>3, <1>4 DEF ClosedIsEmpty, NotClosing, Closed, Opens
<1> QED
  BY <1>4, <1>5, <1>6, <1>7, <1>8, <1>9, <1>10, <1>11,
     <1>12, <1>13, <1>14, <1>15, <1>16, <1>17, <1>18, <1>19 DEF DbInv

\* The open fails, and the call returns.
LEMMA DbLookupFailPreserves ==
  ASSUME DbInv, NEW t \in DbThreads, DbLookupOpen(t),
         dbPc'[t] # "opened"
  PROVE  DbInv'
<1> USE DbAssumption DEF Sets, Dbs
<1>1. /\ DbTypeOK /\ AddrState /\ CallNames /\ OneCloser /\ OverlapKnown
      /\ RegisteredOpen /\ OpenedOpen /\ SharedOpen /\ UsesResolved
      /\ HeldIsOwn /\ HeldOnce /\ StmtsMatchConn
      /\ ZombiePinned /\ OpenIsReachable /\ NullsClosed /\ ClosedIsEmpty /\ Typed
  BY TypedHolds DEF DbInv
<1>2. /\ dbPc[t] = "checked"
      /\ Sets(dbPc', dbPc, DbThreads, t, "idle")
      /\ Sets(dbCur', dbCur, DbThreads, t, NoDb)
      /\ Sets(dbAt', dbAt, DbThreads, t, NoConn)
      /\ UNCHANGED <<dbOpened, dbCloser, dbConns, dbShared, dbTls,
                   dbCache, dbSt, dbOf, dbIns, dbLeak, dbOverlap>>
  BY <1>1 DEF DbTypeOK, DbLookupOpen, SqliteOpen, Return, registry, sqlite, SetsSlot, Opens,
     MayInsertOn, AddsStmt, Closes, InCall
<1>3. DbTypeOK'
  <2>1. Return(t) /\ UNCHANGED <<registry, sqlite, dbTls, dbCache, dbOverlap>>
    BY <1>1 DEF DbLookupOpen, DbTypeOK
  <2> QED
    BY <1>1, <2>1 DEF DbTypeOK, Return, registry, sqlite
<1>4. AddrState'
  BY <1>1, <1>2, <1>3 DEF AddrState, Closed
<1>5. CallNames'
  BY <1>1, <1>2, <1>3 DEF CallNames
<1>6. OneCloser'
  BY <1>1, <1>2, <1>3 DEF OneCloser, Closed, Typed
<1>7. OverlapKnown'
  BY <1>1, <1>2, <1>3 DEF OverlapKnown, Closed, Typed
<1>8. RegisteredOpen'
  BY <1>1, <1>2, <1>3 DEF RegisteredOpen, Typed
<1>9. OpenedOpen'
  BY <1>1, <1>2, <1>3 DEF OpenedOpen
<1>10. SharedOpen'
  BY <1>1, <1>2, <1>3 DEF SharedOpen, Typed
<1>11. UsesResolved'
  BY <1>1, <1>2, <1>3 DEF UsesResolved, Closed, Typed
<1>12. HeldIsOwn'
  BY <1>1, <1>2, <1>3 DEF HeldIsOwn, Holds, OwnRowid, Closed
<1>13. HeldOnce'
  BY <1>1, <1>2, <1>3 DEF HeldOnce, Holds, Closed
<1>14. StmtsMatchConn'
  BY <1>1, <1>2, <1>3 DEF StmtsMatchConn
<1>15. ZombiePinned'
  BY <1>1, <1>2, <1>3 DEF ZombiePinned
<1>16. OpenIsReachable'
  BY <1>1, <1>2, <1>3 DEF OpenIsReachable
<1>17. NullsClosed'
  BY <1>1, <1>2, <1>3 DEF NullsClosed
<1>18. ClosedIsEmpty'
  BY <1>1, <1>2, <1>3 DEF ClosedIsEmpty, NotClosing, Closed
<1> QED
  BY <1>3, <1>4, <1>5, <1>6, <1>7, <1>8, <1>9, <1>10,
     <1>11, <1>12, <1>13, <1>14, <1>15, <1>16, <1>17, <1>18 DEF DbInv

\* A new connection is registered and put in the slot.
LEMMA DbPushPreserves ==
  ASSUME DbInv, NEW t \in DbThreads, DbPush(t)
  PROVE  DbInv'
<1> USE DbAssumption DEF Sets, Dbs
<1>1. /\ DbTypeOK /\ AddrState /\ CallNames /\ OneCloser /\ OverlapKnown
      /\ RegisteredOpen /\ OpenedOpen /\ SharedOpen /\ UsesResolved
      /\ HeldIsOwn /\ HeldOnce /\ StmtsMatchConn
      /\ ZombiePinned /\ OpenIsReachable /\ NullsClosed /\ ClosedIsEmpty /\ Typed
  BY TypedHolds DEF DbInv
<1>2. /\ dbPc[t] = "opened"
      /\ Sets(dbPc', dbPc, DbThreads, t, "using")
      /\ Sets(dbConns', dbConns, Dbs, dbCur[t], dbConns[dbCur[t]] \cup {dbAt[t]})
      /\ SetsSlot(t, dbCur[t], dbAt[t])
      /\ UNCHANGED <<dbOpened, dbCloser, dbShared, dbCache, dbSt,
                   dbOf, dbIns, dbLeak, dbCur, dbAt, dbOverlap>>
  BY <1>1 DEF DbTypeOK, DbPush, sqlite, SetsSlot, Opens,
     MayInsertOn, AddsStmt, Closes, InCall
<1>3. DbTypeOK'
  <2>1. dbCur[t] \in FileDbs /\ dbAt[t] \in DbAddrs
    BY <1>1, <1>2 DEF OpenedOpen
  <2>2. dbConns' \in [Dbs -> SUBSET DbAddrs]
    BY <1>1, <2>1 DEF DbTypeOK, DbPush
  <2>3. dbTls' \in [DbThreads -> [Dbs -> DbAddrs \cup {NoConn}]]
    BY <1>1, <2>1 DEF DbTypeOK, DbPush
  <2>4. dbPc' \in [DbThreads -> {"idle"} \cup InCall \cup Closing]
    BY <1>1 DEF DbTypeOK, DbPush, InCall
  <2> QED
    BY <1>1, <1>2, <2>2, <2>3, <2>4 DEF DbTypeOK, sqlite
<1>4. AddrState'
  BY <1>1, <1>2, <1>3 DEF AddrState, Closed, SetsSlot
<1>5. CallNames'
  BY <1>1, <1>2, <1>3 DEF CallNames, SetsSlot, OpenedOpen
<1>6. OneCloser'
  BY <1>1, <1>2, <1>3 DEF OneCloser, Closed, Typed, SetsSlot
<1>7. OverlapKnown'
  BY <1>1, <1>2, <1>3 DEF OverlapKnown, Closed, Typed, SetsSlot
<1>8. RegisteredOpen'
  BY <1>1, <1>2, <1>3 DEF RegisteredOpen, Typed, SetsSlot, OpenedOpen
<1>9. OpenedOpen'
  BY <1>1, <1>2, <1>3 DEF OpenedOpen, SetsSlot, HeldOnce
<1>10. SharedOpen'
  BY <1>1, <1>2, <1>3 DEF SharedOpen, Typed, SetsSlot
<1>11. UsesResolved'
  BY <1>1, <1>2, <1>3 DEF UsesResolved, Closed, Typed, SetsSlot, OpenedOpen
<1>12. HeldIsOwn'
  BY <1>1, <1>2, <1>3 DEF HeldIsOwn, Holds, OwnRowid, Closed, SetsSlot,
     OpenedOpen
<1>13. HeldOnce'
  BY <1>1, <1>2, <1>3 DEF HeldOnce, Holds, Closed, SetsSlot, OpenedOpen
<1>14. StmtsMatchConn'
  BY <1>1, <1>2, <1>3 DEF StmtsMatchConn, SetsSlot
<1>15. ZombiePinned'
  BY <1>1, <1>2, <1>3 DEF ZombiePinned, SetsSlot
<1>16. OpenIsReachable'
  BY <1>1, <1>2, <1>3 DEF OpenIsReachable, SetsSlot, OpenedOpen
<1>17. NullsClosed'
  BY <1>1, <1>2, <1>3 DEF NullsClosed, SetsSlot, OpenedOpen
<1>18. ClosedIsEmpty'
  BY <1>1, <1>2, <1>3 DEF ClosedIsEmpty, NotClosing, Closed, SetsSlot,
     OverlapKnown, OpenedOpen
<1> QED
  BY <1>3, <1>4, <1>5, <1>6, <1>7, <1>8, <1>9, <1>10,
     <1>11, <1>12, <1>13, <1>14, <1>15, <1>16, <1>17, <1>18 DEF DbInv

\* An INSERT runs on the connection in hand.
LEMMA DbInsertPreserves ==
  ASSUME DbInv, NEW t \in DbThreads, DbInsert(t)
  PROVE  DbInv'
<1> USE DbAssumption DEF Sets, Dbs
<1>1. /\ DbTypeOK /\ AddrState /\ CallNames /\ OneCloser /\ OverlapKnown
      /\ RegisteredOpen /\ OpenedOpen /\ SharedOpen /\ UsesResolved
      /\ HeldIsOwn /\ HeldOnce /\ StmtsMatchConn
      /\ ZombiePinned /\ OpenIsReachable /\ NullsClosed /\ ClosedIsEmpty /\ Typed
  BY TypedHolds DEF DbInv
<1>2. /\ dbPc[t] = "using" /\ dbSt[dbAt[t]] = "open"
      /\ Sets(dbPc', dbPc, DbThreads, t, "idle")
      /\ Sets(dbCur', dbCur, DbThreads, t, NoDb)
      /\ Sets(dbAt', dbAt, DbThreads, t, NoConn)
      /\ Sets(dbIns', dbIns, DbAddrs, dbAt[t], t)
      /\ UNCHANGED <<dbOpened, dbCloser, dbConns, dbShared, dbTls,
                   dbCache, dbSt, dbOf, dbLeak, dbOverlap>>
  BY <1>1 DEF DbTypeOK, DbInsert, Accepts, Return, registry, SetsSlot, Opens,
     MayInsertOn, AddsStmt, Closes, InCall
<1>3. DbTypeOK'
  BY <1>1 DEF DbTypeOK, InCall, Closing, DbInsert, Accepts, Return, registry
<1>4. AddrState'
  BY <1>1, <1>2, <1>3 DEF AddrState, Closed
<1>5. CallNames'
  BY <1>1, <1>2, <1>3 DEF CallNames
<1>6. OneCloser'
  BY <1>1, <1>2, <1>3 DEF OneCloser, Closed, Typed
<1>7. OverlapKnown'
  BY <1>1, <1>2, <1>3 DEF OverlapKnown, Closed, Typed
<1>8. RegisteredOpen'
  BY <1>1, <1>2, <1>3 DEF RegisteredOpen, Typed
<1>9. OpenedOpen'
  BY <1>1, <1>2, <1>3 DEF OpenedOpen
<1>10. SharedOpen'
  BY <1>1, <1>2, <1>3 DEF SharedOpen, Typed
<1>11. UsesResolved'
  BY <1>1, <1>2, <1>3 DEF UsesResolved, Closed, Typed
<1>12. HeldIsOwn'
  <2> SUFFICES ASSUME NEW u \in DbThreads, NEW b \in DbAddrs, NEW d \in FileDbs,
                      Holds(u, b, d)', ~Closed(d)'
               PROVE  (dbSt[b] = "open" /\ dbOf[b] = d /\ OwnRowid(u, b))'
    BY DEF HeldIsOwn
  <2>1. Holds(u, b, d) /\ ~Closed(d)
    BY <1>2 DEF Holds, Closed
  <2>2. dbSt[b] = "open" /\ dbOf[b] = d /\ OwnRowid(u, b)
    BY <1>1, <2>1 DEF HeldIsOwn
  <2>3. CASE dbIns'[b] = dbIns[b]
    BY <1>2, <2>2, <2>3 DEF OwnRowid
  <2>4. CASE dbIns'[b] # dbIns[b]
    <3>1. b = dbAt[t] /\ dbIns'[b] = t
      BY <1>2, <2>4 DEF MayInsertOn
    <3>2. t = u \/ \E e \in Dbs : <<t, e>> \in dbOverlap
      BY <1>2, <2>1, <3>1, UserOwns
    <3> QED
      BY <1>2, <2>2, <3>1, <3>2 DEF OwnRowid
  <2> QED
    BY <2>3, <2>4
<1>13. HeldOnce'
  BY <1>1, <1>2, <1>3 DEF HeldOnce, Holds, Closed
<1>14. StmtsMatchConn'
  BY <1>1, <1>2, <1>3 DEF StmtsMatchConn
<1>15. ZombiePinned'
  BY <1>1, <1>2, <1>3 DEF ZombiePinned
<1>16. OpenIsReachable'
  BY <1>1, <1>2, <1>3 DEF OpenIsReachable
<1>17. NullsClosed'
  BY <1>1, <1>2, <1>3 DEF NullsClosed
<1>18. ClosedIsEmpty'
  BY <1>1, <1>2, <1>3 DEF ClosedIsEmpty, NotClosing, Closed
<1> QED
  BY <1>3, <1>4, <1>5, <1>6, <1>7, <1>8, <1>9, <1>10,
     <1>11, <1>12, <1>13, <1>14, <1>15, <1>16, <1>17, <1>18 DEF DbInv

\* SQLite turns the call down.
LEMMA DbRejectedPreserves ==
  ASSUME DbInv, NEW t \in DbThreads, DbRejected(t)
  PROVE  DbInv'
<1> USE DbAssumption DEF Sets, Dbs
<1>1. /\ DbTypeOK /\ AddrState /\ CallNames /\ OneCloser /\ OverlapKnown
      /\ RegisteredOpen /\ OpenedOpen /\ SharedOpen /\ UsesResolved
      /\ HeldIsOwn /\ HeldOnce /\ StmtsMatchConn
      /\ ZombiePinned /\ OpenIsReachable /\ NullsClosed /\ ClosedIsEmpty /\ Typed
  BY TypedHolds DEF DbInv
<1>2. /\ dbPc[t] = "using"
      /\ Sets(dbPc', dbPc, DbThreads, t, "idle")
      /\ Sets(dbCur', dbCur, DbThreads, t, NoDb)
      /\ Sets(dbAt', dbAt, DbThreads, t, NoConn)
      /\ UNCHANGED <<dbOpened, dbCloser, dbConns, dbShared, dbTls,
                   dbCache, dbSt, dbOf, dbIns, dbLeak, dbOverlap>>
  BY <1>1 DEF DbTypeOK, DbRejected, Return, registry, sqlite, SetsSlot, Opens,
     MayInsertOn, AddsStmt, Closes, InCall
<1>3. DbTypeOK'
  BY <1>1 DEF DbTypeOK, InCall, Closing, DbRejected, Return, registry, sqlite
<1>4. AddrState'
  BY <1>1, <1>2, <1>3 DEF AddrState, Closed
<1>5. CallNames'
  BY <1>1, <1>2, <1>3 DEF CallNames
<1>6. OneCloser'
  BY <1>1, <1>2, <1>3 DEF OneCloser, Closed, Typed
<1>7. OverlapKnown'
  BY <1>1, <1>2, <1>3 DEF OverlapKnown, Closed, Typed
<1>8. RegisteredOpen'
  BY <1>1, <1>2, <1>3 DEF RegisteredOpen, Typed
<1>9. OpenedOpen'
  BY <1>1, <1>2, <1>3 DEF OpenedOpen
<1>10. SharedOpen'
  BY <1>1, <1>2, <1>3 DEF SharedOpen, Typed
<1>11. UsesResolved'
  BY <1>1, <1>2, <1>3 DEF UsesResolved, Closed, Typed
<1>12. HeldIsOwn'
  BY <1>1, <1>2, <1>3 DEF HeldIsOwn, Holds, OwnRowid, Closed
<1>13. HeldOnce'
  BY <1>1, <1>2, <1>3 DEF HeldOnce, Holds, Closed
<1>14. StmtsMatchConn'
  BY <1>1, <1>2, <1>3 DEF StmtsMatchConn
<1>15. ZombiePinned'
  BY <1>1, <1>2, <1>3 DEF ZombiePinned
<1>16. OpenIsReachable'
  BY <1>1, <1>2, <1>3 DEF OpenIsReachable
<1>17. NullsClosed'
  BY <1>1, <1>2, <1>3 DEF NullsClosed
<1>18. ClosedIsEmpty'
  BY <1>1, <1>2, <1>3 DEF ClosedIsEmpty, NotClosing, Closed
<1> QED
  BY <1>3, <1>4, <1>5, <1>6, <1>7, <1>8, <1>9, <1>10,
     <1>11, <1>12, <1>13, <1>14, <1>15, <1>16, <1>17, <1>18 DEF DbInv

\* A cached statement runs.
LEMMA DbPreparedHitPreserves ==
  ASSUME DbInv, NEW t \in DbThreads, NEW s \in DbSqls, DbPreparedHit(t, s)
  PROVE  DbInv'
<1> USE DbAssumption DEF Sets, Dbs
<1>1. /\ DbTypeOK /\ AddrState /\ CallNames /\ OneCloser /\ OverlapKnown
      /\ RegisteredOpen /\ OpenedOpen /\ SharedOpen /\ UsesResolved
      /\ HeldIsOwn /\ HeldOnce /\ StmtsMatchConn
      /\ ZombiePinned /\ OpenIsReachable /\ NullsClosed /\ ClosedIsEmpty /\ Typed
  BY TypedHolds DEF DbInv
<1>2. /\ dbPc[t] = "using" /\ dbAt[t] \in DbAddrs
      /\ Sets(dbPc', dbPc, DbThreads, t, "idle")
      /\ Sets(dbCur', dbCur, DbThreads, t, NoDb)
      /\ Sets(dbAt', dbAt, DbThreads, t, NoConn)
      /\ MayInsertOn(t, dbAt[t])
      /\ UNCHANGED <<dbOpened, dbCloser, dbConns, dbShared, dbTls,
                   dbCache, dbSt, dbOf, dbLeak, dbOverlap>>
  <2>1. dbPc[t] = "using" /\ dbAt[t] \in DbAddrs
    BY <1>1 DEF DbPreparedHit, CallNames
  <2>2. MayInsertOn(t, dbAt[t])
    BY <1>1, <2>1 DEF DbPreparedHit, MayInsert, MayInsertOn, DbTypeOK
  <2> QED
    BY <1>1, <2>1, <2>2 DEF DbTypeOK, DbPreparedHit, Return, registry
<1>3. DbTypeOK'
  <2>1. dbIns' \in [DbAddrs -> DbThreads \cup {NoThread}]
    BY <1>1, <1>2 DEF DbTypeOK, MayInsert, DbPreparedHit
  <2>2. dbPc' \in [DbThreads -> {"idle"} \cup InCall \cup Closing]
    BY <1>1 DEF DbTypeOK, DbPreparedHit, Return
  <2>3. /\ dbCur' \in [DbThreads -> Dbs \cup {NoDb}]
        /\ dbAt' \in [DbThreads -> DbAddrs \cup {NoConn}]
    BY <1>1 DEF DbTypeOK, DbPreparedHit, Return
  <2> QED
    BY <1>1, <1>2, <2>1, <2>2, <2>3 DEF DbTypeOK
<1>4. AddrState'
  BY <1>1, <1>2, <1>3 DEF AddrState, Closed, MayInsertOn
<1>5. CallNames'
  BY <1>1, <1>2, <1>3 DEF CallNames, MayInsertOn
<1>6. OneCloser'
  BY <1>1, <1>2, <1>3 DEF OneCloser, Closed, Typed, MayInsertOn
<1>7. OverlapKnown'
  BY <1>1, <1>2, <1>3 DEF OverlapKnown, Closed, Typed, MayInsertOn
<1>8. RegisteredOpen'
  BY <1>1, <1>2, <1>3 DEF RegisteredOpen, Typed, MayInsertOn
<1>9. OpenedOpen'
  BY <1>1, <1>2, <1>3 DEF OpenedOpen, MayInsertOn
<1>10. SharedOpen'
  BY <1>1, <1>2, <1>3 DEF SharedOpen, Typed, MayInsertOn
<1>11. UsesResolved'
  BY <1>1, <1>2, <1>3 DEF UsesResolved, Closed, Typed, MayInsertOn
<1>12. HeldIsOwn'
  <2> SUFFICES ASSUME NEW u \in DbThreads, NEW b \in DbAddrs, NEW d \in FileDbs,
                      Holds(u, b, d)', ~Closed(d)'
               PROVE  (dbSt[b] = "open" /\ dbOf[b] = d /\ OwnRowid(u, b))'
    BY DEF HeldIsOwn
  <2>1. Holds(u, b, d) /\ ~Closed(d)
    BY <1>2 DEF Holds, Closed
  <2>2. dbSt[b] = "open" /\ dbOf[b] = d /\ OwnRowid(u, b)
    BY <1>1, <2>1 DEF HeldIsOwn
  <2>3. CASE dbIns'[b] = dbIns[b]
    BY <1>2, <2>2, <2>3 DEF OwnRowid
  <2>4. CASE dbIns'[b] # dbIns[b]
    <3>1. b = dbAt[t] /\ dbIns'[b] = t
      BY <1>2, <2>4 DEF MayInsertOn
    <3>2. t = u \/ \E e \in Dbs : <<t, e>> \in dbOverlap
      BY <1>2, <2>1, <3>1, UserOwns
    <3> QED
      BY <1>2, <2>2, <3>1, <3>2 DEF OwnRowid
  <2> QED
    BY <2>3, <2>4
<1>13. HeldOnce'
  BY <1>1, <1>2, <1>3 DEF HeldOnce, Holds, Closed, MayInsertOn
<1>14. StmtsMatchConn'
  BY <1>1, <1>2, <1>3 DEF StmtsMatchConn, MayInsertOn
<1>15. ZombiePinned'
  BY <1>1, <1>2, <1>3 DEF ZombiePinned, MayInsertOn
<1>16. OpenIsReachable'
  BY <1>1, <1>2, <1>3 DEF OpenIsReachable, MayInsertOn
<1>17. NullsClosed'
  BY <1>1, <1>2, <1>3 DEF NullsClosed, MayInsertOn
<1>18. ClosedIsEmpty'
  BY <1>1, <1>2, <1>3 DEF ClosedIsEmpty, NotClosing, Closed, MayInsertOn
<1> QED
  BY <1>3, <1>4, <1>5, <1>6, <1>7, <1>8, <1>9, <1>10,
     <1>11, <1>12, <1>13, <1>14, <1>15, <1>16, <1>17, <1>18 DEF DbInv

\* A statement that was prepared is in the cache.
LEMMA MissCaches ==
  ASSUME DbInv, NEW t \in DbThreads, NEW s \in DbSqls, DbPreparedMiss(t, s)
  PROVE  /\ dbCache' \in [DbThreads -> [DbAddrs -> Seq(Stmts)]]
         /\ AddsStmt(t, dbAt[t])
<1> DEFINE a == dbAt[t]
           new == Append(Evicted(dbCache[t][a]), [sql |-> s, of |-> dbOf[a]])
<1>1. a \in DbAddrs /\ dbSt[a] = "open" /\ dbCache[t][a] \in Seq(Stmts)
  BY DEF DbInv, DbTypeOK, CallNames, DbPreparedMiss, Accepts
<1>2. [sql |-> s, of |-> dbOf[a]] \in Stmts
  BY <1>1, TypedHolds DEF DbInv, AddrState, Typed, Stmts
<1>3. /\ new \in Seq(Stmts) /\ new # <<>>
      /\ \A i \in DOMAIN new :
            \/ new[i] = [sql |-> s, of |-> dbOf[a]]
            \/ \E j \in DOMAIN dbCache[t][a] : new[i] = dbCache[t][a][j]
  BY <1>1, <1>2, CacheGrows
<1>4. dbCache' = [dbCache EXCEPT ![t][a] = new]
  BY DEF DbPreparedMiss
<1>5. dbCache \in [DbThreads -> [DbAddrs -> Seq(Stmts)]]
  BY DEF DbInv, DbTypeOK
<1> HIDE DEF a, new
<1>6. /\ dbCache'[t][a] = new
      /\ \A u \in DbThreads, b \in DbAddrs :
            u # t \/ b # a => dbCache'[u][b] = dbCache[u][b]
      /\ dbCache' \in [DbThreads -> [DbAddrs -> Seq(Stmts)]]
  BY <1>1, <1>3, <1>4, <1>5
<1>7. AddsStmt(t, a)
  BY <1>3, <1>6 DEF AddsStmt
<1> QED
  BY <1>6, <1>7 DEF a

\* A statement is prepared and cached.
LEMMA DbPreparedMissPreserves ==
  ASSUME DbInv, NEW t \in DbThreads, NEW s \in DbSqls, DbPreparedMiss(t, s)
  PROVE  DbInv'
<1> USE DbAssumption DEF Sets, Dbs
<1>1. /\ DbTypeOK /\ AddrState /\ CallNames /\ OneCloser /\ OverlapKnown
      /\ RegisteredOpen /\ OpenedOpen /\ SharedOpen /\ UsesResolved
      /\ HeldIsOwn /\ HeldOnce /\ StmtsMatchConn
      /\ ZombiePinned /\ OpenIsReachable /\ NullsClosed /\ ClosedIsEmpty /\ Typed
  BY TypedHolds DEF DbInv
<1>2. /\ dbPc[t] = "using" /\ dbAt[t] \in DbAddrs /\ dbSt[dbAt[t]] = "open"
      /\ Sets(dbPc', dbPc, DbThreads, t, "idle")
      /\ Sets(dbCur', dbCur, DbThreads, t, NoDb)
      /\ Sets(dbAt', dbAt, DbThreads, t, NoConn)
      /\ MayInsertOn(t, dbAt[t])
      /\ AddsStmt(t, dbAt[t])
      /\ UNCHANGED <<dbOpened, dbCloser, dbConns, dbShared, dbTls,
                   dbSt, dbOf, dbLeak, dbOverlap>>
  <2>1. dbPc[t] = "using" /\ dbAt[t] \in DbAddrs /\ dbSt[dbAt[t]] = "open"
    BY <1>1 DEF DbPreparedMiss, Accepts, CallNames
  <2>2. MayInsertOn(t, dbAt[t])
    BY <1>1, <2>1 DEF DbPreparedMiss, MayInsert, MayInsertOn, DbTypeOK
  <2>3. AddsStmt(t, dbAt[t])
    BY MissCaches
  <2> QED
    BY <1>1, <2>1, <2>2, <2>3 DEF DbTypeOK, DbPreparedMiss, Return, registry
<1>3. DbTypeOK'
  <2>1. dbIns' \in [DbAddrs -> DbThreads \cup {NoThread}]
    <3>1. \/ dbIns' = dbIns
          \/ dbIns' = [dbIns EXCEPT ![dbAt[t]] = t]
      BY DEF DbPreparedMiss, MayInsert
    <3>2. dbIns \in [DbAddrs -> DbThreads \cup {NoThread}]
      BY <1>1 DEF DbTypeOK
    <3> QED
      BY <3>1, <3>2
  <2>2. dbPc' \in [DbThreads -> {"idle"} \cup InCall \cup Closing]
    <3>1. dbPc' = [dbPc EXCEPT ![t] = "idle"]
      BY DEF DbPreparedMiss, Return
    <3> QED
      BY <1>1, <3>1 DEF DbTypeOK
  <2>3. /\ dbCur' \in [DbThreads -> Dbs \cup {NoDb}]
        /\ dbAt' \in [DbThreads -> DbAddrs \cup {NoConn}]
    BY <1>1 DEF DbTypeOK, DbPreparedMiss, Return
  <2>4. dbCache' \in [DbThreads -> [DbAddrs -> Seq(Stmts)]]
    BY MissCaches
  <2> QED
    BY <1>1, <1>2, <2>4, <2>1, <2>2, <2>3 DEF DbTypeOK
<1>4. AddrState'
  BY <1>1, <1>2, <1>3 DEF AddrState, Closed, MayInsertOn, AddsStmt
<1>5. CallNames'
  BY <1>1, <1>2, <1>3 DEF CallNames, MayInsertOn, AddsStmt
<1>6. OneCloser'
  BY <1>1, <1>2, <1>3 DEF OneCloser, Closed, Typed, MayInsertOn, AddsStmt
<1>7. OverlapKnown'
  BY <1>1, <1>2, <1>3 DEF OverlapKnown, Closed, Typed, MayInsertOn, AddsStmt
<1>8. RegisteredOpen'
  BY <1>1, <1>2, <1>3 DEF RegisteredOpen, Typed, MayInsertOn, AddsStmt
<1>9. OpenedOpen'
  BY <1>1, <1>2, <1>3 DEF OpenedOpen, MayInsertOn, AddsStmt
<1>10. SharedOpen'
  BY <1>1, <1>2, <1>3 DEF SharedOpen, Typed, MayInsertOn, AddsStmt
<1>11. UsesResolved'
  BY <1>1, <1>2, <1>3 DEF UsesResolved, Closed, Typed, MayInsertOn, AddsStmt
<1>12. HeldIsOwn'
  <2> SUFFICES ASSUME NEW u \in DbThreads, NEW b \in DbAddrs, NEW d \in FileDbs,
                      Holds(u, b, d)', ~Closed(d)'
               PROVE  (dbSt[b] = "open" /\ dbOf[b] = d /\ OwnRowid(u, b))'
    BY DEF HeldIsOwn
  <2>1. Holds(u, b, d) /\ ~Closed(d)
    BY <1>2 DEF Holds, Closed
  <2>2. dbSt[b] = "open" /\ dbOf[b] = d /\ OwnRowid(u, b)
    BY <1>1, <2>1 DEF HeldIsOwn
  <2>3. CASE dbIns'[b] = dbIns[b]
    BY <1>2, <2>2, <2>3 DEF OwnRowid
  <2>4. CASE dbIns'[b] # dbIns[b]
    <3>1. b = dbAt[t] /\ dbIns'[b] = t
      BY <1>2, <2>4 DEF MayInsertOn
    <3>2. t = u \/ \E e \in Dbs : <<t, e>> \in dbOverlap
      BY <1>2, <2>1, <3>1, UserOwns
    <3> QED
      BY <1>2, <2>2, <3>1, <3>2 DEF OwnRowid
  <2> QED
    BY <2>3, <2>4
<1>13. HeldOnce'
  BY <1>1, <1>2, <1>3 DEF HeldOnce, Holds, Closed, MayInsertOn, AddsStmt
<1>14. StmtsMatchConn'
  BY <1>1, <1>2, <1>3 DEF StmtsMatchConn, MayInsertOn, AddsStmt
<1>15. ZombiePinned'
  BY <1>1, <1>2, <1>3 DEF ZombiePinned, MayInsertOn, AddsStmt
<1>16. OpenIsReachable'
  BY <1>1, <1>2, <1>3 DEF OpenIsReachable, MayInsertOn, AddsStmt
<1>17. NullsClosed'
  BY <1>1, <1>2, <1>3 DEF NullsClosed, MayInsertOn, AddsStmt
<1>18. ClosedIsEmpty'
  BY <1>1, <1>2, <1>3 DEF ClosedIsEmpty, NotClosing, Closed, MayInsertOn, AddsStmt
<1> QED
  BY <1>3, <1>4, <1>5, <1>6, <1>7, <1>8, <1>9, <1>10,
     <1>11, <1>12, <1>13, <1>14, <1>15, <1>16, <1>17, <1>18 DEF DbInv

\* The shared connection is closed.
LEMMA DbCloseSharedPreserves ==
  ASSUME DbInv, NEW t \in DbThreads, DbCloseShared(t)
  PROVE  DbInv'
<1> USE DbAssumption DEF Sets, Dbs
<1>1. /\ DbTypeOK /\ AddrState /\ CallNames /\ OneCloser /\ OverlapKnown
      /\ RegisteredOpen /\ OpenedOpen /\ SharedOpen /\ UsesResolved
      /\ HeldIsOwn /\ HeldOnce /\ StmtsMatchConn
      /\ ZombiePinned /\ OpenIsReachable /\ NullsClosed /\ ClosedIsEmpty /\ Typed
  BY TypedHolds DEF DbInv
<1>2. /\ dbPc[t] = "closing" /\ dbCur[t] \in MemDbs
      /\ Closes(t, {dbShared[dbCur[t]]})
      /\ Sets(dbPc', dbPc, DbThreads, t, "nulling")
      /\ UNCHANGED <<dbOpened, dbCloser, dbConns, dbShared, dbTls,
                   dbLeak, dbCur, dbAt, dbOverlap>>
  BY <1>1 DEF DbTypeOK, DbCloseShared, registry, SqliteClose, Pinned, Dropped, SetsSlot, Opens,
     MayInsertOn, AddsStmt, Closes, InCall
<1>3. /\ dbCur[t] \in Dbs /\ Closed(dbCur[t]) /\ dbCloser[dbCur[t]] = t
      /\ \A b \in DbAddrs : b = dbShared[dbCur[t]] =>
             dbSt[b] = "open" /\ dbOf[b] = dbCur[t]
  <2>1. dbCur[t] \in Dbs /\ dbCloser[dbCur[t]] = t
    BY <1>1, <1>2 DEF OneCloser, CallNames, Typed
  <2>2. ~ \E u \in DbThreads : dbPc[u] = "nulling" /\ dbCur[u] = dbCur[t]
    BY <1>1, <1>2, <2>1 DEF OneCloser
  <2> QED
    BY <1>1, <2>1, <2>2 DEF SharedOpen, Closed
<1>4. DbTypeOK'
  BY <1>1 DEF DbTypeOK, InCall, Closing, DbCloseShared, registry, SqliteClose, Pinned, Dropped
<1>5. AddrState'
  BY <1>1, <1>2, <1>3, <1>4 DEF AddrState, Closed, Closes
<1>6. CallNames'
  BY <1>1, <1>2, <1>3, <1>4 DEF CallNames, Closes
<1>7. OneCloser'
  BY <1>1, <1>2, <1>3, <1>4 DEF OneCloser, Closed, Typed, Closes
<1>8. OverlapKnown'
  BY <1>1, <1>2, <1>3, <1>4 DEF OverlapKnown, Closed, Typed, Closes
<1>9. RegisteredOpen'
  BY <1>1, <1>2, <1>3, <1>4 DEF RegisteredOpen, Typed, Closes
<1>10. OpenedOpen'
  BY <1>1, <1>2, <1>3, <1>4 DEF OpenedOpen, Closes
<1>11. SharedOpen'
  BY <1>1, <1>2, <1>3, <1>4 DEF SharedOpen, Typed, Closes
<1>12. UsesResolved'
  BY <1>1, <1>2, <1>3, <1>4 DEF UsesResolved, Closed, Typed, Closes
<1>13. HeldIsOwn'
  BY <1>1, <1>2, <1>3, <1>4 DEF HeldIsOwn, Holds, OwnRowid, Closed, Closes
<1>14. HeldOnce'
  BY <1>1, <1>2, <1>3, <1>4 DEF HeldOnce, Holds, Closed, Closes
<1>15. StmtsMatchConn'
  BY <1>1, <1>2, <1>3, <1>4 DEF StmtsMatchConn, Closes
<1>16. ZombiePinned'
  BY <1>1, <1>2, <1>3, <1>4 DEF ZombiePinned, Closes
<1>17. OpenIsReachable'
  BY <1>1, <1>2, <1>3, <1>4 DEF OpenIsReachable, Closes
<1>18. NullsClosed'
  BY <1>1, <1>2, <1>3, <1>4 DEF NullsClosed, Closes, OpenIsReachable,
     OneCloser
<1>19. ClosedIsEmpty'
  BY <1>1, <1>2, <1>3, <1>4 DEF ClosedIsEmpty, NotClosing, Closed, Closes
<1> QED
  BY <1>4, <1>5, <1>6, <1>7, <1>8, <1>9, <1>10, <1>11,
     <1>12, <1>13, <1>14, <1>15, <1>16, <1>17, <1>18, <1>19 DEF DbInv

\* The pointer to the shared connection is nulled.
LEMMA DbCloseNullPreserves ==
  ASSUME DbInv, NEW t \in DbThreads, DbCloseNull(t)
  PROVE  DbInv'
<1> USE DbAssumption DEF Sets, Dbs
<1>1. /\ DbTypeOK /\ AddrState /\ CallNames /\ OneCloser /\ OverlapKnown
      /\ RegisteredOpen /\ OpenedOpen /\ SharedOpen /\ UsesResolved
      /\ HeldIsOwn /\ HeldOnce /\ StmtsMatchConn
      /\ ZombiePinned /\ OpenIsReachable /\ NullsClosed /\ ClosedIsEmpty /\ Typed
  BY TypedHolds DEF DbInv
<1>2. /\ dbPc[t] = "nulling"
      /\ Sets(dbPc', dbPc, DbThreads, t, "idle")
      /\ Sets(dbCur', dbCur, DbThreads, t, NoDb)
      /\ Sets(dbAt', dbAt, DbThreads, t, NoConn)
      /\ Sets(dbShared', dbShared, Dbs, dbCur[t], NoConn)
      /\ SetsSlot(t, dbCur[t], NoConn)
      /\ UNCHANGED <<dbOpened, dbCloser, dbConns, dbCache, dbSt,
                   dbOf, dbIns, dbLeak, dbOverlap>>
  BY <1>1 DEF DbTypeOK, DbCloseNull, Return, sqlite, SetsSlot, Opens,
     MayInsertOn, AddsStmt, Closes, InCall
<1>3. DbTypeOK'
  BY <1>1 DEF DbTypeOK, InCall, Closing, DbCloseNull, Return, sqlite
<1>4. AddrState'
  BY <1>1, <1>2, <1>3 DEF AddrState, Closed, SetsSlot
<1>5. CallNames'
  BY <1>1, <1>2, <1>3 DEF CallNames, SetsSlot
<1>6. OneCloser'
  BY <1>1, <1>2, <1>3 DEF OneCloser, Closed, Typed, SetsSlot
<1>7. OverlapKnown'
  BY <1>1, <1>2, <1>3 DEF OverlapKnown, Closed, Typed, SetsSlot
<1>8. RegisteredOpen'
  BY <1>1, <1>2, <1>3 DEF RegisteredOpen, Typed, SetsSlot
<1>9. OpenedOpen'
  BY <1>1, <1>2, <1>3 DEF OpenedOpen, SetsSlot
<1>10. SharedOpen'
  BY <1>1, <1>2, <1>3 DEF SharedOpen, Typed, SetsSlot
<1>11. UsesResolved'
  BY <1>1, <1>2, <1>3 DEF UsesResolved, Closed, Typed, SetsSlot, OneCloser,
     CallNames
<1>12. HeldIsOwn'
  BY <1>1, <1>2, <1>3 DEF HeldIsOwn, Holds, OwnRowid, Closed, SetsSlot
<1>13. HeldOnce'
  BY <1>1, <1>2, <1>3 DEF HeldOnce, Holds, Closed, SetsSlot
<1>14. StmtsMatchConn'
  BY <1>1, <1>2, <1>3 DEF StmtsMatchConn, SetsSlot
<1>15. ZombiePinned'
  BY <1>1, <1>2, <1>3 DEF ZombiePinned, SetsSlot
<1>16. OpenIsReachable'
  BY <1>1, <1>2, <1>3 DEF OpenIsReachable, SetsSlot, NullsClosed, Typed,
     CallNames
<1>17. NullsClosed'
  BY <1>1, <1>2, <1>3 DEF NullsClosed, SetsSlot
<1>18. ClosedIsEmpty'
  BY <1>1, <1>2, <1>3 DEF ClosedIsEmpty, NotClosing, Closed, SetsSlot,
     OneCloser, RegisteredOpen, CallNames, Typed
<1> QED
  BY <1>3, <1>4, <1>5, <1>6, <1>7, <1>8, <1>9, <1>10,
     <1>11, <1>12, <1>13, <1>14, <1>15, <1>16, <1>17, <1>18 DEF DbInv

\* Every registered connection of a file is closed.
LEMMA DbCloseFilePreserves ==
  ASSUME DbInv, NEW t \in DbThreads, DbCloseFile(t)
  PROVE  DbInv'
<1> USE DbAssumption DEF Sets, Dbs
<1>1. /\ DbTypeOK /\ AddrState /\ CallNames /\ OneCloser /\ OverlapKnown
      /\ RegisteredOpen /\ OpenedOpen /\ SharedOpen /\ UsesResolved
      /\ HeldIsOwn /\ HeldOnce /\ StmtsMatchConn
      /\ ZombiePinned /\ OpenIsReachable /\ NullsClosed /\ ClosedIsEmpty /\ Typed
  BY TypedHolds DEF DbInv
<1>2. /\ dbPc[t] = "closing" /\ dbCur[t] \in FileDbs
      /\ Closes(t, dbConns[dbCur[t]])
      /\ Sets(dbPc', dbPc, DbThreads, t, "idle")
      /\ Sets(dbCur', dbCur, DbThreads, t, NoDb)
      /\ Sets(dbAt', dbAt, DbThreads, t, NoConn)
      /\ Sets(dbConns', dbConns, Dbs, dbCur[t], {})
      /\ SetsSlot(t, dbCur[t], NoConn)
      /\ UNCHANGED <<dbOpened, dbCloser, dbShared, dbLeak,
                   dbOverlap>>
  BY <1>1 DEF DbTypeOK, DbCloseFile, SqliteClose, Pinned, Dropped, Return, SetsSlot, Opens,
     MayInsertOn, AddsStmt, Closes, InCall
<1>3. /\ dbCur[t] \in Dbs /\ Closed(dbCur[t]) /\ dbCloser[dbCur[t]] = t
      /\ \A b \in dbConns[dbCur[t]] :
            b \in DbAddrs /\ dbSt[b] = "open" /\ dbOf[b] = dbCur[t]
  BY <1>1, <1>2 DEF OneCloser, CallNames, Typed, Closed, RegisteredOpen
<1>4. DbTypeOK'
  <2>1. /\ dbSt' \in [DbAddrs -> {"free", "open", "zombie"}]
        /\ dbOf' \in [DbAddrs -> Dbs \cup {NoDb}]
        /\ dbIns' \in [DbAddrs -> DbThreads \cup {NoThread}]
    BY <1>1 DEF DbTypeOK, DbCloseFile, SqliteClose
  <2>2. dbCache' \in [DbThreads -> [DbAddrs -> Seq(Stmts)]]
    BY <1>1 DEF DbTypeOK, DbCloseFile, Dropped
  <2>3. dbConns' \in [Dbs -> SUBSET DbAddrs]
    BY <1>1 DEF DbTypeOK, DbCloseFile
  <2>4. dbTls' \in [DbThreads -> [Dbs -> DbAddrs \cup {NoConn}]]
    BY <1>1 DEF DbTypeOK, DbCloseFile
  <2>5. /\ dbPc' \in [DbThreads -> {"idle"} \cup InCall \cup Closing]
        /\ dbCur' \in [DbThreads -> Dbs \cup {NoDb}]
        /\ dbAt' \in [DbThreads -> DbAddrs \cup {NoConn}]
    BY <1>1 DEF DbTypeOK, DbCloseFile, Return
  <2> QED
    BY <1>1, <1>2, <2>1, <2>2, <2>3, <2>4, <2>5 DEF DbTypeOK
<1>5. AddrState'
  BY <1>1, <1>2, <1>3, <1>4 DEF AddrState, Closed, SetsSlot, Closes
<1>6. CallNames'
  BY <1>1, <1>2, <1>3, <1>4 DEF CallNames, SetsSlot, Closes
<1>7. OneCloser'
  BY <1>1, <1>2, <1>3, <1>4 DEF OneCloser, Closed, Typed, SetsSlot, Closes
<1>8. OverlapKnown'
  BY <1>1, <1>2, <1>3, <1>4 DEF OverlapKnown, Closed, Typed, SetsSlot, Closes
<1>9. RegisteredOpen'
  BY <1>1, <1>2, <1>3, <1>4 DEF RegisteredOpen, Typed, SetsSlot, Closes
<1>10. OpenedOpen'
  BY <1>1, <1>2, <1>3, <1>4 DEF OpenedOpen, SetsSlot, Closes
<1>11. SharedOpen'
  BY <1>1, <1>2, <1>3, <1>4 DEF SharedOpen, Typed, SetsSlot, Closes
<1>12. UsesResolved'
  BY <1>1, <1>2, <1>3, <1>4 DEF UsesResolved, Closed, Typed, SetsSlot, Closes
<1>13. HeldIsOwn'
  BY <1>1, <1>2, <1>3, <1>4 DEF HeldIsOwn, Holds, OwnRowid, Closed, SetsSlot, Closes
<1>14. HeldOnce'
  BY <1>1, <1>2, <1>3, <1>4 DEF HeldOnce, Holds, Closed, SetsSlot, Closes
<1>15. StmtsMatchConn'
  BY <1>1, <1>2, <1>3, <1>4 DEF StmtsMatchConn, SetsSlot, Closes
<1>16. ZombiePinned'
  BY <1>1, <1>2, <1>3, <1>4 DEF ZombiePinned, SetsSlot, Closes
<1>17. OpenIsReachable'
  BY <1>1, <1>2, <1>3, <1>4 DEF OpenIsReachable, SetsSlot, Closes
<1>18. NullsClosed'
  BY <1>1, <1>2, <1>3, <1>4 DEF NullsClosed, SetsSlot, Closes
<1>19. ClosedIsEmpty'
  BY <1>1, <1>2, <1>3, <1>4 DEF ClosedIsEmpty, NotClosing, Closed, SetsSlot,
     Closes, SharedOpen
<1> QED
  BY <1>4, <1>5, <1>6, <1>7, <1>8, <1>9, <1>10, <1>11,
     <1>12, <1>13, <1>14, <1>15, <1>16, <1>17, <1>18, <1>19 DEF DbInv

\* A thread ends: its slots and its cache are gone, its statements are not.
LEMMA DbThreadExitPreserves ==
  ASSUME DbInv, NEW t \in DbThreads, DbThreadExit(t)
  PROVE  DbInv'
<1> USE DbAssumption DEF Sets, Dbs
<1>1. /\ DbTypeOK /\ AddrState /\ CallNames /\ OneCloser /\ OverlapKnown
      /\ RegisteredOpen /\ OpenedOpen /\ SharedOpen /\ UsesResolved
      /\ HeldIsOwn /\ HeldOnce /\ StmtsMatchConn
      /\ ZombiePinned /\ OpenIsReachable /\ NullsClosed /\ ClosedIsEmpty /\ Typed
  BY TypedHolds DEF DbInv
<1>2. /\ dbPc[t] = "idle"
      /\ \A u \in DbThreads, e \in Dbs :
             dbTls'[u][e] = IF u = t THEN NoConn ELSE dbTls[u][e]
      /\ \A u \in DbThreads, b \in DbAddrs :
             dbCache'[u][b] = IF u = t THEN <<>> ELSE dbCache[u][b]
      /\ dbLeak' = dbLeak \cup {b \in DbAddrs : dbCache[t][b] # <<>>}
      /\ UNCHANGED <<dbOpened, dbCloser, dbConns, dbShared, dbSt,
                   dbOf, dbIns, dbPc, dbCur, dbAt, dbOverlap>>
  BY <1>1 DEF DbTypeOK, DbThreadExit, registry, SetsSlot, Opens,
     MayInsertOn, AddsStmt, Closes, InCall
<1>3. DbTypeOK'
  <2>1. dbTls' \in [DbThreads -> [Dbs -> DbAddrs \cup {NoConn}]]
    BY <1>1 DEF DbTypeOK, DbThreadExit
  <2>2. dbCache' \in [DbThreads -> [DbAddrs -> Seq(Stmts)]]
    BY <1>1 DEF DbTypeOK, DbThreadExit
  <2>3. dbLeak' \subseteq DbAddrs
    BY <1>1 DEF DbTypeOK, DbThreadExit
  <2> QED
    BY <1>1, <1>2, <2>1, <2>2, <2>3 DEF DbTypeOK
<1>4. AddrState'
  BY <1>1, <1>2, <1>3 DEF AddrState, Closed
<1>5. CallNames'
  BY <1>1, <1>2, <1>3 DEF CallNames
<1>6. OneCloser'
  BY <1>1, <1>2, <1>3 DEF OneCloser, Closed, Typed
<1>7. OverlapKnown'
  BY <1>1, <1>2, <1>3 DEF OverlapKnown, Closed, Typed
<1>8. RegisteredOpen'
  BY <1>1, <1>2, <1>3 DEF RegisteredOpen, Typed
<1>9. OpenedOpen'
  BY <1>1, <1>2, <1>3 DEF OpenedOpen
<1>10. SharedOpen'
  BY <1>1, <1>2, <1>3 DEF SharedOpen, Typed
<1>11. UsesResolved'
  BY <1>1, <1>2, <1>3 DEF UsesResolved, Closed, Typed
<1>12. HeldIsOwn'
  BY <1>1, <1>2, <1>3 DEF HeldIsOwn, Holds, OwnRowid, Closed
<1>13. HeldOnce'
  BY <1>1, <1>2, <1>3 DEF HeldOnce, Holds, Closed
<1>14. StmtsMatchConn'
  BY <1>1, <1>2, <1>3 DEF StmtsMatchConn
<1>15. ZombiePinned'
  BY <1>1, <1>2, <1>3 DEF ZombiePinned
<1>16. OpenIsReachable'
  BY <1>1, <1>2, <1>3 DEF OpenIsReachable
<1>17. NullsClosed'
  BY <1>1, <1>2, <1>3 DEF NullsClosed
<1>18. ClosedIsEmpty'
  BY <1>1, <1>2, <1>3 DEF ClosedIsEmpty, NotClosing, Closed
<1> QED
  BY <1>3, <1>4, <1>5, <1>6, <1>7, <1>8, <1>9, <1>10,
     <1>11, <1>12, <1>13, <1>14, <1>15, <1>16, <1>17, <1>18 DEF DbInv

\* Every step of the registry keeps the invariant.
LEMMA DbInvNext == DbInv /\ [DbNext]_dbVars => DbInv'
<1> SUFFICES ASSUME DbInv, [DbNext]_dbVars PROVE DbInv'
  OBVIOUS
<1>1. CASE UNCHANGED dbVars
  <2> USE <1>1 DEF dbVars
  <2>1. DbTypeOK' /\ AddrState' /\ CallNames' /\ OneCloser'
    BY DEF DbInv, DbTypeOK, AddrState, CallNames, OneCloser, Closed
  <2>2. OverlapKnown' /\ RegisteredOpen' /\ OpenedOpen' /\ SharedOpen'
    BY DEF DbInv, OverlapKnown, RegisteredOpen, OpenedOpen, SharedOpen, Closed
  <2>3. UsesResolved'
    BY DEF DbInv, UsesResolved, Closed
  <2>4. HeldIsOwn' /\ HeldOnce'
    BY DEF DbInv, HeldIsOwn, HeldOnce, Holds, OwnRowid, Closed
  <2>5. StmtsMatchConn' /\ ZombiePinned'
    BY DEF DbInv, StmtsMatchConn, ZombiePinned
  <2>6. OpenIsReachable' /\ NullsClosed' /\ ClosedIsEmpty'
    BY DEF DbInv, OpenIsReachable, NullsClosed, ClosedIsEmpty, NotClosing, Closed
  <2> QED
    BY <2>1, <2>2, <2>3, <2>4, <2>5, <2>6 DEF DbInv
<1>2. ASSUME NEW t \in DbThreads, DbStep(t) PROVE DbInv'
  <2>1. ASSUME NEW d \in Dbs, DbOpenFile(t, d) PROVE DbInv'
    BY <2>1, DbOpenFilePreserves
  <2>2. ASSUME NEW d \in Dbs, DbOpenShared(t, d) PROVE DbInv'
    BY <2>2, DbOpenSharedPreserves
  <2>3. ASSUME NEW d \in Dbs, DbCheck(t, d) PROVE DbInv'
    BY <2>3, DbCheckPreserves
  <2>4. ASSUME NEW d \in Dbs, DbCloseBegin(t, d) PROVE DbInv'
    BY <2>4, DbCloseBeginPreserves
  <2>5. CASE DbLookupShared(t)
    BY <2>5, DbLookupGonePreserves, DbLookupSharedPreserves
  <2>6. CASE DbLookupSlot(t)
    BY <2>6, DbLookupSlotPreserves
  <2>7. CASE DbLookupOpen(t)
    BY <2>7, DbLookupOpenPreserves, DbLookupFailPreserves
  <2>8. CASE DbPush(t)
    BY <2>8, DbPushPreserves
  <2>9. CASE DbInsert(t)
    BY <2>9, DbInsertPreserves
  <2>10. CASE DbRejected(t)
    BY <2>10, DbRejectedPreserves
  <2>11. ASSUME NEW s \in DbSqls, DbPreparedHit(t, s) PROVE DbInv'
    BY <2>11, DbPreparedHitPreserves
  <2>12. ASSUME NEW s \in DbSqls, DbPreparedMiss(t, s) PROVE DbInv'
    BY <2>12, DbPreparedMissPreserves
  <2>13. CASE DbCloseShared(t)
    BY <2>13, DbCloseSharedPreserves
  <2>14. CASE DbCloseNull(t)
    BY <2>14, DbCloseNullPreserves
  <2>15. CASE DbCloseFile(t)
    BY <2>15, DbCloseFilePreserves
  <2>16. CASE DbThreadExit(t)
    BY <2>16, DbThreadExitPreserves
  <2> QED
    BY <1>2, <2>1, <2>2, <2>3, <2>4, <2>5, <2>6, <2>7, <2>8, <2>9, <2>10,
       <2>11, <2>12, <2>13, <2>14, <2>15, <2>16 DEF DbStep
<1> QED
  BY <1>1, <1>2 DEF DbNext

\* The invariant holds in every state of every behaviour.
LEMMA DbInvHolds == DbSpec => []DbInv
  BY DbInvInit, DbInvNext, PTL DEF DbSpec

\* A resolved connection is open and its database's own, unless a close came
\* between.
LEMMA ResolvedIsLive == DbInv => UsesLiveConn
<1> SUFFICES ASSUME DbInv, NEW t \in DbThreads, dbPc[t] \in {"opened", "using"},
                    <<t, dbCur[t]>> \notin dbOverlap
             PROVE  dbSt[dbAt[t]] = "open" /\ dbOf[dbAt[t]] = dbCur[t]
  BY DEF UsesLiveConn
<1> USE DbAssumption DEF Dbs
<1>1. CASE dbPc[t] = "opened"
  BY <1>1 DEF DbInv, OpenedOpen
<1>2. CASE dbPc[t] = "using"
  <2>1. dbCur[t] \in Dbs /\ dbAt[t] \in DbAddrs
    BY <1>2, TypedHolds DEF DbInv, CallNames, Typed
  <2>2. ~Closed(dbCur[t])
    BY <1>2 DEF DbInv, OverlapKnown
  <2>3. CASE dbCur[t] \in FileDbs
    <3>1. Holds(t, dbAt[t], dbCur[t])
      BY <1>2, <2>2, <2>3 DEF DbInv, UsesResolved, Holds
    <3> QED
      BY <2>1, <2>2, <2>3, <3>1 DEF DbInv, HeldIsOwn
  <2>4. CASE dbCur[t] \in MemDbs
    <3>1. dbAt[t] = dbShared[dbCur[t]]
      BY <1>2, <2>2, <2>4 DEF DbInv, UsesResolved
    <3>2. ~ \E v \in DbThreads : dbPc[v] = "nulling" /\ dbCur[v] = dbCur[t]
      BY <2>2 DEF DbInv, OneCloser, Closed
    <3> QED
      BY <2>1, <3>1, <3>2 DEF DbInv, SharedOpen
  <2> QED
    BY <2>1, <2>3, <2>4
<1> QED
  BY <1>1, <1>2

\* The connection in a slot is the thread's own.
LEMMA SlotIsOwn == DbInv => RowidIsOwn
<1> SUFFICES ASSUME DbInv, NEW t \in DbThreads, NEW d \in FileDbs,
                    dbTls[t][d] # NoConn, ~Closed(d)
             PROVE  /\ dbSt[dbTls[t][d]] = "open"
                    /\ dbOf[dbTls[t][d]] = d
                    /\ \/ dbIns[dbTls[t][d]] \in {NoThread, t}
                       \/ \E e \in Dbs : <<dbIns[dbTls[t][d]], e>> \in dbOverlap
  BY DEF RowidIsOwn
<1>1. dbTls[t][d] \in DbAddrs
  BY TypedHolds DEF DbInv, Typed, Dbs
<1>2. Holds(t, dbTls[t][d], d)
  BY DEF Holds
<1> QED
  BY <1>1, <1>2 DEF DbInv, HeldIsOwn, OwnRowid

\* What is left of a closed database is pinned or came too late.
LEMMA ClosedLeavesLittle == DbInv => CloseReclaims
<1> SUFFICES ASSUME DbInv, NEW d \in Dbs, NEW a \in DbAddrs,
                    Closed(d), NotClosing(d), dbOf[a] = d
             PROVE  \/ /\ dbSt[a] = "zombie"
                       /\ \/ a \in dbLeak
                          \/ \E t \in DbThreads \ {dbCloser[d]} :
                                dbCache[t][a] # <<>>
                    \/ /\ dbSt[a] = "open"
                       /\ d \in FileDbs
                       /\ \E t \in DbThreads : <<t, d>> \in dbOverlap
  BY DEF CloseReclaims, NotClosing, Closing
<1>1. dbSt[a] \in {"open", "zombie"}
  BY DbAssumption DEF DbInv, DbTypeOK, AddrState
<1>2. CASE dbSt[a] = "zombie"
  BY <1>2 DEF DbInv, ZombiePinned
<1>3. CASE dbSt[a] = "open"
  <2>1. /\ dbShared[d] = NoConn
        /\ dbConns[d] # {} => \E t \in DbThreads : <<t, d>> \in dbOverlap
    BY DEF DbInv, ClosedIsEmpty
  <2>2. \/ d \in FileDbs /\ a \in dbConns[d]
        \/ d \in FileDbs /\ \E t \in DbThreads : dbPc[t] = "opened" /\ dbCur[t] = d
    BY <1>3, <2>1, DbAssumption DEF DbInv, OpenIsReachable
  <2> QED
    BY <1>3, <2>1, <2>2 DEF DbInv, OverlapKnown
<1> QED
  BY <1>1, <1>2, <1>3

\* A step leaves a zombie a zombie: only free addresses are opened, and only
\* open connections are closed.
LEMMA ZombieStep ==
  ASSUME DbInv, NEW t \in DbThreads, DbStep(t),
         NEW a \in DbAddrs, dbSt[a] = "zombie"
  PROVE  dbSt'[a] = "zombie"
<1>1. dbSt \in [DbAddrs -> {"free", "open", "zombie"}]
  BY DEF DbInv, DbTypeOK
<1>2. ASSUME NEW b \in DbAddrs, NEW d, SqliteOpen(b, d) PROVE dbSt'[a] = "zombie"
  BY <1>1, <1>2 DEF SqliteOpen
<1>3. ASSUME NEW A, NEW c, a \notin A, SqliteClose(A, c)
      PROVE  dbSt'[a] = "zombie"
  BY <1>3 DEF SqliteClose
<1>4. CASE \E d \in Dbs : DbOpenFile(t, d) \/ DbOpenShared(t, d)
  BY <1>2, <1>4 DEF DbOpenFile, DbOpenShared
<1>5. CASE DbLookupOpen(t)
  BY <1>2, <1>5 DEF DbLookupOpen, sqlite
<1>6. CASE DbCloseShared(t)
  <2>1. dbCur[t] \in Dbs /\ dbCloser[dbCur[t]] = t /\ dbPc[t] = "closing"
    BY <1>6, TypedHolds DEF DbCloseShared, DbInv, OneCloser, CallNames, Typed
  <2>2. a # dbShared[dbCur[t]]
    BY <2>1, DbAssumption DEF DbInv, SharedOpen, OneCloser
  <2> QED
    BY <1>3, <1>6, <2>2 DEF DbCloseShared
<1>7. CASE DbCloseFile(t)
  <2>1. a \notin dbConns[dbCur[t]]
    BY <1>7 DEF DbCloseFile, DbInv, RegisteredOpen, Dbs
  <2> QED
    BY <1>3, <1>7, <2>1 DEF DbCloseFile
<1>8. CASE \/ \E d \in Dbs : DbCheck(t, d) \/ DbCloseBegin(t, d)
           \/ DbLookupShared(t) \/ DbLookupSlot(t) \/ DbPush(t)
           \/ DbInsert(t) \/ DbRejected(t)
           \/ \E s \in DbSqls : DbPreparedHit(t, s) \/ DbPreparedMiss(t, s)
           \/ DbCloseNull(t) \/ DbThreadExit(t)
  BY <1>8
  DEF DbCheck, DbCloseBegin, DbLookupShared, DbLookupSlot, DbPush, DbInsert,
      DbRejected, DbPreparedHit, DbPreparedMiss, DbCloseNull, DbThreadExit,
      sqlite
<1> QED
  BY <1>4, <1>5, <1>6, <1>7, <1>8 DEF DbStep

-----------------------------------------------------------------------------

\* A call never works on the wrong connection or on a closed one unless a
\* db_close of its database began in the middle of it (db_resolve reads
\* `closed` before the thread's slot).
THEOREM CallsUseLiveConns == DbSpec => []UsesLiveConn
  BY DbInvHolds, ResolvedIsLive, PTL

\* db_last_insert_id reads a connection on which only the caller inserted,
\* overlapped calls apart (one connection per thread and file).
THEOREM RowidsAreOwn == DbSpec => []RowidIsOwn
  BY DbInvHolds, SlotIsOwn, PTL

\* A cached statement belongs to the connection at its address
\* (db_drop_stmt_cache and sqlite3_close_v2 in aot_db_close).
THEOREM CachedStmtsMatch == DbSpec => []StmtsMatchConn
<1>1. DbInv => StmtsMatchConn
  BY DEF DbInv
<1> QED
  BY <1>1, DbInvHolds, PTL

\* db_close leaves pinned zombies and connections that came too late, and
\* nothing else.
THEOREM ClosesReclaim == DbSpec => []CloseReclaims
  BY DbInvHolds, ClosedLeavesLittle, PTL

\* A zombie is never reclaimed.
THEOREM ZombiesAreNeverReclaimed == DbSpec => ZombiesStay
<1>1. DbInv /\ [DbNext]_dbVars =>
        [\A a \in DbAddrs : dbSt[a] = "zombie" => dbSt'[a] = "zombie"]_dbVars
  BY ZombieStep DEF DbNext
<1> QED
  BY <1>1, DbInvHolds, PTL DEF DbSpec, ZombiesStay
=============================================================================
