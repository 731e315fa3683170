----------------------------- MODULE DbRegistry -----------------------------
(***************************************************************************)
(* The registry of database connections behind db_open, db_execute,        *)
(* db_query, db_last_insert_id and db_close                                *)
(* (src/src/vm/runtime_bindings.cpp, "SQLite Database Functions (AOT)").   *)
(*                                                                         *)
(* A handle names a descriptor.  A file-backed database gives every thread *)
(* a connection of its own, opened on first use and remembered in a        *)
(* thread-local slot; :memory: has one connection all threads share.  Each *)
(* thread also caches prepared statements under the ADDRESS of their       *)
(* connection.  db_close marks the descriptor closed and closes the        *)
(* connections of every thread, although the statement caches of the other *)
(* threads are out of its reach.                                           *)
(*                                                                         *)
(* A call resolves its connection in several steps that other threads can  *)
(* come between: it reads `closed`, reads its slot, opens, registers the   *)
(* connection under conns_mu, and only then uses it.  SQLite is external:  *)
(* sqlite3_close_v2 frees a connection at once, or leaves a zombie while   *)
(* statements of it are still unfinalized.                                 *)
(***************************************************************************)
EXTENDS Integers, Sequences

CONSTANTS
    DbThreads,   \* threads of the program
    FileDbs,     \* handles of file-backed databases
    MemDbs,      \* handles of :memory: and temporary databases
    DbAddrs,     \* addresses sqlite3_open can return; bounds live connections
    DbSqls,      \* statement texts
    DbStmtCap,   \* kStmtCacheCap
    NoDb,        \* the owner of a free address
    NoConn,      \* the null sqlite3*
    NoThread     \* nobody

Dbs == FileDbs \cup MemDbs

ASSUME DbAssumption ==
    /\ FileDbs \cap MemDbs = {}
    /\ NoDb \notin Dbs
    /\ NoConn \notin DbAddrs
    /\ NoThread \notin DbThreads
    /\ DbStmtCap \in Nat \ {0}

VARIABLES
    dbOpened,   \* handles in g_db_registry
    dbCloser,   \* dbCloser[d]: the thread whose exchange set `closed`, or NoThread
    dbConns,    \* dbConns[d]: the connections in desc->conns
    dbShared,   \* dbShared[d]: desc->shared_conn
    dbTls,      \* dbTls[t][d]: slot d of g_db_tls_conns in thread t
    dbCache,    \* dbCache[t][a]: g_stmt_cache[a] in thread t, oldest first
    dbSt,       \* dbSt[a]: "free", "open", or "zombie" (closed, statements left)
    dbOf,       \* dbOf[a]: the database of the connection at address a
    dbIns,      \* dbIns[a]: the thread that ran the last INSERT on it
    dbLeak,     \* connections with statements whose cache died with its thread
    dbPc,       \* dbPc[t]: where thread t is in a call
    dbCur,      \* dbCur[t]: the handle of that call
    dbAt,       \* dbAt[t]: the connection that call resolved
    dbOverlap   \* history: <<t, d>> when a close of d began while a call of t
                \* had already passed the `closed` check

dbVars == <<dbOpened, dbCloser, dbConns, dbShared, dbTls, dbCache, dbSt, dbOf,
            dbIns, dbLeak, dbPc, dbCur, dbAt, dbOverlap>>

registry == <<dbOpened, dbCloser, dbConns, dbShared>>
sqlite == <<dbSt, dbOf, dbIns, dbLeak>>

\* A cached statement remembers the database it was compiled for.
Stmts == [sql : DbSqls, of : Dbs]

InCall == {"checked", "opened", "using"}
Closing == {"closing", "nulling"}

DbTypeOK ==
    /\ dbOpened \subseteq Dbs
    /\ dbCloser \in [Dbs -> DbThreads \cup {NoThread}]
    /\ dbConns \in [Dbs -> SUBSET DbAddrs]
    /\ dbShared \in [Dbs -> DbAddrs \cup {NoConn}]
    /\ dbTls \in [DbThreads -> [Dbs -> DbAddrs \cup {NoConn}]]
    /\ dbCache \in [DbThreads -> [DbAddrs -> Seq(Stmts)]]
    /\ dbSt \in [DbAddrs -> {"free", "open", "zombie"}]
    /\ dbOf \in [DbAddrs -> Dbs \cup {NoDb}]
    /\ dbIns \in [DbAddrs -> DbThreads \cup {NoThread}]
    /\ dbLeak \subseteq DbAddrs
    /\ dbPc \in [DbThreads -> {"idle"} \cup InCall \cup Closing]
    /\ dbCur \in [DbThreads -> Dbs \cup {NoDb}]
    /\ dbAt \in [DbThreads -> DbAddrs \cup {NoConn}]
    /\ dbOverlap \subseteq DbThreads \X Dbs

DbInit ==
    /\ dbOpened = {}
    /\ dbCloser = [d \in Dbs |-> NoThread]
    /\ dbConns = [d \in Dbs |-> {}]
    /\ dbShared = [d \in Dbs |-> NoConn]
    /\ dbTls = [t \in DbThreads |-> [d \in Dbs |-> NoConn]]
    /\ dbCache = [t \in DbThreads |-> [a \in DbAddrs |-> <<>>]]
    /\ dbSt = [a \in DbAddrs |-> "free"]
    /\ dbOf = [a \in DbAddrs |-> NoDb]
    /\ dbIns = [a \in DbAddrs |-> NoThread]
    /\ dbLeak = {}
    /\ dbPc = [t \in DbThreads |-> "idle"]
    /\ dbCur = [t \in DbThreads |-> NoDb]
    /\ dbAt = [t \in DbThreads |-> NoConn]
    /\ dbOverlap = {}

Closed(d) == dbCloser[d] # NoThread

\* The call of t returns.
Return(t) ==
    /\ dbPc' = [dbPc EXCEPT ![t] = "idle"]
    /\ dbCur' = [dbCur EXCEPT ![t] = NoDb]
    /\ dbAt' = [dbAt EXCEPT ![t] = NoConn]

-----------------------------------------------------------------------------
(* SQLite, as runtime_bindings.cpp uses it. *)

\* sqlite3_open: a connection at some address no live connection has.
SqliteOpen(a, d) ==
    /\ dbSt[a] = "free"
    /\ dbSt' = [dbSt EXCEPT ![a] = "open"]
    /\ dbOf' = [dbOf EXCEPT ![a] = d]
    /\ dbIns' = [dbIns EXCEPT ![a] = NoThread]
    /\ UNCHANGED dbLeak

\* The connections of A that have unfinalized statements once the caches are c.
Pinned(A, c) ==
    {a \in A : a \in dbLeak \/ \E t \in DbThreads : c[t][a] # <<>>}

\* sqlite3_close would do this: the memory goes, statements or not.
SqliteClose_NotV2(A, c) ==
    /\ dbSt' = [a \in DbAddrs |-> IF a \in A THEN "free" ELSE dbSt[a]]
    /\ dbOf' = [a \in DbAddrs |-> IF a \in A THEN NoDb ELSE dbOf[a]]
    /\ UNCHANGED <<dbIns, dbLeak>>

\* sqlite3_close_v2 on each of A: freed at once, or a zombie while pinned.
SqliteClose(A, c) ==
    /\ dbSt' = [a \in DbAddrs |->
                   IF a \notin A THEN dbSt[a]
                   ELSE IF a \in Pinned(A, c) THEN "zombie" ELSE "free"]
    /\ dbOf' = [a \in DbAddrs |->
                   IF a \in A \ Pinned(A, c) THEN NoDb ELSE dbOf[a]]
    /\ dbIns' = [a \in DbAddrs |-> IF a \in A THEN NoThread ELSE dbIns[a]]
    /\ UNCHANGED dbLeak

-----------------------------------------------------------------------------
(* db_open *)

\* aot_db_open of a file: the caller's connection, registered and put in the
\* caller's slot.  Nobody else has the handle yet, so this is one step.
DbOpenFile(t, d) ==
    /\ dbPc[t] = "idle"
    /\ d \in FileDbs \ dbOpened
    /\ \E a \in DbAddrs :
          /\ SqliteOpen(a, d)
          /\ dbConns' = [dbConns EXCEPT ![d] = {a}]
          /\ dbTls' = [dbTls EXCEPT ![t][d] = a]
    /\ dbOpened' = dbOpened \cup {d}
    /\ UNCHANGED <<dbCloser, dbShared, dbCache, dbPc, dbCur, dbAt, dbOverlap>>

\* aot_db_open of :memory: one connection for every thread.
DbOpenShared(t, d) ==
    /\ dbPc[t] = "idle"
    /\ d \in MemDbs \ dbOpened
    /\ \E a \in DbAddrs :
          /\ SqliteOpen(a, d)
          /\ dbShared' = [dbShared EXCEPT ![d] = a]
    /\ dbOpened' = dbOpened \cup {d}
    /\ UNCHANGED <<dbCloser, dbConns, dbTls, dbCache, dbPc, dbCur, dbAt,
                   dbOverlap>>

-----------------------------------------------------------------------------
(* db_resolve, then the call itself. *)

\* Mutant: the slot is trusted without looking at `closed` first.
DbCheck_Unchecked(t, d) ==
    /\ dbPc[t] = "idle"
    /\ d \in dbOpened
    /\ dbPc' = [dbPc EXCEPT ![t] = "checked"]
    /\ dbCur' = [dbCur EXCEPT ![t] = d]
    /\ UNCHANGED <<registry, sqlite, dbTls, dbCache, dbAt, dbOverlap>>

\* `if (desc->closed.load()) return nullptr`: the call goes on only if open.
DbCheck(t, d) ==
    /\ dbPc[t] = "idle"
    /\ d \in dbOpened
    /\ ~Closed(d)
    /\ dbPc' = [dbPc EXCEPT ![t] = "checked"]
    /\ dbCur' = [dbCur EXCEPT ![t] = d]
    /\ UNCHANGED <<registry, sqlite, dbTls, dbCache, dbAt, dbOverlap>>

\* :memory: reads shared_conn, which a close in progress may have nulled.
DbLookupShared(t) ==
    /\ dbPc[t] = "checked"
    /\ dbCur[t] \in MemDbs
    /\ IF dbShared[dbCur[t]] = NoConn
       THEN Return(t)
       ELSE /\ dbAt' = [dbAt EXCEPT ![t] = dbShared[dbCur[t]]]
            /\ dbPc' = [dbPc EXCEPT ![t] = "using"]
            /\ UNCHANGED dbCur
    /\ UNCHANGED <<registry, sqlite, dbTls, dbCache, dbOverlap>>

\* A file finds this thread's connection in its slot.
DbLookupSlot(t) ==
    /\ dbPc[t] = "checked"
    /\ dbCur[t] \in FileDbs
    /\ dbTls[t][dbCur[t]] # NoConn
    /\ dbAt' = [dbAt EXCEPT ![t] = dbTls[t][dbCur[t]]]
    /\ dbPc' = [dbPc EXCEPT ![t] = "using"]
    /\ UNCHANGED <<registry, sqlite, dbTls, dbCache, dbCur, dbOverlap>>

\* Mutant: a thread without a connection borrows one of the descriptor's.
DbLookupOpen_Borrows(t) ==
    /\ dbPc[t] = "checked"
    /\ dbCur[t] \in FileDbs
    /\ dbTls[t][dbCur[t]] = NoConn
    /\ \E a \in dbConns[dbCur[t]] :
          /\ dbAt' = [dbAt EXCEPT ![t] = a]
          /\ dbTls' = [dbTls EXCEPT ![t][dbCur[t]] = a]
    /\ dbPc' = [dbPc EXCEPT ![t] = "using"]
    /\ UNCHANGED <<registry, sqlite, dbCache, dbCur, dbOverlap>>

\* A file the thread has not used yet: db_open_conn opens, or the open fails
\* and the call returns.
DbLookupOpen(t) ==
    /\ dbPc[t] = "checked"
    /\ dbCur[t] \in FileDbs
    /\ dbTls[t][dbCur[t]] = NoConn
    /\ \/ \E a \in DbAddrs :
             /\ SqliteOpen(a, dbCur[t])
             /\ dbAt' = [dbAt EXCEPT ![t] = a]
             /\ dbPc' = [dbPc EXCEPT ![t] = "opened"]
             /\ UNCHANGED dbCur
       \/ Return(t) /\ UNCHANGED sqlite
    /\ UNCHANGED <<registry, dbTls, dbCache, dbOverlap>>

\* Mutant: the connection is not registered with the descriptor.
DbPush_Unregistered(t) ==
    /\ dbPc[t] = "opened"
    /\ dbTls' = [dbTls EXCEPT ![t][dbCur[t]] = dbAt[t]]
    /\ dbPc' = [dbPc EXCEPT ![t] = "using"]
    /\ UNCHANGED <<registry, sqlite, dbCache, dbCur, dbAt, dbOverlap>>

\* The locked push on desc->conns, and the slot.
DbPush(t) ==
    /\ dbPc[t] = "opened"
    /\ dbConns' = [dbConns EXCEPT ![dbCur[t]] = @ \cup {dbAt[t]}]
    /\ dbTls' = [dbTls EXCEPT ![t][dbCur[t]] = dbAt[t]]
    /\ dbPc' = [dbPc EXCEPT ![t] = "using"]
    /\ UNCHANGED <<dbOpened, dbCloser, dbShared, sqlite, dbCache, dbCur, dbAt,
                   dbOverlap>>

\* The call has a connection SQLite still accepts.
Accepts(t) == dbPc[t] = "using" /\ dbSt[dbAt[t]] = "open"

\* db_execute runs an INSERT with sqlite3_exec.
DbInsert(t) ==
    /\ Accepts(t)
    /\ dbIns' = [dbIns EXCEPT ![dbAt[t]] = t]
    /\ Return(t)
    /\ UNCHANGED <<registry, dbSt, dbOf, dbLeak, dbTls, dbCache, dbOverlap>>

\* Statement s is in this thread's cache for the connection in hand.
Cached(t, s) ==
    \E i \in DOMAIN dbCache[t][dbAt[t]] : dbCache[t][dbAt[t]][i].sql = s

\* FIFO eviction: the oldest statement leaves a full cache.
Evicted(c) == IF Len(c) >= DbStmtCap THEN Tail(c) ELSE c

\* The prepared statement may be an INSERT.
MayInsert(t) == dbIns' \in {dbIns, [dbIns EXCEPT ![dbAt[t]] = t]}

\* db_query, or db_execute with parameters, finds its statement cached.  A
\* zombie still steps its statements.
DbPreparedHit(t, s) ==
    /\ dbPc[t] = "using"
    /\ Cached(t, s)
    /\ MayInsert(t)
    /\ Return(t)
    /\ UNCHANGED <<registry, dbSt, dbOf, dbLeak, dbTls, dbCache, dbOverlap>>

\* It prepares its statement and caches it, evicting the oldest.
DbPreparedMiss(t, s) ==
    /\ Accepts(t)
    /\ ~Cached(t, s)
    /\ dbCache' = [dbCache EXCEPT ![t][dbAt[t]] =
                      Append(Evicted(@), [sql |-> s, of |-> dbOf[dbAt[t]]])]
    /\ MayInsert(t)
    /\ Return(t)
    /\ UNCHANGED <<registry, dbSt, dbOf, dbLeak, dbTls, dbOverlap>>

\* Mutant: the oldest statement is evicted before the new one is prepared.
DbRejected_EvictsFirst(t) ==
    /\ dbPc[t] = "using"
    /\ dbSt[dbAt[t]] = "zombie"
    /\ dbCache' = [dbCache EXCEPT ![t][dbAt[t]] = Evicted(@)]
    /\ SqliteClose({dbAt[t]}, dbCache')
    /\ Return(t)
    /\ UNCHANGED <<registry, dbTls, dbOverlap>>

\* The connection in hand was closed meanwhile: SQLite answers SQLITE_MISUSE
\* on a zombie and on freed memory it still recognises as closed.  When the
\* address was used again, Accepts holds and the call runs on that connection.
DbRejected(t) ==
    /\ dbPc[t] = "using"
    /\ dbSt[dbAt[t]] # "open"
    /\ Return(t)
    /\ UNCHANGED <<registry, sqlite, dbTls, dbCache, dbOverlap>>

-----------------------------------------------------------------------------
(* db_close and the end of a thread. *)

\* The exchange on `closed`: only the first close of a handle goes on.
DbCloseBegin(t, d) ==
    /\ dbPc[t] = "idle"
    /\ d \in dbOpened
    /\ ~Closed(d)
    /\ dbCloser' = [dbCloser EXCEPT ![d] = t]
    /\ dbPc' = [dbPc EXCEPT ![t] = "closing"]
    /\ dbCur' = [dbCur EXCEPT ![t] = d]
    /\ dbOverlap' = dbOverlap \cup
          {<<u, d>> : u \in {u \in DbThreads : dbPc[u] \in InCall /\ dbCur[u] = d}}
    /\ UNCHANGED <<dbOpened, dbConns, dbShared, sqlite, dbTls, dbCache, dbAt>>

\* db_drop_stmt_cache for each of A: only the caller's cache is in reach.
Dropped(t, A) ==
    [dbCache EXCEPT ![t] =
        [a \in DbAddrs |-> IF a \in A THEN <<>> ELSE dbCache[t][a]]]

\* :memory: drop the statements and close_v2; the pointer is nulled after.
DbCloseShared(t) ==
    /\ dbPc[t] = "closing"
    /\ dbCur[t] \in MemDbs
    /\ dbCache' = Dropped(t, {dbShared[dbCur[t]]})
    /\ SqliteClose({dbShared[dbCur[t]]}, dbCache')
    /\ dbPc' = [dbPc EXCEPT ![t] = "nulling"]
    /\ UNCHANGED <<registry, dbTls, dbCur, dbAt, dbOverlap>>

\* shared_conn = nullptr, and the caller's slot.
DbCloseNull(t) ==
    /\ dbPc[t] = "nulling"
    /\ dbShared' = [dbShared EXCEPT ![dbCur[t]] = NoConn]
    /\ dbTls' = [dbTls EXCEPT ![t][dbCur[t]] = NoConn]
    /\ Return(t)
    /\ UNCHANGED <<dbOpened, dbCloser, dbConns, sqlite, dbCache, dbOverlap>>

\* A file: under conns_mu every registered connection is closed and the list
\* cleared; then the caller's slot is reset.
DbCloseFile(t) ==
    /\ dbPc[t] = "closing"
    /\ dbCur[t] \in FileDbs
    /\ dbCache' = Dropped(t, dbConns[dbCur[t]])
    /\ SqliteClose(dbConns[dbCur[t]], dbCache')
    /\ dbConns' = [dbConns EXCEPT ![dbCur[t]] = {}]
    /\ dbTls' = [dbTls EXCEPT ![t][dbCur[t]] = NoConn]
    /\ Return(t)
    /\ UNCHANGED <<dbOpened, dbCloser, dbShared, dbOverlap>>

\* A thread ends and another takes its place: the thread-local slots and the
\* statement cache go, and nothing finalizes the statements.
DbThreadExit(t) ==
    /\ dbPc[t] = "idle"
    /\ dbTls' = [dbTls EXCEPT ![t] = [d \in Dbs |-> NoConn]]
    /\ dbCache' = [dbCache EXCEPT ![t] = [a \in DbAddrs |-> <<>>]]
    /\ dbLeak' = dbLeak \cup {a \in DbAddrs : dbCache[t][a] # <<>>}
    /\ UNCHANGED <<registry, dbSt, dbOf, dbIns, dbPc, dbCur, dbAt, dbOverlap>>

DbStep(t) ==
    \/ \E d \in Dbs : DbOpenFile(t, d) \/ DbOpenShared(t, d)
    \/ \E d \in Dbs : DbCheck(t, d) \/ DbCloseBegin(t, d)
    \/ DbLookupShared(t) \/ DbLookupSlot(t) \/ DbLookupOpen(t) \/ DbPush(t)
    \/ DbInsert(t) \/ DbRejected(t)
    \/ \E s \in DbSqls : DbPreparedHit(t, s) \/ DbPreparedMiss(t, s)
    \/ DbCloseShared(t) \/ DbCloseNull(t) \/ DbCloseFile(t)
    \/ DbThreadExit(t)

DbNext == \E t \in DbThreads : DbStep(t)

DbSpec == DbInit /\ [][DbNext]_dbVars

-----------------------------------------------------------------------------
(* Correctness. *)

\* A call works on an open connection of the database it names, unless a
\* db_close of that database began in the middle of the call.  This is what
\* "closed checked before consulting the tls cache" is for.
UsesLiveConn ==
    \A t \in DbThreads :
        dbPc[t] \in {"opened", "using"} /\ <<t, dbCur[t]>> \notin dbOverlap =>
            dbSt[dbAt[t]] = "open" /\ dbOf[dbAt[t]] = dbCur[t]

\* While a file database is open, the connection in a thread's slot is open,
\* belongs to that database, and only that thread ran an INSERT on it: what
\* db_last_insert_id returns is the rowid of the caller's own INSERT.  The one
\* intruder is a call that a db_close overlapped, whose freed connection's
\* address was used again for this one.
RowidIsOwn ==
    \A t \in DbThreads, d \in FileDbs :
        dbTls[t][d] # NoConn /\ ~Closed(d) =>
            /\ dbSt[dbTls[t][d]] = "open"
            /\ dbOf[dbTls[t][d]] = d
            /\ \/ dbIns[dbTls[t][d]] \in {NoThread, t}
               \/ \E e \in Dbs : <<dbIns[dbTls[t][d]], e>> \in dbOverlap

\* A statement cached under an address was compiled for the connection that is
\* at that address now, although db_close cannot reach the caches of the other
\* threads and addresses are used again.
StmtsMatchConn ==
    \A t \in DbThreads, a \in DbAddrs :
        \A i \in DOMAIN dbCache[t][a] :
            dbSt[a] # "free" /\ dbOf[a] = dbCache[t][a][i].of

\* After db_close has returned, a connection of the database is gone, except:
\* a zombie that a statement of a thread other than the closer pins, or a
\* connection of a file that a call the close overlapped opened too late.
CloseReclaims ==
    \A d \in Dbs, a \in DbAddrs :
        /\ Closed(d)
        /\ \A t \in DbThreads : ~(dbPc[t] \in Closing /\ dbCur[t] = d)
        /\ dbOf[a] = d
        =>
        \/ /\ dbSt[a] = "zombie"
           /\ \/ a \in dbLeak
              \/ \E t \in DbThreads \ {dbCloser[d]} : dbCache[t][a] # <<>>
        \/ /\ dbSt[a] = "open"
           /\ d \in FileDbs
           /\ \E t \in DbThreads : <<t, d>> \in dbOverlap

\* A zombie is never reclaimed: no call reaches the cache that pins it again.
\* (The comment on db_close says it is reclaimed "once those finalize".)
ZombiesStay ==
    [][\A a \in DbAddrs : dbSt[a] = "zombie" => dbSt'[a] = "zombie"]_dbVars
=============================================================================
