------------------------------- MODULE MCParts ------------------------------
(***************************************************************************)
(* The components of the compiler's runtime and tools that share no state  *)
(* with the event loop or with each other, side by side in one state graph:*)
(* a behaviour picks one of Parts and then is a behaviour of that part.    *)
(* "try" is a program of calls, loops and try statements, "arena" the      *)
(* arena under any sequence of calls, "serve" the arena as the Wings serve *)
(* loops use it.                                                           *)
(***************************************************************************)
EXTENDS TryCatch, DbRegistry, CallCache, WingsServe, HttpRecv, SelfUpdate, DapAdapter

CONSTANTS
    Parts,        \* the parts to check
    ArenaScopes   \* bound on the scopes open at once in part "arena"

VARIABLE part    \* the component this behaviour is of

\* Call cache: a and b collide, as do c and z; nothing exports z.
MCNames == {"a", "b", "c", "z"}
MCExported == MCNames \ {"z"}
MCHomeSlot == [n \in MCNames |-> IF n \in {"a", "b"} THEN 0 ELSE 1]

\* Requests a client may send: without a body, with one that fits the buffer,
\* with one that does not, with one over the limit and one whose length is more
\* than an int; headers that fill the buffer, and headers that do not fit.
MCGet == [at |-> 0, head |-> 1, declares |-> FALSE, body |-> 0]
MCPost(n) == [at |-> 0, head |-> 2, declares |-> TRUE, body |-> n]
MCHead(n) == [at |-> 0, head |-> n, declares |-> TRUE, body |-> 1]
MCThen(p, q) == <<p, [q EXCEPT !.at = Size(p)]>>
MCScripts ==
    {MCThen(MCGet, MCPost(1)), MCThen(MCPost(1), MCGet), MCThen(MCPost(3), MCGet),
     MCThen(MCPost(0), MCPost(5)), MCThen(MCHead(4), MCGet), MCThen(MCGet, MCHead(5)),
     MCThen(MCGet, MCPost(7))}

serveVars == <<arVars, srvVars>>
partsVars ==
    <<part, ehVars, dbVars, cacheVars, serveVars, rqVars, suVars, dapVars>>

PartsInit ==
    /\ part \in Parts
    /\ TryInit /\ DbInit /\ CacheInit /\ ArInit /\ SrvInit /\ RqInit /\ SuInit /\ DapInit
    /\ part # "serve" => srvMode = "pool"
    /\ part # "recv" => rqScript = MCThen(MCGet, MCPost(1))

TryPart ==
    TryNext /\ UNCHANGED <<part, dbVars, cacheVars, serveVars, rqVars, suVars, dapVars>>
DbPart ==
    DbNext /\ UNCHANGED <<part, ehVars, cacheVars, serveVars, rqVars, suVars, dapVars>>
CachePart ==
    CacheNext /\ UNCHANGED <<part, ehVars, dbVars, serveVars, rqVars, suVars, dapVars>>
ArenaPart ==
    /\ ArNext /\ Len(arCps') <= ArenaScopes
    /\ UNCHANGED <<part, ehVars, srvVars, dbVars, cacheVars, rqVars, suVars, dapVars>>
ServePart ==
    SrvNext /\ UNCHANGED <<part, ehVars, dbVars, cacheVars, rqVars, suVars, dapVars>>
RecvPart ==
    RqNext /\ UNCHANGED <<part, ehVars, dbVars, cacheVars, serveVars, suVars, dapVars>>
UpdatePart ==
    SuNext /\ UNCHANGED <<part, ehVars, dbVars, cacheVars, serveVars, rqVars, dapVars>>
DapPart ==
    DapNext /\ UNCHANGED <<part, ehVars, dbVars, cacheVars, serveVars, rqVars, suVars>>

PartsNext ==
    \/ part = "try" /\ TryPart
    \/ part = "db" /\ DbPart
    \/ part = "call" /\ CachePart
    \/ part = "arena" /\ ArenaPart
    \/ part = "serve" /\ ServePart
    \/ part = "recv" /\ RecvPart
    \/ part = "update" /\ UpdatePart
    \/ part = "dap" /\ DapPart

\* Only the debug adapter's threads are fair; the others need no fairness for
\* the safety that is checked of them.
PartsSpec ==
    PartsInit /\ [][PartsNext]_partsVars /\ (part = "dap" => DapFairness)

\* Each part keeps the types its module declares.
PartsTypeOK ==
    /\ TryTypeOK /\ DbTypeOK /\ CacheTypeOK /\ ArTypeOK
    /\ SrvTypeOK /\ RqTypeOK /\ SuTypeOK /\ DapTypeOK
=============================================================================
