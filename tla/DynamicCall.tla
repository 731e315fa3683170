----------------------------- MODULE DynamicCall ----------------------------
(***************************************************************************)
(* What call("name") promises, as a Wings server relies on it              *)
(* (src/src/vm/runtime_bindings.cpp, aot_call_dynamic): the call runs the  *)
(* function the symbol table has under that name, or reports that there is *)
(* none.  Nothing is said of how the function is found; CallCache finds it *)
(* through a table that many threads share.                                *)
(***************************************************************************)
CONSTANTS
    Callers,     \* threads that dispatch handlers
    Names,       \* names a program passes to call()
    Exported,    \* the names the symbol table resolves
    NoName       \* no name

VARIABLES
    ccReq,       \* ccReq[c]: the name thread c is dispatching, or NoName
    ccRun        \* ccRun[c]: the function it runs, named by its symbol

dynVars == <<ccReq, ccRun>>

DynInit ==
    /\ ccReq = [c \in Callers |-> NoName]
    /\ ccRun = [c \in Callers |-> NoName]

\* A thread reaches call(n).
DynRequest(c, n) ==
    /\ ccReq[c] = NoName
    /\ ccReq' = [ccReq EXCEPT ![c] = n]
    /\ UNCHANGED ccRun

\* The function of that name starts.
DynRun(c) ==
    /\ ccReq[c] \in Exported
    /\ ccRun[c] = NoName
    /\ ccRun' = [ccRun EXCEPT ![c] = ccReq[c]]
    /\ UNCHANGED ccReq

\* "Function not found", only for a name nothing exports.
DynNotFound(c) ==
    /\ ccReq[c] \in Names \ Exported
    /\ ccReq' = [ccReq EXCEPT ![c] = NoName]
    /\ UNCHANGED ccRun

\* The function returns.
DynReturn(c) ==
    /\ ccRun[c] # NoName
    /\ ccReq' = [ccReq EXCEPT ![c] = NoName]
    /\ ccRun' = [ccRun EXCEPT ![c] = NoName]

DynNext ==
    \E c \in Callers :
        \/ \E n \in Names : DynRequest(c, n)
        \/ DynRun(c) \/ DynNotFound(c) \/ DynReturn(c)

DynSpec == DynInit /\ [][DynNext]_dynVars
=============================================================================
