------------------------------ MODULE WingsServe ----------------------------
(***************************************************************************)
(* The serve loops of Wings (src/lib/wings.tpr) as users of the arena.     *)
(*                                                                         *)
(* One thread serves connections in one of three ways:                     *)
(*   "pool"     _wings_serve_connection, called again and again by a pool  *)
(*              worker: a scope per connection, rewound after each request *)
(*              and dropped at the end;                                    *)
(*   "evented"  listen_evented: a scope per tick, and inside it a scope    *)
(*              per request (_wings_serve_one_request);                    *)
(*   "listen"   one scope for the life of the server, rewound after each   *)
(*              request.                                                   *)
(* A server runs for ever, so what matters is that nothing a request used  *)
(* is still held at the head of the loop, and that the bounded checkpoint  *)
(* stack does not fill up.  Routing, headers and sockets are left out: they*)
(* only decide which way a request leaves the loop.                        *)
(***************************************************************************)
EXTENDS Arena

CONSTANT ServeModes

ASSUME ServeAssumption == ServeModes \subseteq {"pool", "evented", "listen"}

VARIABLES
    srvMode,    \* which loop this thread runs
    srvPc,      \* where it is in the loop
    srvWm,      \* wm: the handle arena_save gave, 0 for -1
    srvTick,    \* _evt_wm of the evented loop
    srvEmpty    \* history: connections of the listen loop that closed without
                \* sending anything since the last request

srvVars == <<srvMode, srvPc, srvWm, srvTick, srvEmpty>>

SrvTypeOK ==
    /\ srvMode \in ServeModes
    /\ srvPc \in {"start", "idle", "tick", "recv", "request", "leave"}
    /\ srvWm \in 0..CheckpointMax
    /\ srvTick \in 0..CheckpointMax
    /\ srvEmpty \in 0..MaxLive

SrvInit ==
    /\ srvMode \in ServeModes
    /\ srvPc = "start"
    /\ srvWm = 0
    /\ srvTick = 0
    /\ srvEmpty = 0

\* arena_save() into the handle wm; a full stack gives -1.
SaveInto(wm) ==
    \/ ArSave /\ wm' = Len(arCps) + 1
    \/ Len(arCps) = CheckpointMax /\ wm' = 0 /\ UNCHANGED arCps

\* arena_restore and arena_drop with a handle; -1 does nothing.
RestoreTo(wm) ==
    ArRestore(wm) \/ (wm \notin DOMAIN arCps /\ UNCHANGED arVars)
DropTo(wm) ==
    ArDrop(wm) \/ (wm \notin DOMAIN arCps /\ UNCHANGED arVars)

-----------------------------------------------------------------------------
(* The way into a request *)

\* The listen loop takes its one scope before it accepts.
SrvListenStart ==
    /\ srvPc = "start"
    /\ srvMode = "listen"
    /\ SaveInto(srvWm)
    /\ srvPc' = "idle"
    /\ UNCHANGED <<strings, containers, srvMode, srvTick, srvEmpty>>

SrvOtherStart ==
    /\ srvPc = "start"
    /\ srvMode # "listen"
    /\ srvPc' = "idle"
    /\ UNCHANGED <<arVars, srvMode, srvWm, srvTick, srvEmpty>>

\* A connection: the pool worker opens a scope for it, the listen loop has one.
SrvAccept ==
    /\ srvPc = "idle"
    /\ \/ srvMode = "pool" /\ SaveInto(srvWm)
       \/ srvMode = "listen" /\ UNCHANGED <<arCps, srvWm>>
    /\ srvPc' = "recv"
    /\ UNCHANGED <<strings, containers, srvMode, srvTick, srvEmpty>>

\* A tick of the evented loop: its scope, then the poll.
SrvTick ==
    /\ srvPc = "idle"
    /\ srvMode = "evented"
    /\ SaveInto(srvTick)
    /\ srvPc' = "tick"
    /\ UNCHANGED <<strings, containers, srvMode, srvWm, srvEmpty>>

\* The tick's own containers: ready, which socket_poll builds in the arena,
\* next_fds and closed.
SrvTickObject ==
    /\ srvPc = "tick"
    /\ ArNewObject \/ \E n \in AllocSizes : ArNewArray(n)
    /\ UNCHANGED srvVars

\* A ready connection: _wings_serve_one_request opens the inner scope.
SrvServeOne ==
    /\ srvPc = "tick"
    /\ SaveInto(srvWm)
    /\ srvPc' = "recv"
    /\ UNCHANGED <<strings, containers, srvMode, srvTick, srvEmpty>>

\* The tick ends (or the poll timed out): its scope is dropped.
SrvTickEnd ==
    /\ srvPc = "tick"
    /\ DropTo(srvTick)
    /\ srvPc' = "idle"
    /\ srvTick' = 0
    /\ UNCHANGED <<srvMode, srvWm, srvEmpty>>

-----------------------------------------------------------------------------
(* A request *)

\* http_recv_request returns a string of the request.
SrvRecv ==
    /\ srvPc = "recv"
    /\ \E n \in AllocSizes : ArAlloc(n)
    /\ srvPc' = "request"
    /\ UNCHANGED <<srvMode, srvWm, srvTick, srvEmpty>>

\* It returns an empty string: the peer closed.  Pool and evented drop their
\* scope; the listen loop goes back to accept without a restore.
SrvRecvEmpty ==
    /\ srvPc = "recv"
    /\ \E n \in AllocSizes : ArAlloc(n)
    /\ IF srvMode = "listen"
       THEN srvPc' = "idle" /\ srvEmpty' = srvEmpty + 1
       ELSE srvPc' = "leave" /\ UNCHANGED srvEmpty
    /\ UNCHANGED <<srvMode, srvWm, srvTick>>

\* Parsing, the handler and the response allocate, build containers and may
\* open scopes of their own without closing them.
SrvWork ==
    /\ srvPc = "request"
    /\ \/ \E n \in AllocSizes : ArAlloc(n) \/ ArNewArray(n)
       \/ ArNewObject
       \/ ArSave /\ UNCHANGED <<strings, containers>>
    /\ UNCHANGED srvVars

\* The response is out and the connection stays: pool and listen rewind.
SrvKeep ==
    /\ srvPc = "request"
    /\ srvMode # "evented"
    /\ RestoreTo(srvWm)
    /\ srvPc' = "recv"
    /\ srvEmpty' = 0
    /\ UNCHANGED <<srvMode, srvWm, srvTick>>

\* The response is out, or a handler streamed, and the request leaves the
\* loop: the listen loop rewinds and accepts, the others go on to their drop.
SrvFinish ==
    /\ srvPc = "request"
    /\ IF srvMode = "evented" THEN UNCHANGED arVars ELSE RestoreTo(srvWm)
    /\ srvPc' = IF srvMode = "listen" THEN "idle" ELSE "leave"
    /\ srvEmpty' = 0
    /\ UNCHANGED <<srvMode, srvWm, srvTick>>

\* Mutant: the scope is restored at the end of a connection, not dropped.
SrvLeave_Restores ==
    /\ srvPc = "leave"
    /\ RestoreTo(srvWm)
    /\ srvPc' = IF srvMode = "evented" THEN "tick" ELSE "idle"
    /\ srvWm' = 0
    /\ UNCHANGED <<srvMode, srvTick, srvEmpty>>

\* arena_drop(wm) at the end of a connection or of an evented request.
SrvLeave ==
    /\ srvPc = "leave"
    /\ DropTo(srvWm)
    /\ srvPc' = IF srvMode = "evented" THEN "tick" ELSE "idle"
    /\ srvWm' = 0
    /\ UNCHANGED <<srvMode, srvTick, srvEmpty>>

SrvNext ==
    \/ SrvListenStart \/ SrvOtherStart \/ SrvAccept
    \/ SrvTick \/ SrvTickObject \/ SrvServeOne \/ SrvTickEnd
    \/ SrvRecv \/ SrvRecvEmpty \/ SrvWork \/ SrvKeep \/ SrvFinish \/ SrvLeave

SrvSpec == ArInit /\ SrvInit /\ [][SrvNext]_<<arVars, srvVars>>

-----------------------------------------------------------------------------
(* Correctness. *)

\* At the head of a serve loop nothing of the requests served is left: the
\* checkpoint stack is where the loop found it, whatever scopes the handlers
\* left open, no container is tracked, and the arena holds one string per
\* connection that the listen loop accepted and that sent nothing since the
\* last request; the other loops hold none.
ServeReclaims ==
    srvPc = "idle" =>
        /\ Len(arCps) = IF srvMode = "listen" THEN 1 ELSE 0
        /\ arRegion = <<>>
        /\ Len(arLive) = srvEmpty
=============================================================================
