------------------------------ MODULE DapAdapter ----------------------------
(***************************************************************************)
(* `tulpar debug`: the debug adapter between a DAP client and a gdb        *)
(* subprocess (src/src/cli/debug_cmd.cpp, POSIX).                          *)
(*                                                                         *)
(* The main thread reads one request at a time and answers it before the   *)
(* next.  A query is a tokened command written to gdb's stdin and a wait,  *)
(* with a timeout, for the result with that token; stepping commands are   *)
(* tokened too, but nobody waits for theirs.  A reader thread takes gdb's  *)
(* output apart: results go into m_results, `*stopped` should become a DAP *)
(* event.  terminate, disconnect and restart stop gdb: ask it to exit, reap*)
(* it or kill it, join the reader, forget the results.                     *)
(*                                                                         *)
(* gdb is external.  It runs commands in order while the debugged program  *)
(* is not running, may die on its own, and may not start at all: fork      *)
(* succeeds even when there is no gdb to execute.  The logpoint thread is  *)
(* left out: no `*stopped` record ever reaches it.                         *)
(***************************************************************************)
EXTENDS Integers, Sequences

CONSTANTS
    MaxToken,     \* bound on the tokened commands of a run
    MaxSession    \* bound on the gdb processes it starts

ASSUME DapAssumption == MaxToken \in Nat /\ MaxSession \in Nat

VARIABLES
    dapPc,        \* where the main thread is
    dapReq,       \* the request it is stopping gdb for
    dapTok,       \* the token it waits for, 0 for none
    dapNext,      \* m_next_token
    dapRunning,   \* m_running
    dapReader,    \* m_reader: "none" is not joinable, "ended" is
    dapResults,   \* m_results, each with the command it answers
    dapLaunched,  \* g_launched
    dapSession,   \* history: how many gdb processes were started
    dapAsked,     \* history: how many tokened commands were sent
    dapClientSees,\* history: the client was told that the program stopped
    dapGdbDied,   \* history: a gdb ended without being asked to
    gdbAlive,     \* the gdb process
    gdbIn,        \* its stdin pipe
    gdbOut,       \* its stdout pipe
    gdbProgram    \* the debugged program: "none", "running", "stopped"

counters == <<dapNext, dapSession, dapAsked>>
mainVars == <<dapPc, dapReq, dapTok, dapLaunched, counters>>
gdbVars == <<gdbAlive, gdbIn, gdbOut, gdbProgram>>
dapVars == <<mainVars, dapRunning, dapReader, dapResults, dapClientSees,
             dapGdbDied, gdbVars>>

Tokens == 1..MaxToken

\* A line of gdb's input; id, the number of the command, is history.
Commands == [kind : {"query", "exec"}, tok : Tokens, id : Tokens] \cup
            [kind : {"exit"}, tok : {0}, id : {0}]

\* A line of gdb's output: a result, or an asynchronous record, here as the
\* prefix and the word after it.
Results == [tok : Tokens, id : Tokens]
StoppedRecord == <<"*", "stopped">>
Lines == [result : Results] \cup [record : {StoppedRecord}]

DapTypeOK ==
    /\ dapPc \in {"read", "wait", "reap", "join", "stopped", "quit", "done", "dead"}
    /\ dapReq \in {"none", "terminate", "disconnect", "restart"}
    /\ dapTok \in Tokens \cup {0}
    /\ dapNext \in 1..(MaxToken + 1)
    /\ dapRunning \in BOOLEAN
    /\ dapReader \in {"none", "running", "ended"}
    /\ dapResults \subseteq Results
    /\ dapLaunched \in BOOLEAN
    /\ dapSession \in 0..MaxSession
    /\ dapAsked \in 0..MaxToken
    /\ dapClientSees \in BOOLEAN
    /\ dapGdbDied \in BOOLEAN
    /\ gdbAlive \in BOOLEAN
    /\ gdbIn \in Seq(Commands)
    /\ gdbOut \in Seq(Lines)
    /\ gdbProgram \in {"none", "running", "stopped"}

DapInit ==
    /\ dapPc = "read" /\ dapReq = "none" /\ dapTok = 0 /\ dapNext = 1
    /\ dapRunning = FALSE /\ dapReader = "none" /\ dapResults = {}
    /\ dapLaunched = FALSE /\ dapSession = 0 /\ dapAsked = 0
    /\ dapClientSees = FALSE /\ dapGdbDied = FALSE
    /\ gdbAlive = FALSE /\ gdbIn = <<>> /\ gdbOut = <<>> /\ gdbProgram = "none"

-----------------------------------------------------------------------------
(* GdbProcess::start and send_command *)

\* std::terminate, or SIGPIPE: the adapter is gone.
Dies == dapPc' = "dead" /\ UNCHANGED <<dapReader, dapRunning>>

\* start(), when m_running is false: fork always succeeds here, gdb may not.
\* Assigning to m_reader while it is joinable is std::terminate.
Spawn(pc) ==
    \/ /\ dapReader # "none"
       /\ Dies
       /\ UNCHANGED <<dapLaunched, dapSession, dapGdbDied, gdbVars, dapClientSees>>
    \/ /\ dapReader = "none"
       /\ dapSession' = dapSession + 1
       /\ dapRunning' = TRUE
       /\ dapReader' = "running"
       /\ dapLaunched' = TRUE
       /\ dapClientSees' = FALSE
       /\ gdbAlive' \in BOOLEAN
       /\ dapGdbDied' = (dapGdbDied \/ ~gdbAlive')
       /\ gdbIn' = <<>> /\ gdbOut' = <<>> /\ gdbProgram' = "none"
       /\ dapPc' = pc

\* Mutant: the token counter wraps around.
SendCommand_Wraps(kind, pc) ==
    /\ dapAsked < MaxToken
    /\ dapAsked' = dapAsked + 1
    /\ dapNext' = IF dapNext = 2 THEN 1 ELSE dapNext + 1
    /\ IF gdbAlive
       THEN /\ gdbIn' = Append(gdbIn, [kind |-> kind, tok |-> dapNext,
                                       id |-> dapAsked + 1])
            /\ dapPc' = pc
       ELSE gdbIn' = gdbIn /\ dapPc' = "dead"

\* send_command with a token.  Nobody reads the pipe of a dead gdb: the write
\* raises SIGPIPE, which the adapter does not handle.
SendCommand(kind, pc) ==
    /\ dapAsked < MaxToken
    /\ dapAsked' = dapAsked + 1
    /\ dapNext' = dapNext + 1
    /\ IF gdbAlive
       THEN /\ gdbIn' = Append(gdbIn, [kind |-> kind, tok |-> dapNext,
                                       id |-> dapAsked + 1])
            /\ dapPc' = pc
       ELSE gdbIn' = gdbIn /\ dapPc' = "dead"

-----------------------------------------------------------------------------
(* Requests *)

\* launch, with the program built: start gdb.
DapLaunch ==
    /\ dapPc = "read"
    /\ ~dapRunning
    /\ dapSession < MaxSession
    /\ Spawn("read")
    /\ UNCHANGED <<dapReq, dapTok, dapNext, dapAsked, dapResults>>

\* gdb_query: send the command and wait for its result.
DapQuery ==
    /\ dapPc = "read"
    /\ dapRunning
    /\ SendCommand("query", "wait")
    /\ dapTok' = dapNext
    /\ UNCHANGED <<dapReq, dapRunning, dapReader, dapResults, dapLaunched,
                   dapSession, dapClientSees, dapGdbDied, gdbAlive, gdbOut,
                   gdbProgram>>

\* configurationDone, continue, next, stepIn, stepOut, pause: send the command
\* and answer at once.
DapExec ==
    /\ dapPc = "read"
    /\ dapRunning
    /\ SendCommand("exec", "read")
    /\ dapClientSees' = FALSE
    /\ UNCHANGED <<dapReq, dapTok, dapRunning, dapReader, dapResults,
                   dapLaunched, dapSession, dapGdbDied, gdbAlive, gdbOut,
                   gdbProgram>>

\* The results for the token waited for.
Awaited == {r \in dapResults : r.tok = dapTok}

\* wait_for_result finds the result and removes it.
DapAnswer ==
    /\ dapPc = "wait"
    /\ Awaited # {}
    /\ dapResults' = dapResults \ Awaited
    /\ dapTok' = 0
    /\ dapPc' = "read"
    /\ UNCHANGED <<dapReq, counters, dapLaunched, dapRunning,
                   dapReader, dapClientSees, dapGdbDied, gdbVars>>

\* Mutant: no timeout while gdb lives.
DapTimeout_Never ==
    /\ dapPc = "wait"
    /\ ~gdbAlive
    /\ dapTok' = 0
    /\ dapPc' = "read"
    /\ UNCHANGED <<dapReq, counters, dapLaunched, dapRunning,
                   dapReader, dapResults, dapClientSees, dapGdbDied, gdbVars>>

\* Or it times out; the result may still come.
DapTimeout ==
    /\ dapPc = "wait"
    /\ Awaited = {}
    /\ dapTok' = 0
    /\ dapPc' = "read"
    /\ UNCHANGED <<dapReq, counters, dapLaunched, dapRunning,
                   dapReader, dapResults, dapClientSees, dapGdbDied, gdbVars>>

\* terminate; disconnect or end of input; restart of a launched session: all
\* call stop(), which returns at once when m_running is false and otherwise
\* writes -gdb-exit and closes gdb's stdin.
DapStop ==
    /\ dapPc = "read"
    /\ dapReq' \in {"terminate", "disconnect", "restart"}
    /\ dapReq' = "restart" => dapLaunched /\ dapSession < MaxSession
    /\ IF ~dapRunning
       THEN dapPc' = "stopped" /\ UNCHANGED gdbIn
       ELSE IF gdbAlive
       THEN /\ dapPc' = "reap"
            /\ gdbIn' = Append(gdbIn, [kind |-> "exit", tok |-> 0, id |-> 0])
       ELSE dapPc' = "dead" /\ UNCHANGED gdbIn
    /\ UNCHANGED <<dapTok, counters, dapLaunched, dapRunning,
                   dapReader, dapResults, dapClientSees, dapGdbDied, gdbAlive,
                   gdbOut, gdbProgram>>

\* The reaping loop of stop(): gdb exited, or is killed after a second.
DapReap ==
    /\ dapPc = "reap"
    /\ gdbAlive' = FALSE
    /\ gdbProgram' = "none"
    /\ dapRunning' = FALSE
    /\ dapPc' = "join"
    /\ UNCHANGED <<dapReq, dapTok, counters, dapLaunched, dapReader,
                   dapResults, dapClientSees, dapGdbDied, gdbIn, gdbOut>>

\* Mutant: stop() does not clear m_results.
DapJoin_Keeps ==
    /\ dapPc = "join"
    /\ dapReader = "ended"
    /\ dapReader' = "none"
    /\ dapPc' = "stopped"
    /\ UNCHANGED <<dapReq, dapTok, counters, dapLaunched, dapRunning,
                   dapResults, dapClientSees, dapGdbDied, gdbVars>>

\* Mutant: stop() detaches itself from the reader without joining it.
DapJoin_None ==
    /\ dapPc = "join"
    /\ dapResults' = {}
    /\ dapPc' = "stopped"
    /\ UNCHANGED <<dapReq, dapTok, counters, dapLaunched, dapRunning,
                   dapReader, dapClientSees, dapGdbDied, gdbVars>>

\* m_reader.join(), then m_results.clear().
DapJoin ==
    /\ dapPc = "join"
    /\ dapReader = "ended"
    /\ dapReader' = "none"
    /\ dapResults' = {}
    /\ dapPc' = "stopped"
    /\ UNCHANGED <<dapReq, dapTok, counters, dapLaunched, dapRunning,
                   dapClientSees, dapGdbDied, gdbVars>>

\* stop() returned: terminate answers, disconnect leaves the main loop.
DapStopped ==
    /\ dapPc = "stopped"
    /\ dapReq # "restart"
    /\ dapLaunched' = FALSE
    /\ dapPc' = IF dapReq = "terminate" THEN "read" ELSE "quit"
    /\ dapReq' = "none"
    /\ UNCHANGED <<dapTok, counters, dapRunning, dapReader,
                   dapResults, dapClientSees, dapGdbDied, gdbVars>>

\* Restart starts gdb again.
DapRestarted ==
    /\ dapPc = "stopped"
    /\ dapReq = "restart"
    /\ Spawn("read")
    /\ dapReq' = "none"
    /\ UNCHANGED <<dapTok, dapNext, dapAsked, dapResults>>

\* The process exits: destroying a joinable m_reader is std::terminate.
DapQuit ==
    /\ dapPc = "quit"
    /\ dapPc' = IF dapReader = "none" THEN "done" ELSE "dead"
    /\ UNCHANGED <<dapReq, dapTok, counters, dapLaunched, dapRunning,
                   dapReader, dapResults, dapClientSees, dapGdbDied, gdbVars>>

-----------------------------------------------------------------------------
(* reader_loop *)

\* dispatch_async_record: it gets the record from the prefix on, and looks for
\* "stopped" at its start.
BecomesEvent(record) == Head(record) = "stopped"

\* One line of gdb's output.
ReaderLine ==
    /\ dapReader = "running"
    /\ gdbOut # <<>>
    /\ gdbOut' = Tail(gdbOut)
    /\ LET line == Head(gdbOut) IN
       IF "result" \in DOMAIN line
       THEN /\ dapResults' = {r \in dapResults : r.tok # line.result.tok}
                             \cup {line.result}
            /\ UNCHANGED dapClientSees
       ELSE /\ dapClientSees' = (dapClientSees \/ BecomesEvent(line.record))
            /\ UNCHANGED dapResults
    /\ UNCHANGED <<mainVars, dapRunning, dapReader, dapGdbDied, gdbAlive, gdbIn,
                   gdbProgram>>

\* End of output, or the pipe was closed under it by stop().
ReaderEof ==
    /\ dapReader = "running"
    /\ ~gdbAlive
    /\ gdbOut = <<>> \/ dapPc = "join"
    /\ dapReader' = "ended"
    /\ dapRunning' = FALSE
    /\ gdbOut' = <<>>
    /\ UNCHANGED <<mainVars, dapResults, dapClientSees, dapGdbDied, gdbAlive,
                   gdbIn, gdbProgram>>

-----------------------------------------------------------------------------
(* gdb, as the adapter uses it. *)

\* It takes the next command while the program is not running: a query is
\* answered, an exec command is acknowledged and resumes the program.
GdbCommand ==
    /\ gdbAlive
    /\ gdbIn # <<>> /\ Head(gdbIn).kind # "exit"
    /\ gdbProgram # "running"
    /\ gdbIn' = Tail(gdbIn)
    /\ gdbOut' = Append(gdbOut,
          [result |-> [tok |-> Head(gdbIn).tok, id |-> Head(gdbIn).id]])
    /\ gdbProgram' = IF Head(gdbIn).kind = "exec" THEN "running" ELSE gdbProgram
    /\ UNCHANGED <<mainVars, dapRunning, dapReader, dapResults, dapClientSees,
                   dapGdbDied, gdbAlive>>

\* The program hits a breakpoint, gets a signal, ends a step or exits.
GdbProgramStops ==
    /\ gdbAlive
    /\ gdbProgram = "running"
    /\ gdbProgram' = "stopped"
    /\ gdbOut' = Append(gdbOut, [record |-> StoppedRecord])
    /\ UNCHANGED <<mainVars, dapRunning, dapReader, dapResults, dapClientSees,
                   dapGdbDied, gdbAlive, gdbIn>>

\* gdb ends: because it was asked to, or on its own.
GdbEnds ==
    /\ gdbAlive
    /\ gdbAlive' = FALSE
    /\ gdbProgram' = "none"
    /\ dapGdbDied' = (dapGdbDied \/ dapPc # "reap")
    /\ UNCHANGED <<mainVars, dapRunning, dapReader, dapResults, dapClientSees,
                   gdbIn, gdbOut>>

DapMain ==
    \/ DapAnswer \/ DapTimeout \/ DapReap \/ DapJoin
    \/ DapStopped \/ DapRestarted \/ DapQuit
DapClient == DapLaunch \/ DapQuery \/ DapExec \/ DapStop
DapReader == ReaderLine \/ ReaderEof
Gdb == GdbCommand \/ GdbProgramStops \/ GdbEnds

DapNext == DapMain \/ DapClient \/ DapReader \/ Gdb

\* The main thread and the reader are threads that keep running; neither the
\* client nor gdb has to do anything.
DapFairness == WF_dapVars(DapMain) /\ WF_dapVars(DapReader)

DapSpec == DapInit /\ [][DapNext]_dapVars /\ DapFairness

-----------------------------------------------------------------------------
(* Correctness. *)

\* The answer a handler takes is gdb's to the command it just sent, never one
\* left over from a query that timed out, from a stepping command nobody waits
\* for, or from the gdb before a restart.
AnswerIsOwn ==
    dapPc = "wait" => \A r \in Awaited : r.id = dapAsked

\* The adapter aborts or is killed by SIGPIPE only after a gdb ended without
\* being asked to (or could not be executed): stop() returns early then, and
\* leaves the ended reader joinable.
DiesOnlyAfterGdb == dapPc = "dead" => dapGdbDied

\* stop() leaves nothing behind: once it returned with gdb under control, the
\* reader is gone, no result is kept and no gdb is left.
StopIsClean ==
    dapPc \in {"stopped", "quit", "done"} /\ ~dapGdbDied =>
        dapReader = "none" /\ dapResults = {} /\ ~gdbAlive

\* Every request is answered, or the adapter is gone: no wait for gdb, for the
\* reader or for a result lasts for ever.
RequestsEnd ==
    dapPc \in {"wait", "reap", "join", "stopped"}
        ~> dapPc \in {"read", "quit", "done", "dead"}

\* src/src/cli/debug_cmd.cpp:15 says a "*stopped" record becomes a DAP
\* "stopped" event: once the reader has taken all of gdb's output, a client
\* whose program is stopped has been told so.
StopsAreReported ==
    gdbProgram = "stopped" /\ gdbOut = <<>> /\ dapReader = "running"
        => dapClientSees
=============================================================================
