------------------------------- MODULE HttpRecv -----------------------------
(***************************************************************************)
(* http_recv_request on one keep-alive connection                          *)
(* (src/src/vm/runtime_bindings.cpp), called again and again by the serve  *)
(* loops of Wings, and how http_parse_request takes what it returns apart. *)
(*                                                                         *)
(* The client's bytes arrive in pieces of any size and recv returns any    *)
(* number of those that are there, so the blank line that ends the headers *)
(* can be cut anywhere.  Until the headers are complete a read may fill the*)
(* buffer: from a client that sends a request before the last is answered  *)
(* it takes bytes of the next request, and they are lost to the next call  *)
(* (the comment on the function says it does not consume them).            *)
(*                                                                         *)
(* The buffer is always a stretch of the byte stream: rqStart and rqRead   *)
(* say which.  A byte is "h" (some of the request line or a header), "c"   *)
(* (the Content-Length line), one of the four of the blank line, or "b"    *)
(* (body).  malloc does not fail.                                          *)
(*                                                                         *)
(* The length of a request is a sum of ints, and it overflows when a client*)
(* announces a body near the largest int.                                  *)
(***************************************************************************)
EXTENDS Integers, Sequences, FiniteSetsExt

CONSTANTS
    RqScripts,   \* what a client may send: sequences of requests
    RqCap,       \* STATIC_CAP, the size of the thread's own buffer
    RqMax,       \* max_bytes, the largest request
    RqIntMax     \* the largest int

\* A request is a head (the request line and the headers), a blank line and a
\* body.  `at` is the number of bytes the client sends before it.
Requests == [at : Nat, head : Nat \ {0}, declares : BOOLEAN, body : Nat]

Size(q) == q.head + 4 + q.body

\* Requests follow each other, and one with a body declares it: what else could
\* tell its end?  No body is longer than an int says: the code takes a longer
\* one for the largest int here, and leaves it to atoi in http_parse_request.
ASSUME RqAssumption ==
    /\ \A s \in RqScripts :
          /\ s \in Seq(Requests) /\ s # <<>> /\ s[1].at = 0
          /\ \A k \in 2..Len(s) : s[k].at = s[k - 1].at + Size(s[k - 1])
          /\ \A k \in DOMAIN s :
                /\ s[k].body <= RqIntMax
                /\ IF s[k].declares THEN s[k].head > 1 ELSE s[k].body = 0
    /\ RqCap \in Nat /\ RqMax \in Nat /\ RqIntMax \in Nat
    /\ 4 < RqCap /\ RqCap <= RqIntMax /\ RqMax <= RqIntMax

VARIABLES
    rqScript,     \* the requests this client sends
    rqSent,       \* bytes of them that have arrived
    rqEof,        \* the client closed or reset the connection
    rqPipelined,  \* history: a request began before the last was answered
    rqPc,         \* "recv", "handling" or "closed"
    rqStart,      \* bytes read by earlier calls
    rqRead,       \* bytes read by now: total = rqRead - rqStart
    rqHeadEnd,    \* header_end, or -1
    rqNeeded,     \* needed: -1 before it is computed, less if that overflowed
    rqRoom,       \* cap
    rqGot,        \* history: what the calls returned
    rqReplies     \* responses sent

callVars == <<rqStart, rqRead, rqHeadEnd, rqNeeded, rqRoom>>
clientVars == <<rqScript, rqSent, rqEof, rqPipelined>>
rqVars == <<clientVars, rqPc, callVars, rqGot, rqReplies>>

\* The bytes of the wire are numbered from 1; these are those of request k.
Whole(k) == (rqScript[k].at + 1)..(rqScript[k].at + Size(rqScript[k]))

WireLen ==
    LET last == rqScript[Len(rqScript)] IN last.at + Size(last)

\* Whose byte it is, and which.
Owner(byte) == CHOOSE k \in DOMAIN rqScript : byte \in Whole(k)
Char(byte) ==
    LET q == rqScript[Owner(byte)]
        nth == byte - q.at
    IN  IF nth <= q.head THEN IF nth = 2 /\ q.declares THEN "c" ELSE "h"
        ELSE IF nth <= q.head + 4 THEN <<"r", "n", "r", "n">>[nth - q.head]
        ELSE "b"

BodyOf(k) == {byte \in Whole(k) : Char(byte) = "b"}

RqTypeOK ==
    /\ rqScript \in RqScripts
    /\ rqSent \in 0..WireLen
    /\ rqEof \in BOOLEAN
    /\ rqPipelined \in BOOLEAN
    /\ rqPc \in {"recv", "handling", "closed"}
    /\ rqStart \in 0..rqRead
    /\ rqRead \in 0..rqSent
    /\ rqHeadEnd \in {-1} \cup 4..RqCap
    /\ rqNeeded \in (-(RqIntMax + 1))..(-1) \cup 4..RqMax
    /\ rqRoom \in {RqCap} \cup RqCap..RqMax
    /\ rqGot \in Seq([raw : SUBSET (1..WireLen), body : SUBSET (1..WireLen)])
    /\ rqReplies \in 0..Len(rqGot)

\* A new call: nothing read, headers not seen, the thread's own buffer.
Fresh(read) ==
    /\ rqStart' = read /\ rqRead' = read
    /\ rqHeadEnd' = -1 /\ rqNeeded' = -1 /\ rqRoom' = RqCap

RqInit ==
    /\ rqScript \in RqScripts
    /\ rqSent = 0 /\ rqEof = FALSE /\ rqPipelined = FALSE
    /\ rqPc = "recv"
    /\ rqStart = 0 /\ rqRead = 0
    /\ rqHeadEnd = -1 /\ rqNeeded = -1 /\ rqRoom = RqCap
    /\ rqGot = <<>> /\ rqReplies = 0

-----------------------------------------------------------------------------
(* The client *)

\* The next n bytes arrive.
RqSend(n) ==
    /\ rqPc # "closed" /\ ~rqEof
    /\ rqSent + n <= WireLen
    /\ rqSent' = rqSent + n
    /\ rqPipelined' = (rqPipelined \/ Owner(rqSent') > rqReplies + 1)
    /\ UNCHANGED <<rqScript, rqEof, rqPc, callVars, rqGot, rqReplies>>

\* It closes or resets the connection.
RqHangUp ==
    /\ rqPc # "closed" /\ ~rqEof
    /\ rqEof' = TRUE
    /\ UNCHANGED <<rqScript, rqSent, rqPipelined, rqPc, callVars, rqGot, rqReplies>>

-----------------------------------------------------------------------------
(* http_recv_request *)

\* The byte at index i of the buffer, from 0 as in the code.
ByteAt(i) == Char(rqStart + i + 1)

\* Mutant: the scan starts with the bytes of this read.
ScanFrom_NewBytes(total, n) == total - n

\* scan_from: three bytes before this read, in case the blank line was cut.
ScanFrom(total, n) == IF total - n - 3 < 0 THEN 0 ELSE total - n - 3

\* The positions after a blank line the scan finds.
BlankLines(total, n) ==
    {i + 4 : i \in {i \in ScanFrom(total, n)..(total - 4) :
                      <<ByteAt(i), ByteAt(i + 1), ByteAt(i + 2), ByteAt(i + 3)>>
                          = <<"r", "n", "r", "n">>}}

\* The Content-Length of the first such line in the first headEnd bytes, or -1.
Declared(headEnd) ==
    LET lines == {i \in 0..(headEnd - 1) : ByteAt(i) = "c"}
    IN  IF lines = {} THEN -1
        ELSE rqScript[Owner(rqStart + Min(lines) + 1)].body

\* Mutant: the request is taken to end with its headers.
NeededFor_Headers(headEnd) == headEnd

\* The sum of two ints that are not negative, which wraps around.
IntSum(a, b) == IF a + b > RqIntMax THEN a + b - 2 * (RqIntMax + 1) ELSE a + b

\* needed = header_end + content_length, where no line means 0.
NeededFor(headEnd) ==
    IntSum(headEnd, IF Declared(headEnd) < 0 THEN 0 ELSE Declared(headEnd))

\* http_parse_request: the body is what follows the headers, cut to
\* Content-Length if there is such a line.
ParsedBody(headEnd, total) ==
    {rqStart + i : i \in (headEnd + 1)..
        IF Declared(headEnd) >= 0 /\ headEnd + Declared(headEnd) < total
        THEN headEnd + Declared(headEnd) ELSE total}

\* The call returns "", and the serve loop closes the connection.
GivesUp ==
    /\ rqPc' = "closed"
    /\ UNCHANGED <<rqStart, rqHeadEnd, rqNeeded, rqRoom, rqGot>>

\* Whether what the call has is enough, asked right after the sum.  The test
\* for needed > 0 may be gone from the build: a sum of ints that are not
\* negative is only negative by an overflow, which is undefined.
Enough(needed, room, total) ==
    IF needed > 0 THEN {total >= needed} ELSE {total >= room, TRUE}

\* The call goes on reading, or returns what it has once that is enough.
GoesOn(headEnd, needed, room, total, enough) ==
    /\ rqHeadEnd' = headEnd
    /\ rqNeeded' = needed
    /\ rqRoom' = room
    /\ IF enough
       THEN /\ rqPc' = "handling"
            /\ rqGot' = Append(rqGot,
                  [raw |-> (rqStart + 1)..(rqStart + total),
                   body |-> ParsedBody(headEnd, total)])
       ELSE UNCHANGED <<rqPc, rqGot>>
    /\ UNCHANGED rqStart

\* How far the call wants to read.
Target == IF rqNeeded > 0 THEN rqNeeded ELSE rqRoom

\* One recv of n bytes, and all the code does before the next.
RqRecv(n) ==
    LET total == rqRead - rqStart + n
        found == BlankLines(total, n)
        needed == NeededFor(Min(found))
        room == IF needed > rqRoom THEN needed ELSE rqRoom
    IN
    /\ rqPc = "recv"
    /\ rqRead + n <= rqSent /\ total <= Target
    /\ rqRead' = rqRead + n
    /\ \/ /\ rqHeadEnd >= 0
          /\ GoesOn(rqHeadEnd, rqNeeded, rqRoom, total, total >= Target)
       \/ /\ rqHeadEnd < 0 /\ found = {} /\ total < rqRoom
          /\ UNCHANGED <<rqStart, rqPc, rqHeadEnd, rqNeeded, rqRoom, rqGot>>
       \/ /\ rqHeadEnd < 0 /\ found = {} /\ total >= rqRoom
          /\ GivesUp
       \/ /\ rqHeadEnd < 0 /\ found # {} /\ needed > RqMax
          /\ GivesUp
       \/ /\ rqHeadEnd < 0 /\ found # {} /\ needed <= RqMax
          /\ \E enough \in Enough(needed, room, total) :
                GoesOn(Min(found), needed, room, total, enough)
    /\ UNCHANGED <<clientVars, rqReplies>>

\* recv returns 0 or an error.
RqRecvFails ==
    /\ rqPc = "recv" /\ rqEof
    /\ GivesUp
    /\ UNCHANGED <<clientVars, rqRead, rqReplies>>

\* The serve loop sends the response, and calls again or closes.
RqRespond(keep) ==
    /\ rqPc = "handling"
    /\ rqReplies' = rqReplies + 1
    /\ IF keep THEN Fresh(rqRead) /\ rqPc' = "recv"
               ELSE rqPc' = "closed" /\ UNCHANGED callVars
    /\ UNCHANGED <<clientVars, rqGot>>

RqNext ==
    \/ \E n \in 1..WireLen : RqSend(n) \/ RqRecv(n)
    \/ RqHangUp \/ RqRecvFails
    \/ \E keep \in BOOLEAN : RqRespond(keep)

RqSpec == RqInit /\ [][RqNext]_rqVars

-----------------------------------------------------------------------------
(* Correctness. *)

\* No request of the client is longer than an int can say.
Representable == \A k \in DOMAIN rqScript : Size(rqScript[k]) <= RqIntMax

\* However the bytes are cut, the i-th call returns the i-th request, all of
\* it and nothing else, and the handler sees its body: as long as the client
\* waits for its responses and sends no request longer than an int can say
\* (OversizeIsRejected is about those).
FramesWhole ==
    ~rqPipelined /\ Representable =>
        \A i \in DOMAIN rqGot :
            rqGot[i].raw = Whole(i) /\ rqGot[i].body = BodyOf(i)

\* The server does not wait for bytes while such a client waits for a response:
\* when recv blocks, no request that has arrived whole is unanswered.
NoMutualWait ==
    rqPc = "recv" /\ rqRead = rqSent /\ ~rqPipelined /\ Representable =>
        \A k \in DOMAIN rqScript : Whole(k) \subseteq 1..rqSent => k <= rqReplies

\* What the code says of itself (runtime_bindings.cpp:5732, "If `needed =
\* header_end + content_length` exceeds `max_bytes`, reject", and 5838, "Clamp
\* to int range so the cap math below stays safe"): a request longer than
\* max_bytes is never returned, whole or in part, to a client that waits.
OversizeIsRejected ==
    ~rqPipelined => \A i \in DOMAIN rqGot : Size(rqScript[i]) <= RqMax
=============================================================================
