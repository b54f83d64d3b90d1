----------------------------- MODULE HttpRequest -----------------------------
(***************************************************************************)
(* net::http::HttpRequest, the incremental parser, driven by               *)
(* HttpServer::readCb for one connection: bytes arrive in portions that    *)
(* have nothing to do with lines, and processRead is called after each.    *)
(* HttpServer.tla adds what the answers are.                               *)
(*                                                                         *)
(* A text is a sequence of tokens.  A token stands for a piece of text     *)
(* without a line break and counts as one character; CR, LF and NUL are    *)
(* characters, and so are the tokens a body is made of.  buf is what       *)
(* mReadBuffer holds, from readPtr() on (FixedBuffer.tla shows that it is  *)
(* a FIFO); positions count from 1, mCheckIndex characters are scanned.    *)
(***************************************************************************)
EXTENDS Integers, SequencesExt

CONSTANTS Conversations,   \* the requests a client may send, one after the other
          LengthHeader,    \* the Content-length headers, and what atol makes of each
          kBufferSize

CR == "CR"   \* '\r'
LF == "LF"   \* '\n'
NUL == "NUL" \* '\0'

\* The other headers that make a difference.
KeepAliveHeader == "keep-isAlive"
CloseHeader == "closed"

\* What is accepted as a request line: a method, and a path with the version.  (The
\* branch for "http://" changes url, not _url, which then does not begin with '/'.)
RequestLines == { <<m, "path">> : m \in {"GET", "POST"} }

\* A request is its lines, the blank one left out, and its body.
Requests == [line : Seq(STRING), headers : Seq(Seq(STRING)), body : Seq(STRING)]

ASSUME HttpAssumption ==
    /\ kBufferSize \in Nat \ {0}
    /\ \A c \in Conversations : c \in Seq(Requests) /\ c # <<>>
    /\ DOMAIN LengthHeader \cap {KeepAliveHeader, CloseHeader} = {}
    /\ \A name \in DOMAIN LengthHeader : LengthHeader[name] \in Int

VARIABLES client,         \* the requests still to be answered, the current one first
          sent,           \* how much of the current one the client has sent
          buf,            \* mReadBuffer
          mCheckState, mLineState, mCheckIndex,
          contentLength, isAlive, body,
          mAlive,         \* Connection::mAlive
          pc,             \* "idle", "loop" inside processRead, "answer" in readCb with
                          \* a verdict, "write" until the answer is sent, "closed",
                          \* or "terminated" with the whole process
          ret             \* what processRead returned last

vars == <<client, sent, buf, mCheckState, mLineState, mCheckIndex,
          contentLength, isAlive, body, mAlive, pc, ret>>

parsed == <<mCheckState, contentLength, isAlive, body>>

-----------------------------------------------------------------------------
\* What a request looks like on the wire.
Wire(r) ==
    r.line \o <<CR, LF>>
      \o FlattenSeq([i \in DOMAIN r.headers |-> r.headers[i] \o <<CR, LF>>])
      \o <<CR, LF>> \o r.body

Request == Head(client)

Complete == sent = Len(Wire(Request))

HttpTypeOK ==
    /\ sent \in 0..Len(Wire(Request))
    /\ Len(buf) <= kBufferSize
    /\ mCheckState \in {"REQUEST", "HEADER", "BODY", "SUCCESS"}
    /\ mLineState \in {"LINE_OK", "LINE_OPEN", "LINE_BAD"}
    /\ mCheckIndex \in 0..Len(buf)
    /\ contentLength \in Int /\ isAlive \in BOOLEAN
    /\ mAlive \in BOOLEAN
    /\ pc \in {"idle", "loop", "answer", "write", "closed", "terminated"}
    /\ ret \in {"NO_REQUEST", "GET_REQUEST", "BAD_REQUEST"}

Init ==
    /\ client \in Conversations
    /\ sent = 0 /\ buf = <<>>
    /\ mCheckState = "REQUEST" /\ mLineState = "LINE_OPEN" /\ mCheckIndex = 0
    /\ contentLength = 0 /\ isAlive = FALSE /\ body = <<>>
    /\ mAlive = TRUE
    /\ pc = "idle" /\ ret = "NO_REQUEST"

-----------------------------------------------------------------------------
\* A portion of n characters arrives, and readCb calls processRead.
Receive(n) ==
    /\ pc = "idle"
    /\ sent + n <= Len(Wire(Request)) /\ Len(buf) + n <= kBufferSize
    /\ buf' = buf \o SubSeq(Wire(Request), sent + 1, sent + n)
    /\ sent' = sent + n
    /\ pc' = "loop"
    /\ UNCHANGED <<client, mLineState, mCheckIndex, parsed, mAlive, ret>>

\* More arrives while mReadBuffer is full: recv returns 0 and the connection is
\* closed.
Overflow ==
    /\ pc = "idle"
    /\ ~Complete /\ Len(buf) = kBufferSize
    /\ pc' = "closed"
    /\ UNCHANGED <<client, sent, buf, mLineState, mCheckIndex, parsed, mAlive, ret>>

-----------------------------------------------------------------------------
\* parseLine.

\* The line breaks that have not been scanned.
Breaks == { i \in (mCheckIndex + 1)..Len(buf) : buf[i] \in {CR, LF} }

Scan(state, index, b) == [state |-> state, index |-> index, buf |-> b]

\* The characters i and i + 1 end the line.
EndLine(i) == Scan("LINE_OK", i + 1, [buf EXCEPT ![i] = NUL, ![i + 1] = NUL])

\* Mutant: a '\r' at the end of what has arrived is scanned.
BeforeCRPast(i) == i

\* A '\r' at the end of what has arrived is looked at again.
BeforeCR(i) == i - 1

\* What parseLine returns, the new mCheckIndex, and the buffer it leaves.
parseLine ==
    IF Breaks = {} THEN Scan("LINE_OPEN", Len(buf), buf)
    ELSE LET i == Min(Breaks)
         IN  CASE buf[i] = CR /\ i = Len(buf) -> Scan("LINE_OPEN", BeforeCR(i), buf)
               [] buf[i] = CR /\ i < Len(buf) /\ buf[i + 1] = LF -> EndLine(i)
               [] buf[i] = LF /\ i > 2 /\ buf[i - 1] = CR -> EndLine(i - 1)
               [] OTHER -> Scan("LINE_BAD", i - 1, buf)

\* The C string at readptr: everything up to the first NUL.
Line(b) == SubSeq(b, 1, Min({ i \in DOMAIN b : b[i] = NUL }) - 1)

\* processRead returns r.
Return(r) ==
    /\ ret' = r
    /\ pc' = IF r = "NO_REQUEST" THEN "idle" ELSE "answer"

\* The line is taken out of the buffer: readPtrMove(mCheckIndex); mCheckIndex = 0.
TakeLine(scan) ==
    /\ buf' = SubSeq(scan.buf, scan.index + 1, Len(scan.buf))
    /\ mCheckIndex' = 0

KeepScan(scan) ==
    /\ buf' = scan.buf
    /\ mCheckIndex' = scan.index

-----------------------------------------------------------------------------
\* One turn of processRead's loop, by what the scan finds and mCheckState.

LoopEnds ==
    /\ buf = <<>>
    /\ Return("NO_REQUEST")
    /\ UNCHANGED <<buf, mLineState, mCheckIndex, parsed>>

LineOpen(scan) ==
    /\ scan.state = "LINE_OPEN" /\ mCheckState # "BODY"
    /\ KeepScan(scan)
    /\ Return("NO_REQUEST")
    /\ UNCHANGED parsed

LineBad(scan) ==
    /\ scan.state = "LINE_BAD"
    /\ KeepScan(scan)
    /\ Return("BAD_REQUEST")
    /\ UNCHANGED parsed

\* parseRequest.
parseRequest(scan) ==
    /\ scan.state = "LINE_OK" /\ mCheckState = "REQUEST"
    /\ IF Line(scan.buf) \in RequestLines
       THEN /\ mCheckState' = "HEADER"
            /\ TakeLine(scan)
            /\ UNCHANGED <<pc, ret>>
       ELSE /\ KeepScan(scan)
            /\ Return("BAD_REQUEST")
            /\ UNCHANGED mCheckState
    /\ UNCHANGED <<contentLength, isAlive, body>>

\* parseHeader of a line that is not blank.
parseHeader(scan) ==
    /\ scan.state = "LINE_OK" /\ mCheckState = "HEADER"
    /\ Line(scan.buf) # <<>>
    /\ TakeLine(scan)
    /\ LET name == Head(Line(scan.buf))
       IN  /\ contentLength' = IF name \in DOMAIN LengthHeader THEN LengthHeader[name]
                               ELSE contentLength
           /\ isAlive' = IF name \in {KeepAliveHeader, CloseHeader} THEN name = KeepAliveHeader
                         ELSE isAlive
    /\ UNCHANGED <<mCheckState, body, pc, ret>>

\* Mutant: every request ends with its blank line.
HasBodyNever == FALSE

HasBody == contentLength # 0

\* parseHeader of the blank line.
parseBlank(scan) ==
    /\ scan.state = "LINE_OK" /\ mCheckState = "HEADER"
    /\ Line(scan.buf) = <<>>
    /\ TakeLine(scan)
    /\ IF HasBody
       THEN mCheckState' = "BODY" /\ UNCHANGED <<pc, ret>>
       ELSE mCheckState' = "SUCCESS" /\ Return("GET_REQUEST")
    /\ UNCHANGED <<contentLength, isAlive, body>>

\* Mutant: a body is over when more than contentLength characters are scanned.
BodyScannedMore(scan) == scan.index > contentLength

BodyScanned(scan) == scan.index >= contentLength

\* parseContent: the body stays in the buffer.  A negative length passes the check and
\* is an enormous size_t for assign, whose length_error ends the worker's thread,
\* and the process with it.
parseContent(scan) ==
    /\ scan.state # "LINE_BAD" /\ mCheckState = "BODY"
    /\ KeepScan(scan)
    /\ \/ /\ ~BodyScanned(scan)
          /\ Return("NO_REQUEST")
          /\ UNCHANGED <<body, mCheckState>>
       \/ /\ BodyScanned(scan) /\ contentLength >= 0
          /\ body' = SubSeq(scan.buf, 1, contentLength)
          /\ mCheckState' = "SUCCESS"
          /\ Return("GET_REQUEST")
       \/ /\ BodyScanned(scan) /\ contentLength < 0
          /\ pc' = "terminated"
          /\ UNCHANGED <<body, mCheckState, ret>>
    /\ UNCHANGED <<contentLength, isAlive>>

\* The switch has no case for CHECK_STATE_SUCCESS: the loop goes on.
NoCase(scan) ==
    /\ scan.state = "LINE_OK" /\ mCheckState = "SUCCESS"
    /\ KeepScan(scan)
    /\ UNCHANGED <<parsed, pc, ret>>

ProcessLine(scan) ==
    /\ mLineState' = scan.state
    /\ \/ LineOpen(scan) \/ LineBad(scan)
       \/ parseRequest(scan) \/ parseHeader(scan) \/ parseBlank(scan)
       \/ parseContent(scan) \/ NoCase(scan)

processRead ==
    /\ pc = "loop"
    /\ \/ LoopEnds
       \/ buf # <<>> /\ ProcessLine(parseLine)
    /\ UNCHANGED <<client, sent, mAlive>>

-----------------------------------------------------------------------------
\* Mutant: whether the request wants the connection kept is forgotten.
KeptAnyway(keep) == keep

Kept(keep) == keep /\ isAlive

\* readCb's end; keep is resp.isAlive, which the callback may clear.
\* HttpRequest::Init leaves mCheckState and the fields as they are.
Respond(keep) ==
    /\ pc = "answer" /\ pc' = "write"
    /\ IF ret = "GET_REQUEST"
       THEN mAlive' = Kept(keep) /\ mCheckIndex' = 0 /\ mLineState' = "LINE_OPEN"
       ELSE mAlive' = FALSE /\ UNCHANGED <<mCheckIndex, mLineState>>
    /\ UNCHANGED <<client, sent, buf, parsed, ret>>

\* The answer has been sent.  On a connection that is kept the client goes on with
\* its next request, if it has one.
WriteCb ==
    /\ pc = "write"
    /\ IF mAlive
       THEN /\ pc' = "idle"
            /\ IF Len(client) > 1
               THEN client' = Tail(client) /\ sent' = 0
               ELSE UNCHANGED <<client, sent>>
       ELSE pc' = "closed" /\ UNCHANGED <<client, sent>>
    /\ UNCHANGED <<buf, mLineState, mCheckIndex, parsed, mAlive, ret>>

\* send() fails, and the connection is closed.
SendFails ==
    /\ pc = "write" /\ pc' = "closed"
    /\ UNCHANGED <<client, sent, buf, mLineState, mCheckIndex, parsed, mAlive, ret>>

Read ==
    \/ \E n \in 1..kBufferSize : Receive(n)
    \/ Overflow
    \/ processRead

Next ==
    \/ Read
    \/ \E keep \in BOOLEAN : Respond(keep)
    \/ WriteCb \/ SendFails

Spec == Init /\ [][Next]_vars

-----------------------------------------------------------------------------
\* The characters of a list of texts.
Characters(texts) == UNION { { texts[i][j] : j \in DOMAIN texts[i] } : i \in DOMAIN texts }

\* Of the first m headers the last Connection header counts.
WantsKept(r, m) ==
    \E i \in 1..m :
        /\ Head(r.headers[i]) = KeepAliveHeader
        /\ \A j \in (i + 1)..m : Head(r.headers[j]) # CloseHeader

AsksKeepAlive(r) == WantsKept(r, Len(r.headers))

\* The length of the body is what the last length among the first m headers says.
IsLength(r, m, c) ==
    \/ c = 0 /\ \A i \in 1..m : Head(r.headers[i]) \notin DOMAIN LengthHeader
    \/ \E i \in 1..m :
          /\ Head(r.headers[i]) \in DOMAIN LengthHeader
          /\ c = LengthHeader[Head(r.headers[i])]
          /\ \A j \in (i + 1)..m : Head(r.headers[j]) \notin DOMAIN LengthHeader

NegativeLength(r) ==
    \E name \in DOMAIN LengthHeader :
        LengthHeader[name] < 0 /\ IsLength(r, Len(r.headers), LengthHeader[name])

\* The form of the request line that the comment of parseRequest provides for.
AbsoluteLines == { <<m, "http://path">> : m \in {"GET", "POST"} }

LinesWellFormed(r) ==
    /\ r.line \in RequestLines \cup AbsoluteLines
    /\ Characters(r.headers) \cap {CR, LF} = {}

\* What a request should be, whether or not this parser takes it.
WellFormed(r) == LinesWellFormed(r) /\ ~NegativeLength(r)

\* The lines of r are numbered from 0, the request line; the last one is blank.
LineOf(r, k) ==
    IF k = 0 THEN r.line ELSE IF k <= Len(r.headers) THEN r.headers[k] ELSE <<>>

\* A line is ended by the first "\r\n" that follows it, and a C string is ended by
\* its NUL.  (There may be a '\r' or a '\n' alone in a line.)
IsLine(l) ==
    /\ \A j \in 1..Len(l) : l[j] # NUL
    /\ \A j \in 1..(Len(l) - 1) : ~ (l[j] = CR /\ l[j + 1] = LF)

\* A request that keeps to the format, well-formed or not: what should be lines are
\* lines, no header is blank, and the body is as long as the headers say, unless what
\* they say is negative.  (That the body has no line break is necessary, as
\* HttpBodyBreak.cfg shows.)
Honest(r) ==
    /\ \A k \in 0..Len(r.headers) : IsLine(LineOf(r, k))
    /\ \A i \in 1..Len(r.headers) : r.headers[i] # <<>>
    /\ \A j \in 1..Len(r.body) : r.body[j] \notin {CR, LF}
    /\ IsLength(r, Len(r.headers), Len(r.body)) \/ NegativeLength(r)

\* The lines of r, with their breaks, and its body fit into the buffer.
Fits(r) ==
    /\ \A k \in 0..(Len(r.headers) + 1) : Len(LineOf(r, k)) + 2 <= kBufferSize
    /\ Len(r.body) <= kBufferSize

ClientsAreHonest ==
    \A c \in Conversations : \A i \in 1..Len(c) : Honest(c[i])

\* The scan never steps over a line break: what has been scanned has none, so no
\* portion that ends between '\r' and '\n' hides the end of a line, and parseLine's
\* branch for a '\n' after a scanned '\r' is dead.
NothingSkipped == \A i \in 1..mCheckIndex : buf[i] \notin {CR, LF}

\* However the request is cut into portions, it is answered only when all of it is
\* there, with the body and the keep-alive choice it carries.  The code departs from
\* its comments in three ways, and in no other.  A well-formed line with "http://" is
\* refused (HttpRequest.cpp:138 says the prefix is taken off), apart from which only
\* malformed lines are.  A negative length is not refused (BAD_REQUEST in
\* HttpRequest.h:24): it alone ends the process.  A body, or a line, that does not fit
\* into the buffer is not refused either (HttpRequest.cpp:47): it alone has the
\* connection closed without a verdict on its first request.
AnswersExactly ==
    /\ pc = "answer" /\ ret = "GET_REQUEST" =>
          /\ WellFormed(Request) /\ Request.line \in RequestLines /\ Complete
          /\ body = Request.body
          /\ isAlive = AsksKeepAlive(Request)
    /\ ret = "BAD_REQUEST" => ~LinesWellFormed(Request) \/ Request.line \in AbsoluteLines
    /\ pc = "terminated" => NegativeLength(Request)
    /\ pc = "closed" /\ ret = "NO_REQUEST" /\ mCheckState # "SUCCESS" => ~Fits(Request)

\* processRead's loop ends, and when the last character of a connection's first
\* request has arrived it comes to a verdict or ends the process; it waits for ever
\* only if the length it is told is negative and nothing follows the headers.
VerdictReached ==
    /\ pc = "loop" ~> pc # "loop"
    /\ Complete /\ mCheckState # "SUCCESS" ~>
          \/ ret # "NO_REQUEST"
          \/ pc = "terminated"
          \/ NegativeLength(Request) /\ Request.body = <<>>

\* HttpRequest.h:22: NO_REQUEST says that the request has not been read to its end.
NoRequestMeansUnread == pc = "idle" /\ ret = "NO_REQUEST" => ~Complete
=============================================================================
