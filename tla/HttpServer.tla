----------------------------- MODULE HttpServer -----------------------------
(***************************************************************************)
(* net::http::HttpServer for one connection: the parser of HttpRequest     *)
(* composed with the connection's HttpResponse, the application's callback *)
(* that fills it in, the file it may open (base::FileSystem), and what     *)
(* appendToBuffer and setFile hand over to the connection.  The            *)
(* HttpResponse lives as long as the connection.                           *)
(*                                                                         *)
(* A response is a sequence of pieces, each of which is appended whole or  *)
(* not at all.  A line counts as one character, a body as many as it has.  *)
(***************************************************************************)
EXTENDS HttpRequest

CONSTANTS Bodies,  \* the lengths of the bodies an application sets
          Files    \* the lengths of the files it opens

\* The lines that every answer begins with fit into an empty buffer.
ASSUME ServerAssumption == Bodies \subseteq Nat /\ Files \subseteq Nat /\ kBufferSize >= 3

VARIABLES resp,          \* the HttpResponse
          mWriteBuffer,  \* the pieces in it, and how many characters they are
          m_iv           \* m_iv[1]: what is left to send of a file

serverVars == <<vars, resp, mWriteBuffer, m_iv>>

NoFile == [addr |-> "nullptr", len |-> 0]

\* What FileAddr makes of a file: nobody looks whether open and mmap succeed, and the
\* address is MAP_FAILED, which is not nullptr, if they do not.  Nothing of an empty
\* file can be mapped.
Mappings ==
    { m \in [addr : {"mapped", "failed"}, len : Files] : m.len = 0 => m.addr = "failed" }

StatusCodes == {200, 400, 403, 404, 500}

FileStates == {"IS_DIR", "NO_FILE", "CANNOT_ACCESS"}

Size(piece) == IF piece.name = "body" THEN piece.value ELSE 1

NoPieces == [pieces |-> <<>>, used |-> 0]

ServerTypeOK ==
    /\ HttpTypeOK
    /\ resp \in [mStatusCode : StatusCodes, isAlive : BOOLEAN, ContentLength : Nat,
                 ContentType : BOOLEAN, Body : Nat, mFile : {NoFile} \cup Mappings]
    /\ mWriteBuffer.used \in 0..kBufferSize
    /\ m_iv \in {NoFile} \cup Mappings

ServerInit ==
    /\ Init
    /\ resp = [mStatusCode |-> 404, isAlive |-> TRUE, ContentLength |-> 0,
               ContentType |-> FALSE, Body |-> 0, mFile |-> NoFile]
    /\ mWriteBuffer = NoPieces
    /\ m_iv = NoFile

-----------------------------------------------------------------------------
\* HttpResponse and FileSystem.

\* Mutant: openFile does not set ContentLength.
openFileNoLength(r, m) == [r EXCEPT !.mFile = m, !.mStatusCode = 400]

\* openFile of a file that is there, mapped or not.  The status is 400 in any case.
openFile(r, m) == [r EXCEPT !.mFile = m, !.ContentLength = m.len, !.mStatusCode = 400]

\* openFile of anything else: a file that was mapped before stays mapped.
openFails(r, state) ==
    LET told == CASE state = "CANNOT_ACCESS" -> [r EXCEPT !.mStatusCode = 403]
                  [] state = "NO_FILE"       -> [r EXCEPT !.mStatusCode = 404]
                  [] OTHER                   -> r
    IN  [told EXCEPT !.mStatusCode = 400]

Piece(name, value) == [name |-> name, value |-> value]

\* Mutant: a string is appended without a look at the room.
appendAlways(b, piece) ==
    [pieces |-> Append(b.pieces, piece), used |-> b.used + Size(piece)]

\* FixedBuffer::append, whose result nobody looks at.
append(b, piece) ==
    IF b.used + Size(piece) <= kBufferSize
    THEN [pieces |-> Append(b.pieces, piece), used |-> b.used + Size(piece)]
    ELSE b

appendIf(cond, b, piece) == IF cond THEN append(b, piece) ELSE b

\* The lines that every answer begins with.
appendHead(r, b) ==
    append(append(append(b, Piece("status", r.mStatusCode)),
                  Piece("connection", IF r.isAlive THEN 1 ELSE 0)),
           Piece("length", r.ContentLength))

appendToBuffer(r, b) ==
    appendIf(r.Body > 0,
             append(appendIf(r.ContentType, appendHead(r, b), Piece("header", 0)), Piece("end", 0)),
             Piece("body", r.Body))

-----------------------------------------------------------------------------
\* The application: it leaves the response alone, sets a body and its length, or
\* opens a file; it may tell the type, and may ask for the connection to be closed.
HttpCallback(r) ==
    LET filled == {r} \cup {[r EXCEPT !.Body = n, !.ContentLength = n] : n \in Bodies}
                      \cup {openFile(r, m) : m \in Mappings}
                      \cup {openFails(r, state) : state \in FileStates}
        typed == filled \cup {[q EXCEPT !.ContentType = TRUE] : q \in filled}
    IN  typed \cup {[q EXCEPT !.isAlive = FALSE] : q \in typed}

\* readCb with a verdict: r is the response when it is appended.
answerWith(r) ==
    /\ resp' = r
    /\ mWriteBuffer' = appendToBuffer(r, mWriteBuffer)
    /\ Respond(r.isAlive)

GetRequest ==
    /\ ret = "GET_REQUEST"
    /\ \E r \in HttpCallback([resp EXCEPT !.mStatusCode = 200]) :
          /\ answerWith(r)
          /\ m_iv' = IF r.mFile.addr # "nullptr" THEN r.mFile ELSE m_iv

BadRequest ==
    /\ ret = "BAD_REQUEST"
    /\ answerWith([resp EXCEPT !.mStatusCode = 400])
    /\ UNCHANGED m_iv

\* send() has sent it all (Connection), and WriteCb follows.
Sent ==
    /\ m_iv.addr # "failed"
    /\ WriteCb
    /\ mWriteBuffer' = NoPieces /\ m_iv' = NoFile
    /\ UNCHANGED resp

\* writev returns -1: always if m_iv[1] is not an address (EFAULT, and nothing is
\* sent), otherwise if the peer is gone.
NotSent == SendFails /\ UNCHANGED <<resp, mWriteBuffer, m_iv>>

ServerNext ==
    \/ Read /\ UNCHANGED <<resp, mWriteBuffer, m_iv>>
    \/ GetRequest \/ BadRequest
    \/ Sent \/ NotSent

ServerSpec == ServerInit /\ [][ServerNext]_serverVars

\* A worker that is inside processRead goes on.
ServerFairSpec == ServerSpec /\ WF_serverVars(processRead /\ UNCHANGED <<resp, mWriteBuffer, m_iv>>)

-----------------------------------------------------------------------------
\* Whether the response in mWriteBuffer has a piece, and what it says.
Says(name, value) == Piece(name, value) \in Range(mWriteBuffer.pieces)

BodySent == IF Says("body", resp.Body) THEN resp.Body ELSE 0

\* The body finds room behind the lines of the answer.
HasRoom(r) == r.Body > 0 => (IF r.ContentType THEN 5 ELSE 4) + r.Body <= kBufferSize

\* The answer to a request, if it can be sent, carries as many characters as it
\* announces exactly if its body has room in mWriteBuffer.  Then a client that waits
\* for Content-Length of them neither waits for ever nor takes the next answer for part
\* of this one; otherwise the body is dropped whole, its length is announced all the
\* same, and on a connection that is kept the client waits for ever.
LengthHonest ==
    pc = "write" /\ ret = "GET_REQUEST" /\ m_iv.addr # "failed" =>
        (Says("length", BodySent + m_iv.len) <=> HasRoom(resp))

\* A connection goes on after an answer only if the client asked for it, the
\* application agrees, the answer says so, and the request was not refused.
KeptByBoth ==
    [][pc = "write" /\ pc' = "idle" =>
          ret = "GET_REQUEST" /\ AsksKeepAlive(Request) /\ Says("connection", 1)]_serverVars
=============================================================================
