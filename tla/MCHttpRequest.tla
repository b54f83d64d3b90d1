---------------------------- MODULE MCHttpRequest ----------------------------
(* The conversations that TLC checks HttpRequest with. *)
EXTENDS HttpRequest

LOCAL Req(line, headers, bytes) == [line |-> line, headers |-> headers, body |-> bytes]

\* What atol makes of five Content-length headers.
Lengths == [name \in {"len1", "len2", "len4", "len9", "len-1"} |->
               CASE name = "len1" -> 1 [] name = "len2" -> 2 [] name = "len4" -> 4
                 [] name = "len9" -> 9 [] name = "len-1" -> -1]

GetLine == <<"GET", "path">>
PostLine == <<"POST", "path">>

Headers == { <<"host", "name">>, <<"keep-isAlive">>, <<"closed">> }

\* Up to two headers.
HeaderLists == UNION { [1..n -> Headers] : n \in 0..2 }

WithoutBody == { Req(line, hs, <<>>) : line \in {GetLine, PostLine}, hs \in HeaderLists }

\* Bodies without a line break, the length before or after a header.
WithBody ==
    { Req(PostLine, hs, <<"x", "y">>) : hs \in
        UNION { { << <<"len2">>, h >>, << h, <<"len2">> >> } : h \in Headers } }
    \union { Req(PostLine, << <<"len1">> >>, <<"x">>),
             Req(GetLine, << <<"len4">> >>, <<"x", "y", "y", "x">>) }

\* Request lines that are no request lines, and breaks where none belongs.
Malformed ==
    { Req(line, <<>>, <<>>) : line \in { <<"PUT", "path">>, <<"GET">>, <<"path", "GET">>, <<>> } }
    \union { Req(GetLine, << h >>, <<>>) : h \in
               { <<LF>>, <<LF, "host">>, <<"host", LF, "name">>, <<"host", CR>>,
                 <<"host", CR, "name">>, <<CR, "host">>, <<"host", "name", LF>> } }

\* A negative length, with and without text behind the headers, and one that a later
\* header puts right.
Negative ==
    { Req(PostLine, << <<"len-1">> >>, text) : text \in { <<>>, <<"x">>, <<"x", "y">> } }
    \union { Req(PostLine, << <<"len-1">>, <<"len1">> >>, <<"x">>),
             Req(PostLine, << <<"len1">>, <<"len-1">> >>, <<"x">>) }

\* The request line with "http://".
Absolute == { Req(<<m, "http://path">>, <<>>, <<>>) : m \in {"GET", "POST"} }

SingleRequests ==
    { <<r>> : r \in WithoutBody \union WithBody \union Malformed \union Negative \union Absolute }

\* One request, with a line break in its body.
BodyWithBreak == { << Req(PostLine, << <<"len4">> >>, <<"x", CR, LF, "y">>) >> }

\* Two requests on a connection that is kept.
TwoRequests ==
    { << Req(GetLine, << <<"keep-isAlive">> >>, <<>>), Req(GetLine, <<>>, <<>>) >> }

\* A body that is longer than the buffer.
LongBody == { << Req(PostLine, << <<"len9">> >>, [i \in 1..9 |-> "x"]) >> }

\* A request on a connection that is kept, and a malformed one.
SecondMalformed ==
    { << Req(line, << <<"keep-isAlive">> >>, <<>>), Req(<<LF>>, <<>>, <<>>) >> :
        line \in {GetLine, PostLine} }

\* What the parser is made for, and what it has to get rid of.
Ordinary == SingleRequests \union TwoRequests \union SecondMalformed \union LongBody
=============================================================================
