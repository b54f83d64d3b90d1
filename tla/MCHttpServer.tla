---------------------------- MODULE MCHttpServer ----------------------------
(* Model values of the instance of HttpServer that TLC checks; the             *)
(* conversations are those of MCHttpRequest.                                   *)
EXTENDS HttpServer, MCHttpRequest

\* The malformed requests among them keep to the format, too.
ASSUME HonestClients == ClientsAreHonest

\* One that fits into mWriteBuffer with its header, and one that does not.
TwoBodies == {2, 5}
\* An empty file too.
TwoFiles == {0, 3}
=============================================================================
