---------------------------- MODULE MCConnection ----------------------------
(* Model values of the instance of Connection that TLC checks. *)
EXTENDS Connection

ByteNumbers == 0..(IF MaxSent > MaxQueued THEN MaxSent ELSE MaxQueued)
=============================================================================
