---------------------------- MODULE MCFixedBuffer ----------------------------
(* Model values of the instance of FixedBuffer that TLC checks. *)
EXTENDS FixedBuffer

ThreeBytes == {0, 1, 2}
=============================================================================
