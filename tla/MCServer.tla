------------------------------ MODULE MCServer ------------------------------
(* Model values of the instances of Server that TLC checks. *)
EXTENDS Server, TLC

CONSTANTS w1, w2

OneWorker == {w1}
TwoWorkers == {w1, w2}
OneFd == {4}
TwoFds == {4, 5}
\* Two objects more than descriptors: one whose accept failed is still in connMap
\* when the next one fails.
ThreeConns == 1..3
FourConns == 1..4

WorkerSymmetry == Permutations(TwoWorkers)
=============================================================================
