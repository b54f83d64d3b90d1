------------------------------ MODULE MCLogger ------------------------------
(* Model values of the instance of Logger that TLC checks. *)
EXTENDS Logger

CONSTANTS t1, t2

TwoThreads == {t1, t2}

\* Eight bits: the least value needs four characters.
LeastByte == -128

MCSites == {[level |-> 0, file |-> "m", line |-> 1], [level |-> 2, file |-> "m", line |-> 9],
            [level |-> 4, file |-> "", line |-> 10]}

Symmetry == Permutations(TwoThreads)

TwoTids == {"1", "2"}

MCItems == {[kind |-> "text", value |-> <<"a", "b", "c", "d">>],
            [kind |-> "text", value |-> <<"1">>],
            [kind |-> "int", value |-> -128],
            [kind |-> "pointer", value |-> 175],
            [kind |-> "double", value |-> <<"1", ".", "5">>]}
=============================================================================
