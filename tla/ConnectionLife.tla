--------------------------- MODULE ConnectionLife ---------------------------
(***************************************************************************)
(* What net::Server promises the users of a Connection, the callbacks and  *)
(* the modules that follow one connection (Connection, HttpServer): it     *)
(* waits in the kernel, one event takes it out, one thread has it then     *)
(* until that thread lets it wait again or closes it, and what is closed   *)
(* only remains to be freed.                                               *)
(***************************************************************************)
CONSTANT Conns

VARIABLE life   \* "none", "waiting", "reported", "held", "closed"

Move(c, from, to) == life[c] = from /\ life'[c] = to

LifeInit == life = [c \in Conns |-> "none"]

Open(c) == Move(c, "none", "held")
Wait(c) == Move(c, "held", "waiting")
Report(c) == Move(c, "waiting", "reported")
Handle(c) == Move(c, "reported", "held")

\* The thread that closes a connection may be the last to refer to it.
Close(c) == Move(c, "held", "closed") \/ Move(c, "held", "none")
Free(c) == Move(c, "closed", "none")

Step(c) == Open(c) \/ Wait(c) \/ Report(c) \/ Handle(c) \/ Close(c) \/ Free(c)

\* The connections do not depend on each other: one epoll_wait reports several.
LifeNext == \A c \in Conns : life'[c] = life[c] \/ Step(c)

LifeRuns == [][LifeNext]_life

LifeSpec == LifeInit /\ LifeRuns
=============================================================================
