------------------------------- MODULE Logger -------------------------------
(***************************************************************************)
(* base::Logger (base/Logger.h, base/Logger.cpp): threads log statements.  *)
(* A statement is a temporary Logger on the stack of its thread: the       *)
(* constructor puts a header into the LogStream, the statement its items,  *)
(* and the destructor writes the line to stdout, which all threads share.  *)
(* fwrite is atomic, as Logger.h:8 says.                                   *)
(***************************************************************************)
EXTENDS Thread, LogStream

CONSTANTS gLogLevel,   \* TRACE, DEBUG or INFO, from the environment
          Sites,       \* the log statements of the source: level, __FILE__, __LINE__
          Items,       \* bound: what a statement may log
          MaxItems,    \* bound: how many items it logs
          MaxLines,    \* bound: how many statements are executed
          Time,        \* the text of a time stamp
          NoStatement

VARIABLES stream,      \* stream[t]: the LogStream of the statement t is in
          stdout,
          writers      \* the threads that have written to stdout, in order

logVars == <<stream, stdout, writers>>
vars == <<threadVars, logVars>>

\* TRACE, DEBUG, INFO, WARN, ERROR
LogLevelName == <<"T", "D", "I", "W", "E">>

Open == {t \in Threads : stream[t] # NoStatement}

LogInit ==
    /\ ThreadInit
    /\ stream = [t \in Threads |-> NoStatement]
    /\ stdout = <<>> /\ writers = <<>>

\* FileName::get: what follows the last '/', and a null pointer if there is none.
FileName(file) == IF file = "" THEN [kind |-> "null"] ELSE [kind |-> "text", value |-> <<file>>]

Stamp == [kind |-> "text", value |-> <<Time>>]

\* What the constructor puts behind the time stamp, the fixed texts left out.
Header(id, site) ==
    <<[kind |-> "text", value |-> <<id>>],
      [kind |-> "text", value |-> <<LogLevelName[site.level + 1]>>],
      FileName(site.file),
      [kind |-> "int", value |-> site.line],
      [kind |-> "text", value |-> <<"f">>]>>

\* The stream that the constructor leaves.
Opened(id, site) ==
    LET h == Header(id, site)
    IN  Insert(Insert(Insert(Insert(Insert(Insert(Empty, Stamp), h[1]), h[2]), h[3]), h[4]), h[5])

\* All that statements show behind their time stamps.
Written == Items \cup UNION { Range(Header(id, site)) : id \in Tids, site \in Sites }

\* A time stamp is not taken for anything else, the stamp and the Tid fit into an
\* empty buffer, and a number is of its type and not as long as kMaxNumericSize.
ASSUME LoggerAssumption ==
    /\ kBufferSize >= 2
    /\ Time \in STRING /\ Newline \in STRING \ {Time} /\ Tids \subseteq STRING
    /\ \A item \in Written :
          /\ TextOf(item) \in Seq(STRING \ {Time})
          /\ item.kind \notin {"text", "null"} => Len(TextOf(item)) < kMaxNumericSize
          /\ item.kind = "int" => item.value \in Ints
          /\ item.kind = "pointer" => item.value \in 0..MaxInt

\* LOG_TRACE and LOG_DEBUG depend on the level, the others do not.
Enabled(level) == level >= 2 \/ gLogLevel <= level

\* A statement begins with the constructor of its Logger.
Begin(t, site) ==
    /\ life[t] = "task" /\ t \notin Open
    /\ Len(writers) + Cardinality(Open) < MaxLines
    /\ Enabled(site.level)
    /\ getTid(t)
    /\ stream' = [stream EXCEPT ![t] = Opened(Tid'[t], site)]
    /\ UNCHANGED <<object, calling, life, tid, failed, stdout, writers>>

Log(t, item) ==
    /\ t \in Open
    /\ Len(stream[t].items) < 6 + MaxItems
    /\ stream' = [stream EXCEPT ![t] = Insert(@, item)]
    /\ UNCHANGED <<threadVars, stdout, writers>>

\* The end of the statement.
End(t) ==
    /\ t \in Open
    /\ stdout' = stdout \o Finished(stream[t]).text
    /\ writers' = Append(writers, tid[t])
    /\ stream' = [stream EXCEPT ![t] = NoStatement]
    /\ UNCHANGED threadVars

LogNext == \E t \in Threads :
    \/ Owner(t) /\ UNCHANGED logVars
    \/ RunInThread(t) /\ UNCHANGED logVars
    \/ t \notin Open /\ TaskReturns(t) /\ UNCHANGED logVars
    \/ \E site \in Sites : Begin(t, site)
    \/ \E item \in Items : Log(t, item)
    \/ End(t)

LogSpec == LogInit /\ [][LogNext]_vars

-----------------------------------------------------------------------------
\* Where statements begin in stdout.
Starts == {i \in DOMAIN stdout : stdout[i] = Time}

\* add compares with all of the buffer and the digits go in before it looks
\* (Buffer.h:72, LogStream.cpp:42): no byte, '\0' included, is written beyond the
\* block, because kMaxNumericSize leaves room for the longest number.
NoOverrun == \A t \in Open : stream[t].reach <= kBufferSize

\* What a statement shows of its items is whole and right.
ItemsLegible == \A t \in Open : Legible(stream[t])

\* A statement begins on a line of its own, unless the one before has filled its
\* buffer to the last byte, which leaves no room for the newline (LogStream.cpp:30).
LinesSeparate ==
    \A i \in Starts \ {1} :
        \/ stdout[i - 1] = Newline
        \/ i - kBufferSize \in Starts /\ \A j \in Starts : j >= i \/ j <= i - kBufferSize

\* The Tid of a line is that of the thread that has logged it, also when the kernel
\* uses the id of a thread that has ended again.
OwnTid ==
    /\ Cardinality(Starts) = Len(writers)
    /\ \A i \in Starts : stdout[i + 1] = writers[Cardinality({j \in Starts : j <= i})]
=============================================================================
