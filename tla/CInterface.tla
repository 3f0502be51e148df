------------------------------- MODULE CInterface -------------------------------
(***************************************************************************)
(* The C interface (c/logging_c.h) over the loggers: a LoggerSt, SinkSt or *)
(* TaskPoolSt is a shared_ptr that the C program creates and destroys, a   *)
(* level is converted on its way in, and the functions without a handle    *)
(* are those of the root logger.  A null handle makes every function       *)
(* return, so the calls below have one.  Some threads call the C           *)
(* functions, the others the C++ classes.                                  *)
(***************************************************************************)
EXTENDS Loggers

CONSTANTS
    CThread,  \* the threads of the C program
    Handle,   \* the objects that it makes and has handles of
    CLevels,  \* the levels of its messages
    CLimits,  \* the levels it sets
    Levels    \* the levels that the C++ program uses

ASSUME CAssumption ==
    /\ CThread \subseteq Thread /\ Handle \subseteq (Sink \cup Logger \cup {Pool}) \ Made
    /\ CLevels \cup CLimits \cup Levels \subseteq LogLevel

\* c_to_cpp_log_level: the levels have the same numbers, and TRACE has no case
CToCpp(c) == IF c \in DEBUG..OFF THEN c ELSE OFF

\* origin_create_stdout_sink, ..._file_sink
CreateSink(s) == NewSink(s)

\* origin_create_sync_logger, origin_create_async_logger
CreateLogger(l) == NewLogger(l)

\* origin_create_task_pool
CreateTaskPool == Construct(Pool)

\* origin_destroy_logger, origin_detroy_sink: the handle's shared_ptr is reset.
\* No other call is using the handle.
DestroyHandle(t, o) ==
    /\ \A u \in Thread : call[u].logger # o
    /\ Release(t, o)

\* origin_destroy_task_pool
DestroyTaskPool(t) == Release(t, Pool)

\* origin_logger_set_level, origin_logger_flush_on
LoggerSet(l, c) == SetLevel(l, CToCpp(c)) \/ FlushOn(l, CToCpp(c))

\* origin_logger_set_pattern, origin_logger_set_formatter
LoggerFormat(t, l, f) == SetFormatter(t, l, f)

\* origin_logger_log, which does not ask should_log
LoggerLog(t, l, c) == ForceLog(t, l, CToCpp(c))

\* origin_logger_flush
LoggerFlush(t, l) == Flush(t, l)

\* origin_sink_set_level, origin_sink_set_pattern, origin_sink_set_formatter
SinkCalls(s) ==
    \/ \E c \in CLimits : SetSinkLevel(s, CToCpp(c))
    \/ \E f \in Formatter : SetSinkFormatter(s, f)

\* origin_set_level, origin_flush_on, origin_set_pattern, origin_set_formatter
\* and origin_flush
RootCalls(t) ==
    \/ \E c \in CLimits : LoggerSet(Root, c)
    \/ \E f \in Formatter : LoggerFormat(t, Root, f)
    \/ LoggerFlush(t, Root)

\* origin_log asks should_log, origin_force_log does not
RootLog(t, c) == Log(t, Root, CToCpp(c)) \/ LoggerLog(t, Root, c)

CCall(t) ==
    \/ \E s \in Sink \cap Handle : CreateSink(s) \/ SinkCalls(s)
    \/ \E l \in Logger \cap Handle : CreateLogger(l)
    \/ CreateTaskPool \/ DestroyTaskPool(t)
    \/ \E o \in Handle \ {Pool} : DestroyHandle(t, o)
    \/ \E l \in Logger \cap Handle :
         \/ \E c \in CLimits : LoggerSet(l, c)
         \/ \E c \in CLevels : LoggerLog(t, l, c)
         \/ \E f \in Formatter : LoggerFormat(t, l, f)
         \/ LoggerFlush(t, l)
    \/ RootCalls(t)
    \/ \E c \in CLevels : RootLog(t, c)

\* A C++ program logs to both loggers and sets the root logger's levels.
CppCall(t) ==
    \E v \in Levels, l \in Logger :
        \/ Log(t, l, v)
        \/ Flush(t, l)
        \/ l = Root /\ (SetLevel(l, v) \/ FlushOn(l, v))

Next ==
    \/ \E t \in CThread : IsIdle(t) /\ CCall(t)
    \/ \E t \in Thread \ CThread : IsIdle(t) /\ CppCall(t)
    \/ \E t \in Thread : ThreadStep(t)
    \/ WorkerStep

\* A thread that is in a call goes on, and so does the worker.
Fairness == WF_vars(WorkerStep) /\ \A t \in Thread : WF_vars(ThreadStep(t))
Spec == Init /\ [][Next]_vars /\ Fairness
==============================================================================
