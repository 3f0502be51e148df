-------------------------------- MODULE Loggers --------------------------------
(***************************************************************************)
(* The way of a message: origin::logging::Logger (logger.h), its           *)
(* implementations LoggerImplBase, SyncLoggerImpl and AsyncLoggerImpl, the *)
(* worker of the task pool, and SinkImplBase with a file or a stream       *)
(* behind it.                                                              *)
(*                                                                         *)
(* Levels are atomics that any thread reads and writes between any two     *)
(* steps.  What SinkImplBase does under _sinkMtx (log, flush,              *)
(* set_formatter) is one step.  A logger visits its sinks one by one.      *)
(* shared_ptrs keep an object alive: those of the application (held),      *)
(* those of a logger to its sinks, of a task to its logger, and of a call. *)
(* The pool is the queue that module TaskPool implements, with one worker. *)
(***************************************************************************)
EXTENDS Naturals, Sequences, FiniteSets, SequencesExt

CONSTANTS
    Thread,              \* the threads of the application
    Worker,              \* the worker of the pool
    Pool,                \* the task pool
    Logger, Async,       \* the loggers, and those that are AsyncLoggers
    Sink, Stream,        \* the sinks, and those that are StdoutSinks
    SinksOf,             \* SinksOf[l]: the sequence of the sinks of l
    Root,                \* the root logger, which exists from the beginning
    Formatter, Throwing, \* the formatters, and those whose format throws
    Default,             \* the formatter of a new sink
    Capacity,            \* of the pool's queue
    None,
    MaxMsgs, MaxFlushes, MaxSets  \* bounds

DEBUG == 1
INFO == 2
OFF == 6
LogLevel == 0..OFF

Made == {Root} \cup Range(SinksOf[Root])

ASSUME LoggersAssumption ==
    /\ Async \subseteq Logger /\ Root \in Logger \ Async
    /\ Stream \subseteq Sink
    /\ SinksOf \in [Logger -> Seq(Sink)]
    /\ Throwing \subseteq Formatter /\ Default \in Formatter
    /\ Capacity \in Nat \ {0}
    /\ MaxMsgs \in Nat /\ MaxFlushes \in Nat /\ MaxSets \in Nat
    /\ Worker \notin Thread /\ None \notin Logger \cup Formatter

VARIABLES
    level, flushLevel,    \* _level and _flushLevel of each logger
    sinkLevel, formatter, \* _level and _formatter of each sink
    out,                  \* the messages written to each sink, in order
    flushed,              \* how many of them have left the stream's buffer
    fresh,                \* the objects not yet constructed
    held,                 \* the objects that the application has a shared_ptr of
    queue,                \* the tasks: a logger and a message, 0 for a flush
    call,                 \* where each thread stands
    msgs,                 \* history: the messages that were made
    done,                 \* history: those whose log is over
    covered,              \* history: those behind which their logger was flushed
    flushes, sets         \* history: how many flushes and settings there were

settings == <<level, flushLevel, sinkLevel, formatter, sets>>
files == <<out, flushed>>
objects == <<fresh, held>>
history == <<msgs, done, covered, flushes>>
vars == <<settings, files, objects, queue, call, history>>

Executor == Thread \cup {Worker}
Idle == [op |-> "idle", logger |-> None, n |-> 0, at |-> 0, form |-> None]
\* a call for logger l that begins with step op at its first sink
Frame(op, l, n) == [op |-> op, logger |-> l, n |-> n, at |-> 1, form |-> None]
At(e, op) == call[e].op = op
IsIdle(t) == At(t, "idle")
Goto(e, frame) == call' = [call EXCEPT ![e] = frame]

\* should_log of loggers and sinks, should_flush
Admits(lvl, threshold) == lvl # OFF /\ lvl >= threshold

\* the sink at which executor e stands, and whether it has passed the last
PastSinks(e) == call[e].at > Len(SinksOf[call[e].logger])
SinkAt(e) == SinksOf[call[e].logger][call[e].at]
NextSink(e, op) == Goto(e, [call[e] EXCEPT !.op = op, !.at = @ + 1])

Alive(l) ==
    \/ l \in held
    \/ \E e \in Executor : call[e].logger = l
    \/ \E i \in DOMAIN queue : queue[i].logger = l
SinkAlive(s) == s \in held \/ \E l \in Logger \ fresh : Alive(l) /\ s \in Range(SinksOf[l])

\* AsyncLoggerImpl's _taskPool.lock() gives the pool, which a caller keeps alive
InSend == \E t \in Thread : At(t, "send")
PoolAlive == Pool \in held \/ InSend

\* what is out of the buffer: the stream of a sink that is gone was closed
Secured(s) == IF SinkAlive(s) THEN flushed[s] ELSE Len(out[s])

\* sink s writes a message of this level
Takes(s, lvl, levels, forms) == Admits(lvl, levels[s]) /\ forms[s] \notin Throwing

Init ==
    /\ level = [l \in Logger |-> INFO] /\ flushLevel = [l \in Logger |-> OFF]
    /\ sinkLevel = [s \in Sink |-> INFO] /\ formatter = [s \in Sink |-> Default]
    /\ out = [s \in Sink |-> <<>>] /\ flushed = [s \in Sink |-> 0]
    /\ fresh = (Sink \cup Logger \cup {Pool}) \ Made
    /\ held = Made
    /\ queue = <<>>
    /\ call = [e \in Executor |-> Idle]
    /\ msgs = <<>> /\ done = {} /\ covered = {} /\ flushes = 0 /\ sets = 0

------------------------------------------------------------------------------
(* Construction and release.                                                *)

Construct(o) ==
    /\ o \in fresh
    /\ fresh' = fresh \ {o} /\ held' = held \cup {o}
    /\ UNCHANGED <<settings, files, queue, call, history>>

NewSink(s) == s \in Sink /\ Construct(s)

\* An AsyncLogger throws if the pool is gone.
NewLogger(l) ==
    /\ l \in Logger
    /\ Range(SinksOf[l]) \subseteq held
    /\ l \in Async => Pool \in held
    /\ Construct(l)

\* The application lets go of a shared_ptr.  The last one of the pool runs
\* ~TaskPool, which waits for the worker.
Release(t, o) ==
    /\ IsIdle(t)
    /\ o \in held \ {Root}
    /\ held' = held \ {o}
    /\ IF o = Pool /\ ~InSend THEN Goto(t, [Idle EXCEPT !.op = "join"]) ELSE UNCHANGED call
    /\ UNCHANGED <<fresh, settings, files, queue, history>>

Join(t) ==
    /\ At(t, "join")
    /\ queue = <<>> /\ IsIdle(Worker)
    /\ Goto(t, Idle)
    /\ UNCHANGED <<settings, files, objects, queue, history>>

------------------------------------------------------------------------------
(* Settings.                                                                *)

\* History: in every log that is not over, the sinks that have taken its message
\* all the while, those that have refused its level and those whose formatter has
\* thrown, and whether it still calls for a flush, as these settings stand.
Judge(levels, forms, flushLevels) ==
    msgs' = [n \in DOMAIN msgs |->
        IF n \in done THEN msgs[n]
        ELSE LET m == msgs[n] IN
             [m EXCEPT !.takes = {s \in @ : Takes(s, m.level, levels, forms)},
                       !.refuses = {s \in @ : ~Admits(m.level, levels[s])},
                       !.throws = {s \in @ : forms[s] \in Throwing},
                       !.flush = @ /\ Admits(m.level, flushLevels[m.logger])]]

Counted == sets < MaxSets /\ sets' = sets + 1

SetLevel(l, v) ==
    /\ l \in held /\ v # level[l] /\ Counted
    /\ level' = [level EXCEPT ![l] = v]
    /\ UNCHANGED <<flushLevel, sinkLevel, formatter, files, objects, queue, call, history>>

FlushOn(l, v) ==
    /\ l \in held /\ v # flushLevel[l] /\ Counted
    /\ flushLevel' = [flushLevel EXCEPT ![l] = v]
    /\ Judge(sinkLevel, formatter, flushLevel')
    /\ UNCHANGED <<level, sinkLevel, formatter, files, objects, queue, call, done, covered, flushes>>

SetSinkLevel(s, v) ==
    /\ s \in held /\ v # sinkLevel[s] /\ Counted
    /\ sinkLevel' = [sinkLevel EXCEPT ![s] = v]
    /\ Judge(sinkLevel', formatter, flushLevel)
    /\ UNCHANGED <<level, flushLevel, formatter, files, objects, queue, call, done, covered, flushes>>

\* SinkImplBase::set_formatter
PutFormatter(s, f) ==
    /\ formatter' = [formatter EXCEPT ![s] = f]
    /\ Judge(sinkLevel, formatter', flushLevel)
    /\ UNCHANGED <<level, flushLevel, sinkLevel, files, objects, queue, done, covered, flushes>>

SetSinkFormatter(s, f) ==
    /\ s \in held /\ f # formatter[s] /\ Counted
    /\ PutFormatter(s, f)
    /\ UNCHANGED call

\* LoggerImplBase::set_formatter and set_pattern: a clone for every sink
SetFormatter(t, l, f) ==
    /\ IsIdle(t) /\ l \in held /\ Counted
    /\ Goto(t, [Frame("format", l, 0) EXCEPT !.form = f])
    /\ UNCHANGED <<level, flushLevel, sinkLevel, formatter, files, objects, queue, history>>

FormatSink(t) ==
    /\ At(t, "format")
    /\ IF PastSinks(t)
       THEN Goto(t, Idle) /\ UNCHANGED <<settings, files, objects, queue, history>>
       ELSE /\ PutFormatter(SinkAt(t), call[t].form)
            /\ NextSink(t, "format")
            /\ UNCHANGED sets

------------------------------------------------------------------------------
(* log and flush.                                                           *)

\* force_log: the LogMsg is made; an AsyncLogger sends it to the pool
ForceLog(t, l, lvl) ==
    /\ IsIdle(t) /\ l \in held
    /\ l \in Async => PoolAlive
    /\ Len(msgs) < MaxMsgs
    /\ msgs' = Append(msgs, [level |-> lvl, logger |-> l,
                             takes |-> {s \in Sink : Takes(s, lvl, sinkLevel, formatter)},
                             refuses |-> {s \in Sink : ~Admits(lvl, sinkLevel[s])},
                             throws |-> {s \in Sink : formatter[s] \in Throwing},
                             flush |-> Admits(lvl, flushLevel[l])])
    /\ Goto(t, Frame(IF l \in Async THEN "send" ELSE "ask", l, Len(msgs) + 1))
    /\ UNCHANGED <<settings, files, objects, queue, done, covered, flushes>>

\* log, trace, debug, info, warn, error and fatal: nothing below the level
Log(t, l, lvl) == Admits(lvl, level[l]) /\ ForceLog(t, l, lvl)

\* History: a flush of l covers what is written and, in the pool, what is sent
\* already
Cover(l) == covered \cup
    {n \in DOMAIN msgs : /\ msgs[n].logger = l
                         /\ n \in done \/ (l \in Async /\ \A t \in Thread : ~(At(t, "send") /\ call[t].n = n))}

Flush(t, l) ==
    /\ IsIdle(t) /\ l \in held
    /\ flushes < MaxFlushes /\ flushes' = flushes + 1
    /\ IF l \in Async
       THEN PoolAlive /\ Goto(t, Frame("send", l, 0)) /\ UNCHANGED covered
       ELSE Goto(t, Frame("flush", l, 0)) /\ covered' = Cover(l)
    /\ UNCHANGED <<settings, files, objects, queue, msgs, done>>

\* mutant: a task that finds the queue full is dropped
SendOrDrop(t) ==
    /\ At(t, "send")
    /\ queue' = IF Len(queue) < Capacity THEN Append(queue, [logger |-> call[t].logger, n |-> call[t].n]) ELSE queue
    /\ covered' = IF call[t].n = 0 THEN Cover(call[t].logger) ELSE covered
    /\ Goto(t, IF Pool \in held \/ \E u \in Thread \ {t} : At(u, "send") THEN Idle ELSE [Idle EXCEPT !.op = "join"])
    /\ UNCHANGED <<settings, files, objects, msgs, done, flushes>>

\* TaskPool::log and flush, enqueue_wait.  A caller whose shared_ptr of the pool
\* is the last one destroys the pool.
Send(t) ==
    /\ At(t, "send")
    /\ Len(queue) < Capacity
    /\ queue' = Append(queue, [logger |-> call[t].logger, n |-> call[t].n])
    /\ covered' = IF call[t].n = 0 THEN Cover(call[t].logger) ELSE covered
    /\ Goto(t, IF Pool \in held \/ \E u \in Thread \ {t} : At(u, "send") THEN Idle ELSE [Idle EXCEPT !.op = "join"])
    /\ UNCHANGED <<settings, files, objects, msgs, done, flushes>>

\* worker_loop: backend_log or backend_flush of the logger of the task
Dequeue ==
    /\ IsIdle(Worker) /\ queue # <<>>
    /\ LET task == Head(queue)
       IN  Goto(Worker, Frame(IF task.n = 0 THEN "flush" ELSE "ask", task.logger, task.n))
    /\ queue' = Tail(queue)
    /\ UNCHANGED <<settings, files, objects, history>>

\* backend_log: the sink is asked ...
AskSink(e) ==
    /\ At(e, "ask") /\ ~PastSinks(e)
    /\ IF Admits(msgs[call[e].n].level, sinkLevel[SinkAt(e)])
       THEN Goto(e, [call[e] EXCEPT !.op = "write"])
       ELSE NextSink(e, "ask")
    /\ UNCHANGED <<settings, files, objects, queue, history>>

\* log_it and sink_it of a BasicFileSink, which buffers the line, and of a
\* StdoutSink, which flushes it
FileSinkIt(s, n) ==
    /\ out' = [out EXCEPT ![s] = Append(@, n)]
    /\ UNCHANGED flushed
StdoutSinkIt(s, n) ==
    /\ out' = [out EXCEPT ![s] = Append(@, n)]
    /\ flushed' = [flushed EXCEPT ![s] = Len(out'[s])]
SinkIt(s, n) == IF s \in Stream THEN StdoutSinkIt(s, n) ELSE FileSinkIt(s, n)

\* mutant: what the formatter throws leaves the loop over the sinks
WriteSinkOrLeave(e) ==
    /\ At(e, "write")
    /\ LET s == SinkAt(e)
       IN  IF formatter[s] \in Throwing
           THEN /\ done' = done \cup {call[e].n} /\ Goto(e, Idle)
                /\ UNCHANGED files
           ELSE SinkIt(s, call[e].n) /\ NextSink(e, "ask") /\ UNCHANGED done
    /\ UNCHANGED <<settings, objects, queue, msgs, covered, flushes>>

\* ... and writes, whatever its level is by now.  SinkImplBase::log keeps what
\* the formatter throws from the loop.
WriteSink(e) ==
    /\ At(e, "write")
    /\ LET s == SinkAt(e)
       IN  IF formatter[s] \in Throwing THEN UNCHANGED files ELSE SinkIt(s, call[e].n)
    /\ NextSink(e, "ask")
    /\ UNCHANGED <<settings, objects, queue, history>>

\* mutant: only a level above the flush level is flushed
EndLogAbove(e) ==
    /\ At(e, "ask") /\ PastSinks(e)
    /\ LET f == call[e]
       IN  IF e # Worker /\ msgs[f.n].level > flushLevel[f.logger]
           THEN Goto(e, Frame("flush", f.logger, f.n)) /\ UNCHANGED done
           ELSE Goto(e, Idle) /\ done' = done \cup {f.n}
    /\ UNCHANGED <<settings, files, objects, queue, msgs, covered, flushes>>

\* SyncLoggerImpl::log_it goes on to should_flush; the worker does not
EndLog(e) ==
    /\ At(e, "ask") /\ PastSinks(e)
    /\ LET f == call[e]
       IN  IF e # Worker /\ Admits(msgs[f.n].level, flushLevel[f.logger])
           THEN Goto(e, Frame("flush", f.logger, f.n)) /\ UNCHANGED done
           ELSE Goto(e, Idle) /\ done' = done \cup {f.n}
    /\ UNCHANGED <<settings, files, objects, queue, msgs, covered, flushes>>

\* SinkImplBase::flush
SinkFlush(s) == flushed' = [flushed EXCEPT ![s] = Len(out[s])]

\* backend_flush
FlushSink(e) ==
    /\ At(e, "flush")
    /\ IF PastSinks(e)
       THEN /\ Goto(e, Idle)
            /\ done' = IF call[e].n = 0 THEN done ELSE done \cup {call[e].n}
            /\ UNCHANGED flushed
       ELSE /\ SinkFlush(SinkAt(e))
            /\ NextSink(e, "flush") /\ UNCHANGED done
    /\ UNCHANGED <<settings, out, objects, queue, msgs, covered, flushes>>

\* what an executor does next in the call it is in
Step(e) == AskSink(e) \/ WriteSink(e) \/ EndLog(e) \/ FlushSink(e)
ThreadStep(t) == Step(t) \/ Send(t) \/ Join(t) \/ FormatSink(t)
WorkerStep == Dequeue \/ Step(Worker)

------------------------------------------------------------------------------
(* Properties.                                                              *)

\* The lines of message n in sink s
Lines(s, n) == {i \in DOMAIN out[s] : out[s][i] = n}

\* When a log is over, in the caller or in the worker, every sink of the logger
\* that admitted its level and could format it all the while has it once, though
\* others refused it or their formatters threw, though levels, formatters and
\* handles came and went, and a sink whose level refused it all the while, or
\* whose formatter threw all the while, or that is not the logger's, has nothing
\* of it.  (One that could never have written it at one instant may have it: the
\* level is asked before the formatter is.)
DeliveredAsLevelsSay ==
    \A n \in done, s \in Sink :
        /\ Cardinality(Lines(s, n)) <= 1
        /\ s \in Range(SinksOf[msgs[n].logger]) \cap msgs[n].takes => Lines(s, n) # {}
        /\ s \in msgs[n].refuses \cup msgs[n].throws \/ s \notin Range(SinksOf[msgs[n].logger]) => Lines(s, n) = {}

\* When a synchronous log at or above the flush level returns, no sink buffers
\* its line.
FlushLevelSecures ==
    \A n \in done : msgs[n].flush /\ msgs[n].logger \notin Async =>
        \A s \in Sink : \A i \in Lines(s, n) : i <= Secured(s)

\* What a flush covers is written and out of every buffer in the end, though the
\* application lets go of the logger, its sinks and the pool meanwhile.
FlushReaches ==
    []<>(\A n \in covered : n \in done /\ \A s \in Sink : \A i \in Lines(s, n) : i <= Secured(s))
==============================================================================
