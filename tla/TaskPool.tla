------------------------------ MODULE TaskPool -------------------------------
(***************************************************************************)
(* origin::logging::TaskPool (logging/src/internal/task_pool.cpp), the     *)
(* asynchronous loggers that feed it (async_logger_impl.cpp) and the end   *)
(* of its life.  A logger keeps a weak_ptr to the pool and locks it for    *)
(* each call, so that a caller is one of the owners while it enqueues; the *)
(* owner that lets go last runs ~TaskPool.  _buffer is the bounded FIFO    *)
(* that ConcurrentBlockingQueue implements: enqueue_wait is enabled when   *)
(* there is space, dequeue_wait when there is a task.                      *)
(***************************************************************************)
EXTENDS Naturals, Sequences, FiniteSets

CONSTANTS
    Producer,  \* the application threads that log
    Worker,    \* the threads of _threadPool
    Registry,  \* the owner that holds the pool from its creation
    Capacity,  \* of _buffer
    MaxCalls,  \* bound of the calls that one producer makes
    Shutdown,  \* the task of type SHUTDOWN
    Idle,      \* a worker without a task
    Exited,    \* a worker whose loop has ended
    Nobody,    \* no thread
    Ordered    \* whether the pool has one worker

\* the tasks of type LOG and FLUSH: the n-th call of a producer
Request == [type : {"LOG", "FLUSH"}, from : Producer, n : 1..MaxCalls]
Task == Request \cup {Shutdown}

ASSUME PoolAssumption ==
    /\ Capacity \in Nat \ {0}
    /\ MaxCalls \in Nat
    /\ IsFiniteSet(Worker) /\ Worker # {}
    /\ Registry \notin Producer /\ Nobody \notin Producer \cup {Registry}
    /\ Shutdown \notin Request
    /\ Ordered => Cardinality(Worker) = 1
    /\ Idle \notin Task /\ Exited \notin Task /\ Idle # Exited

VARIABLES
    holders,   \* the owners of the pool's shared_ptr
    phase,     \* "open", "closing" in ~TaskPool, "closed" after it
    closer,    \* the thread that runs ~TaskPool
    unsent,    \* how many SHUTDOWN tasks shutdown() has still to enqueue
    buffer,    \* _buffer, oldest task first
    work,      \* work[w]: the task that worker w carries out
    pc,        \* pc[p]: where producer p stands
    calls,     \* calls[p]: how many calls p has made
    crashed,   \* a call has dereferenced the null result of weak_ptr::lock
    accepted,  \* history: the requests that entered _buffer
    backend    \* history: the requests carried out by the backend

vars == <<holders, phase, closer, unsent, buffer, work, pc, calls, crashed, accepted, backend>>

\* "LOG" and "FLUSH": in enqueue_wait with that task; "release": the call
\* returns and its shared_ptr goes away
Place == {"out", "LOG", "FLUSH", "release"}

Init ==
    /\ holders = {Registry}
    /\ phase = "open"
    /\ closer = Nobody
    /\ unsent = Cardinality(Worker)
    /\ buffer = <<>>
    /\ work = [w \in Worker |-> Idle]
    /\ pc = [p \in Producer |-> "out"]
    /\ calls = [p \in Producer |-> 0]
    /\ crashed = FALSE
    /\ accepted = <<>>
    /\ backend = <<>>

\* mutant: the weak_ptr is tested, and used without becoming an owner
CallUnowned(p, type) ==
    /\ pc[p] = "out" /\ closer # p
    /\ calls[p] < MaxCalls
    /\ IF holders = {}
       THEN crashed' = TRUE /\ UNCHANGED <<pc, calls>>
       ELSE /\ pc' = [pc EXCEPT ![p] = type]
            /\ calls' = [calls EXCEPT ![p] = @ + 1]
            /\ UNCHANGED crashed
    /\ UNCHANGED <<holders, phase, closer, unsent, buffer, work, accepted, backend>>

\* log_it and flush_it: _taskPool.lock(), whose result is used unchecked
Call(p, type) ==
    /\ pc[p] = "out" /\ closer # p
    /\ calls[p] < MaxCalls
    /\ IF holders = {}
       THEN crashed' = TRUE /\ UNCHANGED <<holders, pc, calls>>
       ELSE /\ holders' = holders \cup {p}
            /\ pc' = [pc EXCEPT ![p] = type]
            /\ calls' = [calls EXCEPT ![p] = @ + 1]
            /\ UNCHANGED crashed
    /\ UNCHANGED <<phase, closer, unsent, buffer, work, accepted, backend>>

\* mutant: a flush that jumps the queue
EnqueueFlushFirst(p) ==
    /\ pc[p] \in {"LOG", "FLUSH"}
    /\ Len(buffer) < Capacity
    /\ LET task == [type |-> pc[p], from |-> p, n |-> calls[p]]
       IN  /\ buffer' = IF pc[p] = "FLUSH" THEN <<task>> \o buffer ELSE Append(buffer, task)
           /\ accepted' = Append(accepted, task)
    /\ pc' = [pc EXCEPT ![p] = "release"]
    /\ UNCHANGED <<holders, phase, closer, unsent, work, calls, crashed, backend>>

\* TaskPool::log and TaskPool::flush
Enqueue(p) ==
    /\ pc[p] \in {"LOG", "FLUSH"}
    /\ Len(buffer) < Capacity
    /\ LET task == [type |-> pc[p], from |-> p, n |-> calls[p]]
       IN  /\ buffer' = Append(buffer, task)
           /\ accepted' = Append(accepted, task)
    /\ pc' = [pc EXCEPT ![p] = "release"]
    /\ UNCHANGED <<holders, phase, closer, unsent, work, calls, crashed, backend>>

\* owner t lets go of its shared_ptr; the last owner enters ~TaskPool
LetGo(t) ==
    /\ holders' = holders \ {t}
    /\ IF holders = {t}
       THEN phase' = "closing" /\ closer' = t
       ELSE UNCHANGED <<phase, closer>>

\* the temporary shared_ptr of log_it and flush_it ends
Release(p) ==
    /\ pc[p] = "release"
    /\ LetGo(p)
    /\ pc' = [pc EXCEPT ![p] = "out"]
    /\ UNCHANGED <<unsent, buffer, work, calls, crashed, accepted, backend>>

\* Registry::shutdown: _rootTaskPool.reset()
Reset ==
    /\ Registry \in holders
    /\ LetGo(Registry)
    /\ UNCHANGED <<unsent, buffer, work, pc, calls, crashed, accepted, backend>>

\* mutants: one SHUTDOWN task for all workers; SHUTDOWN tasks ahead of the others
SendShutdownOnce ==
    /\ phase = "closing"
    /\ unsent > 0
    /\ Len(buffer) < Capacity
    /\ buffer' = Append(buffer, Shutdown)
    /\ unsent' = 0
    /\ UNCHANGED <<holders, phase, closer, work, pc, calls, crashed, accepted, backend>>
SendShutdownFirst ==
    /\ phase = "closing"
    /\ unsent > 0
    /\ Len(buffer) < Capacity
    /\ buffer' = <<Shutdown>> \o buffer
    /\ unsent' = unsent - 1
    /\ UNCHANGED <<holders, phase, closer, work, pc, calls, crashed, accepted, backend>>

\* shutdown(), first loop: one SHUTDOWN task for each worker
SendShutdown ==
    /\ phase = "closing"
    /\ unsent > 0
    /\ Len(buffer) < Capacity
    /\ buffer' = Append(buffer, Shutdown)
    /\ unsent' = unsent - 1
    /\ UNCHANGED <<holders, phase, closer, work, pc, calls, crashed, accepted, backend>>

\* mutant: the workers are not joined
JoinNobody ==
    /\ phase = "closing"
    /\ unsent = 0
    /\ phase' = "closed"
    /\ closer' = Nobody
    /\ UNCHANGED <<holders, unsent, buffer, work, pc, calls, crashed, accepted, backend>>

\* shutdown(), second loop and the end of ~TaskPool: every worker has joined
Join ==
    /\ phase = "closing"
    /\ unsent = 0
    /\ \A w \in Worker : work[w] = Exited
    /\ phase' = "closed"
    /\ closer' = Nobody
    /\ UNCHANGED <<holders, unsent, buffer, work, pc, calls, crashed, accepted, backend>>

\* worker_loop: dequeue_wait
Dequeue(w) ==
    /\ work[w] = Idle
    /\ buffer # <<>>
    /\ work' = [work EXCEPT ![w] = Head(buffer)]
    /\ buffer' = Tail(buffer)
    /\ UNCHANGED <<holders, phase, closer, unsent, pc, calls, crashed, accepted, backend>>

\* mutant: a worker that carries its task out again
CarryOutAgain(w) ==
    /\ work[w] \in Task
    /\ IF work[w] = Shutdown
       THEN work' = [work EXCEPT ![w] = Exited] /\ UNCHANGED backend
       ELSE (work' = work \/ work' = [work EXCEPT ![w] = Idle])
            /\ Len(backend) <= MaxCalls * Cardinality(Producer)
            /\ backend' = Append(backend, work[w])
    /\ UNCHANGED <<holders, phase, closer, unsent, buffer, pc, calls, crashed, accepted>>

\* worker_loop: backend_log, backend_flush, or the end of the loop
CarryOut(w) ==
    /\ work[w] \in Task
    /\ IF work[w] = Shutdown
       THEN work' = [work EXCEPT ![w] = Exited] /\ UNCHANGED backend
       ELSE work' = [work EXCEPT ![w] = Idle] /\ backend' = Append(backend, work[w])
    /\ UNCHANGED <<holders, phase, closer, unsent, buffer, pc, calls, crashed, accepted>>

ProducerStep(p) == Enqueue(p) \/ Release(p)
WorkerStep(w) == Dequeue(w) \/ CarryOut(w)
CloserStep == SendShutdown \/ Join

\* a null dereference ends the process
Next ==
    /\ ~ crashed
    /\ \/ \E p \in Producer : ProducerStep(p) \/ \E type \in {"LOG", "FLUSH"} : Call(p, type)
       \/ \E w \in Worker : WorkerStep(w)
       \/ Reset
       \/ CloserStep

\* Every thread in the middle of something runs on; nobody has to call log or
\* to shut the registry down.
Fairness ==
    /\ \A p \in Producer : WF_vars(~ crashed /\ ProducerStep(p))
    /\ \A w \in Worker : WF_vars(~ crashed /\ WorkerStep(w))
    /\ WF_vars(~ crashed /\ CloserStep)

Spec == Init /\ [][Next]_vars /\ Fairness

------------------------------------------------------------------------------
Members(s) == {s[i] : i \in 1..Len(s)}

\* the places of SHUTDOWN tasks in b, the workers that hold one, and those that
\* have not left their loop
Marks(b) == {i \in 1..Len(b) : b[i] = Shutdown}
Leaving  == {w \in Worker : work[w] = Shutdown}
Running  == {w \in Worker : work[w] # Exited}

TypeOK ==
    /\ holders \subseteq Producer \cup {Registry}
    /\ phase \in {"open", "closing", "closed"}
    /\ closer \in Producer \cup {Registry, Nobody}
    /\ unsent \in 0..Cardinality(Worker)
    /\ buffer \in Seq(Task) /\ Len(buffer) <= Capacity
    /\ work \in [Worker -> Task \cup {Idle, Exited}]
    /\ pc \in [Producer -> Place]
    /\ calls \in [Producer -> 0..MaxCalls]
    /\ crashed \in BOOLEAN
    /\ accepted \in Seq(Request)
    /\ backend \in Seq(Request)

\* ~TaskPool never runs beside a call that enqueues: the caller is an owner
\* from before its enqueue_wait until after it (async_logger_impl.cpp:79, 84),
\* so neither the queue nor its mutex is used after the pool is gone.
NoUseAfterDestroy ==
    /\ phase # "open" => \A p \in Producer : pc[p] = "out"
    /\ phase = "closed" => buffer = <<>> /\ \A w \in Worker : work[w] = Exited

\* No log or flush is behind a SHUTDOWN task, where a worker could leave its
\* loop before it (task_pool.cpp:66-68, 96-99).
NothingBehindShutdown ==
    \A i, j \in 1..Len(buffer) : i < j /\ buffer[i] = Shutdown => buffer[j] = Shutdown

\* While the pool closes, the SHUTDOWN tasks to come, in the queue and in the
\* hands of workers are as many as the workers still in their loop: each join
\* ends and no SHUTDOWN task is left over (task_pool.cpp:66, 70-74).
ShutdownPerWorker ==
    unsent + Cardinality(Marks(buffer)) + Cardinality(Leaving) = Cardinality(Running)

\* The pool is a pipe that carries every accepted request out, once, before it
\* closes; with one worker, in the order of acceptance.
Pipe == INSTANCE LogPipe WITH done <- backend, open <- (phase # "closed")
ImplementsPipe == Pipe!Spec

\* A flush is carried out after every log accepted before it
\* (test_async_logger.cpp:161-163: all logs are on disk after flush()).
FlushCovers ==
    \A i, j \in 1..Len(accepted) :
        \A k \in 1..Len(backend) :
            i < j /\ accepted[j].type = "FLUSH" /\ backend[k] = accepted[j]
            => \E h \in 1..k : backend[h] = accepted[i]

\* Once the last owner has let go, the pool closes: the workers get their
\* SHUTDOWN tasks, and no join waits for ever.
PoolCloses == (phase = "closing") ~> (phase = "closed" \/ crashed)

\* Every accepted request is carried out, whether or not the pool is shut down
\* while it waits.
AcceptedCarriedOut ==
    \A r \in Request : (r \in Members(accepted)) ~> (r \in Members(backend) \/ crashed)
==============================================================================
