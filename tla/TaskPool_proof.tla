--------------------------- MODULE TaskPool_proof ----------------------------
(***************************************************************************)
(* Theorems about TaskPool, for every number of producers and workers and  *)
(* every capacity: who may use the pool and how it ends, and that it       *)
(* implements LogPipe: no accepted request is lost or carried out twice,   *)
(* and one worker keeps the order.                                         *)
(***************************************************************************)
EXTENDS TaskPool, FiniteSetTheorems, TLAPS

------------------------------------------------------------------------------
(* Counting the SHUTDOWN tasks of a queue.                                  *)

\* A queue has finitely many SHUTDOWN tasks.
LEMMA MarksFinite ==
    ASSUME NEW b \in Seq(Task)
    PROVE  IsFiniteSet(Marks(b)) /\ Cardinality(Marks(b)) \in Nat
<1>1. IsFiniteSet(1..Len(b))
  BY FS_Interval
<1>2. Marks(b) \in SUBSET (1..Len(b))
  BY DEF Marks
<1>3. QED
  BY <1>1, <1>2, FS_Subset, FS_CardinalityType

\* A task that enters the queue adds one mark if it is a SHUTDOWN, else none.
LEMMA MarksAppend ==
    ASSUME NEW b \in Seq(Task), NEW t \in Task
    PROVE  Cardinality(Marks(Append(b, t))) =
               Cardinality(Marks(b)) + (IF t = Shutdown THEN 1 ELSE 0)
<1>1. CASE t = Shutdown
  <2>1. Marks(Append(b, t)) = Marks(b) \cup {Len(b) + 1} /\ Len(b) + 1 \notin Marks(b)
    BY <1>1 DEF Marks
  <2>2. QED
    BY <1>1, <2>1, MarksFinite, FS_AddElement
<1>2. CASE t # Shutdown
  <2>1. Marks(Append(b, t)) = Marks(b)
    BY <1>2 DEF Marks
  <2>2. QED
    BY <1>2, <2>1, MarksFinite
<1>3. QED
  BY <1>1, <1>2

\* A SHUTDOWN that leaves the queue takes its mark with it.
LEMMA MarksTail ==
    ASSUME NEW b \in Seq(Task), b # <<>>
    PROVE  Cardinality(Marks(b)) =
               Cardinality(Marks(Tail(b))) + (IF Head(b) = Shutdown THEN 1 ELSE 0)
<1> DEFINE S == Marks(b) \ {1}
           T == Marks(Tail(b))
           f == [i \in T |-> i + 1]
<1>1. Tail(b) \in Seq(Task)
  OBVIOUS
<1>2. IsFiniteSet(T) /\ Cardinality(T) \in Nat
  BY <1>1, MarksFinite
<1>3. \A i \in T : i \in Nat \ {0} /\ i + 1 \in S
  BY DEF Marks
<1>4. \A j \in S : j - 1 \in T
  BY DEF Marks
<1>5. f \in Bijection(T, S)
  <2>1. f \in [T -> S]
    BY <1>3
  <2>2. \A i, j \in T : f[i] = f[j] => i = j
    BY <1>3
  <2>3. \A j \in S : \E i \in T : f[i] = j
    <3> TAKE j \in S
    <3>1. j - 1 \in T /\ j \in Nat
      BY <1>4 DEF Marks
    <3>2. f[j - 1] = j
      BY <3>1
    <3>3. QED
      BY <3>1, <3>2
  <2>4. QED
    BY <2>1, <2>2, <2>3 DEF Bijection, Injection, Surjection, IsInjective
<1>6. Cardinality(S) = Cardinality(T)
  BY <1>2, <1>5, FS_Bijection DEF ExistsBijection
<1>7. 1 \in Marks(b) <=> Head(b) = Shutdown
  BY DEF Marks
<1>8. Cardinality(S) = IF 1 \in Marks(b) THEN Cardinality(Marks(b)) - 1 ELSE Cardinality(Marks(b))
  BY MarksFinite, FS_RemoveElement
<1>9. Cardinality(Marks(b)) \in Nat
  BY MarksFinite
<1>10. QED
  BY <1>2, <1>6, <1>7, <1>8, <1>9

\* The workers are finitely many, and so are those that leave or still run.
LEMMA WorkersFinite ==
    /\ IsFiniteSet(Worker) /\ Cardinality(Worker) \in Nat \ {0}
    /\ IsFiniteSet(Leaving) /\ Cardinality(Leaving) \in Nat
    /\ IsFiniteSet(Running) /\ Cardinality(Running) \in Nat
<1>1. IsFiniteSet(Worker) /\ Worker # {}
  BY PoolAssumption
<1>2. Leaving \in SUBSET Worker /\ Running \in SUBSET Worker
  BY DEF Leaving, Running
<1>3. Cardinality(Worker) \in Nat /\ Cardinality(Worker) # 0
  BY <1>1, FS_CardinalityType, FS_EmptySet
<1>4. IsFiniteSet(Leaving) /\ IsFiniteSet(Running)
  BY <1>1, <1>2, FS_Subset
<1>5. Cardinality(Leaving) \in Nat /\ Cardinality(Running) \in Nat
  BY <1>4, FS_CardinalityType
<1>6. QED
  BY <1>1, <1>3, <1>4, <1>5

------------------------------------------------------------------------------
(* Types.  A task is numbered from 1 because a call is counted before it    *)
(* enqueues.                                                                *)

Counted == \A p \in Producer : pc[p] \in {"LOG", "FLUSH"} => calls[p] > 0

TypeInv == TypeOK /\ Counted

\* Every step keeps the types.
LEMMA StepType == TypeInv /\ [Next]_vars => TypeInv'
<1> SUFFICES ASSUME TypeInv, [Next]_vars PROVE TypeInv'
  OBVIOUS
<1> USE DEF TypeInv, TypeOK, Counted
<1>1. ASSUME NEW p \in Producer, NEW type \in {"LOG", "FLUSH"}, Call(p, type)
      PROVE  TypeInv'
  <2>1. calls[p] \in Nat /\ (calls[p] < MaxCalls => calls[p] + 1 \in 1..MaxCalls)
    BY PoolAssumption
  <2>2. UNCHANGED <<phase, closer, unsent, buffer, work, accepted, backend>>
    BY <1>1 DEF Call
  <2>3. CASE holders = {}
    <3>1. crashed' = TRUE /\ UNCHANGED <<holders, pc, calls>>
      BY <1>1, <2>3 DEF Call
    <3>2. QED
      BY <2>2, <3>1
  <2>4. CASE holders # {}
    <3>1. /\ calls' = [calls EXCEPT ![p] = calls[p] + 1]
          /\ holders' = holders \cup {p} /\ pc' = [pc EXCEPT ![p] = type]
          /\ crashed' = crashed /\ calls[p] < MaxCalls
      BY <1>1, <2>4 DEF Call
    <3>2. calls[p] + 1 \in 0..MaxCalls /\ calls[p] + 1 > 0
      BY <2>1, <3>1, PoolAssumption
    <3>3. calls' \in [Producer -> 0..MaxCalls] /\ pc' \in [Producer -> Place]
      BY <3>1, <3>2 DEF Place
    <3>4. Counted'
      BY <3>1, <3>2
    <3>5. QED
      BY <2>2, <3>1, <3>3, <3>4
  <2>5. QED
    BY <2>3, <2>4
<1>2. ASSUME NEW p \in Producer, Enqueue(p)
      PROVE  TypeInv'
  <2> DEFINE task == [type |-> pc[p], from |-> p, n |-> calls[p]]
  <2>1. pc[p] \in {"LOG", "FLUSH"} /\ calls[p] \in 1..MaxCalls
    BY <1>2, PoolAssumption DEF Enqueue
  <2>2. task \in Request
    BY <2>1 DEF Request
  <2>3. /\ buffer' = Append(buffer, task) /\ accepted' = Append(accepted, task)
        /\ pc' = [pc EXCEPT ![p] = "release"] /\ Len(buffer) < Capacity
        /\ UNCHANGED <<holders, phase, closer, unsent, work, calls, crashed, backend>>
    BY <1>2 DEF Enqueue
  <2> HIDE DEF task
  <2>4. buffer' \in Seq(Task) /\ accepted' \in Seq(Request) /\ Len(buffer') <= Capacity
    BY <2>2, <2>3, PoolAssumption DEF Task
  <2>5. QED
    BY <2>3, <2>4 DEF Place
<1>3. ASSUME NEW p \in Producer, Release(p)
      PROVE  TypeInv'
  BY <1>3 DEF Release, LetGo, Place
<1>4. CASE Reset
  BY <1>4 DEF Reset, LetGo
<1>5. CASE SendShutdown
  BY <1>5, PoolAssumption, WorkersFinite DEF SendShutdown, Task
<1>6. CASE Join
  BY <1>6 DEF Join
<1>7. ASSUME NEW w \in Worker, Dequeue(w)
      PROVE  TypeInv'
  <2>1. Head(buffer) \in Task /\ Tail(buffer) \in Seq(Task) /\ Len(Tail(buffer)) <= Capacity
    BY <1>7, PoolAssumption DEF Dequeue
  <2>2. QED
    BY <1>7, <2>1 DEF Dequeue
<1>8. ASSUME NEW w \in Worker, CarryOut(w)
      PROVE  TypeInv'
  <2>1. CASE work[w] = Shutdown
    BY <1>8, <2>1 DEF CarryOut
  <2>2. CASE work[w] # Shutdown
    <3>1. work[w] \in Request
      BY <1>8, <2>2 DEF CarryOut, Task
    <3>2. backend' = Append(backend, work[w]) /\ backend \in Seq(Request)
      BY <1>8, <2>2 DEF CarryOut
    <3>3. backend' \in Seq(Request)
      BY <3>1, <3>2
    <3>4. QED
      BY <1>8, <2>2, <3>3 DEF CarryOut
  <2>3. QED
    BY <2>1, <2>2
<1>9. CASE UNCHANGED vars
  BY <1>9 DEF vars
<1>10. QED
  BY <1>1, <1>2, <1>3, <1>4, <1>5, <1>6, <1>7, <1>8, <1>9
     DEF Next, ProducerStep, WorkerStep, CloserStep

------------------------------------------------------------------------------
(* The inductive invariant.                                                 *)

\* A producer owns the pool exactly while it is inside a call.
Owners == \A p \in Producer : pc[p] # "out" <=> p \in holders

\* The pool is open exactly as long as somebody owns it.
OpenHeld == phase = "open" <=> holders # {}

\* Until ~TaskPool runs, no SHUTDOWN task exists and every worker is in its loop.
OpenQuiet ==
    phase = "open" =>
        /\ unsent = Cardinality(Worker)
        /\ \A i \in 1..Len(buffer) : buffer[i] # Shutdown
        /\ \A w \in Worker : work[w] \notin {Shutdown, Exited}

\* Once a worker took a SHUTDOWN task, only such tasks are left.
OnlyShutdowns ==
    (\E w \in Worker : work[w] \in {Shutdown, Exited})
        => \A i \in 1..Len(buffer) : buffer[i] = Shutdown

ClosedEmpty == phase = "closed" => buffer = <<>> /\ \A w \in Worker : work[w] = Exited

IInv ==
    /\ TypeInv
    /\ Owners
    /\ OpenHeld
    /\ OpenQuiet
    /\ NothingBehindShutdown
    /\ OnlyShutdowns
    /\ ShutdownPerWorker
    /\ ClosedEmpty

\* A pool just constructed satisfies the invariant.
LEMMA InitIInv == Init => IInv
<1> SUFFICES ASSUME Init PROVE IInv
  OBVIOUS
<1> USE DEF Init
<1>1. TypeInv
  <2>1. unsent \in 0..Cardinality(Worker)
    BY WorkersFinite
  <2>2. buffer \in Seq(Task) /\ Len(buffer) <= Capacity /\ calls \in [Producer -> 0..MaxCalls]
    BY PoolAssumption
  <2>3. accepted \in Seq(Request) /\ backend \in Seq(Request)
    OBVIOUS
  <2>4. QED
    BY <2>1, <2>2, <2>3 DEF TypeInv, TypeOK, Counted, Place
<1>2. Owners /\ OpenHeld /\ OpenQuiet /\ OnlyShutdowns /\ ClosedEmpty
  BY PoolAssumption DEF Owners, OpenHeld, OpenQuiet, OnlyShutdowns, ClosedEmpty, Task
<1>3. NothingBehindShutdown
  BY DEF NothingBehindShutdown
<1>4. ShutdownPerWorker
  <2>1. Marks(buffer) = {} /\ Leaving = {} /\ Running = Worker
    <3>1. Marks(buffer) = {}
      BY DEF Marks
    <3>2. \A w \in Worker : work[w] = Idle /\ Idle # Shutdown /\ Idle # Exited
      BY PoolAssumption DEF Task
    <3>3. QED
      BY <3>1, <3>2 DEF Leaving, Running
  <2>2. QED
    <3>1. unsent = Cardinality(Worker) /\ Cardinality(Worker) \in Nat
      BY WorkersFinite
    <3>2. Cardinality(Marks(buffer)) = 0 /\ Cardinality(Leaving) = 0
      BY <2>1, FS_EmptySet
    <3>3. Cardinality(Running) = Cardinality(Worker)
      BY <2>1
    <3>4. QED
      BY <3>1, <3>2, <3>3 DEF ShutdownPerWorker
<1>5. QED
  BY <1>1, <1>2, <1>3, <1>4 DEF IInv

------------------------------------------------------------------------------
(* One lemma for each kind of step.                                         *)

\* The parts of the invariant that speak of the queue and the workers.
Queues == OpenQuiet /\ NothingBehindShutdown /\ OnlyShutdowns /\ ShutdownPerWorker

\* A step that touches neither the queue nor the workers nor the count keeps
\* those parts, provided it does not reopen the pool.
LEMMA QueuesKept ==
    ASSUME Queues, UNCHANGED <<unsent, buffer, work>>, phase' = "open" => phase = "open"
    PROVE  Queues'
BY DEF Queues, OpenQuiet, NothingBehindShutdown, OnlyShutdowns, ShutdownPerWorker,
       Marks, Leaving, Running

\* A call makes its thread an owner, or crashes.
LEMMA CallIInv ==
    ASSUME IInv, NEW p \in Producer, NEW type \in {"LOG", "FLUSH"}, Call(p, type)
    PROVE  Owners' /\ OpenHeld' /\ Queues' /\ ClosedEmpty'
<1>1. UNCHANGED <<phase, closer, unsent, buffer, work>>
  BY DEF Call
<1>2. Queues' /\ ClosedEmpty'
  BY <1>1, QueuesKept DEF IInv, Queues, ClosedEmpty
<1>3. Owners' /\ OpenHeld'
  BY <1>1 DEF IInv, TypeInv, TypeOK, Call, Owners, OpenHeld
<1>4. QED
  BY <1>2, <1>3

\* A request enters the queue only while the pool is open.
LEMMA EnqueueIInv ==
    ASSUME IInv, NEW p \in Producer, Enqueue(p)
    PROVE  Owners' /\ OpenHeld' /\ Queues' /\ ClosedEmpty'
<1> DEFINE task == [type |-> pc[p], from |-> p, n |-> calls[p]]
<1>1. /\ pc[p] \in {"LOG", "FLUSH"} /\ pc' = [pc EXCEPT ![p] = "release"]
      /\ buffer' = Append(buffer, task)
      /\ UNCHANGED <<holders, phase, unsent, work>>
  BY DEF Enqueue
<1>2. p \in holders /\ phase = "open"
  BY <1>1 DEF IInv, Owners, OpenHeld
<1>3. buffer \in Seq(Task) /\ task \in Task /\ task # Shutdown
  <2>1. calls[p] \in 1..MaxCalls
    BY <1>1, PoolAssumption DEF IInv, TypeInv, TypeOK, Counted
  <2>2. task \in Request
    BY <1>1, <2>1 DEF Request
  <2>3. QED
    BY <2>2, PoolAssumption DEF Task, IInv, TypeInv, TypeOK
<1> HIDE DEF task
<1>4. Owners' /\ OpenHeld' /\ ClosedEmpty'
  BY <1>1, <1>2 DEF IInv, TypeInv, TypeOK, Owners, OpenHeld, ClosedEmpty
<1>5. OpenQuiet'
  BY <1>1, <1>2, <1>3 DEF IInv, OpenQuiet
<1>6. NothingBehindShutdown' /\ OnlyShutdowns'
  BY <1>1, <1>2, <1>5 DEF OpenQuiet, NothingBehindShutdown, OnlyShutdowns
<1>7. ShutdownPerWorker'
  <2>1. Cardinality(Marks(buffer')) = Cardinality(Marks(buffer))
    BY <1>1, <1>3, MarksAppend, MarksFinite
  <2>2. Leaving' = Leaving /\ Running' = Running
    BY <1>1 DEF Leaving, Running
  <2>3. QED
    BY <1>1, <2>1, <2>2 DEF IInv, ShutdownPerWorker
<1>8. QED
  BY <1>4, <1>5, <1>6, <1>7 DEF Queues

\* An owner lets go: Release of a producer, Reset of the registry.
LEMMA LetGoIInv ==
    ASSUME IInv, NEW t \in holders, LetGo(t), UNCHANGED <<unsent, buffer, work>>,
           \/ t = Registry /\ UNCHANGED pc
           \/ t \in Producer /\ pc' = [pc EXCEPT ![t] = "out"]
    PROVE  Owners' /\ OpenHeld' /\ Queues' /\ ClosedEmpty'
<1>1. phase = "open" /\ phase' \in {"open", "closing"} /\ holders' = holders \ {t}
  BY DEF IInv, OpenHeld, LetGo
<1>2. Queues' /\ ClosedEmpty'
  BY <1>1, QueuesKept DEF IInv, Queues, ClosedEmpty
<1>3. OpenHeld'
  BY <1>1 DEF LetGo, OpenHeld
<1>4. Owners'
  BY <1>1, PoolAssumption DEF IInv, TypeInv, TypeOK, Owners
<1>5. QED
  BY <1>2, <1>3, <1>4

\* A SHUTDOWN task moves from the count into the queue.
LEMMA SendShutdownIInv ==
    ASSUME IInv, SendShutdown
    PROVE  Owners' /\ OpenHeld' /\ Queues' /\ ClosedEmpty'
<1>1. /\ phase = "closing" /\ unsent > 0 /\ unsent' = unsent - 1
      /\ buffer' = Append(buffer, Shutdown)
      /\ UNCHANGED <<holders, phase, work, pc>>
  BY DEF SendShutdown
<1>2. buffer \in Seq(Task) /\ Shutdown \in Task /\ unsent \in Nat
  BY WorkersFinite DEF Task, IInv, TypeInv, TypeOK
<1>3. Owners' /\ OpenHeld' /\ ClosedEmpty' /\ OpenQuiet'
  BY <1>1 DEF IInv, Owners, OpenHeld, ClosedEmpty, OpenQuiet
<1>4. NothingBehindShutdown' /\ OnlyShutdowns'
  BY <1>1, <1>2 DEF IInv, NothingBehindShutdown, OnlyShutdowns
<1>5. ShutdownPerWorker'
  <2>1. Cardinality(Marks(buffer')) = Cardinality(Marks(buffer)) + 1
    BY <1>1, <1>2, MarksAppend
  <2>2. Leaving' = Leaving /\ Running' = Running
    BY <1>1 DEF Leaving, Running
  <2>3. QED
    BY <1>1, <1>2, <2>1, <2>2, MarksFinite, WorkersFinite DEF IInv, ShutdownPerWorker
<1>6. QED
  BY <1>3, <1>4, <1>5 DEF Queues

\* When every worker has joined, nothing is left in the queue.
LEMMA JoinIInv ==
    ASSUME IInv, Join
    PROVE  Owners' /\ OpenHeld' /\ Queues' /\ ClosedEmpty'
<1>1. /\ phase = "closing" /\ phase' = "closed" /\ unsent = 0
      /\ \A w \in Worker : work[w] = Exited
      /\ UNCHANGED <<holders, unsent, buffer, work, pc>>
  BY DEF Join
<1>2. Owners' /\ OpenHeld' /\ Queues'
  BY <1>1, QueuesKept DEF IInv, Queues, Owners, OpenHeld
<1>3. buffer = <<>>
  <2>1. buffer \in Seq(Task)
    BY DEF IInv, TypeInv, TypeOK
  <2>2. \A i \in 1..Len(buffer) : buffer[i] = Shutdown
    BY <1>1, PoolAssumption DEF IInv, OnlyShutdowns
  <2>3. Running = {}
    BY <1>1 DEF Running
  <2>4. Cardinality(Marks(buffer)) = 0
    BY <1>1, <2>1, <2>3, MarksFinite, WorkersFinite, FS_EmptySet DEF IInv, ShutdownPerWorker
  <2>5. Marks(buffer) = {}
    BY <2>1, <2>4, MarksFinite, FS_EmptySet
  <2>6. QED
    BY <2>1, <2>2, <2>5 DEF Marks
<1>4. QED
  BY <1>1, <1>2, <1>3 DEF ClosedEmpty

\* A task moves from the queue to a worker.
LEMMA DequeueIInv ==
    ASSUME IInv, NEW w \in Worker, Dequeue(w)
    PROVE  Owners' /\ OpenHeld' /\ Queues' /\ ClosedEmpty'
<1>1. /\ work[w] = Idle /\ buffer # <<>>
      /\ work' = [work EXCEPT ![w] = Head(buffer)] /\ buffer' = Tail(buffer)
      /\ UNCHANGED <<holders, phase, unsent, pc>>
  BY DEF Dequeue
<1>2. /\ buffer \in Seq(Task) /\ work \in [Worker -> Task \cup {Idle, Exited}]
      /\ Head(buffer) = buffer[1] /\ Head(buffer) \in Task /\ 1 \in 1..Len(buffer)
      /\ \A i \in 1..Len(buffer') : buffer'[i] = buffer[i + 1] /\ i + 1 \in 1..Len(buffer)
  BY <1>1 DEF IInv, TypeInv, TypeOK
<1>3. Exited # Head(buffer) /\ Idle # Shutdown /\ Idle # Exited
  BY <1>2, PoolAssumption DEF Task
<1>4. Owners' /\ OpenHeld' /\ ClosedEmpty'
  BY <1>1, <1>3 DEF IInv, Owners, OpenHeld, ClosedEmpty
<1>5. OpenQuiet'
  BY <1>1, <1>2, <1>3 DEF IInv, OpenQuiet
<1>6. NothingBehindShutdown'
  BY <1>1, <1>2 DEF IInv, NothingBehindShutdown
<1>7. OnlyShutdowns'
  <2>1. CASE Head(buffer) = Shutdown
    <3>1. \A i \in 1..Len(buffer') : buffer'[i] = Shutdown
      BY <1>2, <2>1 DEF IInv, NothingBehindShutdown
    <3>2. QED
      BY <3>1 DEF OnlyShutdowns
  <2>2. CASE Head(buffer) # Shutdown
    BY <1>1, <1>2, <1>3, <2>2 DEF IInv, OnlyShutdowns
  <2>3. QED
    BY <2>1, <2>2
<1>8. ShutdownPerWorker'
  <2>1. Cardinality(Marks(buffer)) =
            Cardinality(Marks(buffer')) + (IF Head(buffer) = Shutdown THEN 1 ELSE 0)
    BY <1>1, <1>2, MarksTail
  <2>2. Running' = Running
    BY <1>1, <1>2, <1>3 DEF Running
  <2>3. Cardinality(Leaving') = Cardinality(Leaving) + (IF Head(buffer) = Shutdown THEN 1 ELSE 0)
    <3>1. CASE Head(buffer) = Shutdown
      <4>1. Leaving' = Leaving \cup {w} /\ w \notin Leaving
        BY <1>1, <1>2, <1>3, <3>1 DEF Leaving
      <4>2. QED
        BY <3>1, <4>1, WorkersFinite, FS_AddElement
    <3>2. CASE Head(buffer) # Shutdown
      <4>1. Leaving' = Leaving
        BY <1>1, <1>2, <1>3, <3>2 DEF Leaving
      <4>2. QED
        BY <3>2, <4>1, WorkersFinite
    <3>3. QED
      BY <3>1, <3>2
  <2>4. Cardinality(Marks(buffer')) \in Nat /\ Cardinality(Leaving) \in Nat /\ unsent \in Nat
    <3>1. buffer' \in Seq(Task)
      BY <1>1, <1>2
    <3>2. QED
      BY <3>1, MarksFinite, WorkersFinite DEF IInv, TypeInv, TypeOK
  <2>5. QED
    BY <1>1, <2>1, <2>2, <2>3, <2>4 DEF IInv, ShutdownPerWorker
<1>9. QED
  BY <1>4, <1>5, <1>6, <1>7, <1>8 DEF Queues

\* A worker finishes its task, or its loop.
LEMMA CarryOutIInv ==
    ASSUME IInv, NEW w \in Worker, CarryOut(w)
    PROVE  Owners' /\ OpenHeld' /\ Queues' /\ ClosedEmpty'
<1>1. /\ work[w] \in Task
      /\ work' = [work EXCEPT ![w] = IF work[w] = Shutdown THEN Exited ELSE Idle]
      /\ UNCHANGED <<holders, phase, unsent, buffer, pc>>
  BY DEF CarryOut
<1>2. /\ work \in [Worker -> Task \cup {Idle, Exited}]
      /\ work[w] # Exited /\ Idle # Shutdown /\ Exited # Shutdown /\ Idle # Exited
  BY <1>1, PoolAssumption DEF IInv, TypeInv, TypeOK, Task
<1>3. Owners' /\ OpenHeld' /\ ClosedEmpty' /\ NothingBehindShutdown'
  BY <1>1, <1>2 DEF IInv, Owners, OpenHeld, ClosedEmpty, NothingBehindShutdown
<1>4. OpenQuiet' /\ OnlyShutdowns'
  BY <1>1, <1>2 DEF IInv, OpenQuiet, OnlyShutdowns
<1>5. ShutdownPerWorker'
  <2>1. CASE work[w] = Shutdown
    <3>1. /\ Leaving' = Leaving \ {w} /\ w \in Leaving
          /\ Running' = Running \ {w} /\ w \in Running
      BY <1>1, <1>2, <2>1 DEF Leaving, Running
    <3>2. /\ Cardinality(Leaving') = Cardinality(Leaving) - 1
          /\ Cardinality(Running') = Cardinality(Running) - 1
      BY <3>1, WorkersFinite, FS_RemoveElement
    <3>3. buffer \in Seq(Task) /\ unsent \in Nat
      BY WorkersFinite DEF IInv, TypeInv, TypeOK
    <3>4. QED
      BY <1>1, <3>2, <3>3, MarksFinite, WorkersFinite DEF IInv, ShutdownPerWorker
  <2>2. CASE work[w] # Shutdown
    <3>1. Leaving' = Leaving /\ Running' = Running
      BY <1>1, <1>2, <2>2 DEF Leaving, Running
    <3>2. QED
      BY <1>1, <3>1 DEF IInv, ShutdownPerWorker
  <2>3. QED
    BY <2>1, <2>2
<1>6. QED
  BY <1>3, <1>4, <1>5 DEF Queues

\* Every step keeps the invariant.
LEMMA StepIInv == IInv /\ [Next]_vars => IInv'
<1> SUFFICES ASSUME IInv, [Next]_vars PROVE IInv'
  OBVIOUS
<1>1. TypeInv'
  BY StepType DEF IInv
<1>2. Owners' /\ OpenHeld' /\ Queues' /\ ClosedEmpty'
  <2>1. ASSUME NEW p \in Producer, NEW type \in {"LOG", "FLUSH"}, Call(p, type)
        PROVE  Owners' /\ OpenHeld' /\ Queues' /\ ClosedEmpty'
    BY <2>1, CallIInv
  <2>2. ASSUME NEW p \in Producer, Enqueue(p)
        PROVE  Owners' /\ OpenHeld' /\ Queues' /\ ClosedEmpty'
    BY <2>2, EnqueueIInv
  <2>3. ASSUME NEW p \in Producer, Release(p)
        PROVE  Owners' /\ OpenHeld' /\ Queues' /\ ClosedEmpty'
    <3>1. p \in holders
      BY <2>3 DEF IInv, Owners, Release
    <3>2. QED
      BY <2>3, <3>1, LetGoIInv DEF Release
  <2>4. CASE Reset
    BY <2>4, LetGoIInv DEF Reset
  <2>5. CASE SendShutdown
    BY <2>5, SendShutdownIInv
  <2>6. CASE Join
    BY <2>6, JoinIInv
  <2>7. ASSUME NEW w \in Worker, Dequeue(w)
        PROVE  Owners' /\ OpenHeld' /\ Queues' /\ ClosedEmpty'
    BY <2>7, DequeueIInv
  <2>8. ASSUME NEW w \in Worker, CarryOut(w)
        PROVE  Owners' /\ OpenHeld' /\ Queues' /\ ClosedEmpty'
    BY <2>8, CarryOutIInv
  <2>9. CASE UNCHANGED vars
    <3>1. UNCHANGED <<holders, phase, unsent, buffer, work, pc>>
      BY <2>9 DEF vars
    <3>2. QED
      BY <3>1, QueuesKept DEF IInv, Queues, Owners, OpenHeld, ClosedEmpty
  <2>10. QED
    BY <2>1, <2>2, <2>3, <2>4, <2>5, <2>6, <2>7, <2>8, <2>9
       DEF Next, ProducerStep, WorkerStep, CloserStep
<1>3. QED
  BY <1>1, <1>2 DEF IInv, Queues

------------------------------------------------------------------------------
\* The variables keep their types (task_pool.h, async_logger_impl.h).
THEOREM TypeCorrect == Spec => []TypeOK
<1>1. IInv => TypeOK
  BY DEF IInv, TypeInv
<1>2. QED
  BY InitIInv, StepIInv, <1>1, PTL DEF Spec

\* ~TaskPool never runs beside a call that enqueues, and leaves neither a task
\* in the queue nor a worker in its loop, with any number of threads.
THEOREM NeverUsedAfterDestroy == Spec => []NoUseAfterDestroy
<1>1. IInv => NoUseAfterDestroy
  BY DEF IInv, Owners, OpenHeld, ClosedEmpty, NoUseAfterDestroy
<1>2. QED
  BY InitIInv, StepIInv, <1>1, PTL DEF Spec

\* No request is ever behind a SHUTDOWN task in the queue.
THEOREM ShutdownComesLast == Spec => []NothingBehindShutdown
<1>1. IInv => NothingBehindShutdown
  BY DEF IInv
<1>2. QED
  BY InitIInv, StepIInv, <1>1, PTL DEF Spec

\* SHUTDOWN tasks and running workers match while the pool closes.
THEOREM OneShutdownEach == Spec => []ShutdownPerWorker
<1>1. IInv => ShutdownPerWorker
  BY DEF IInv
<1>2. QED
  BY InitIInv, StepIInv, <1>1, PTL DEF Spec

------------------------------------------------------------------------------
(* That TaskPool implements LogPipe: the invariant it needs, on top of IInv. *)

\* The accepted requests carry numbers of calls made, and a call that is still
\* in enqueue_wait carries one that no accepted request has.
Numbered ==
    \A r \in Members(accepted) :
        /\ r.n <= calls[r.from]
        /\ pc[r.from] \in {"LOG", "FLUSH"} => r.n < calls[r.from]

\* No request is twice in the sequence s of tasks.
Distinct(s) == \A i, j \in 1..Len(s) : s[i] = s[j] /\ s[i] \in Request => i = j

\* No request is accepted twice.
AcceptedOnce == Distinct(accepted)

\* An accepted request is in the queue, in the hands of a worker, or carried out.
Conserved ==
    \A r \in Request :
        r \in Members(accepted) <=>
            \/ r \in Members(buffer)
            \/ \E w \in Worker : work[w] = r
            \/ r \in Members(backend)

\* It is in one of these places only, and there once.
OnePlace ==
    /\ Distinct(buffer)
    /\ \A v, w \in Worker : work[v] = work[w] /\ work[v] \in Request => v = w
    /\ \A w \in Worker : work[w] \in Request => work[w] \notin Members(buffer) \cup Members(backend)
    /\ \A i \in 1..Len(buffer) : buffer[i] \notin Members(backend)

\* How many requests a single worker has in its hands.
InHand == IF \E w \in Worker : work[w] \in Request THEN 1 ELSE 0

\* How many requests have left the queue of a pool with one worker.
Gone == Len(backend) + InHand

\* With one worker the requests carried out, the one in its hands and those in
\* the queue are, in this order, the accepted ones.
InOrder ==
    Ordered =>
        /\ Gone <= Len(accepted) /\ Len(accepted) - Gone <= Len(buffer)
        /\ \A k \in 1..Len(backend) : backend[k] = accepted[k]
        /\ \A w \in Worker : work[w] \in Request => work[w] = accepted[Gone]
        /\ \A i \in 1..Len(buffer) :
               IF i <= Len(accepted) - Gone THEN buffer[i] = accepted[Gone + i]
                                            ELSE buffer[i] = Shutdown

PipeInv ==
    /\ IInv
    /\ Numbered
    /\ AcceptedOnce
    /\ Conserved
    /\ OnePlace
    /\ InOrder

------------------------------------------------------------------------------
(* Facts about sequences and about a single worker.                         *)

\* The elements of a sequence over S are in S.
LEMMA MembersIn ==
    ASSUME NEW S, NEW s \in Seq(S)
    PROVE  Members(s) \subseteq S
BY DEF Members

\* An element that is not in the sequence can be appended without repetition.
LEMMA DistinctAppend ==
    ASSUME NEW S, NEW s \in Seq(S), NEW x \in S, x \notin Members(s), Distinct(s)
    PROVE  Distinct(Append(s, x))
<1> DEFINE t == Append(s, x)
<1>1. /\ Len(t) = Len(s) + 1 /\ t[Len(s) + 1] = x /\ Len(s) \in Nat
      /\ \A i \in 1..Len(s) : t[i] = s[i] /\ s[i] # x
  BY DEF Members
<1> HIDE DEF t
<1> SUFFICES ASSUME NEW i \in 1..Len(t), NEW j \in 1..Len(t), t[i] = t[j], t[i] \in Request
             PROVE  i = j
  BY DEF t, Distinct
<1>2. CASE i = Len(s) + 1 \/ j = Len(s) + 1
  BY <1>1, <1>2
<1>3. CASE i \in 1..Len(s) /\ j \in 1..Len(s)
  BY <1>1, <1>3 DEF Distinct
<1>4. QED
  BY <1>1, <1>2, <1>3

\* What an Append adds to the elements of a sequence.
LEMMA MembersAppend ==
    ASSUME NEW S, NEW s \in Seq(S), NEW x \in S
    PROVE  Members(Append(s, x)) = Members(s) \cup {x}
<1>1. /\ Len(Append(s, x)) = Len(s) + 1 /\ Len(s) \in Nat
      /\ \A i \in 1..Len(s) : Append(s, x)[i] = s[i]
      /\ Append(s, x)[Len(s) + 1] = x
  OBVIOUS
<1>2. Members(Append(s, x)) \subseteq Members(s) \cup {x}
  BY <1>1 DEF Members
<1>3. Members(s) \subseteq Members(Append(s, x))
  BY <1>1 DEF Members
<1>4. x \in Members(Append(s, x))
  <2>1. Len(s) + 1 \in 1..Len(Append(s, x))
    BY <1>1
  <2>2. QED
    BY <1>1, <2>1 DEF Members
<1>5. QED
  BY <1>2, <1>3, <1>4

\* The elements of a sequence are its head and those of its tail.
LEMMA MembersTail ==
    ASSUME NEW S, NEW s \in Seq(S), s # <<>>
    PROVE  Members(s) = {Head(s)} \cup Members(Tail(s))
<1>1. /\ Len(Tail(s)) = Len(s) - 1 /\ Len(s) \in Nat \ {0}
      /\ Head(s) = s[1]
      /\ \A i \in 1..Len(Tail(s)) : Tail(s)[i] = s[i + 1]
  OBVIOUS
<1>2. Members(s) \subseteq {Head(s)} \cup Members(Tail(s))
  <2> SUFFICES ASSUME NEW i \in 1..Len(s), i # 1 PROVE s[i] \in Members(Tail(s))
    BY <1>1 DEF Members
  <2>1. i - 1 \in 1..Len(Tail(s)) /\ Tail(s)[i - 1] = s[i]
    BY <1>1
  <2>2. QED
    BY <2>1 DEF Members
<1>3. Head(s) \in Members(s)
  BY <1>1 DEF Members
<1>4. Members(Tail(s)) \subseteq Members(s)
  <2> SUFFICES ASSUME NEW i \in 1..Len(Tail(s)) PROVE Tail(s)[i] \in Members(s)
    BY DEF Members
  <2>1. i + 1 \in 1..Len(s) /\ Tail(s)[i] = s[i + 1]
    BY <1>1
  <2>2. QED
    BY <2>1 DEF Members
<1>5. QED
  BY <1>2, <1>3, <1>4

\* An ordered pool has a single worker.
LEMMA SingleWorker ==
    ASSUME Ordered, NEW v \in Worker, NEW w \in Worker
    PROVE  v = w
<1>1. PICK x : Worker = {x}
  BY PoolAssumption, FS_Singleton
<1>2. QED
  BY <1>1

\* Who makes a request, and its number.
LEMMA RequestFields == \A r \in Request : r.from \in Producer /\ r.n \in Nat
BY DEF Request

\* The tasks are the requests and SHUTDOWN; a worker may also have none.
LEMMA TaskKinds ==
    /\ Shutdown \notin Request /\ Idle \notin Request /\ Exited \notin Request
    /\ \A t \in Task : t # Shutdown => t \in Request
BY PoolAssumption DEF Task

------------------------------------------------------------------------------
(* One lemma for each kind of step.                                         *)

History == Numbered /\ AcceptedOnce /\ Conserved /\ OnePlace /\ InOrder

\* A step that moves no request keeps the history, provided that it only counts
\* calls and leaves no producer in an enqueue_wait with an old number.
LEMMA HistoryKept ==
    ASSUME History, UNCHANGED <<buffer, work, accepted, backend>>, Numbered'
    PROVE  History'
BY DEF History, AcceptedOnce, Distinct, Conserved, OnePlace, InOrder, Gone, InHand, Members

\* A call takes a new number.
LEMMA CallHistory ==
    ASSUME PipeInv, NEW p \in Producer, NEW type \in {"LOG", "FLUSH"}, Call(p, type)
    PROVE  History'
<1>1. UNCHANGED <<buffer, work, accepted, backend>>
  BY DEF Call
<1>2. /\ pc \in [Producer -> Place] /\ calls \in [Producer -> 0..MaxCalls]
      /\ \A r \in Members(accepted) : r.from \in Producer /\ r.n \in Nat
  <2>1. pc \in [Producer -> Place] /\ calls \in [Producer -> 0..MaxCalls] /\ accepted \in Seq(Request)
    BY DEF PipeInv, IInv, TypeInv, TypeOK
  <2>2. QED
    BY <2>1, MembersIn, RequestFields
<1>3. Numbered'
  <2> SUFFICES ASSUME NEW r \in Members(accepted)
               PROVE  /\ r.n <= calls'[r.from]
                      /\ pc'[r.from] \in {"LOG", "FLUSH"} => r.n < calls'[r.from]
    BY <1>1 DEF Numbered, Members
  <2>1. r.n <= calls[r.from] /\ (pc[r.from] \in {"LOG", "FLUSH"} => r.n < calls[r.from])
    BY DEF PipeInv, Numbered
  <2>2. CASE UNCHANGED <<pc, calls>>
    BY <2>1, <2>2
  <2>3. CASE pc' = [pc EXCEPT ![p] = type] /\ calls' = [calls EXCEPT ![p] = @ + 1]
    <3>1. CASE r.from = p
      <4>1. calls'[p] = calls[p] + 1 /\ calls[p] \in Nat
        BY <1>2, <2>3, PoolAssumption
      <4>2. QED
        BY <1>2, <2>1, <3>1, <4>1
    <3>2. CASE r.from # p
      BY <1>2, <2>1, <2>3, <3>2
    <3>3. QED
      BY <3>1, <3>2
  <2>4. QED
    BY <2>2, <2>3 DEF Call
<1>4. QED
  BY <1>1, <1>3, HistoryKept DEF PipeInv, History

\* A step that at most takes producers out of their calls.
LEMMA ReleaseHistory ==
    ASSUME PipeInv, UNCHANGED <<buffer, work, accepted, backend, calls>>,
           pc' = pc \/ \E p \in Producer : pc' = [pc EXCEPT ![p] = "out"]
    PROVE  History'
<1>1. pc \in [Producer -> Place] /\ accepted \in Seq(Request)
  BY DEF PipeInv, IInv, TypeInv, TypeOK
<1>2. \A p \in Producer : pc'[p] = pc[p] \/ pc'[p] = "out"
  BY <1>1
<1>3. \A r \in Members(accepted) : r.from \in Producer
  BY <1>1, MembersIn, RequestFields
<1>4. Numbered'
  BY <1>2, <1>3 DEF PipeInv, Numbered, Members
<1>5. QED
  BY <1>4, HistoryKept DEF PipeInv, History

\* The request of a call enters the queue, for the first time and at the end of
\* the accepted ones.
LEMMA EnqueueHistory ==
    ASSUME PipeInv, NEW p \in Producer, Enqueue(p)
    PROVE  /\ History'
           /\ \E r \in Request : r \notin Members(accepted) /\ accepted' = Append(accepted, r)
           /\ UNCHANGED <<phase, backend>> /\ phase = "open"
<1> DEFINE task == [type |-> pc[p], from |-> p, n |-> calls[p]]
<1>1. /\ pc[p] \in {"LOG", "FLUSH"} /\ pc' = [pc EXCEPT ![p] = "release"]
      /\ buffer' = Append(buffer, task) /\ accepted' = Append(accepted, task)
      /\ UNCHANGED <<phase, work, calls, backend>>
  BY DEF Enqueue
<1>2. /\ buffer \in Seq(Task) /\ accepted \in Seq(Request) /\ backend \in Seq(Request)
      /\ pc \in [Producer -> Place] /\ calls \in [Producer -> 0..MaxCalls]
  BY DEF PipeInv, IInv, TypeInv, TypeOK
<1>3. task \in Request /\ task \in Task /\ task.from = p /\ task.n = calls[p]
  <2>1. calls[p] \in 1..MaxCalls
    BY <1>1, PoolAssumption DEF PipeInv, IInv, TypeInv, TypeOK, Counted
  <2>2. QED
    BY <1>1, <2>1 DEF Request, Task
<1>4. task \notin Members(accepted)
  BY <1>1, <1>3 DEF PipeInv, Numbered, Request
<1> HIDE DEF task
<1>5. phase = "open" /\ \A i \in 1..Len(buffer) : buffer[i] # Shutdown
  <2>1. p \in holders
    BY <1>1 DEF PipeInv, IInv, Owners
  <2>2. QED
    BY <2>1 DEF PipeInv, IInv, OpenHeld, OpenQuiet
<1>6. /\ Members(accepted') = Members(accepted) \cup {task}
      /\ Members(buffer') = Members(buffer) \cup {task}
      /\ Members(backend') = Members(backend)
  BY <1>1, <1>2, <1>3, MembersAppend
<1>7. Numbered'
  <2> SUFFICES ASSUME NEW r \in Members(accepted')
               PROVE  /\ r.n <= calls[r.from]
                      /\ pc'[r.from] \in {"LOG", "FLUSH"} => r.n < calls[r.from]
    BY <1>1 DEF Numbered
  <2>1. CASE r = task
    BY <1>1, <1>2, <1>3, <2>1, PoolAssumption
  <2>2. CASE r \in Members(accepted)
    <3>1. r.from \in Producer
      BY <1>2, <2>2, MembersIn, RequestFields
    <3>2. r.n <= calls[r.from] /\ (pc[r.from] \in {"LOG", "FLUSH"} => r.n < calls[r.from])
      BY <2>2 DEF PipeInv, Numbered
    <3>3. QED
      BY <1>1, <1>2, <3>1, <3>2
  <2>3. QED
    BY <1>6, <2>1, <2>2
<1>8. AcceptedOnce'
  <2>1. Distinct(accepted) /\ accepted \in Seq(Request)
    BY <1>2 DEF PipeInv, AcceptedOnce
  <2>2. Distinct(Append(accepted, task))
    BY <1>3, <1>4, <2>1, DistinctAppend
  <2>3. QED
    BY <1>1, <2>2 DEF AcceptedOnce, Distinct
<1>9. /\ task \notin Members(buffer) /\ task \notin Members(backend)
      /\ \A w \in Worker : work[w] # task
  BY <1>3, <1>4 DEF PipeInv, Conserved
<1>10. Conserved'
  BY <1>1, <1>6 DEF PipeInv, Conserved
<1>11. OnePlace'
  <2>1. /\ Len(buffer') = Len(buffer) + 1 /\ buffer'[Len(buffer) + 1] = task
        /\ \A i \in 1..Len(buffer) : buffer'[i] = buffer[i] /\ buffer[i] # task
    BY <1>1, <1>2, <1>3, <1>9 DEF Members
  <2>2. Distinct(buffer')
    <3>1. Distinct(buffer)
      BY DEF PipeInv, OnePlace
    <3>2. Distinct(Append(buffer, task))
      BY <1>2, <1>3, <1>9, <3>1, DistinctAppend
    <3>3. QED
      BY <1>1, <3>2 DEF Distinct
  <2>3. \A i \in 1..Len(buffer') : buffer'[i] \notin Members(backend')
    <3>1. \A i \in 1..Len(buffer) : buffer[i] \notin Members(backend)
      BY DEF PipeInv, OnePlace
    <3>2. \A i \in 1..Len(buffer') : i = Len(buffer) + 1 \/ i \in 1..Len(buffer)
      BY <1>2, <2>1
    <3>3. QED
      BY <1>6, <1>9, <2>1, <3>1, <3>2
  <2>4. /\ \A v, w \in Worker : work'[v] = work'[w] /\ work'[v] \in Request => v = w
        /\ \A w \in Worker : work'[w] \in Request => work'[w] \notin Members(buffer') \cup Members(backend')
    BY <1>1, <1>6, <1>9 DEF PipeInv, OnePlace
  <2>5. QED
    BY <2>2, <2>3, <2>4 DEF OnePlace
<1>12. InOrder'
  <2> SUFFICES ASSUME Ordered
               PROVE  /\ Gone <= Len(accepted') /\ Len(accepted') - Gone <= Len(buffer')
                      /\ \A k \in 1..Len(backend) : backend[k] = accepted'[k]
                      /\ \A w \in Worker : work[w] \in Request => work[w] = accepted'[Gone]
                      /\ \A i \in 1..Len(buffer') :
                             IF i <= Len(accepted') - Gone THEN buffer'[i] = accepted'[Gone + i]
                                                           ELSE buffer'[i] = Shutdown
    BY <1>1 DEF InOrder, Gone, InHand
  <2>1. /\ Gone <= Len(accepted) /\ Len(accepted) - Gone <= Len(buffer)
        /\ \A k \in 1..Len(backend) : backend[k] = accepted[k]
        /\ \A w \in Worker : work[w] \in Request => work[w] = accepted[Gone]
        /\ \A i \in 1..Len(buffer) :
               IF i <= Len(accepted) - Gone THEN buffer[i] = accepted[Gone + i]
                                            ELSE buffer[i] = Shutdown
    BY DEF PipeInv, InOrder
  <2>2. Gone \in Nat /\ Len(backend) \in Nat /\ Len(backend) <= Gone /\ Len(buffer) \in Nat /\ Len(accepted) \in Nat
    BY <1>2 DEF Gone, InHand
  <2>3. Len(buffer) = Len(accepted) - Gone
    <3>1. SUFFICES ASSUME Len(accepted) - Gone < Len(buffer) PROVE FALSE
      BY <2>1, <2>2
    <3>2. buffer[Len(buffer)] = Shutdown /\ Len(buffer) \in 1..Len(buffer)
      BY <2>1, <2>2, <3>1
    <3>3. QED
      BY <1>5, <3>2
  <2>4. /\ Len(accepted') = Len(accepted) + 1 /\ Len(buffer') = Len(buffer) + 1
        /\ accepted'[Len(accepted) + 1] = task /\ buffer'[Len(buffer) + 1] = task
        /\ \A i \in 1..Len(accepted) : accepted'[i] = accepted[i]
        /\ \A i \in 1..Len(buffer) : buffer'[i] = buffer[i]
    BY <1>1, <1>2, <1>3
  <2>5. \A w \in Worker : work[w] \in Request => work[w] = accepted'[Gone]
    <3> TAKE w \in Worker
    <3> HAVE work[w] \in Request
    <3>1. Gone \in 1..Len(accepted)
      BY <2>1, <2>2 DEF Gone, InHand
    <3>2. QED
      BY <2>1, <2>4, <3>1
  <2>6. ASSUME NEW i \in 1..Len(buffer')
        PROVE  IF i <= Len(accepted') - Gone THEN buffer'[i] = accepted'[Gone + i]
                                             ELSE buffer'[i] = Shutdown
    <3>1. CASE i = Len(buffer) + 1
      BY <2>2, <2>3, <2>4, <3>1
    <3>2. CASE i \in 1..Len(buffer)
      <4>1. i <= Len(accepted) - Gone /\ Gone + i \in 1..Len(accepted)
        BY <2>2, <2>3, <3>2
      <4>2. buffer[i] = accepted[Gone + i]
        BY <2>1, <3>2, <4>1
      <4>3. QED
        BY <2>2, <2>4, <3>2, <4>1, <4>2
    <3>3. QED
      BY <2>2, <2>4, <3>1, <3>2
  <2>7. QED
    BY <2>1, <2>2, <2>3, <2>4, <2>5, <2>6
<1>13. QED
  BY <1>1, <1>3, <1>4, <1>5, <1>7, <1>8, <1>10, <1>11, <1>12 DEF History

\* A SHUTDOWN task enters the queue behind every request.
LEMMA SendShutdownHistory ==
    ASSUME PipeInv, SendShutdown
    PROVE  History'
<1>1. buffer' = Append(buffer, Shutdown) /\ UNCHANGED <<work, pc, calls, accepted, backend>>
  BY DEF SendShutdown
<1>2. /\ buffer \in Seq(Task) /\ backend \in Seq(Request) /\ accepted \in Seq(Request)
      /\ Shutdown \in Task /\ Shutdown \notin Request
  BY TaskKinds DEF Task, PipeInv, IInv, TypeInv, TypeOK
<1>3. Members(buffer') = Members(buffer) \cup {Shutdown} /\ Shutdown \notin Members(backend)
  BY <1>1, <1>2, MembersAppend, MembersIn
<1>4. /\ Len(buffer') = Len(buffer) + 1 /\ buffer'[Len(buffer) + 1] = Shutdown
      /\ \A i \in 1..Len(buffer) : buffer'[i] = buffer[i]
  BY <1>1, <1>2
<1>5. Numbered' /\ AcceptedOnce'
  BY <1>1 DEF PipeInv, Numbered, AcceptedOnce, Distinct, Members
<1>6. Conserved'
  <2>1. \A r \in Request : r \in Members(buffer') <=> r \in Members(buffer)
    BY <1>2, <1>3
  <2>2. QED
    BY <1>1, <2>1 DEF PipeInv, Conserved, Members
<1>7. OnePlace'
  <2>1. Distinct(buffer')
    BY <1>2, <1>4 DEF PipeInv, OnePlace, Distinct
  <2>2. \A i \in 1..Len(buffer') : buffer'[i] \notin Members(backend)
    BY <1>2, <1>3, <1>4 DEF PipeInv, OnePlace
  <2>3. /\ \A v, w \in Worker : work[v] = work[w] /\ work[v] \in Request => v = w
        /\ \A w \in Worker : work[w] \in Request => work[w] \notin Members(buffer') \cup Members(backend)
    BY <1>2, <1>3 DEF PipeInv, OnePlace
  <2>4. QED
    BY <1>1, <2>1, <2>2, <2>3 DEF OnePlace, Distinct, Members
<1>8. InOrder'
  <2> SUFFICES ASSUME Ordered
               PROVE  /\ Gone <= Len(accepted) /\ Len(accepted) - Gone <= Len(buffer')
                      /\ \A k \in 1..Len(backend) : backend[k] = accepted[k]
                      /\ \A w \in Worker : work[w] \in Request => work[w] = accepted[Gone]
                      /\ \A i \in 1..Len(buffer') :
                             IF i <= Len(accepted) - Gone THEN buffer'[i] = accepted[Gone + i]
                                                          ELSE buffer'[i] = Shutdown
    BY <1>1 DEF InOrder, Gone, InHand
  <2>1. /\ Gone <= Len(accepted) /\ Len(accepted) - Gone <= Len(buffer)
        /\ \A k \in 1..Len(backend) : backend[k] = accepted[k]
        /\ \A w \in Worker : work[w] \in Request => work[w] = accepted[Gone]
        /\ \A i \in 1..Len(buffer) :
               IF i <= Len(accepted) - Gone THEN buffer[i] = accepted[Gone + i]
                                            ELSE buffer[i] = Shutdown
    BY DEF PipeInv, InOrder
  <2>2. Gone \in Nat /\ Len(buffer) \in Nat /\ Len(accepted) \in Nat
    BY <1>2 DEF Gone, InHand
  <2>3. ASSUME NEW i \in 1..Len(buffer')
        PROVE  IF i <= Len(accepted) - Gone THEN buffer'[i] = accepted[Gone + i]
                                            ELSE buffer'[i] = Shutdown
    <3>1. CASE i = Len(buffer) + 1
      BY <1>4, <2>1, <2>2, <3>1
    <3>2. CASE i \in 1..Len(buffer)
      BY <1>4, <2>1, <3>2
    <3>3. QED
      BY <1>4, <2>2, <3>1, <3>2
  <2>4. QED
    BY <1>4, <2>1, <2>2, <2>3
<1>9. QED
  BY <1>5, <1>6, <1>7, <1>8 DEF History

\* A task moves from the queue into the hands of a worker.
LEMMA DequeueHistory ==
    ASSUME PipeInv, NEW w \in Worker, Dequeue(w)
    PROVE  History'
<1> DEFINE h == Head(buffer)
<1>1. /\ work[w] = Idle /\ buffer # <<>>
      /\ work' = [work EXCEPT ![w] = h] /\ buffer' = Tail(buffer)
      /\ UNCHANGED <<pc, calls, accepted, backend>>
  BY DEF Dequeue
<1>2. /\ buffer \in Seq(Task) /\ backend \in Seq(Request) /\ accepted \in Seq(Request)
      /\ work \in [Worker -> Task \cup {Idle, Exited}]
  BY DEF PipeInv, IInv, TypeInv, TypeOK
<1>3. /\ h = buffer[1] /\ h \in Task /\ Len(buffer) \in Nat \ {0} /\ Len(buffer') = Len(buffer) - 1
      /\ \A i \in 1..Len(buffer') : buffer'[i] = buffer[i + 1] /\ i + 1 \in 1..Len(buffer)
  BY <1>1, <1>2
<1>4. Members(buffer) = {h} \cup Members(buffer')
  BY <1>1, <1>2, MembersTail
<1> HIDE DEF h
<1>5. /\ work'[w] = h /\ \A v \in Worker \ {w} : work'[v] = work[v]
      /\ work[w] \notin Request
  BY <1>1, <1>2, TaskKinds
<1>6. h \in Request => /\ h \notin Members(buffer') /\ h \notin Members(backend)
                       /\ \A v \in Worker : work[v] # h
  <2> SUFFICES ASSUME h \in Request
               PROVE  /\ h \notin Members(buffer') /\ h \notin Members(backend)
                      /\ \A v \in Worker : work[v] # h
    OBVIOUS
  <2>1. \A i \in 1..Len(buffer') : buffer'[i] # h
    BY <1>3 DEF PipeInv, OnePlace, Distinct
  <2>2. h \notin Members(backend) /\ h \in Members(buffer)
    BY <1>3, <1>4 DEF PipeInv, OnePlace
  <2>3. \A v \in Worker : work[v] # h
    BY <2>2 DEF PipeInv, OnePlace
  <2>4. QED
    BY <2>1, <2>2, <2>3 DEF Members
<1>7. Numbered' /\ AcceptedOnce'
  BY <1>1 DEF PipeInv, Numbered, AcceptedOnce, Distinct, Members
<1>8. Conserved'
  <2> SUFFICES ASSUME NEW r \in Request
               PROVE  r \in Members(accepted) <=>
                          \/ r \in Members(buffer')
                          \/ \E v \in Worker : work'[v] = r
                          \/ r \in Members(backend)
    BY <1>1 DEF Conserved, Members
  <2>1. (\E v \in Worker : work'[v] = r) <=> (r = h \/ \E v \in Worker : work[v] = r)
    BY <1>5
  <2>2. r \in Members(accepted) <=> \/ r \in Members(buffer)
                                    \/ \E v \in Worker : work[v] = r
                                    \/ r \in Members(backend)
    BY DEF PipeInv, Conserved
  <2>3. QED
    BY <1>4, <2>1, <2>2
<1>9. OnePlace'
  <2>1. Distinct(buffer')
    <3> SUFFICES ASSUME NEW i \in 1..Len(buffer'), NEW j \in 1..Len(buffer'),
                        buffer'[i] = buffer'[j], buffer'[i] \in Request
                 PROVE  i = j
      BY DEF Distinct
    <3>1. i + 1 = j + 1
      BY <1>3 DEF PipeInv, OnePlace, Distinct
    <3>2. QED
      BY <3>1
  <2>2. \A i \in 1..Len(buffer') : buffer'[i] \notin Members(backend)
    BY <1>3 DEF PipeInv, OnePlace
  <2>3. \A u, v \in Worker : work'[u] = work'[v] /\ work'[u] \in Request => u = v
    BY <1>5, <1>6 DEF PipeInv, OnePlace
  <2>4. \A v \in Worker : work'[v] \in Request => work'[v] \notin Members(buffer') \cup Members(backend)
    BY <1>4, <1>5, <1>6 DEF PipeInv, OnePlace
  <2>5. QED
    BY <1>1, <2>1, <2>2, <2>3, <2>4 DEF OnePlace, Distinct, Members
<1>10. ASSUME Ordered
       PROVE  /\ Gone' <= Len(accepted) /\ Len(accepted) - Gone' <= Len(buffer')
              /\ \A k \in 1..Len(backend) : backend[k] = accepted[k]
              /\ \A v \in Worker : work'[v] \in Request => work'[v] = accepted[Gone']
              /\ \A i \in 1..Len(buffer') :
                     IF i <= Len(accepted) - Gone' THEN buffer'[i] = accepted[Gone' + i]
                                                   ELSE buffer'[i] = Shutdown
  <2>1. \A v \in Worker : v = w
    BY <1>10, SingleWorker
  <2>2. Gone = Len(backend) /\ Gone \in Nat /\ Len(accepted) \in Nat
    BY <1>2, <1>5, <2>1 DEF Gone, InHand
  <2>3. /\ Gone <= Len(accepted) /\ Len(accepted) - Gone <= Len(buffer)
        /\ \A k \in 1..Len(backend) : backend[k] = accepted[k]
        /\ \A i \in 1..Len(buffer) :
               IF i <= Len(accepted) - Gone THEN buffer[i] = accepted[Gone + i]
                                            ELSE buffer[i] = Shutdown
    BY <1>10 DEF PipeInv, InOrder
  <2>4. CASE h = Shutdown
    <3>1. Gone' = Gone /\ \A v \in Worker : work'[v] \notin Request
      BY <1>1, <1>5, <2>1, <2>2, <2>4, TaskKinds DEF Gone, InHand
    <3>2. \A i \in 1..Len(buffer) : buffer[i] = Shutdown
      <4> SUFFICES ASSUME NEW i \in 1..Len(buffer), i # 1 PROVE buffer[i] = Shutdown
        BY <1>3, <2>4
      <4>1. 1 \in 1..Len(buffer) /\ 1 < i /\ buffer[1] = Shutdown
        BY <1>3, <2>4
      <4>2. QED
        BY <4>1 DEF PipeInv, IInv, NothingBehindShutdown
    <3>3. Len(accepted) - Gone = 0
      <4> SUFFICES ASSUME Len(accepted) - Gone > 0 PROVE FALSE
        BY <2>2, <2>3
      <4>1. 1 \in 1..Len(buffer) /\ 1 <= Len(accepted) - Gone /\ Gone + 1 \in 1..Len(accepted)
        BY <1>3, <2>2
      <4>2. buffer[1] = accepted[Gone + 1]
        BY <2>3, <4>1
      <4>3. accepted[Gone + 1] \in Request
        BY <1>2, <4>1
      <4>4. QED
        BY <1>3, <2>4, <4>2, <4>3, TaskKinds
    <3>4. QED
      BY <1>3, <2>2, <2>3, <3>1, <3>2, <3>3
  <2>5. CASE h # Shutdown
    <3>1. h \in Request
      BY <1>3, <2>5, TaskKinds
    <3>2. Gone' = Gone + 1
      BY <1>1, <1>5, <2>2, <3>1 DEF Gone, InHand
    <3>3. 1 <= Len(accepted) - Gone /\ h = accepted[Gone + 1]
      <4>1. 1 \in 1..Len(buffer)
        BY <1>3
      <4>2. IF 1 <= Len(accepted) - Gone THEN buffer[1] = accepted[Gone + 1]
                                         ELSE buffer[1] = Shutdown
        BY <2>3, <4>1
      <4>3. QED
        BY <1>3, <2>5, <4>2
    <3>4. \A v \in Worker : work'[v] \in Request => work'[v] = accepted[Gone']
      BY <1>5, <2>1, <3>2, <3>3
    <3>5. ASSUME NEW i \in 1..Len(buffer')
          PROVE  IF i <= Len(accepted) - Gone' THEN buffer'[i] = accepted[Gone' + i]
                                               ELSE buffer'[i] = Shutdown
      <4>1. buffer'[i] = buffer[i + 1] /\ i + 1 \in 1..Len(buffer)
        BY <1>3
      <4>2. /\ i <= Len(accepted) - Gone' <=> i + 1 <= Len(accepted) - Gone
            /\ Gone' + i = Gone + (i + 1)
        BY <2>2, <3>2
      <4>3. QED
        BY <2>3, <4>1, <4>2
    <3>6. Gone <= Len(accepted) /\ Len(accepted) - Gone <= Len(buffer)
      BY <2>3
    <3>7. Gone' <= Len(accepted) /\ Len(accepted) - Gone' <= Len(buffer')
      BY <1>3, <2>2, <3>2, <3>3, <3>6
    <3>8. QED
      BY <2>3, <3>4, <3>5, <3>7
  <2>6. QED
    BY <2>4, <2>5
<1>11. QED
  BY <1>1, <1>7, <1>8, <1>9, <1>10 DEF History, InOrder

\* A worker carries its request out, or leaves its loop.
LEMMA CarryOutHistory ==
    ASSUME PipeInv, NEW w \in Worker, CarryOut(w)
    PROVE  /\ History'
           /\ \/ UNCHANGED <<accepted, backend, phase>>
              \/ \E r \in Request :
                     /\ phase # "closed" /\ r \in Members(accepted) \ Members(backend)
                     /\ Ordered => r = accepted[Len(backend) + 1]
                     /\ backend' = Append(backend, r)
                     /\ UNCHANGED <<accepted, phase>>
<1> DEFINE r == work[w]
<1>1. /\ r \in Task
      /\ UNCHANGED <<buffer, pc, calls, accepted, phase>>
  BY DEF CarryOut
<1>2. /\ buffer \in Seq(Task) /\ backend \in Seq(Request) /\ accepted \in Seq(Request)
      /\ work \in [Worker -> Task \cup {Idle, Exited}]
  BY DEF PipeInv, IInv, TypeInv, TypeOK
<1>3. Numbered' /\ AcceptedOnce'
  BY <1>1 DEF PipeInv, Numbered, AcceptedOnce, Distinct, Members
<1>4. phase # "closed"
  BY <1>1, PoolAssumption DEF PipeInv, IInv, ClosedEmpty, Task
<1>5. CASE r = Shutdown
  <2>1. work' = [work EXCEPT ![w] = Exited] /\ backend' = backend
    BY <1>5 DEF CarryOut
  <2>2. \A v \in Worker : work'[v] = work[v] \/ (v = w /\ work'[v] = Exited)
    BY <1>2, <2>1
  <2>3. \A v \in Worker : work'[v] \in Request <=> work[v] \in Request
    BY <1>5, <2>2, TaskKinds
  <2>4. \A v \in Worker : work'[v] \in Request => work'[v] = work[v]
    BY <2>2, TaskKinds
  <2>5. Conserved'
    <3>1. \A q \in Request : (\E v \in Worker : work'[v] = q) <=> (\E v \in Worker : work[v] = q)
      BY <2>3, <2>4
    <3>2. QED
      BY <1>1, <2>1, <3>1 DEF PipeInv, Conserved, Members
  <2>6. OnePlace'
    BY <1>1, <2>1, <2>3, <2>4 DEF PipeInv, OnePlace, Distinct, Members
  <2>7. InOrder'
    <3>1. Gone' = Gone
      BY <2>1, <2>3 DEF Gone, InHand
    <3>2. QED
      BY <1>1, <2>1, <2>3, <2>4, <3>1 DEF PipeInv, InOrder
  <2>8. QED
    BY <1>1, <1>3, <2>1, <2>5, <2>6, <2>7 DEF History
<1>6. CASE r # Shutdown
  <2>1. work' = [work EXCEPT ![w] = Idle] /\ backend' = Append(backend, r)
    BY <1>6 DEF CarryOut
  <2>2. r \in Request
    BY <1>1, <1>6, TaskKinds
  <2>3. work'[w] \notin Request /\ \A v \in Worker \ {w} : work'[v] = work[v]
    BY <1>2, <2>1, TaskKinds
  <2>4. Members(backend') = Members(backend) \cup {r}
    BY <1>2, <2>1, <2>2, MembersAppend
  <2>5. r \in Members(accepted) /\ r \notin Members(backend) /\ r \notin Members(buffer)
    BY <2>2 DEF PipeInv, Conserved, OnePlace
  <2>6. \A v \in Worker \ {w} : work[v] # r
    BY <2>2 DEF PipeInv, OnePlace
  <2> HIDE DEF r
  <2>7. Conserved'
    <3> SUFFICES ASSUME NEW q \in Request
                 PROVE  q \in Members(accepted) <=>
                            \/ q \in Members(buffer)
                            \/ \E v \in Worker : work'[v] = q
                            \/ q \in Members(backend')
      BY <1>1 DEF Conserved, Members
    <3>1. (\E v \in Worker : work[v] = q) <=> (q = r \/ \E v \in Worker : work'[v] = q)
      BY <2>2, <2>3 DEF r
    <3>2. q \in Members(accepted) <=> \/ q \in Members(buffer)
                                      \/ \E v \in Worker : work[v] = q
                                      \/ q \in Members(backend)
      BY DEF PipeInv, Conserved
    <3>3. QED
      BY <2>4, <3>1, <3>2
  <2>8. OnePlace'
    <3>1. \A v \in Worker : work'[v] \in Request => v # w /\ work'[v] = work[v]
      BY <2>3
    <3>2. \A i \in 1..Len(buffer) : buffer[i] \notin Members(backend')
      BY <2>4, <2>5 DEF PipeInv, OnePlace, Distinct, Members
    <3>3. \A v \in Worker : work'[v] \in Request => work'[v] \notin Members(buffer) \cup Members(backend')
      BY <2>4, <2>6, <3>1 DEF PipeInv, OnePlace
    <3>4. \A u, v \in Worker : work'[u] = work'[v] /\ work'[u] \in Request => u = v
      BY <3>1 DEF PipeInv, OnePlace
    <3>5. QED
      BY <1>1, <3>2, <3>3, <3>4 DEF PipeInv, OnePlace, Distinct, Members
  <2>9. ASSUME Ordered
        PROVE  /\ r = accepted[Len(backend) + 1]
               /\ Gone' = Gone
               /\ \A v \in Worker : work'[v] \notin Request
               /\ \A k \in 1..Len(backend') : backend'[k] = accepted[k]
    <3>1. \A v \in Worker : v = w
      BY <2>9, SingleWorker
    <3>2. Gone = Len(backend) + 1 /\ Len(backend) \in Nat /\ Len(backend') = Len(backend) + 1
      BY <1>2, <2>1, <2>2 DEF Gone, InHand, r
    <3>3. Gone' = Len(backend') /\ \A v \in Worker : work'[v] \notin Request
      BY <2>1, <2>2, <2>3, <3>1, <1>2 DEF Gone, InHand
    <3>4. r = accepted[Gone] /\ \A k \in 1..Len(backend) : backend[k] = accepted[k]
      BY <2>2, <2>9 DEF PipeInv, InOrder, r
    <3>5. \A k \in 1..Len(backend') : backend'[k] = accepted[k]
      <4>1. /\ backend'[Len(backend) + 1] = r
            /\ \A k \in 1..Len(backend) : backend'[k] = backend[k]
        BY <1>2, <2>1, <2>2
      <4>2. QED
        BY <3>2, <3>4, <4>1
    <3>6. QED
      BY <3>2, <3>3, <3>4, <3>5
  <2>10. InOrder'
    BY <1>1, <2>9 DEF PipeInv, InOrder
  <2>11. QED
    BY <1>1, <1>3, <1>4, <2>1, <2>2, <2>5, <2>7, <2>8, <2>9, <2>10 DEF History
<1>7. QED
  BY <1>5, <1>6

\* The pool closes when every accepted request is carried out.
LEMMA JoinHistory ==
    ASSUME PipeInv, Join
    PROVE  /\ History'
           /\ phase = "closing" /\ phase' = "closed"
           /\ Members(backend) = Members(accepted)
           /\ UNCHANGED <<accepted, backend>>
<1>1. /\ phase = "closing" /\ phase' = "closed" /\ \A w \in Worker : work[w] = Exited
      /\ UNCHANGED <<buffer, work, pc, calls, accepted, backend>>
  BY DEF Join
<1>2. buffer = <<>>
  BY <1>1, JoinIInv DEF PipeInv, IInv, ClosedEmpty
<1>3. Members(backend) = Members(accepted)
  <2>1. Members(buffer) = {} /\ \A w \in Worker : work[w] \notin Request
    BY <1>1, <1>2, TaskKinds DEF Members
  <2>2. Members(backend) \subseteq Request /\ Members(accepted) \subseteq Request
    BY MembersIn DEF PipeInv, IInv, TypeInv, TypeOK
  <2>3. QED
    BY <2>1, <2>2 DEF PipeInv, Conserved
<1>4. QED
  BY <1>1, <1>3, ReleaseHistory

\* Every step keeps the invariant, and is a step of the pipe or none.
LEMMA StepPipe == PipeInv /\ [Next]_vars => PipeInv' /\ [Pipe!Next]_(Pipe!pipeVars)
<1> SUFFICES ASSUME PipeInv, [Next]_vars PROVE PipeInv' /\ [Pipe!Next]_(Pipe!pipeVars)
  OBVIOUS
<1>1. IInv'
  BY StepIInv DEF PipeInv
<1> DEFINE Stays == UNCHANGED <<accepted, backend>> /\ (phase' # "closed") = (phase # "closed")
<1>2. ASSUME NEW p \in Producer, NEW type \in {"LOG", "FLUSH"}, Call(p, type)
      PROVE  History' /\ Stays
  BY <1>2, CallHistory DEF Call
<1>3. ASSUME NEW p \in Producer, Release(p)
      PROVE  History' /\ Stays
  <2>1. phase = "open"
    BY <1>3 DEF Release, PipeInv, IInv, Owners, OpenHeld
  <2>2. QED
    BY <1>3, <2>1, ReleaseHistory DEF Release, LetGo
<1>4. CASE Reset
  <2>1. phase = "open"
    BY <1>4 DEF Reset, PipeInv, IInv, OpenHeld
  <2>2. History' /\ Stays
    BY <1>4, <2>1, ReleaseHistory DEF Reset, LetGo
  <2>3. QED
    BY <1>1, <2>2 DEF PipeInv, History, Pipe!pipeVars
<1>5. CASE SendShutdown
  <2>1. History' /\ Stays
    BY <1>5, SendShutdownHistory DEF SendShutdown
  <2>2. QED
    BY <1>1, <2>1 DEF PipeInv, History, Pipe!pipeVars
<1>6. ASSUME NEW w \in Worker, Dequeue(w)
      PROVE  History' /\ Stays
  BY <1>6, DequeueHistory DEF Dequeue
<1>7. CASE UNCHANGED vars
  <2>1. History' /\ Stays
    BY <1>7, ReleaseHistory DEF vars
  <2>2. QED
    BY <1>1, <2>1 DEF PipeInv, History, Pipe!pipeVars
<1>8. ASSUME NEW p \in Producer, Enqueue(p)
      PROVE  History' /\ Pipe!Next
  <2>1. /\ History' /\ phase = "open" /\ UNCHANGED <<phase, backend>>
        /\ \E r \in Request : r \notin Members(accepted) /\ accepted' = Append(accepted, r)
    BY <1>8, EnqueueHistory
  <2>2. PICK r \in Request : r \notin Members(accepted) /\ accepted' = Append(accepted, r)
    BY <2>1
  <2>3. Pipe!Accept(r)
    BY <2>1, <2>2 DEF Pipe!Accept, Pipe!Members, Members
  <2>4. QED
    BY <2>1, <2>3 DEF Pipe!Next
<1>9. ASSUME NEW w \in Worker, CarryOut(w)
      PROVE  History' /\ (Stays \/ Pipe!Next)
  <2>1. ASSUME NEW r \in Request, phase # "closed", r \in Members(accepted) \ Members(backend),
               Ordered => r = accepted[Len(backend) + 1],
               backend' = Append(backend, r), UNCHANGED <<accepted, phase>>
        PROVE  Pipe!Next
    <3>1. Pipe!CarryOut(r)
      BY <2>1 DEF Pipe!CarryOut, Pipe!Members, Members
    <3>2. QED
      BY <3>1 DEF Pipe!Next
  <2>2. QED
    BY <1>9, <2>1, CarryOutHistory
<1>10. CASE Join
  <2>1. /\ History' /\ phase = "closing" /\ phase' = "closed"
        /\ Members(backend) = Members(accepted) /\ UNCHANGED <<accepted, backend>>
    BY <1>10, JoinHistory
  <2>2. Pipe!Close
    BY <2>1 DEF Pipe!Close, Pipe!Members, Members
  <2>3. QED
    BY <1>1, <2>1, <2>2 DEF PipeInv, History, Pipe!Next
<1>11. ASSUME History', Stays \/ Pipe!Next
       PROVE  PipeInv' /\ [Pipe!Next]_(Pipe!pipeVars)
  BY <1>1, <1>11 DEF PipeInv, History, Pipe!pipeVars
<1> HIDE DEF Stays
<1>12. QED
  BY <1>2, <1>3, <1>4, <1>5, <1>6, <1>7, <1>8, <1>9, <1>10, <1>11
     DEF Next, ProducerStep, WorkerStep, CloserStep

\* A pool just constructed satisfies the invariant, and is a new pipe.
LEMMA InitPipe == Init => PipeInv /\ Pipe!Init
<1> SUFFICES ASSUME Init PROVE PipeInv /\ Pipe!Init
  OBVIOUS
<1>1. IInv
  BY InitIInv
<1>2. /\ buffer = <<>> /\ accepted = <<>> /\ backend = <<>> /\ phase = "open"
      /\ \A w \in Worker : work[w] = Idle
  BY DEF Init
<1>3. Members(buffer) = {} /\ Members(accepted) = {} /\ Members(backend) = {}
  BY <1>2 DEF Members
<1>4. \A w \in Worker : work[w] \notin Request
  BY <1>2, TaskKinds
<1>5. Numbered /\ AcceptedOnce /\ Conserved /\ OnePlace
  BY <1>2, <1>3, <1>4 DEF Numbered, AcceptedOnce, Distinct, Conserved, OnePlace
<1>6. InOrder
  <2>1. Gone = 0
    BY <1>2, <1>4 DEF Gone, InHand
  <2>2. QED
    BY <1>2, <1>4, <2>1 DEF InOrder
<1>7. Pipe!Init
  BY <1>2 DEF Pipe!Init
<1>8. QED
  BY <1>1, <1>5, <1>6, <1>7 DEF PipeInv

------------------------------------------------------------------------------
\* TaskPool implements LogPipe (task_pool.cpp:36-99): whatever producers,
\* workers and the end of the pool do, every accepted request is carried out at
\* most once, and by the time the pool is closed exactly once; a single worker
\* carries the requests out in the order of their acceptance.
THEOREM PoolImplementsPipe == Spec => ImplementsPipe
BY InitPipe, StepPipe, PTL DEF Spec, ImplementsPipe, Pipe!Spec

\* With one worker, the default, a flush is carried out after every log that was
\* accepted before it.
THEOREM FlushComesAfter == ASSUME Ordered PROVE Spec => []FlushCovers
<1>1. PipeInv => FlushCovers
  <2> SUFFICES ASSUME PipeInv, NEW i \in 1..Len(accepted), NEW j \in 1..Len(accepted),
                      NEW k \in 1..Len(backend), i < j, backend[k] = accepted[j]
               PROVE  \E h \in 1..k : backend[h] = accepted[i]
    BY DEF FlushCovers
  <2>1. accepted \in Seq(Request) /\ backend \in Seq(Request)
    BY DEF PipeInv, IInv, TypeInv, TypeOK
  <2>2. Len(backend) <= Len(accepted) /\ \A h \in 1..Len(backend) : backend[h] = accepted[h]
    BY <2>1 DEF PipeInv, InOrder, Gone, InHand
  <2>3. k \in 1..Len(accepted) /\ accepted[k] = accepted[j]
    BY <2>1, <2>2
  <2>4. k = j
    <3>1. accepted[k] \in Request
      BY <2>1, <2>3
    <3>2. QED
      BY <2>3, <3>1 DEF PipeInv, AcceptedOnce, Distinct
  <2>5. i \in 1..k /\ i \in 1..Len(backend)
    BY <2>1, <2>4
  <2>6. QED
    BY <2>2, <2>5
<1>2. QED
  BY <1>1, InitPipe, StepPipe, PTL DEF Spec
==============================================================================
