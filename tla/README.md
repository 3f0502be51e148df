# A verification project for ly_chat_server

TLA+ specifications of the concurrent and stateful core of this repository, the
TLC configurations that check them on small instances, and TLAPS proofs about
them for every value of their constants. Paths below are relative to
`src/src/libs`.

## 1. The system

The repository is a set of C++20 libraries (`common`, `utils`, `logging`) with
their tests; the chat server itself is not written yet. What has behaviour worth
verifying is logging: application threads call a logger, a logger gives a
message to its sinks, directly or through a pool of worker threads, and a file
sink rotates and deletes files.

    application threads (C++ classes, or the C interface and its handles)
        | log, flush                         set_level, register, shutdown
        v                                        |
    loggers (sync | async) <---- registry -------+
        |            | weak_ptr        | shared_ptr
        |            v                 v
        |        TaskPool: ConcurrentBlockingQueue<LogTask> -> worker threads
        |                                |
        v                                v
    sinks (a mutex each): stdout, file, rotating file, daily file
        |
        v
    FileWriter, file system, date-time

### Inventory

| Component | State | Operations | What is hard | What makes it correct |
|---|---|---|---|---|
| `BlockingQueue` (`common/container/blocking_queue.hpp`) | `_items`, `_head`, `_tail`, `_overrun_counter` | enqueue, enqueue_overrun, emplace_back, dequeue, front, at, clear, size | the wrap of two indices, one spare slot, overrun of a full ring | it is a bounded FIFO; no reader reaches an empty slot |
| `ConcurrentBlockingQueue` (`concurrent_blocking_queue.hpp`) | a `BlockingQueue`, `_queueMtx`, `_popCv`, `_pushCv`, `_discardCounter` | blocking, timed, trying and overwriting enqueues and dequeues, clear | notify after unlock, timeouts against wake-ups, spurious wake-ups, a dequeue that may run without the mutex | linearizable to the bounded FIFO; no lost wake-up; no item lost or doubled |
| `TaskPool`, `AsyncLoggerImpl` (`logging/src/internal/task_pool.cpp`, `loggers/internal/async_logger_impl.cpp`) | `_buffer`, `_threadPool`, the owners of the pool | log, flush, worker loop, shutdown in the destructor | shutdown against calls, several workers, a full queue while closing | every accepted request is carried out once; the pool is not used after its end; the shutdown ends |
| `Registry` (`logging/src/internal/registry.cpp`), `logging.h` | `_loggers`, `_rootLogger`, global level, flush level and formatter, `_rootTaskPool` | register, replace, remove, set_*_all, flush_all, initialize_logger, shutdown; log and settings of the root logger | keys that borrow a logger's name, the root logger against the map, raw pointers, two critical sections for one call | a lookup finds the logger last put under its name; global settings reach every registered logger; `flush_all` finds the pools |
| `LoggerImplBase`, `SyncLoggerImpl`, `AsyncLoggerImpl` | `_level`, `_flushLevel`, `_sinks` | should_log, log, flush, flush_on, set_formatter | a level or formatter that changes under a call, handles that go while tasks wait | a message reaches exactly the sinks whose level admits it; a flush reaches them |
| `SinkImplBase`, the plain sinks | `_sinkMtx`, `_level`, `_formatter`, a stream | log, flush, set_formatter, set_level | exceptions inside a sink | one failing sink does not stop the others |
| `RotatingFileSinkImpl`, `DailyFileSinkImpl` | `_fileQue`, `_nextIdx`, `_rotateTime`, `_fileTime`, the files on disk | log with rotation, init from a directory | rename and delete failures, wrap of the index, logs out of order, summer time, crash and restart | the newest files are kept, a rotation loses nothing, no log is dated before it was made |
| `FileWriterImpl` | `_stream`, `_currSize`, `_errcode` | open, reopen, close, write_line, flush | a size that is counted and not measured | the counted size is the file's |
| file system utilities (`utils/src/filsystem`) | the tree, the thread's last error | create, delete, copy, rename, write, read, queries; directories | a look that is stale when the act comes, acts that break off | true means done, false means harmless |
| date-time utilities | none | timestamps and local times | the change to and from summer time | a rotation falls on its day |
| C interface (`logging/src/c`) | handles | create, destroy, log, set | lifetimes, conversion of levels | a handle stays usable until it is destroyed |
| formatters, paths, process, thread, string utilities, debug logger | none worth modelling | text and queries | formats | agreement with a reference |

The hazards, each at its line and with the properties aimed at it, are listed
in `PROJECT.json`.

## 2. Plan

The order is that of the path of one log, from the structure that everything
else stands on to the edges.

| | Module | Composes or implements | State |
|---|---|---|---|
| 1 | `RingBuffer`, `BlockingQueue` | implements `BoundedFifo` | built, proved |
| 2 | `ConcurrentBlockingQueue` | extends `RingBuffer`, implements `BoundedFifo` | built; safety proved for the locked methods |
| 3 | `TaskPool` | over the bounded FIFO that 2 implements; implements `LogPipe` | built; safety and refinement proved |
| 4 | `RotatingFileSink` | over the writer; implements `LogWindow` | built; safety and refinement proved |
| 5 | `Registry` | loggers, root logger, global settings, the pool's owner | built; safety proved |
| 6 | `Loggers`, `CInterface` | levels, sinks, worker; the C functions over them | built; safety proved |
| 7 | `DailyFileSink` | over the writer, the date-time conversions | built; safety proved |
| 8 | `FileSystem` | what 4 and 7 call, for its own sake | built; safety proved |

What is left, in this order:

  - `format_time_buffer` against a reference definition over short patterns and
    small buffers.
  - the writer with a stream that is open and bad.

## 3. The modules

Names of actions and variables are those of the code, without the leading
underscore. Operators whose comment begins with "mutant" are slips that a
programmer could make; `PROJECT.json` pairs each with a property that finds it.
They are not part of any specification.

### `BoundedFifo`

A sequence of at most `Capacity` items: `Put`, `PutOver` (the oldest item makes
room), `Take`, `Drop`, `Read`, `Clear`. `Methods` says which of them an
implementation offers, so that a queue whose callers never overwrite is held to
a queue that cannot overwrite.

### `RingBuffer`, `BlockingQueue`

`RingBuffer` is the data of `blocking_queue.hpp` as a record (`items`, `head`,
`tail`, `overrun`) with one operator for each thing a method does to it, wrap
and spare slot included. `BlockingQueue` is a single owner who calls the
methods in any order; `ret` is what the last call answered. `MaxOverrun` bounds
the counter of overruns.

### `ConcurrentBlockingQueue`

`call[t]` is where thread `t` stands in which method. A call begins, takes or
tries `_queueMtx`, runs one body under it, and notifies after the unlock; a body
whose condition is false joins `popCv` or `pushCv` and comes back through the
lock by a notify, a timeout or a spurious wake-up. Bodies under the mutex are
one step. `dequeue` is different: it takes `std::try_to_lock` and goes on
whether or not it got the mutex. Without it, its accesses to the ring are steps
of their own, in program order: its own test for an empty queue (`UnownedTest`),
that of `BlockingQueue::dequeue`, whose answer is ignored (`UnownedRecheck`), the
read of the head and of its slot (`UnownedRead`), the slot left moved from
(`UnownedMove`), the head read again, or kept in a register (`Reread`), and
stored (`Advance`). A test reads both indices at once, a body of another thread
under the mutex is one step beside them, and a value is copied at once: the race
is modelled as the interleavings of these steps, not below them.

Further decisions: `dequeue_try` is absent because it calls a method that
`BlockingQueue` does not have and cannot be instantiated; `size`, `empty`,
`full` and `overrun_counter` are one action, `Observe`; the increment of
`_discardCounter`, which follows the unlock, is part of the body that refuses.
`handed`, `refused` and `dropped` are history: where each item has gone.

### `TaskPool`, `LogPipe`

The callers of `AsyncLoggerImpl::log_it` and `flush_it` become owners of the
pool for the length of the call (`Call`, `Enqueue`, `Release`), the registry is
an owner until `Reset`, and the owner that lets go last runs `~TaskPool`
(`SendShutdown`, `Join`). Workers dequeue a task and carry it out in two steps.
`_buffer` is the FIFO that module 2 implements: `enqueue_wait` is enabled when
there is space, `dequeue_wait` when there is a task. A call that finds no owner
left dereferences null, which ends the process (`crashed`). `LogPipe` is the
promise: each accepted request is carried out once, before the pipe closes, and
in the order of acceptance when the pool has one worker.

### `RotatingFileSink`, `LogWindow`

The file, the rotated files of the directory in the order of modification
times, the writer (`isOpen`, `currSize`), the sink (`nextIdx`, `fileQue`, the
two settings). A log that fits is one step; one that does not goes through
`BeginRotation` (next index, close), `Rename`, `Reopen`, `DeleteOldest` as often
as needed, and `EndRotation`, which writes it. Between any two of these the
process may crash and `set_max_files`, which does not take the mutex, may run.
`Rename`, `Reopen` and `DeleteOldest` may fail after their retries; the
code's consequences are kept: an index is used up by a rename that fails, a
queue entry is pushed although the reopen failed and popped although the
deletion failed, a stream that could not be opened drops every line.
`Start` is the constructor, which rebuilds the queue from the directory. What is
abstracted: the text of logs (a number and a size remain), names of files (an
index remains), retries (an operation succeeds or fails in the end), and torn
lines (a crash cuts the file at a line). `LogWindow` is the promise: the logs
kept are a window (a set of numbers), retention takes the oldest, a crash the
newest unsecured. `KeepsWindow` is that promise of the logs on disk that
retention has not given up (`Kept`), of which `Secured` survive a crash, and
that whoever reads the files by age reads them in order (`InOrder`).

### `DailyFileSink`

Time is counted in hours, `DayLength` to a day; `Summer` is the set of hours in
which local time is one ahead. A log is stamped when it is made (`Stamp`) and
reaches the sink later and in any order (`inbox`, `LogIt`). A log stamped after
`rotateTime` makes the steps of a rotation, as above, over a file whose name is
the day of `fileTime`, then `Advance` moves both times by whole days.
`LocalDay`, `DateTime`, `StandardTm` and `Timestamp` are the conversions of
`date_time_utils.cpp`: what makes a `tm` from a date-time always says that it
is not summer. `Start` is the constructor with either value of `overwrite`; it
sets the times from the clock (`FirstRotation`) and lists the directory
(`InitFileQueue`, which puts each day in the place after the days before it:
what the code's sort by time gives, in a form that a proof can use).

### `FileSystem`

The tree maps each path to nothing, a directory or a file with a text. An
operation is a call, whose look may settle it (`CreateFile`, `DeleteFile`, ...),
and one act or more (`OpenToCreate`, `RemoveFile`, `Copy`, `Rename`, `Write`,
...), between which the other thread goes on. What the operating system does
with the tree in an act is the external part: an act may be refused, a copy, a
write and a `remove_all` may break off, which is what `MaxFaults` counts. The
error that is left for the thread is the code that `ConvertSysEcToErrorCode`
makes of `errno`, in the category that the operation names. `Throw` is an
exception that leaves the function. The open of a stream, the write and the close
are one step (`Write`). It breaks off in two ways: the system refuses the bytes in
the write, which sets `errno` and answers false; or it refuses them only in
`close()`, when the stream has buffered them, which nobody asks: the answer is
then true, and `lost`, a history, says that the text is not there.

`Promise` says of each operation what its `true` means. Of `create_file` and
`write_text_file` that is less than the comments in the header say, because the
code does less: a file that `create_file` finds is left as it is
(`filesystem_utils.h:135` says it is truncated), and the text of a
`write_text_file` is in the file *unless* `close()` lost it
(`filesystem_utils.h:183` says true for a write that succeeded). `TrueIsDone`
without either exception does not hold.

### `Registry`

A critical section of `_loggerMapMtx` that touches only the registry is one
action; one that visits loggers (`set_level_all`, `flush_all`,
`initialize_logger`) holds `mutex` from action to action, because loggers are
also set by their owners, without it. An entry of the map remembers the logger
whose characters its key views: when that logger is gone, a lookup may find the
entry or not (`Found`). `Alive` is what `shared_ptr` keeps; a raw pointer does
not. A call that dereferences what is not there sets `fault` and ends the model.
A pool is owned by the registry (`pool`), by the application (`kept`, from
`create_task_pool` or `root_task_pool`) or by both; an asynchronous logger is
made over the root pool (`NewAsyncLogger`, `TakePool`) or over any pool that
lives (`NewAsyncLoggerOver`), and keeps a `weak_ptr`.
`governed`, `latest` and `exposed` are history: which settings the registry
wrote last; what a map would hold whose keys were its own, up to the first
change that meets a key whose owner is gone; and which asynchronous loggers came
into the map without their pool, or over the root pool in the middle of a
shutdown, or lost their pool because the application, its last owner, let it
go. The functions of `logging.h` and `logging_c.h` over the registry are
`RootCall`, `ManagerCall` and `CManagerCall`; `log` of `logging.h` and every C
function hold a `shared_ptr` to the end of the statement, the other C++
functions do not.

### `Loggers`, `CInterface`

A message is made (`ForceLog`), asked for at each sink (`AskSink`) and written
(`WriteSink`) in steps of their own, in the caller or, for an asynchronous
logger, in the worker behind a bounded queue; then the caller of a synchronous
logger may go on to a flush (`EndLog`, `FlushSink`). Levels are read when the
code reads them. A formatter may throw, which `SinkImplBase::log` keeps.
Objects live as long as a handle, a logger, a task or a call refers to them;
the last owner of the pool joins the worker, a stream whose sink is gone was
closed and flushed. History: `msgs` records, for each message, which sinks
admitted it all the while, which refused its level all the while and whose
formatters threw all the while, however the settings changed during the log.
`CInterface` adds the C functions: handles, and the
conversion of levels, in which TRACE has no case and becomes OFF. Some threads
call C, the others C++.

## 4. The runs

| Run | What is on | What it shows |
|---|---|---|
| `ring` | capacity 3, two items, every method, deadlock checked | live slots, `BoundedFifo`, the answers |
| `QueueBlocking` | two producers in `enqueue_wait`, a consumer in `dequeue_wait` and one in `dequeue_wait_for`, one place | no lost wake-up on either side, also when the notify meets a consumer that gives up, no call sleeps beside what it waits for |
| `QueueTimed` | producers with deadlines, `enqueue_try`, `enqueue_overrun`, a consumer with deadlines, one place | a timeout that races a wake-up neither loses nor doubles an item, the calls are linearizable, timed calls end |
| `QueuePolling` | two producers, one consumer that polls with `dequeue`, `clear`, `size` | a single consumer gets each item once, in order, in spite of the unlocked `dequeue` |
| `PoolOneWorker` | two producers, the default of one worker | a flush covers the logs before it; `LogPipe` in order |
| `PoolWorkers` | two producers, two workers, capacity 2, shutdown | no use after the end, nothing behind a SHUTDOWN task, one SHUTDOWN for each worker, the pool closes, every accepted request is carried out |
| `RotateFaults` | one fault of any kind, one crash, indices that wrap | the queue lists the directory, every log is somewhere, the cached size is right, oldest first, at most `maxFiles`, rotations end, `LogWindow` |
| `DailyRotation` | three logs that may come late, three days, the end of summer, one fault, one crash, `overwrite` | every log is somewhere, none is filed under a period that was over, oldest first |
| `FileCalls` | one operation beside two, a directory and two entries, one fault | true has done what `Promise` says, false is harmless |
| `RegistryCalls` | two threads, three loggers of two names, a task pool of the registry or the application, a shutdown beside settings for all, logs, initialisation and `flush_all` | lookups that find the latest logger, settings that reach all, pools that are there |
| `LogPath` | a C and a C++ thread, two loggers, two sinks, a formatter that throws | messages where the levels say, flush levels secure, flushes reach |

One run ends in a violation, on purpose, and is the finding of `PROJECT.json`:
`QueueRacingDequeue`, where two consumers in `dequeue`, one of them without the
mutex, return the same item.

### What else the models show of the code

TLC refutes the following with a small change of a configuration above, or a
stronger property; none is a run of its own.

  - *Queue.* `dequeue` and `clear` never notify `_pushCv`, so that an
    `enqueue_wait` sleeps beside free space, though its comment
    (`concurrent_blocking_queue.hpp:92`) says that it blocks until there is
    space (`EnqueueWaitEnds` with one producer in `enqueue_wait` and one
    consumer in `dequeue`).
  - *Pool.* With several workers a flush is carried out before a log that was
    accepted earlier (`FlushCovers` with two workers);
    `test_async_logger.cpp:161` flushes on a pool of four and expects every log
    on disk.
  - *Rotating sink.* With `maxFiles` at its greatest legal value there are as
    many indices as retained files; after the wrap the newest file is deleted,
    at every rotation (`OldestGoesFirst` with `MaxIndex` = `Retained` = 2). The
    limit ignores the line feed, so that a file can reach `maxFileSize + 1`. A
    reopen that fails after a rename that succeeded leaves the sink dropping
    every log of ordinary size (`lost` grows).
  - *Daily sink.* With a rotation at the last hour of the day and the end of
    summer between two rotations, both get the same date and the first file is
    replaced (`NoLogVanishes` with `Hours = {2}`). A start with another hour
    than the last one can do the same. The base class opens, and with
    `overwrite` truncates, the file before the hour is checked. Files that are
    dated ahead of the clock at the first start are not listed, so that
    retention passes them by (`OldestGoesFirst` with `Existing = {2, 3}`,
    `Hours = {0}`, `Retained = {1}` and `LastHour` 21).
  - *Registry.* `set_pattern_all` locks its mutex twice. Functions that go
    through `root_logger_raw` can meet a logger that is gone, or null after a
    shutdown (`fault = "none"` as an invariant). A shutdown between the two looks
    of an asynchronous logger's constructor leaves it without a pool. A logger
    over a pool of the application keeps its place in the map when the
    application drops the pool, and `flush_all` then goes through a null pointer
    (`FlushAllFindsPools` without `exposed`). When a replaced logger is destroyed,
    the key that views its name dangles, and a lookup may miss the entry or the
    next registration may add a second one (`NamesFindLatest` without its
    condition).
  - *Loggers.* `flush_on` has no effect on an asynchronous logger. Two
    concurrent `set_formatter` calls can leave the sinks of one logger with
    different formatters. `origin_logger_log` does not ask the logger's level.
    TRACE becomes OFF on its way through the C interface.
    `origin_create_rotating_file_sink` constructs a daily sink.
  - *File system.* `rename_file` with `overwrite` false replaces a file that
    appears after the look. `delete_file` answers false when another thread was
    faster. `get_file_size` answers `uintmax_t(-1)`, and `get_file_info` and
    `read_binary_file` throw, when the file goes after the look;
    `read_text_file` throws on a directory. `write_text_file` answers true
    though `close()` failed. `create_file` leaves an existing file alone, though
    its header (`filesystem_utils.h:135`) says that it is truncated.

### Bounds, and why they are enough

  - *Queues.* One or two places make full, empty and the wrap of the ring
    (two or three slots) ordinary events; the ring on its own has four slots, so
    that contents wrap at each offset. Two threads on a side are what a
    `notify_one` that wakes the wrong thread needs; a second item from a
    producer is what order within a producer needs (`MaxSent`, 2).
  - *Pool.* Two calls for each of two producers with capacity 2 let a queue be
    full when the SHUTDOWN tasks come, let a request wait behind a held task, and
    let a producer be the last owner. `MaxCalls` bounds the calls.
  - *Rotating sink.* `MaxIndex` 7 with a file of index 6 found at the first start
    makes the indices wrap at once, also across the restart. Four logs of sizes 1
    and 3 with limits 3 and 5 give files of one, two and more lines. One fault
    and one crash, anywhere, reach each error path of the code and each pair of
    a fault and a restart; more of them add files to the directory and skip
    indices, until none is free: `maxFiles`, faults and crashes together must
    stay below `MaxIndex`, which in the code is 20000.
    `MaxLogs`, `MaxFaults`, `MaxCrashes` are the bounds. The model does not let
    a file whose deletion failed survive a whole cycle of the indices and a
    restart: then its name is met again, as with `maxFiles` at its greatest.
  - *Daily sink.* Days of three hours and ten hours of clock (`LastHour`) give
    two rotations, a day without a log and a log that is late by a day. One
    retained file and one file found at the start make retention delete in the
    first rotations.
  - *File system.* Two threads: one call in the middle of which any two others
    may come is what a stale look needs. A directory that may be missing, an
    entry that may be a file or a directory, and a second file are the
    arguments that the branches of the code tell apart. `MaxCalls` and
    `MaxFaults` are the bounds.
  - *Registry.* A logger of the root's name, and a synchronous and an
    asynchronous logger that share another, give every kind of replacement, and
    keys that outlive their owners. The calls of several steps are divided
    between the threads (`Roles`), those on the map in one step are open to all.
    One of the three settings stands for all in this run, because the code
    treats them alike and none looks at another. `MaxPools` 1 lets one pool come
    and go, in the hands of the registry, of the application or of both; a root
    pool *beside* one of the application is left to the proof. With `MaxHeld` 1
    the application keeps one of the three loggers at a time, besides those in
    calls (with 2 the same properties hold).
  - *Loggers.* Two messages are what two executors at the same sink, and a
    queue of one place that is full, need. One change of a setting and one flush
    (`MaxSets`, `MaxFlushes`) come at any step of any message.

`CHECK_DEADLOCK FALSE` stands where the system really may stop: consumers sleep
for ever once nobody produces, a closed pool is an end, a sink, a thread or a
logger is idle once the bound on its calls is reached, and a fault of the
registry ends its model. The ring never stops and is checked for deadlock.

The settings of `RegistryCalls` are symmetric in their two values: no property
and no action names one, and the run has no liveness property.

### Fairness

Nobody is obliged to call anything; only what has begun goes on.

  - *Queue.* Weak fairness of the steps of a thread inside a call. Strong fairness
    of `Lock`: a mutex that becomes free again and again is granted, which the
    scheduling of `std::mutex` gives in practice and without which no property
    of a blocking queue holds. Strong fairness of `Timeout`: `wait_for` computes
    an absolute deadline, so that waking and sleeping again does not postpone it.
  - *Pool.* Weak fairness of a producer inside a call, of each worker and of the
    thread in `~TaskPool`.
  - *Rotating sink.* Weak fairness of the thread that holds the mutex in a
    rotation.
  - *Loggers.* Weak fairness of each thread inside a call and of the worker: each
    waits only for space in the queue, for a task, or, in a join, for the worker
    to be done, and none of these is taken away by another thread for ever with
    a bounded number of messages.
  - *Registry, daily sink, file system.* Safety only; no fairness is assumed.

## 5. The proofs

For all values of the constants that satisfy the named assumptions
(`RingAssumption`, `MaxOverrunAssumption`, `PoolAssumption`, `ThreadAssumption`,
the assumptions of `Registry`, `LoggersAssumption`, `CAssumption`, `TreeAssumption`,
`SinkAssumption`, `DailyAssumption`). The invariants of the two file sinks were
checked by TLC, on the instances of their runs, before they were proved.

`BlockingQueue_proof` begins with the lemmas about the ring. The arithmetic of `%` is met
once, in `ModSmall`, `ModWrap` and `NthValue`; everything later speaks of the
next slot and of the value at a position. `PutAppends`, `TakeRemovesHead`,
`PutOverrunContents` and `ClearedEmpty` say what each operator does to
`Contents`. `ConcurrentBlockingQueue_proof` takes them over by an instance
(`OneThread`), because the two queues have variables of the same names;
`SameRing` says that the operators of both are the same.

The invariant of `BlockingQueue` is `TypeOK` and that the contents are a
sequence of items. The second part is needed because slots outside the window
keep moved-from and stale values, so that `TypeOK` alone does not say that a
reader gets an item; `LiveSlots` is the same fact slot by slot. One lemma,
`StepIInv`, shows for each method at once that the invariant is kept and that
the step is one of `BoundedFifo`. Results: `TypeCorrect`, `OnlyLiveSlots`,
`Refinement`, `AnswersAgree`.

`TaskPool_proof`: the invariant `IInv` joins the types with who may own the pool
(`Owners`: a producer owns it exactly while it is inside a call), when it is open
(`OpenHeld`: exactly as long as somebody owns it; `OpenQuiet`: no SHUTDOWN task
exists while it is), and the state of the queue while it closes
(`OnlyShutdowns`, `ShutdownPerWorker`, `NothingBehindShutdown`, `ClosedEmpty`). The ownership part is what makes
the rest inductive: without it a producer could enqueue behind the first
SHUTDOWN task. Results: `TypeCorrect`, `NeverUsedAfterDestroy`,
`ShutdownComesLast`, `OneShutdownEach`. Counting SHUTDOWN tasks in a queue
rests on `MarksFinite`, `MarksAppend` and `MarksTail`, about the cardinality of
the set of their places.

The second half of `TaskPool_proof`: that `TaskPool` implements `LogPipe`, and that with one worker a
flush comes after the logs before it (`FlushComesAfter`, under `Ordered`, which
is that there is one worker: with two it is false, see section 4). The
invariant `PipeInv` adds to `IInv` where each accepted request is: in the queue,
in a worker's hands or carried out (`Conserved`), in one of these only
(`OnePlace`), numbered in the order of acceptance (`Numbered`, `AcceptedOnce`),
and, with one worker, with the carried out, the held and the queued requests in
that order (`InOrder`). The end of `Join` maps to the
closing of the pipe, which requires that everything has been carried out: that
follows from `ClosedEmpty` and from every worker being gone.

`ConcurrentBlockingQueue_proof`: all six theorems are for any number of threads
in any mix of methods under the hypothesis `LockedOnly`, that no thread calls
`dequeue(T&)` (none of the library's callers does). It is needed: with that method, which may run without the mutex,
`QueueRacingDequeue` shows an item handed out twice. `NoPushIsLost` assumes
`NoClear` too, because `clear` makes space and notifies nobody. The invariant
has the types and what the mutex protects (`Control`: `Locked`, that the holder
is where its call says; `Calling`, which frames a method can have; `Sleeping`,
that who waits in a condition variable is in a waiting call of that side;
`Filled`, that the slots of the ring hold items), the place of each item
(`Account`), their order
(`InOrder`: the items handed out followed by the contents of the ring are a
chain in which each producer's items ascend) and that a refused item is one
whose call is over (`DiscardsRefused`). `EveryItemAccounted`,
`ProducerOrderKept` and `TypeCorrect` follow from it; `LockedMethodsAreFifo` uses
the lemmas about the ring for the one step of each call that takes effect,
all the others being stutters. The two theorems on wake-ups count: `PopCovered`
says that when a consumer sleeps, the items in the queue are at most the
notifies still owed plus the consumers that are awake and will look, and each
method's body keeps this balance.

`RotatingFileSink_proof`: for any limits, settings, sizes of logs, faults and
crashes. `TypeCorrect` and `SizeAlwaysKnown` hold whatever the indices do: the
stream is open only when the file is there (`StreamInv`), and every step that
writes to one counts it in the other. The size of a file is a recursive function
over its lines, so that `SizeAlwaysKnown` rests on `BytesAppend` and its like,
which come from an induction over the lines (`SetInduction`, see below).

The other properties need that the index of a rotation is not that of a file
still listed: `TargetFresh`, which TLC shows to hold in `RotateFaults`. Without
it a rename replaces a listed file and the queue has one name twice, which is
what section 4 says of `maxFiles` at its greatest. From it follow
`QueueFollowsDisk`, `NothingVanishes`, `OldestFirst`, `RetentionBounds` and
`WindowKept`. Their invariant `IInv` says what the queue lists at *every* step:
`Known` is `fileQue`, between rename and reopen the target too, and while no
process runs what the next one will find. `Distinct` is that no two files have
an index in common; `NewestLast` and `InOrder` place the logs, oldest file first
and the waiting log after all; `GivenUp` says that retention gives up whole
files, of which one is listed again only after a crash; `LossExplained` that
the stream of a running sink is closed only after a fault. The property
`QueueTracksDisk` alone is not inductive: it says nothing between the rename and
the reopen, nor while the process is down. `WindowKept` maps each step to one of
`LogWindow`: a write to an open stream adds, a flush or a close secures, a
deletion drops the oldest, a crash drops what is not secured, and a rename moves
logs without changing the window.

`IndicesSuffice` discharges `TargetFresh` under `EnoughIndices`: with `n` the most
files retained, `n + 1 + MaxCrashes + MaxFaults < MaxIndex`. The invariant
`SpaceInv` measures how far each listed index lies behind the next one
(`Gap`, around the wrap): the newest by at most one more than the renames that
failed since, an older one further, none by a whole turn. A rename that fails
uses an index up; a crash in the middle of a rotation leaves one file more than
retention allows. `EnoughIndices` also excludes a deletion that fails together
with a crash: the file stays on disk while the indices go round, is found again
by the restart, and may have any index, the next one included. (`RotateFaults`
has both, and too few rotations for the indices to come round to it, so that
`TargetFresh` holds there for another reason.) In the code `MaxIndex` is 20000. The
bound is a cautious one: it counts the faults and crashes of the whole behaviour,
as if none of them were forgotten when the indices come round.
`SinkKeepsPromises` puts the two together.

`DailyFileSink_proof`: for any length of the day, any hours of rotation and of
summer, any logs, faults and crashes. The arithmetic of `\div` and `%` by a length
that is a parameter is met once, in `DivIs`, `DivMonotone` and `DaysGrow`;
what follows speaks of the times of rotation, of which the k-th is
`Timestamp(k, hour)`. `FirstRotationIs` and `NextRotationIs` say that the
constructor and the loop of `log_it` always arrive at one of them, not before the
clock or the log; `DayRange` that its file has the name of day `k` or of the next.
The invariant `Base` has the types, that `_rotateTime` and `_fileTime` are two
times of rotation in succession (`TimesInv`), that the stream is closed while the
file is replaced (`StreamInv`), and that the file has no log that is due in the
next rotation, while the log that waits is (`StampsInv`). Results:

  - `TypeCorrect` and `NeverDatedEarly`, with no further hypothesis.
  - `OldestDayFirst`, if `Existing` has only days that are over when the clock
    starts, which a clock that is never set back gives; section 4 shows what
    comes of the others. `DatedInv` says which rotation each file comes from
    (`CameFrom`): a past one, before that of `_fileTime` while none is in
    progress. So a start finds every file not newer than `_fileTime`
    (`StartListsAll`) and `QueueInv` holds: the queue ascends, up to the day of
    the next rotation, and has every file but those that could not be deleted.
    `SortedSorts`, by the cardinalities of the sets of smaller days, says that
    the listing sorts.
  - `NothingVanishes`, under `DaysApart`: no two rotations of one hour fall on
    the same day. Then the file that a rename replaces comes from no earlier
    rotation, and is empty or was given up (`NothingReplaced`).
    `EarlyHoursSuffice` derives `DaysApart` from the hour: any but the last of
    the day, whatever the hours of summer. For the last hour it is false, which
    section 4 shows too.

`Registry_proof`: the invariant says who holds the mutex of the map
(`HoldsMap`: exactly the one thread that is in a call of several critical steps),
that what such a call still has to visit is in the map (`TodoWithin`), that the
global settings it spreads are the current ones (`SpreadsGlobal`), that a
governed logger is listed (`GovernedListed`) and has followed or is still to be
visited (`Following`), that a logger that was in the map in time has its
pool or is known to be exposed (`ServedOrExposed`), and that as long as no change
of the map has met a key whose owner is gone, the map has one entry for a name,
with the logger put there last (`MapKept`). Without `Following`, the theorem
`SettingsFollow` is not inductive: between two loggers of a `set_level_all` it is
false, and only the list of loggers still to visit tells that it will be true
again when the mutex is released. Results: `TypeCorrect`, `LookupsFindLatest`,
`SettingsFollow`, `FlushAllServed`. Of two hazards nothing is stated. That `log`
and the C functions hold the logger they use would only restate the definition of
`Alive`, which counts the logger of such a call among the living; and
`set_pattern_all` locks twice in every call of it.

`CInterface_proof`: `LevelsAreObeyed` and `FlushLevelObeyed`, for any number of
threads, loggers over any sinks, messages, settings and flushes. The hypothesis
`NoSinkTwice` is about the program's wiring: a logger that is given the same
sink twice writes to it twice. The invariant follows one message from hand to
hand: `OneHand` (it is with the thread that logs it, in the queue, with the
worker, or over, and in one of these only), `SendRight` and `TaskRight` (no sink
has it before a loop over the sinks begins), `LogRight` (the sinks passed have
obeyed, no other has it), `FlushRight` (all have obeyed; those passed buffer
nothing of it), `DoneRight` (so it stays), beside `HistoryNow` (what the history
says of a log that is not over is true of the settings now) and `LinesOnce`.
`Calm` is what one step may do to a message that is in other hands; `MoveKeeps`
and `SetKeeps` show once that a calm step keeps everything, and each action
then only has its own message to argue about.

The attempt to prove `LevelsAreObeyed` corrected the property. It used to say
that a sink has nothing of a message that it would have written at no instant
of the log. With one setting per run that holds; with three it does not: a sink
whose formatter throws is asked for its level and admits, the level is then set
to OFF, the formatter is replaced, and the sink writes, though at each instant
one of the two stood in the way. That is what the code does, since it asks for
the level before it formats, and no fault of it; the property now speaks of
sinks that refused the level all the while and of formatters that threw all the
while. (`LogPath` with `MaxSets` 3, `MaxMsgs` 1, `MaxFlushes` 0 shows both.)

`FileSystem_proof`: `FalseChangesNothing` and `TrueKeepsItsPromise`, for any tree of
paths and any number of threads, calls and failing acts. The invariant says of
a call in progress that it is at a step of its own operation (`Kinds`), and that
a `create_file`, `delete_file` or `rename_file` has not touched the tree yet
(`Underway`), which is what makes their `false` harmless. Every step of a thread
is `Fine`: it goes on to such a call, or ends with an answer that is `Honest`
and, if it is true, keeps its promise in the tree of that moment. `FineKeeps`
shows once that a fine step keeps the invariant; then there is a lemma for each
look and each act, by the cases of what the entry turns out to be. What each
operation promises is in `Promise`, with the two exceptions that section 3 names;
for those that only read it is nothing, so that the theorems say of them only that
a `false` has a reason.

What is left to TLC, and why:

  - liveness (`EnqueueWaitEnds` and its like, `PoolCloses`, rotations that end,
    `FlushReaches`): it needs fairness and `ENABLED`, which the prover does not
    handle;
  - what a recursive definition computes in general. The induction theorems of the
    library have an operator for a parameter, which the provers cannot
    instantiate. `SetInduction` of `RotatingFileSink_proof` stands in for them
    where one is needed: it is an induction over a *set* of numbers, which
    follows from `WFMin` and the well-foundedness of `<`, and each use of it
    names the set for which the claim holds.

## 6. What is not modelled

  - Object lifetimes inside a slot (`emplace_back` constructs over a live
    object; `clear` and `dequeue()` leave the old values where they are), and
    `at` and `operator[]` of the concurrent queue, which return a reference that
    the caller uses after the unlock.
  - `dequeue_try` of the concurrent queue, and the templates of `logging.h` at
    74, 93 and 99, which call a `log` or `trace` that `Logger` does not have:
    they do not compile when instantiated.
  - Failure to start a thread of the pool, which ends the process.
  - Write errors on an open stream (`badbit`), a clock that is set back, a daily
    sink that is started with another hour, and the differences of Windows.
  - In the file system: links, devices, sockets and permissions; that
    `get_entry_type` asks the system twice; directory listings; the binary read.
  - Handles of formatters, and the file, rotating and daily sinks behind a C
    handle, beyond their creation.
  - Text: formatters, `format_time_buffer`, paths, level names; process, thread
    and string queries; the debug logger and the working environment. They have
    no state, or are pure output. Of `format_time_buffer`: an unknown conversion
    loses its letter, though the header (`date_time_utils.h:164`) says that a
    format error returns 0.
