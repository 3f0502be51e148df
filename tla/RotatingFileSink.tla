--------------------------- MODULE RotatingFileSink --------------------------
(***************************************************************************)
(* origin::logging::RotatingFileSink: one file that is renamed to          *)
(* "<file>.<index>" when a log would exceed its limit, over the FileWriter *)
(* that writes it (rotating_file_sink_impl.cpp,                            *)
(* rotating_file_sink_impl_base.cpp, file_writer_impl.cpp).  A log holds   *)
(* the sink's mutex from its first step to its last; a crash, set_max_files*)
(* and a fault of the file system fall between any two of them.            *)
(*                                                                         *)
(* A rotated file keeps the time of its last write, and two opens are at   *)
(* least FILE_OPEN_INTERVAL_MS apart: the files' modification times are in *)
(* the order of their rotation (a clock that is set back is excluded).     *)
(***************************************************************************)
EXTENDS Integers, Sequences, FiniteSets, SequencesExt

CONSTANTS
    MaxIndex,   \* RotatingFileSink::MAX_INDEX, which is MAX_FILES too
    Limits,     \* the values given to maxFileSize
    Retained,   \* the values given to maxFiles
    LineSizes,  \* the sizes of formatted logs
    Existing,   \* the indices that a rotated file may have before the first start
    NoFile,     \* the file does not exist
    NoLog,      \* no log waits for a rotation
    Faulty,     \* the operations of the file system that may fail
    MaxLogs, MaxFaults, MaxCrashes  \* bounds

MinIndex == 1
LF == 1  \* LF_LENGTH
Index == MinIndex..MaxIndex
Line == [n : 1..MaxLogs, size : LineSizes]
RotatedFile == [idx : Index, lines : Seq(Line)]

ASSUME SinkAssumption ==
    /\ MaxIndex \in Nat \ {0}
    /\ Limits \subseteq Nat \ {0}
    /\ Retained \subseteq 0..MaxIndex
    /\ LineSizes \subseteq Nat
    /\ Existing \subseteq Index
    /\ Faulty \subseteq {"rename", "open", "delete"}
    /\ MaxLogs \in Nat /\ MaxFaults \in Nat /\ MaxCrashes \in Nat
    /\ NoLog \notin Line /\ NoFile \notin Seq(Line)

VARIABLES
    file,         \* the lines of _file, or NoFile
    synced,       \* how many of its lines have left the stream's buffer
    rotated,      \* the rotated files of the directory, by modification time
    isOpen,       \* _stream.is_open()
    currSize,     \* _currSize
    nextIdx,      \* _nextIdx
    fileQue,      \* _fileQue, the indices of its files
    maxFileSize,  \* _maxFileSize
    maxFiles,     \* _maxFiles
    pc,           \* the step at which the holder of the mutex stands
    target,       \* the index in the newFile of rotate
    pending,      \* the log that waits for the rotation
    count,        \* history: how many logs were made
    lost,         \* history: logs dropped by a closed stream or a crash
    retired,      \* history: logs in files that retention gave up
    undeleted,    \* history: files given up and not deleted
    faults, crashes  \* how many have happened

disk == <<file, synced, rotated>>
writer == <<isOpen, currSize>>
queue == <<nextIdx, fileQue>>
settings == <<maxFileSize, maxFiles>>
control == <<pc, target, pending>>
history == <<count, lost, retired, undeleted>>
environment == <<faults, crashes>>
vars == <<disk, writer, queue, settings, control, history, environment>>

\* "rename", "truncate" and "append" (the two reopens) and "delete" are the
\* steps of rotate; "opened" is a constructor that is to rotate
Steps == {"down", "opened", "idle", "rename", "truncate", "append", "delete"}

Bytes(lines) ==
    IF lines = NoFile
    THEN 0
    ELSE LET bytes[i \in 0..Len(lines)] ==
                 IF i = 0 THEN 0 ELSE bytes[i - 1] + lines[i].size + LF
         IN  bytes[Len(lines)]
Numbers(lines) == IF lines = NoFile THEN {} ELSE {lines[i].n : i \in DOMAIN lines}
Indices(files) == [i \in DOMAIN files |-> files[i].idx]
LinesOf(files) == UNION {Numbers(files[i].lines) : i \in DOMAIN files}
\* the place of the file of this index in the directory, if there is one
Places(idx) == {i \in DOMAIN rotated : rotated[i].idx = idx}
LinesCalled(idx) == UNION {Numbers(rotated[i].lines) : i \in Places(idx)}
Others(idx) ==
    IF Places(idx) = {} THEN rotated ELSE RemoveAt(rotated, CHOOSE i \in Places(idx) : TRUE)

\* get_next_idx and set_next_idx
Successor(idx) == IF idx >= MaxIndex THEN MinIndex ELSE idx + 1

\* FileWriterImpl::size
Size == IF isOpen THEN currSize ELSE Bytes(file)

\* an operation of this kind fails, in all of its retries
Fault(kind) == kind \in Faulty /\ faults < MaxFaults /\ faults' = faults + 1

Init ==
    /\ file = NoFile /\ synced = 0
    /\ rotated \in {<<>>} \cup {<<[idx |-> idx, lines |-> <<>>]>> : idx \in Existing}
    /\ isOpen = FALSE /\ currSize = 0
    /\ nextIdx = MinIndex /\ fileQue = <<>>
    /\ maxFileSize \in Limits /\ maxFiles \in Retained
    /\ pc = "down" /\ target = MinIndex /\ pending = NoLog
    /\ count = 0 /\ lost = {} /\ retired = {} /\ undeleted = {}
    /\ faults = 0 /\ crashes = 0

\* mutant: the line is counted only when it is flushed
WriteUncounted(line) ==
    IF isOpen
    THEN /\ file' = Append(file, line)
         /\ UNCHANGED <<currSize, lost>>
    ELSE /\ lost' = lost \cup {line.n}
         /\ UNCHANGED <<file, currSize>>
\* FileWriterImpl::write_line: a closed stream drops the line
Write(line) ==
    IF isOpen
    THEN /\ file' = Append(file, line)
         /\ currSize' = currSize + line.size + LF
         /\ UNCHANGED lost
    ELSE /\ lost' = lost \cup {line.n}
         /\ UNCHANGED <<file, currSize>>

\* get_next_file, and rotate as far as _fileWriter.close()
BeginRotation ==
    /\ target' = nextIdx
    /\ nextIdx' = Successor(nextIdx)
    /\ isOpen' = FALSE
    /\ currSize' = 0
    /\ synced' = IF file = NoFile THEN 0 ELSE Len(file)
    /\ pc' = "rename"
    /\ UNCHANGED <<file, rotated, fileQue>>

\* RotatingFileSinkImpl::log_it
Log(size) ==
    /\ pc = "idle"
    /\ count < MaxLogs
    /\ count' = count + 1
    /\ LET line == [n |-> count + 1, size |-> size]
       IN  IF size + Size > maxFileSize
           THEN BeginRotation /\ pending' = line /\ UNCHANGED lost
           ELSE Write(line) /\ UNCHANGED <<synced, rotated, isOpen, queue, control>>
    /\ UNCHANGED <<settings, retired, undeleted, environment>>

\* The constructor with rotateOnOpen
RotateOnOpen ==
    /\ pc = "opened"
    /\ BeginRotation
    /\ UNCHANGED <<pending, settings, history, environment>>

\* mutant: a file that cannot be renamed is truncated as if it had been
RenameUnchecked ==
    /\ pc = "rename"
    /\ \/ /\ file # NoFile
          /\ rotated' = Append(Others(target), [idx |-> target, lines |-> file])
          /\ file' = NoFile /\ synced' = 0
          /\ retired' = IF target \in undeleted THEN retired \cup LinesCalled(target) ELSE retired
          /\ undeleted' = undeleted \ {target}
          /\ pc' = "truncate"
          /\ UNCHANGED faults
       \/ /\ (file = NoFile /\ UNCHANGED faults) \/ Fault("rename")
          /\ pc' = "truncate"
          /\ UNCHANGED <<disk, retired, undeleted>>
    /\ UNCHANGED <<writer, queue, settings, target, pending, count, lost, crashes>>

\* rename_file, with its retries: newFile is replaced if it exists
Rename ==
    /\ pc = "rename"
    /\ \/ /\ file # NoFile
          /\ rotated' = Append(Others(target), [idx |-> target, lines |-> file])
          /\ file' = NoFile /\ synced' = 0
          /\ retired' = IF target \in undeleted THEN retired \cup LinesCalled(target) ELSE retired
          /\ undeleted' = undeleted \ {target}
          /\ pc' = "truncate"
          /\ UNCHANGED faults
       \/ /\ (file = NoFile /\ UNCHANGED faults) \/ Fault("rename")
          /\ pc' = "append"
          /\ UNCHANGED <<disk, retired, undeleted>>
    /\ UNCHANGED <<writer, queue, settings, target, pending, count, lost, crashes>>

\* mutant: the size of a file that is opened again is taken to be 0
ReopenFromZero ==
    /\ pc \in {"truncate", "append"}
    /\ \/ /\ isOpen' = TRUE
          /\ file' = IF pc = "truncate" \/ file = NoFile THEN <<>> ELSE file
          /\ synced' = Len(file')
          /\ currSize' = 0
          /\ UNCHANGED faults
       \/ Fault("open") /\ UNCHANGED <<isOpen, file, synced, currSize>>
    /\ fileQue' = IF pc = "truncate" THEN Append(fileQue, target) ELSE fileQue
    /\ pc' = "delete"
    /\ UNCHANGED <<rotated, nextIdx, settings, target, pending, history, crashes>>

\* _fileWriter.reopen, and push_back_file whether or not the file could be opened
Reopen ==
    /\ pc \in {"truncate", "append"}
    /\ \/ /\ isOpen' = TRUE
          /\ file' = IF pc = "truncate" \/ file = NoFile THEN <<>> ELSE file
          /\ synced' = Len(file')
          /\ currSize' = Bytes(file')
          /\ UNCHANGED faults
       \/ Fault("open") /\ UNCHANGED <<isOpen, file, synced, currSize>>
    /\ fileQue' = IF pc = "truncate" THEN Append(fileQue, target) ELSE fileQue
    /\ pc' = "delete"
    /\ UNCHANGED <<rotated, nextIdx, settings, target, pending, history, crashes>>

\* mutant: a file that cannot be deleted goes to the end of the queue
DeleteLater ==
    /\ pc = "delete"
    /\ Len(fileQue) > maxFiles
    /\ LET idx == Head(fileQue)
       IN  \/ /\ rotated' = Others(idx)
              /\ retired' = retired \cup LinesCalled(idx)
              /\ fileQue' = Tail(fileQue)
           \/ /\ Places(idx) # {}
              /\ fileQue' = Append(Tail(fileQue), idx)
              /\ UNCHANGED <<rotated, retired>>
    /\ UNCHANGED <<file, synced, writer, nextIdx, settings, control, count, lost, undeleted, environment>>

\* mutant: the newest file is deleted
DeleteNewest ==
    /\ pc = "delete"
    /\ Len(fileQue) > maxFiles
    /\ LET idx == Last(fileQue)
       IN  /\ retired' = retired \cup LinesCalled(idx)
           /\ rotated' = Others(idx)
    /\ fileQue' = Front(fileQue)
    /\ UNCHANGED <<file, synced, writer, nextIdx, settings, control, count, lost, undeleted, environment>>

\* delete_overflow_file, one turn of its loop: the file leaves _fileQue even if
\* it cannot be deleted; a file that is not there counts as deleted
DeleteOldest ==
    /\ pc = "delete"
    /\ Len(fileQue) > maxFiles
    /\ LET idx == Head(fileQue)
       IN  /\ retired' = retired \cup LinesCalled(idx)
           /\ \/ rotated' = Others(idx) /\ UNCHANGED <<undeleted, faults>>
              \/ /\ Places(idx) # {}
                 /\ Fault("delete")
                 /\ undeleted' = undeleted \cup {idx}
                 /\ UNCHANGED rotated
    /\ fileQue' = Tail(fileQue)
    /\ UNCHANGED <<file, synced, writer, nextIdx, settings, control, count, lost, crashes>>

\* mutant: the loop deletes at most one file
EndRotationEarly ==
    /\ pc = "delete"
    /\ pc' = "idle"
    /\ pending' = NoLog
    /\ IF pending = NoLog THEN UNCHANGED <<file, currSize, lost>> ELSE Write(pending)
    /\ UNCHANGED <<synced, rotated, isOpen, queue, settings, target, count, retired, undeleted, environment>>

\* the end of rotate and, when a log caused it, of log_it
EndRotation ==
    /\ pc = "delete"
    /\ Len(fileQue) <= maxFiles
    /\ pc' = "idle"
    /\ pending' = NoLog
    /\ IF pending = NoLog THEN UNCHANGED <<file, currSize, lost>> ELSE Write(pending)
    /\ UNCHANGED <<synced, rotated, isOpen, queue, settings, target, count, retired, undeleted, environment>>

\* flush_it: FileWriterImpl::flush, which takes the size from the stream
Flush ==
    /\ pc = "idle"
    /\ isOpen
    /\ synced' = Len(file)
    /\ currSize' = Bytes(file)
    /\ UNCHANGED <<file, rotated, isOpen, queue, settings, control, history, environment>>

\* set_max_file_size, under the mutex; set_max_files, which does not take it
\* and may come in the middle of a log (but not of the constructor)
SetMaxFileSize(limit) ==
    /\ pc = "idle"
    /\ maxFileSize' = limit
    /\ UNCHANGED <<disk, writer, queue, maxFiles, control, history, environment>>
SetMaxFiles(n) ==
    /\ pc = "idle" \/ pending # NoLog
    /\ maxFiles' = n
    /\ UNCHANGED <<disk, writer, queue, maxFileSize, control, history, environment>>

\* The process ends at any step: what the stream still buffers may be lost, from
\* the newest line back.
Crash ==
    /\ pc # "down"
    /\ crashes < MaxCrashes
    /\ crashes' = crashes + 1
    /\ IF file = NoFile
       THEN UNCHANGED <<file, synced>>
       ELSE \E k \in synced..Len(file) : file' = SubSeq(file, 1, k) /\ synced' = k
    /\ lost' = lost \cup (Numbers(file) \ Numbers(file')) \cup
               IF pending = NoLog THEN {} ELSE {pending.n}
    /\ isOpen' = FALSE /\ currSize' = 0
    /\ nextIdx' = MinIndex /\ fileQue' = <<>>
    /\ pc' = "down" /\ target' = MinIndex /\ pending' = NoLog
    /\ undeleted' = {}
    /\ UNCHANGED <<rotated, settings, count, retired, faults>>

\* mutant: the next index follows the highest one, not the newest one
StartAfterHighest(limit, n, rotateOnOpen) ==
    /\ pc = "down"
    /\ file' = IF file = NoFile THEN <<>> ELSE file
    /\ synced' = Len(file')
    /\ isOpen' = TRUE
    /\ currSize' = Bytes(file')
    /\ maxFileSize' = limit /\ maxFiles' = n
    /\ fileQue' = Indices(rotated)
    /\ nextIdx' = IF rotated = <<>> THEN MinIndex
                  ELSE Successor(CHOOSE i \in ToSet(fileQue') : \A j \in ToSet(fileQue') : j <= i)
    /\ pc' = IF rotateOnOpen THEN "opened" ELSE "idle"
    /\ UNCHANGED <<rotated, target, pending, history, environment>>

\* The constructor: the file is opened to append (if it cannot be, the
\* constructor throws and nothing has changed) and init_file_queue lists the
\* directory.  Nothing is deleted before the next rotation.
Start(limit, n, rotateOnOpen) ==
    /\ pc = "down"
    /\ file' = IF file = NoFile THEN <<>> ELSE file
    /\ synced' = Len(file')
    /\ isOpen' = TRUE
    /\ currSize' = Bytes(file')
    /\ maxFileSize' = limit /\ maxFiles' = n
    /\ fileQue' = Indices(rotated)
    /\ nextIdx' = IF rotated = <<>> THEN MinIndex ELSE Successor(Last(rotated).idx)
    /\ pc' = IF rotateOnOpen THEN "opened" ELSE "idle"
    /\ UNCHANGED <<rotated, target, pending, history, environment>>

\* what the thread that holds the mutex does next
Rotate == RotateOnOpen \/ Rename \/ Reopen \/ DeleteOldest \/ EndRotation

Next ==
    \/ \E size \in LineSizes : Log(size)
    \/ Flush
    \/ Rotate
    \/ \E limit \in Limits : SetMaxFileSize(limit)
    \/ \E n \in Retained : SetMaxFiles(n)
    \/ Crash
    \/ \E limit \in Limits, n \in Retained, rotateOnOpen \in BOOLEAN : Start(limit, n, rotateOnOpen)

\* a rotation that has begun runs on; nobody has to log
Spec == Init /\ [][Next]_vars /\ WF_vars(Rotate)

------------------------------------------------------------------------------
\* Every variable has its type.
TypeOK ==
    /\ file \in Seq(Line) \cup {NoFile} /\ synced \in Nat
    /\ rotated \in Seq(RotatedFile)
    /\ isOpen \in BOOLEAN /\ currSize \in Nat
    /\ nextIdx \in Index /\ fileQue \in Seq(Index)
    /\ maxFileSize \in Limits /\ maxFiles \in Retained
    /\ pc \in Steps /\ target \in Index /\ pending \in Line \cup {NoLog}
    /\ count \in 0..MaxLogs
    /\ lost \subseteq 1..MaxLogs /\ retired \subseteq 1..MaxLogs
    /\ undeleted \subseteq Index
    /\ faults \in 0..MaxFaults /\ crashes \in 0..MaxCrashes

\* Outside a rename, what the queue lists is what the directory holds, oldest
\* first, the files given up excepted: across failed renames, indices that wrap
\* and restarts (rotating_file_sink_impl_base.cpp:54, 76-81,
\* rotating_file_sink_impl.cpp:137-151).
Tracks(que) ==
    /\ ToSet(que) = ToSet(Indices(rotated)) \ undeleted
    /\ \A k, l \in DOMAIN que : k < l =>
          \A i \in Places(que[k]), j \in Places(que[l]) : i < j
QueueTracksDisk == pc \notin {"down", "truncate"} => Tracks(fileQue)

\* Every log made is in exactly one place: a file of the directory, the hands
\* of the thread that rotates, or one of the ways to go: dropped, or given up
\* by retention.  None is overwritten by a rename or truncated by a reopen;
\* only a file given up that a restart found again is listed once more; and
\* without a fault or a crash none is dropped.
Waiting == IF pending = NoLog THEN {} ELSE {pending.n}
ListedLines ==
    UNION {Numbers(rotated[i].lines) : i \in {j \in DOMAIN rotated : rotated[j].idx \notin undeleted}}
NoLogVanishes ==
    /\ 1..count = Numbers(file) \cup LinesOf(rotated) \cup Waiting \cup lost \cup retired
    /\ (Numbers(file) \cup Waiting) \cap (lost \cup retired) = {}
    /\ LinesOf(rotated) \cap lost = {}
    /\ crashes = 0 => ListedLines \cap retired = {}
    /\ lost # {} => faults + crashes > 0

\* The cached size is the size of the file (file_writer_impl.cpp:54, 110, 140,
\* 149), so that the limit is checked against what is there.
SizeKnown == Size = Bytes(file)

\* A file is removed only when every older one that is still listed is removed
\* too: retention keeps the newest (test_rotating_file_sink.cpp:162-169).
OldestGoesFirst ==
    [][\A i, j \in DOMAIN rotated :
          i < j /\ rotated[j] \notin ToSet(rotated') /\ rotated[j].idx \notin undeleted
          => rotated[i] \notin ToSet(rotated') \/ rotated[i].idx \in undeleted]_vars

\* A rotation ends with no more rotated files in the directory than maxFiles
\* and those that could not be deleted, whatever the restart found there and
\* whatever set_max_files did meanwhile (rotating_file_sink_impl_base.cpp:73-74).
AtMostMaxFiles ==
    [][pc = "delete" /\ pc' = "idle" => Len(rotated') <= maxFiles + Cardinality(undeleted')]_vars

\* A rotation ends, whatever fails in it, and the log that caused it is written
\* or dropped: the mutex is not kept for ever.
LogReturns == (pending # NoLog) ~> (pending = NoLog)

\* Whatever fails, the logs that retention has not given up are a window of the
\* logs: retention takes the oldest, a crash the newest that no flush or close
\* has secured, and nothing else goes; and a reader of the files, the rotated
\* ones by age and then the open one, reads the logs in the order they were made.
Ascending(lines) == lines # NoFile => \A i, j \in DOMAIN lines : i < j => lines[i].n < lines[j].n
Before(some, others) == \A m \in Numbers(some), n \in Numbers(others) : m < n
InOrder ==
    /\ Ascending(file)
    /\ \A i \in DOMAIN rotated : Ascending(rotated[i].lines) /\ Before(rotated[i].lines, file)
    /\ \A i, j \in DOMAIN rotated : i < j => Before(rotated[i].lines, rotated[j].lines)
Kept == (LinesOf(rotated) \cup Numbers(file)) \ retired
Secured ==
    (LinesOf(rotated) \cup IF file = NoFile THEN {} ELSE {file[i].n : i \in 1..synced}) \ retired
Window == INSTANCE LogWindow WITH window <- Kept, durable <- Secured
KeepsWindow == Window!Spec /\ []InOrder
=============================================================================
