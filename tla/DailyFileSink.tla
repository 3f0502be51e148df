----------------------------- MODULE DailyFileSink -----------------------------
(***************************************************************************)
(* origin::logging::DailyFileSink: one file that is renamed to             *)
(* "<stem>.<yyyymmdd><extension>" by the first log stamped after the hour  *)
(* of rotation (daily_file_sink_impl.cpp, over                             *)
(* rotating_file_sink_impl_base.cpp and file_writer_impl.cpp).             *)
(*                                                                         *)
(* A log is stamped when it is made and reaches the sink later, possibly   *)
(* behind a log that was stamped after it (an asynchronous logger, or two  *)
(* threads).  The clock runs, set_max_files is called and the process ends *)
(* between any two steps of a rotation.  The clock is never set back, and  *)
(* the hour of rotation stays the same from one start to the next.         *)
(***************************************************************************)
EXTENDS Integers, Sequences, FiniteSets, SequencesExt

CONSTANTS
    DayLength,  \* MILLIS_PER_DAY, in hours
    Hours,      \* the values given to hour (and minute)
    Summer,     \* the hours of daylight-saving time
    Retained,   \* the values given to maxFiles
    Existing,   \* the days whose file may exist before the first start
    NoFile,     \* the file does not exist
    NoLog,      \* no log waits for a rotation
    Faulty,     \* the operations of the file system that may fail
    LastHour,   \* bounds
    MaxLogs, MaxFaults, MaxCrashes

FirstHour == 2 * DayLength
Day == 0..(LastHour \div DayLength) + 1
Log == [n : 1..MaxLogs, timestamp : FirstHour..LastHour]

ASSUME DailyAssumption ==
    /\ DayLength \in Nat \ {0, 1}
    /\ Hours \subseteq 0..(DayLength - 1)
    /\ Summer \subseteq Nat
    /\ Retained \subseteq Nat /\ Existing \subseteq Day
    /\ Faulty \subseteq {"rename", "open", "delete"}
    /\ LastHour \in Nat /\ FirstHour <= LastHour /\ MaxLogs \in Nat /\ MaxFaults \in Nat /\ MaxCrashes \in Nat
    /\ NoLog \notin Log /\ NoFile \notin Seq(Log)

VARIABLES
    clock,       \* get_now_timestamp_ms
    hour,        \* _hour and _minute
    rotateTime,  \* _rotateTime
    fileTime,    \* _fileTime
    file,        \* the logs in _file, or NoFile
    synced,      \* how many of them have left the stream's buffer
    dated,       \* the logs in the file of each day, or NoFile
    isOpen,      \* _stream.is_open()
    fileQue,     \* _fileQue, the days of its files
    maxFiles,    \* _maxFiles
    pc,          \* the step at which the holder of the mutex stands
    target,      \* the day in the newFile of rotate
    pending,     \* the log that waits for the rotation
    inbox,       \* logs on their way to the sink
    count,       \* history: how many logs were made
    lost,        \* history: logs dropped by a closed stream or a crash
    retired,     \* history: logs in files that retention, or overwrite, gave up
    undeleted,   \* history: files given up and not deleted
    faults, crashes

times == <<rotateTime, fileTime>>
disk == <<file, synced, dated>>
control == <<pc, target, pending>>
history == <<count, lost, retired, undeleted>>
vars == <<clock, hour, times, disk, isOpen, fileQue, maxFiles, control, inbox, history, faults, crashes>>

-----------------------------------------------------------------------------
(* Time.  The zone is one hour ahead in summer.                              *)

\* safe_localtime: what the clocks of the zone show
Localtime(t) == t + IF t \in Summer THEN 1 ELSE 0

\* std_tm_2_date_time_st and back: a DateTimeSt does not say whether it is
\* summer, and the tm made from one always says that it is not (tm_isdst = 0)
DateTime(localtime) == [day |-> localtime \div DayLength, hour |-> localtime % DayLength]
StandardTm(dateTime) == dateTime.day * DayLength + dateTime.hour

\* timestamp_to_date_time, as far as the day, and date_time_to_timestamp
LocalDay(t) == DateTime(Localtime(t)).day
Timestamp(day, h) == StandardTm([day |-> day, hour |-> h])

\* the day in calc_log_file
CalcLogFile(time) == LocalDay(time)

\* The constructor: the next rotation, at the hour of this day or of the next
FirstRotation(now) ==
    LET r == Timestamp(LocalDay(now), hour) IN IF r < now THEN r + DayLength ELSE r

\* mutant: a log moves the next rotation by one day only
NextRotationByOne(t) == rotateTime + DayLength
\* The loop of log_it: whole days, until the rotation is not behind the log
NextRotation(t) == rotateTime + DayLength * ((t - rotateTime + DayLength - 1) \div DayLength)

\* mutant: the directory is not sorted by time
InitFileQueueAnyOrder(time) ==
    Reverse(SetToSortSeq({d \in Day : dated[d] # NoFile /\ Timestamp(d, 0) <= time}, <))
\* parse_log_timestamp, init_file_queue: the files that are not newer than time,
\* sorted by day, each in the place after those before it
InitFileQueue(time) ==
    LET days == {d \in Day : dated[d] # NoFile /\ Timestamp(d, 0) <= time /\ CalcLogFile(Timestamp(d, 0)) = d}
    IN  [i \in 1..Cardinality(days) |-> CHOOSE d \in days : Cardinality({e \in days : e < d}) = i - 1]

Numbers(logs) == IF logs = NoFile THEN {} ELSE {logs[i].n : i \in DOMAIN logs}

\* FileWriterImpl::size
IsEmpty == file = NoFile \/ file = <<>>

\* an operation of this kind fails, in all of its retries
Fault(kind) == kind \in Faulty /\ faults < MaxFaults /\ faults' = faults + 1

Init ==
    /\ clock = FirstHour /\ hour \in Hours
    /\ rotateTime = 0 /\ fileTime = 0
    /\ file = NoFile /\ synced = 0
    /\ dated \in {[d \in Day |-> IF d \in E THEN <<>> ELSE NoFile] : E \in SUBSET Existing}
    /\ isOpen = FALSE /\ fileQue = <<>>
    /\ maxFiles \in Retained
    /\ pc = "down" /\ target = 0 /\ pending = NoLog
    /\ inbox = {} /\ count = 0 /\ lost = {} /\ retired = {} /\ undeleted = {}
    /\ faults = 0 /\ crashes = 0

Tick ==
    /\ clock < LastHour
    /\ clock' = clock + 1
    /\ UNCHANGED <<hour, times, disk, isOpen, fileQue, maxFiles, control, inbox, history, faults, crashes>>

\* LogMsg: a log is made, with the time of its making
Stamp ==
    /\ pc # "down"
    /\ count < MaxLogs
    /\ count' = count + 1
    /\ inbox' = inbox \cup {[n |-> count + 1, timestamp |-> clock]}
    /\ UNCHANGED <<clock, hour, times, disk, isOpen, fileQue, maxFiles, control, lost, retired, undeleted, faults, crashes>>

-----------------------------------------------------------------------------
(* log_it and rotate, under the sink's mutex.                                *)

\* sink_it: FileWriterImpl::write_line, where a closed stream drops the log
Write(log) ==
    IF isOpen THEN file' = Append(file, log) /\ UNCHANGED lost
    ELSE lost' = lost \cup {log.n} /\ UNCHANGED file

\* _rotateTime and _fileTime after a log that was stamped later
Advance(log) ==
    /\ rotateTime' = NextRotation(log.timestamp)
    /\ fileTime' = rotateTime' - DayLength

\* FileWriterImpl::open, and close, which flushes the stream
Open(overwrite) ==
    /\ file' = IF overwrite \/ file = NoFile THEN <<>> ELSE file
    /\ synced' = Len(file')
    /\ isOpen' = TRUE
Close ==
    /\ isOpen' = FALSE
    /\ synced' = Len(file)

\* log_it: a file that is to be rotated is closed, any other gets the log
LogIt(log) ==
    /\ pc = "idle" /\ log \in inbox
    /\ inbox' = inbox \ {log}
    /\ IF log.timestamp > rotateTime /\ ~IsEmpty
       THEN /\ target' = CalcLogFile(fileTime)
            /\ Close
            /\ pc' = "rename" /\ pending' = log
            /\ UNCHANGED <<file, lost, times>>
       ELSE /\ IF log.timestamp > rotateTime THEN Advance(log) ELSE UNCHANGED times
            /\ Write(log)
            /\ UNCHANGED <<synced, isOpen, control>>
    /\ UNCHANGED <<clock, hour, dated, fileQue, maxFiles, count, retired, undeleted, faults, crashes>>

\* rename_file with its retries: the file of that day is replaced
Rename ==
    /\ pc = "rename"
    /\ \/ /\ file # NoFile
          /\ dated' = [dated EXCEPT ![target] = file]
          /\ file' = NoFile /\ synced' = 0
          /\ retired' = IF target \in undeleted THEN retired \cup Numbers(dated[target]) ELSE retired
          /\ undeleted' = undeleted \ {target}
          /\ pc' = "truncate"
          /\ UNCHANGED faults
       \/ /\ Fault("rename")
          /\ pc' = "append"
          /\ UNCHANGED <<disk, retired, undeleted>>
    /\ UNCHANGED <<clock, hour, times, isOpen, fileQue, maxFiles, target, pending, inbox, count, lost, crashes>>

\* _fileWriter.reopen, and push_back_file whether or not the file could be opened
Reopen ==
    /\ pc \in {"truncate", "append"}
    /\ \/ /\ isOpen' = TRUE
          /\ file' = IF pc = "truncate" \/ file = NoFile THEN <<>> ELSE file
          /\ synced' = Len(file')
          /\ UNCHANGED faults
       \/ Fault("open") /\ UNCHANGED <<isOpen, file, synced>>
    /\ fileQue' = IF pc = "truncate" THEN Append(fileQue, target) ELSE fileQue
    /\ pc' = "delete"
    /\ UNCHANGED <<clock, hour, times, dated, maxFiles, target, pending, inbox, history, crashes>>

\* delete_overflow_file, one turn of its loop; a file that is not there counts
\* as deleted
DeleteOldest ==
    /\ pc = "delete"
    /\ Len(fileQue) > maxFiles
    /\ LET d == Head(fileQue)
       IN  /\ retired' = retired \cup Numbers(dated[d])
           /\ \/ dated' = [dated EXCEPT ![d] = NoFile] /\ UNCHANGED <<undeleted, faults>>
              \/ /\ dated[d] # NoFile
                 /\ Fault("delete")
                 /\ undeleted' = undeleted \cup {d}
                 /\ UNCHANGED dated
    /\ fileQue' = Tail(fileQue)
    /\ UNCHANGED <<clock, hour, times, file, synced, isOpen, maxFiles, control, inbox, count, lost, crashes>>

\* mutant: the name of the next file stays the same
EndRotationSameName ==
    /\ pc = "delete"
    /\ Len(fileQue) <= maxFiles
    /\ rotateTime' = NextRotation(pending.timestamp)
    /\ Write(pending)
    /\ pc' = "idle" /\ pending' = NoLog
    /\ UNCHANGED <<clock, hour, fileTime, synced, dated, isOpen, fileQue, maxFiles, target, inbox, count, retired, undeleted, faults, crashes>>

\* the end of rotate and of log_it
EndRotation ==
    /\ pc = "delete"
    /\ Len(fileQue) <= maxFiles
    /\ Advance(pending)
    /\ Write(pending)
    /\ pc' = "idle" /\ pending' = NoLog
    /\ UNCHANGED <<clock, hour, synced, dated, isOpen, fileQue, maxFiles, target, inbox, count, retired, undeleted, faults, crashes>>

-----------------------------------------------------------------------------
(* The other operations.                                                     *)

\* flush_it
Flush ==
    /\ pc = "idle" /\ isOpen
    /\ synced' = Len(file)
    /\ UNCHANGED <<clock, hour, times, file, dated, isOpen, fileQue, maxFiles, control, inbox, history, faults, crashes>>

\* set_max_files, which does not take the mutex
SetMaxFiles(n) ==
    /\ pc # "down"
    /\ maxFiles' = n
    /\ UNCHANGED <<clock, hour, times, disk, isOpen, fileQue, control, inbox, history, faults, crashes>>

\* The process ends at any step: what the stream still buffers may be lost, and
\* what has not reached the sink is.
Crash ==
    /\ pc # "down"
    /\ crashes < MaxCrashes
    /\ crashes' = crashes + 1
    /\ IF file = NoFile THEN UNCHANGED <<file, synced>>
       ELSE \E k \in synced..Len(file) : file' = SubSeq(file, 1, k) /\ synced' = k
    /\ lost' = lost \cup (Numbers(file) \ Numbers(file')) \cup {log.n : log \in inbox} \cup
               IF pending = NoLog THEN {} ELSE {pending.n}
    /\ pc' = "down" /\ pending' = NoLog /\ inbox' = {}
    /\ isOpen' = FALSE /\ fileQue' = <<>> /\ undeleted' = {}
    /\ UNCHANGED <<clock, hour, times, dated, maxFiles, target, count, retired, faults>>

\* The constructor: the file is opened (if it cannot be, the constructor throws
\* and nothing has changed), the times are set from the clock and the directory
\* is listed.
Start(n, overwrite) ==
    /\ pc = "down"
    /\ Open(overwrite)
    /\ retired' = IF overwrite THEN retired \cup Numbers(file) ELSE retired
    /\ maxFiles' = n
    /\ rotateTime' = FirstRotation(clock)
    /\ fileTime' = rotateTime' - DayLength
    /\ fileQue' = InitFileQueue(fileTime')
    /\ pc' = "idle"
    /\ UNCHANGED <<clock, hour, dated, target, pending, inbox, count, lost, undeleted, faults, crashes>>

\* what the thread that holds the mutex does next
Rotate == Rename \/ Reopen \/ DeleteOldest \/ EndRotation

Next ==
    \/ Tick \/ Stamp
    \/ \E log \in inbox : LogIt(log)
    \/ Rotate
    \/ Flush
    \/ \E n \in Retained : SetMaxFiles(n) \/ \E overwrite \in BOOLEAN : Start(n, overwrite)
    \/ Crash

Spec == Init /\ [][Next]_vars

-----------------------------------------------------------------------------
(* Properties.                                                               *)

\* Every variable has its type.
TypeOK ==
    /\ clock \in FirstHour..LastHour /\ hour \in Hours
    /\ rotateTime \in Nat /\ fileTime \in Nat
    /\ file \in Seq(Log) \cup {NoFile} /\ synced \in Nat
    /\ dated \in [Day -> Seq(Log) \cup {NoFile}]
    /\ isOpen \in BOOLEAN
    /\ fileQue \in Seq(Day) /\ maxFiles \in Retained
    /\ pc \in {"down", "idle", "rename", "truncate", "append", "delete"}
    /\ target \in Day /\ pending \in Log \cup {NoLog}
    /\ inbox \subseteq Log /\ count \in 0..MaxLogs
    /\ lost \subseteq 1..MaxLogs /\ retired \subseteq 1..MaxLogs /\ undeleted \subseteq Day
    /\ faults \in 0..MaxFaults /\ crashes \in 0..MaxCrashes

\* A log that was made is on its way, in a file, in a file that retention or a
\* start with overwrite gave up, or lost in a way the program knows of: no rotation
\* ever renames the file over an earlier day's, though the clock changes, days go
\* by without a log and the sink is started again in between.
NoLogVanishes ==
    1..count = {log.n : log \in inbox} \cup (IF pending = NoLog THEN {} ELSE {pending.n})
               \cup Numbers(file) \cup (UNION {Numbers(dated[d]) : d \in Day}) \cup retired \cup lost

\* A log is never in the file of a period that had ended before it was made.
\* (It may be in a later one: it came late, or the rename of its period failed,
\* or the program was not running at the hour.)
NotDatedEarly ==
    \A d \in Day : dated[d] # NoFile =>
        \A i \in DOMAIN dated[d] : \E k \in Day :
            CalcLogFile(Timestamp(k, hour)) = d /\ dated[d][i].timestamp <= Timestamp(k, hour) + DayLength

\* Retention takes the oldest day first: a file is deleted only if no older one
\* is left, save those that could not be deleted in their turn.
OldestGoesFirst ==
    [][\A d \in Day : dated[d] # NoFile /\ dated'[d] = NoFile =>
          \A e \in Day : e < d /\ dated[e] # NoFile => e \in undeleted]_vars
=============================================================================
