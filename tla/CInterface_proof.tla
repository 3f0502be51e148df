---------------------------- MODULE CInterface_proof ----------------------------
(***************************************************************************)
(* Theorems about the way of a message, for any number of threads, loggers *)
(* and sinks, of messages, settings and flushes, and any capacity of the   *)
(* pool: what CInterface's program gets from the C functions and the C++   *)
(* classes together.                                                       *)
(***************************************************************************)
EXTENDS CInterface, FiniteSetTheorems, TLAPS

\* No logger was given the same sink twice: one that was writes to it twice.
NoSinkTwice == \A l \in Logger : \A i, j \in 1..Len(SinksOf[l]) : SinksOf[l][i] = SinksOf[l][j] => i = j

------------------------------------------------------------------------------
(* The inductive invariant.                                                 *)

InLog == {"ask", "write"}
Steps == {"idle", "join", "send", "format", "flush"} \cup InLog

Frames   == [op : Steps, logger : Logger \cup {None}, n : Nat, at : Nat, form : Formatter \cup {None}]
Tasks    == [logger : Logger, n : Nat]
Messages == [level : LogLevel, logger : Logger, takes : SUBSET Sink, refuses : SUBSET Sink,
             throws : SUBSET Sink, flush : BOOLEAN]

TypeInv ==
    /\ out \in [Sink -> Seq(Nat)] /\ flushed \in [Sink -> Nat]
    /\ queue \in Seq(Tasks)
    /\ call \in [Executor -> Frames]
    /\ msgs \in Seq(Messages)
    /\ done \subseteq 1..Len(msgs)

\* A call about a logger has one, and a log a message; the worker sends nothing,
\* logs for AsyncLoggers only and flushes for no message.
CallFits(e) ==
    /\ call[e].op \notin {"idle", "join"} => call[e].logger \in Logger /\ call[e].at > 0
    /\ call[e].op \in InLog => call[e].n # 0
    /\ call[e].op \in {"idle", "join", "format"} => call[e].n = 0
    /\ call[e].op = "write" => call[e].at <= Len(SinksOf[call[e].logger])
    /\ call[e].op = "send" => e # Worker /\ call[e].logger \in Async
    /\ e = Worker /\ call[e].op = "flush" => call[e].n = 0
    /\ e = Worker /\ call[e].n # 0 => call[e].logger \in Async

CallsFit == \A e \in Executor : CallFits(e)

\* A message is in one hand at a time: of the thread that logs it, in the queue,
\* in the worker's, or its log is over.
OneHand ==
    /\ \A e \in Executor : call[e].n # 0 =>
        /\ call[e].n \in 1..Len(msgs) /\ call[e].n \notin done
        /\ msgs[call[e].n].logger = call[e].logger
    /\ \A e, f \in Executor : call[e].n # 0 /\ call[f].n = call[e].n => f = e
    /\ \A i \in 1..Len(queue) : queue[i].n # 0 =>
        /\ queue[i].n \in 1..Len(msgs) /\ queue[i].n \notin done
        /\ msgs[queue[i].n].logger = queue[i].logger /\ queue[i].logger \in Async
    /\ \A i, j \in 1..Len(queue) : queue[i].n # 0 /\ queue[j].n = queue[i].n => j = i
    /\ \A e \in Executor, i \in 1..Len(queue) : call[e].n # 0 => queue[i].n # call[e].n

\* What the history says of a log that is not over is so now.
HistoryNow ==
    \A n \in 1..Len(msgs) : n \notin done =>
        /\ \A s \in msgs[n].takes : Takes(s, msgs[n].level, sinkLevel, formatter)
        /\ \A s \in msgs[n].refuses : ~ Admits(msgs[n].level, sinkLevel[s])
        /\ \A s \in msgs[n].throws : formatter[s] \in Throwing
        /\ msgs[n].flush => Admits(msgs[n].level, flushLevel[msgs[n].logger])

\* No sink has a line twice or a line of no message, and it has what it flushed.
LinesOnce ==
    \A s \in Sink :
        /\ flushed[s] <= Len(out[s])
        /\ \A i \in 1..Len(out[s]) : out[s][i] \in 1..Len(msgs)
        /\ \A i, j \in 1..Len(out[s]) : out[s][i] = out[s][j] => i = j

\* message n is among the lines o
Has(o, n) == \E i \in 1..Len(o) : o[i] = n

\* its line has left the buffer, of which the first k lines have
Secure(o, k, n) == \A i \in 1..Len(o) : o[i] = n => i <= k

\* Sink s, which has message m or not, did what its level and its formatter said.
Obeys(m, s, has) ==
    /\ s \in m.takes => has
    /\ s \in m.refuses \cup m.throws => ~ has

\* All sinks of its logger did, and no other sink has it.
Settled(m, lines, n) ==
    \A s \in Sink :
        IF s \in Range(SinksOf[m.logger]) THEN Obeys(m, s, Has(lines[s], n)) ELSE ~ Has(lines[s], n)

\* What was not taken up yet is in no sink.
SendRight(e) ==
    call[e].op = "send" /\ call[e].n # 0 => \A s \in Sink : ~ Has(out[s], call[e].n)

TaskRight(i) ==
    queue[i].n # 0 => \A s \in Sink : ~ Has(out[s], queue[i].n)

\* In a log, the sinks passed have obeyed, and no other has the message.
LogRight(e) ==
    call[e].op \in InLog =>
        LET n == call[e].n
            sinks == SinksOf[call[e].logger]
        IN  /\ \A k \in 1..Len(sinks) : k < call[e].at => Obeys(msgs[n], sinks[k], Has(out[sinks[k]], n))
            /\ \A s \in Sink : Has(out[s], n) => \E k \in 1..Len(sinks) : k < call[e].at /\ s = sinks[k]
            /\ call[e].op = "write" => sinks[call[e].at] \notin msgs[n].refuses

\* In the flush that follows, all have obeyed, and those passed buffer nothing.
FlushRight(e) ==
    call[e].op = "flush" /\ call[e].n # 0 =>
        LET n == call[e].n
            sinks == SinksOf[call[e].logger]
        IN  /\ Settled(msgs[n], out, n)
            /\ \A k \in 1..Len(sinks) : k < call[e].at => Secure(out[sinks[k]], flushed[sinks[k]], n)

\* When the log is over, so it stays.
DoneRight(n) ==
    /\ Settled(msgs[n], out, n)
    /\ msgs[n].flush /\ msgs[n].logger \notin Async => \A s \in Sink : Secure(out[s], flushed[s], n)

CallRight(e) == SendRight(e) /\ LogRight(e) /\ FlushRight(e)

MessagesRight ==
    /\ \A e \in Executor : CallRight(e)
    /\ \A i \in 1..Len(queue) : TaskRight(i)
    /\ \A n \in done : DoneRight(n)

IInv == TypeInv /\ CallsFit /\ OneHand /\ HistoryNow /\ LinesOnce /\ MessagesRight

------------------------------------------------------------------------------
(* What a step leaves alone.                                                *)

\* The history of message n is at most revised, no sink gets or loses its line,
\* and what has left the buffers has.
Calm(n) ==
    /\ msgs'[n].logger = msgs[n].logger
    /\ msgs'[n].takes \subseteq msgs[n].takes
    /\ msgs'[n].refuses \subseteq msgs[n].refuses /\ msgs'[n].throws \subseteq msgs[n].throws
    /\ msgs'[n].flush => msgs[n].flush
    /\ \A s \in Sink : Has(out'[s], n) <=> Has(out[s], n)
    /\ \A s \in Sink : Secure(out[s], flushed[s], n) => Secure(out'[s], flushed'[s], n)

\* What the sinks did for such a message is right as before.
LEMMA SettledKept ==
    ASSUME NEW n, Calm(n), Settled(msgs[n], out, n)
    PROVE  Settled(msgs'[n], out', n)
BY DEF Calm, Settled, Obeys

\* A call that does not move stays right.
LEMMA CallKept ==
    ASSUME NEW e \in Executor, call'[e] = call[e], CallFits(e), CallRight(e),
           call[e].n # 0 => Calm(call[e].n)
    PROVE  CallRight(e)'
<1> DEFINE n == call[e].n
           sinks == SinksOf[call[e].logger]
<1>1. CASE n = 0
  BY <1>1 DEF CallFits, CallRight, SendRight, LogRight, FlushRight
<1>2. CASE n # 0
  <2>1. Calm(n)
    BY <1>2
  <2>2. \A s \in Sink : Has(out'[s], n) <=> Has(out[s], n)
    BY <2>1 DEF Calm
  <2>3. SendRight(e)'
    BY <1>2, <2>2 DEF CallRight, SendRight
  <2>4. call[e].op \notin {"idle", "join"} => sinks \in Seq(Sink)
    BY LoggersAssumption DEF CallFits
  <2>5. LogRight(e)'
    <3> SUFFICES ASSUME call[e].op \in InLog
                 PROVE  /\ \A k \in 1..Len(sinks) : k < call[e].at => Obeys(msgs'[n], sinks[k], Has(out'[sinks[k]], n))
                        /\ \A s \in Sink : Has(out'[s], n) => \E k \in 1..Len(sinks) : k < call[e].at /\ s = sinks[k]
                        /\ call[e].op = "write" => sinks[call[e].at] \notin msgs'[n].refuses
      BY DEF LogRight
    <3>1. /\ \A k \in 1..Len(sinks) : k < call[e].at => Obeys(msgs[n], sinks[k], Has(out[sinks[k]], n))
          /\ \A s \in Sink : Has(out[s], n) => \E k \in 1..Len(sinks) : k < call[e].at /\ s = sinks[k]
          /\ call[e].op = "write" => sinks[call[e].at] \notin msgs[n].refuses
      BY DEF CallRight, LogRight
    <3>2. \A k \in 1..Len(sinks) : sinks[k] \in Sink
      BY <2>4 DEF InLog
    <3> HIDE DEF n, sinks
    <3>3. \A k \in 1..Len(sinks) : k < call[e].at => Obeys(msgs'[n], sinks[k], Has(out'[sinks[k]], n))
      BY <2>1, <3>1, <3>2 DEF Obeys, Calm
    <3>4. QED
      BY <2>1, <2>2, <3>1, <3>3 DEF Calm
  <2>6. FlushRight(e)'
    <3> SUFFICES ASSUME call[e].op = "flush"
                 PROVE  /\ Settled(msgs'[n], out', n)
                        /\ \A k \in 1..Len(sinks) : k < call[e].at => Secure(out'[sinks[k]], flushed'[sinks[k]], n)
      BY DEF FlushRight
    <3>1. /\ Settled(msgs[n], out, n)
          /\ \A k \in 1..Len(sinks) : k < call[e].at => Secure(out[sinks[k]], flushed[sinks[k]], n)
      BY <1>2 DEF CallRight, FlushRight
    <3>2. \A k \in 1..Len(sinks) : sinks[k] \in Sink
      BY <2>4
    <3> HIDE DEF n, sinks
    <3>3. Settled(msgs'[n], out', n)
      BY <2>1, <3>1, SettledKept
    <3>4. QED
      BY <2>1, <3>1, <3>2, <3>3 DEF Calm
  <2>7. QED
    BY <2>3, <2>5, <2>6 DEF CallRight
<1>3. QED
  BY <1>1, <1>2

\* Nor does a task.
LEMMA TaskKept ==
    ASSUME NEW i, NEW j, queue'[j] = queue[i], TaskRight(i), queue[i].n # 0 => Calm(queue[i].n)
    PROVE  TaskRight(j)'
BY DEF TaskRight, Calm

\* Nor what was done.
LEMMA DoneKept ==
    ASSUME NEW n, DoneRight(n), Calm(n)
    PROVE  DoneRight(n)'
<1>1. Settled(msgs'[n], out', n)
  BY SettledKept DEF DoneRight
<1>2. msgs'[n].flush /\ msgs'[n].logger \notin Async => \A s \in Sink : Secure(out'[s], flushed'[s], n)
  BY DEF DoneRight, Calm
<1>3. QED
  BY <1>1, <1>2 DEF DoneRight

\* A step of executor e leaves the calls of the others right, and what was done.
LEMMA OthersKept ==
    ASSUME IInv, NEW e \in Executor, \A f \in Executor \ {e} : call'[f] = call[f],
           \A n \in 1..Len(msgs) : n # call[e].n => Calm(n),
           CallFits(e)', CallRight(e)'
    PROVE  /\ CallsFit' /\ \A f \in Executor : CallRight(f)'
           /\ \A n \in done : DoneRight(n)'
<1>1. ASSUME NEW f \in Executor \ {e} PROVE CallFits(f)' /\ CallRight(f)'
  <2>1. call'[f] = call[f] /\ CallFits(f) /\ CallRight(f)
    BY DEF IInv, CallsFit, MessagesRight
  <2>2. call[f].n # 0 => Calm(call[f].n)
    BY DEF IInv, OneHand
  <2>3. CallRight(f)'
    BY <2>1, <2>2, CallKept
  <2>4. CallFits(f)'
    BY <2>1 DEF CallFits
  <2>5. QED
    BY <2>3, <2>4
<1>2. CallsFit'
  BY <1>1 DEF CallsFit
<1>3. \A f \in Executor : CallRight(f)'
  BY <1>1
<1>4. ASSUME NEW n \in done PROVE DoneRight(n)'
  <2>1. DoneRight(n) /\ n \in 1..Len(msgs) /\ n # call[e].n
    BY DEF IInv, TypeInv, OneHand, MessagesRight
  <2>2. QED
    BY <2>1, DoneKept
<1>5. QED
  BY <1>2, <1>3, <1>4

\* A step by which executor e moves on in its call, begins one for no message,
\* or ends its log.
LEMMA MoveKeeps ==
    ASSUME IInv, NEW e \in Executor, \A f \in Executor \ {e} : call'[f] = call[f], NEW n, n = call[e].n,
           TypeInv', LinesOnce', CallFits(e)', CallRight(e)',
           UNCHANGED <<queue, msgs, sinkLevel, formatter, flushLevel>>,
           \A m \in 1..Len(msgs) : m # n => Calm(m),
           call'[e].n = 0 \/ (call'[e].n = n /\ call'[e].logger = call[e].logger),
           \/ done' = done
           \/ n # 0 /\ call'[e].n = 0 /\ done' = done \cup {n} /\ DoneRight(n)'
    PROVE  IInv'
<1>1. CallsFit' /\ (\A f \in Executor : CallRight(f)') /\ \A m \in done : DoneRight(m)'
  BY OthersKept
<1>2. OneHand'
  <2>1. \A f \in Executor : call'[f].n # 0 => /\ call'[f].n = call[f].n /\ call'[f].logger = call[f].logger
                                             /\ call[f].n \notin done'
    BY DEF IInv, OneHand
  <2>2. \A i \in 1..Len(queue) : queue[i].n # 0 => queue[i].n \notin done'
    BY DEF IInv, OneHand
  <2>3. QED
    BY <2>1, <2>2 DEF IInv, OneHand
<1>3. HistoryNow'
  BY DEF IInv, HistoryNow
<1>4. ASSUME NEW i \in 1..Len(queue') PROVE TaskRight(i)'
  <2>1. i \in 1..Len(queue) /\ queue'[i] = queue[i] /\ TaskRight(i)
    BY DEF IInv, MessagesRight
  <2>2. queue[i].n # 0 => Calm(queue[i].n)
    BY <2>1 DEF IInv, OneHand
  <2>3. QED
    BY <2>1, <2>2, TaskKept
<1>5. \A m \in done' : DoneRight(m)'
  BY <1>1
<1>6. MessagesRight'
  BY <1>1, <1>4, <1>5 DEF MessagesRight
<1>7. QED
  BY <1>1, <1>2, <1>3, <1>6 DEF IInv

\* Where a call goes.
LEMMA Gone ==
    ASSUME TypeInv, NEW e \in Executor, NEW c \in Frames, Goto(e, c)
    PROVE  /\ call' \in [Executor -> Frames] /\ call'[e] = c
           /\ \A f \in Executor \ {e} : call'[f] = call[f]
BY DEF TypeInv, Goto

\* The frames that calls begin and end with.
LEMMA FrameTypes ==
    /\ Idle \in Frames /\ [Idle EXCEPT !.op = "join"] \in Frames
    /\ \A op \in Steps, l \in Logger, n \in Nat : Frame(op, l, n) \in Frames
    /\ \A l \in Logger, f \in Formatter : [Frame("format", l, 0) EXCEPT !.form = f] \in Frames
BY DEF Idle, Frame, Frames, Steps, InLog

\* A call that moves on within its frame.
LEMMA FrameMoves ==
    ASSUME TypeInv, NEW e \in Executor
    PROVE  /\ call[e] \in Frames
           /\ \A op \in Steps : [call[e] EXCEPT !.op = op] \in Frames
           /\ \A op \in Steps : [call[e] EXCEPT !.op = op, !.at = @ + 1] \in Frames
<1> DEFINE c == call[e]
<1>1. c \in Frames
  BY DEF TypeInv
<1> HIDE DEF c
<1>2. ASSUME NEW op \in Steps PROVE [c EXCEPT !.op = op] \in Frames
  BY <1>1 DEF Frames
<1>3. ASSUME NEW op \in Steps PROVE [c EXCEPT !.op = op, !.at = @ + 1] \in Frames
  <2>1. c.at + 1 \in Nat
    BY <1>1 DEF Frames
  <2>2. QED
    BY <1>1, <2>1 DEF Frames
<1>4. QED
  BY <1>1, <1>2, <1>3 DEF c

\* An executor in a log or a flush, and the sinks on its way.
LEMMA OnTheWay ==
    ASSUME IInv, NEW e \in Executor, call[e].op \notin {"idle", "join"}
    PROVE  /\ call[e].logger \in Logger /\ SinksOf[call[e].logger] \in Seq(Sink)
           /\ call[e].at \in Nat \ {0} /\ call[e].n \in Nat
           /\ ~ PastSinks(e) => /\ call[e].at \in 1..Len(SinksOf[call[e].logger])
                                /\ SinkAt(e) \in Sink
           /\ PastSinks(e) => \A k \in 1..Len(SinksOf[call[e].logger]) : k < call[e].at
           /\ call[e].n # 0 => /\ call[e].n \in 1..Len(msgs) /\ call[e].n \notin done
                               /\ msgs[call[e].n].logger = call[e].logger
<1>1. call[e] \in Frames
  BY FrameMoves DEF IInv
<1>2. call[e].at \in Nat \ {0} /\ call[e].n \in Nat /\ call[e].logger \in Logger
  BY <1>1 DEF IInv, CallsFit, CallFits, Frames
<1>3. SinksOf[call[e].logger] \in Seq(Sink)
  BY <1>2, LoggersAssumption
<1>4. call[e].n # 0 => /\ call[e].n \in 1..Len(msgs) /\ call[e].n \notin done
                       /\ msgs[call[e].n].logger = call[e].logger
  BY DEF IInv, OneHand
<1> DEFINE sinks == SinksOf[call[e].logger]
           k0 == call[e].at
<1>5. k0 \in Nat \ {0} /\ sinks \in Seq(Sink) /\ (PastSinks(e) <=> k0 > Len(sinks)) /\ SinkAt(e) = sinks[k0]
  BY <1>2, <1>3 DEF PastSinks, SinkAt
<1>6. ~ PastSinks(e) => k0 \in 1..Len(sinks) /\ SinkAt(e) \in Sink
  <2> HIDE DEF sinks, k0
  <2> QED  BY <1>5
<1>7. PastSinks(e) => \A k \in 1..Len(sinks) : k < k0
  <2> HIDE DEF sinks, k0
  <2> QED  BY <1>5
<1>8. QED
  BY <1>2, <1>3, <1>4, <1>6, <1>7

------------------------------------------------------------------------------
(* The steps, each of which keeps the invariant.                            *)

\* Steps of a call for no message that touch no sink, message or setting.
LEMMA AsideKeeps ==
    ASSUME IInv, NEW e \in Executor, \A f \in Executor \ {e} : call'[f] = call[f],
           call' \in [Executor -> Frames], call[e].n = 0, call'[e].n = 0, CallFits(e)',
           UNCHANGED <<queue, msgs, done, out, flushed, sinkLevel, formatter, flushLevel>>
    PROVE  IInv'
<1>1. TypeInv'
  BY DEF IInv, TypeInv
<1>2. LinesOnce'
  BY DEF IInv, LinesOnce
<1>3. \A m \in 1..Len(msgs) : m # 0 => Calm(m)
  BY DEF Calm
<1>4. CallRight(e)'
  BY DEF CallRight, SendRight, LogRight, FlushRight, CallFits
<1>5. QED
  BY <1>1, <1>2, <1>3, <1>4, MoveKeeps

\* A sink is asked for its level.
LEMMA AskKeeps ==
    ASSUME IInv, NoSinkTwice, NEW e \in Executor, AskSink(e)
    PROVE  IInv'
<1>1. call[e].op = "ask" /\ ~ PastSinks(e)
  BY DEF AskSink, At
<1>2. UNCHANGED <<queue, msgs, done, out, flushed, sinkLevel, formatter, flushLevel>>
  BY DEF AskSink, settings, files, history
<1> DEFINE n == call[e].n
           k0 == call[e].at
           sinks == SinksOf[call[e].logger]
           s0 == SinkAt(e)
<1>3. /\ call[e].logger \in Logger /\ sinks \in Seq(Sink) /\ k0 \in 1..Len(sinks) /\ s0 = sinks[k0] /\ s0 \in Sink
      /\ n \in 1..Len(msgs) /\ n \notin done /\ n # 0
  BY <1>1, OnTheWay DEF SinkAt, IInv, CallsFit, CallFits, InLog
<1>4. /\ \A k \in 1..Len(sinks) : k < k0 => Obeys(msgs[n], sinks[k], Has(out[sinks[k]], n))
      /\ \A s \in Sink : Has(out[s], n) => \E k \in 1..Len(sinks) : k < k0 /\ s = sinks[k]
  BY <1>1 DEF IInv, MessagesRight, CallRight, LogRight, InLog
<1>5. ~ Has(out[s0], n)
  <2>1. \A k \in 1..Len(sinks) : sinks[k] = sinks[k0] => k = k0
    BY <1>3 DEF NoSinkTwice
  <2> HIDE DEF n, k0, sinks, s0
  <2>2. QED
    BY <1>3, <1>4, <2>1
<1>6. CallRight(e)' /\ CallFits(e)' /\ call' \in [Executor -> Frames] /\ call'[e].n = n /\ call'[e].logger = call[e].logger
      /\ \A f \in Executor \ {e} : call'[f] = call[f]
  <2>1. CASE Admits(msgs[n].level, sinkLevel[s0])
    <3> DEFINE c == [call[e] EXCEPT !.op = "write"]
    <3>1. c \in Frames /\ c.op = "write" /\ c.n = n /\ c.at = k0 /\ c.logger = call[e].logger
      BY FrameMoves DEF IInv, Frames, Steps, InLog
    <3>2. Goto(e, c)
      BY <2>1 DEF AskSink
    <3> HIDE DEF c
    <3>3. call' \in [Executor -> Frames] /\ call'[e] = c /\ \A f \in Executor \ {e} : call'[f] = call[f]
      BY <3>1, <3>2, Gone DEF IInv
    <3>4. CallFits(e)'
      BY <1>1, <1>3, <3>1, <3>3 DEF IInv, CallsFit, CallFits, InLog
    <3>5. s0 \notin msgs[n].refuses
      BY <1>3, <2>1 DEF IInv, HistoryNow
    <3>6. LogRight(e)'
      <4>1. /\ call'[e].op = "write" /\ call'[e].n = n /\ call'[e].at = k0 /\ SinksOf[call'[e].logger] = sinks
            /\ sinks[k0] \notin msgs[n].refuses
        BY <1>3, <3>1, <3>3, <3>5
      <4> HIDE DEF n, k0, sinks, s0
      <4>2. QED
        BY <1>2, <1>4, <4>1 DEF LogRight
    <3>7. QED
      BY <3>1, <3>3, <3>4, <3>6 DEF CallRight, SendRight, FlushRight
  <2>2. CASE ~ Admits(msgs[n].level, sinkLevel[s0])
    <3> DEFINE c == [call[e] EXCEPT !.op = "ask", !.at = @ + 1]
    <3>1. c \in Frames /\ c.op = "ask" /\ c.n = n /\ c.at = k0 + 1 /\ c.logger = call[e].logger
      BY FrameMoves DEF IInv, Frames, Steps, InLog
    <3>2. Goto(e, c)
      BY <2>2 DEF AskSink, NextSink
    <3> HIDE DEF c
    <3>3. call' \in [Executor -> Frames] /\ call'[e] = c /\ \A f \in Executor \ {e} : call'[f] = call[f]
      BY <3>1, <3>2, Gone DEF IInv
    <3>4. CallFits(e)'
      BY <1>1, <1>3, <3>1, <3>3 DEF IInv, CallsFit, CallFits, InLog
    <3>5. s0 \notin msgs[n].takes
      BY <1>3, <2>2 DEF IInv, HistoryNow, Takes
    <3>6. \A k \in 1..Len(sinks) : k < k0 + 1 => Obeys(msgs[n], sinks[k], Has(out[sinks[k]], n))
      <4> SUFFICES ASSUME NEW k \in 1..Len(sinks), k < k0 + 1
                   PROVE  Obeys(msgs[n], sinks[k], Has(out[sinks[k]], n))
        OBVIOUS
      <4> HIDE DEF n, k0, sinks, s0
      <4>1. CASE k = k0
        BY <1>3, <1>5, <3>5, <4>1 DEF Obeys
      <4>2. CASE k < k0
        BY <1>4, <4>2
      <4>3. QED
        BY <1>3, <4>1, <4>2
    <3>7. \A s \in Sink : Has(out[s], n) => \E k \in 1..Len(sinks) : k < k0 + 1 /\ s = sinks[k]
      <4> HIDE DEF n, k0, sinks, s0
      <4> QED  BY <1>3, <1>4
    <3>8. LogRight(e)'
      BY <1>2, <3>1, <3>3, <3>6, <3>7 DEF LogRight
    <3>9. QED
      BY <3>1, <3>3, <3>4, <3>8 DEF CallRight, SendRight, FlushRight
  <2>3. QED
    BY <2>1, <2>2
<1>7. TypeInv' /\ LinesOnce'
  BY <1>2, <1>6 DEF IInv, TypeInv, LinesOnce
<1>8. \A m \in 1..Len(msgs) : m # n => Calm(m)
  BY <1>2 DEF Calm
<1>9. QED
  BY <1>2, <1>6, <1>7, <1>8, MoveKeeps

\* A line is added to the lines o of a sink, of which k and then k2 left the buffer.
LEMMA OneLineMore ==
    ASSUME NEW o \in Seq(Nat), NEW n \in Nat, NEW k \in Nat, NEW k2 \in Nat, k <= k2
    PROVE  /\ Append(o, n) \in Seq(Nat) /\ Len(Append(o, n)) = Len(o) + 1
           /\ \A i \in 1..Len(o) : Append(o, n)[i] = o[i]
           /\ Append(o, n)[Len(o) + 1] = n
           /\ Has(Append(o, n), n)
           /\ \A m : m # n => (Has(Append(o, n), m) <=> Has(o, m))
           /\ \A m : m # n /\ Secure(o, k, m) => Secure(Append(o, n), k2, m)
<1> DEFINE o2 == Append(o, n)
<1>1. o2 \in Seq(Nat) /\ Len(o2) = Len(o) + 1 /\ Len(o) \in Nat
  OBVIOUS
<1>2. (\A i \in 1..Len(o) : o2[i] = o[i]) /\ o2[Len(o) + 1] = n
  OBVIOUS
<1> HIDE DEF o2
<1>3. Has(o2, n)
  BY <1>1, <1>2 DEF Has
<1>4. ASSUME NEW m, m # n PROVE Has(o2, m) <=> Has(o, m)
  <2>1. ASSUME NEW i \in 1..Len(o2), o2[i] = m PROVE i \in 1..Len(o)
    BY <1>1, <1>2, <1>4, <2>1
  <2>2. QED
    BY <1>1, <1>2, <2>1 DEF Has
<1>5. ASSUME NEW m, m # n, Secure(o, k, m) PROVE Secure(o2, k2, m)
  <2> SUFFICES ASSUME NEW i \in 1..Len(o2), o2[i] = m PROVE i <= k2
    BY DEF Secure
  <2>1. i \in 1..Len(o)
    BY <1>1, <1>2, <1>5
  <2>2. i <= k
    BY <1>2, <1>5, <2>1 DEF Secure
  <2>3. QED
    BY <2>1, <2>2
<1>6. QED
  BY <1>1, <1>2, <1>3, <1>4, <1>5 DEF o2

\* The sink writes, unless its formatter throws.
LEMMA WriteKeeps ==
    ASSUME IInv, NoSinkTwice, NEW e \in Executor, WriteSink(e)
    PROVE  IInv'
<1> DEFINE n == call[e].n
           k0 == call[e].at
           sinks == SinksOf[call[e].logger]
           s0 == SinkAt(e)
           c == [call[e] EXCEPT !.op = "ask", !.at = @ + 1]
<1>1. call[e].op = "write" /\ Goto(e, c) /\ UNCHANGED <<queue, msgs, done, sinkLevel, formatter, flushLevel>>
  BY DEF WriteSink, At, NextSink, settings, history
<1>2. /\ call[e].logger \in Logger /\ sinks \in Seq(Sink) /\ k0 \in 1..Len(sinks) /\ s0 = sinks[k0] /\ s0 \in Sink
      /\ n \in 1..Len(msgs) /\ n \notin done /\ n # 0 /\ msgs[n].logger = call[e].logger
  <2>1. ~ PastSinks(e)
    <3>1. k0 <= Len(sinks) /\ k0 \in Nat /\ sinks \in Seq(Sink)
      BY <1>1, OnTheWay DEF IInv, CallsFit, CallFits
    <3>2. QED
      BY <3>1 DEF PastSinks
  <2>2. QED
    BY <1>1, <2>1, OnTheWay DEF SinkAt, IInv, CallsFit, CallFits, InLog
<1>3. /\ \A k \in 1..Len(sinks) : k < k0 => Obeys(msgs[n], sinks[k], Has(out[sinks[k]], n))
      /\ \A s \in Sink : Has(out[s], n) => \E k \in 1..Len(sinks) : k < k0 /\ s = sinks[k]
      /\ s0 \notin msgs[n].refuses
  BY <1>1, <1>2 DEF IInv, MessagesRight, CallRight, LogRight, InLog
<1>4. c \in Frames /\ c.op = "ask" /\ c.n = n /\ c.at = k0 + 1 /\ c.logger = call[e].logger
  BY FrameMoves DEF IInv, Frames, Steps, InLog
<1> HIDE DEF c
<1>5. call' \in [Executor -> Frames] /\ call'[e] = c /\ \A f \in Executor \ {e} : call'[f] = call[f]
  BY <1>1, <1>4, Gone DEF IInv
<1>6. CallFits(e)'
  BY <1>1, <1>2, <1>4, <1>5 DEF IInv, CallsFit, CallFits, InLog
<1>7. \A k \in 1..Len(sinks) : sinks[k] = s0 => k = k0
  BY <1>2 DEF NoSinkTwice
<1>8. ~ Has(out[s0], n)
  <2> HIDE DEF n, k0, sinks, s0
  <2> QED  BY <1>2, <1>3, <1>7
<1>9. \A s \in Sink : /\ out[s] \in Seq(Nat) /\ flushed[s] \in Nat /\ flushed[s] <= Len(out[s])
                      /\ \A i \in 1..Len(out[s]) : out[s][i] \in 1..Len(msgs)
                      /\ \A i, j \in 1..Len(out[s]) : out[s][i] = out[s][j] => i = j
  BY DEF IInv, TypeInv, LinesOnce
\* what the sink did, and that the others did nothing
<1>10. /\ out' \in [Sink -> Seq(Nat)] /\ flushed' \in [Sink -> Nat] /\ LinesOnce'
       /\ \A m : m # n => \A s \in Sink : /\ Has(out'[s], m) <=> Has(out[s], m)
                                          /\ Secure(out[s], flushed[s], m) => Secure(out'[s], flushed'[s], m)
       /\ \A s \in Sink \ {s0} : out'[s] = out[s]
       /\ Obeys(msgs[n], s0, Has(out'[s0], n))
  <2>1. CASE formatter[s0] \in Throwing
    <3>1. UNCHANGED <<out, flushed>>
      BY <2>1 DEF WriteSink, files
    <3>2. s0 \notin msgs[n].takes
      BY <1>2, <2>1 DEF IInv, HistoryNow, Takes
    <3>3. out' \in [Sink -> Seq(Nat)] /\ flushed' \in [Sink -> Nat] /\ LinesOnce'
      BY <1>1, <3>1 DEF IInv, TypeInv, LinesOnce
    <3>4. Obeys(msgs[n], s0, Has(out'[s0], n))
      BY <1>8, <3>1, <3>2 DEF Obeys
    <3>5. QED
      BY <3>1, <3>3, <3>4
  <2>2. CASE formatter[s0] \notin Throwing
    <3> DEFINE o2 == Append(out[s0], n)
    <3>1. SinkIt(s0, n)
      BY <2>2 DEF WriteSink
    <3>2. out' = [out EXCEPT ![s0] = o2]
      BY <3>1 DEF SinkIt, StdoutSinkIt, FileSinkIt
    <3>3. out \in [Sink -> Seq(Nat)] /\ flushed \in [Sink -> Nat] /\ n \in Nat
      BY <1>2 DEF IInv, TypeInv
    <3>4. o2 \in Seq(Nat)
      BY <1>2, <1>9, <3>3
    <3>5. out' \in [Sink -> Seq(Nat)] /\ out'[s0] = o2 /\ \A s \in Sink \ {s0} : out'[s] = out[s]
      BY <1>2, <3>2, <3>3, <3>4
    <3>6. /\ Len(o2) = Len(out[s0]) + 1 /\ Len(out[s0]) \in Nat
          /\ flushed[s0] \in Nat /\ flushed[s0] <= Len(out[s0])
      <4>1. s0 \in Sink
        BY <1>2
      <4> HIDE DEF s0
      <4>2. out[s0] \in Seq(Nat) /\ flushed[s0] \in Nat /\ flushed[s0] <= Len(out[s0])
        BY <1>9, <4>1
      <4>3. QED
        BY <4>2
    <3>7. /\ flushed' \in [Sink -> Nat] /\ (\A s \in Sink \ {s0} : flushed'[s] = flushed[s])
          /\ flushed[s0] <= flushed'[s0] /\ flushed'[s0] <= Len(o2)
      <4>1. CASE s0 \in Stream
        <5>1. flushed' = [flushed EXCEPT ![s0] = Len(o2)]
          BY <3>1, <3>5, <4>1 DEF SinkIt, StdoutSinkIt
        <5> HIDE DEF o2, s0, n
        <5>2. Len(o2) \in Nat /\ flushed[s0] <= Len(o2)
          BY <3>6
        <5>3. s0 \in Sink
          BY <1>2 DEF s0
        <5>4. flushed' \in [Sink -> Nat] /\ \A s \in Sink \ {s0} : flushed'[s] = flushed[s]
          BY <3>3, <5>1, <5>2, <5>3
        <5>5. flushed'[s0] = Len(o2) \/ flushed'[s0] = flushed[s0]
          BY <3>3, <5>1, <5>3
        <5>6. flushed[s0] <= flushed'[s0] /\ flushed'[s0] <= Len(o2)
          BY <3>6, <5>2, <5>5
        <5>7. QED
          BY <5>4, <5>6
      <4>2. CASE s0 \notin Stream
        <5>1. flushed' = flushed
          BY <3>1, <4>2 DEF SinkIt, FileSinkIt
        <5> HIDE DEF o2, s0, n
        <5>2. Len(o2) \in Nat /\ flushed[s0] <= Len(o2)
          BY <3>6
        <5>3. s0 \in Sink
          BY <1>2 DEF s0
        <5>4. flushed' \in [Sink -> Nat] /\ \A s \in Sink \ {s0} : flushed'[s] = flushed[s]
          BY <3>3, <5>1, <5>2, <5>3
        <5>5. flushed'[s0] = Len(o2) \/ flushed'[s0] = flushed[s0]
          BY <3>3, <5>1, <5>3
        <5>6. flushed[s0] <= flushed'[s0] /\ flushed'[s0] <= Len(o2)
          BY <3>6, <5>2, <5>5
        <5>7. QED
          BY <5>4, <5>6
      <4>3. QED
        BY <4>1, <4>2
    <3>8. flushed[s0] \in Nat /\ flushed'[s0] \in Nat
      BY <1>2, <3>3, <3>7
    <3>9. /\ \A i \in 1..Len(out[s0]) : o2[i] = out[s0][i]
          /\ o2[Len(out[s0]) + 1] = n
          /\ Has(o2, n)
          /\ \A m : m # n => (Has(o2, m) <=> Has(out[s0], m))
          /\ \A m : m # n /\ Secure(out[s0], flushed[s0], m) => Secure(o2, flushed'[s0], m)
      <4>1. s0 \in Sink
        BY <1>2
      <4>2. n \in Nat /\ flushed[s0] <= flushed'[s0]
        BY <3>3, <3>7
      <4> HIDE DEF n, s0
      <4>3. out[s0] \in Seq(Nat)
        BY <1>9, <4>1
      <4>4. QED
        BY <3>8, <4>2, <4>3, OneLineMore
    <3> HIDE DEF o2, n, s0, sinks, k0
    <3>10. \A i \in 1..Len(o2) : o2[i] \in 1..Len(msgs)
      <4> SUFFICES ASSUME NEW i \in 1..Len(o2) PROVE o2[i] \in 1..Len(msgs)
        OBVIOUS
      <4>1. CASE i = Len(out[s0]) + 1
        BY <1>2, <3>9, <4>1
      <4>2. CASE i \in 1..Len(out[s0])
        BY <1>2, <1>9, <3>9, <4>2
      <4>3. QED
        BY <3>6, <4>1, <4>2
    <3>11. \A i, j \in 1..Len(o2) : o2[i] = o2[j] => i = j
      <4> SUFFICES ASSUME NEW i \in 1..Len(o2), NEW j \in 1..Len(o2), o2[i] = o2[j] PROVE i = j
        OBVIOUS
      <4>1. \A k \in 1..Len(o2) : k \in 1..Len(out[s0]) \/ k = Len(out[s0]) + 1
        BY <3>6
      <4>2. \A k \in 1..Len(out[s0]) : o2[k] = out[s0][k] /\ o2[k] # n
        BY <1>8, <3>9 DEF Has
      <4>3. CASE i \in 1..Len(out[s0]) /\ j \in 1..Len(out[s0])
        BY <1>2, <1>9, <4>2, <4>3
      <4>4. QED
        BY <3>9, <4>1, <4>2, <4>3
    <3>12. LinesOnce'
      <4> SUFFICES ASSUME NEW s \in Sink
                   PROVE  /\ flushed'[s] <= Len(out'[s])
                          /\ \A i \in 1..Len(out'[s]) : out'[s][i] \in 1..Len(msgs')
                          /\ \A i, j \in 1..Len(out'[s]) : out'[s][i] = out'[s][j] => i = j
        BY DEF LinesOnce
      <4>1. CASE s = s0
        BY <1>1, <3>5, <3>7, <3>10, <3>11, <4>1
      <4>2. CASE s # s0
        BY <1>1, <1>9, <3>5, <3>7, <4>2
      <4>3. QED
        BY <4>1, <4>2
    <3>13. ASSUME NEW m, m # n, NEW s \in Sink
           PROVE  /\ Has(out'[s], m) <=> Has(out[s], m)
                  /\ Secure(out[s], flushed[s], m) => Secure(out'[s], flushed'[s], m)
      <4>1. CASE s = s0
        BY <3>5, <3>9, <3>13, <4>1
      <4>2. CASE s # s0
        BY <3>5, <3>7, <4>2
      <4>3. QED
        BY <4>1, <4>2
    <3>14. Obeys(msgs[n], s0, Has(out'[s0], n))
      <4>1. s0 \notin msgs[n].throws
        BY <1>2, <2>2 DEF IInv, HistoryNow
      <4>2. QED
        BY <1>3, <3>5, <3>9, <4>1 DEF Obeys
    <3>15. QED
      BY <3>5, <3>7, <3>12, <3>13, <3>14
  <2>3. QED
    BY <2>1, <2>2
<1>11. LogRight(e)'
  <2> HIDE DEF n, k0, sinks, s0
  <2>1. \A k \in 1..Len(sinks) : k < k0 + 1 => Obeys(msgs[n], sinks[k], Has(out'[sinks[k]], n))
    <3> SUFFICES ASSUME NEW k \in 1..Len(sinks), k < k0 + 1
                 PROVE  Obeys(msgs[n], sinks[k], Has(out'[sinks[k]], n))
      OBVIOUS
    <3>1. CASE k = k0
      BY <1>2, <1>10, <3>1
    <3>2. CASE k < k0
      <4>1. sinks[k] \in Sink \ {s0}
        BY <1>2, <1>7, <3>2
      <4>2. QED
        BY <1>3, <1>10, <3>2, <4>1
    <3>3. QED
      BY <1>2, <3>1, <3>2
  <2>2. ASSUME NEW s \in Sink, Has(out'[s], n) PROVE \E k \in 1..Len(sinks) : k < k0 + 1 /\ s = sinks[k]
    <3>1. CASE s = s0
      BY <1>2, <3>1
    <3>2. CASE s # s0
      <4>1. Has(out[s], n)
        BY <1>10, <2>2, <3>2
      <4>2. QED
        BY <1>2, <1>3, <4>1
    <3>3. QED
      BY <3>1, <3>2
  <2>3. QED
    BY <1>1, <1>4, <1>5, <2>1, <2>2 DEF LogRight, n, sinks
<1>12. CallRight(e)'
  BY <1>4, <1>5, <1>11 DEF CallRight, SendRight, FlushRight
<1>13. TypeInv'
  BY <1>1, <1>5, <1>10 DEF IInv, TypeInv
<1>14. \A m \in 1..Len(msgs) : m # n => Calm(m)
  BY <1>1, <1>10 DEF Calm
<1>15. QED
  BY <1>1, <1>4, <1>5, <1>6, <1>10, <1>12, <1>13, <1>14, MoveKeeps

\* Past its last sink, a log goes on to a flush or is over.
LEMMA EndLogKeeps ==
    ASSUME IInv, NEW e \in Executor, NEW n, n = call[e].n, EndLog(e)
    PROVE  IInv'
<1> DEFINE l == call[e].logger
           sinks == SinksOf[l]
<1>1. /\ call[e].op = "ask" /\ PastSinks(e)
      /\ UNCHANGED <<queue, msgs, out, flushed, sinkLevel, formatter, flushLevel>>
  BY DEF EndLog, At, settings, files
<1>2. /\ l \in Logger /\ sinks \in Seq(Sink) /\ \A k \in 1..Len(sinks) : k < call[e].at
      /\ n \in 1..Len(msgs) /\ n \notin done /\ n # 0 /\ n \in Nat /\ msgs[n].logger = l
  BY <1>1, OnTheWay DEF IInv, CallsFit, CallFits, InLog
<1>3. /\ \A k \in 1..Len(sinks) : Obeys(msgs[n], sinks[k], Has(out[sinks[k]], n))
      /\ \A s \in Sink : Has(out[s], n) => \E k \in 1..Len(sinks) : s = sinks[k]
  BY <1>1, <1>2 DEF IInv, MessagesRight, CallRight, LogRight, InLog
<1>4. Settled(msgs[n], out, n)
  <2>1. \A s : s \in Range(sinks) <=> \E k \in 1..Len(sinks) : s = sinks[k]
    <3>1. DOMAIN sinks = 1..Len(sinks)
      BY <1>2
    <3> HIDE DEF sinks
    <3>2. QED
      BY <3>1 DEF Range
  <2>2. SinksOf[msgs[n].logger] = sinks
    BY <1>2
  <2> HIDE DEF sinks
  <2>3. QED
    BY <1>3, <2>1, <2>2 DEF Settled
<1>5. TypeInv /\ LinesOnce /\ \A m \in 1..Len(msgs) : Calm(m)
  BY <1>1 DEF IInv, Calm
<1>6. CASE e # Worker /\ Admits(msgs[n].level, flushLevel[l])
  <2> DEFINE c == Frame("flush", l, n)
  <2>1. Goto(e, c) /\ done' = done
    BY <1>6 DEF EndLog
  <2>2. c \in Frames /\ c.op = "flush" /\ c.n = n /\ c.logger = l /\ c.at = 1
    BY <1>2, FrameTypes DEF Frame, Steps
  <2> HIDE DEF c
  <2>3. call' \in [Executor -> Frames] /\ call'[e] = c /\ \A f \in Executor \ {e} : call'[f] = call[f]
    BY <1>5, <2>1, <2>2, Gone
  <2>4. CallFits(e)'
    BY <1>2, <1>6, <2>2, <2>3 DEF CallFits, InLog
  <2>5. FlushRight(e)'
    <3>1. \A k \in 1..Len(sinks) : ~ k < 1
      OBVIOUS
    <3>2. QED
      BY <1>1, <1>4, <2>2, <2>3, <3>1 DEF FlushRight
  <2>6. CallRight(e)'
    BY <2>2, <2>3, <2>5 DEF CallRight, SendRight, LogRight, InLog
  <2>7. TypeInv' /\ LinesOnce'
    BY <1>1, <1>5, <2>1, <2>3 DEF TypeInv, LinesOnce
  <2>8. QED
    BY <1>1, <1>5, <2>1, <2>2, <2>3, <2>4, <2>6, <2>7, MoveKeeps
<1>7. CASE ~ (e # Worker /\ Admits(msgs[n].level, flushLevel[l]))
  <2>1. Goto(e, Idle) /\ done' = done \cup {n}
    BY <1>7 DEF EndLog
  <2>2. Idle \in Frames /\ Idle.op = "idle" /\ Idle.n = 0
    BY FrameTypes DEF Idle
  <2>3. call' \in [Executor -> Frames] /\ call'[e] = Idle /\ \A f \in Executor \ {e} : call'[f] = call[f]
    BY <1>5, <2>1, <2>2, Gone
  <2>4. CallFits(e)'
    BY <2>2, <2>3 DEF CallFits, InLog
  <2>5. CallRight(e)'
    BY <2>2, <2>3 DEF CallRight, SendRight, LogRight, FlushRight, InLog
  <2>6. ~ (msgs[n].flush /\ l \notin Async)
    <3>1. CASE e = Worker
      BY <1>2, <3>1 DEF IInv, CallsFit, CallFits
    <3>2. CASE e # Worker
      BY <1>2, <1>7, <3>2 DEF IInv, HistoryNow
    <3>3. QED
      BY <3>1, <3>2
  <2>7. DoneRight(n)'
    BY <1>1, <1>2, <1>4, <2>6 DEF DoneRight
  <2>8. TypeInv' /\ LinesOnce'
    BY <1>1, <1>2, <1>5, <2>1, <2>3 DEF TypeInv, LinesOnce
  <2>9. QED
    BY <1>1, <1>2, <1>5, <2>1, <2>2, <2>3, <2>4, <2>5, <2>7, <2>8, MoveKeeps
<1>8. QED
  BY <1>6, <1>7

\* A flush goes to the next sink, or is over.
LEMMA FlushSinkKeeps ==
    ASSUME IInv, NEW e \in Executor, NEW n, n = call[e].n, FlushSink(e)
    PROVE  IInv'
<1> DEFINE k0 == call[e].at
           sinks == SinksOf[call[e].logger]
           s0 == SinkAt(e)
<1>1. call[e].op = "flush" /\ UNCHANGED <<queue, msgs, out, sinkLevel, formatter, flushLevel>>
  BY DEF FlushSink, At, settings
<1>2. /\ call[e].logger \in Logger /\ sinks \in Seq(Sink) /\ k0 \in Nat \ {0} /\ n \in Nat
      /\ ~ PastSinks(e) => k0 \in 1..Len(sinks) /\ s0 = sinks[k0] /\ s0 \in Sink
      /\ PastSinks(e) => \A k \in 1..Len(sinks) : k < k0
      /\ n # 0 => n \in 1..Len(msgs) /\ n \notin done /\ msgs[n].logger = call[e].logger
  BY <1>1, OnTheWay DEF SinkAt
<1>3. n # 0 => /\ Settled(msgs[n], out, n)
               /\ \A k \in 1..Len(sinks) : k < k0 => Secure(out[sinks[k]], flushed[sinks[k]], n)
  BY <1>1 DEF IInv, MessagesRight, CallRight, FlushRight
<1>4. CASE PastSinks(e)
  <2>1. Goto(e, Idle) /\ flushed' = flushed /\ done' = IF n = 0 THEN done ELSE done \cup {n}
    BY <1>4 DEF FlushSink
  <2>2. Idle \in Frames /\ Idle.op = "idle" /\ Idle.n = 0
    BY FrameTypes DEF Idle
  <2>3. call' \in [Executor -> Frames] /\ call'[e] = Idle /\ \A f \in Executor \ {e} : call'[f] = call[f]
    BY <2>1, <2>2, Gone DEF IInv
  <2>4. CallFits(e)'
    BY <2>2, <2>3 DEF CallFits, InLog
  <2>5. CASE n = 0
    BY <1>1, <2>1, <2>2, <2>3, <2>4, <2>5, AsideKeeps
  <2>6. CASE n # 0
    <3>1. CallRight(e)'
      BY <2>2, <2>3 DEF CallRight, SendRight, LogRight, FlushRight, InLog
    <3>2. \A s \in Sink : Secure(out[s], flushed[s], n)
      <4> SUFFICES ASSUME NEW s \in Sink PROVE Secure(out[s], flushed[s], n)
        OBVIOUS
      <4>1. CASE s \in Range(sinks)
        <5>1. PICK k \in 1..Len(sinks) : s = sinks[k]
          BY <1>2, <4>1 DEF Range
        <5>2. k < k0
          BY <1>2, <1>4
        <5>3. QED
          BY <1>3, <2>6, <5>1, <5>2
      <4>2. CASE s \notin Range(sinks)
        <5>1. ~ Has(out[s], n)
          BY <1>2, <1>3, <2>6, <4>2 DEF Settled
        <5>2. QED
          BY <5>1 DEF Has, Secure
      <4>3. QED
        BY <4>1, <4>2
    <3>3. DoneRight(n)'
      BY <1>1, <1>3, <2>1, <2>6, <3>2 DEF DoneRight
    <3>4. TypeInv' /\ LinesOnce'
      BY <1>1, <1>2, <2>1, <2>3, <2>6 DEF IInv, TypeInv, LinesOnce
    <3>5. \A m \in 1..Len(msgs) : Calm(m)
      BY <1>1, <2>1 DEF Calm
    <3>6. QED
      BY <1>1, <2>1, <2>2, <2>3, <2>4, <2>6, <3>1, <3>3, <3>4, <3>5, MoveKeeps
  <2>7. QED
    BY <2>5, <2>6
<1>5. CASE ~ PastSinks(e)
  <2> DEFINE c == [call[e] EXCEPT !.op = "flush", !.at = @ + 1]
  <2>1. Goto(e, c) /\ done' = done /\ flushed' = [flushed EXCEPT ![s0] = Len(out[s0])]
    BY <1>5 DEF FlushSink, SinkFlush, NextSink
  <2>2. c \in Frames /\ c.op = "flush" /\ c.n = n /\ c.at = k0 + 1 /\ c.logger = call[e].logger
    BY FrameMoves DEF IInv, Frames, Steps
  <2> HIDE DEF c
  <2>3. call' \in [Executor -> Frames] /\ call'[e] = c /\ \A f \in Executor \ {e} : call'[f] = call[f]
    BY <2>1, <2>2, Gone DEF IInv
  <2>4. CallFits(e)'
    BY <1>1, <1>2, <2>2, <2>3 DEF IInv, CallsFit, CallFits, InLog
  <2>5. s0 \in Sink /\ k0 \in 1..Len(sinks) /\ s0 = sinks[k0]
    BY <1>2, <1>5
  <2>6. flushed \in [Sink -> Nat] /\ \A s \in Sink : out[s] \in Seq(Nat) /\ flushed[s] <= Len(out[s])
    BY DEF IInv, TypeInv, LinesOnce
  <2>7. /\ flushed' \in [Sink -> Nat] /\ flushed'[s0] = Len(out[s0])
        /\ \A s \in Sink \ {s0} : flushed'[s] = flushed[s]
    <3>1. Len(out[s0]) \in Nat
      BY <2>5, <2>6
    <3> HIDE DEF s0
    <3>2. QED
      BY <2>1, <2>5, <2>6, <3>1
  <2>8. \A s \in Sink : flushed'[s] <= Len(out[s])
    <3> HIDE DEF s0
    <3>1. Len(out[s0]) \in Nat
      BY <2>5, <2>6
    <3>2. QED
      BY <2>6, <2>7, <3>1
  <2>9. \A m : Secure(out[s0], flushed'[s0], m)
    <3>1. Len(out[s0]) \in Nat
      BY <2>5, <2>6
    <3> HIDE DEF s0
    <3>2. QED
      BY <2>7, <3>1 DEF Secure
  <2>10. \A m : \A s \in Sink : Secure(out[s], flushed[s], m) => Secure(out[s], flushed'[s], m)
    BY <2>7, <2>9
  <2>11. \A m \in 1..Len(msgs) : Calm(m)
    BY <1>1, <2>10 DEF Calm
  <2>12. FlushRight(e)'
    <3> SUFFICES ASSUME n # 0
                 PROVE  /\ Settled(msgs[n], out, n)
                        /\ \A k \in 1..Len(sinks) : k < k0 + 1 => Secure(out[sinks[k]], flushed'[sinks[k]], n)
      BY <1>1, <2>2, <2>3 DEF FlushRight
    <3> HIDE DEF k0, sinks, s0
    <3>1. ASSUME NEW k \in 1..Len(sinks), k < k0 + 1 PROVE Secure(out[sinks[k]], flushed'[sinks[k]], n)
      <4>1. CASE k = k0
        BY <2>5, <2>9, <4>1
      <4>2. CASE k < k0
        <5>1. sinks[k] \in Sink
          BY <1>2
        <5>2. QED
          BY <1>3, <2>10, <4>2, <5>1
      <4>3. QED
        BY <2>5, <3>1, <4>1, <4>2
    <3>2. QED
      BY <1>3, <3>1
  <2>13. CallRight(e)'
    BY <2>2, <2>3, <2>12 DEF CallRight, SendRight, LogRight, InLog
  <2>14. TypeInv' /\ LinesOnce'
    BY <1>1, <2>1, <2>3, <2>7, <2>8 DEF IInv, TypeInv, LinesOnce
  <2>15. QED
    BY <1>1, <2>1, <2>2, <2>3, <2>4, <2>11, <2>13, <2>14, MoveKeeps
<1>6. QED
  BY <1>4, <1>5

\* What an executor does next in a log or a flush.
LEMMA StepKeeps ==
    ASSUME IInv, NoSinkTwice, NEW e \in Executor, Step(e)
    PROVE  IInv'
<1>1. CASE AskSink(e)
  BY <1>1, AskKeeps
<1>2. CASE WriteSink(e)
  BY <1>2, WriteKeeps
<1>3. CASE EndLog(e)
  BY <1>3, EndLogKeeps
<1>4. CASE FlushSink(e)
  BY <1>4, FlushSinkKeeps
<1>5. QED
  BY <1>1, <1>2, <1>3, <1>4 DEF Step

\* What the history says after a setting.
LEMMA Judged ==
    ASSUME TypeInv, Judge(sinkLevel', formatter', flushLevel')
    PROVE  /\ msgs' \in Seq(Messages) /\ Len(msgs') = Len(msgs)
           /\ \A n \in 1..Len(msgs) :
                /\ n \in done => msgs'[n] = msgs[n]
                /\ msgs'[n].level = msgs[n].level /\ msgs'[n].logger = msgs[n].logger
                /\ msgs'[n].takes \subseteq msgs[n].takes
                /\ msgs'[n].refuses \subseteq msgs[n].refuses /\ msgs'[n].throws \subseteq msgs[n].throws
                /\ msgs'[n].flush => msgs[n].flush
                /\ n \notin done =>
                     /\ \A s \in msgs'[n].takes : Takes(s, msgs'[n].level, sinkLevel', formatter')
                     /\ \A s \in msgs'[n].refuses : ~ Admits(msgs'[n].level, sinkLevel'[s])
                     /\ \A s \in msgs'[n].throws : formatter'[s] \in Throwing
                     /\ msgs'[n].flush => Admits(msgs'[n].level, flushLevel'[msgs'[n].logger])
<1> DEFINE N == Len(msgs)
           revised(m) == [m EXCEPT !.takes = {s \in @ : Takes(s, m.level, sinkLevel', formatter')},
                                   !.refuses = {s \in @ : ~ Admits(m.level, sinkLevel'[s])},
                                   !.throws = {s \in @ : formatter'[s] \in Throwing},
                                   !.flush = @ /\ Admits(m.level, flushLevel'[m.logger])]
<1>1. N \in Nat /\ DOMAIN msgs = 1..N /\ \A n \in 1..N : msgs[n] \in Messages
  BY DEF TypeInv
<1>2. msgs' = [n \in 1..N |-> IF n \in done THEN msgs[n] ELSE revised(msgs[n])]
  BY <1>1 DEF Judge
<1>3. ASSUME NEW m \in Messages
      PROVE  /\ revised(m) \in Messages /\ revised(m).level = m.level /\ revised(m).logger = m.logger
             /\ revised(m).takes = {s \in m.takes : Takes(s, m.level, sinkLevel', formatter')}
             /\ revised(m).refuses = {s \in m.refuses : ~ Admits(m.level, sinkLevel'[s])}
             /\ revised(m).throws = {s \in m.throws : formatter'[s] \in Throwing}
             /\ revised(m).flush = (m.flush /\ Admits(m.level, flushLevel'[m.logger]))
  BY <1>3 DEF Messages
<1> HIDE DEF revised, N
<1>4. msgs' \in Seq(Messages) /\ Len(msgs') = N
  BY <1>1, <1>2, <1>3
<1>5. ASSUME NEW n \in 1..N
      PROVE  /\ n \in done => msgs'[n] = msgs[n]
             /\ n \notin done => msgs'[n] = revised(msgs[n])
  BY <1>2
<1>6. ASSUME NEW n \in 1..N
      PROVE  /\ n \in done => msgs'[n] = msgs[n]
             /\ msgs'[n].level = msgs[n].level /\ msgs'[n].logger = msgs[n].logger
             /\ msgs'[n].takes \subseteq msgs[n].takes
             /\ msgs'[n].refuses \subseteq msgs[n].refuses /\ msgs'[n].throws \subseteq msgs[n].throws
             /\ msgs'[n].flush => msgs[n].flush
             /\ n \notin done =>
                  /\ \A s \in msgs'[n].takes : Takes(s, msgs'[n].level, sinkLevel', formatter')
                  /\ \A s \in msgs'[n].refuses : ~ Admits(msgs'[n].level, sinkLevel'[s])
                  /\ \A s \in msgs'[n].throws : formatter'[s] \in Throwing
                  /\ msgs'[n].flush => Admits(msgs'[n].level, flushLevel'[msgs'[n].logger])
  <2>1. CASE n \in done
    BY <1>5, <2>1
  <2>2. CASE n \notin done
    <3> DEFINE m == msgs[n]
    <3>1. m \in Messages /\ msgs'[n] = revised(m)
      BY <1>1, <1>5, <2>2
    <3> HIDE DEF m
    <3>2. /\ revised(m).level = m.level /\ revised(m).logger = m.logger
          /\ revised(m).takes = {s \in m.takes : Takes(s, m.level, sinkLevel', formatter')}
          /\ revised(m).refuses = {s \in m.refuses : ~ Admits(m.level, sinkLevel'[s])}
          /\ revised(m).throws = {s \in m.throws : formatter'[s] \in Throwing}
          /\ revised(m).flush = (m.flush /\ Admits(m.level, flushLevel'[m.logger]))
      BY <1>3, <3>1
    <3>3. QED
      BY <2>2, <3>1, <3>2 DEF m
  <2>3. QED
    BY <2>1, <2>2
<1>7. QED
  BY <1>4, <1>6 DEF N

\* A level or a formatter is set, by an executor that has no message.
LEMMA SetKeeps ==
    ASSUME IInv, NEW e \in Executor, \A f \in Executor \ {e} : call'[f] = call[f],
           call' \in [Executor -> Frames], call[e].n = 0, call'[e].n = 0, CallFits(e)',
           Judge(sinkLevel', formatter', flushLevel'), UNCHANGED <<queue, done, out, flushed>>
    PROVE  IInv'
<1>1. TypeInv /\ TypeInv' /\ Len(msgs') = Len(msgs) /\ msgs' \in Seq(Messages)
  BY Judged DEF IInv, TypeInv
<1>2. \A m \in 1..Len(msgs) : Calm(m) /\ msgs'[m].logger = msgs[m].logger
  BY <1>1, Judged DEF Calm
<1>3. LinesOnce'
  BY <1>1 DEF IInv, LinesOnce
<1>4. HistoryNow'
  BY <1>1, Judged DEF HistoryNow
<1>5. OneHand'
  <2>1. \A f \in Executor : call'[f].n # 0 => call'[f] = call[f] /\ call[f].n # 0
    OBVIOUS
  <2>2. \A m \in 1..Len(msgs) : msgs'[m].logger = msgs[m].logger
    BY <1>2
  <2>3. QED
    BY <1>1, <2>1, <2>2 DEF IInv, OneHand
<1>6. CallRight(e)'
  BY DEF CallRight, SendRight, LogRight, FlushRight, CallFits
<1>7. CallsFit' /\ (\A f \in Executor : CallRight(f)') /\ \A n \in done : DoneRight(n)'
  BY <1>2, <1>6, OthersKept
<1>8. ASSUME NEW i \in 1..Len(queue') PROVE TaskRight(i)'
  <2>1. i \in 1..Len(queue) /\ queue'[i] = queue[i] /\ TaskRight(i)
    BY DEF IInv, MessagesRight
  <2>2. queue[i].n # 0 => Calm(queue[i].n)
    BY <1>2, <2>1 DEF IInv, OneHand
  <2>3. QED
    BY <2>1, <2>2, TaskKept
<1>9. MessagesRight'
  BY <1>7, <1>8 DEF MessagesRight
<1>10. QED
  BY <1>1, <1>3, <1>4, <1>5, <1>7, <1>9 DEF IInv

\* The levels are levels.
LEMMA LevelTypes == \A c : CToCpp(c) \in LogLevel
BY DEF CToCpp, LogLevel, DEBUG, OFF

\* A message is made.
LEMMA ForceLogKeeps ==
    ASSUME IInv, NEW t \in Thread, NEW l \in Logger, NEW lvl \in LogLevel, ForceLog(t, l, lvl)
    PROVE  IInv'
<1> DEFINE N == Len(msgs)
           op == IF l \in Async THEN "send" ELSE "ask"
           c == Frame(op, l, N + 1)
           m == [level |-> lvl, logger |-> l,
                 takes |-> {s \in Sink : Takes(s, lvl, sinkLevel, formatter)},
                 refuses |-> {s \in Sink : ~ Admits(lvl, sinkLevel[s])},
                 throws |-> {s \in Sink : formatter[s] \in Throwing},
                 flush |-> Admits(lvl, flushLevel[l])]
<1>1. /\ call[t].op = "idle" /\ msgs' = Append(msgs, m) /\ Goto(t, c)
      /\ UNCHANGED <<queue, done, out, flushed, sinkLevel, formatter, flushLevel>>
  BY DEF ForceLog, IsIdle, At, settings, files
<1>2. t \in Executor /\ t # Worker /\ call[t].n = 0
  BY <1>1, LoggersAssumption DEF Executor, IInv, CallsFit, CallFits
<1>3. msgs \in Seq(Messages) /\ N \in Nat
  BY DEF IInv, TypeInv
<1>4. m \in Messages
  BY DEF Messages, Admits
<1>5. c \in Frames /\ c.op = op /\ op \in {"send", "ask"} /\ c.logger = l /\ c.n = N + 1 /\ c.at = 1
  BY <1>3, FrameTypes DEF Frame, Steps, InLog
<1> HIDE DEF c
<1>6. call' \in [Executor -> Frames] /\ call'[t] = c /\ \A f \in Executor \ {t} : call'[f] = call[f]
  BY <1>1, <1>2, <1>5, Gone DEF IInv
<1>7. /\ m.level = lvl /\ m.logger = l /\ \A s \in m.takes : Takes(s, lvl, sinkLevel, formatter)
      /\ \A s \in m.refuses : ~ Admits(lvl, sinkLevel[s])
      /\ \A s \in m.throws : formatter[s] \in Throwing
      /\ m.flush => Admits(lvl, flushLevel[l])
  OBVIOUS
<1> HIDE DEF m
<1>8. msgs' \in Seq(Messages) /\ Len(msgs') = N + 1 /\ msgs'[N + 1] = m /\ \A k \in 1..N : msgs'[k] = msgs[k]
  BY <1>1, <1>3, <1>4
<1> HIDE DEF N
<1>9. \A k \in 1..N : Calm(k)
  BY <1>1, <1>8 DEF Calm
<1>10. TypeInv' /\ LinesOnce'
  BY <1>1, <1>3, <1>6, <1>8 DEF IInv, TypeInv, LinesOnce, N
<1>11. HistoryNow'
  <2> SUFFICES ASSUME NEW k \in 1..(N + 1), k \notin done
               PROVE  /\ \A s \in msgs'[k].takes : Takes(s, msgs'[k].level, sinkLevel, formatter)
                      /\ \A s \in msgs'[k].refuses : ~ Admits(msgs'[k].level, sinkLevel[s])
                      /\ \A s \in msgs'[k].throws : formatter[s] \in Throwing
                      /\ msgs'[k].flush => Admits(msgs'[k].level, flushLevel[msgs'[k].logger])
    BY <1>1, <1>8 DEF HistoryNow, Takes
  <2>1. CASE k \in 1..N
    BY <1>8, <2>1 DEF IInv, HistoryNow, N
  <2>2. CASE k = N + 1
    BY <1>7, <1>8, <2>2
  <2>3. QED
    BY <1>3, <2>1, <2>2
<1>12. N + 1 \notin 1..N /\ N + 1 \notin done /\ N + 1 \in 1..(N + 1) /\ N + 1 # 0 /\ 1..N \subseteq 1..(N + 1)
  BY <1>3 DEF IInv, TypeInv, N
<1>13. OneHand'
  <2>1. \A f \in Executor \ {t} : call[f].n # 0 => /\ call[f].n \in 1..N /\ call[f].n \notin done
                                                   /\ msgs[call[f].n].logger = call[f].logger
    BY DEF IInv, OneHand, N
  <2>2. \A f, g \in Executor : call[f].n # 0 /\ call[g].n = call[f].n => g = f
    BY DEF IInv, OneHand
  <2>3. \A i \in 1..Len(queue) : queue[i].n # 0 =>
          /\ queue[i].n \in 1..N /\ queue[i].n \notin done
          /\ msgs[queue[i].n].logger = queue[i].logger /\ queue[i].logger \in Async
    BY DEF IInv, OneHand, N
  <2>4. \A i, j \in 1..Len(queue) : queue[i].n # 0 /\ queue[j].n = queue[i].n => j = i
    BY DEF IInv, OneHand
  <2>5. \A f \in Executor, i \in 1..Len(queue) : call[f].n # 0 => queue[i].n # call[f].n
    BY DEF IInv, OneHand
  <2>6. \A f \in Executor : call'[f].n # 0 =>
          /\ call'[f].n \in 1..Len(msgs') /\ call'[f].n \notin done'
          /\ msgs'[call'[f].n].logger = call'[f].logger
    BY <1>1, <1>5, <1>6, <1>7, <1>8, <1>12, <2>1
  <2>7. \A f, g \in Executor : call'[f].n # 0 /\ call'[g].n = call'[f].n => g = f
    BY <1>5, <1>6, <1>12, <2>1, <2>2
  <2>8. \A i \in 1..Len(queue') : queue'[i].n # 0 =>
          /\ queue'[i].n \in 1..Len(msgs') /\ queue'[i].n \notin done'
          /\ msgs'[queue'[i].n].logger = queue'[i].logger /\ queue'[i].logger \in Async
    BY <1>1, <1>8, <1>12, <2>3
  <2>9. \A f \in Executor, i \in 1..Len(queue') : call'[f].n # 0 => queue'[i].n # call'[f].n
    BY <1>1, <1>5, <1>6, <1>12, <2>3, <2>5
  <2>10. QED
    BY <1>1, <2>4, <2>6, <2>7, <2>8, <2>9 DEF OneHand
<1>14. \A s \in Sink : ~ Has(out'[s], N + 1)
  BY <1>1, <1>12 DEF IInv, LinesOnce, Has, N
<1>15. CallFits(t)'
  BY <1>2, <1>5, <1>6, <1>12 DEF CallFits, InLog
<1>16. CallRight(t)'
  <2>1. SendRight(t)'
    BY <1>5, <1>6, <1>14 DEF SendRight
  <2>2. LogRight(t)'
    <3>1. \A k : k \in 1..Len(SinksOf[l]) => ~ k < 1
      OBVIOUS
    <3>2. QED
      BY <1>5, <1>6, <1>14, <3>1 DEF LogRight
  <2>3. FlushRight(t)'
    BY <1>5, <1>6 DEF FlushRight
  <2>4. QED
    BY <2>1, <2>2, <2>3 DEF CallRight
<1>17. CallsFit' /\ (\A f \in Executor : CallRight(f)') /\ \A k \in done : DoneRight(k)'
  BY <1>2, <1>6, <1>9, <1>15, <1>16, OthersKept DEF N
<1>18. ASSUME NEW i \in 1..Len(queue') PROVE TaskRight(i)'
  <2>1. i \in 1..Len(queue) /\ queue'[i] = queue[i] /\ TaskRight(i)
    BY <1>1 DEF IInv, MessagesRight
  <2>2. queue[i].n # 0 => Calm(queue[i].n)
    BY <1>9, <2>1 DEF IInv, OneHand, N
  <2>3. QED
    BY <2>1, <2>2, TaskKept
<1>19. MessagesRight'
  BY <1>1, <1>17, <1>18 DEF MessagesRight
<1>20. QED
  BY <1>10, <1>11, <1>13, <1>17, <1>19 DEF IInv

\* A message or a flush is put into the queue.
LEMMA SendKeeps ==
    ASSUME IInv, NEW t \in Thread, NEW n, n = call[t].n, Send(t)
    PROVE  IInv'
<1> DEFINE N == Len(queue)
           task == [logger |-> call[t].logger, n |-> n]
           c == IF Pool \in held \/ \E u \in Thread \ {t} : At(u, "send")
                THEN Idle ELSE [Idle EXCEPT !.op = "join"]
<1>1. /\ call[t].op = "send" /\ queue' = Append(queue, task) /\ Goto(t, c)
      /\ UNCHANGED <<msgs, done, out, flushed, sinkLevel, formatter, flushLevel>>
  BY DEF Send, At, settings, files
<1>2. t \in Executor /\ call[t].logger \in Async /\ call[t].logger \in Logger /\ n \in Nat
  BY <1>1, LoggersAssumption, FrameMoves DEF Executor, IInv, CallsFit, CallFits, Frames
<1>3. queue \in Seq(Tasks) /\ N \in Nat /\ task \in Tasks /\ task.n = n /\ task.logger = call[t].logger
  BY <1>2 DEF IInv, TypeInv, Tasks
<1>4. c \in Frames /\ c.op \in {"idle", "join"} /\ c.n = 0
  BY FrameTypes DEF Idle
<1> HIDE DEF c, task
<1>5. call' \in [Executor -> Frames] /\ call'[t] = c /\ \A f \in Executor \ {t} : call'[f] = call[f]
  BY <1>1, <1>2, <1>4, Gone DEF IInv
<1>6. queue' \in Seq(Tasks) /\ Len(queue') = N + 1 /\ queue'[N + 1] = task /\ \A i \in 1..N : queue'[i] = queue[i]
  BY <1>1, <1>3
<1>7. \A m \in 1..Len(msgs) : Calm(m)
  BY <1>1 DEF Calm
<1>8. TypeInv' /\ LinesOnce' /\ HistoryNow'
  BY <1>1, <1>5, <1>6 DEF IInv, TypeInv, LinesOnce, HistoryNow
<1>9. CallFits(t)' /\ CallRight(t)'
  BY <1>4, <1>5 DEF CallFits, CallRight, SendRight, LogRight, FlushRight, InLog
<1>10. CallsFit' /\ (\A f \in Executor : CallRight(f)') /\ \A m \in done : DoneRight(m)'
  BY <1>2, <1>5, <1>7, <1>9, OthersKept
<1> HIDE DEF N
<1>11. \A i \in 1..(N + 1) : i \in 1..N \/ i = N + 1
  BY <1>3
<1>12. n # 0 => n \in 1..Len(msgs) /\ n \notin done /\ msgs[n].logger = call[t].logger
  BY <1>2 DEF IInv, OneHand
<1>13. OneHand'
  <2>1. /\ \A f \in Executor : call[f].n # 0 => /\ call[f].n \in 1..Len(msgs) /\ call[f].n \notin done
                                                /\ msgs[call[f].n].logger = call[f].logger
        /\ \A f, g \in Executor : call[f].n # 0 /\ call[g].n = call[f].n => g = f
    BY DEF IInv, OneHand
  <2>2. \A i \in 1..N : queue[i].n # 0 =>
          /\ queue[i].n \in 1..Len(msgs) /\ queue[i].n \notin done
          /\ msgs[queue[i].n].logger = queue[i].logger /\ queue[i].logger \in Async
    BY DEF IInv, OneHand, N
  <2>3. \A i, j \in 1..N : queue[i].n # 0 /\ queue[j].n = queue[i].n => j = i
    BY DEF IInv, OneHand, N
  <2>4. \A f \in Executor, i \in 1..N : call[f].n # 0 => queue[i].n # call[f].n
    BY DEF IInv, OneHand, N
  <2>5. /\ \A f \in Executor : call'[f].n # 0 =>
             /\ call'[f].n \in 1..Len(msgs') /\ call'[f].n \notin done'
             /\ msgs'[call'[f].n].logger = call'[f].logger
        /\ \A f, g \in Executor : call'[f].n # 0 /\ call'[g].n = call'[f].n => g = f
    BY <1>1, <1>4, <1>5, <2>1
  <2>6. \A i \in 1..(N + 1) : queue'[i].n # 0 =>
          /\ queue'[i].n \in 1..Len(msgs') /\ queue'[i].n \notin done'
          /\ msgs'[queue'[i].n].logger = queue'[i].logger /\ queue'[i].logger \in Async
    BY <1>1, <1>2, <1>3, <1>6, <1>11, <1>12, <2>2
  <2>7. \A i, j \in 1..(N + 1) : queue'[i].n # 0 /\ queue'[j].n = queue'[i].n => j = i
    <3> SUFFICES ASSUME NEW i \in 1..(N + 1), NEW j \in 1..(N + 1), queue'[i].n # 0, queue'[j].n = queue'[i].n
                 PROVE  j = i
      OBVIOUS
    <3>1. \A k \in 1..N : n # 0 => queue[k].n # n
      BY <1>2, <2>4
    <3>2. QED
      BY <1>3, <1>6, <1>11, <2>3, <3>1
  <2>8. \A f \in Executor, i \in 1..(N + 1) : call'[f].n # 0 => queue'[i].n # call'[f].n
    <3> SUFFICES ASSUME NEW f \in Executor \ {t}, NEW i \in 1..(N + 1), call[f].n # 0
                 PROVE  queue'[i].n # call[f].n
      BY <1>4, <1>5
    <3>1. call[f].n # n
      BY <1>2, <2>1
    <3>2. QED
      BY <1>3, <1>6, <1>11, <2>4, <3>1
  <2>9. QED
    BY <1>6, <2>5, <2>6, <2>7, <2>8 DEF OneHand
<1>14. ASSUME NEW i \in 1..Len(queue') PROVE TaskRight(i)'
  <2>1. CASE i \in 1..N
    <3>1. queue'[i] = queue[i] /\ TaskRight(i)
      BY <1>6, <2>1 DEF IInv, MessagesRight, N
    <3>2. queue[i].n # 0 => Calm(queue[i].n)
      BY <1>7, <2>1 DEF IInv, OneHand, N
    <3>3. QED
      BY <3>1, <3>2, TaskKept
  <2>2. CASE i = N + 1
    <3>1. n # 0 => \A s \in Sink : ~ Has(out[s], n)
      BY <1>1, <1>2 DEF IInv, MessagesRight, CallRight, SendRight
    <3>2. QED
      BY <1>1, <1>3, <1>6, <2>2, <3>1 DEF TaskRight
  <2>3. QED
    BY <1>6, <1>11, <2>1, <2>2
<1>15. MessagesRight'
  BY <1>1, <1>10, <1>14 DEF MessagesRight
<1>16. QED
  BY <1>8, <1>10, <1>13, <1>15 DEF IInv

\* The worker takes a task.
LEMMA DequeueKeeps ==
    ASSUME IInv, Dequeue
    PROVE  IInv'
<1> DEFINE N == Len(queue)
           task == Head(queue)
           op == IF task.n = 0 THEN "flush" ELSE "ask"
           c == Frame(op, task.logger, task.n)
<1>1. /\ call[Worker].op = "idle" /\ queue # <<>> /\ queue' = Tail(queue) /\ Goto(Worker, c)
      /\ UNCHANGED <<msgs, done, out, flushed, sinkLevel, formatter, flushLevel>>
  BY DEF Dequeue, IsIdle, At, settings, files, history
<1>2. Worker \in Executor /\ call[Worker].n = 0
  BY <1>1 DEF Executor, IInv, CallsFit, CallFits
<1>3. queue \in Seq(Tasks) /\ N \in Nat /\ 1 \in 1..N /\ task = queue[1] /\ task \in Tasks
  BY <1>1 DEF IInv, TypeInv
<1>4. queue' \in Seq(Tasks) /\ Len(queue') = N - 1 /\ \A i \in 1..(N - 1) : i + 1 \in 1..N /\ queue'[i] = queue[i + 1]
  BY <1>1, <1>3
<1>5. task.n \in Nat /\ task.logger \in Logger
  BY <1>3 DEF Tasks
<1>6. /\ c \in Frames /\ c.op = op /\ c.logger = task.logger /\ c.n = task.n /\ c.at = 1
      /\ (op = "flush" /\ task.n = 0) \/ (op = "ask" /\ task.n # 0)
  <2>1. op \in Steps /\ ((op = "flush" /\ task.n = 0) \/ (op = "ask" /\ task.n # 0))
    BY DEF Steps, InLog
  <2> HIDE DEF op, task
  <2>2. c \in Frames
    BY <1>5, <2>1, FrameTypes
  <2>3. c.op = op /\ c.logger = task.logger /\ c.n = task.n /\ c.at = 1
    BY DEF Frame
  <2>4. QED
    BY <2>1, <2>2, <2>3
<1> HIDE DEF c, op, task
<1>7. call' \in [Executor -> Frames] /\ call'[Worker] = c /\ \A f \in Executor \ {Worker} : call'[f] = call[f]
  BY <1>1, <1>2, <1>6, Gone DEF IInv
<1>8. \A m \in 1..Len(msgs) : Calm(m)
  BY <1>1 DEF Calm
<1>9. TypeInv' /\ LinesOnce' /\ HistoryNow'
  BY <1>1, <1>4, <1>7 DEF IInv, TypeInv, LinesOnce, HistoryNow
<1> HIDE DEF N
<1>10. task.n # 0 => /\ task.n \in 1..Len(msgs) /\ task.n \notin done
                     /\ msgs[task.n].logger = task.logger /\ task.logger \in Async
                     /\ \A s \in Sink : ~ Has(out[s], task.n)
  BY <1>3 DEF IInv, OneHand, MessagesRight, TaskRight, N
<1>11. CallFits(Worker)'
  BY <1>5, <1>6, <1>7, <1>10 DEF CallFits, InLog
<1>12. CallRight(Worker)'
  <2>1. LogRight(Worker)'
    <3>1. \A k : k \in 1..Len(SinksOf[task.logger]) => ~ k < 1
      OBVIOUS
    <3>2. QED
      BY <1>1, <1>6, <1>7, <1>10, <3>1 DEF LogRight, InLog
  <2>2. QED
    BY <1>6, <1>7, <2>1 DEF CallRight, SendRight, FlushRight
<1>13. CallsFit' /\ (\A f \in Executor : CallRight(f)') /\ \A m \in done : DoneRight(m)'
  BY <1>2, <1>7, <1>8, <1>11, <1>12, OthersKept
<1>14. OneHand'
  <2>1. /\ \A f \in Executor : call[f].n # 0 => /\ call[f].n \in 1..Len(msgs) /\ call[f].n \notin done
                                                /\ msgs[call[f].n].logger = call[f].logger
        /\ \A f, g \in Executor : call[f].n # 0 /\ call[g].n = call[f].n => g = f
    BY DEF IInv, OneHand
  <2>2. \A i \in 1..N : queue[i].n # 0 =>
          /\ queue[i].n \in 1..Len(msgs) /\ queue[i].n \notin done
          /\ msgs[queue[i].n].logger = queue[i].logger /\ queue[i].logger \in Async
    BY DEF IInv, OneHand, N
  <2>3. \A i, j \in 1..N : queue[i].n # 0 /\ queue[j].n = queue[i].n => j = i
    BY DEF IInv, OneHand, N
  <2>4. \A f \in Executor, i \in 1..N : call[f].n # 0 => queue[i].n # call[f].n
    BY DEF IInv, OneHand, N
  <2>5. \A f \in Executor : call'[f].n # 0 =>
          /\ call'[f].n \in 1..Len(msgs') /\ call'[f].n \notin done'
          /\ msgs'[call'[f].n].logger = call'[f].logger
    BY <1>1, <1>6, <1>7, <1>10, <2>1
  <2>6. \A f, g \in Executor : call'[f].n # 0 /\ call'[g].n = call'[f].n => g = f
    BY <1>3, <1>6, <1>7, <2>1, <2>4
  <2>7. \A i \in 1..(N - 1) : queue'[i].n # 0 =>
          /\ queue'[i].n \in 1..Len(msgs') /\ queue'[i].n \notin done'
          /\ msgs'[queue'[i].n].logger = queue'[i].logger /\ queue'[i].logger \in Async
    BY <1>1, <1>4, <2>2
  <2>8. \A i, j \in 1..(N - 1) : queue'[i].n # 0 /\ queue'[j].n = queue'[i].n => j = i
    <3> SUFFICES ASSUME NEW i \in 1..(N - 1), NEW j \in 1..(N - 1), queue'[i].n # 0, queue'[j].n = queue'[i].n
                 PROVE  j = i
      OBVIOUS
    <3>1. j + 1 = i + 1
      BY <1>4, <2>3
    <3>2. QED
      BY <3>1
  <2>9. \A f \in Executor, i \in 1..(N - 1) : call'[f].n # 0 => queue'[i].n # call'[f].n
    <3> SUFFICES ASSUME NEW f \in Executor, NEW i \in 1..(N - 1), call'[f].n # 0
                 PROVE  queue'[i].n # call'[f].n
      OBVIOUS
    <3>1. i + 1 \in 1..N /\ queue'[i] = queue[i + 1] /\ i + 1 # 1
      BY <1>4
    <3>2. CASE f = Worker
      BY <1>3, <1>6, <1>7, <2>3, <3>1, <3>2
    <3>3. CASE f # Worker
      BY <1>7, <2>4, <3>1, <3>3
    <3>4. QED
      BY <3>2, <3>3
  <2>10. QED
    BY <1>4, <2>5, <2>6, <2>7, <2>8, <2>9 DEF OneHand
<1>15. ASSUME NEW i \in 1..Len(queue') PROVE TaskRight(i)'
  <2>1. i + 1 \in 1..N /\ queue'[i] = queue[i + 1]
    BY <1>4
  <2>2. TaskRight(i + 1)
    BY <2>1 DEF IInv, MessagesRight, N
  <2>3. queue[i + 1].n # 0 => Calm(queue[i + 1].n)
    BY <1>8, <2>1 DEF IInv, OneHand, N
  <2>4. QED
    BY <2>1, <2>2, <2>3, TaskKept
<1>16. MessagesRight'
  BY <1>1, <1>13, <1>15 DEF MessagesRight
<1>17. QED
  BY <1>9, <1>13, <1>14, <1>16 DEF IInv

------------------------------------------------------------------------------
(* The calls of the C program and of the C++ program, and the whole.        *)

\* Whatever it goes through, a call is one of the classes'.
LEMMA CallsAre ==
    ASSUME NEW t \in Thread, CCall(t) \/ CppCall(t)
    PROVE  \/ \E o : Construct(o) \/ Release(t, o)
           \/ \E l \in Logger : \E v : SetLevel(l, v) \/ FlushOn(l, v)
           \/ \E s, v : SetSinkLevel(s, v) \/ SetSinkFormatter(s, v)
           \/ \E l \in Logger, f \in Formatter : SetFormatter(t, l, f)
           \/ \E l \in Logger, v \in LogLevel : ForceLog(t, l, v)
           \/ \E l \in Logger : Flush(t, l)
<1>1. Root \in Logger /\ Levels \subseteq LogLevel
  BY LoggersAssumption, CAssumption
<1>2. CASE CppCall(t)
  <2>1. PICK v \in Levels, l \in Logger :
          Log(t, l, v) \/ Flush(t, l) \/ (l = Root /\ (SetLevel(l, v) \/ FlushOn(l, v)))
    BY <1>2 DEF CppCall
  <2>2. CASE Log(t, l, v)
    BY <1>1, <2>2 DEF Log
  <2>3. QED
    BY <2>1, <2>2
<1>3. CASE CCall(t)
  <2>1. CASE \E s \in Sink \cap Handle : CreateSink(s) \/ SinkCalls(s)
    BY <2>1 DEF CreateSink, NewSink, SinkCalls
  <2>2. CASE CreateTaskPool \/ DestroyTaskPool(t)
    BY <2>2 DEF CreateTaskPool, DestroyTaskPool
  <2>3. CASE \E l \in Logger \cap Handle : CreateLogger(l)
    BY <2>3 DEF CreateLogger, NewLogger
  <2>4. CASE \E o \in Handle \ {Pool} : DestroyHandle(t, o)
    BY <2>4 DEF DestroyHandle
  <2>5. CASE \E l \in Logger : \E c : LoggerSet(l, c)
    BY <2>5 DEF LoggerSet
  <2>6. CASE \E l \in Logger : \E c : LoggerLog(t, l, c) \/ Log(t, l, CToCpp(c))
    BY <2>6, LevelTypes DEF LoggerLog, Log
  <2>7. CASE \E l \in Logger, f \in Formatter : LoggerFormat(t, l, f)
    BY <2>7 DEF LoggerFormat
  <2>8. CASE \E l \in Logger : LoggerFlush(t, l)
    BY <2>8 DEF LoggerFlush
  <2>9. QED
    <3>1. CASE RootCalls(t)
      BY <1>1, <2>5, <2>7, <2>8, <3>1 DEF RootCalls
    <3>2. CASE \E c \in CLevels : RootLog(t, c)
      BY <1>1, <2>6, <3>2 DEF RootLog
    <3>3. QED
      BY <1>3, <2>1, <2>2, <2>3, <2>4, <2>5, <2>6, <2>7, <2>8, <3>1, <3>2 DEF CCall
<1>4. QED
  BY <1>2, <1>3

\* A thread that is in no call makes one.
LEMMA CallKeeps ==
    ASSUME IInv, NEW t \in Thread, IsIdle(t), CCall(t) \/ CppCall(t)
    PROVE  IInv'
<1>1. t \in Executor /\ t # Worker /\ call[t].op = "idle" /\ call[t].n = 0 /\ call \in [Executor -> Frames]
  BY LoggersAssumption DEF Executor, IsIdle, At, IInv, CallsFit, CallFits, TypeInv
<1>2. ASSUME call' = call
      PROVE  /\ \A f \in Executor \ {t} : call'[f] = call[f]
             /\ call' \in [Executor -> Frames] /\ call'[t].n = 0 /\ CallFits(t)'
  BY <1>1, <1>2 DEF IInv, CallsFit, CallFits
<1>3. ASSUME NEW c \in Frames, Goto(t, c), c.n = 0, c.op \in {"idle", "join"} \/ (c.logger \in Logger /\ c.at = 1),
             c.op \in {"idle", "join", "format", "flush"} \/ (c.op = "send" /\ c.logger \in Async)
      PROVE  /\ \A f \in Executor \ {t} : call'[f] = call[f]
             /\ call' \in [Executor -> Frames] /\ call'[t].n = 0 /\ CallFits(t)'
  <2>1. call' \in [Executor -> Frames] /\ call'[t] = c /\ \A f \in Executor \ {t} : call'[f] = call[f]
    BY <1>1, <1>3, Gone DEF IInv
  <2>2. CallFits(t)'
    BY <1>1, <1>3, <2>1 DEF CallFits, InLog
  <2>3. QED
    BY <1>3, <2>1, <2>2
<1>4. CASE \E o : Construct(o)
  <2>1. UNCHANGED <<call, queue, msgs, done, out, flushed, sinkLevel, formatter, flushLevel>>
    BY <1>4 DEF Construct, settings, files, history
  <2>2. QED
    BY <1>1, <1>2, <2>1, AsideKeeps
<1>5. CASE \E o : Release(t, o)
  <2>1. UNCHANGED <<queue, msgs, done, out, flushed, sinkLevel, formatter, flushLevel>>
    BY <1>5 DEF Release, settings, files, history
  <2> DEFINE c == [Idle EXCEPT !.op = "join"]
  <2>2. c \in Frames /\ c.op = "join" /\ c.n = 0
    BY FrameTypes DEF Idle
  <2>3. Goto(t, c) \/ call' = call
    BY <1>5 DEF Release
  <2> HIDE DEF c
  <2>4. QED
    BY <1>1, <1>2, <1>3, <2>1, <2>2, <2>3, AsideKeeps
<1>6. CASE \E l \in Logger : \E v : SetLevel(l, v)
  <2>1. UNCHANGED <<call, queue, msgs, done, out, flushed, sinkLevel, formatter, flushLevel>>
    BY <1>6 DEF SetLevel, files, history
  <2>2. QED
    BY <1>1, <1>2, <2>1, AsideKeeps
<1>7. CASE \E l \in Logger : \E v : FlushOn(l, v)
  <2>1. UNCHANGED <<call, queue, done, out, flushed>> /\ Judge(sinkLevel', formatter', flushLevel')
    BY <1>7 DEF FlushOn, files
  <2>2. QED
    BY <1>1, <1>2, <2>1, SetKeeps
<1>8. CASE \E s, v : SetSinkLevel(s, v)
  <2>1. UNCHANGED <<call, queue, done, out, flushed>> /\ Judge(sinkLevel', formatter', flushLevel')
    BY <1>8 DEF SetSinkLevel, files
  <2>2. QED
    BY <1>1, <1>2, <2>1, SetKeeps
<1>9. CASE \E s, f : SetSinkFormatter(s, f)
  <2>1. UNCHANGED <<call, queue, done, out, flushed>> /\ Judge(sinkLevel', formatter', flushLevel')
    BY <1>9 DEF SetSinkFormatter, PutFormatter, files
  <2>2. QED
    BY <1>1, <1>2, <2>1, SetKeeps
<1>10. CASE \E l \in Logger, f \in Formatter : SetFormatter(t, l, f)
  <2>1. PICK l \in Logger, f \in Formatter : SetFormatter(t, l, f)
    BY <1>10
  <2>2. UNCHANGED <<queue, msgs, done, out, flushed, sinkLevel, formatter, flushLevel>>
    BY <2>1 DEF SetFormatter, files, history
  <2> DEFINE c == [Frame("format", l, 0) EXCEPT !.form = f]
  <2>3. c \in Frames /\ c.op = "format" /\ c.n = 0 /\ c.logger = l /\ c.at = 1
    BY FrameTypes DEF Frame
  <2>4. Goto(t, c)
    BY <2>1 DEF SetFormatter
  <2> HIDE DEF c
  <2>5. QED
    BY <1>1, <1>3, <2>2, <2>3, <2>4, AsideKeeps
<1>11. CASE \E l \in Logger, v \in LogLevel : ForceLog(t, l, v)
  BY <1>11, ForceLogKeeps
<1>12. CASE \E l \in Logger : Flush(t, l)
  <2>1. PICK l \in Logger : Flush(t, l)
    BY <1>12
  <2>2. UNCHANGED <<queue, msgs, done, out, flushed, sinkLevel, formatter, flushLevel>>
    BY <2>1 DEF Flush, settings, files
  <2> DEFINE op == IF l \in Async THEN "send" ELSE "flush"
             c == Frame(op, l, 0)
  <2>3. op \in Steps /\ op \in {"send", "flush"} /\ (op = "send" => l \in Async)
    BY DEF Steps
  <2>4. c \in Frames /\ c.op = op /\ c.n = 0 /\ c.logger = l /\ c.at = 1
    BY <2>3, FrameTypes DEF Frame
  <2>5. Goto(t, c)
    BY <2>1 DEF Flush
  <2> HIDE DEF c, op
  <2>6. QED
    BY <1>1, <1>3, <2>2, <2>3, <2>4, <2>5, AsideKeeps
<1>13. QED
  BY <1>4, <1>5, <1>6, <1>7, <1>8, <1>9, <1>10, <1>11, <1>12, CallsAre

\* A pool is joined, a formatter reaches the next sink, or the call is over.
LEMMA RestKeeps ==
    ASSUME IInv, NEW t \in Thread, Join(t) \/ FormatSink(t)
    PROVE  IInv'
<1>1. t \in Executor /\ t # Worker /\ call[t].op \in {"join", "format"} /\ call[t].n = 0
  BY LoggersAssumption DEF Executor, Join, FormatSink, At, IInv, CallsFit, CallFits
<1>2. CASE Goto(t, Idle) /\ UNCHANGED <<queue, msgs, done, out, flushed, sinkLevel, formatter, flushLevel>>
  <2>1. Idle \in Frames /\ Idle.op = "idle" /\ Idle.n = 0
    BY FrameTypes DEF Idle
  <2>2. call' \in [Executor -> Frames] /\ call'[t] = Idle /\ \A f \in Executor \ {t} : call'[f] = call[f]
    BY <1>1, <1>2, <2>1, Gone DEF IInv
  <2>3. CallFits(t)'
    BY <2>1, <2>2 DEF CallFits, InLog
  <2>4. QED
    BY <1>1, <1>2, <2>1, <2>2, <2>3, AsideKeeps
<1>3. CASE FormatSink(t) /\ ~ PastSinks(t)
  <2> DEFINE c == [call[t] EXCEPT !.op = "format", !.at = @ + 1]
  <2>1. call[t].op = "format" /\ Goto(t, c)
    BY <1>3 DEF FormatSink, At, NextSink
  <2>2. UNCHANGED <<queue, done, out, flushed>> /\ Judge(sinkLevel', formatter', flushLevel')
    BY <1>3 DEF FormatSink, PutFormatter, files
  <2>3. c \in Frames /\ c.op = "format" /\ c.n = 0 /\ c.logger = call[t].logger /\ c.at = call[t].at + 1
    BY <1>1, FrameMoves DEF IInv, Frames, Steps
  <2>4. call[t].logger \in Logger /\ call[t].at \in Nat \ {0}
    BY <1>1, <2>1, OnTheWay
  <2> HIDE DEF c
  <2>5. call' \in [Executor -> Frames] /\ call'[t] = c /\ \A f \in Executor \ {t} : call'[f] = call[f]
    BY <1>1, <2>1, <2>3, Gone DEF IInv
  <2>6. CallFits(t)'
    BY <1>1, <2>3, <2>4, <2>5 DEF CallFits, InLog
  <2>7. QED
    BY <1>1, <2>2, <2>3, <2>5, <2>6, SetKeeps
<1>4. CASE FormatSink(t) /\ PastSinks(t)
  BY <1>2, <1>4 DEF FormatSink, settings, files, history
<1>5. CASE Join(t)
  BY <1>2, <1>5 DEF Join, settings, files, history
<1>6. QED
  BY <1>3, <1>4, <1>5

\* The initial state.
LEMMA InitInv == Init => IInv
<1> SUFFICES ASSUME Init PROVE IInv
  OBVIOUS
<1>1. Idle \in Frames /\ Idle.op = "idle" /\ Idle.n = 0
  BY FrameTypes DEF Idle
<1>2. /\ call = [e \in Executor |-> Idle] /\ \A e \in Executor : call[e] = Idle
      /\ queue = <<>> /\ Len(queue) = 0 /\ msgs = <<>> /\ Len(msgs) = 0 /\ done = {}
      /\ \A s \in Sink : out[s] = <<>> /\ Len(out[s]) = 0 /\ flushed[s] = 0
  BY DEF Init
<1>3. TypeInv
  <2>1. out \in [Sink -> Seq(Nat)] /\ flushed \in [Sink -> Nat]
    BY DEF Init
  <2>2. call \in [Executor -> Frames]
    BY <1>1, <1>2
  <2>3. QED
    BY <1>2, <2>1, <2>2 DEF TypeInv
<1>4. CallsFit /\ OneHand /\ HistoryNow /\ LinesOnce
  BY <1>1, <1>2 DEF CallsFit, CallFits, OneHand, HistoryNow, LinesOnce, InLog
<1>5. MessagesRight
  BY <1>1, <1>2 DEF MessagesRight, CallRight, SendRight, LogRight, FlushRight, InLog
<1>6. QED
  BY <1>3, <1>4, <1>5 DEF IInv

\* Every step keeps the invariant.
LEMMA NextKeeps ==
    ASSUME NoSinkTwice, IInv, [Next]_vars
    PROVE  IInv'
<1>1. CASE UNCHANGED vars
  <2>1. UNCHANGED <<call, queue, msgs, done, out, flushed, sinkLevel, formatter, flushLevel>>
    BY <1>1 DEF vars, settings, files, history
  <2>2. QED
    BY <2>1 DEF IInv, TypeInv, CallsFit, CallFits, OneHand, HistoryNow, LinesOnce, MessagesRight,
                CallRight, SendRight, LogRight, FlushRight, TaskRight, DoneRight
<1>2. CASE \E t \in CThread : IsIdle(t) /\ CCall(t)
  BY <1>2, CAssumption, CallKeeps
<1>3. CASE \E t \in Thread \ CThread : IsIdle(t) /\ CppCall(t)
  BY <1>3, CallKeeps
<1>4. ASSUME NEW t \in Thread, ThreadStep(t) PROVE IInv'
  BY <1>4, StepKeeps, SendKeeps, RestKeeps DEF ThreadStep, Executor
<1>5. CASE WorkerStep
  BY <1>5, StepKeeps, DequeueKeeps DEF WorkerStep, Executor
<1>6. QED
  BY <1>1, <1>2, <1>3, <1>4, <1>5 DEF Next

\* The invariant says what the sinks have of a message whose log is over.
LEMMA InvDelivered == IInv => DeliveredAsLevelsSay
<1> SUFFICES ASSUME IInv, NEW n \in done, NEW s \in Sink
             PROVE  /\ Cardinality(Lines(s, n)) <= 1
                    /\ s \in Range(SinksOf[msgs[n].logger]) \cap msgs[n].takes => Lines(s, n) # {}
                    /\ s \in msgs[n].refuses \cup msgs[n].throws \/ s \notin Range(SinksOf[msgs[n].logger])
                         => Lines(s, n) = {}
  BY DEF DeliveredAsLevelsSay
<1>1. out[s] \in Seq(Nat) /\ DOMAIN out[s] = 1..Len(out[s]) /\ Lines(s, n) = {i \in 1..Len(out[s]) : out[s][i] = n}
  BY DEF IInv, TypeInv, Lines
<1>2. Has(out[s], n) <=> Lines(s, n) # {}
  BY <1>1 DEF Has
<1>3. Settled(msgs[n], out, n)
  BY DEF IInv, MessagesRight, DoneRight
<1>4. Cardinality(Lines(s, n)) <= 1
  <2>1. \A i, j \in Lines(s, n) : i = j
    BY <1>1 DEF IInv, LinesOnce
  <2>2. CASE Lines(s, n) = {}
    BY <2>2, FS_EmptySet
  <2>3. CASE Lines(s, n) # {}
    <3>1. PICK i : i \in Lines(s, n)
      BY <2>3
    <3>2. Lines(s, n) = {i}
      BY <2>1, <3>1
    <3>3. QED
      BY <3>2, FS_Singleton
  <2>4. QED
    BY <2>2, <2>3
<1>5. QED
  BY <1>2, <1>3, <1>4 DEF Settled, Obeys

\* And what they have flushed of it.
LEMMA InvSecures == IInv => FlushLevelSecures
<1> SUFFICES ASSUME IInv, NEW n \in done, msgs[n].flush, msgs[n].logger \notin Async,
                    NEW s \in Sink, NEW i \in Lines(s, n)
             PROVE  i <= Secured(s)
  BY DEF FlushLevelSecures
<1>1. out[s] \in Seq(Nat) /\ i \in 1..Len(out[s]) /\ out[s][i] = n
  BY DEF IInv, TypeInv, Lines
<1>2. i <= flushed[s]
  BY <1>1 DEF IInv, MessagesRight, DoneRight, Secure
<1>3. QED
  BY <1>1, <1>2 DEF Secured

------------------------------------------------------------------------------
\* When a log is over, each sink has done what its level and its formatter said:
\* for any number of loggers over the same sinks, of threads and of settings on
\* the way of the message, if no logger has a sink twice.
THEOREM LevelsAreObeyed ==
    ASSUME NoSinkTwice
    PROVE  Spec => []DeliveredAsLevelsSay
<1>1. IInv /\ [Next]_vars => IInv'
  BY NextKeeps
<1>2. QED
  BY <1>1, InitInv, InvDelivered, PTL DEF Spec

\* A synchronous log at or above the flush level leaves no line in a buffer.
THEOREM FlushLevelObeyed ==
    ASSUME NoSinkTwice
    PROVE  Spec => []FlushLevelSecures
<1>1. IInv /\ [Next]_vars => IInv'
  BY NextKeeps
<1>2. QED
  BY <1>1, InitInv, InvSecures, PTL DEF Spec
==============================================================================
