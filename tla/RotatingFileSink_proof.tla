------------------------ MODULE RotatingFileSink_proof ------------------------
(***************************************************************************)
(* Theorems about RotatingFileSink, for any limits, settings, sizes of     *)
(* logs, faults and crashes.  The first two ask nothing more.  The next    *)
(* five rest on TargetFresh: the index of a rotation is not that of a file *)
(* still listed, which would be overwritten and then deleted in its own    *)
(* place.  The last two say how many indices make it so.                   *)
(***************************************************************************)
EXTENDS RotatingFileSink, FiniteSetTheorems, WellFoundedInduction, TLAPS

------------------------------------------------------------------------------
(* The inductive invariant.                                                 *)

\* The file of a rotation does not yet exist, or was given up.
TargetFresh == pc = "rename" => target \notin ToSet(fileQue)

\* The rotated files that the sink knows of: between a rename and the reopen one
\* more than _fileQue; while no process runs, those that the next will find.
Known ==
    CASE pc = "down" -> Indices(rotated)
      [] pc = "truncate" -> Append(fileQue, target)
      [] OTHER -> fileQue

Distinct == \A i, j \in DOMAIN rotated : rotated[i].idx = rotated[j].idx => i = j

\* The stream is open only outside the steps that replace the file; what it has
\* written is counted; closing it secures it.
StreamInv ==
    /\ isOpen => file # NoFile /\ pc \in {"idle", "opened", "delete"} /\ currSize = Bytes(file)
    /\ pc = "truncate" => file = NoFile
    /\ file = NoFile => synced = 0
    /\ file # NoFile => synced <= Len(file)
    /\ file # NoFile /\ ~ isOpen => synced = Len(file)

\* A log waits only during a rotation, and is the newest.
PendingInv ==
    /\ pc \in {"down", "opened", "idle"} => pending = NoLog
    /\ pending # NoLog => pending.n = count
OnDisk == Numbers(file) \cup LinesOf(rotated)
NewestLast == \A n \in OnDisk \cup lost \cup retired : n <= count /\ (pending # NoLog => n # count)

\* A file was given up with all its logs; one that is listed and was given up
\* has come back with a restart.
GivenUp ==
    /\ retired \cap (Numbers(file) \cup lost) = {}
    /\ undeleted \subseteq ToSet(Indices(rotated))
    /\ pc = "down" => undeleted = {}
    /\ \A i \in DOMAIN rotated :
          LET lines == Numbers(rotated[i].lines)
          IN  /\ lines \subseteq retired \/ lines \cap retired = {}
              /\ rotated[i].idx \in undeleted => lines \subseteq retired
              /\ rotated[i].idx \notin undeleted /\ crashes = 0 => lines \cap retired = {}

\* A log is dropped only after a fault or a crash.
LossExplained ==
    /\ lost # {} => faults + crashes > 0
    /\ pc \in {"idle", "opened", "delete"} /\ ~ isOpen => faults > 0

StreamSide == TypeOK /\ StreamInv /\ PendingInv /\ LossExplained
DirectorySide == Distinct /\ NewestLast /\ GivenUp /\ InOrder /\ NoLogVanishes
IInv == StreamSide /\ DirectorySide /\ Tracks(Known)

------------------------------------------------------------------------------
(* Induction, in the form that the lemmas below use.                        *)

\* Every nonempty set of naturals has a least element.
LEMMA LeastNatural ==
  ASSUME NEW S \in SUBSET Nat, S # {}
  PROVE  \E x \in S : \A y \in S : x <= y
<1> DEFINE R == OpToRel(<, Nat)
<1>1. IsWellFoundedOn(R, Nat)
  BY NatLessThanWellFounded
<1>2. \A x, y \in Nat : <<y, x>> \in R <=> y < x
  BY DEF OpToRel
<1> HIDE DEF R
<1>3. PICK x \in S : \A y \in S : ~ <<y, x>> \in R
  BY <1>1, WFMin
<1>4. \A y \in S : ~ (y < x)
  BY <1>2, <1>3
<1> QED
  BY <1>4

\* A set that holds 0 and, with a number, the next holds them all.
LEMMA SetInduction ==
  ASSUME NEW S, 0 \in S, \A n \in Nat : n \in S => n + 1 \in S
  PROVE  Nat \subseteq S
<1> SUFFICES ASSUME Nat \ S # {} PROVE FALSE
  OBVIOUS
<1>1. PICK m \in Nat \ S : \A y \in Nat \ S : m <= y
  BY LeastNatural
<1>2. m # 0
  OBVIOUS
<1>3. m - 1 \in Nat /\ m - 1 \in S
  BY <1>1, <1>2
<1>4. m - 1 + 1 = m
  OBVIOUS
<1>5. QED
  BY <1>3, <1>4

------------------------------------------------------------------------------
(* Bytes: the recursion over the lines of a file has a value, and a line    *)
(* adds to it what it is.                                                   *)

\* The sizes of the first lines of a file, one by one.
Sums(lines, upTo, b) ==
    /\ b \in [0..upTo -> Nat]
    /\ b[0] = 0
    /\ \A i \in 1..upTo : b[i] = b[i - 1] + lines[i].size + LF

LEMMA SizeNat == \A line \in Line : line.size \in Nat
BY SinkAssumption DEF Line

\* There are such sums up to any line.
LEMMA SumsExist ==
  ASSUME NEW lines \in Seq(Line)
  PROVE  \E b : Sums(lines, Len(lines), b)
<1> DEFINE P(n) == n <= Len(lines) => \E b : Sums(lines, n, b)
<1> DEFINE T == {n \in Nat : P(n)}
<1>1. P(0)
  <2>1. Sums(lines, 0, [i \in 0..0 |-> 0])
    BY DEF Sums
  <2> QED
    BY <2>1
<1>2. ASSUME NEW n \in Nat, P(n) PROVE P(n + 1)
  <2> SUFFICES ASSUME n + 1 <= Len(lines) PROVE \E b : Sums(lines, n + 1, b)
    OBVIOUS
  <2>1. PICK b : Sums(lines, n, b)
    BY <1>2
  <2>2. lines[n + 1].size \in Nat
    BY SizeNat
  <2> DEFINE c == [i \in 0..n + 1 |-> IF i = n + 1 THEN b[n] + lines[n + 1].size + LF ELSE b[i]]
  <2>3. Sums(lines, n + 1, c)
    BY <2>1, <2>2 DEF Sums, LF
  <2> QED
    BY <2>3
<1>3. \A n \in Nat : n \in T <=> P(n)
  OBVIOUS
<1> HIDE DEF P, T
<1>4. Nat \subseteq T
  BY <1>1, <1>2, <1>3, SetInduction
<1>5. P(Len(lines))
  BY <1>3, <1>4
<1> QED
  BY <1>5 DEF P

\* A line more leaves the sums before it as they are.
LEMMA SumsKept ==
  ASSUME NEW lines \in Seq(Line), NEW line \in Line, NEW b, NEW c,
         Sums(lines, Len(lines), b), Sums(Append(lines, line), Len(lines) + 1, c)
  PROVE  b[Len(lines)] = c[Len(lines)]
<1> DEFINE n == Len(lines)
<1> DEFINE more == Append(lines, line)
<1>0. n \in Nat /\ \A i \in 1..n : lines[i] = more[i]
  OBVIOUS
<1> HIDE DEF n, more
<1> DEFINE P(i) == i <= n => b[i] = c[i]
<1> DEFINE T == {i \in Nat : P(i)}
<1>1. P(0)
  BY DEF Sums
<1>2. ASSUME NEW i \in Nat, P(i) PROVE P(i + 1)
  <2> SUFFICES ASSUME i + 1 <= n PROVE b[i + 1] = c[i + 1]
    OBVIOUS
  <2>1. b[i] = c[i] /\ lines[i + 1] = more[i + 1] /\ i + 1 \in 1..n /\ i + 1 \in 1..n + 1 /\ i + 1 - 1 = i
    BY <1>0, <1>2
  <2>2. b[i + 1] = b[i + 1 - 1] + lines[i + 1].size + LF
    BY <2>1 DEF Sums, n
  <2>3. c[i + 1] = c[i + 1 - 1] + more[i + 1].size + LF
    BY <2>1 DEF Sums, n, more
  <2> QED
    BY <2>1, <2>2, <2>3
<1>3. \A i \in Nat : i \in T <=> P(i)
  OBVIOUS
<1> HIDE DEF P, T
<1>4. Nat \subseteq T
  BY <1>1, <1>2, <1>3, SetInduction
<1>5. P(n)
  BY <1>0, <1>3, <1>4
<1> QED
  BY <1>0, <1>5 DEF P, n

\* Bytes is the last of the sums.
LEMMA BytesSum ==
  ASSUME NEW lines \in Seq(Line)
  PROVE  \E b : Sums(lines, Len(lines), b) /\ Bytes(lines) = b[Len(lines)]
<1> DEFINE F(f) == [i \in 0..Len(lines) |-> IF i = 0 THEN 0 ELSE f[i - 1] + lines[i].size + LF]
<1> DEFINE bytes == CHOOSE f : f = F(f)
<1>1. lines # NoFile
  BY SinkAssumption
<1>2. Bytes(lines) = bytes[Len(lines)]
  BY <1>1 DEF Bytes
<1>3. PICK b : Sums(lines, Len(lines), b)
  BY SumsExist
<1>4. b = F(b)
  <2>1. \A i \in 0..Len(lines) : b[i] = IF i = 0 THEN 0 ELSE b[i - 1] + lines[i].size + LF
    BY <1>3 DEF Sums
  <2> QED
    BY <2>1, <1>3 DEF Sums
<1>5. bytes = F(bytes)
  BY <1>4
<1> HIDE DEF bytes
<1>6. \A i \in 0..Len(lines) : bytes[i] = IF i = 0 THEN 0 ELSE bytes[i - 1] + lines[i].size + LF
  BY <1>5
<1> DEFINE P(i) == i <= Len(lines) => bytes[i] \in Nat
<1> DEFINE T == {i \in Nat : P(i)}
<1>7. P(0)
  BY <1>6
<1>8. ASSUME NEW i \in Nat, P(i) PROVE P(i + 1)
  <2> SUFFICES ASSUME i + 1 <= Len(lines) PROVE bytes[i + 1] \in Nat
    OBVIOUS
  <2>1. lines[i + 1].size \in Nat
    BY SizeNat
  <2>2. bytes[i + 1] = bytes[i] + lines[i + 1].size + LF
    BY <1>6
  <2> QED
    BY <1>8, <2>1, <2>2 DEF LF
<1>9. \A i \in Nat : i \in T <=> P(i)
  OBVIOUS
<1> HIDE DEF P, T
<1>10. Nat \subseteq T
  BY <1>7, <1>8, <1>9, SetInduction
<1>11. \A i \in 0..Len(lines) : bytes[i] \in Nat
  BY <1>9, <1>10 DEF P
<1>12. Sums(lines, Len(lines), bytes)
  <2>1. bytes = [i \in 0..Len(lines) |-> bytes[i]]
    BY <1>5
  <2>2. bytes \in [0..Len(lines) -> Nat]
    BY <1>11, <2>1
  <2>3. bytes[0] = 0 /\ \A i \in 1..Len(lines) : bytes[i] = bytes[i - 1] + lines[i].size + LF
    BY <1>6
  <2> QED
    BY <2>2, <2>3 DEF Sums
<1> QED
  BY <1>2, <1>12

LEMMA BytesEmpty == Bytes(<<>>) = 0
<1>1. <<>> \in Seq(Line)
  OBVIOUS
<1> QED
  BY <1>1, BytesSum DEF Sums

LEMMA BytesNat == \A lines \in Seq(Line) \cup {NoFile} : Bytes(lines) \in Nat
<1> SUFFICES ASSUME NEW lines \in Seq(Line) PROVE Bytes(lines) \in Nat
  BY DEF Bytes
<1> QED
  BY BytesSum DEF Sums

LEMMA BytesAppend ==
  ASSUME NEW lines \in Seq(Line), NEW line \in Line
  PROVE  Bytes(Append(lines, line)) = Bytes(lines) + line.size + LF
<1> DEFINE n == Len(lines)
<1> DEFINE more == Append(lines, line)
<1>1. more \in Seq(Line) /\ Len(more) = n + 1 /\ more[n + 1] = line /\ \A i \in 1..n : lines[i] = more[i]
  OBVIOUS
<1>2. PICK b : Sums(lines, n, b) /\ Bytes(lines) = b[n]
  BY BytesSum
<1> HIDE DEF more
<1>3. PICK c : Sums(more, n + 1, c) /\ Bytes(more) = c[n + 1]
  BY <1>1, BytesSum
<1>4. b[n] = c[n]
  BY <1>2, <1>3, SumsKept DEF more
<1>5. n + 1 \in 1..n + 1 /\ n + 1 - 1 = n
  OBVIOUS
<1>6. c[n + 1] = c[n] + line.size + LF
  BY <1>1, <1>3, <1>5 DEF Sums
<1> QED
  BY <1>2, <1>3, <1>4, <1>6 DEF more

------------------------------------------------------------------------------
(* The lines and the files of the directory.                                *)

LEMMA NumbersEmpty == Numbers(<<>>) = {} /\ Numbers(NoFile) = {}
BY SinkAssumption DEF Numbers

LEMMA NumbersType == \A lines \in Seq(Line) \cup {NoFile} : Numbers(lines) \subseteq 1..MaxLogs
<1> SUFFICES ASSUME NEW lines \in Seq(Line), NEW i \in DOMAIN lines PROVE lines[i].n \in 1..MaxLogs
  BY DEF Numbers
<1>1. lines[i] \in Line
  OBVIOUS
<1> QED
  BY <1>1 DEF Line

LEMMA NumbersAppend ==
  ASSUME NEW lines \in Seq(Line), NEW line \in Line
  PROVE  Numbers(Append(lines, line)) = Numbers(lines) \cup {line.n}
<1>1. lines # NoFile /\ Append(lines, line) # NoFile
  BY SinkAssumption
<1> DEFINE more == Append(lines, line)
<1>2. DOMAIN more = DOMAIN lines \cup {Len(lines) + 1} /\ more[Len(lines) + 1] = line
  OBVIOUS
<1>3. \A i \in DOMAIN lines : more[i] = lines[i]
  OBVIOUS
<1>4. {more[i].n : i \in DOMAIN more} = {lines[i].n : i \in DOMAIN lines} \cup {line.n}
  <2> HIDE DEF more
  <2> QED
    BY <1>2, <1>3
<1> QED
  BY <1>1, <1>4 DEF Numbers

LEMMA NumbersPrefix ==
  ASSUME NEW lines \in Seq(Line), NEW k \in 0..Len(lines)
  PROVE  /\ SubSeq(lines, 1, k) \in Seq(Line)
         /\ Len(SubSeq(lines, 1, k)) = k
         /\ \A i \in 1..k : SubSeq(lines, 1, k)[i] = lines[i]
         /\ Numbers(SubSeq(lines, 1, k)) = {lines[i].n : i \in 1..k}
<1> DEFINE prefix == SubSeq(lines, 1, k)
<1>1. prefix \in Seq(Line) /\ Len(prefix) = k /\ \A i \in 1..k : prefix[i] = lines[i]
  OBVIOUS
<1>2. prefix # NoFile /\ DOMAIN prefix = 1..k
  BY <1>1, SinkAssumption
<1> HIDE DEF prefix
<1>3. Numbers(prefix) = {lines[i].n : i \in 1..k}
  BY <1>1, <1>2 DEF Numbers
<1> QED
  BY <1>1, <1>3 DEF prefix

LEMMA RotatedFields ==
  \A rf \in RotatedFile : rf.idx \in Index /\ rf.lines \in Seq(Line)
BY DEF RotatedFile

\* f places the files of a directory without idx in the directory as it is.
Embeds(f, files, idx) ==
    /\ files \in Seq(RotatedFile)
    /\ f \in [DOMAIN files -> DOMAIN rotated]
    /\ \A i \in DOMAIN files : files[i] = rotated[f[i]] /\ rotated[f[i]].idx # idx
    /\ \A i, j \in DOMAIN files : i < j => f[i] < f[j]
    /\ \A j \in DOMAIN rotated : rotated[j].idx # idx => \E i \in DOMAIN files : f[i] = j

\* Others takes the file of this index away and keeps the order of the rest.
LEMMA OthersEmbed ==
  ASSUME rotated \in Seq(RotatedFile), Distinct, NEW idx
  PROVE  \E f : Embeds(f, Others(idx), idx)
<1>1. CASE Places(idx) = {}
  <2>1. Embeds([i \in DOMAIN rotated |-> i], rotated, idx)
    BY <1>1 DEF Places, Embeds
  <2> QED
    BY <1>1, <2>1 DEF Others
<1>2. CASE Places(idx) # {}
  <2> DEFINE p == CHOOSE i \in Places(idx) : TRUE
  <2> DEFINE files == SubSeq(rotated, 1, p - 1) \o SubSeq(rotated, p + 1, Len(rotated))
  <2> DEFINE f == [i \in DOMAIN files |-> IF i < p THEN i ELSE i + 1]
  <2>1. p \in Places(idx)
    BY <1>2
  <2>2. p \in DOMAIN rotated /\ rotated[p].idx = idx /\ \A i \in DOMAIN rotated : i # p => rotated[i].idx # idx
    BY <2>1 DEF Places, Distinct
  <2>3. Others(idx) = files
    BY <1>2 DEF Others, RemoveAt
  <2> HIDE DEF p
  <2>4. p \in 1..Len(rotated) /\ Len(rotated) \in Nat
    BY <2>2
  <2> DEFINE left == SubSeq(rotated, 1, p - 1)
  <2> DEFINE right == SubSeq(rotated, p + 1, Len(rotated))
  <2>5. left \in Seq(RotatedFile) /\ Len(left) = p - 1 /\ \A i \in 1..p - 1 : left[i] = rotated[i]
    BY <2>4
  <2>6. right \in Seq(RotatedFile) /\ Len(right) = Len(rotated) - p
        /\ \A i \in 1..Len(rotated) - p : right[i] = rotated[p + i]
    BY <2>4
  <2> HIDE DEF left, right
  <2>7. left \o right \in Seq(RotatedFile) /\ DOMAIN (left \o right) = 1..Len(rotated) - 1
    BY <2>4, <2>5, <2>6
  <2>8. \A i \in 1..Len(rotated) - 1 : (left \o right)[i] = rotated[IF i < p THEN i ELSE i + 1]
    <3> SUFFICES ASSUME NEW i \in 1..Len(rotated) - 1
                 PROVE  (left \o right)[i] = rotated[IF i < p THEN i ELSE i + 1]
      OBVIOUS
    <3>1. CASE i < p
      BY <2>4, <2>5, <2>6, <3>1
    <3>2. CASE ~ (i < p)
      <4>1. i - (p - 1) \in 1..Len(rotated) - p /\ p + (i - (p - 1)) = i + 1
        BY <2>4, <3>2
      <4>2. (left \o right)[i] = right[i - (p - 1)]
        BY <2>4, <2>5, <2>6, <3>2
      <4> QED
        BY <2>6, <3>2, <4>1, <4>2
    <3> QED
      BY <3>1, <3>2
  <2>9. files = left \o right
    BY DEF left, right
  <2> HIDE DEF files
  <2>10. f \in [DOMAIN files -> DOMAIN rotated]
    BY <2>4, <2>7, <2>9
  <2>11. \A i \in DOMAIN files : files[i] = rotated[f[i]] /\ f[i] # p
    <3> SUFFICES ASSUME NEW i \in DOMAIN files PROVE files[i] = rotated[f[i]] /\ f[i] # p
      OBVIOUS
    <3>1. f[i] = IF i < p THEN i ELSE i + 1
      OBVIOUS
    <3> HIDE DEF f
    <3>2. i \in 1..Len(rotated) - 1
      BY <2>7, <2>9
    <3>3. files[i] = rotated[f[i]]
      BY <2>8, <2>9, <3>1, <3>2
    <3>4. f[i] # p
      BY <2>4, <3>1, <3>2
    <3> QED
      BY <3>3, <3>4
  <2>12. \A i, j \in DOMAIN files : i < j => f[i] < f[j]
    BY <2>4, <2>7, <2>9
  <2>13. ASSUME NEW j \in DOMAIN rotated, j # p
         PROVE  \E i \in DOMAIN files : f[i] = j
    <3>1. CASE j < p
      <4>1. j \in DOMAIN files /\ f[j] = j
        BY <2>4, <2>7, <2>9, <2>13, <3>1
      <4> QED
        BY <4>1
    <3>2. CASE j > p
      <4>1. j - 1 \in DOMAIN files /\ f[j - 1] = j
        BY <2>4, <2>7, <2>9, <2>13, <3>2
      <4> QED
        BY <4>1
    <3> QED
      BY <2>4, <2>13, <3>1, <3>2
  <2> HIDE DEF f
  <2>14. Embeds(f, files, idx)
    BY <2>2, <2>7, <2>9, <2>10, <2>11, <2>12, <2>13 DEF Embeds
  <2> QED
    BY <2>3, <2>14
<1> QED
  BY <1>1, <1>2

------------------------------------------------------------------------------
(* Type correctness.                                                        *)

LEMMA SuccessorIndex == \A idx \in Index : Successor(idx) \in Index
BY SinkAssumption DEF Successor, Index, MinIndex

LEMMA LinesOfType == \A files \in Seq(RotatedFile) : LinesOf(files) \subseteq 1..MaxLogs
BY NumbersType, RotatedFields DEF LinesOf

LEMMA LinesCalledType == rotated \in Seq(RotatedFile) => \A idx : LinesCalled(idx) \subseteq 1..MaxLogs
BY NumbersType, RotatedFields DEF LinesCalled, Places

LEMMA IndicesType == \A files \in Seq(RotatedFile) :
    /\ Indices(files) \in Seq(Index)
    /\ Len(Indices(files)) = Len(files)
    /\ \A i \in DOMAIN files : Indices(files)[i] = files[i].idx
BY RotatedFields DEF Indices

LEMMA InitType == Init => TypeOK
<1> SUFFICES ASSUME Init PROVE TypeOK
  OBVIOUS
<1>1. <<>> \in Seq(Line) /\ <<>> \in Seq(RotatedFile) /\ <<>> \in Seq(Index)
  OBVIOUS
<1>2. rotated \in Seq(RotatedFile)
  <2>1. SUFFICES ASSUME NEW idx \in Existing PROVE <<[idx |-> idx, lines |-> <<>>]>> \in Seq(RotatedFile)
    BY <1>1 DEF Init
  <2>2. [idx |-> idx, lines |-> <<>>] \in RotatedFile
    BY <1>1, SinkAssumption DEF RotatedFile
  <2> QED
    BY <2>2
<1>3. MinIndex \in Index
  BY SinkAssumption DEF Index, MinIndex
<1>4. 0 \in 0..MaxLogs /\ 0 \in 0..MaxFaults /\ 0 \in 0..MaxCrashes /\ 0 \in Nat
  BY SinkAssumption
<1> QED
  BY <1>1, <1>2, <1>3, <1>4 DEF Init, TypeOK, Steps

\* The state that the next step finds is typed, action by action.
LEMMA WriteType ==
  ASSUME TypeOK, StreamInv, NEW line \in Line, Write(line)
  PROVE  file' \in Seq(Line) \cup {NoFile} /\ currSize' \in Nat /\ lost' \subseteq 1..MaxLogs
<1>1. CASE isOpen
  <2>1. Append(file, line) \in Seq(Line)
    BY <1>1 DEF TypeOK, StreamInv
  <2>2. currSize + line.size + LF \in Nat
    BY SizeNat DEF TypeOK, LF
  <2> QED
    BY <1>1, <2>1, <2>2 DEF TypeOK, Write
<1>2. CASE ~ isOpen
  BY <1>2 DEF TypeOK, Write, Line
<1> QED
  BY <1>1, <1>2

LEMMA BeginType ==
  ASSUME TypeOK, BeginRotation
  PROVE  /\ file' \in Seq(Line) \cup {NoFile} /\ synced' \in Nat /\ rotated' \in Seq(RotatedFile)
         /\ isOpen' \in BOOLEAN /\ currSize' \in Nat /\ nextIdx' \in Index /\ fileQue' \in Seq(Index)
         /\ pc' \in Steps /\ target' \in Index
<1>1. synced' \in Nat
  BY DEF TypeOK, BeginRotation
<1>2. isOpen' \in BOOLEAN /\ currSize' \in Nat
  BY DEF BeginRotation
<1> QED
  BY <1>1, <1>2, SuccessorIndex DEF TypeOK, BeginRotation, Steps

LEMMA StepType == TypeOK /\ StreamInv /\ Distinct /\ [Next]_vars => TypeOK'
<1> SUFFICES ASSUME TypeOK, StreamInv, Distinct, [Next]_vars PROVE TypeOK'
  OBVIOUS
<1> USE SinkAssumption
<1>1. ASSUME NEW size \in LineSizes, Log(size) PROVE TypeOK'
  <2> DEFINE line == [n |-> count + 1, size |-> size]
  <2>1. line \in Line /\ count + 1 \in 0..MaxLogs
    BY <1>1 DEF Log, TypeOK, Line
  <2>2. count' = count + 1 /\ UNCHANGED <<settings, retired, undeleted, environment>>
    BY <1>1 DEF Log
  <2>3. \/ BeginRotation /\ pending' = line /\ UNCHANGED lost
        \/ Write(line) /\ UNCHANGED <<synced, rotated, isOpen, queue, control>>
    BY <1>1 DEF Log
  <2> HIDE DEF line
  <2>4. CASE BeginRotation /\ pending' = line /\ UNCHANGED lost
    BY <2>1, <2>2, <2>4, BeginType DEF TypeOK, settings, environment
  <2>5. CASE Write(line) /\ UNCHANGED <<synced, rotated, isOpen, queue, control>>
    BY <2>1, <2>2, <2>5, WriteType DEF TypeOK, settings, environment, queue, control
  <2> QED
    BY <2>3, <2>4, <2>5
<1>2. CASE Flush
  <2>1. file \in Seq(Line)
    BY <1>2 DEF Flush, StreamInv, TypeOK
  <2>2. Len(file) \in Nat /\ Bytes(file) \in Nat
    BY <2>1, BytesNat
  <2> QED
    BY <1>2, <2>2 DEF Flush, TypeOK, queue, settings, control, history, environment
<1>3. CASE RotateOnOpen
  BY <1>3, BeginType DEF RotateOnOpen, TypeOK, settings, history, environment
<1>4. CASE Rename
  <2>1. pc' \in Steps /\ faults' \in 0..MaxFaults /\ undeleted' \subseteq Index
    BY <1>4 DEF Rename, TypeOK, Fault, Steps
  <2>2. retired' \subseteq 1..MaxLogs
    BY <1>4, LinesCalledType DEF Rename, TypeOK
  <2>3. file' \in Seq(Line) \cup {NoFile} /\ synced' \in Nat
    BY <1>4 DEF Rename, TypeOK, disk
  <2>4. rotated' \in Seq(RotatedFile)
    <3>1. CASE file # NoFile /\ rotated' = Append(Others(target), [idx |-> target, lines |-> file])
      <4>1. Others(target) \in Seq(RotatedFile)
        BY OthersEmbed DEF Embeds, TypeOK
      <4>2. [idx |-> target, lines |-> file] \in RotatedFile
        BY <3>1 DEF TypeOK, RotatedFile
      <4> QED
        BY <3>1, <4>1, <4>2
    <3>2. CASE rotated' = rotated
      BY <3>2 DEF TypeOK
    <3> QED
      BY <1>4, <3>1, <3>2 DEF Rename, disk
  <2> QED
    BY <1>4, <2>1, <2>2, <2>3, <2>4 DEF Rename, TypeOK, writer, queue, settings
<1>5. CASE Reopen
  <2>1. pc' \in Steps /\ isOpen' \in BOOLEAN
    BY <1>5 DEF Reopen, TypeOK, Steps
  <2>2. faults' \in 0..MaxFaults
    BY <1>5 DEF Reopen, TypeOK, Fault
  <2>3. fileQue' \in Seq(Index)
    BY <1>5 DEF Reopen, TypeOK
  <2>4. file' \in Seq(Line) \cup {NoFile} /\ synced' \in Nat /\ currSize' \in Nat
    <3>1. <<>> \in Seq(Line)
      OBVIOUS
    <3>2. CASE UNCHANGED <<isOpen, file, synced, currSize>>
      BY <3>2 DEF TypeOK
    <3>3. CASE /\ file' = IF pc = "truncate" \/ file = NoFile THEN <<>> ELSE file
               /\ synced' = Len(file')
               /\ currSize' = Bytes(file')
      <4>1. file' \in Seq(Line)
        BY <3>1, <3>3 DEF TypeOK
      <4>2. Len(file') \in Nat /\ Bytes(file') \in Nat
        <5> DEFINE f == file'
        <5>1. f \in Seq(Line)
          BY <4>1
        <5> HIDE DEF f
        <5>2. Len(f) \in Nat /\ Bytes(f) \in Nat
          BY <5>1, BytesNat
        <5> QED
          BY <5>2 DEF f
      <4> QED
        BY <3>3, <4>1, <4>2
    <3> QED
      BY <1>5, <3>2, <3>3 DEF Reopen
  <2> QED
    BY <1>5, <2>1, <2>2, <2>3, <2>4 DEF Reopen, TypeOK, settings, history
<1>6. CASE DeleteOldest
  <2>1. Len(fileQue) > 0
    BY <1>6 DEF DeleteOldest, TypeOK
  <2>2. Head(fileQue) \in Index /\ Tail(fileQue) \in Seq(Index)
    BY <2>1 DEF TypeOK
  <2>3. Others(Head(fileQue)) \in Seq(RotatedFile)
    BY OthersEmbed DEF Embeds, TypeOK
  <2>4. rotated' \in Seq(RotatedFile) /\ faults' \in 0..MaxFaults /\ undeleted' \subseteq Index
    BY <1>6, <2>2, <2>3 DEF DeleteOldest, TypeOK, Fault
  <2>5. retired' \subseteq 1..MaxLogs
    BY <1>6, LinesCalledType DEF DeleteOldest, TypeOK
  <2> QED
    BY <1>6, <2>2, <2>4, <2>5 DEF DeleteOldest, TypeOK, writer, settings, control
<1>7. CASE EndRotation
  <2>1. file' \in Seq(Line) \cup {NoFile} /\ currSize' \in Nat /\ lost' \subseteq 1..MaxLogs
    <3>1. CASE pending = NoLog
      BY <1>7, <3>1 DEF EndRotation, TypeOK
    <3>2. CASE pending # NoLog
      <4>1. pending \in Line /\ Write(pending)
        BY <1>7, <3>2 DEF EndRotation, TypeOK
      <4> QED
        BY <4>1, WriteType
    <3> QED
      BY <3>1, <3>2
  <2> QED
    BY <1>7, <2>1 DEF EndRotation, TypeOK, queue, settings, environment, Steps
<1>8. ASSUME NEW limit \in Limits, SetMaxFileSize(limit) PROVE TypeOK'
  BY <1>8 DEF SetMaxFileSize, TypeOK, disk, writer, queue, control, history, environment
<1>9. ASSUME NEW n \in Retained, SetMaxFiles(n) PROVE TypeOK'
  BY <1>9 DEF SetMaxFiles, TypeOK, disk, writer, queue, control, history, environment
<1>10. CASE Crash
  <2>1. file' \in Seq(Line) \cup {NoFile} /\ synced' \in Nat
    <3>1. CASE file = NoFile
      BY <1>10, <3>1 DEF Crash, TypeOK
    <3>2. CASE file # NoFile
      <4>1. PICK k \in synced..Len(file) : file' = SubSeq(file, 1, k) /\ synced' = k
        BY <1>10, <3>2 DEF Crash
      <4>2. file \in Seq(Line) /\ k \in 0..Len(file)
        BY <3>2, <4>1 DEF TypeOK
      <4> QED
        BY <4>1, <4>2, NumbersPrefix
    <3> QED
      BY <3>1, <3>2
  <2>2. lost' \subseteq 1..MaxLogs
    <3>1. Numbers(file) \subseteq 1..MaxLogs
      BY NumbersType DEF TypeOK
    <3>2. pending = NoLog \/ pending.n \in 1..MaxLogs
      BY DEF TypeOK, Line
    <3> QED
      BY <1>10, <3>1, <3>2 DEF Crash, TypeOK
  <2>3. MinIndex \in Index /\ <<>> \in Seq(Index)
    BY DEF Index, MinIndex
  <2>4. crashes' \in 0..MaxCrashes
    BY <1>10 DEF Crash, TypeOK
  <2> QED
    BY <1>10, <2>1, <2>2, <2>3, <2>4 DEF Crash, TypeOK, settings, Steps
<1>11. ASSUME NEW limit \in Limits, NEW n \in Retained, NEW rotateOnOpen \in BOOLEAN,
              Start(limit, n, rotateOnOpen)
       PROVE  TypeOK'
  <2>1. <<>> \in Seq(Line)
    OBVIOUS
  <2> DEFINE f == file'
  <2>2. f \in Seq(Line)
    BY <1>11, <2>1 DEF Start, TypeOK
  <2>3. Len(f) \in Nat /\ Bytes(f) \in Nat
    <3> HIDE DEF f
    <3> QED
      BY <2>2, BytesNat
  <2>4. Indices(rotated) \in Seq(Index)
    BY IndicesType DEF TypeOK
  <2>5. nextIdx' \in Index
    <3>1. CASE rotated = <<>>
      BY <1>11, <3>1 DEF Start, Index, MinIndex
    <3>2. CASE rotated # <<>>
      <4>1. Last(rotated) \in RotatedFile
        BY <3>2 DEF TypeOK, Last
      <4> QED
        BY <1>11, <3>2, <4>1, RotatedFields, SuccessorIndex DEF Start
    <3> QED
      BY <3>1, <3>2
  <2> QED
    BY <1>11, <2>2, <2>3, <2>4, <2>5 DEF Start, TypeOK, history, environment, Steps
<1>12. CASE UNCHANGED vars
  BY <1>12 DEF TypeOK, vars, disk, writer, queue, settings, control, history, environment
<1> QED
  BY <1>1, <1>2, <1>3, <1>4, <1>5, <1>6, <1>7, <1>8, <1>9, <1>10, <1>11, <1>12 DEF Next, Rotate

------------------------------------------------------------------------------
(* The stream, the waiting log and what is dropped.                         *)

\* A line that is written leaves the size right; one that is dropped has a cause.
LEMMA WriteStream ==
  ASSUME StreamSide, NEW line \in Line, Write(line), pc \in {"idle", "delete"},
         UNCHANGED <<synced, isOpen, faults, crashes>>
  PROVE  /\ isOpen' => file' # NoFile /\ currSize' = Bytes(file')
         /\ file' = NoFile => synced' = 0
         /\ file' # NoFile => synced' <= Len(file')
         /\ file' # NoFile /\ ~ isOpen' => synced' = Len(file')
         /\ lost' # {} => faults' + crashes' > 0
<1>1. CASE isOpen
  <2>1. file \in Seq(Line) /\ currSize = Bytes(file) /\ synced <= Len(file)
    BY <1>1 DEF StreamSide, TypeOK, StreamInv
  <2>2. file' = Append(file, line) /\ currSize' = currSize + line.size + LF /\ lost' = lost
    BY <1>1 DEF Write
  <2>3. Append(file, line) \in Seq(Line) /\ Len(Append(file, line)) = Len(file) + 1
    BY <2>1
  <2>4. Bytes(Append(file, line)) = Bytes(file) + line.size + LF
    BY <2>1, BytesAppend
  <2>5. Append(file, line) # NoFile
    BY <2>3, SinkAssumption
  <2>6. currSize' = Bytes(file') /\ file' # NoFile
    BY <2>1, <2>2, <2>4, <2>5
  <2>7. synced' <= Len(file')
    BY <2>1, <2>2, <2>3 DEF StreamSide, TypeOK
  <2> QED
    BY <1>1, <2>2, <2>6, <2>7 DEF StreamSide, LossExplained
<1>2. CASE ~ isOpen
  <2>1. UNCHANGED <<file, currSize>>
    BY <1>2 DEF Write
  <2>2. faults > 0
    BY <1>2 DEF StreamSide, LossExplained
  <2>3. faults' + crashes' > 0
    BY <2>2 DEF StreamSide, TypeOK
  <2> QED
    BY <1>2, <2>1, <2>3 DEF StreamSide, StreamInv
<1> QED
  BY <1>1, <1>2

LEMMA BeginStream ==
  ASSUME StreamSide, BeginRotation
  PROVE  StreamInv'
<1>1. file # NoFile => Len(file) \in Nat
  BY DEF StreamSide, TypeOK
<1> QED
  BY <1>1 DEF StreamSide, StreamInv, BeginRotation

LEMMA StepStream ==
  ASSUME StreamSide, TypeOK', [Next]_vars
  PROVE  StreamSide'
<1> SUFFICES StreamInv' /\ PendingInv' /\ LossExplained'
  BY DEF StreamSide
<1> USE SinkAssumption
<1>1. ASSUME NEW size \in LineSizes, Log(size) PROVE StreamInv' /\ PendingInv' /\ LossExplained'
  <2> DEFINE line == [n |-> count + 1, size |-> size]
  <2>1. line \in Line /\ line.n = count'
    BY <1>1 DEF Log, StreamSide, TypeOK, Line
  <2>2. pc = "idle" /\ pending = NoLog /\ UNCHANGED environment
    BY <1>1 DEF Log, StreamSide, PendingInv
  <2>3. \/ BeginRotation /\ pending' = line /\ UNCHANGED lost
        \/ Write(line) /\ UNCHANGED <<synced, rotated, isOpen, queue, control>>
    BY <1>1 DEF Log
  <2> HIDE DEF line
  <2>4. CASE BeginRotation /\ pending' = line /\ UNCHANGED lost
    BY <2>1, <2>2, <2>4, BeginStream DEF BeginRotation, StreamSide, PendingInv, LossExplained, environment
  <2>5. CASE Write(line) /\ UNCHANGED <<synced, rotated, isOpen, queue, control>>
    <3>1. UNCHANGED <<synced, isOpen, faults, crashes, pc, pending>>
      BY <2>2, <2>5 DEF environment, control
    <3>2. PendingInv'
      BY <2>2, <3>1 DEF PendingInv
    <3>3. /\ isOpen' => file' # NoFile /\ currSize' = Bytes(file')
          /\ file' = NoFile => synced' = 0
          /\ file' # NoFile => synced' <= Len(file')
          /\ file' # NoFile /\ ~ isOpen' => synced' = Len(file')
          /\ lost' # {} => faults' + crashes' > 0
      BY <2>1, <2>2, <2>5, <3>1, WriteStream
    <3> QED
      BY <2>2, <3>1, <3>2, <3>3 DEF StreamInv, LossExplained, StreamSide
  <2> QED
    BY <2>3, <2>4, <2>5
<1>2. CASE Flush
  <2>1. file \in Seq(Line)
    BY <1>2 DEF Flush, StreamInv, StreamSide, TypeOK
  <2>2. Len(file) \in Nat
    BY <2>1
  <2> QED
    BY <1>2, <2>2 DEF Flush, StreamSide, StreamInv, PendingInv, LossExplained, queue, settings,
                      control, history, environment
<1>3. CASE RotateOnOpen
  BY <1>3, BeginStream DEF RotateOnOpen, BeginRotation, StreamSide, PendingInv, LossExplained,
                           history, environment
<1>4. CASE Rename
  <2>1. ~ isOpen /\ ~ isOpen' /\ pc = "rename" /\ pc' \in {"truncate", "append"}
    BY <1>4 DEF Rename, StreamSide, StreamInv, writer
  <2>2. (faults' = faults \/ faults' = faults + 1) /\ crashes' = crashes
    BY <1>4 DEF Rename, Fault
  <2>3. faults \in Nat /\ crashes \in Nat /\ faults' \in Nat /\ crashes' \in Nat
    BY DEF StreamSide, TypeOK
  <2>4. StreamInv'
    BY <1>4, <2>1 DEF Rename, StreamSide, StreamInv, disk
  <2>5. PendingInv'
    BY <1>4, <2>1 DEF Rename, StreamSide, PendingInv
  <2>6. lost' = lost
    BY <1>4 DEF Rename
  <2>7. faults + crashes > 0 => faults' + crashes' > 0
    <3>1. CASE faults' = faults
      BY <2>2, <3>1
    <3>2. CASE faults' = faults + 1
      BY <2>2, <2>3, <3>2
    <3> QED
      BY <2>2, <3>1, <3>2
  <2>8. LossExplained'
    BY <2>1, <2>6, <2>7 DEF LossExplained, StreamSide
  <2> QED
    BY <2>4, <2>5, <2>8
<1>5. CASE Reopen
  <2>1. ~ isOpen /\ pc \in {"truncate", "append"} /\ pc' = "delete" /\ lost' = lost
    BY <1>5 DEF Reopen, StreamSide, StreamInv, history
  <2>2. PendingInv'
    BY <1>5, <2>1 DEF Reopen, StreamSide, PendingInv, history
  <2>3. faults \in Nat /\ crashes \in Nat
    BY DEF StreamSide, TypeOK
  <2>4. CASE /\ isOpen' = TRUE
             /\ file' = IF pc = "truncate" \/ file = NoFile THEN <<>> ELSE file
             /\ synced' = Len(file')
             /\ currSize' = Bytes(file')
             /\ UNCHANGED faults
    <3>1. <<>> \in Seq(Line)
      OBVIOUS
    <3>2. file' \in Seq(Line)
      BY <2>4, <3>1 DEF StreamSide, TypeOK
    <3>3. file' # NoFile /\ Len(file') \in Nat
      BY <3>2
    <3>4. StreamInv'
      BY <2>1, <2>4, <3>3 DEF StreamInv
    <3>5. LossExplained'
      BY <1>5, <2>1, <2>4 DEF LossExplained, StreamSide, Reopen
    <3> QED
      BY <2>2, <3>4, <3>5
  <2>5. CASE Fault("open") /\ UNCHANGED <<isOpen, file, synced, currSize>>
    <3>1. faults' = faults + 1 /\ crashes' = crashes
      BY <1>5, <2>5 DEF Reopen, Fault
    <3>2. faults' > 0 /\ faults' + crashes' > 0
      BY <2>3, <3>1
    <3>3. LossExplained'
      BY <3>2 DEF LossExplained
    <3>4. StreamInv'
      BY <2>1, <2>5 DEF StreamInv, StreamSide
    <3> QED
      BY <2>2, <3>3, <3>4
  <2> QED
    BY <1>5, <2>4, <2>5 DEF Reopen
<1>6. CASE DeleteOldest
  <2>1. UNCHANGED <<file, synced, isOpen, currSize, pc, pending, count, lost, crashes>>
    BY <1>6 DEF DeleteOldest, writer, control
  <2>2. faults \in Nat /\ crashes \in Nat /\ (faults' = faults \/ faults' = faults + 1)
    BY <1>6 DEF DeleteOldest, Fault, StreamSide, TypeOK
  <2>3. LossExplained'
    <3>1. faults + crashes > 0 => faults' + crashes' > 0
      BY <2>1, <2>2
    <3>2. faults > 0 => faults' > 0
      BY <2>2
    <3> QED
      BY <2>1, <3>1, <3>2 DEF LossExplained, StreamSide
  <2>4. StreamInv' /\ PendingInv'
    BY <2>1 DEF StreamSide, StreamInv, PendingInv
  <2> QED
    BY <2>3, <2>4
<1>7. CASE EndRotation
  <2>1. pc = "delete" /\ pc' = "idle" /\ pending' = NoLog /\ UNCHANGED <<synced, isOpen, faults, crashes, count>>
    BY <1>7 DEF EndRotation, environment
  <2>2. CASE pending = NoLog
    BY <1>7, <2>1, <2>2 DEF EndRotation, StreamSide, StreamInv, PendingInv, LossExplained
  <2>3. CASE pending # NoLog
    <3>1. pending \in Line /\ Write(pending)
      BY <1>7, <2>3 DEF EndRotation, StreamSide, TypeOK
    <3>2. /\ isOpen' => file' # NoFile /\ currSize' = Bytes(file')
          /\ file' = NoFile => synced' = 0
          /\ file' # NoFile => synced' <= Len(file')
          /\ file' # NoFile /\ ~ isOpen' => synced' = Len(file')
          /\ lost' # {} => faults' + crashes' > 0
      BY <2>1, <3>1, WriteStream
    <3> QED
      BY <2>1, <3>2 DEF StreamInv, LossExplained, PendingInv, StreamSide
  <2> QED
    BY <2>2, <2>3
<1>8. ASSUME NEW limit \in Limits, SetMaxFileSize(limit) PROVE StreamInv' /\ PendingInv' /\ LossExplained'
  BY <1>8 DEF SetMaxFileSize, StreamSide, StreamInv, PendingInv, LossExplained, disk, writer, queue,
              control, history, environment
<1>9. ASSUME NEW n \in Retained, SetMaxFiles(n) PROVE StreamInv' /\ PendingInv' /\ LossExplained'
  BY <1>9 DEF SetMaxFiles, StreamSide, StreamInv, PendingInv, LossExplained, disk, writer, queue,
              control, history, environment
<1>10. CASE Crash
  <2>1. ~ isOpen' /\ pc' = "down" /\ pending' = NoLog /\ crashes' = crashes + 1 /\ faults' = faults
    BY <1>10 DEF Crash
  <2>2. faults \in Nat /\ crashes \in Nat
    BY DEF StreamSide, TypeOK
  <2>3. LossExplained' /\ PendingInv'
    BY <2>1, <2>2 DEF LossExplained, PendingInv
  <2>4. CASE file = NoFile
    <3>1. file' = NoFile /\ synced' = synced /\ synced = 0
      BY <1>10, <2>4 DEF Crash, StreamSide, StreamInv
    <3> QED
      BY <2>1, <2>3, <3>1 DEF StreamInv
  <2>5. CASE file # NoFile
    <3>1. PICK k \in synced..Len(file) : file' = SubSeq(file, 1, k) /\ synced' = k
      BY <1>10, <2>5 DEF Crash
    <3>2. file \in Seq(Line) /\ k \in 0..Len(file)
      BY <2>5, <3>1 DEF StreamSide, TypeOK
    <3>3. file' \in Seq(Line) /\ Len(file') = k
      BY <3>1, <3>2, NumbersPrefix
    <3> QED
      BY <2>1, <2>3, <3>1, <3>2, <3>3 DEF StreamInv
  <2> QED
    BY <2>3, <2>4, <2>5
<1>11. ASSUME NEW limit \in Limits, NEW n \in Retained, NEW rotateOnOpen \in BOOLEAN,
              Start(limit, n, rotateOnOpen)
       PROVE  StreamInv' /\ PendingInv' /\ LossExplained'
  <2>1. <<>> \in Seq(Line)
    OBVIOUS
  <2>2. file' \in Seq(Line)
    BY <1>11, <2>1 DEF Start, StreamSide, TypeOK
  <2>3. file' # NoFile /\ Len(file') \in Nat
    BY <2>2
  <2>4. isOpen' /\ pc' \in {"opened", "idle"} /\ synced' = Len(file') /\ currSize' = Bytes(file')
    BY <1>11 DEF Start
  <2>5. UNCHANGED <<pending, count, lost, faults, crashes>> /\ pending = NoLog
    BY <1>11 DEF Start, history, environment, StreamSide, PendingInv
  <2> QED
    BY <2>3, <2>4, <2>5 DEF StreamInv, PendingInv, LossExplained, StreamSide
<1>12. CASE UNCHANGED vars
  BY <1>12 DEF StreamSide, StreamInv, PendingInv, LossExplained, vars, disk, writer, queue, settings,
               control, history, environment
<1> QED
  BY <1>1, <1>2, <1>3, <1>4, <1>5, <1>6, <1>7, <1>8, <1>9, <1>10, <1>11, <1>12 DEF Next, Rotate

------------------------------------------------------------------------------
(* What the files hold, and the window of the logs: the steps that leave    *)
(* the directory as it is.                                                  *)

WindowStep == Window!Next \/ UNCHANGED <<Kept, Secured>>

\* A closed file is secured.
LEMMA ClosedSecured ==
  ASSUME StreamSide, ~ isOpen
  PROVE  Secured = Kept
<1>1. CASE file = NoFile
  BY <1>1 DEF Secured, Kept, Numbers
<1>2. CASE file # NoFile
  <2>1. file \in Seq(Line) /\ synced = Len(file)
    BY <1>2 DEF StreamSide, StreamInv, TypeOK
  <2>2. DOMAIN file = 1..synced
    BY <2>1
  <2> QED
    BY <1>2, <2>2 DEF Secured, Kept, Numbers
<1> QED
  BY <1>1, <1>2

\* A file that does not exist is created empty, or nothing in it changes.
FileKept == file' = file \/ (file = NoFile /\ file' = <<>>)

LEMMA KeptNumbers ==
  ASSUME FileKept
  PROVE  Numbers(file') = Numbers(file) /\ (Ascending(file) => Ascending(file)')
<1>1. CASE file' = file
  BY <1>1 DEF Numbers, Ascending
<1>2. CASE file = NoFile /\ file' = <<>>
  BY <1>2, NumbersEmpty DEF Ascending
<1> QED
  BY <1>1, <1>2 DEF FileKept

LEMMA StillDirectory ==
  ASSUME DirectorySide, LossExplained', FileKept,
         UNCHANGED <<rotated, retired, undeleted, crashes, lost, count, pending>>,
         pc' = "down" => pc = "down"
  PROVE  DirectorySide'
<1>1. Numbers(file') = Numbers(file) /\ (Ascending(file) => Ascending(file)')
  BY KeptNumbers
<1>2. InOrder'
  BY <1>1 DEF DirectorySide, InOrder, Before
<1>3. NewestLast' /\ Distinct'
  BY <1>1 DEF DirectorySide, NewestLast, OnDisk, Distinct
<1>4. GivenUp'
  BY <1>1 DEF DirectorySide, GivenUp
<1>5. NoLogVanishes'
  BY <1>1 DEF DirectorySide, NoLogVanishes, LossExplained, Waiting, ListedLines
<1> QED
  BY <1>2, <1>3, <1>4, <1>5 DEF DirectorySide

\* A log begins to wait.
LEMMA WaitDirectory ==
  ASSUME StreamSide, DirectorySide, LossExplained',
         UNCHANGED <<file, rotated, retired, undeleted, crashes, lost>>,
         pc' # "down", pending = NoLog, count' = count + 1, pending' # NoLog, pending'.n = count'
  PROVE  DirectorySide'
<1>1. InOrder' /\ Distinct'
  BY DEF DirectorySide, InOrder, Distinct
<1>2. GivenUp'
  BY DEF DirectorySide, GivenUp
<1>3. count \in Nat
  BY DEF StreamSide, TypeOK
<1>4. OnDisk' = OnDisk
  BY DEF OnDisk
<1>5. OnDisk \cup lost \cup retired \subseteq Int
  <2>1. OnDisk \subseteq 1..MaxLogs
    BY NumbersType, LinesOfType DEF OnDisk, StreamSide, TypeOK
  <2>2. lost \subseteq 1..MaxLogs /\ retired \subseteq 1..MaxLogs
    BY DEF StreamSide, TypeOK
  <2> QED
    BY <2>1, <2>2
<1>6. ASSUME NEW n \in OnDisk \cup lost \cup retired PROVE n <= count' /\ n # count'
  <2>1. n \in Int /\ n <= count
    BY <1>5 DEF DirectorySide, NewestLast
  <2> QED
    BY <1>3, <2>1
<1>7. NewestLast'
  BY <1>4, <1>6 DEF NewestLast
<1>8. 1..count' = 1..count \cup {count'}
  BY <1>3
<1>9. Waiting = {} /\ Waiting' = {count'}
  BY DEF Waiting
<1>10. Numbers(file) \subseteq OnDisk
  BY DEF OnDisk
<1>11. NoLogVanishes'
  <2>1. count' \notin lost \cup retired
    BY <1>6
  <2>2. ListedLines' = ListedLines
    BY DEF ListedLines
  <2>3. LinesOf(rotated') = LinesOf(rotated) /\ Numbers(file') = Numbers(file)
    OBVIOUS
  <2>4. lost' # {} => faults' + crashes' > 0
    BY DEF LossExplained
  <2>5. 1..count = Numbers(file) \cup LinesOf(rotated) \cup lost \cup retired
    BY <1>9 DEF DirectorySide, NoLogVanishes
  <2>6. 1..count' = Numbers(file') \cup LinesOf(rotated') \cup Waiting' \cup lost' \cup retired'
    BY <1>8, <1>9, <2>3, <2>5
  <2>7. (Numbers(file') \cup Waiting') \cap (lost' \cup retired') = {}
    BY <1>9, <2>1, <2>3 DEF DirectorySide, NoLogVanishes
  <2> QED
    BY <2>2, <2>3, <2>4, <2>6, <2>7 DEF DirectorySide, NoLogVanishes
<1> QED
  BY <1>1, <1>2, <1>7, <1>11 DEF DirectorySide

\* A log is written, or dropped by a closed stream: it is newer than all others.
LEMMA WriteDirectory ==
  ASSUME StreamSide, DirectorySide, LossExplained', NEW line \in Line, Write(line),
         UNCHANGED <<synced, rotated, retired, undeleted, crashes>>,
         pc' # "down", pending' = NoLog, count' = line.n,
         \A n \in OnDisk \cup lost \cup retired : n < line.n,
         1..count' = OnDisk \cup lost \cup retired \cup {line.n}
  PROVE  DirectorySide' /\ WindowStep
<1>1. Distinct'
  BY DEF DirectorySide, Distinct
<1>2. Waiting' = {} /\ ListedLines' = ListedLines /\ LinesOf(rotated') = LinesOf(rotated)
  BY DEF Waiting, ListedLines
<1>3. lost' # {} => faults' + crashes' > 0
  BY DEF LossExplained
<1>4. line.n \in Int /\ line.n \notin OnDisk \cup lost \cup retired
  BY DEF Line
<1>5. OnDisk \cup lost \cup retired \subseteq Int
  <2>1. OnDisk \subseteq 1..MaxLogs
    BY NumbersType, LinesOfType DEF OnDisk, StreamSide, TypeOK
  <2>2. lost \subseteq 1..MaxLogs /\ retired \subseteq 1..MaxLogs
    BY DEF StreamSide, TypeOK
  <2> QED
    BY <2>1, <2>2
<1>6. ASSUME NEW n \in OnDisk \cup lost \cup retired \cup {line.n} PROVE n <= count'
  BY <1>4, <1>5
<1>7. CASE isOpen
  <2>1. file \in Seq(Line) /\ synced <= Len(file)
    BY <1>7 DEF StreamSide, StreamInv, TypeOK
  <2>2. file' = Append(file, line) /\ lost' = lost
    BY <1>7 DEF Write
  <2>3. Numbers(file') = Numbers(file) \cup {line.n}
    BY <2>1, <2>2, NumbersAppend
  <2>4. OnDisk' = OnDisk \cup {line.n}
    BY <1>2, <2>3 DEF OnDisk
  <2>5. NewestLast'
    BY <1>6, <2>2, <2>4 DEF NewestLast
  <2>6. GivenUp'
    BY <1>4, <2>2, <2>3 DEF DirectorySide, GivenUp
  <2>7. Ascending(file')
    <3> SUFFICES ASSUME NEW i \in DOMAIN file', NEW j \in DOMAIN file', i < j
                 PROVE  file'[i].n < file'[j].n
      BY DEF Ascending
    <3>1. i \in DOMAIN file /\ file'[i] = file[i]
      BY <2>1, <2>2
    <3>2. CASE j = Len(file) + 1
      <4>1. file'[j] = line
        BY <2>1, <2>2, <3>2
      <4>2. file[i].n \in OnDisk
        BY <2>1, <3>1, SinkAssumption DEF OnDisk, Numbers
      <4> QED
        BY <3>1, <4>1, <4>2
    <3>3. CASE j # Len(file) + 1
      <4>1. j \in DOMAIN file /\ file'[j] = file[j]
        BY <2>1, <2>2, <3>3
      <4>2. file # NoFile
        BY <2>1, SinkAssumption
      <4> QED
        BY <3>1, <4>1, <4>2 DEF DirectorySide, InOrder, Ascending
    <3> QED
      BY <3>2, <3>3
  <2>8. ASSUME NEW i \in DOMAIN rotated PROVE Before(rotated[i].lines, file')
    <3>1. Numbers(rotated[i].lines) \subseteq OnDisk
      BY DEF OnDisk, LinesOf
    <3>2. Before(rotated[i].lines, file)
      BY DEF DirectorySide, InOrder
    <3> QED
      BY <2>3, <3>1, <3>2 DEF Before
  <2>9. InOrder'
    BY <2>7, <2>8 DEF DirectorySide, InOrder
  <2>10. NoLogVanishes'
    <3>1. line.n \notin lost \cup retired
      BY <1>4
    <3>2. 1..count' = Numbers(file') \cup LinesOf(rotated') \cup Waiting' \cup lost' \cup retired'
      BY <1>2, <2>2, <2>3 DEF OnDisk
    <3>3. (Numbers(file') \cup Waiting') \cap (lost' \cup retired') = {}
      BY <1>2, <2>2, <2>3, <3>1 DEF DirectorySide, NoLogVanishes
    <3> QED
      BY <1>2, <1>3, <2>2, <3>2, <3>3 DEF DirectorySide, NoLogVanishes
  <2>11. Kept' = Kept \cup {line.n} /\ line.n \notin Kept
    BY <1>2, <1>4, <2>3 DEF Kept, OnDisk
  <2>12. Secured' = Secured
    <3>1. file # NoFile /\ file' # NoFile
      BY <2>1, <2>2, SinkAssumption
    <3>2. \A i \in 1..synced : file'[i] = file[i]
      BY <2>1, <2>2 DEF StreamSide, TypeOK
    <3> QED
      BY <3>1, <3>2 DEF Secured
  <2>13. \A m \in Kept : m < line.n
    BY DEF Kept, OnDisk
  <2>14. Window!Add
    BY <2>11, <2>12, <2>13 DEF Window!Add
  <2> QED
    BY <1>1, <2>5, <2>6, <2>9, <2>10, <2>14 DEF DirectorySide, WindowStep, Window!Next
<1>8. CASE ~ isOpen
  <2>1. file' = file /\ lost' = lost \cup {line.n}
    BY <1>8 DEF Write
  <2>2. OnDisk' = OnDisk
    BY <2>1 DEF OnDisk
  <2>3. NewestLast'
    BY <1>6, <2>1, <2>2 DEF NewestLast
  <2>4. InOrder'
    BY <2>1 DEF DirectorySide, InOrder
  <2>5. GivenUp'
    <3>1. line.n \notin retired
      BY <1>4
    <3>2. retired \cap (Numbers(file) \cup lost) = {}
      BY DEF DirectorySide, GivenUp
    <3>3. retired' \cap (Numbers(file') \cup lost') = {}
      BY <2>1, <3>1, <3>2
    <3> QED
      BY <3>3 DEF DirectorySide, GivenUp
  <2>6. NoLogVanishes'
    <3>1. line.n \notin Numbers(file) \cup LinesOf(rotated)
      BY <1>4 DEF OnDisk
    <3>2. 1..count' = Numbers(file') \cup LinesOf(rotated') \cup Waiting' \cup lost' \cup retired'
      BY <1>2, <2>1 DEF OnDisk
    <3>3. (Numbers(file') \cup Waiting') \cap (lost' \cup retired') = {}
      BY <1>2, <2>1, <3>1 DEF DirectorySide, NoLogVanishes
    <3>4. LinesOf(rotated') \cap lost' = {}
      BY <1>2, <2>1, <3>1 DEF DirectorySide, NoLogVanishes
    <3>5. crashes' = 0 => ListedLines' \cap retired' = {}
      BY <1>2 DEF DirectorySide, NoLogVanishes
    <3> QED
      BY <1>3, <3>2, <3>3, <3>4, <3>5 DEF NoLogVanishes
  <2>7. UNCHANGED <<Kept, Secured>>
    BY <2>1 DEF Kept, Secured
  <2> QED
    BY <1>1, <2>3, <2>4, <2>5, <2>6, <2>7 DEF DirectorySide, WindowStep
<1> QED
  BY <1>7, <1>8

\* The steps that write nothing leave the window; the stream secures it when it
\* is flushed or closed.
LEMMA StillWindow ==
  ASSUME FileKept, UNCHANGED <<rotated, retired>>,
         (file' = file /\ synced' = synced) \/ Secured' = Kept'
  PROVE  WindowStep
<1>1. Kept' = Kept
  BY KeptNumbers DEF Kept
<1>2. CASE file' = file /\ synced' = synced
  BY <1>1, <1>2 DEF Secured, WindowStep
<1>3. CASE Secured' = Kept'
  BY <1>1, <1>3 DEF WindowStep, Window!Next, Window!Secure
<1> QED
  BY <1>2, <1>3

LEMMA AllSecured ==
  ASSUME file' \in Seq(Line), synced' = Len(file')
  PROVE  Secured' = Kept'
<1>1. file' # NoFile
  BY SinkAssumption
<1>2. DOMAIN file' = 1..synced'
  OBVIOUS
<1> QED
  BY <1>1, <1>2 DEF Secured, Kept, Numbers

------------------------------------------------------------------------------
(* The steps that change the directory.                                     *)

LEMMA IndicesIn == \A files : ToSet(Indices(files)) = {files[i].idx : i \in DOMAIN files}
BY DEF ToSet, Indices

LEMMA AppendMembers ==
  \A s \in Seq(Index), x \in Index : ToSet(Append(s, x)) = ToSet(s) \cup {x}
<1> SUFFICES ASSUME NEW s \in Seq(Index), NEW x \in Index
             PROVE  ToSet(Append(s, x)) = ToSet(s) \cup {x}
  OBVIOUS
<1> DEFINE t == Append(s, x)
<1>1. DOMAIN t = DOMAIN s \cup {Len(s) + 1} /\ t[Len(s) + 1] = x /\ \A i \in DOMAIN s : t[i] = s[i]
  OBVIOUS
<1> HIDE DEF t
<1>2. {t[i] : i \in DOMAIN t} = {s[i] : i \in DOMAIN s} \cup {x}
  BY <1>1
<1> QED
  BY <1>2 DEF t, ToSet

LEMMA InLines == \A files, n : n \in LinesOf(files) <=> \E i \in DOMAIN files : n \in Numbers(files[i].lines)
BY DEF LinesOf

LEMMA EmbedsBack ==
  ASSUME NEW f, NEW files, NEW idx, Embeds(f, files, idx), rotated \in Seq(RotatedFile),
         NEW i \in DOMAIN files, NEW j \in DOMAIN files, f[i] < f[j]
  PROVE  i < j
<1>1. f[i] \in Int /\ f[j] \in Int /\ i \in Int /\ j \in Int
  BY DEF Embeds
<1>2. ~ (j < i) /\ i # j
  BY <1>1 DEF Embeds
<1> QED
  BY <1>1, <1>2

\* A file that is removed takes its logs and no others.
LEMMA EmbedsLines ==
  ASSUME NEW f, NEW files, NEW idx, Embeds(f, files, idx)
  PROVE  /\ LinesOf(rotated) = LinesOf(files) \cup LinesCalled(idx)
         /\ ToSet(Indices(files)) = ToSet(Indices(rotated)) \ {idx}
<1>1. ASSUME NEW n \in LinesOf(files) PROVE n \in LinesOf(rotated)
  <2>1. PICK i \in DOMAIN files : n \in Numbers(files[i].lines)
    BY InLines
  <2>2. f[i] \in DOMAIN rotated /\ files[i] = rotated[f[i]]
    BY DEF Embeds
  <2> QED
    BY <2>1, <2>2, InLines
<1>2. ASSUME NEW n \in LinesCalled(idx) PROVE n \in LinesOf(rotated)
  BY DEF LinesCalled, Places, LinesOf
<1>3. ASSUME NEW n \in LinesOf(rotated), n \notin LinesCalled(idx) PROVE n \in LinesOf(files)
  <2>1. PICK j \in DOMAIN rotated : n \in Numbers(rotated[j].lines)
    BY InLines
  <2>2. rotated[j].idx # idx
    BY <1>3, <2>1 DEF LinesCalled, Places
  <2>3. PICK i \in DOMAIN files : f[i] = j
    BY <2>2 DEF Embeds
  <2>4. files[i] = rotated[j]
    BY <2>3 DEF Embeds
  <2> QED
    BY <2>1, <2>4, InLines
<1>4. LinesOf(rotated) = LinesOf(files) \cup LinesCalled(idx)
  BY <1>1, <1>2, <1>3
<1>5. {files[i].idx : i \in DOMAIN files} = {rotated[i].idx : i \in DOMAIN rotated} \ {idx}
  <2>1. ASSUME NEW i \in DOMAIN files
        PROVE  files[i].idx \in {rotated[j].idx : j \in DOMAIN rotated} \ {idx}
    BY DEF Embeds
  <2>2. ASSUME NEW j \in DOMAIN rotated, rotated[j].idx # idx
        PROVE  rotated[j].idx \in {files[i].idx : i \in DOMAIN files}
    <3>1. PICK i \in DOMAIN files : f[i] = j
      BY <2>2 DEF Embeds
    <3>2. files[i] = rotated[j]
      BY <3>1 DEF Embeds
    <3> QED
      BY <3>2
  <2> QED
    BY <2>1, <2>2
<1> QED
  BY <1>4, <1>5, IndicesIn

LEMMA EmbedsDistinct ==
  ASSUME NEW f, NEW files, NEW idx, Embeds(f, files, idx), rotated \in Seq(RotatedFile), Distinct,
         NEW i \in DOMAIN files, NEW j \in DOMAIN files, files[i].idx = files[j].idx
  PROVE  i = j
<1>1. f[i] \in DOMAIN rotated /\ f[j] \in DOMAIN rotated /\ files[i] = rotated[f[i]] /\ files[j] = rotated[f[j]]
  BY DEF Embeds
<1>2. f[i] = f[j]
  BY <1>1 DEF Distinct
<1>3. ~ (f[i] < f[j]) /\ ~ (f[j] < f[i])
  BY <1>1, <1>2
<1>4. ~ (i < j) /\ ~ (j < i) /\ i \in Int /\ j \in Int
  BY <1>3 DEF Embeds
<1> QED
  BY <1>4

\* A rename keeps the indices of the files apart.
LEMMA RenameDistinct ==
  ASSUME StreamSide, Distinct, file # NoFile,
         rotated' = Append(Others(target), [idx |-> target, lines |-> file])
  PROVE  Distinct'
<1> DEFINE files == Others(target)
<1> DEFINE new == [idx |-> target, lines |-> file]
<1>1. rotated \in Seq(RotatedFile) /\ target \in Index /\ file \in Seq(Line)
  BY DEF StreamSide, TypeOK
<1>2. PICK f : Embeds(f, files, target)
  BY <1>1, OthersEmbed
<1>3. new \in RotatedFile /\ new.idx = target
  BY <1>1 DEF RotatedFile
<1>4. files \in Seq(RotatedFile) /\ rotated' = Append(files, new)
  BY <1>2 DEF Embeds
<1> HIDE DEF files, new
<1>5. /\ DOMAIN rotated' = DOMAIN files \cup {Len(files) + 1}
      /\ rotated'[Len(files) + 1] = new
      /\ \A i \in DOMAIN files : rotated'[i] = files[i]
  BY <1>3, <1>4
<1>6. \A i \in DOMAIN files : files[i].idx # target
  BY <1>2 DEF Embeds
<1>7. \A i, j \in DOMAIN files : files[i].idx = files[j].idx => i = j
  BY <1>1, <1>2, EmbedsDistinct
<1> QED
  BY <1>3, <1>5, <1>6, <1>7 DEF Distinct

\* A rename gives the file a name: nothing is lost, and the directory lists it last.
LEMMA RenameDirectory ==
  ASSUME StreamSide, DirectorySide, LossExplained', Tracks(fileQue), target \notin ToSet(fileQue),
         pc = "rename", file # NoFile,
         rotated' = Append(Others(target), [idx |-> target, lines |-> file]),
         file' = NoFile, synced' = 0,
         retired' = IF target \in undeleted THEN retired \cup LinesCalled(target) ELSE retired,
         undeleted' = undeleted \ {target},
         pc' = "truncate",
         UNCHANGED <<target, fileQue, pending, count, lost, crashes>>
  PROVE  /\ DirectorySide'
         /\ UNCHANGED <<Kept, Secured>>
         /\ Tracks(Append(fileQue, target))'
         /\ \A i \in Places(target) : rotated[i].idx \in undeleted
<1> DEFINE files == Others(target)
<1> DEFINE new == [idx |-> target, lines |-> file]
<1>1. rotated \in Seq(RotatedFile) /\ target \in Index /\ fileQue \in Seq(Index) /\ file \in Seq(Line)
  BY DEF StreamSide, TypeOK
<1>2. PICK f : Embeds(f, files, target)
  BY <1>1, OthersEmbed DEF DirectorySide
<1>3. new \in RotatedFile /\ new.idx = target /\ new.lines = file
  BY <1>1 DEF RotatedFile
<1>4. files \in Seq(RotatedFile) /\ rotated' = Append(files, new)
  BY <1>2 DEF Embeds
<1> HIDE DEF files, new
<1>5. /\ Len(files) \in Nat
      /\ DOMAIN files = 1..Len(files)
      /\ DOMAIN rotated' = 1..Len(files) + 1
      /\ rotated'[Len(files) + 1] = new
      /\ \A i \in DOMAIN files : rotated'[i] = files[i]
  BY <1>3, <1>4
<1>6. \A i \in DOMAIN files : f[i] \in DOMAIN rotated /\ files[i] = rotated[f[i]] /\ files[i].idx # target
  BY <1>2 DEF Embeds
<1>7. ASSUME NEW i \in Places(target) PROVE rotated[i].idx \in undeleted /\ Numbers(rotated[i].lines) \subseteq retired
  <2>1. i \in DOMAIN rotated /\ rotated[i].idx = target
    BY DEF Places
  <2>2. target \in ToSet(Indices(rotated))
    BY <2>1, IndicesIn
  <2>3. target \in undeleted
    BY <2>2 DEF Tracks
  <2> QED
    BY <2>1, <2>3 DEF DirectorySide, GivenUp
<1>8. LinesCalled(target) \subseteq retired /\ retired' = retired
  <2>1. LinesCalled(target) \subseteq retired
    BY <1>7 DEF LinesCalled
  <2> QED
    BY <2>1
<1>9. LinesOf(rotated') = LinesOf(files) \cup Numbers(file)
  <2>1. ASSUME NEW n PROVE n \in LinesOf(rotated') <=> n \in LinesOf(files) \cup Numbers(file)
    <3>1. n \in LinesOf(rotated') <=> \E i \in DOMAIN rotated' : n \in Numbers(rotated'[i].lines)
      BY InLines
    <3>2. n \in LinesOf(files) <=> \E i \in DOMAIN files : n \in Numbers(files[i].lines)
      BY InLines
    <3>3. DOMAIN rotated' = DOMAIN files \cup {Len(files) + 1}
      BY <1>5
    <3> QED
      BY <1>3, <1>5, <3>1, <3>2, <3>3
  <2> QED
    BY <2>1
<1>10. LinesOf(rotated) = LinesOf(files) \cup LinesCalled(target)
  BY <1>2, EmbedsLines
<1>11. Numbers(file') = {}
  BY NumbersEmpty
<1>12. Distinct'
  BY <1>4, RenameDistinct DEF DirectorySide, files, new
<1>13. NewestLast'
  <2>1. OnDisk' \cup lost' \cup retired' = OnDisk \cup lost \cup retired
    BY <1>8, <1>9, <1>10, <1>11 DEF OnDisk
  <2> QED
    BY <2>1 DEF DirectorySide, NewestLast
<1>14. ToSet(Indices(rotated')) = (ToSet(Indices(rotated)) \ {target}) \cup {target}
  <2>1. {rotated'[i].idx : i \in DOMAIN rotated'} = {files[i].idx : i \in DOMAIN files} \cup {target}
    BY <1>3, <1>5
  <2>2. ToSet(Indices(files)) = ToSet(Indices(rotated)) \ {target}
    BY <1>2, EmbedsLines
  <2>3. ToSet(Indices(rotated')) = {rotated'[i].idx : i \in DOMAIN rotated'}
    BY DEF ToSet, Indices
  <2>4. ToSet(Indices(files)) = {files[i].idx : i \in DOMAIN files}
    BY IndicesIn
  <2> QED
    BY <2>1, <2>2, <2>3, <2>4
<1>15. GivenUp'
  <2>1. undeleted' \subseteq ToSet(Indices(rotated'))
    BY <1>14 DEF DirectorySide, GivenUp
  <2>2. retired \cap Numbers(file) = {} /\ retired \cap lost = {}
    BY DEF DirectorySide, GivenUp
  <2>3. ASSUME NEW i \in DOMAIN rotated'
        PROVE  LET lines == Numbers(rotated'[i].lines)
               IN  /\ lines \subseteq retired \/ lines \cap retired = {}
                   /\ rotated'[i].idx \in undeleted' => lines \subseteq retired
                   /\ rotated'[i].idx \notin undeleted' /\ crashes' = 0 => lines \cap retired = {}
    <3>1. CASE i = Len(files) + 1
      BY <1>3, <1>5, <2>2, <3>1
    <3>2. CASE i \in DOMAIN files
      BY <1>5, <1>6, <3>2 DEF DirectorySide, GivenUp
    <3> QED
      BY <1>5, <3>1, <3>2
  <2> QED
    BY <1>8, <1>11, <2>1, <2>2, <2>3 DEF GivenUp
<1>16. InOrder'
  <2>1. Ascending(file')
    BY DEF Ascending
  <2>2. ASSUME NEW i \in DOMAIN rotated' PROVE Ascending(rotated'[i].lines) /\ Before(rotated'[i].lines, file')
    <3>1. Before(rotated'[i].lines, file')
      BY <1>11 DEF Before
    <3>2. CASE i = Len(files) + 1
      BY <1>3, <1>5, <3>1, <3>2 DEF DirectorySide, InOrder
    <3>3. CASE i \in DOMAIN files
      BY <1>5, <1>6, <3>1, <3>3 DEF DirectorySide, InOrder
    <3> QED
      BY <1>5, <3>2, <3>3
  <2>3. ASSUME NEW i \in DOMAIN rotated', NEW j \in DOMAIN rotated', i < j
        PROVE  Before(rotated'[i].lines, rotated'[j].lines)
    <3>1. i \in DOMAIN files
      BY <1>5, <2>3
    <3>2. CASE j = Len(files) + 1
      BY <1>3, <1>5, <1>6, <3>1, <3>2 DEF DirectorySide, InOrder
    <3>3. CASE j \in DOMAIN files
      <4>1. f[i] < f[j]
        BY <1>2, <2>3, <3>1, <3>3 DEF Embeds
      <4> QED
        BY <1>5, <1>6, <3>1, <3>3, <4>1 DEF DirectorySide, InOrder
    <3> QED
      BY <1>5, <3>2, <3>3
  <2> QED
    BY <2>1, <2>2, <2>3 DEF InOrder
<1>17. NoLogVanishes'
  <2>1. Waiting' = Waiting
    BY DEF Waiting
  <2>2. 1..count' = Numbers(file') \cup LinesOf(rotated') \cup Waiting' \cup lost' \cup retired'
    BY <1>8, <1>9, <1>10, <1>11, <2>1 DEF DirectorySide, NoLogVanishes
  <2>3. (Numbers(file') \cup Waiting') \cap (lost' \cup retired') = {}
    BY <1>8, <1>11, <2>1 DEF DirectorySide, NoLogVanishes
  <2>4. LinesOf(rotated') \cap lost' = {}
    BY <1>9, <1>10 DEF DirectorySide, NoLogVanishes
  <2>5. crashes' = 0 => ListedLines' \cap retired' = {}
    BY <1>15 DEF ListedLines, GivenUp
  <2> QED
    BY <2>2, <2>3, <2>4, <2>5 DEF NoLogVanishes, LossExplained
<1>18. UNCHANGED <<Kept, Secured>>
  <2>1. Kept' = Kept
    BY <1>8, <1>9, <1>10, <1>11 DEF Kept
  <2>2. Secured = Kept
    BY ClosedSecured DEF StreamSide, StreamInv
  <2>3. Secured' = Kept'
    BY <1>11 DEF Secured, Kept
  <2> QED
    BY <2>1, <2>2, <2>3
<1>19. Tracks(Append(fileQue, target))'
  <2> DEFINE que == Append(fileQue, target)
  <2>1. que \in Seq(Index) /\ DOMAIN que = 1..Len(fileQue) + 1 /\ que[Len(fileQue) + 1] = target
        /\ \A k \in 1..Len(fileQue) : que[k] = fileQue[k] /\ fileQue[k] # target
    BY <1>1 DEF ToSet
  <2>2. ToSet(que) = ToSet(fileQue) \cup {target}
    BY <1>1, AppendMembers
  <2>3. ToSet(que) = ToSet(Indices(rotated')) \ undeleted'
    BY <1>14, <2>2 DEF Tracks
  <2>4. Len(fileQue) \in Nat
    BY <1>1
  <2> HIDE DEF que
  <2>5. ASSUME NEW k \in DOMAIN que, NEW l \in DOMAIN que, k < l,
               NEW i \in DOMAIN rotated', NEW j \in DOMAIN rotated',
               rotated'[i].idx = que[k], rotated'[j].idx = que[l]
        PROVE  i < j
    <3>1. k \in 1..Len(fileQue) /\ que[k] # target
      BY <2>1, <2>4, <2>5
    <3>2. i \in DOMAIN files /\ i < Len(files) + 1
      BY <1>3, <1>5, <2>5, <3>1
    <3>3. CASE l = Len(fileQue) + 1
      <4>1. que[l] = target
        BY <2>1, <3>3
      <4>2. j = Len(files) + 1
        BY <1>5, <1>6, <2>5, <4>1
      <4> QED
        BY <3>2, <4>2
    <3>4. CASE l \in 1..Len(fileQue)
      <4>1. que[l] # target /\ que[l] = fileQue[l] /\ que[k] = fileQue[k]
        BY <2>1, <3>1, <3>4
      <4>2. j \in DOMAIN files
        BY <1>3, <1>5, <2>5, <4>1
      <4>3. f[i] \in Places(fileQue[k]) /\ f[j] \in Places(fileQue[l])
        BY <1>5, <1>6, <2>5, <3>2, <4>1, <4>2 DEF Places
      <4>4. f[i] < f[j]
        BY <1>1, <2>5, <3>1, <3>4, <4>3 DEF Tracks
      <4> QED
        BY <1>1, <1>2, <3>2, <4>2, <4>4, EmbedsBack
    <3> QED
      BY <2>1, <2>4, <3>3, <3>4
  <2>6. que' = que
    BY DEF que
  <2>7. Tracks(que)'
    BY <2>3, <2>5, <2>6 DEF Tracks, Places
  <2> QED
    BY <2>7 DEF que
<1> QED
  BY <1>7, <1>12, <1>13, <1>15, <1>16, <1>17, <1>18, <1>19 DEF DirectorySide

\* The head of the queue is the oldest file that was not given up.
LEMMA HeadOldest ==
  ASSUME rotated \in Seq(RotatedFile), fileQue \in Seq(Index), Len(fileQue) > 0, Distinct, Tracks(fileQue)
  PROVE  /\ Head(fileQue) \notin undeleted
         /\ \E p \in DOMAIN rotated :
               /\ rotated[p].idx = Head(fileQue)
               /\ Places(Head(fileQue)) = {p}
               /\ \A i \in DOMAIN rotated : i < p => rotated[i].idx \in undeleted
         /\ \A k \in DOMAIN fileQue : k # 1 => fileQue[k] # Head(fileQue)
<1>1. 1 \in DOMAIN fileQue /\ fileQue[1] = Head(fileQue)
  OBVIOUS
<1>2. Head(fileQue) \in ToSet(fileQue)
  BY <1>1 DEF ToSet
<1>3. Head(fileQue) \in ToSet(Indices(rotated)) /\ Head(fileQue) \notin undeleted
  BY <1>2 DEF Tracks
<1>4. PICK p \in DOMAIN rotated : rotated[p].idx = Head(fileQue)
  BY <1>3, IndicesIn
<1>5. Places(Head(fileQue)) = {p}
  BY <1>4 DEF Places, Distinct
<1>6. ASSUME NEW k \in DOMAIN fileQue, NEW i \in DOMAIN rotated, k # 1, rotated[i].idx = fileQue[k]
      PROVE  p < i
  <2>1. 1 < k
    BY <1>6
  <2>2. i \in Places(fileQue[k]) /\ p \in Places(fileQue[1])
    BY <1>1, <1>5, <1>6 DEF Places
  <2> QED
    BY <1>1, <2>1, <2>2 DEF Tracks
<1>7. ASSUME NEW i \in DOMAIN rotated, i < p PROVE rotated[i].idx \in undeleted
  <2> SUFFICES ASSUME rotated[i].idx \notin undeleted PROVE FALSE
    OBVIOUS
  <2>1. rotated[i].idx \in ToSet(Indices(rotated))
    BY IndicesIn
  <2>2. rotated[i].idx \in ToSet(fileQue)
    BY <2>1 DEF Tracks
  <2>3. PICK k \in DOMAIN fileQue : fileQue[k] = rotated[i].idx
    BY <2>2 DEF ToSet
  <2>4. k # 1
    BY <1>1, <1>4, <1>7, <2>3 DEF Distinct
  <2> QED
    BY <1>6, <1>7, <2>3, <2>4
<1>8. ASSUME NEW k \in DOMAIN fileQue, k # 1 PROVE fileQue[k] # Head(fileQue)
  BY <1>4, <1>6, <1>8
<1> QED
  BY <1>3, <1>4, <1>5, <1>7, <1>8

\* A file that retention gives up takes the oldest logs of the window, and, if it
\* is deleted, only files that were given up are older.
LEMMA DeleteDirectory ==
  ASSUME StreamSide, DirectorySide, LossExplained', Tracks(fileQue), DeleteOldest
  PROVE  /\ DirectorySide'
         /\ WindowStep
         /\ Tracks(fileQue)'
         /\ \A i, j \in DOMAIN rotated :
               i < j /\ rotated[j] \notin ToSet(rotated') /\ rotated[j].idx \notin undeleted
               => rotated[i].idx \in undeleted
<1> DEFINE idx == Head(fileQue)
<1> DEFINE files == Others(idx)
<1>1. /\ rotated \in Seq(RotatedFile) /\ fileQue \in Seq(Index) /\ Len(fileQue) > 0
      /\ pc = "delete" /\ pc' = "delete"
  BY SinkAssumption DEF StreamSide, TypeOK, DeleteOldest, control
<1>2. fileQue' = Tail(fileQue) /\ retired' = retired \cup LinesCalled(idx)
      /\ UNCHANGED <<file, synced, pending, count, lost, crashes>>
  BY DEF DeleteOldest, control
<1>3. \/ rotated' = files /\ undeleted' = undeleted
      \/ rotated' = rotated /\ undeleted' = undeleted \cup {idx}
  BY DEF DeleteOldest
<1>4. /\ idx \notin undeleted
      /\ \A k \in DOMAIN fileQue : k # 1 => fileQue[k] # idx
  BY <1>1, HeadOldest DEF DirectorySide
<1>5. PICK p \in DOMAIN rotated :
               /\ rotated[p].idx = idx
               /\ Places(idx) = {p}
               /\ \A i \in DOMAIN rotated : i < p => rotated[i].idx \in undeleted
  BY <1>1, HeadOldest DEF DirectorySide
<1> DEFINE S == Numbers(rotated[p].lines)
<1>6. LinesCalled(idx) = S
  BY <1>5 DEF LinesCalled
<1>7. PICK f : Embeds(f, files, idx)
  BY <1>1, OthersEmbed DEF DirectorySide
<1> HIDE DEF files, idx
<1>8. \A i \in DOMAIN files : f[i] \in DOMAIN rotated /\ files[i] = rotated[f[i]] /\ f[i] # p
  BY <1>5, <1>7 DEF Embeds
<1>9. \A j \in DOMAIN rotated : j # p => \E i \in DOMAIN files : f[i] = j
  <2> SUFFICES ASSUME NEW j \in DOMAIN rotated, j # p PROVE \E i \in DOMAIN files : f[i] = j
    OBVIOUS
  <2>1. rotated[j].idx # idx
    BY <1>5 DEF Places
  <2> QED
    BY <1>7, <2>1 DEF Embeds
<1>10. LinesOf(rotated) = LinesOf(files) \cup S
  BY <1>6, <1>7, EmbedsLines
<1>11. S \subseteq LinesOf(rotated) /\ LinesOf(rotated') \cup S = LinesOf(rotated)
  BY <1>3, <1>10
<1>12. \A i \in DOMAIN rotated : i # p => Numbers(rotated[i].lines) \cap S = {}
  <2> SUFFICES ASSUME NEW i \in DOMAIN rotated, i # p, NEW n \in Numbers(rotated[i].lines), n \in S
               PROVE  FALSE
    OBVIOUS
  <2>1. n \in Int
    BY <1>1, NumbersType, RotatedFields
  <2>2. CASE i < p
    BY <2>1, <2>2 DEF DirectorySide, InOrder, Before
  <2>3. CASE p < i
    BY <2>1, <2>3 DEF DirectorySide, InOrder, Before
  <2> QED
    BY <1>1, <2>2, <2>3
<1>13. Numbers(file) \cap S = {}
  <2> SUFFICES ASSUME NEW n \in Numbers(file), n \in S PROVE FALSE
    OBVIOUS
  <2>1. n \in Int
    BY <1>1, NumbersType, RotatedFields
  <2> QED
    BY <2>1 DEF DirectorySide, InOrder, Before
<1>14. S \cap lost = {} /\ S \cap Waiting = {}
  <2>1. S \cap lost = {}
    BY <1>11 DEF DirectorySide, NoLogVanishes
  <2>2. \A n \in S : pending # NoLog => n # pending.n
    BY <1>11 DEF DirectorySide, NewestLast, OnDisk, StreamSide, PendingInv
  <2> QED
    BY <2>1, <2>2 DEF Waiting
<1>15. S \subseteq retired \/ S \cap retired = {}
  BY DEF DirectorySide, GivenUp
<1> HIDE DEF S
<1>16. Distinct'
  <2>1. CASE rotated' = rotated
    BY <2>1 DEF DirectorySide, Distinct
  <2>2. CASE rotated' = files
    <3>1. \A i, j \in DOMAIN files : files[i].idx = files[j].idx => i = j
      BY <1>1, <1>7, EmbedsDistinct DEF DirectorySide
    <3> QED
      BY <2>2, <3>1 DEF Distinct
  <2> QED
    BY <1>3, <2>1, <2>2
<1>17. NewestLast'
  <2>1. OnDisk' \cup lost' \cup retired' = OnDisk \cup lost \cup retired
    BY <1>2, <1>6, <1>11 DEF OnDisk
  <2> QED
    BY <1>2, <2>1 DEF DirectorySide, NewestLast
<1>18. /\ ToSet(Indices(rotated')) \ undeleted' = (ToSet(Indices(rotated)) \ undeleted) \ {idx}
       /\ undeleted' \subseteq ToSet(Indices(rotated'))
  <2>1. ToSet(Indices(files)) = ToSet(Indices(rotated)) \ {idx}
    BY <1>7, EmbedsLines
  <2>2. idx \in ToSet(Indices(rotated))
    BY <1>5, IndicesIn
  <2>3. undeleted \subseteq ToSet(Indices(rotated))
    BY DEF DirectorySide, GivenUp
  <2>4. CASE rotated' = files /\ undeleted' = undeleted
    BY <1>4, <2>1, <2>3, <2>4
  <2>5. CASE rotated' = rotated /\ undeleted' = undeleted \cup {idx}
    BY <2>2, <2>3, <2>5
  <2> QED
    BY <1>3, <2>4, <2>5
<1>19. GivenUp'
  <2>1. retired' \cap (Numbers(file') \cup lost') = {}
    BY <1>2, <1>6, <1>13, <1>14 DEF DirectorySide, GivenUp
  <2>2. ASSUME NEW i \in DOMAIN rotated, i # p
        PROVE  LET lines == Numbers(rotated[i].lines)
               IN  /\ lines \subseteq retired' \/ lines \cap retired' = {}
                   /\ rotated[i].idx \in undeleted' => lines \subseteq retired'
                   /\ rotated[i].idx \notin undeleted' /\ crashes' = 0 => lines \cap retired' = {}
    <3> DEFINE lines == Numbers(rotated[i].lines)
    <3>1. rotated[i].idx # idx
      BY <1>5, <2>2 DEF Places
    <3>2. rotated[i].idx \in undeleted' <=> rotated[i].idx \in undeleted
      BY <1>3, <3>1
    <3>3. /\ lines \subseteq retired \/ lines \cap retired = {}
          /\ rotated[i].idx \in undeleted => lines \subseteq retired
          /\ rotated[i].idx \notin undeleted /\ crashes = 0 => lines \cap retired = {}
      BY DEF DirectorySide, GivenUp
    <3>4. lines \cap S = {}
      BY <1>12, <2>2
    <3> QED
      BY <1>2, <1>6, <3>2, <3>3, <3>4
  <2>3. ASSUME NEW i \in DOMAIN rotated'
        PROVE  LET lines == Numbers(rotated'[i].lines)
               IN  /\ lines \subseteq retired' \/ lines \cap retired' = {}
                   /\ rotated'[i].idx \in undeleted' => lines \subseteq retired'
                   /\ rotated'[i].idx \notin undeleted' /\ crashes' = 0 => lines \cap retired' = {}
    <3>1. CASE rotated' = files
      <4>1. i \in DOMAIN files /\ rotated'[i] = rotated[f[i]] /\ f[i] \in DOMAIN rotated /\ f[i] # p
        BY <1>8, <3>1
      <4> QED
        BY <2>2, <4>1
    <3>2. CASE rotated' = rotated /\ undeleted' = undeleted \cup {idx}
      <4>1. CASE i = p
        BY <1>2, <1>5, <1>6, <3>2, <4>1 DEF S
      <4>2. CASE i # p
        BY <2>2, <3>2, <4>2
      <4> QED
        BY <4>1, <4>2
    <3> QED
      BY <1>3, <3>1, <3>2
  <2> QED
    BY <1>1, <1>18, <2>1, <2>3 DEF GivenUp
<1>20. InOrder'
  <2>1. CASE rotated' = rotated
    BY <1>2, <2>1 DEF DirectorySide, InOrder
  <2>2. CASE rotated' = files
    <3>1. ASSUME NEW i \in DOMAIN files PROVE Ascending(files[i].lines) /\ Before(files[i].lines, file)
      BY <1>8 DEF DirectorySide, InOrder
    <3>2. ASSUME NEW i \in DOMAIN files, NEW j \in DOMAIN files, i < j
          PROVE  Before(files[i].lines, files[j].lines)
      <4>1. f[i] < f[j]
        BY <1>7, <3>2 DEF Embeds
      <4> QED
        BY <1>8, <4>1 DEF DirectorySide, InOrder
    <3>3. Ascending(file)
      BY DEF DirectorySide, InOrder
    <3> QED
      BY <1>2, <2>2, <3>1, <3>2, <3>3 DEF InOrder
  <2> QED
    BY <1>3, <2>1, <2>2
<1>21. NoLogVanishes'
  <2>1. Waiting' = Waiting
    BY <1>2 DEF Waiting
  <2>2. 1..count' = Numbers(file') \cup LinesOf(rotated') \cup Waiting' \cup lost' \cup retired'
    BY <1>2, <1>6, <1>11, <2>1 DEF DirectorySide, NoLogVanishes
  <2>3. (Numbers(file') \cup Waiting') \cap (lost' \cup retired') = {}
    BY <1>2, <1>6, <1>13, <1>14, <2>1 DEF DirectorySide, NoLogVanishes
  <2>4. LinesOf(rotated') \cap lost' = {}
    BY <1>2, <1>11 DEF DirectorySide, NoLogVanishes
  <2>5. crashes' = 0 => ListedLines' \cap retired' = {}
    BY <1>19 DEF ListedLines, GivenUp
  <2> QED
    BY <2>2, <2>3, <2>4, <2>5 DEF NoLogVanishes, LossExplained
<1>22. WindowStep
  <2>1. Kept' = Kept \ S
    BY <1>2, <1>6, <1>11 DEF Kept
  <2>2. Secured' = Secured \ S
    BY <1>2, <1>6, <1>11 DEF Secured
  <2>3. CASE S \subseteq retired
    <3>1. UNCHANGED <<Kept, Secured>>
      BY <2>1, <2>2, <2>3 DEF Kept, Secured
    <3> QED
      BY <3>1 DEF WindowStep
  <2>4. CASE S \cap retired = {} /\ S # {}
    <3> DEFINE lines == rotated[p].lines
    <3>1. lines \in Seq(Line) /\ lines # NoFile
      BY <1>1, RotatedFields, SinkAssumption
    <3>2. lines # <<>>
      BY <2>4, <3>1, NumbersEmpty DEF S
    <3> DEFINE m == lines[Len(lines)].n
    <3>3. Len(lines) \in DOMAIN lines /\ DOMAIN lines = 1..Len(lines)
      BY <3>1, <3>2
    <3>4. m \in S
      BY <3>1, <3>3 DEF S, Numbers
    <3>5. S \subseteq Int
      BY <3>1, NumbersType DEF S
    <3>6. \A n \in S : n <= m
      <4> SUFFICES ASSUME NEW n \in S PROVE n <= m
        OBVIOUS
      <4>1. PICK i \in DOMAIN lines : lines[i].n = n
        BY <3>1 DEF S, Numbers
      <4>2. i = Len(lines) \/ i < Len(lines)
        BY <3>3
      <4>3. CASE i < Len(lines)
        <5>1. n < m
          BY <3>1, <3>3, <4>1, <4>3 DEF DirectorySide, InOrder, Ascending
        <5>2. n \in Int /\ m \in Int
          BY <3>4, <3>5
        <5> HIDE DEF m
        <5> QED
          BY <5>1, <5>2
      <4> QED
        BY <3>4, <3>5, <4>1, <4>2, <4>3
    <3> HIDE DEF m, lines
    <3>7. ASSUME NEW n \in Kept, n \notin S PROVE n > m
      <4>1. CASE n \in Numbers(file)
        <5>1. m < n
          BY <3>4, <4>1 DEF S, DirectorySide, InOrder, Before
        <5>2. n \in Int
          BY <4>1, NumbersType DEF StreamSide, TypeOK
        <5> QED
          BY <3>4, <3>5, <5>1, <5>2
      <4>2. CASE n \in LinesOf(rotated)
        <5>1. PICK i \in DOMAIN rotated : n \in Numbers(rotated[i].lines)
          BY <4>2, InLines
        <5>2. i # p
          BY <3>7, <5>1 DEF S
        <5>3. n \in Int
          BY <1>1, <5>1, NumbersType, RotatedFields
        <5>4. ~ (i < p)
          <6> SUFFICES ASSUME i < p PROVE FALSE
            OBVIOUS
          <6>1. rotated[i].idx \in undeleted
            BY <1>5
          <6>2. n \in retired
            BY <5>1, <6>1 DEF DirectorySide, GivenUp
          <6> QED
            BY <3>7, <6>2 DEF Kept
        <5>5. p < i
          BY <1>1, <5>2, <5>4
        <5>6. m < n
          BY <3>4, <5>1, <5>5 DEF S, DirectorySide, InOrder, Before
        <5> QED
          BY <3>4, <3>5, <5>3, <5>6
      <4> QED
        BY <3>7, <4>1, <4>2 DEF Kept
    <3>8. Kept' = {n \in Kept : n > m}
      <4>1. \A n \in S : ~ (n > m)
        BY <3>4, <3>5, <3>6
      <4> QED
        BY <2>1, <3>7, <4>1
    <3>9. Secured \subseteq Kept
      <4>1. CASE file = NoFile
        BY <4>1 DEF Secured, Kept
      <4>2. CASE file # NoFile
        <5>1. file \in Seq(Line) /\ synced \in Nat /\ synced <= Len(file)
          BY <4>2 DEF StreamSide, StreamInv, TypeOK
        <5>2. 1..synced \subseteq DOMAIN file
          BY <5>1
        <5> QED
          BY <4>2, <5>2 DEF Secured, Kept, Numbers
      <4> QED
        BY <4>1, <4>2
    <3>10. Secured' = {n \in Secured : n > m}
      <4>1. \A n \in S : ~ (n > m)
        BY <3>4, <3>5, <3>6
      <4> QED
        BY <2>2, <3>7, <3>9, <4>1
    <3>11. m \in Secured
      BY <1>11, <2>4, <3>4 DEF Secured
    <3> QED
      BY <3>8, <3>10, <3>11 DEF WindowStep, Window!Next, Window!DropOldest
  <2> QED
    BY <1>15, <2>3, <2>4
<1>23. Tracks(fileQue)'
  <2> DEFINE que == Tail(fileQue)
  <2>1. que \in Seq(Index) /\ DOMAIN que = 1..Len(fileQue) - 1
        /\ \A k \in DOMAIN que : que[k] = fileQue[k + 1]
    BY <1>1
  <2>2. Len(fileQue) \in Nat /\ DOMAIN fileQue = 1..Len(fileQue) /\ fileQue[1] = idx
    BY <1>1 DEF idx
  <2> HIDE DEF que
  <2>3. ToSet(que) = ToSet(fileQue) \ {idx}
    <3>1. ASSUME NEW k \in DOMAIN que PROVE que[k] \in ToSet(fileQue) \ {idx}
      <4>1. k + 1 \in DOMAIN fileQue /\ k + 1 # 1 /\ que[k] = fileQue[k + 1]
        BY <2>1, <2>2
      <4> QED
        BY <1>4, <4>1 DEF ToSet
    <3>2. ASSUME NEW k \in DOMAIN fileQue, fileQue[k] # idx PROVE fileQue[k] \in ToSet(que)
      <4>1. k - 1 \in DOMAIN que /\ k - 1 + 1 = k
        BY <2>1, <2>2, <3>2
      <4>2. que[k - 1] = fileQue[k]
        BY <2>1, <4>1
      <4> QED
        BY <4>1, <4>2 DEF ToSet
    <3> QED
      BY <3>1, <3>2 DEF ToSet
  <2>4. ToSet(que) = ToSet(Indices(rotated')) \ undeleted'
    BY <1>18, <2>3 DEF Tracks
  <2>5. ASSUME NEW k \in DOMAIN que, NEW l \in DOMAIN que, k < l,
               NEW i \in DOMAIN rotated', NEW j \in DOMAIN rotated',
               rotated'[i].idx = que[k], rotated'[j].idx = que[l]
        PROVE  i < j
    <3>1. k + 1 \in DOMAIN fileQue /\ l + 1 \in DOMAIN fileQue /\ k + 1 < l + 1
          /\ que[k] = fileQue[k + 1] /\ que[l] = fileQue[l + 1]
      BY <2>1, <2>2, <2>5
    <3>2. CASE rotated' = rotated
      BY <2>5, <3>1, <3>2 DEF Tracks, Places
    <3>3. CASE rotated' = files
      <4>1. f[i] \in Places(fileQue[k + 1]) /\ f[j] \in Places(fileQue[l + 1])
        BY <1>8, <2>5, <3>1, <3>3 DEF Places
      <4>2. f[i] < f[j]
        BY <3>1, <4>1 DEF Tracks
      <4> QED
        BY <1>1, <1>7, <3>3, <4>2, EmbedsBack
    <3> QED
      BY <1>3, <3>2, <3>3
  <2>6. fileQue' = que
    BY <1>2 DEF que
  <2> QED
    BY <2>4, <2>5, <2>6 DEF Tracks, Places
<1>24. ASSUME NEW i \in DOMAIN rotated, NEW j \in DOMAIN rotated, i < j,
              rotated[j] \notin ToSet(rotated'), rotated[j].idx \notin undeleted
       PROVE  rotated[i].idx \in undeleted
  <2>1. rotated' # rotated
    BY <1>24 DEF ToSet
  <2>2. rotated' = files
    BY <1>3, <2>1
  <2>3. j = p
    <3> SUFFICES ASSUME j # p PROVE FALSE
      OBVIOUS
    <3>1. PICK k \in DOMAIN files : f[k] = j
      BY <1>9
    <3>2. files[k] = rotated[j]
      BY <1>8, <3>1
    <3> QED
      BY <1>24, <2>2, <3>2 DEF ToSet
  <2> QED
    BY <1>5, <1>24, <2>3
<1> QED
  BY <1>16, <1>17, <1>19, <1>20, <1>21, <1>22, <1>23, <1>24 DEF DirectorySide

\* The directory tracks itself.
LEMMA ListingTracks ==
  ASSUME rotated \in Seq(RotatedFile), Distinct, undeleted = {}
  PROVE  Tracks(Indices(rotated))
<1> DEFINE que == Indices(rotated)
<1>1. DOMAIN que = DOMAIN rotated /\ DOMAIN rotated \subseteq Int /\ \A k \in DOMAIN rotated : que[k] = rotated[k].idx
  BY DEF Indices
<1> HIDE DEF que
<1>2. \A k \in DOMAIN que : Places(que[k]) = {k}
  BY <1>1 DEF Places, Distinct
<1>3. \A k, l \in DOMAIN que : k < l => \A i \in Places(que[k]), j \in Places(que[l]) : i < j
  BY <1>2
<1>4. ToSet(que) = ToSet(Indices(rotated)) \ undeleted
  BY DEF que
<1> QED
  BY <1>3, <1>4 DEF Tracks, que

\* A crash cuts the open file at its end, and forgets what could not be deleted.
LEMMA CrashDirectory ==
  ASSUME StreamSide, DirectorySide, LossExplained', Crash
  PROVE  DirectorySide' /\ WindowStep /\ Tracks(Indices(rotated))'
<1>1. /\ UNCHANGED <<rotated, retired, count>> /\ undeleted' = {} /\ pending' = NoLog
      /\ crashes' = crashes + 1 /\ crashes \in Nat
      /\ lost' = lost \cup (Numbers(file) \ Numbers(file')) \cup Waiting
  BY DEF Crash, StreamSide, TypeOK, Waiting
<1>2. rotated \in Seq(RotatedFile)
  BY DEF StreamSide, TypeOK
<1>3. Distinct'
  BY <1>1 DEF DirectorySide, Distinct
<1>4. Tracks(Indices(rotated))'
  <2>1. rotated' \in Seq(RotatedFile)
    BY <1>1, <1>2
  <2>2. \A k \in DOMAIN rotated' : Places(Indices(rotated)[k])' = {k}
    BY <1>3 DEF Places, Indices, Distinct
  <2>3. DOMAIN Indices(rotated)' = DOMAIN rotated'
    BY DEF Indices
  <2> QED
    BY <1>1, <2>2, <2>3 DEF Tracks
<1>5. /\ \A n \in Waiting : n = count /\ n \notin OnDisk \cup lost \cup retired
      /\ Numbers(file) \cap LinesOf(rotated) = {}
  <2>1. \A n \in Waiting : n = count /\ n \notin OnDisk \cup lost \cup retired
    BY DEF Waiting, StreamSide, PendingInv, DirectorySide, NewestLast
  <2>2. ASSUME NEW n \in Numbers(file), n \in LinesOf(rotated) PROVE FALSE
    <3>1. n \in Int
      BY NumbersType DEF StreamSide, TypeOK
    <3>2. PICK i \in DOMAIN rotated : n \in Numbers(rotated[i].lines)
      BY <2>2, InLines
    <3> QED
      BY <3>1, <3>2 DEF DirectorySide, InOrder, Before
  <2> QED
    BY <2>1, <2>2
<1>6. /\ Numbers(file') \subseteq Numbers(file)
      /\ Ascending(file')
      /\ WindowStep
  <2>1. CASE file = NoFile
    <3>1. file' = file /\ synced' = synced
      BY <2>1 DEF Crash
    <3>2. UNCHANGED <<Kept, Secured>>
      BY <1>1, <3>1 DEF Kept, Secured
    <3> QED
      BY <2>1, <3>1, <3>2 DEF WindowStep, Ascending
  <2>2. CASE file # NoFile
    <3>1. PICK k \in synced..Len(file) : file' = SubSeq(file, 1, k) /\ synced' = k
      BY <2>2 DEF Crash
    <3>2. file \in Seq(Line) /\ synced \in Nat /\ k \in 0..Len(file) /\ synced <= k
      BY <2>2, <3>1 DEF StreamSide, TypeOK
    <3>3. /\ file' \in Seq(Line) /\ Len(file') = k
          /\ \A i \in 1..k : file'[i] = file[i]
          /\ Numbers(file') = {file[i].n : i \in 1..k}
      BY <3>1, <3>2, NumbersPrefix
    <3>4. DOMAIN file = 1..Len(file) /\ 1..k \subseteq DOMAIN file /\ DOMAIN file' = 1..k
      BY <3>2, <3>3
    <3>5. Numbers(file) = {file[i].n : i \in DOMAIN file}
      BY <2>2 DEF Numbers
    <3>6. Ascending(file')
      BY <2>2, <3>3, <3>4 DEF Ascending, DirectorySide, InOrder
    <3>7. Secured' = Kept'
      BY <3>1, <3>3, AllSecured
    <3>8. Secured \subseteq Kept'
      <4>1. 1..synced \subseteq 1..k
        BY <3>2
      <4>2. {file[i].n : i \in 1..synced} \subseteq Numbers(file')
        BY <3>3, <4>1
      <4> QED
        BY <1>1, <2>2, <4>2 DEF Secured, Kept
    <3>9. Kept' \subseteq Kept
      BY <1>1, <3>3, <3>4, <3>5 DEF Kept
    <3>10. ASSUME NEW m \in Kept', NEW n \in Kept \ Kept' PROVE m < n
      <4>1. n \in Numbers(file) /\ n \notin Numbers(file')
        BY <1>1, <3>10 DEF Kept
      <4>2. PICK j \in DOMAIN file : file[j].n = n
        BY <3>5, <4>1
      <4>3. ~ (j \in 1..k)
        BY <3>3, <4>1, <4>2
      <4>4. CASE m \in LinesOf(rotated)
        <5>1. PICK i \in DOMAIN rotated : m \in Numbers(rotated[i].lines)
          BY <4>4, InLines
        <5> QED
          BY <4>1, <5>1 DEF DirectorySide, InOrder, Before
      <4>5. CASE m \in Numbers(file')
        <5>1. PICK i \in 1..k : file[i].n = m
          BY <3>3, <4>5
        <5>2. i \in DOMAIN file /\ i < j
          BY <3>2, <3>4, <4>2, <4>3
        <5> QED
          BY <2>2, <4>2, <5>1, <5>2 DEF DirectorySide, InOrder, Ascending
      <4> QED
        BY <1>1, <4>4, <4>5 DEF Kept
    <3>11. Window!DropUnsecured
      BY <3>7, <3>8, <3>9, <3>10 DEF Window!DropUnsecured
    <3> QED
      BY <3>3, <3>4, <3>5, <3>6, <3>11 DEF WindowStep, Window!Next
  <2> QED
    BY <2>1, <2>2
<1>7. OnDisk' \subseteq OnDisk /\ Numbers(file) \subseteq OnDisk
  BY <1>1, <1>6 DEF OnDisk
<1>8. NewestLast'
  <2>1. \A n \in OnDisk' \cup lost' \cup retired' : n \in OnDisk \cup lost \cup retired \/ n = count
    BY <1>1, <1>5, <1>7
  <2>2. count <= count
    BY DEF StreamSide, TypeOK
  <2> QED
    BY <1>1, <2>1, <2>2 DEF DirectorySide, NewestLast
<1>9. GivenUp'
  <2>1. retired' \cap (Numbers(file') \cup lost') = {}
    BY <1>1, <1>5, <1>6 DEF DirectorySide, GivenUp
  <2>2. crashes' # 0
    BY <1>1
  <2> QED
    BY <1>1, <2>1, <2>2 DEF DirectorySide, GivenUp
<1>10. InOrder'
  <2>1. \A i \in DOMAIN rotated : Before(rotated[i].lines, file')
    BY <1>6 DEF DirectorySide, InOrder, Before
  <2> QED
    BY <1>1, <1>6, <2>1 DEF DirectorySide, InOrder
<1>11. NoLogVanishes'
  <2>1. Waiting' = {}
    BY <1>1 DEF Waiting
  <2>2. 1..count' = Numbers(file') \cup LinesOf(rotated') \cup Waiting' \cup lost' \cup retired'
    BY <1>1, <1>6, <2>1 DEF DirectorySide, NoLogVanishes
  <2>3. (Numbers(file') \cup Waiting') \cap (lost' \cup retired') = {}
    BY <1>1, <1>5, <1>6, <1>7, <2>1 DEF DirectorySide, NoLogVanishes
  <2>4. LinesOf(rotated) \subseteq OnDisk
    BY DEF OnDisk
  <2>5. LinesOf(rotated') \cap lost' = {}
    BY <1>1, <1>5, <2>4 DEF DirectorySide, NoLogVanishes
  <2>6. crashes' # 0
    BY <1>1
  <2> QED
    BY <2>2, <2>3, <2>5, <2>6 DEF NoLogVanishes, LossExplained
<1> QED
  BY <1>3, <1>4, <1>6, <1>8, <1>9, <1>10, <1>11 DEF DirectorySide

------------------------------------------------------------------------------
(* The invariant is inductive while the target of each rotation is fresh.   *)

LEMMA InitIInv == Init => IInv /\ Window!Init
<1> SUFFICES ASSUME Init PROVE IInv /\ Window!Init
  OBVIOUS
<1>1. TypeOK
  BY InitType
<1>2. file = NoFile /\ synced = 0 /\ ~ isOpen /\ pc = "down" /\ pending = NoLog /\ count = 0
      /\ lost = {} /\ retired = {} /\ undeleted = {} /\ faults = 0 /\ crashes = 0
  BY DEF Init
<1>3. Numbers(file) = {} /\ Numbers(<<>>) = {}
  BY <1>2, NumbersEmpty
<1>4. Len(rotated) <= 1 /\ \A i \in DOMAIN rotated : i = 1 /\ rotated[i].lines = <<>>
  <2>1. CASE rotated = <<>>
    BY <2>1
  <2>2. ASSUME NEW idx \in Existing, rotated = <<[idx |-> idx, lines |-> <<>>]>>
        PROVE  Len(rotated) <= 1 /\ \A i \in DOMAIN rotated : i = 1 /\ rotated[i].lines = <<>>
    BY <2>2
  <2> QED
    BY <2>1, <2>2 DEF Init
<1>5. LinesOf(rotated) = {}
  BY <1>3, <1>4 DEF LinesOf
<1>6. StreamSide
  BY <1>1, <1>2 DEF StreamSide, StreamInv, PendingInv, LossExplained
<1>7. Distinct
  BY <1>4 DEF Distinct
<1>8. InOrder
  <2>1. \A i \in DOMAIN rotated : Ascending(rotated[i].lines) /\ Before(rotated[i].lines, file)
    BY <1>3, <1>4 DEF Ascending, Before
  <2>2. Ascending(file)
    BY <1>2 DEF Ascending
  <2>3. \A i, j \in DOMAIN rotated : i < j => Before(rotated[i].lines, rotated[j].lines)
    BY <1>3, <1>4 DEF Before
  <2> QED
    BY <2>1, <2>2, <2>3 DEF InOrder
<1>9. GivenUp
  BY <1>2, <1>3, <1>4 DEF GivenUp
<1>10. NewestLast
  BY <1>2, <1>3, <1>5 DEF NewestLast, OnDisk
<1>11. NoLogVanishes
  <2>1. 1..count = {}
    BY <1>2
  <2> QED
    BY <1>2, <1>3, <1>5, <2>1 DEF NoLogVanishes, Waiting, ListedLines
<1>12. Tracks(Known)
  <2>1. rotated \in Seq(RotatedFile)
    BY <1>1 DEF TypeOK
  <2> QED
    BY <1>2, <1>7, <2>1, ListingTracks DEF Known
<1>13. Window!Init
  BY <1>2, <1>3, <1>5 DEF Window!Init, Kept, Secured
<1> QED
  BY <1>6, <1>7, <1>8, <1>9, <1>10, <1>11, <1>12, <1>13 DEF IInv, DirectorySide

LEMMA KnownTracks ==
  ASSUME Tracks(Known), UNCHANGED <<rotated, undeleted>>, Known' = Known
  PROVE  Tracks(Known)'
BY DEF Tracks, Places

LEMMA BeginWindow ==
  ASSUME StreamSide, BeginRotation, retired' = retired
  PROVE  WindowStep
<1>1. file' = file /\ rotated' = rotated
  BY DEF BeginRotation
<1>2. Secured' = Kept'
  <2>1. CASE file = NoFile
    BY <1>1, <2>1 DEF Secured, Kept, Numbers
  <2>2. CASE file # NoFile
    <3>1. file' \in Seq(Line) /\ synced' = Len(file')
      BY <1>1, <2>2 DEF BeginRotation, StreamSide, TypeOK
    <3> QED
      BY <3>1, AllSecured
  <2> QED
    BY <2>1, <2>2
<1> QED
  BY <1>1, <1>2, StillWindow DEF FileKept

LEMMA StepIInv == IInv /\ TargetFresh /\ [Next]_vars => IInv' /\ WindowStep
<1> SUFFICES ASSUME IInv, TargetFresh, [Next]_vars PROVE IInv' /\ WindowStep
  OBVIOUS
<1> USE DEF IInv
<1>1. TypeOK /\ TypeOK' /\ StreamSide' /\ LossExplained'
  <2>1. TypeOK'
    BY StepType DEF StreamSide, DirectorySide
  <2> QED
    BY <2>1, StepStream DEF StreamSide
<1>2. SUFFICES DirectorySide' /\ Tracks(Known)' /\ WindowStep
  BY <1>1
<1>3. ASSUME NEW size \in LineSizes, Log(size) PROVE DirectorySide' /\ Tracks(Known)' /\ WindowStep
  <2> DEFINE line == [n |-> count + 1, size |-> size]
  <2>1. /\ line \in Line /\ line.n = count' /\ count' = count + 1 /\ count \in Nat
        /\ pc = "idle" /\ pending = NoLog
        /\ UNCHANGED <<retired, undeleted, crashes>>
    BY <1>1, <1>3 DEF Log, TypeOK, Line, StreamSide, PendingInv, environment
  <2>2. \/ BeginRotation /\ pending' = line /\ UNCHANGED lost
        \/ Write(line) /\ UNCHANGED <<synced, rotated, isOpen, queue, control>>
    BY <1>3 DEF Log
  <2>3. line # NoLog
    BY <2>1, SinkAssumption
  <2> HIDE DEF line
  <2>4. CASE BeginRotation /\ pending' = line /\ UNCHANGED lost
    <3>1. UNCHANGED <<file, rotated, fileQue>> /\ pc' = "rename"
      BY <2>4 DEF BeginRotation
    <3>2. DirectorySide'
      BY <1>1, <2>1, <2>3, <2>4, <3>1, WaitDirectory
    <3>3. Tracks(Known)'
      BY <2>1, <3>1, KnownTracks DEF Known
    <3> QED
      BY <2>1, <2>4, <3>2, <3>3, BeginWindow
  <2>5. CASE Write(line) /\ UNCHANGED <<synced, rotated, isOpen, queue, control>>
    <3>1. UNCHANGED <<synced, rotated, fileQue, pc, pending>>
      BY <2>5 DEF queue, control
    <3>2. OnDisk \cup lost \cup retired = 1..count
      BY <2>1 DEF OnDisk, DirectorySide, NoLogVanishes, Waiting
    <3>3. \A n \in OnDisk \cup lost \cup retired : n < line.n
      BY <2>1, <3>2
    <3>4. 1..count' = OnDisk \cup lost \cup retired \cup {line.n}
      BY <2>1, <3>2
    <3>5. DirectorySide' /\ WindowStep
      BY <1>1, <2>1, <2>5, <3>1, <3>3, <3>4, WriteDirectory
    <3>6. Tracks(Known)'
      BY <2>1, <3>1, KnownTracks DEF Known
    <3> QED
      BY <3>5, <3>6
  <2> QED
    BY <2>2, <2>4, <2>5
<1>4. CASE Flush
  <2>1. UNCHANGED <<file, rotated, retired, undeleted, crashes, lost, count, pending, pc, fileQue, target>>
    BY <1>4 DEF Flush, queue, control, history, environment
  <2>2. file' \in Seq(Line) /\ synced' = Len(file')
    BY <1>4, <2>1 DEF Flush, StreamSide, StreamInv, TypeOK
  <2>3. WindowStep
    BY <2>1, <2>2, AllSecured, StillWindow DEF FileKept
  <2>4. DirectorySide'
    BY <1>1, <2>1, StillDirectory DEF FileKept
  <2>5. Tracks(Known)'
    BY <2>1, KnownTracks DEF Known
  <2> QED
    BY <2>3, <2>4, <2>5
<1>5. CASE RotateOnOpen
  <2>1. UNCHANGED <<file, rotated, retired, undeleted, crashes, lost, count, pending, fileQue>>
        /\ pc = "opened" /\ pc' = "rename" /\ BeginRotation
    BY <1>5 DEF RotateOnOpen, BeginRotation, history, environment
  <2>2. DirectorySide'
    BY <1>1, <2>1, StillDirectory DEF FileKept
  <2>3. Tracks(Known)'
    BY <2>1, KnownTracks DEF Known
  <2>4. WindowStep
    BY <2>1, BeginWindow
  <2> QED
    BY <2>2, <2>3, <2>4
<1>6. CASE Rename
  <2>1. UNCHANGED <<target, fileQue, pending, count, lost, crashes>> /\ pc = "rename"
    BY <1>6 DEF Rename, queue
  <2>2. Tracks(fileQue) /\ target \notin ToSet(fileQue)
    BY <2>1 DEF Known, TargetFresh
  <2>3. CASE /\ file # NoFile
             /\ rotated' = Append(Others(target), [idx |-> target, lines |-> file])
             /\ file' = NoFile /\ synced' = 0
             /\ retired' = IF target \in undeleted THEN retired \cup LinesCalled(target) ELSE retired
             /\ undeleted' = undeleted \ {target}
             /\ pc' = "truncate"
    <3>1. DirectorySide' /\ UNCHANGED <<Kept, Secured>> /\ Tracks(Append(fileQue, target))'
      BY <1>1, <2>1, <2>2, <2>3, RenameDirectory
    <3>2. Known' = Append(fileQue, target)'
      BY <2>3 DEF Known
    <3>3. Tracks(Known)'
      BY <3>1, <3>2 DEF Tracks
    <3> QED
      BY <3>1, <3>3 DEF WindowStep
  <2>4. CASE pc' = "append" /\ UNCHANGED <<disk, retired, undeleted>>
    <3>1. UNCHANGED <<file, synced, rotated, retired, undeleted>>
      BY <2>4 DEF disk
    <3>2. DirectorySide'
      BY <1>1, <2>1, <2>4, <3>1, StillDirectory DEF FileKept
    <3>3. Tracks(Known)'
      BY <2>1, <2>4, <3>1, KnownTracks DEF Known
    <3>4. WindowStep
      BY <3>1, StillWindow DEF FileKept
    <3> QED
      BY <3>2, <3>3, <3>4
  <2> QED
    BY <1>6, <2>3, <2>4 DEF Rename
<1>7. CASE Reopen
  <2>1. /\ UNCHANGED <<rotated, retired, undeleted, crashes, lost, count, pending, target>>
        /\ pc \in {"truncate", "append"} /\ pc' = "delete" /\ ~ isOpen
    BY <1>7 DEF Reopen, history, StreamSide, StreamInv
  <2>2. Known' = Known
    BY <1>7, <2>1 DEF Known, Reopen
  <2>3. Tracks(Known)'
    BY <2>1, <2>2, KnownTracks
  <2>4. CASE /\ file' = IF pc = "truncate" \/ file = NoFile THEN <<>> ELSE file
             /\ synced' = Len(file')
    <3>1. FileKept
      BY <2>4 DEF FileKept, StreamSide, StreamInv
    <3>2. <<>> \in Seq(Line)
      OBVIOUS
    <3>3. file' \in Seq(Line)
      BY <1>1, <2>4, <3>2 DEF TypeOK
    <3>4. DirectorySide'
      BY <1>1, <2>1, <3>1, StillDirectory
    <3>5. WindowStep
      BY <2>1, <2>4, <3>1, <3>3, AllSecured, StillWindow
    <3> QED
      BY <2>3, <3>4, <3>5
  <2>5. CASE UNCHANGED <<isOpen, file, synced, currSize>>
    <3>1. FileKept
      BY <2>5 DEF FileKept
    <3>2. DirectorySide'
      BY <1>1, <2>1, <3>1, StillDirectory
    <3>3. WindowStep
      BY <2>1, <2>5, <3>1, StillWindow
    <3> QED
      BY <2>3, <3>2, <3>3
  <2> QED
    BY <1>7, <2>4, <2>5 DEF Reopen
<1>8. CASE DeleteOldest
  <2>1. pc = "delete" /\ pc' = "delete"
    BY <1>8 DEF DeleteOldest, control
  <2>2. Tracks(fileQue)
    BY <2>1 DEF Known
  <2>3. DirectorySide' /\ WindowStep /\ Tracks(fileQue)'
    BY <1>1, <1>8, <2>2, DeleteDirectory
  <2>4. Known' = fileQue'
    BY <2>1 DEF Known
  <2> QED
    BY <2>3, <2>4 DEF Tracks
<1>9. CASE EndRotation
  <2>1. /\ UNCHANGED <<synced, rotated, retired, undeleted, crashes, count, fileQue>>
        /\ pc = "delete" /\ pc' = "idle" /\ pending' = NoLog
    BY <1>9 DEF EndRotation, queue, environment
  <2>2. Tracks(Known)'
    BY <2>1, KnownTracks DEF Known
  <2>3. CASE pending = NoLog
    <3>1. UNCHANGED <<file, lost, pending>>
      BY <1>9, <2>1, <2>3 DEF EndRotation
    <3>2. DirectorySide'
      BY <1>1, <2>1, <3>1, StillDirectory DEF FileKept
    <3>3. WindowStep
      BY <2>1, <3>1, StillWindow DEF FileKept
    <3> QED
      BY <2>2, <3>2, <3>3
  <2>4. CASE pending # NoLog
    <3>1. pending \in Line /\ Write(pending) /\ pending.n = count /\ count \in Nat
      BY <1>1, <1>9, <2>4 DEF EndRotation, TypeOK, StreamSide, PendingInv
    <3>2. OnDisk \cup lost \cup retired \cup {pending.n} = 1..count
      BY <2>4 DEF OnDisk, DirectorySide, NoLogVanishes, Waiting
    <3>3. \A n \in OnDisk \cup lost \cup retired : n \in Int /\ n <= count /\ n # count
      BY <2>4, <3>1, <3>2 DEF DirectorySide, NewestLast
    <3>4. \A n \in OnDisk \cup lost \cup retired : n < pending.n
      BY <3>1, <3>3
    <3>5. 1..count' = OnDisk \cup lost \cup retired \cup {pending.n} /\ count' = pending.n
      BY <2>1, <3>1, <3>2
    <3>6. DirectorySide' /\ WindowStep
      BY <1>1, <2>1, <3>1, <3>4, <3>5, WriteDirectory
    <3> QED
      BY <2>2, <3>6
  <2> QED
    BY <2>3, <2>4
<1>10. CASE \/ \E limit \in Limits : SetMaxFileSize(limit)
            \/ \E n \in Retained : SetMaxFiles(n)
            \/ UNCHANGED vars
  <2>1. UNCHANGED <<file, synced, rotated, retired, undeleted, crashes, lost, count, pending, pc, fileQue, target>>
    BY <1>10 DEF SetMaxFileSize, SetMaxFiles, vars, disk, queue, control, history, environment
  <2>2. DirectorySide'
    BY <1>1, <2>1, StillDirectory DEF FileKept
  <2>3. Tracks(Known)'
    BY <2>1, KnownTracks DEF Known
  <2>4. WindowStep
    BY <2>1, StillWindow DEF FileKept
  <2> QED
    BY <2>2, <2>3, <2>4
<1>11. CASE Crash
  <2>1. DirectorySide' /\ WindowStep /\ Tracks(Indices(rotated))'
    BY <1>1, <1>11, CrashDirectory
  <2>2. Known' = Indices(rotated)'
    BY <1>11 DEF Crash, Known
  <2> QED
    BY <2>1, <2>2 DEF Tracks
<1>12. ASSUME NEW limit \in Limits, NEW n \in Retained, NEW rotateOnOpen \in BOOLEAN,
              Start(limit, n, rotateOnOpen)
       PROVE  DirectorySide' /\ Tracks(Known)' /\ WindowStep
  <2>1. /\ UNCHANGED <<rotated, retired, undeleted, crashes, lost, count, pending>>
        /\ pc = "down" /\ pc' \in {"opened", "idle"}
        /\ synced' = Len(file') /\ fileQue' = Indices(rotated)
    BY <1>12 DEF Start, history, environment
  <2>2. FileKept
    BY <1>12 DEF Start, FileKept
  <2>3. Known' = Known
    BY <2>1 DEF Known
  <2>4. <<>> \in Seq(Line)
    OBVIOUS
  <2>5. file' \in Seq(Line)
    BY <1>1, <1>12, <2>4 DEF Start, TypeOK
  <2>6. DirectorySide'
    BY <1>1, <2>1, <2>2, StillDirectory
  <2>7. WindowStep
    BY <2>1, <2>2, <2>5, AllSecured, StillWindow
  <2> QED
    BY <2>1, <2>3, <2>6, <2>7, KnownTracks
<1> QED
  BY <1>3, <1>4, <1>5, <1>6, <1>7, <1>8, <1>9, <1>10, <1>11, <1>12 DEF Next, Rotate

\* The indices stay apart and the size known whatever the target of a rotation.
LEMMA StepDistinct == StreamSide /\ Distinct /\ [Next]_vars => StreamSide' /\ Distinct'
<1> SUFFICES ASSUME StreamSide, Distinct, [Next]_vars PROVE StreamSide' /\ Distinct'
  OBVIOUS
<1>1. StreamSide'
  BY StepType, StepStream DEF StreamSide
<1>2. CASE rotated' = rotated
  BY <1>1, <1>2 DEF Distinct
<1>3. CASE Rename
  <2>1. CASE file # NoFile /\ rotated' = Append(Others(target), [idx |-> target, lines |-> file])
    BY <1>1, <2>1, RenameDistinct
  <2> QED
    BY <1>2, <1>3, <2>1 DEF Rename, disk
<1>4. CASE DeleteOldest
  <2>1. CASE rotated' = Others(Head(fileQue))
    <3> DEFINE files == Others(Head(fileQue))
    <3>1. rotated \in Seq(RotatedFile)
      BY DEF StreamSide, TypeOK
    <3>2. PICK f : Embeds(f, files, Head(fileQue))
      BY <3>1, OthersEmbed
    <3> HIDE DEF files
    <3>3. \A i, j \in DOMAIN files : files[i].idx = files[j].idx => i = j
      BY <3>1, <3>2, EmbedsDistinct
    <3> QED
      BY <1>1, <2>1, <3>3 DEF Distinct, files
  <2> QED
    BY <1>2, <1>4, <2>1 DEF DeleteOldest
<1>5. ASSUME NEW size \in LineSizes, Log(size) PROVE rotated' = rotated
  BY <1>5 DEF Log, BeginRotation
<1>6. Flush \/ RotateOnOpen \/ Reopen \/ EndRotation \/ Crash \/ UNCHANGED vars => rotated' = rotated
  BY DEF Flush, RotateOnOpen, BeginRotation, Reopen, EndRotation, Crash, vars, disk
<1>7. ASSUME NEW limit \in Limits, NEW n \in Retained, NEW rotateOnOpen \in BOOLEAN,
             SetMaxFileSize(limit) \/ SetMaxFiles(n) \/ Start(limit, n, rotateOnOpen)
      PROVE  rotated' = rotated
  BY <1>7 DEF SetMaxFileSize, SetMaxFiles, Start, disk
<1>8. (\E limit \in Limits : SetMaxFileSize(limit)) \/ (\E n \in Retained : SetMaxFiles(n)) => rotated' = rotated
  BY DEF SetMaxFileSize, SetMaxFiles, disk
<1> QED
  BY <1>2, <1>3, <1>4, <1>5, <1>6, <1>7, <1>8 DEF Next, Rotate

------------------------------------------------------------------------------
(* Theorems.                                                                *)

\* Every variable has its type, whatever the indices.
THEOREM TypeCorrect == Spec => []TypeOK
<1>1. Init => StreamSide /\ Distinct
  BY InitIInv DEF IInv, DirectorySide
<1>2. StreamSide /\ Distinct /\ [Next]_vars => (StreamSide /\ Distinct)'
  BY StepDistinct
<1>3. StreamSide => TypeOK
  BY DEF StreamSide
<1> QED
  BY <1>1, <1>2, <1>3, PTL DEF Spec

\* The cached size is the size of the file whenever a log is checked against the
\* limit (FileWriterImpl::size), whatever fails and whatever the indices.
THEOREM SizeAlwaysKnown == Spec => []SizeKnown
<1>1. Init => StreamSide /\ Distinct
  BY InitIInv DEF IInv, DirectorySide
<1>2. StreamSide /\ Distinct /\ [Next]_vars => (StreamSide /\ Distinct)'
  BY StepDistinct
<1>3. StreamSide => SizeKnown
  BY DEF StreamSide, StreamInv, SizeKnown, Size
<1> QED
  BY <1>1, <1>2, <1>3, PTL DEF Spec

LEMMA AlwaysIInv == Spec /\ []TargetFresh => []IInv
BY InitIInv, StepIInv, PTL DEF Spec

\* _fileQue lists the rotated files that were not given up, oldest first
\* (push_back_file, delete_overflow_file, init_file_queue).
THEOREM QueueFollowsDisk == Spec /\ []TargetFresh => []QueueTracksDisk
<1>1. IInv => QueueTracksDisk
  BY DEF IInv, QueueTracksDisk, Known
<1> QED
  BY <1>1, AlwaysIInv, PTL

\* Every log is in exactly one place, and none is dropped without a fault or a
\* crash (rotate, FileWriterImpl::write_line).
THEOREM NothingVanishes == Spec /\ []TargetFresh => []NoLogVanishes
<1>1. IInv => NoLogVanishes
  BY DEF IInv, DirectorySide
<1> QED
  BY <1>1, AlwaysIInv, PTL

\* Retention removes the oldest files (delete_overflow_file).
THEOREM OldestFirst == Spec /\ []TargetFresh => OldestGoesFirst
<1> DEFINE Removes ==
      \A i, j \in DOMAIN rotated :
          i < j /\ rotated[j] \notin ToSet(rotated') /\ rotated[j].idx \notin undeleted
          => rotated[i] \notin ToSet(rotated') \/ rotated[i].idx \in undeleted
<1>1. IInv /\ TargetFresh /\ [Next]_vars => [Removes]_vars
  <2> SUFFICES ASSUME IInv, TargetFresh, [Next]_vars PROVE Removes
    OBVIOUS
  <2>1. CASE rotated' = rotated
    BY <2>1 DEF ToSet
  <2>2. CASE Rename
    <3>1. CASE rotated' = rotated
      BY <2>1, <3>1
    <3>2. CASE rotated' = Append(Others(target), [idx |-> target, lines |-> file])
      <4> DEFINE files == Others(target)
      <4> DEFINE new == [idx |-> target, lines |-> file]
      <4>1. rotated \in Seq(RotatedFile) /\ pc = "rename"
        BY <2>2 DEF IInv, StreamSide, TypeOK, Rename
      <4>2. PICK f : Embeds(f, files, target)
        BY <4>1, OthersEmbed DEF IInv, DirectorySide
      <4>3. files \in Seq(RotatedFile)
        BY <4>2 DEF Embeds
      <4>4. ASSUME NEW i \in DOMAIN files PROVE files[i] \in ToSet(Append(files, new))
        <5> HIDE DEF files, new
        <5>1. i \in DOMAIN Append(files, new) /\ Append(files, new)[i] = files[i]
          BY <4>3
        <5> QED
          BY <5>1 DEF ToSet
      <4>5. ASSUME NEW j \in DOMAIN rotated, rotated[j].idx \notin undeleted
            PROVE  rotated[j] \in ToSet(rotated')
        <5>1. rotated[j].idx \in ToSet(fileQue)
          BY <4>1, <4>5, IndicesIn DEF IInv, Known, Tracks
        <5>2. rotated[j].idx # target
          BY <4>1, <5>1 DEF TargetFresh
        <5>3. PICK i \in DOMAIN files : f[i] = j
          BY <4>2, <5>2 DEF Embeds
        <5>4. files[i] = rotated[j]
          BY <4>2, <5>3 DEF Embeds
        <5> QED
          BY <3>2, <4>4, <5>4
      <4> QED
        BY <4>5
    <3> QED
      BY <2>2, <3>1, <3>2 DEF Rename, disk
  <2>3. CASE DeleteOldest
    <3>1. StreamSide' /\ Tracks(fileQue)
      BY <2>3, StepIInv DEF IInv, Known, DeleteOldest
    <3> QED
      BY <2>3, <3>1, DeleteDirectory DEF IInv, StreamSide
  <2>4. ASSUME NEW size \in LineSizes, Log(size) PROVE rotated' = rotated
    BY <2>4 DEF Log, BeginRotation
  <2>5. Flush \/ RotateOnOpen \/ Reopen \/ EndRotation \/ Crash \/ UNCHANGED vars => rotated' = rotated
    BY DEF Flush, RotateOnOpen, BeginRotation, Reopen, EndRotation, Crash, vars, disk
  <2>6. ASSUME NEW limit \in Limits, NEW n \in Retained, NEW rotateOnOpen \in BOOLEAN,
               Start(limit, n, rotateOnOpen)
        PROVE  rotated' = rotated
    BY <2>6 DEF Start
  <2>7. (\E limit \in Limits : SetMaxFileSize(limit)) \/ (\E n \in Retained : SetMaxFiles(n)) => rotated' = rotated
    BY DEF SetMaxFileSize, SetMaxFiles, disk
  <2> QED
    BY <2>1, <2>2, <2>3, <2>4, <2>5, <2>6, <2>7 DEF Next, Rotate
<1>2. OldestGoesFirst <=> [][Removes]_vars
  BY DEF OldestGoesFirst
<1> HIDE DEF Removes
<1> QED
  BY <1>1, <1>2, AlwaysIInv, PTL DEF Spec

\* The logs kept are a window of the logs in order: what LogWindow promises,
\* step by step.
THEOREM WindowKept == Spec /\ []TargetFresh => KeepsWindow
<1>1. Init => Window!Init
  BY InitIInv
<1>2. IInv /\ TargetFresh /\ [Next]_vars => [Window!Next]_<<Kept, Secured>>
  BY StepIInv DEF WindowStep
<1>3. IInv => InOrder
  BY DEF IInv, DirectorySide
<1> QED
  BY <1>1, <1>2, <1>3, AlwaysIInv, PTL DEF Spec, KeepsWindow, Window!Spec

------------------------------------------------------------------------------
(* How many files there are.                                                *)

LEMMA MembersCount ==
  ASSUME NEW s \in Seq(Index)
  PROVE  IsFiniteSet(ToSet(s)) /\ Cardinality(ToSet(s)) <= Len(s)
<1>1. s \in Surjection(1..Len(s), ToSet(s))
  BY DEF Surjection, ToSet
<1> DEFINE n == Len(s)
<1>2. n \in Nat
  OBVIOUS
<1> HIDE DEF n
<1>3. IsFiniteSet(1..n) /\ Cardinality(1..n) = n
  BY <1>2, FS_Interval
<1> QED
  BY <1>1, <1>3, FS_Surjection DEF n

LEMMA IndicesCount ==
  ASSUME rotated \in Seq(RotatedFile), Distinct
  PROVE  Cardinality(ToSet(Indices(rotated))) = Len(rotated)
<1> DEFINE s == Indices(rotated)
<1>1. s \in Seq(Index) /\ Len(s) = Len(rotated) /\ DOMAIN s = 1..Len(rotated) /\ Len(rotated) \in Nat
      /\ \A i \in DOMAIN s : s[i] = rotated[i].idx
  BY IndicesType
<1> HIDE DEF s
<1>2. s \in [1..Len(rotated) -> ToSet(s)]
  BY <1>1 DEF ToSet
<1>3. \A i, j \in 1..Len(rotated) : s[i] = s[j] => i = j
  BY <1>1 DEF Distinct
<1>4. \A x \in ToSet(s) : \E i \in 1..Len(rotated) : s[i] = x
  BY <1>1 DEF ToSet
<1>5. s \in Bijection(1..Len(rotated), ToSet(s))
  BY <1>2, <1>3, <1>4 DEF Bijection, Injection, Surjection, IsInjective
<1>6. ExistsBijection(1..Len(rotated), ToSet(s))
  BY <1>5 DEF ExistsBijection
<1> QED
  BY <1>1, <1>6, FS_CountingElements DEF s

\* A rotation ends with at most maxFiles rotated files, those aside that could
\* not be deleted (delete_overflow_file, log_it).
THEOREM RetentionBounds == Spec /\ []TargetFresh => AtMostMaxFiles
<1> DEFINE Ends == pc = "delete" /\ pc' = "idle" => Len(rotated') <= maxFiles + Cardinality(undeleted')
<1>1. IInv /\ [Next]_vars => [Ends]_vars
  <2> SUFFICES ASSUME IInv, [Next]_vars, pc = "delete", pc' = "idle"
               PROVE  Len(rotated') <= maxFiles + Cardinality(undeleted')
    OBVIOUS
  <2>1. EndRotation
    BY DEF Next, Rotate, Log, Flush, RotateOnOpen, Rename, Reopen, DeleteOldest, SetMaxFileSize,
           SetMaxFiles, Crash, Start, control, vars
  <2>2. rotated' = rotated /\ undeleted' = undeleted /\ Len(fileQue) <= maxFiles
    BY <2>1 DEF EndRotation
  <2>3. rotated \in Seq(RotatedFile) /\ fileQue \in Seq(Index) /\ undeleted \subseteq Index
        /\ maxFiles \in Nat /\ Distinct
    BY SinkAssumption DEF IInv, StreamSide, DirectorySide, TypeOK
  <2> DEFINE S == ToSet(Indices(rotated))
  <2> DEFINE Q == ToSet(fileQue)
  <2>4. S \subseteq Q \cup undeleted
    BY DEF IInv, Known, Tracks
  <2>5. Cardinality(S) = Len(rotated)
    BY <2>3, IndicesCount
  <2>6. IsFiniteSet(Q) /\ Cardinality(Q) <= Len(fileQue)
    BY <2>3, MembersCount
  <2>7. IsFiniteSet(undeleted)
    <3>1. IsFiniteSet(Index)
      BY SinkAssumption, FS_Interval DEF Index, MinIndex
    <3> QED
      BY <2>3, <3>1, FS_Subset
  <2> HIDE DEF S, Q
  <2>8. /\ IsFiniteSet(Q \cup undeleted)
        /\ Cardinality(Q \cup undeleted) = Cardinality(Q) + Cardinality(undeleted) - Cardinality(Q \cap undeleted)
    BY <2>6, <2>7, FS_Union
  <2>9. Cardinality(S) <= Cardinality(Q \cup undeleted)
    BY <2>4, <2>8, FS_Subset
  <2>10. IsFiniteSet(Q \cap undeleted)
    BY <2>6, FS_Subset
  <2>11. /\ Cardinality(Q) \in Nat /\ Cardinality(undeleted) \in Nat
         /\ Cardinality(Q \cap undeleted) \in Nat /\ Len(fileQue) \in Nat /\ Len(rotated) \in Nat
    BY <2>3, <2>6, <2>7, <2>10, FS_CardinalityType
  <2> QED
    BY <2>2, <2>3, <2>5, <2>6, <2>8, <2>9, <2>11
<1>2. AtMostMaxFiles <=> [][Ends]_vars
  BY DEF AtMostMaxFiles
<1> HIDE DEF Ends
<1> QED
  BY <1>1, <1>2, AlwaysIInv, PTL DEF Spec

------------------------------------------------------------------------------
(* How many indices make every target fresh.                                *)

\* How far idx is behind the index to come, going round.
Gap(base, idx) == IF idx < base THEN base - idx ELSE base + MaxIndex - idx

\* Newer files are nearer to it, and only slack indices lie idle between them.
Spaced(que, base, slack) ==
    /\ \A k \in DOMAIN que : Gap(base, que[k]) <= Len(que) - k + 1 + slack
    /\ \A k, l \in DOMAIN que : k < l => Gap(base, que[l]) < Gap(base, que[k])

\* The index of the next rotation, or of the first after a restart.
NextBase ==
    IF pc # "down" THEN nextIdx
    ELSE IF rotated = <<>> THEN MinIndex ELSE Successor(Last(rotated).idx)

\* An index is skipped by a rename that fails, or that finds no file because an
\* open has failed; at "rename" the index that the step will use is taken.
Skipped ==
    faults + (IF pc = "rename" THEN 1 ELSE 0)
           - (IF file = NoFile /\ pc \notin {"down", "truncate", "append"} THEN 1 ELSE 0)

SpaceInv(n) ==
    /\ undeleted # {} => "delete" \in Faulty
    /\ pc = "down" /\ MaxCrashes = 0 => Len(rotated) <= 1
    /\ pc \in {"rename", "truncate", "append"} => nextIdx = Successor(target)
    /\ Len(Known) <= n + 1 + crashes + IF pc \in {"truncate", "append", "delete"} THEN 1 ELSE 0
    /\ Spaced(Known, NextBase, Skipped)
    /\ TargetFresh

\* As many indices as files can be listed at once, and one for each rename that
\* fails, and one more.  A file that could not be deleted may come back with a
\* restart after any number of rotations: faults of delete_file and crashes
\* together are excluded.
Enough(n) ==
    /\ n \in Nat
    /\ \A m \in Retained : m <= n
    /\ n + 1 + MaxCrashes + MaxFaults < MaxIndex
    /\ "delete" \notin Faulty \/ MaxCrashes = 0
EnoughIndices == \E n : Enough(n)

LEMMA GapRange ==
  \A base, idx \in Index : /\ Gap(base, idx) \in 1..MaxIndex
                           /\ Gap(base, idx) < MaxIndex => idx # base
                           /\ Gap(base, idx) = 1 => base = Successor(idx)
BY SinkAssumption DEF Gap, Index, MinIndex, Successor

\* The next rotation is one index further, whatever the index, but for its own.
LEMMA GapAdvance ==
  \A base, idx \in Index : /\ idx # base => Gap(Successor(base), idx) = Gap(base, idx) + 1
                           /\ Gap(Successor(base), base) = 1
BY SinkAssumption DEF Gap, Index, MinIndex, Successor

\* A restart goes on behind the newest file there is.
LEMMA GapRetreat ==
  \A base, last, idx \in Index :
      Gap(base, idx) >= Gap(base, last)
      => Gap(Successor(last), idx) = Gap(base, idx) - Gap(base, last) + 1
BY SinkAssumption DEF Gap, Index, MinIndex, Successor

LEMMA SuccessorApart == \A i, j \in Index : Successor(i) = Successor(j) => i = j
BY SinkAssumption DEF Index, MinIndex, Successor

\* More slack does no harm.
LEMMA SpacedMore ==
  ASSUME NEW que \in Seq(Index), NEW base \in Index, NEW s \in Int, NEW t \in Int, s <= t, Spaced(que, base, s)
  PROVE  Spaced(que, base, t)
<1> SUFFICES ASSUME NEW k \in DOMAIN que PROVE Gap(base, que[k]) <= Len(que) - k + 1 + t
  BY DEF Spaced
<1>1. Gap(base, que[k]) \in Int /\ k \in Int /\ Len(que) \in Int
  BY GapRange
<1>2. Gap(base, que[k]) <= Len(que) - k + 1 + s
  BY DEF Spaced
<1> QED
  BY <1>1, <1>2

\* An increasing function into the naturals from 1 is nowhere below its argument.
LEMMA IncreasingAbove ==
  ASSUME NEW m \in Nat, NEW n \in Nat, NEW g \in [1..m -> 1..n],
         \A i, j \in 1..m : i < j => g[i] < g[j]
  PROVE  \A i \in 1..m : i <= g[i]
<1> DEFINE P(i) == i \in 1..m => i <= g[i]
<1> DEFINE T == {i \in Nat : P(i)}
<1>1. P(0)
  OBVIOUS
<1>2. ASSUME NEW i \in Nat, P(i) PROVE P(i + 1)
  <2> SUFFICES ASSUME i + 1 \in 1..m PROVE i + 1 <= g[i + 1]
    OBVIOUS
  <2>1. g[i + 1] \in 1..n
    OBVIOUS
  <2>2. CASE i = 0
    BY <2>1, <2>2
  <2>3. CASE i # 0
    <3>1. i \in 1..m /\ i < i + 1
      BY <2>3
    <3>2. g[i] < g[i + 1] /\ i <= g[i] /\ g[i] \in Int
      BY <1>2, <3>1
    <3> QED
      BY <2>1, <3>2
  <2> QED
    BY <2>2, <2>3
<1>3. \A i \in Nat : i \in T <=> P(i)
  OBVIOUS
<1> HIDE DEF P, T
<1>4. Nat \subseteq T
  <2>1. 0 \in T /\ \A i \in Nat : i \in T => i + 1 \in T
    BY <1>1, <1>2, <1>3
  <2> QED
    BY <2>1, SetInduction
<1>5. \A i \in Nat : P(i)
  BY <1>3, <1>4
<1> QED
  BY <1>5 DEF P

\* While nothing was given up, there is one listing of the directory only.
LEMMA TracksListing ==
  ASSUME rotated \in Seq(RotatedFile), Distinct, undeleted = {}, NEW que \in Seq(Index), Tracks(que)
  PROVE  Len(que) = Len(rotated) /\ \A k \in DOMAIN que : que[k] = rotated[k].idx
<1> DEFINE m == Len(que)
<1> DEFINE n == Len(rotated)
<1>1. m \in Nat /\ n \in Nat /\ DOMAIN que = 1..m /\ DOMAIN rotated = 1..n
  OBVIOUS
<1> HIDE DEF m, n
<1>2. ToSet(que) = ToSet(Indices(rotated))
  BY DEF Tracks
<1> DEFINE Both == {que[k] : k \in 1..m}
<1>3. Both = ToSet(que) /\ Both = {rotated[i].idx : i \in 1..n}
  <2>1. ToSet(Indices(rotated)) = {rotated[i].idx : i \in DOMAIN rotated}
    BY IndicesIn
  <2>2. ToSet(que) = {que[k] : k \in DOMAIN que}
    BY DEF ToSet
  <2> QED
    BY <1>1, <1>2, <2>1, <2>2
<1>4. \A k \in 1..m : \E i \in 1..n : rotated[i].idx = que[k]
  BY <1>3
<1>5. \A i \in 1..n : \E k \in 1..m : rotated[i].idx = que[k]
  <2> SUFFICES ASSUME NEW i \in 1..n PROVE \E k \in 1..m : rotated[i].idx = que[k]
    OBVIOUS
  <2>1. rotated[i].idx \in Both
    BY <1>3
  <2> QED
    BY <2>1
<1>6. ASSUME NEW k \in 1..m, NEW l \in 1..m, k < l, NEW i \in 1..n, NEW j \in 1..n,
             rotated[i].idx = que[k], rotated[j].idx = que[l]
      PROVE  i < j
  BY <1>1, <1>6 DEF Tracks, Places
<1> DEFINE f == [k \in 1..m |-> CHOOSE i \in 1..n : rotated[i].idx = que[k]]
<1> DEFINE g == [i \in 1..n |-> CHOOSE k \in 1..m : rotated[i].idx = que[k]]
<1>7. \A k \in 1..m : f[k] \in 1..n /\ rotated[f[k]].idx = que[k]
  BY <1>4
<1>8. \A i \in 1..n : g[i] \in 1..m /\ rotated[i].idx = que[g[i]]
  BY <1>5
<1>9. f \in [1..m -> 1..n] /\ g \in [1..n -> 1..m]
  BY <1>7, <1>8
<1> HIDE DEF f, g
<1>10. \A k, l \in 1..m : k < l => f[k] < f[l]
  BY <1>6, <1>7
<1>11. \A i, j \in 1..n : i < j => g[i] < g[j]
  <2> SUFFICES ASSUME NEW i \in 1..n, NEW j \in 1..n, i < j, ~ (g[i] < g[j]) PROVE FALSE
    OBVIOUS
  <2>1. g[i] \in 1..m /\ g[j] \in 1..m
    BY <1>8
  <2>2. g[i] = g[j] \/ g[j] < g[i]
    BY <2>1
  <2>3. CASE g[i] = g[j]
    <3>1. rotated[i].idx = rotated[j].idx
      BY <1>8, <2>3
    <3>2. i = j
      BY <1>1, <3>1 DEF Distinct
    <3> QED
      BY <3>2
  <2>4. CASE g[j] < g[i]
    <3>1. j < i
      BY <1>6, <1>8, <2>1, <2>4
    <3> QED
      BY <3>1
  <2> QED
    BY <2>2, <2>3, <2>4
<1>12. \A k \in 1..m : k <= f[k]
  BY <1>1, <1>9, <1>10, IncreasingAbove
<1>13. \A i \in 1..n : i <= g[i]
  BY <1>1, <1>9, <1>11, IncreasingAbove
<1>14. ASSUME NEW k \in 1..m PROVE que[k] = rotated[k].idx /\ k \in 1..n
  <2>1. f[k] \in 1..n /\ rotated[f[k]].idx = que[k]
    BY <1>7
  <2>2. g[f[k]] \in 1..m /\ que[g[f[k]]] = que[k]
    BY <1>8, <2>1
  <2>3. g[f[k]] = k
    <3>1. ~ (g[f[k]] < k)
      <4> SUFFICES ASSUME g[f[k]] < k PROVE FALSE
        OBVIOUS
      <4>1. f[k] < f[k]
        BY <1>6, <2>1, <2>2
      <4> QED
        BY <2>1, <4>1
    <3>2. ~ (k < g[f[k]])
      <4> SUFFICES ASSUME k < g[f[k]] PROVE FALSE
        OBVIOUS
      <4>1. f[k] < f[k]
        BY <1>6, <2>1, <2>2
      <4> QED
        BY <2>1, <4>1
    <3> QED
      BY <2>2, <3>1, <3>2
  <2>4. f[k] <= k /\ k <= f[k]
    BY <1>12, <1>13, <2>1, <2>3
  <2>5. f[k] = k
    BY <2>1, <2>4
  <2> QED
    BY <2>1, <2>5
<1>15. m <= n /\ n <= m
  <2>1. m <= n
    <3>1. CASE m = 0
      BY <1>1, <3>1
    <3>2. CASE m # 0
      <4>1. m \in 1..m
        BY <1>1, <3>2
      <4> QED
        BY <1>14, <4>1
    <3> QED
      BY <3>1, <3>2
  <2>2. n <= m
    <3>1. CASE n = 0
      BY <1>1, <3>1
    <3>2. CASE n # 0
      <4>1. n \in 1..n
        BY <1>1, <3>2
      <4>2. n <= g[n] /\ g[n] \in 1..m
        BY <1>8, <1>13, <4>1
      <4> QED
        BY <1>1, <4>2
    <3> QED
      BY <3>1, <3>2
  <2> QED
    BY <2>1, <2>2
<1>16. m = n
  BY <1>1, <1>15
<1>17. \A k \in DOMAIN que : que[k] = rotated[k].idx
  BY <1>1, <1>14
<1> QED
  BY <1>16, <1>17 DEF m, n

LEMMA SpaceTypes ==
  ASSUME TypeOK
  PROVE  /\ NextBase \in Index
         /\ Known \in Seq(Index)
         /\ Skipped \in Int /\ faults \in Nat /\ crashes \in Nat
         /\ pc # "rename" => Skipped <= faults
         /\ Skipped <= faults + 1
<1>1. Known \in Seq(Index)
  <2>1. Indices(rotated) \in Seq(Index)
    BY IndicesType DEF TypeOK
  <2> QED
    BY <2>1 DEF Known, TypeOK
<1>2. NextBase \in Index
  <2>1. MinIndex \in Index
    BY SinkAssumption DEF MinIndex, Index
  <2>2. rotated # <<>> => Last(rotated) \in RotatedFile
    BY DEF TypeOK, Last
  <2> QED
    BY <2>1, <2>2, RotatedFields, SuccessorIndex DEF NextBase, TypeOK
<1>3. Skipped \in Int /\ faults \in Nat /\ crashes \in Nat /\ Skipped <= faults + 1
      /\ (pc # "rename" => Skipped <= faults)
  BY DEF TypeOK, Skipped
<1> QED
  BY <1>1, <1>2, <1>3

\* The oldest file listed is less than a round behind.
LEMMA RoomLeft ==
  ASSUME NEW n, Enough(n), TypeOK, SpaceInv(n), pc \in {"opened", "idle"}
  PROVE  \A k \in DOMAIN Known : Known[k] # NextBase
<1> SUFFICES ASSUME NEW k \in DOMAIN Known PROVE Known[k] # NextBase
  OBVIOUS
<1>1. Known \in Seq(Index) /\ NextBase \in Index /\ Skipped \in Int /\ Skipped <= faults
      /\ faults \in 0..MaxFaults /\ crashes \in 0..MaxCrashes /\ n \in Nat
  BY SpaceTypes DEF TypeOK, Enough
<1>2. Gap(NextBase, Known[k]) <= Len(Known) - k + 1 + Skipped
  BY DEF SpaceInv, Spaced
<1>3. Len(Known) <= n + 1 + crashes
  <2>1. ~ (pc \in {"truncate", "append", "delete"})
    OBVIOUS
  <2>2. Len(Known) <= n + 1 + crashes + 0
    BY <2>1 DEF SpaceInv
  <2> QED
    BY <1>1, <2>2
<1>4. k \in 1..Len(Known) /\ Len(Known) \in Nat /\ Gap(NextBase, Known[k]) \in Int /\ Known[k] \in Index
  <2>1. k \in 1..Len(Known) /\ Len(Known) \in Nat /\ Known[k] \in Index
    BY <1>1
  <2>2. Gap(NextBase, Known[k]) \in 1..MaxIndex
    BY <1>1, <2>1, GapRange
  <2> QED
    BY <2>1, <2>2
<1>5. n + 1 + MaxCrashes + MaxFaults < MaxIndex /\ MaxCrashes \in Nat /\ MaxFaults \in Nat /\ MaxIndex \in Nat
  BY SinkAssumption DEF Enough
<1>6. Gap(NextBase, Known[k]) < MaxIndex
  <2> DEFINE gap == Gap(NextBase, Known[k])
  <2> DEFINE len == Len(Known)
  <2>1. gap \in Int /\ len \in Nat /\ k \in 1..len /\ gap <= len - k + 1 + Skipped /\ len <= n + 1 + crashes
    BY <1>2, <1>3, <1>4
  <2> HIDE DEF gap, len
  <2>2. gap <= n + 1 + crashes + faults
    BY <1>1, <2>1
  <2>3. gap < MaxIndex
    BY <1>1, <1>5, <2>1, <2>2
  <2> QED
    BY <2>3 DEF gap
<1> QED
  BY <1>1, <1>4, <1>6, GapRange

\* The steps that use no index and list no file.
LEMMA QuietSpace ==
  ASSUME NEW n, SpaceInv(n),
         UNCHANGED <<pc, fileQue, nextIdx, target, faults, crashes, rotated, undeleted>>,
         file' = NoFile <=> file = NoFile
  PROVE  SpaceInv(n)'
<1>1. Known' = Known
  BY DEF Known
<1>2. NextBase' = NextBase
  BY DEF NextBase
<1>3. Skipped' = Skipped
  BY DEF Skipped
<1>4. TargetFresh'
  BY DEF SpaceInv, TargetFresh
<1> QED
  BY <1>1, <1>2, <1>3, <1>4 DEF SpaceInv

\* An index is taken: it is fresh.
LEMMA BeginSpace ==
  ASSUME NEW n, Enough(n), TypeOK, SpaceInv(n), pc \in {"opened", "idle"}, BeginRotation,
         UNCHANGED <<faults, crashes, undeleted>>
  PROVE  SpaceInv(n)'
<1>1. Known' = Known /\ Known = fileQue /\ NextBase = nextIdx /\ NextBase' = Successor(NextBase)
      /\ target' = NextBase /\ pc' = "rename" /\ nextIdx' = Successor(target') /\ fileQue' = fileQue
  BY DEF BeginRotation, Known, NextBase
<1>2. Skipped' = Skipped + 1
  BY DEF Skipped, BeginRotation, TypeOK
<1>3. Known \in Seq(Index) /\ NextBase \in Index /\ Skipped \in Int
  BY SpaceTypes
<1>4. \A k \in DOMAIN Known : Known[k] # NextBase
  BY RoomLeft
<1>5. \A k \in DOMAIN Known : Gap(Successor(NextBase), Known[k]) = Gap(NextBase, Known[k]) + 1
                              /\ Gap(NextBase, Known[k]) \in Int /\ k \in Int
  BY <1>3, <1>4, GapAdvance, GapRange
<1>6. Spaced(Known, Successor(NextBase), Skipped + 1)
  <2>1. \A k \in DOMAIN Known : Gap(Successor(NextBase), Known[k]) <= Len(Known) - k + 1 + (Skipped + 1)
    <3> SUFFICES ASSUME NEW k \in DOMAIN Known
                 PROVE  Gap(Successor(NextBase), Known[k]) <= Len(Known) - k + 1 + (Skipped + 1)
      OBVIOUS
    <3>1. Gap(NextBase, Known[k]) <= Len(Known) - k + 1 + Skipped
      BY DEF SpaceInv, Spaced
    <3>2. Len(Known) \in Int
      BY <1>3
    <3> QED
      BY <1>3, <1>5, <3>1, <3>2
  <2>2. \A k, l \in DOMAIN Known : k < l => Gap(Successor(NextBase), Known[l]) < Gap(Successor(NextBase), Known[k])
    BY <1>5 DEF SpaceInv, Spaced
  <2> QED
    BY <2>1, <2>2 DEF Spaced
<1>7. TargetFresh'
  <2>1. NextBase \notin ToSet(fileQue)
    BY <1>1, <1>4 DEF ToSet
  <2> QED
    BY <1>1, <2>1 DEF TargetFresh
<1>8. Len(Known') <= n + 1 + crashes' + IF pc' \in {"truncate", "append", "delete"} THEN 1 ELSE 0
  BY <1>1 DEF SpaceInv
<1> QED
  BY <1>1, <1>2, <1>6, <1>7, <1>8 DEF SpaceInv

LEMMA RenameSpace ==
  ASSUME NEW n, Enough(n), TypeOK, SpaceInv(n), Rename
  PROVE  SpaceInv(n)'
<1>1. /\ pc = "rename" /\ pc' \in {"truncate", "append"}
      /\ UNCHANGED <<target, fileQue, nextIdx, crashes>>
      /\ undeleted' \subseteq undeleted
  BY DEF Rename, queue
<1>2. Known = fileQue /\ NextBase = nextIdx /\ NextBase' = NextBase /\ nextIdx = Successor(target)
      /\ target \notin ToSet(fileQue)
  BY <1>1 DEF Known, NextBase, SpaceInv, TargetFresh
<1>3. Known \in Seq(Index) /\ NextBase \in Index /\ Skipped \in Int /\ target \in Index /\ faults \in Nat
      /\ crashes \in Nat /\ n \in Nat
  BY SpaceTypes DEF TypeOK, Enough
<1>4. Len(Known) <= n + 1 + crashes /\ Len(Known) \in Nat
  <2>1. Len(Known) <= n + 1 + crashes + 0
    BY <1>1 DEF SpaceInv
  <2> QED
    BY <1>3, <2>1
<1>5. Spaced(Known, NextBase, Skipped)
  BY DEF SpaceInv
<1>6. CASE file # NoFile /\ pc' = "truncate" /\ UNCHANGED faults
  <2> DEFINE que == Append(fileQue, target)
  <2>1. Known' = que
    BY <1>1, <1>6 DEF Known
  <2>2. Skipped = faults + 1 /\ Skipped' = faults
    BY <1>1, <1>3, <1>6 DEF Skipped
  <2>3. /\ que \in Seq(Index) /\ Len(que) = Len(Known) + 1 /\ DOMAIN que = 1..Len(Known) + 1
        /\ que[Len(Known) + 1] = target
        /\ \A k \in 1..Len(Known) : que[k] = Known[k] /\ k \in DOMAIN Known
    BY <1>2, <1>3
  <2> HIDE DEF que
  <2>4. \A k \in 1..Len(Known) : que[k] \in Index /\ que[k] # target
    BY <1>2, <1>3, <2>3 DEF ToSet
  <2>5. Gap(NextBase, target) = 1
    BY <1>2, <1>3, GapAdvance
  <2>6. \A k \in 1..Len(Known) : Gap(NextBase, que[k]) \in Int /\ Gap(NextBase, que[k]) > 1
    <3> SUFFICES ASSUME NEW k \in 1..Len(Known)
                 PROVE  Gap(NextBase, que[k]) \in Int /\ Gap(NextBase, que[k]) > 1
      OBVIOUS
    <3>1. Gap(NextBase, que[k]) \in 1..MaxIndex
      BY <1>3, <2>4, GapRange
    <3>2. Gap(NextBase, que[k]) # 1
      BY <1>2, <1>3, <2>4, GapRange, SuccessorApart
    <3> QED
      BY <3>1, <3>2
  <2>7. Spaced(que, NextBase, faults)
    <3>1. \A k \in DOMAIN que : Gap(NextBase, que[k]) <= Len(que) - k + 1 + faults
      <4> SUFFICES ASSUME NEW k \in DOMAIN que PROVE Gap(NextBase, que[k]) <= Len(que) - k + 1 + faults
        OBVIOUS
      <4>1. CASE k = Len(Known) + 1
        BY <1>3, <2>3, <2>5, <4>1
      <4>2. CASE k \in 1..Len(Known)
        <5>1. Gap(NextBase, que[k]) <= Len(Known) - k + 1 + Skipped
          BY <1>5, <2>3, <4>2 DEF Spaced
        <5> QED
          BY <1>3, <1>4, <2>2, <2>3, <2>6, <4>2, <5>1
      <4> QED
        BY <1>4, <2>3, <4>1, <4>2
    <3>2. ASSUME NEW k \in DOMAIN que, NEW l \in DOMAIN que, k < l
          PROVE  Gap(NextBase, que[l]) < Gap(NextBase, que[k])
      <4>1. k \in 1..Len(Known)
        BY <1>4, <2>3, <3>2
      <4>2. CASE l = Len(Known) + 1
        BY <2>3, <2>5, <2>6, <4>1, <4>2
      <4>3. CASE l \in 1..Len(Known)
        BY <1>5, <2>3, <3>2, <4>1, <4>3 DEF Spaced
      <4> QED
        BY <1>4, <2>3, <4>2, <4>3
    <3> QED
      BY <3>1, <3>2 DEF Spaced
  <2>8. Len(que) <= n + 1 + crashes + 1
    BY <1>3, <1>4, <2>3
  <2>9. TargetFresh'
    BY <1>6 DEF TargetFresh
  <2> QED
    BY <1>1, <1>2, <1>6, <2>1, <2>2, <2>7, <2>8, <2>9 DEF SpaceInv
<1>7. CASE pc' = "append" /\ ((file = NoFile /\ UNCHANGED faults) \/ Fault("rename")) /\ UNCHANGED <<disk, retired, undeleted>>
  <2>1. Known' = Known
    BY <1>1, <1>7 DEF Known
  <2>2. Skipped' \in Int /\ Skipped <= Skipped'
    BY <1>1, <1>3, <1>7 DEF Skipped, Fault, disk
  <2>3. Spaced(Known, NextBase, Skipped')
    BY <1>3, <1>5, <2>2, SpacedMore
  <2>4. Len(Known) <= n + 1 + crashes + 1
    BY <1>3, <1>4
  <2>5. TargetFresh'
    BY <1>7 DEF TargetFresh
  <2> QED
    BY <1>1, <1>2, <1>7, <2>1, <2>3, <2>4, <2>5 DEF SpaceInv
<1> QED
  BY <1>6, <1>7 DEF Rename

LEMMA ReopenSpace ==
  ASSUME NEW n, Enough(n), TypeOK, StreamInv, SpaceInv(n), Reopen
  PROVE  SpaceInv(n)'
<1>1. /\ pc \in {"truncate", "append"} /\ pc' = "delete"
      /\ UNCHANGED <<rotated, nextIdx, target, crashes, undeleted>>
      /\ fileQue' = IF pc = "truncate" THEN Append(fileQue, target) ELSE fileQue
  BY DEF Reopen, history
<1>2. Known' = Known /\ NextBase' = NextBase
  BY <1>1 DEF Known, NextBase
<1>3. Known \in Seq(Index) /\ NextBase \in Index /\ Skipped \in Int /\ faults \in Nat
  BY SpaceTypes
<1>4. Skipped = faults
  BY <1>1, <1>3 DEF Skipped
<1>5. Skipped' \in Int /\ Skipped <= Skipped'
  <2>1. CASE file' = (IF pc = "truncate" \/ file = NoFile THEN <<>> ELSE file) /\ UNCHANGED faults
    <3>1. <<>> \in Seq(Line)
      OBVIOUS
    <3>2. file' # NoFile
      BY <2>1, <3>1, SinkAssumption
    <3> QED
      BY <1>1, <1>3, <1>4, <2>1, <3>2 DEF Skipped
  <2>2. CASE Fault("open")
    BY <1>1, <1>3, <1>4, <2>2 DEF Skipped, Fault
  <2> QED
    BY <2>1, <2>2 DEF Reopen
<1>6. Spaced(Known, NextBase, Skipped')
  BY <1>3, <1>5, SpacedMore DEF SpaceInv
<1>7. Len(Known) <= n + 1 + crashes + 1
  BY <1>1 DEF SpaceInv
<1>8. TargetFresh'
  BY <1>1 DEF TargetFresh
<1> QED
  BY <1>1, <1>2, <1>6, <1>7, <1>8 DEF SpaceInv

LEMMA DeleteSpace ==
  ASSUME NEW n, Enough(n), TypeOK, SpaceInv(n), DeleteOldest
  PROVE  SpaceInv(n)'
<1>1. /\ pc = "delete" /\ pc' = "delete" /\ fileQue' = Tail(fileQue) /\ Len(fileQue) > 0
      /\ UNCHANGED <<file, nextIdx, target, crashes>>
  BY SinkAssumption DEF DeleteOldest, control, TypeOK
<1>2. Known = fileQue /\ Known' = Tail(Known) /\ NextBase' = NextBase
  BY <1>1 DEF Known, NextBase
<1>3. Known \in Seq(Index) /\ NextBase \in Index /\ Skipped \in Int /\ faults \in Nat /\ crashes \in Nat
      /\ n \in Nat
  BY SpaceTypes DEF Enough
<1>4. Skipped' \in Int /\ Skipped <= Skipped'
  BY <1>1, <1>3 DEF Skipped, DeleteOldest, Fault
<1>5. Spaced(Known, NextBase, Skipped')
  BY <1>3, <1>4, SpacedMore DEF SpaceInv
<1> DEFINE que == Known
<1> DEFINE rest == Tail(Known)
<1>6. /\ Len(rest) = Len(que) - 1 /\ Len(que) \in Nat /\ DOMAIN rest = 1..Len(que) - 1 /\ DOMAIN que = 1..Len(que)
      /\ \A k \in DOMAIN rest : rest[k] = que[k + 1] /\ k + 1 \in DOMAIN que
  BY <1>1, <1>2, <1>3
<1>7. \A k \in DOMAIN que : que[k] \in Index /\ Gap(NextBase, que[k]) \in Int
  <2>1. \A k \in DOMAIN que : que[k] \in Index
    BY <1>3
  <2> QED
    BY <1>3, <2>1, GapRange
<1>8. Spaced(que, NextBase, Skipped')
  BY <1>5
<1> HIDE DEF que, rest
<1>9. Spaced(rest, NextBase, Skipped')
  <2>1. ASSUME NEW k \in DOMAIN rest PROVE Gap(NextBase, rest[k]) <= Len(rest) - k + 1 + Skipped'
    <3>1. Gap(NextBase, que[k + 1]) <= Len(que) - (k + 1) + 1 + Skipped'
      BY <1>6, <1>8 DEF Spaced
    <3> QED
      BY <1>4, <1>6, <1>7, <3>1
  <2>2. ASSUME NEW k \in DOMAIN rest, NEW l \in DOMAIN rest, k < l
        PROVE  Gap(NextBase, rest[l]) < Gap(NextBase, rest[k])
    <3>1. k + 1 < l + 1
      BY <1>6, <2>2
    <3> QED
      BY <1>6, <1>8, <3>1 DEF Spaced
  <2> QED
    BY <2>1, <2>2 DEF Spaced
<1>10. Len(rest) <= n + 1 + crashes + 1
  <2>1. Len(que) <= n + 1 + crashes + 1
    BY <1>1 DEF SpaceInv, que
  <2> QED
    BY <1>3, <1>6, <2>1
<1>11. undeleted' # {} => "delete" \in Faulty
  BY DEF DeleteOldest, Fault, SpaceInv
<1>12. TargetFresh'
  BY <1>1 DEF TargetFresh
<1> QED
  BY <1>1, <1>2, <1>9, <1>10, <1>11, <1>12 DEF SpaceInv, rest

LEMMA EndSpace ==
  ASSUME NEW n, Enough(n), TypeOK, StreamInv, SpaceInv(n), EndRotation
  PROVE  SpaceInv(n)'
<1>1. /\ pc = "delete" /\ pc' = "idle" /\ Len(fileQue) <= maxFiles /\ maxFiles \in Retained
      /\ UNCHANGED <<rotated, fileQue, nextIdx, target, faults, crashes, undeleted>>
  BY DEF EndRotation, queue, environment, TypeOK
<1>2. Known' = Known /\ Known = fileQue /\ NextBase' = NextBase
  BY <1>1 DEF Known, NextBase
<1>3. file' = NoFile <=> file = NoFile
  <2>1. CASE pending = NoLog
    BY <2>1 DEF EndRotation
  <2>2. CASE pending # NoLog
    <3>1. Write(pending) /\ pending \in Line
      BY <2>2 DEF EndRotation, TypeOK
    <3>2. CASE isOpen
      <4>1. file \in Seq(Line)
        BY <3>2 DEF StreamInv, TypeOK
      <4>2. Append(file, pending) \in Seq(Line)
        BY <3>1, <4>1
      <4> QED
        BY <3>1, <3>2, <4>1, <4>2, SinkAssumption DEF Write
    <3>3. CASE ~ isOpen
      BY <3>1, <3>3 DEF Write
    <3> QED
      BY <3>2, <3>3
  <2> QED
    BY <2>1, <2>2
<1>4. Skipped' = Skipped
  BY <1>1, <1>3 DEF Skipped
<1>5. Len(Known) <= n + 1 + crashes + 0
  <2>1. maxFiles <= n /\ n \in Nat /\ crashes \in Nat
    BY <1>1 DEF Enough, TypeOK
  <2>2. maxFiles \in Nat /\ Len(fileQue) \in Nat
    BY <1>1, SinkAssumption DEF TypeOK
  <2> QED
    BY <1>1, <1>2, <2>1, <2>2
<1>6. TargetFresh'
  BY <1>1 DEF TargetFresh
<1> QED
  BY <1>1, <1>2, <1>4, <1>5, <1>6 DEF SpaceInv

LEMMA StartSpace ==
  ASSUME NEW n, Enough(n), TypeOK, SpaceInv(n), NEW limit, NEW retain, NEW rotateOnOpen,
         Start(limit, retain, rotateOnOpen)
  PROVE  SpaceInv(n)'
<1>1. /\ pc = "down" /\ pc' \in {"opened", "idle"} /\ fileQue' = Indices(rotated)
      /\ UNCHANGED <<rotated, target, faults, crashes, undeleted>>
      /\ nextIdx' = IF rotated = <<>> THEN MinIndex ELSE Successor(Last(rotated).idx)
  BY DEF Start, history, environment
<1>2. Known' = Known /\ NextBase' = NextBase
  BY <1>1 DEF Known, NextBase
<1>3. <<>> \in Seq(Line)
  OBVIOUS
<1>4. file' # NoFile
  BY <1>3, SinkAssumption DEF Start
<1>5. Skipped' = Skipped
  BY <1>1, <1>4 DEF Skipped
<1>6. TargetFresh'
  BY <1>1 DEF TargetFresh
<1>7. Len(Known) <= n + 1 + crashes + 0
  BY <1>1 DEF SpaceInv
<1> QED
  BY <1>1, <1>2, <1>5, <1>6, <1>7 DEF SpaceInv

\* After a crash the indices go on behind the newest file: none is nearer to
\* its turn than before.
LEMMA CrashSpace ==
  ASSUME NEW n, Enough(n), IInv, SpaceInv(n), Crash
  PROVE  SpaceInv(n)'
<1>1. /\ pc # "down" /\ pc' = "down" /\ crashes' = crashes + 1 /\ crashes < MaxCrashes
      /\ UNCHANGED <<rotated, faults>> /\ undeleted' = {}
  BY DEF Crash
<1>2. TypeOK /\ Distinct /\ Tracks(Known)
  BY DEF IInv, StreamSide, DirectorySide
<1>3. /\ Known \in Seq(Index) /\ NextBase \in Index /\ Skipped \in Int /\ faults \in Nat /\ crashes \in Nat
      /\ n \in Nat /\ (pc # "rename" => Skipped <= faults) /\ Skipped <= faults + 1
      /\ rotated \in Seq(RotatedFile)
  BY <1>2, SpaceTypes DEF Enough, TypeOK
<1>4. MaxCrashes # 0 /\ "delete" \notin Faulty
  BY <1>1, <1>3, SinkAssumption DEF Enough
<1>5. undeleted = {}
  BY <1>4 DEF SpaceInv
<1> DEFINE que == Known
<1>6. Len(que) = Len(rotated) /\ \A k \in DOMAIN que : que[k] = rotated[k].idx
  BY <1>2, <1>3, <1>5, TracksListing
<1>7. que \in Seq(Index) /\ Len(que) \in Nat /\ DOMAIN que = 1..Len(que)
      /\ Spaced(que, NextBase, Skipped) /\ que = Known
  BY <1>3 DEF SpaceInv
<1> HIDE DEF que
<1>8. Known' = que
  <2>1. Known' = Indices(rotated)
    BY <1>1 DEF Known, Indices
  <2>2. Indices(rotated) \in Seq(Index) /\ Len(Indices(rotated)) = Len(rotated)
        /\ \A k \in DOMAIN rotated : Indices(rotated)[k] = rotated[k].idx
    BY <1>3, IndicesType
  <2>3. DOMAIN rotated = 1..Len(que)
    BY <1>3, <1>6
  <2>4. \A k \in 1..Len(que) : Indices(rotated)[k] = que[k]
    BY <1>6, <1>7, <2>2, <2>3
  <2>5. Indices(rotated) = [k \in 1..Len(que) |-> rotated[k].idx]
    BY <2>3 DEF Indices
  <2>6. que = [k \in 1..Len(que) |-> rotated[k].idx]
    BY <1>6, <1>7
  <2> QED
    BY <2>1, <2>5, <2>6
<1>9. Skipped' = faults
  BY <1>1, <1>3 DEF Skipped
<1>10. Len(que) <= n + 1 + crashes' + 0
  <2>1. Len(que) <= n + 1 + crashes + 1
    <3>1. Len(que) <= n + 1 + crashes + IF pc \in {"truncate", "append", "delete"} THEN 1 ELSE 0
      BY <1>7 DEF SpaceInv
    <3> QED
      BY <1>3, <1>7, <3>1
  <2> QED
    BY <1>1, <1>3, <1>7, <2>1
<1>11. Spaced(que, NextBase', faults)
  <2>1. CASE que = <<>>
    BY <2>1 DEF Spaced
  <2>2. CASE que # <<>>
    <3> DEFINE m == Len(que)
    <3> DEFINE last == que[m]
    <3>1. m \in DOMAIN que /\ m \in Nat /\ last \in Index
      BY <1>7, <2>2
    <3>2. NextBase' = Successor(last)
      <4>1. rotated # <<>> /\ Last(rotated).idx = last
        BY <1>3, <1>6, <1>7, <3>1 DEF Last
      <4> QED
        BY <1>1, <4>1 DEF NextBase
    <3> DEFINE back == Gap(NextBase, last)
    <3>3. back \in Int /\ back >= 1
      BY <1>3, <3>1, GapRange
    <3>4. Skipped - back + 1 <= faults
      <4>1. CASE pc # "rename"
        <5> HIDE DEF back
        <5> QED
          BY <1>3, <3>3, <4>1
      <4>2. CASE pc = "rename"
        <5>1. que = fileQue /\ target \notin ToSet(fileQue) /\ NextBase = Successor(target) /\ target \in Index
          BY <1>2, <1>7, <4>2 DEF Known, SpaceInv, TargetFresh, NextBase, TypeOK
        <5>2. last # target
          BY <3>1, <5>1 DEF ToSet
        <5>3. back # 1
          BY <1>3, <3>1, <5>1, <5>2, GapRange, SuccessorApart
        <5> HIDE DEF back
        <5> QED
          BY <1>3, <3>3, <5>3
      <4> QED
        BY <4>1, <4>2
    <3>5. ASSUME NEW k \in DOMAIN que
          PROVE  /\ Gap(NextBase, que[k]) \in Int
                 /\ Gap(NextBase', que[k]) = Gap(NextBase, que[k]) - back + 1
      <4>1. que[k] \in Index
        BY <1>7
      <4>2. Gap(NextBase, que[k]) \in Int
        BY <1>3, <4>1, GapRange
      <4>3. Gap(NextBase, que[k]) >= Gap(NextBase, last)
        <5>1. CASE k = m
          BY <4>2, <5>1
        <5>2. CASE k # m
          <6>1. k < m
            BY <1>7, <5>2
          <6>2. Gap(NextBase, que[m]) < Gap(NextBase, que[k])
            BY <1>7, <3>1, <6>1 DEF Spaced
          <6> QED
            BY <3>3, <4>2, <6>2
        <5> QED
          BY <5>1, <5>2
      <4>4. Gap(Successor(last), que[k]) = Gap(NextBase, que[k]) - Gap(NextBase, last) + 1
        <5> HIDE DEF last
        <5> QED
          BY <1>3, <3>1, <4>1, <4>3, GapRetreat
      <4> QED
        BY <3>2, <4>2, <4>4
    <3>6. faults \in Int /\ Skipped \in Int
      BY <1>3
    <3> HIDE DEF back, last, m
    <3>7. \A k \in DOMAIN que : Gap(NextBase', que[k]) <= Len(que) - k + 1 + faults
      <4> SUFFICES ASSUME NEW k \in DOMAIN que PROVE Gap(NextBase', que[k]) <= Len(que) - k + 1 + faults
        OBVIOUS
      <4>1. Gap(NextBase, que[k]) <= Len(que) - k + 1 + Skipped
        BY <1>7 DEF Spaced
      <4> QED
        BY <1>7, <3>3, <3>4, <3>5, <3>6, <4>1
    <3>8. \A k, l \in DOMAIN que : k < l => Gap(NextBase', que[l]) < Gap(NextBase', que[k])
      BY <1>7, <3>3, <3>5 DEF Spaced
    <3> QED
      BY <3>7, <3>8 DEF Spaced
  <2> QED
    BY <2>1, <2>2
<1>12. TargetFresh'
  BY <1>1 DEF TargetFresh
<1> QED
  BY <1>1, <1>4, <1>8, <1>9, <1>10, <1>11, <1>12 DEF SpaceInv

LEMMA InitSpace == ASSUME NEW n, Enough(n), Init PROVE SpaceInv(n)
<1>1. TypeOK
  BY InitType
<1>2. pc = "down" /\ undeleted = {} /\ faults = 0 /\ crashes = 0 /\ n \in Nat
  BY DEF Init, Enough
<1>3. Known = Indices(rotated) /\ Skipped = 0
  <2>1. Known = Indices(rotated)
    BY <1>2 DEF Known
  <2>2. pc # "rename" /\ ~ (file = NoFile /\ pc \notin {"down", "truncate", "append"})
    BY <1>2
  <2>3. Skipped = faults + 0 - 0
    BY <2>2 DEF Skipped
  <2>4. Skipped = 0
    BY <1>2, <2>3
  <2> QED
    BY <2>1, <2>4
<1>4. CASE rotated = <<>>
  <2>1. Known = <<>>
    BY <1>3, <1>4 DEF Indices
  <2> QED
    BY <1>2, <1>4, <2>1 DEF SpaceInv, Spaced, TargetFresh
<1>5. ASSUME NEW idx \in Existing, rotated = <<[idx |-> idx, lines |-> <<>>]>>
      PROVE  SpaceInv(n)
  <2>1. idx \in Index
    BY SinkAssumption
  <2>2. Len(rotated) = 1 /\ Last(rotated).idx = idx /\ rotated # <<>> /\ rotated[1].idx = idx
    BY <1>5 DEF Last
  <2>3. Known = <<idx>>
    BY <1>3, <1>5, <2>2 DEF Indices
  <2>4. NextBase = Successor(idx)
    BY <1>2, <2>2 DEF NextBase
  <2>5. Gap(NextBase, idx) = 1
    BY <2>1, <2>4, GapAdvance
  <2>6. Spaced(Known, NextBase, Skipped)
    BY <1>3, <2>3, <2>5 DEF Spaced
  <2>7. Len(Known) <= n + 1 + crashes + 0
    BY <1>2, <2>3
  <2> QED
    BY <1>2, <2>2, <2>6, <2>7 DEF SpaceInv, TargetFresh
<1> QED
  BY <1>4, <1>5 DEF Init

LEMMA StepSpace == ASSUME NEW n, Enough(n), IInv, SpaceInv(n), [Next]_vars PROVE SpaceInv(n)'
<1>1. TypeOK /\ StreamInv
  BY DEF IInv, StreamSide
<1>2. ASSUME NEW size \in LineSizes, Log(size) PROVE SpaceInv(n)'
  <2> DEFINE line == [n |-> count + 1, size |-> size]
  <2>1. pc = "idle" /\ UNCHANGED <<undeleted, faults, crashes>> /\ line \in Line
    <3>1. pc = "idle" /\ count < MaxLogs /\ UNCHANGED <<undeleted, faults, crashes>>
      BY <1>2 DEF Log, environment
    <3>2. count + 1 \in 1..MaxLogs
      BY <1>1, <3>1, SinkAssumption DEF TypeOK
    <3> QED
      BY <1>2, <3>1, <3>2 DEF Line
  <2>2. BeginRotation \/ (Write(line) /\ UNCHANGED <<synced, rotated, isOpen, queue, control>>)
    BY <1>2 DEF Log
  <2> HIDE DEF line
  <2>3. CASE BeginRotation
    BY <1>1, <2>1, <2>3, BeginSpace
  <2>4. CASE Write(line) /\ UNCHANGED <<synced, rotated, isOpen, queue, control>>
    <3>1. file' = NoFile <=> file = NoFile
      <4>1. CASE isOpen
        <5>1. file \in Seq(Line)
          BY <1>1, <4>1 DEF StreamInv, TypeOK
        <5>2. Append(file, line) \in Seq(Line)
          BY <2>1, <5>1
        <5> QED
          BY <2>4, <4>1, <5>1, <5>2, SinkAssumption DEF Write
      <4>2. CASE ~ isOpen
        BY <2>4, <4>2 DEF Write
      <4> QED
        BY <4>1, <4>2
    <3>2. UNCHANGED <<pc, fileQue, nextIdx, target, rotated>>
      BY <2>4 DEF queue, control
    <3> QED
      BY <2>1, <3>1, <3>2, QuietSpace
  <2> QED
    BY <2>2, <2>3, <2>4
<1>3. CASE \/ Flush
           \/ \E limit \in Limits : SetMaxFileSize(limit)
           \/ \E m \in Retained : SetMaxFiles(m)
           \/ UNCHANGED vars
  <2>1. UNCHANGED <<file, pc, fileQue, nextIdx, target, faults, crashes, rotated, undeleted>>
    BY <1>3 DEF Flush, SetMaxFileSize, SetMaxFiles, vars, disk, queue, control, history, environment
  <2> QED
    BY <2>1, QuietSpace
<1>4. CASE RotateOnOpen
  <2>1. pc = "opened" /\ BeginRotation /\ UNCHANGED <<faults, crashes, undeleted>>
    BY <1>4 DEF RotateOnOpen, history, environment
  <2> QED
    BY <1>1, <2>1, BeginSpace
<1>5. CASE Rename
  BY <1>1, <1>5, RenameSpace
<1>6. CASE Reopen
  BY <1>1, <1>6, ReopenSpace
<1>7. CASE DeleteOldest
  BY <1>1, <1>7, DeleteSpace
<1>8. CASE EndRotation
  BY <1>1, <1>8, EndSpace
<1>9. CASE Crash
  BY <1>9, CrashSpace
<1>10. ASSUME NEW limit \in Limits, NEW m \in Retained, NEW rotateOnOpen \in BOOLEAN,
              Start(limit, m, rotateOnOpen)
       PROVE  SpaceInv(n)'
  BY <1>1, <1>10, StartSpace
<1> QED
  BY <1>2, <1>3, <1>4, <1>5, <1>6, <1>7, <1>8, <1>9, <1>10 DEF Next, Rotate

\* With enough indices none is used again while its file is listed
\* (get_next_idx, set_next_idx, init_file_queue).
THEOREM IndicesSuffice == ASSUME EnoughIndices PROVE Spec => []TargetFresh
<1>1. PICK n : Enough(n)
  BY DEF EnoughIndices
<1> DEFINE Both == IInv /\ SpaceInv(n)
<1>2. Init => Both
  BY <1>1, InitIInv, InitSpace
<1>3. Both /\ [Next]_vars => Both'
  <2>1. Both => TargetFresh
    BY DEF SpaceInv
  <2> QED
    BY <1>1, <2>1, StepIInv, StepSpace
<1>4. Both => TargetFresh
  BY DEF SpaceInv
<1> HIDE DEF Both
<1> QED
  BY <1>2, <1>3, <1>4, PTL DEF Spec

\* So the sink keeps its promises for all constants that leave enough indices.
THEOREM SinkKeepsPromises ==
  ASSUME EnoughIndices
  PROVE  Spec => /\ []QueueTracksDisk
                 /\ []NoLogVanishes
                 /\ OldestGoesFirst
                 /\ AtMostMaxFiles
                 /\ KeepsWindow
BY IndicesSuffice, QueueFollowsDisk, NothingVanishes, OldestFirst, RetentionBounds, WindowKept, PTL
==============================================================================
