---------------------------- MODULE FileSystem_proof ----------------------------
(***************************************************************************)
(* Theorems about the operations on files and directories, for any tree,   *)
(* any number of threads that call them at once, and any number of acts    *)
(* that the operating system refuses or breaks off.                        *)
(***************************************************************************)
EXTENDS FileSystem, SequenceTheorems, TLAPS

Entries == [type : {"NONEXISTENT", "FILE", "DIRECTORY"}, text : Seq(Thread)]
Codes   == {"SUCCESS", "ALREADY_EXISTS", "NOT_FOUND", "NOT_FILE", "NOT_DIRECTORY", "IS_A_DIRECTORY",
            "DIR_NOT_EMPTY", "PERMISSION_DENIED", "PATH_INVALID", "IO_ERROR", "SHARING_VIOLATION",
            "GENERIC_ERROR", "SYSTEM_ERROR", "EXCEPTION"}
Answers == [op : Operations \cup {"none"}, src : Path \cup {Root}, dest : Path \cup {Root}, ok : BOOLEAN,
            code : Codes, size : Int, touched : BOOLEAN, lost : BOOLEAN]

\* The operations and the steps after their look.
Kinds == {<<"create_file", "create_file">>, <<"delete_file", "delete_file">>,
          <<"copy_file", "copy_dest">>, <<"copy_file", "copy_file">>,
          <<"rename_file", "rename_dest">>, <<"rename_file", "rename_file">>,
          <<"write_text_file", "write_text_file">>, <<"get_file_size", "get_file_size">>,
          <<"read_text_file", "read_text_file">>, <<"get_file_info", "info_size">>,
          <<"get_file_info", "info_time">>, <<"create_dir", "mkdir_parent">>,
          <<"create_dir", "mkdir">>, <<"delete_dir", "remove_all">>, <<"delete_dir", "rmdir">>}

\* Those that change the tree in their last step or not at all.
OneStep == {"create_file", "delete_file", "rename_file"}

\* A call that is not over: it is at a step of its operation, and has not touched
\* the tree if it does so in one step.
Underway(c) == c \in Calls /\ <<c.op, c.step>> \in Kinds /\ (c.op \in OneStep => ~ c.touched)

\* An operation that returned false says why, and has touched nothing if it is
\* one of a single step.
Honest(r) == ~ r.ok => r.code # "SUCCESS" /\ (r.op \in OneStep => ~ r.touched)

IInv ==
    /\ tree \in [Path -> Entries]
    /\ at \in [Thread -> Calls \cup {Idle}] /\ \A t \in Thread : at[t] = Idle \/ Underway(at[t])
    /\ result \in [Thread -> Answers] /\ \A t \in Thread : Honest(result[t])
    /\ calls \in [Thread -> Nat]

\* A step of a call is one that goes on, or one that ends it as it should.
GoesOn(t) ==
    /\ result' = result
    /\ \E c : Underway(c) /\ at' = [at EXCEPT ![t] = c]
Ends(t) ==
    /\ at' = [at EXCEPT ![t] = Idle]
    /\ \E r \in Answers : /\ result' = [result EXCEPT ![t] = r]
                          /\ Honest(r) /\ (r.ok => Promise(t, r))
Fine(t) == tree' \in [Path -> Entries] /\ (GoesOn(t) \/ Ends(t))

\* What the last operation of each thread said is right at the moment it says it.
EndsKept == \A t \in Thread : at'[t] = Idle /\ (at[t] # Idle \/ calls'[t] # calls[t]) => Kept(t)

\* Such a step keeps the invariant, and its promise if it ends.
LEMMA FineKeeps ==
    ASSUME IInv, NEW t \in Thread, Fine(t), calls' \in [Thread -> Nat],
           \A u \in Thread \ {t} : calls'[u] = calls[u]
    PROVE  IInv' /\ EndsKept
<1>1. \A u \in Thread \ {t} : at'[u] = at[u] /\ result'[u] = result[u]
  BY DEF IInv, Fine, GoesOn, Ends
<1>2. CASE GoesOn(t)
  <2>1. PICK c : Underway(c) /\ at' = [at EXCEPT ![t] = c]
    BY <1>2 DEF GoesOn
  <2>2. c \in Calls /\ at' \in [Thread -> Calls \cup {Idle}] /\ at'[t] = c
    BY <2>1 DEF IInv, Underway
  <2>3. at'[t] # Idle
    BY <2>2, TreeAssumption DEF Calls
  <2>4. \A u \in Thread : at'[u] = Idle \/ Underway(at'[u])
    BY <1>1, <2>1, <2>2 DEF IInv
  <2>5. IInv'
    BY <1>2, <2>2, <2>4 DEF IInv, Fine, GoesOn, Underway
  <2>6. QED
    BY <1>1, <2>3, <2>5 DEF EndsKept
<1>3. CASE Ends(t)
  <2>1. PICK r \in Answers : /\ result' = [result EXCEPT ![t] = r]
                             /\ Honest(r) /\ (r.ok => Promise(t, r))
    BY <1>3 DEF Ends
  <2>2. /\ at' \in [Thread -> Calls \cup {Idle}] /\ at'[t] = Idle
        /\ result' \in [Thread -> Answers] /\ result'[t] = r
    BY <1>3, <2>1 DEF IInv, Ends
  <2>3. \A u \in Thread : at'[u] = Idle \/ Underway(at'[u])
    BY <1>1, <2>2 DEF IInv
  <2>4. \A u \in Thread : Honest(result'[u])
    BY <1>1, <2>1, <2>2 DEF IInv
  <2>5. IInv'
    BY <2>2, <2>3, <2>4 DEF IInv, Fine, Underway, Honest
  <2>6. Kept(t)
    BY <2>1, <2>2 DEF Kept
  <2>7. QED
    BY <1>1, <2>5, <2>6 DEF EndsKept
<1>4. QED
  BY <1>2, <1>3 DEF Fine

\* A call of c that answers false.
LEMMA SaysFalse ==
    ASSUME NEW t, NEW c \in Calls, c.op \in OneStep => ~ c.touched,
           NEW code \in Codes, code # "SUCCESS", NEW size \in Int, Answer(t, c, FALSE, code, size)
    PROVE  Ends(t)
<1> DEFINE r == [op |-> c.op, src |-> c.src, dest |-> c.dest, ok |-> FALSE,
                 code |-> code, size |-> size, touched |-> c.touched, lost |-> c.lost]
<1>1. r \in Answers /\ Honest(r) /\ r.ok = FALSE
  BY DEF Answers, Calls, Honest
<1>2. result' = [result EXCEPT ![t] = r] /\ at' = [at EXCEPT ![t] = Idle]
  BY DEF Answer
<1> HIDE DEF r
<1>3. QED
  BY <1>1, <1>2 DEF Ends

\* And one that answers true, with its promise kept.
LEMMA SaysTrue ==
    ASSUME NEW t, NEW c \in Calls, NEW code \in Codes, NEW size \in Int, Answer(t, c, TRUE, code, size), Promise(t, c)
    PROVE  Ends(t)
<1> DEFINE r == [op |-> c.op, src |-> c.src, dest |-> c.dest, ok |-> TRUE,
                 code |-> code, size |-> size, touched |-> c.touched, lost |-> c.lost]
<1>1. r \in Answers /\ Honest(r)
  BY DEF Answers, Calls, Honest
<1>2. result' = [result EXCEPT ![t] = r] /\ at' = [at EXCEPT ![t] = Idle]
  BY DEF Answer
<1>3. r.op = c.op /\ r.src = c.src /\ r.dest = c.dest /\ r.lost = c.lost
  OBVIOUS
<1> HIDE DEF r
<1>4. Promise(t, r)
  BY <1>3 DEF Promise
<1>5. QED
  BY <1>1, <1>2, <1>4 DEF Ends

\* What the operating system says is wrong, and the code made of it.
Errnos == {"EACCES", "ENOENT", "EEXIST", "ENOTEMPTY", "EISDIR", "ENOTDIR", "EINVAL", "EIO"}

LEMMA CodesAre ==
    /\ \A e \in Errnos : CodeOf("generic", e) \in Codes /\ CodeOf("generic", e) # "SUCCESS"
    /\ \A e \in {"EIO", "ENOSPC"} : CodeOf("system", e) \in Codes /\ CodeOf("system", e) # "SUCCESS"
<1>1. \A e \in Errnos : GenericCode(e) \in Codes /\ GenericCode(e) # "SUCCESS"
  BY DEF GenericCode, Errnos, Codes
<1>2. \A e \in {"EIO", "ENOSPC"} : SystemCode(e) \in Codes /\ SystemCode(e) # "SUCCESS"
  BY DEF SystemCode, Codes
<1>3. QED
  BY <1>1, <1>2 DEF CodeOf

\* What a path names is one of three, and what the look says of it.
LEMMA TypesOf ==
    ASSUME IInv, NEW p \in Path
    PROVE  /\ TypeOf(p) = tree[p].type /\ tree[p] \in Entries /\ tree[p].text \in Seq(Thread)
           /\ TypeOf(p) \in {"NONEXISTENT", "FILE", "DIRECTORY"}
           /\ FileError(p) \in Codes /\ (FileError(p) = "NOT_FOUND" <=> TypeOf(p) = "NONEXISTENT")
           /\ TypeOf(p) # "FILE" => FileError(p) # "SUCCESS"
           /\ DirError(p) \in Codes /\ (DirError(p) = "NOT_FOUND" <=> TypeOf(p) = "NONEXISTENT")
           /\ TypeOf(p) # "DIRECTORY" => DirError(p) # "SUCCESS"
<1>1. TypeOf(p) = tree[p].type /\ tree[p] \in Entries
  BY TreeAssumption DEF IInv, TypeOf
<1>2. tree[p].text \in Seq(Thread) /\ TypeOf(p) \in {"NONEXISTENT", "FILE", "DIRECTORY"}
  BY <1>1 DEF Entries
<1>3. CASE TypeOf(p) = "FILE"
  <2>1. FileError(p) = "SUCCESS" /\ DirError(p) = "NOT_DIRECTORY"
    BY <1>3 DEF FileError, DirError
  <2>2. QED
    BY <1>1, <1>2, <1>3, <2>1 DEF Codes
<1>4. CASE TypeOf(p) = "NONEXISTENT"
  <2>1. FileError(p) = "NOT_FOUND" /\ DirError(p) = "NOT_FOUND"
    BY <1>4 DEF FileError, DirError
  <2>2. QED
    BY <1>1, <1>2, <1>4, <2>1 DEF Codes
<1>5. CASE TypeOf(p) = "DIRECTORY"
  <2>1. FileError(p) = "NOT_FILE" /\ DirError(p) = "SUCCESS"
    BY <1>5 DEF FileError, DirError
  <2>2. QED
    BY <1>1, <1>2, <1>5, <2>1 DEF Codes
<1>6. QED
  BY <1>2, <1>3, <1>4, <1>5

\* Another entry at p.
LEMMA PutEntry ==
    ASSUME IInv, NEW p \in Path, NEW entry \in Entries, Put(p, entry)
    PROVE  /\ tree' \in [Path -> Entries] /\ tree'[p] = entry
           /\ \A q \in Path \ {p} : tree'[q] = tree[q]
BY DEF IInv, Put

\* The entries that are put.
LEMMA EntryTypes ==
    /\ Nothing \in Entries /\ Nothing.type = "NONEXISTENT"
    /\ Directory \in Entries /\ Directory.type = "DIRECTORY"
    /\ \A text \in Seq(Thread) : File(text) \in Entries /\ File(text).type = "FILE"
BY DEF Nothing, Directory, File, Entries

\* A call goes on from its look.
LEMMA ProceedFine ==
    ASSUME IInv, NEW t \in Thread, NEW c, Underway(c), Proceed(t, c), UNCHANGED tree
    PROVE  Fine(t)
BY DEF IInv, Fine, GoesOn, Proceed

\* The look settles it: false, with a reason.
LEMMA SettledFalse ==
    ASSUME IInv, NEW t \in Thread, NEW c \in Calls, ~ c.touched, UNCHANGED tree,
           NEW code \in Codes, code # "SUCCESS", Settle(t, c, FALSE, code)
    PROVE  Fine(t)
<1>1. Answer(t, c, FALSE, code, 0)
  BY DEF Settle
<1>2. Ends(t)
  <2>1. 0 \in Int
    OBVIOUS
  <2>2. QED
    BY <1>1, <2>1, SaysFalse
<1>3. QED
  BY <1>2 DEF IInv, Fine

\* Or true, since it has found what was promised.
LEMMA SettledTrue ==
    ASSUME IInv, NEW t \in Thread, NEW c \in Calls, UNCHANGED tree,
           NEW code \in Codes, Settle(t, c, TRUE, code), Promise(t, c)
    PROVE  Fine(t)
<1>1. Answer(t, c, TRUE, code, 0)
  BY DEF Settle
<1>2. Ends(t)
  <2>1. 0 \in Int
    OBVIOUS
  <2>2. QED
    BY <1>1, <2>1, SaysTrue
<1>3. QED
  BY <1>2 DEF IInv, Fine

\* The act fails.
LEMMA FailFine ==
    ASSUME IInv, NEW t \in Thread, Underway(at[t]), NEW e \in Errnos, Fail(t, e)
    PROVE  Fine(t)
<1> DEFINE c == at[t]
           code == CodeOf("generic", e)
<1>1. c \in Calls /\ (c.op \in OneStep => ~ c.touched) /\ code \in Codes /\ code # "SUCCESS"
  BY CodesAre DEF Underway
<1>2. Answer(t, c, FALSE, code, 0) /\ tree' = tree
  BY DEF Fail, Return
<1> HIDE DEF c, code
<1>3. Ends(t)
  <2>1. 0 \in Int
    OBVIOUS
  <2>2. QED
    BY <1>1, <1>2, <2>1, SaysFalse
<1>4. QED
  BY <1>2, <1>3 DEF IInv, Fine

LEMMA RefusedFine ==
    ASSUME IInv, NEW t \in Thread, Underway(at[t]), Refused(t)
    PROVE  Fine(t)
BY FailFine DEF Refused, Errnos

------------------------------------------------------------------------------
(* The looks.                                                               *)

\* A call as it stands after its look.
LEMMA CallTypes ==
    ASSUME NEW op, <<op, op>> \in Kinds, NEW src \in Path, NEW dest \in Path, NEW overwrite \in BOOLEAN
    PROVE  LET c == Call(op, src, dest, overwrite)
           IN  c \in Calls /\ Underway(c) /\ c.op = op /\ ~ c.touched
<1>1. op \in Operations /\ op \in Steps
  BY DEF Kinds, Operations, Steps
<1>2. QED
  BY <1>1 DEF Calls, Underway, Call

LEMMA CallAtTypes ==
    ASSUME NEW op, NEW step, <<op, step>> \in Kinds, NEW src \in Path, NEW dest \in Path, NEW overwrite \in BOOLEAN
    PROVE  LET c == [Call(op, src, dest, overwrite) EXCEPT !.step = step]
           IN  c \in Calls /\ Underway(c) /\ c.op = op /\ ~ c.touched
<1>1. op \in Operations /\ step \in Steps
  BY DEF Kinds, Operations, Steps
<1>2. QED
  BY <1>1 DEF Calls, Underway, Call

LEMMA CallLooks ==
    ASSUME NEW op, <<op, op>> \in Kinds, NEW src \in Path, NEW dest \in Path
    PROVE  LET c == Call(op, src, dest, FALSE)
           IN  c \in Calls /\ Underway(c) /\ c.op = op /\ ~ c.touched
<1>1. op \in Operations /\ op \in Steps
  BY DEF Kinds, Operations, Steps
<1>2. QED
  BY <1>1 DEF Calls, Underway, Call

LEMMA CallAtLooks ==
    ASSUME NEW op, NEW step, <<op, step>> \in Kinds, NEW src \in Path, NEW dest \in Path
    PROVE  LET c == [Call(op, src, dest, FALSE) EXCEPT !.step = step]
           IN  c \in Calls /\ Underway(c) /\ c.op = op /\ ~ c.touched
<1>1. op \in Operations /\ step \in Steps
  BY DEF Kinds, Operations, Steps
<1>2. QED
  BY <1>1 DEF Calls, Underway, Call

\* The look of an operation that goes on with a file and says no to anything else.
LEMMA LookForFile ==
    ASSUME IInv, NEW t \in Thread, NEW c, Underway(c), ~ c.touched, UNCHANGED tree,
           IF TypeOf(c.src) # "FILE" THEN Settle(t, c, FALSE, FileError(c.src)) ELSE Proceed(t, c)
    PROVE  Fine(t)
<1>1. c \in Calls /\ c.src \in Path
  BY DEF Underway, Calls
<1>2. CASE TypeOf(c.src) = "FILE"
  BY <1>2, ProceedFine
<1>3. CASE TypeOf(c.src) # "FILE"
  <2>1. FileError(c.src) \in Codes /\ FileError(c.src) # "SUCCESS"
    BY <1>1, <1>3, TypesOf
  <2>2. QED
    BY <1>1, <1>3, <2>1, SettledFalse
<1>4. QED
  BY <1>2, <1>3

LEMMA CreateFileFine ==
    ASSUME IInv, NEW t \in Thread, NEW p \in Path, CreateFile(t, p)
    PROVE  Fine(t)
<1> DEFINE c == Call("create_file", p, p, FALSE)
<1>1. c \in Calls /\ Underway(c) /\ c.op = "create_file" /\ c.src = p /\ ~ c.touched
  <2>1. <<"create_file", "create_file">> \in Kinds
    BY DEF Kinds
  <2>2. c \in Calls /\ Underway(c) /\ c.op = "create_file" /\ ~ c.touched
    BY <2>1, CallLooks
  <2>3. c.src = p
    BY DEF Call
  <2>4. QED
    BY <2>2, <2>3
<1>2. UNCHANGED tree
  BY DEF CreateFile, Begin
<1> HIDE DEF c
<1>3. CASE TypeOf(p) = "FILE"
  <2>1. Settle(t, c, TRUE, "ALREADY_EXISTS")
    BY <1>3 DEF CreateFile, c
  <2>2. Promise(t, c)
    BY <1>1, <1>2, <1>3, TypesOf DEF Promise
  <2>3. QED
    BY <1>1, <1>2, <2>1, <2>2, SettledTrue DEF Codes
<1>4. CASE TypeOf(p) = "DIRECTORY"
  <2>1. Settle(t, c, FALSE, "NOT_FILE")
    BY <1>4 DEF CreateFile, c
  <2>2. QED
    BY <1>1, <1>2, <2>1, SettledFalse DEF Codes
<1>5. CASE TypeOf(p) = "NONEXISTENT"
  <2>1. Proceed(t, c)
    BY <1>5 DEF CreateFile, c
  <2>2. QED
    BY <1>1, <1>2, <2>1, ProceedFine
<1>6. QED
  BY <1>3, <1>4, <1>5, TypesOf

LEMMA DeleteFileFine ==
    ASSUME IInv, NEW t \in Thread, NEW p \in Path, DeleteFile(t, p)
    PROVE  Fine(t)
<1> DEFINE c == Call("delete_file", p, p, FALSE)
<1>1. c \in Calls /\ Underway(c) /\ c.op = "delete_file" /\ c.src = p /\ ~ c.touched
  <2>1. <<"delete_file", "delete_file">> \in Kinds
    BY DEF Kinds
  <2>2. c \in Calls /\ Underway(c) /\ c.op = "delete_file" /\ ~ c.touched
    BY <2>1, CallLooks
  <2>3. c.src = p
    BY DEF Call
  <2>4. QED
    BY <2>2, <2>3
<1>2. UNCHANGED tree
  BY DEF DeleteFile, Begin
<1> HIDE DEF c
<1>3. CASE TypeOf(p) = "FILE"
  <2>1. Proceed(t, c)
    BY <1>3 DEF DeleteFile, c
  <2>2. QED
    BY <1>1, <1>2, <2>1, ProceedFine
<1>4. CASE TypeOf(p) # "FILE"
  <2>1. Settle(t, c, FileError(p) = "NOT_FOUND", FileError(p))
    BY <1>4 DEF DeleteFile, c
  <2>2. FileError(p) \in Codes /\ FileError(p) # "SUCCESS"
    BY <1>4, TypesOf
  <2>3. CASE FileError(p) = "NOT_FOUND"
    <3>1. Promise(t, c)
      BY <1>1, <1>2, <2>3, TypesOf DEF Promise
    <3>2. (FileError(p) = "NOT_FOUND") = TRUE
      BY <2>3
    <3>3. Settle(t, c, TRUE, FileError(p))
      BY <2>1, <3>2
    <3>4. QED
      BY <1>1, <1>2, <2>2, <3>1, <3>3, SettledTrue
  <2>4. CASE FileError(p) # "NOT_FOUND"
    <3>1. (FileError(p) = "NOT_FOUND") = FALSE
      BY <2>4
    <3>2. Settle(t, c, FALSE, FileError(p))
      BY <2>1, <3>1
    <3>3. QED
      BY <1>1, <1>2, <2>2, <3>2, SettledFalse
  <2>5. QED
    BY <2>3, <2>4
<1>5. QED
  BY <1>3, <1>4

LEMMA TwoFilesFine ==
    ASSUME IInv, NEW t \in Thread, NEW src \in Path, NEW dest \in Path, NEW overwrite \in BOOLEAN,
           CopyFile(t, src, dest, overwrite) \/ RenameFile(t, src, dest, overwrite)
    PROVE  Fine(t)
<1>1. CASE CopyFile(t, src, dest, overwrite)
  <2> DEFINE c == [Call("copy_file", src, dest, overwrite) EXCEPT !.step = "copy_dest"]
  <2>1. Underway(c) /\ c.src = src /\ ~ c.touched
    <3>1. <<"copy_file", "copy_dest">> \in Kinds
      BY DEF Kinds
    <3>2. Underway(c) /\ ~ c.touched
      BY <3>1, CallAtTypes
    <3>3. c.src = src
      BY DEF Call
    <3>4. QED
      BY <3>2, <3>3
  <2> HIDE DEF c
  <2>3. UNCHANGED tree /\ IF TypeOf(src) # "FILE" THEN Settle(t, c, FALSE, FileError(src)) ELSE Proceed(t, c)
    BY <1>1 DEF CopyFile, Begin, c
  <2>4. QED
    BY <2>1, <2>3, LookForFile
<1>2. CASE RenameFile(t, src, dest, overwrite)
  <2> DEFINE c == [Call("rename_file", src, dest, overwrite) EXCEPT !.step = "rename_dest"]
  <2>1. Underway(c) /\ c.src = src /\ ~ c.touched
    <3>1. <<"rename_file", "rename_dest">> \in Kinds
      BY DEF Kinds
    <3>2. Underway(c) /\ ~ c.touched
      BY <3>1, CallAtTypes
    <3>3. c.src = src
      BY DEF Call
    <3>4. QED
      BY <3>2, <3>3
  <2> HIDE DEF c
  <2>3. UNCHANGED tree /\ IF TypeOf(src) # "FILE" THEN Settle(t, c, FALSE, FileError(src)) ELSE Proceed(t, c)
    BY <1>2 DEF RenameFile, Begin, c
  <2>4. QED
    BY <2>1, <2>3, LookForFile
<1>3. QED
  BY <1>1, <1>2

LEMMA TextFine ==
    ASSUME IInv, NEW t \in Thread, NEW p \in Path, NEW overwrite \in BOOLEAN,
           \/ WriteTextFile(t, p, overwrite)
           \/ ~ overwrite /\ (GetFileSize(t, p) \/ ReadTextFile(t, p))
    PROVE  Fine(t)
<1> DEFINE c(op) == Call(op, p, p, overwrite)
<1>1. ASSUME NEW op \in {"write_text_file", "get_file_size", "read_text_file"},
             UNCHANGED tree, IF TypeOf(p) # "FILE" THEN Settle(t, c(op), FALSE, FileError(p)) ELSE Proceed(t, c(op))
      PROVE  Fine(t)
  <2>1. Underway(c(op)) /\ c(op).src = p /\ ~ c(op).touched
    <3>1. <<op, op>> \in Kinds
      BY DEF Kinds
    <3>2. Underway(c(op)) /\ ~ c(op).touched
      BY <3>1, CallTypes
    <3>3. c(op).src = p
      BY DEF Call
    <3>4. QED
      BY <3>2, <3>3
  <2> HIDE DEF c
  <2>2. QED
    BY <1>1, <2>1, LookForFile
<1>2. CASE WriteTextFile(t, p, overwrite)
  BY <1>1, <1>2 DEF WriteTextFile, Begin
<1>3. CASE ~ overwrite /\ GetFileSize(t, p)
  <2>1. overwrite = FALSE
    BY <1>3
  <2>2. QED
    BY <1>1, <1>3, <2>1 DEF GetFileSize, Begin
<1>4. CASE ~ overwrite /\ ReadTextFile(t, p)
  <2>1. overwrite = FALSE
    BY <1>4
  <2>2. QED
    BY <1>1, <1>4, <2>1 DEF ReadTextFile, Begin
<1>5. QED
  BY <1>2, <1>3, <1>4

LEMMA GetFileInfoFine ==
    ASSUME IInv, NEW t \in Thread, NEW p \in Path, GetFileInfo(t, p)
    PROVE  Fine(t)
<1> DEFINE c(step) == [Call("get_file_info", p, p, FALSE) EXCEPT !.step = step]
<1>1. ASSUME NEW step \in {"info_size", "info_time"}, UNCHANGED tree,
             Settle(t, c(step), TRUE, "NOT_FOUND") \/ Proceed(t, c(step))
      PROVE  Fine(t)
  <2>1. c(step) \in Calls /\ Underway(c(step)) /\ c(step).op = "get_file_info" /\ ~ c(step).touched
    <3>1. <<"get_file_info", step>> \in Kinds
      BY DEF Kinds
    <3>2. QED
      BY <3>1, CallAtLooks
  <2> HIDE DEF c
  <2>2. Promise(t, c(step))
    BY <2>1 DEF Promise
  <2>3. QED
    BY <1>1, <2>1, <2>2, SettledTrue, ProceedFine DEF Codes
<1>3. CASE TypeOf(p) = "FILE"
  BY <1>1, <1>3 DEF GetFileInfo, Begin
<1>4. CASE TypeOf(p) # "FILE"
  BY <1>1, <1>4 DEF GetFileInfo, Begin
<1>5. QED
  BY <1>3, <1>4

LEMMA CreateDirFine ==
    ASSUME IInv, NEW t \in Thread, NEW p \in Path, NEW recursive \in BOOLEAN, CreateDir(t, p, recursive)
    PROVE  Fine(t)
<1> DEFINE s == IF recursive THEN "mkdir_parent" ELSE "mkdir"
           c == [Call("create_dir", p, p, recursive) EXCEPT !.step = s]
<1>1. c \in Calls /\ Underway(c) /\ c.op = "create_dir" /\ c.src = p /\ ~ c.touched
  <2>1. <<"create_dir", s>> \in Kinds
    BY DEF Kinds
  <2> HIDE DEF s
  <2>2. c \in Calls /\ Underway(c) /\ c.op = "create_dir" /\ ~ c.touched
    BY <2>1, CallAtTypes
  <2>3. c.src = p
    BY DEF Call
  <2>4. QED
    BY <2>2, <2>3
<1>2. UNCHANGED tree
  BY DEF CreateDir, Begin
<1> HIDE DEF c
<1>3. CASE TypeOf(p) = "DIRECTORY"
  <2>1. Settle(t, c, TRUE, "ALREADY_EXISTS")
    BY <1>3 DEF CreateDir, c
  <2>2. Promise(t, c)
    BY <1>1, <1>2, <1>3, TypesOf DEF Promise
  <2>3. QED
    BY <1>1, <1>2, <2>1, <2>2, SettledTrue DEF Codes
<1>4. CASE TypeOf(p) = "FILE"
  <2>1. Settle(t, c, FALSE, "NOT_DIRECTORY")
    BY <1>4 DEF CreateDir, c
  <2>2. QED
    BY <1>1, <1>2, <2>1, SettledFalse DEF Codes
<1>5. CASE TypeOf(p) = "NONEXISTENT"
  <2>1. Proceed(t, c)
    BY <1>5 DEF CreateDir, c
  <2>2. QED
    BY <1>1, <1>2, <2>1, ProceedFine
<1>6. QED
  BY <1>3, <1>4, <1>5, TypesOf

LEMMA DeleteDirFine ==
    ASSUME IInv, NEW t \in Thread, NEW p \in Path, NEW recursive \in BOOLEAN, DeleteDir(t, p, recursive)
    PROVE  Fine(t)
<1> DEFINE s == IF recursive THEN "remove_all" ELSE "rmdir"
           c == [Call("delete_dir", p, p, recursive) EXCEPT !.step = s]
<1>1. c \in Calls /\ Underway(c) /\ c.op = "delete_dir" /\ c.src = p /\ ~ c.touched
  <2>1. <<"delete_dir", s>> \in Kinds
    BY DEF Kinds
  <2> HIDE DEF s
  <2>2. c \in Calls /\ Underway(c) /\ c.op = "delete_dir" /\ ~ c.touched
    BY <2>1, CallAtTypes
  <2>3. c.src = p
    BY DEF Call
  <2>4. QED
    BY <2>2, <2>3
<1>2. UNCHANGED tree
  BY DEF DeleteDir, Begin
<1> HIDE DEF c
<1>3. CASE TypeOf(p) = "DIRECTORY"
  <2>1. Proceed(t, c)
    BY <1>3 DEF DeleteDir, c
  <2>2. QED
    BY <1>1, <1>2, <2>1, ProceedFine
<1>4. CASE TypeOf(p) # "DIRECTORY"
  <2>1. Settle(t, c, DirError(p) = "NOT_FOUND", DirError(p))
    BY <1>4 DEF DeleteDir, c
  <2>2. DirError(p) \in Codes /\ DirError(p) # "SUCCESS"
    BY <1>4, TypesOf
  <2>3. CASE DirError(p) = "NOT_FOUND"
    <3>1. Promise(t, c)
      BY <1>1, <1>2, <2>3, TypesOf DEF Promise
    <3>2. (DirError(p) = "NOT_FOUND") = TRUE
      BY <2>3
    <3>3. Settle(t, c, TRUE, DirError(p))
      BY <2>1, <3>2
    <3>4. QED
      BY <1>1, <1>2, <2>2, <3>1, <3>3, SettledTrue
  <2>4. CASE DirError(p) # "NOT_FOUND"
    <3>1. (DirError(p) = "NOT_FOUND") = FALSE
      BY <2>4
    <3>2. Settle(t, c, FALSE, DirError(p))
      BY <2>1, <3>1
    <3>3. QED
      BY <1>1, <1>2, <2>2, <3>2, SettledFalse
  <2>5. QED
    BY <2>3, <2>4
<1>5. QED
  BY <1>3, <1>4

\* Whichever operation begins, its look goes on or ends it as it should.
LEMMA LookFine ==
    ASSUME IInv, NEW t \in Thread, Look(t)
    PROVE  Fine(t)
<1>1. CASE \E p \in FileArg : CreateFile(t, p) \/ DeleteFile(t, p) \/ GetFileSize(t, p)
                                \/ ReadTextFile(t, p) \/ GetFileInfo(t, p)
  <2>1. PICK p \in Path : CreateFile(t, p) \/ DeleteFile(t, p) \/ GetFileSize(t, p)
                            \/ ReadTextFile(t, p) \/ GetFileInfo(t, p)
    BY <1>1, TreeAssumption
  <2>2. PICK overwrite \in BOOLEAN : ~ overwrite
    OBVIOUS
  <2>3. QED
    BY <2>1, <2>2, CreateFileFine, DeleteFileFine, TextFine, GetFileInfoFine
<1>2. CASE \E p \in FileArg, overwrite \in BOOLEAN : WriteTextFile(t, p, overwrite)
  BY <1>2, TreeAssumption, TextFine
<1>3. CASE \E src, dest \in FileArg, overwrite \in BOOLEAN :
              CopyFile(t, src, dest, overwrite) \/ RenameFile(t, src, dest, overwrite)
  BY <1>3, TreeAssumption, TwoFilesFine
<1>4. CASE \E p \in DirArg, recursive \in BOOLEAN : CreateDir(t, p, recursive) \/ DeleteDir(t, p, recursive)
  BY <1>4, TreeAssumption, CreateDirFine, DeleteDirFine
<1>5. QED
  BY <1>1, <1>2, <1>3, <1>4 DEF Look

------------------------------------------------------------------------------
(* The acts.  c is the call as it stands before the act.                     *)

LEMMA AtStep ==
    ASSUME IInv, NEW t \in Thread, NEW step, At(t, step), NEW c, c = at[t]
    PROVE  /\ Underway(c) /\ c \in Calls /\ c.src \in Path /\ c.dest \in Path /\ c.overwrite \in BOOLEAN
           /\ <<c.op, step>> \in Kinds
<1>1. Underway(c) /\ c.step = step
  BY DEF IInv, At
<1>2. QED
  BY <1>1 DEF Underway, Calls

\* It says yes and leaves the tree as it is, or not.
LEMMA ReturnTrue ==
    ASSUME IInv, NEW t \in Thread, NEW c, c = at[t], Underway(c), tree' \in [Path -> Entries],
           NEW code \in Codes, NEW size \in Int, Answer(t, at[t], TRUE, code, size), Promise(t, c)
    PROVE  Fine(t)
<1>1. c \in Calls /\ Answer(t, c, TRUE, code, size)
  BY DEF Underway
<1>2. Ends(t)
  BY <1>1, SaysTrue
<1>3. QED
  BY <1>2 DEF Fine

LEMMA TouchTrue ==
    ASSUME IInv, NEW t \in Thread, NEW c, c = at[t], Underway(c), tree' \in [Path -> Entries],
           Touching(t, TRUE, "SUCCESS"), Promise(t, c)
    PROVE  Fine(t)
<1> DEFINE d == [c EXCEPT !.touched = TRUE]
<1>1. d \in Calls /\ d.op = c.op /\ d.src = c.src /\ d.dest = c.dest /\ d.lost = c.lost
  BY DEF Underway, Calls
<1>2. Answer(t, d, TRUE, "SUCCESS", 0)
  BY DEF Touching
<1> HIDE DEF d
<1>3. Promise(t, d)
  BY <1>1 DEF Promise
<1>4. Ends(t)
  <2>1. 0 \in Int /\ "SUCCESS" \in Codes
    BY DEF Codes
  <2>2. QED
    BY <1>1, <1>2, <1>3, <2>1, SaysTrue
<1>5. QED
  BY <1>4 DEF Fine

\* It says no.
LEMMA ReturnFalse ==
    ASSUME IInv, NEW t \in Thread, NEW c, c = at[t], Underway(c), UNCHANGED tree,
           NEW code \in Codes, code # "SUCCESS", NEW size \in Int, Answer(t, at[t], FALSE, code, size)
    PROVE  Fine(t)
<1>1. c \in Calls /\ (c.op \in OneStep => ~ c.touched) /\ Answer(t, c, FALSE, code, size)
  BY DEF Underway
<1>2. Ends(t)
  BY <1>1, SaysFalse
<1>3. QED
  BY <1>2 DEF IInv, Fine

LEMMA ThrowFine ==
    ASSUME IInv, NEW t \in Thread, NEW c, c = at[t], Underway(c), Throw(t)
    PROVE  Fine(t)
<1>1. "EXCEPTION" \in Codes /\ "EXCEPTION" # "SUCCESS" /\ 0 \in Int
  BY DEF Codes
<1>2. Answer(t, at[t], FALSE, "EXCEPTION", 0) /\ UNCHANGED tree
  BY DEF Throw, Return
<1>3. QED
  BY <1>1, <1>2, ReturnFalse

\* It says no though it has changed something: not one of a single step.
LEMMA TouchFalse ==
    ASSUME IInv, NEW t \in Thread, NEW c, c = at[t], Underway(c), c.op \notin OneStep, tree' \in [Path -> Entries],
           NEW code \in Codes, code # "SUCCESS", Touching(t, FALSE, code)
    PROVE  Fine(t)
<1> DEFINE d == [c EXCEPT !.touched = TRUE]
<1>1. d \in Calls /\ d.op = c.op
  BY DEF Underway, Calls
<1>2. Answer(t, d, FALSE, code, 0)
  BY DEF Touching
<1> HIDE DEF d
<1>3. Ends(t)
  <2>1. 0 \in Int
    OBVIOUS
  <2>2. QED
    BY <1>1, <1>2, <2>1, SaysFalse
<1>4. QED
  BY <1>3 DEF Fine

\* It goes to another step of its operation.
LEMMA GotoFine ==
    ASSUME IInv, NEW t \in Thread, NEW c, c = at[t], Underway(c), UNCHANGED tree,
           NEW step, <<c.op, step>> \in Kinds, Goto(t, step)
    PROVE  Fine(t)
<1> DEFINE d == [c EXCEPT !.step = step]
<1>1. Underway(d)
  <2>1. step \in Steps
    BY DEF Kinds, Steps, Operations
  <2>2. d \in Calls /\ d.op = c.op /\ d.step = step /\ d.touched = c.touched
    BY <2>1 DEF Underway, Calls
  <2>3. QED
    BY <2>2 DEF Underway
<1>2. at' = [at EXCEPT ![t] = d] /\ result' = result
  BY DEF Goto, IInv
<1> HIDE DEF d
<1>3. QED
  BY <1>1, <1>2 DEF IInv, Fine, GoesOn

LEMMA OpenToCreateFine ==
    ASSUME IInv, NEW t \in Thread, OpenToCreate(t)
    PROVE  Fine(t)
<1> PICK c : c = at[t]
  OBVIOUS
<1>1. Underway(c) /\ c.src \in Path /\ c.op = "create_file"
  <2>1. At(t, "create_file")
    BY DEF OpenToCreate
  <2>2. QED
    BY <2>1, AtStep DEF Kinds
<1>2. CASE Refused(t)
  BY <1>1, <1>2, RefusedFine
<1>3. CASE \/ ~ HasParent(c.src) /\ Fail(t, "ENOENT")
           \/ HasParent(c.src) /\ TypeOf(c.src) = "DIRECTORY" /\ Fail(t, "EISDIR")
  BY <1>1, <1>3, FailFine DEF Errnos
<1>4. CASE TypeOf(c.src) = "FILE" /\ Return(t, TRUE, "SUCCESS") /\ UNCHANGED tree
  <2>1. Promise(t, c)
    BY <1>1, <1>4, TypesOf DEF Promise
  <2>2. Answer(t, at[t], TRUE, "SUCCESS", 0)
    BY <1>4 DEF Return
  <2>3. "SUCCESS" \in Codes /\ 0 \in Int /\ tree' \in [Path -> Entries]
    BY <1>4 DEF Codes, IInv
  <2>4. QED
    BY <1>1, <2>1, <2>2, <2>3, ReturnTrue
<1>5. CASE TypeOf(c.src) = "NONEXISTENT" /\ Put(c.src, File(<<>>)) /\ Touching(t, TRUE, "SUCCESS")
  <2>1. File(<<>>) \in Entries
    <3>1. <<>> \in Seq(Thread)
      OBVIOUS
    <3>2. QED
      BY <3>1, EntryTypes
  <2>2. tree' \in [Path -> Entries] /\ tree'[c.src] = File(<<>>)
    BY <1>1, <1>5, <2>1, PutEntry
  <2>3. Promise(t, c)
    <3>1. tree[c.src].type # "FILE"
      BY <1>1, <1>5, TypesOf
    <3>2. QED
      BY <1>1, <2>2, <3>1 DEF Promise
  <2>4. QED
    BY <1>1, <1>5, <2>2, <2>3, TouchTrue
<1>6. QED
  <2>1. CASE ~ HasParent(c.src)
    BY <1>2, <1>3, <2>1 DEF OpenToCreate
  <2>2. CASE HasParent(c.src) /\ TypeOf(c.src) = "DIRECTORY"
    BY <1>2, <1>3, <2>2 DEF OpenToCreate
  <2>3. CASE HasParent(c.src) /\ TypeOf(c.src) = "FILE"
    BY <1>2, <1>4, <2>3 DEF OpenToCreate
  <2>4. CASE HasParent(c.src) /\ TypeOf(c.src) = "NONEXISTENT"
    BY <1>2, <1>5, <2>4 DEF OpenToCreate
  <2>5. QED
    BY <1>1, <2>1, <2>2, <2>3, <2>4, TypesOf

LEMMA RemoveFileFine ==
    ASSUME IInv, NEW t \in Thread, RemoveFile(t)
    PROVE  Fine(t)
<1> PICK c : c = at[t]
  OBVIOUS
<1>1. Underway(c) /\ c.src \in Path /\ c.op = "delete_file"
  <2>1. At(t, "delete_file")
    BY DEF RemoveFile
  <2>2. QED
    BY <2>1, AtStep DEF Kinds
<1>2. CASE Refused(t)
  BY <1>1, <1>2, RefusedFine
<1>3. CASE Fail(t, "ENOENT")
  BY <1>1, <1>3, FailFine DEF Errnos
<1>4. CASE Put(c.src, Nothing) /\ Touching(t, TRUE, "SUCCESS")
  <2>1. tree' \in [Path -> Entries] /\ tree'[c.src].type = "NONEXISTENT"
    BY <1>1, <1>4, EntryTypes, PutEntry
  <2>2. Promise(t, c)
    BY <1>1, <2>1 DEF Promise
  <2>3. QED
    BY <1>1, <1>4, <2>1, <2>2, TouchTrue
<1>5. QED
  BY <1>2, <1>3, <1>4 DEF RemoveFile

\* The looks at dest.
LEMMA LookAtDestFine ==
    ASSUME IInv, NEW t \in Thread, CopyLookAtDest(t) \/ RenameLookAtDest(t)
    PROVE  Fine(t)
<1> PICK c : c = at[t]
  OBVIOUS
<1>1. Underway(c) /\ UNCHANGED tree /\ c.dest \in Path
  <2>1. At(t, "copy_dest") \/ At(t, "rename_dest")
    BY DEF CopyLookAtDest, RenameLookAtDest
  <2>2. QED
    BY <2>1, AtStep DEF CopyLookAtDest, RenameLookAtDest
<1>2. ASSUME NEW code \in {"NOT_FILE", "ALREADY_EXISTS"}, Return(t, FALSE, code)
      PROVE  Fine(t)
  <2>1. code \in Codes /\ code # "SUCCESS" /\ 0 \in Int
    BY DEF Codes
  <2>2. Answer(t, at[t], FALSE, code, 0)
    BY <1>2 DEF Return
  <2>3. QED
    BY <1>1, <2>1, <2>2, ReturnFalse
<1>3. CASE CopyLookAtDest(t)
  <2>1. <<c.op, "copy_dest">> \in Kinds
    BY <1>3, AtStep DEF CopyLookAtDest
  <2>2. <<c.op, "copy_file">> \in Kinds
    BY <2>1 DEF Kinds
  <2>3. Return(t, FALSE, "NOT_FILE") \/ Goto(t, "copy_file")
    BY <1>3 DEF CopyLookAtDest
  <2>4. QED
    BY <1>1, <1>2, <2>2, <2>3, GotoFine
<1>4. CASE RenameLookAtDest(t)
  <2>1. <<c.op, "rename_dest">> \in Kinds
    BY <1>4, AtStep DEF RenameLookAtDest
  <2>2. <<c.op, "rename_file">> \in Kinds
    BY <2>1 DEF Kinds
  <2>3. Return(t, FALSE, "NOT_FILE") \/ Return(t, FALSE, "ALREADY_EXISTS") \/ Goto(t, "rename_file")
    BY <1>4 DEF RenameLookAtDest
  <2>4. QED
    BY <1>1, <1>2, <2>2, <2>3, GotoFine
<1>5. QED
  BY <1>3, <1>4

\* fs::copy_file, whole or broken off: dest then holds the beginning of src.
LEMMA CopyFine ==
    ASSUME IInv, NEW t \in Thread, Copy(t)
    PROVE  Fine(t)
<1> PICK c : c = at[t]
  OBVIOUS
<1>1. Underway(c) /\ c.src \in Path /\ c.dest \in Path /\ c.op = "copy_file"
  <2>1. At(t, "copy_file")
    BY DEF Copy
  <2>2. QED
    BY <2>1, AtStep DEF Kinds
<1>2. CASE Refused(t)
  BY <1>1, <1>2, RefusedFine
<1>3. ASSUME NEW e \in {"ENOENT", "EINVAL", "EEXIST"}, Fail(t, e)
      PROVE  Fine(t)
  BY <1>1, <1>3, FailFine DEF Errnos
<1>4. ASSUME TypeOf(c.src) = "FILE", c.src # c.dest,
             Put(c.dest, tree[c.src]), Touching(t, TRUE, "SUCCESS")
      PROVE  Fine(t)
  <2>1. tree[c.src] \in Entries /\ tree[c.src].type = "FILE"
    BY <1>1, <1>4, TypesOf
  <2>2. tree' \in [Path -> Entries] /\ tree'[c.dest] = tree[c.src] /\ tree'[c.src] = tree[c.src]
    BY <1>1, <1>4, <2>1, PutEntry
  <2>3. Promise(t, c)
    BY <1>1, <2>1, <2>2 DEF Promise
  <2>4. QED
    BY <1>1, <1>4, <2>2, <2>3, TouchTrue
<1>5. ASSUME NEW n \in 0..Len(tree[c.src].text),
             Put(c.dest, File(SubSeq(tree[c.src].text, 1, n))), Touching(t, FALSE, CodeOf("generic", "EIO"))
      PROVE  Fine(t)
  <2>1. SubSeq(tree[c.src].text, 1, n) \in Seq(Thread)
    <3>1. tree[c.src].text \in Seq(Thread) /\ Len(tree[c.src].text) \in Nat
      BY <1>1, TypesOf
    <3>2. \A i \in 1..n : tree[c.src].text[i] \in Thread
      BY <1>5, <3>1
    <3>3. QED
      BY <1>5, <3>1, <3>2, SubSeqProperties
  <2>2. tree' \in [Path -> Entries]
    BY <1>1, <1>5, <2>1, EntryTypes, PutEntry
  <2>3. CodeOf("generic", "EIO") \in Codes /\ CodeOf("generic", "EIO") # "SUCCESS"
    BY CodesAre DEF Errnos
  <2>4. c.op \notin OneStep
    BY <1>1 DEF OneStep
  <2>5. PICK code \in Codes : code = CodeOf("generic", "EIO")
    BY <2>3
  <2>6. QED
    BY <1>1, <1>5, <2>2, <2>3, <2>4, <2>5, TouchFalse
<1>6. CASE /\ Settled
           /\ CASE TypeOf(c.src) = "NONEXISTENT" \/ ~HasParent(c.dest) -> Fail(t, "ENOENT")
                [] TypeOf(c.src) = "DIRECTORY" \/ TypeOf(c.dest) = "DIRECTORY" -> Fail(t, "EINVAL")
                [] OTHER -> IF c.src = c.dest \/ (TypeOf(c.dest) = "FILE" /\ ~c.overwrite) THEN Fail(t, "EEXIST")
                            ELSE Put(c.dest, tree[c.src]) /\ Touching(t, TRUE, "SUCCESS")
  <2>1. CASE TypeOf(c.src) = "NONEXISTENT" \/ ~HasParent(c.dest)
    <3>1. Fail(t, "ENOENT") \/ Fail(t, "EINVAL")
      BY <1>6, <2>1
    <3>2. QED
      BY <1>3, <3>1
  <2>2. CASE /\ ~ (TypeOf(c.src) = "NONEXISTENT" \/ ~HasParent(c.dest))
             /\ TypeOf(c.src) = "DIRECTORY" \/ TypeOf(c.dest) = "DIRECTORY"
    BY <1>3, <1>6, <2>2
  <2>3. CASE /\ ~ (TypeOf(c.src) = "NONEXISTENT" \/ ~HasParent(c.dest))
             /\ ~ (TypeOf(c.src) = "DIRECTORY" \/ TypeOf(c.dest) = "DIRECTORY")
    <3>1. IF c.src = c.dest \/ (TypeOf(c.dest) = "FILE" /\ ~c.overwrite) THEN Fail(t, "EEXIST")
          ELSE Put(c.dest, tree[c.src]) /\ Touching(t, TRUE, "SUCCESS")
      BY <1>6, <2>3
    <3>2. TypeOf(c.src) = "FILE"
      BY <1>1, <2>3, TypesOf
    <3>3. QED
      BY <1>3, <1>4, <3>1, <3>2
  <2>4. QED
    BY <2>1, <2>2, <2>3
<1>7. QED
  <2>1. CASE /\ BreaksOff
             /\ \E n \in 0..Len(tree[c.src].text) : Put(c.dest, File(SubSeq(tree[c.src].text, 1, n)))
             /\ Touching(t, FALSE, CodeOf("generic", "EIO"))
    BY <1>5, <2>1
  <2>2. QED
    BY <1>2, <1>6, <2>1 DEF Copy

\* fs::rename, of whatever src names now.
LEMMA RenameFine ==
    ASSUME IInv, NEW t \in Thread, Rename(t)
    PROVE  Fine(t)
<1> PICK c : c = at[t]
  OBVIOUS
<1>1. Underway(c) /\ c.src \in Path /\ c.dest \in Path /\ c.op = "rename_file"
  <2>1. At(t, "rename_file")
    BY DEF Rename
  <2>2. QED
    BY <2>1, AtStep DEF Kinds
<1>2. CASE Refused(t)
  BY <1>1, <1>2, RefusedFine
<1>3. CASE Fail(t, "ENOENT") \/ Fail(t, "EISDIR") \/ Fail(t, "ENOTDIR")
  BY <1>1, <1>3, FailFine DEF Errnos
<1>4. CASE /\ TypeOf(c.src) # "NONEXISTENT"
           /\ tree' = IF c.src = c.dest THEN tree ELSE [tree EXCEPT ![c.dest] = tree[c.src], ![c.src] = Nothing]
           /\ Touching(t, TRUE, "SUCCESS")
  <2>1. tree[c.src] \in Entries /\ tree[c.src].type # "NONEXISTENT" /\ Nothing \in Entries
    BY <1>1, <1>4, TypesOf, EntryTypes
  <2>2. tree' \in [Path -> Entries] /\ tree'[c.dest] = tree[c.src] /\ (c.src # c.dest => tree'[c.src] = Nothing)
    BY <1>1, <1>4, <2>1 DEF IInv
  <2>3. Promise(t, c)
    BY <1>1, <2>1, <2>2 DEF Promise
  <2>4. QED
    BY <1>1, <1>4, <2>2, <2>3, TouchTrue
<1>5. QED
  <2>1. CASE TypeOf(c.src) = "NONEXISTENT" \/ ~HasParent(c.dest)
    BY <1>1, <1>2, <1>3, <2>1, TypesOf DEF Rename
  <2>2. CASE ~ (TypeOf(c.src) = "NONEXISTENT" \/ ~HasParent(c.dest))
    BY <1>2, <1>3, <1>4, <2>2 DEF Rename
  <2>3. QED
    BY <2>1, <2>2

\* The write, whole or broken off; what close() leaves undone still says yes.
LEMMA WriteFine ==
    ASSUME IInv, NEW t \in Thread, Write(t)
    PROVE  Fine(t)
<1> PICK c : c = at[t]
  OBVIOUS
<1>1. Underway(c) /\ c.src \in Path /\ c.overwrite \in BOOLEAN /\ c.op = "write_text_file"
  <2>1. At(t, "write_text_file")
    BY DEF Write
  <2>2. QED
    BY <2>1, AtStep DEF Kinds
<1>2. tree[c.src].text \in Seq(Thread)
  BY <1>1, TypesOf
<1>3. CASE Refused(t)
  BY <1>1, <1>3, RefusedFine
<1>4. CASE Fail(t, "ENOENT") \/ Fail(t, "EISDIR")
  BY <1>1, <1>4, FailFine DEF Errnos
<1>5. ASSUME NEW text \in Seq(Thread), Put(c.src, File(text))
      PROVE  tree' \in [Path -> Entries] /\ tree'[c.src].type = "FILE" /\ tree'[c.src].text = text
  BY <1>1, <1>5, EntryTypes, PutEntry DEF File
<1>6. CASE /\ Put(c.src, File(IF c.overwrite THEN <<t>> ELSE Append(tree[c.src].text, t)))
           /\ Touching(t, TRUE, "SUCCESS")
  <2> DEFINE text == IF c.overwrite THEN <<t>> ELSE Append(tree[c.src].text, t)
  <2>1. text \in Seq(Thread) /\ text \in {<<t>>, Append(tree[c.src].text, t)}
    BY <1>1, <1>2
  <2>2. Put(c.src, File(text))
    BY <1>6
  <2> HIDE DEF text
  <2>3. tree' \in [Path -> Entries] /\ tree'[c.src].type = "FILE" /\ tree'[c.src].text = text
    BY <1>5, <2>1, <2>2
  <2>4. Promise(t, c)
    BY <1>1, <2>1, <2>3 DEF Promise
  <2>5. QED
    BY <1>1, <1>6, <2>3, <2>4, TouchTrue
<1>7. CASE /\ Put(c.src, IF c.overwrite THEN File(<<>>) ELSE File(tree[c.src].text))
           /\ \/ \E errno \in {"EIO", "ENOSPC"} : Touching(t, FALSE, CodeOf("system", errno))
              \/ Answer(t, [at[t] EXCEPT !.touched = TRUE, !.lost = TRUE], TRUE, "SUCCESS", 0)
  <2>1. tree' \in [Path -> Entries] /\ tree'[c.src].type = "FILE"
    <3>1. <<>> \in Seq(Thread)
      OBVIOUS
    <3>2. CASE c.overwrite
      <4>1. Put(c.src, File(<<>>))
        BY <1>7, <3>2
      <4>2. QED
        BY <1>5, <3>1, <4>1
    <3>3. CASE ~ c.overwrite
      <4>1. Put(c.src, File(tree[c.src].text))
        BY <1>7, <3>3
      <4>2. PICK text \in Seq(Thread) : text = tree[c.src].text
        BY <1>2
      <4>3. QED
        BY <1>5, <4>1, <4>2
    <3>4. QED
      BY <3>2, <3>3
  <2>2. CASE \E errno \in {"EIO", "ENOSPC"} : Touching(t, FALSE, CodeOf("system", errno))
    <3>1. PICK errno \in {"EIO", "ENOSPC"} : Touching(t, FALSE, CodeOf("system", errno))
      BY <2>2
    <3>2. PICK code \in Codes : code = CodeOf("system", errno) /\ code # "SUCCESS"
      BY <3>1, CodesAre
    <3>3. c.op \notin OneStep /\ Touching(t, FALSE, code)
      BY <1>1, <3>1, <3>2 DEF OneStep
    <3>4. QED
      BY <1>1, <2>1, <3>2, <3>3, TouchFalse
  <2>3. CASE Answer(t, [at[t] EXCEPT !.touched = TRUE, !.lost = TRUE], TRUE, "SUCCESS", 0)
    <3> DEFINE d == [c EXCEPT !.touched = TRUE, !.lost = TRUE]
    <3>1. d \in Calls /\ d.op = "write_text_file" /\ d.src = c.src /\ d.lost
      BY <1>1 DEF Underway, Calls
    <3>2. Answer(t, d, TRUE, "SUCCESS", 0)
      BY <2>3
    <3> HIDE DEF d
    <3>3. Promise(t, d)
      BY <2>1, <3>1 DEF Promise
    <3>4. Ends(t)
      <4>1. 0 \in Int /\ "SUCCESS" \in Codes
        BY DEF Codes
      <4>2. QED
        BY <3>1, <3>2, <3>3, <4>1, SaysTrue
    <3>5. QED
      BY <2>1, <3>4 DEF Fine
  <2>4. QED
    BY <1>7, <2>2, <2>3
<1>8. QED
  <2>1. CASE ~ HasParent(c.src)
    BY <1>3, <1>4, <1>7, <2>1 DEF Write
  <2>2. CASE HasParent(c.src) /\ TypeOf(c.src) = "DIRECTORY"
    BY <1>3, <1>4, <1>7, <2>2 DEF Write
  <2>3. CASE HasParent(c.src) /\ TypeOf(c.src) # "DIRECTORY"
    BY <1>3, <1>6, <1>7, <2>3 DEF Write
  <2>4. QED
    BY <2>1, <2>2, <2>3

\* The operations that only read.
LEMMA SizeFine ==
    ASSUME IInv, NEW t \in Thread, Size(t)
    PROVE  Fine(t)
<1> PICK c : c = at[t]
  OBVIOUS
<1>1. Underway(c) /\ c.src \in Path /\ c.op = "get_file_size" /\ UNCHANGED tree
  <2>1. At(t, "get_file_size") /\ UNCHANGED tree
    BY DEF Size
  <2>2. QED
    BY <2>1, AtStep DEF Kinds
<1>2. tree' \in [Path -> Entries] /\ Promise(t, c) /\ Len(tree[c.src].text) \in Int /\ "SUCCESS" \in Codes
  <2>1. tree[c.src].text \in Seq(Thread)
    BY <1>1, TypesOf
  <2>2. Promise(t, c)
    BY <1>1 DEF Promise
  <2>3. QED
    BY <1>1, <2>1, <2>2 DEF IInv, Codes
<1>3. CASE Answer(t, at[t], TRUE, "SUCCESS", Len(tree[c.src].text))
  <2>1. PICK n \in Int : n = Len(tree[c.src].text)
    BY <1>2
  <2>2. QED
    BY <1>1, <1>2, <1>3, <2>1, ReturnTrue
<1>4. ASSUME NEW errno \in {"EISDIR", "ENOENT"}, Answer(t, at[t], FALSE, CodeOf("generic", errno), Huge)
      PROVE  Fine(t)
  <2>1. Huge \in Int
    BY DEF Huge
  <2>2. CodeOf("generic", errno) \in Codes /\ CodeOf("generic", errno) # "SUCCESS"
    BY CodesAre DEF Errnos
  <2>3. QED
    BY <1>1, <1>4, <2>1, <2>2, ReturnFalse
<1>5. QED
  BY <1>3, <1>4 DEF Size

LEMMA ReadTextFine ==
    ASSUME IInv, NEW t \in Thread, ReadText(t)
    PROVE  Fine(t)
<1> PICK c : c = at[t]
  OBVIOUS
<1>1. Underway(c) /\ c.src \in Path /\ c.op = "read_text_file"
  <2>1. At(t, "read_text_file")
    BY DEF ReadText
  <2>2. QED
    BY <2>1, AtStep DEF Kinds
<1>2. CASE Refused(t)
  BY <1>1, <1>2, RefusedFine
<1>3. CASE Fail(t, "ENOENT")
  BY <1>1, <1>3, FailFine DEF Errnos
<1>4. CASE Throw(t)
  BY <1>1, <1>4, ThrowFine
<1>5. CASE Answer(t, at[t], TRUE, "SUCCESS", Len(tree[c.src].text)) /\ UNCHANGED tree
  <2>1. tree[c.src].text \in Seq(Thread)
    BY <1>1, TypesOf
  <2>2. PICK n \in Int : n = Len(tree[c.src].text)
    BY <2>1
  <2>3. Promise(t, c)
    BY <1>1 DEF Promise
  <2>4. tree' \in [Path -> Entries] /\ "SUCCESS" \in Codes
    BY <1>5 DEF IInv, Codes
  <2>5. QED
    BY <1>1, <1>5, <2>2, <2>3, <2>4, ReturnTrue
<1>6. QED
  BY <1>2, <1>3, <1>4, <1>5 DEF ReadText

LEMMA InfoFine ==
    ASSUME IInv, NEW t \in Thread, InfoSize(t) \/ ModifyTime(t)
    PROVE  Fine(t)
<1> PICK c : c = at[t]
  OBVIOUS
<1>1. Underway(c) /\ c.op = "get_file_info"
  <2>1. At(t, "info_size") \/ At(t, "info_time")
    BY DEF InfoSize, ModifyTime
  <2>2. QED
    BY <2>1, AtStep DEF Kinds
<1>2. CASE Throw(t)
  BY <1>1, <1>2, ThrowFine
<1>3. CASE Goto(t, "info_time") /\ UNCHANGED tree
  <2>1. <<c.op, "info_time">> \in Kinds
    BY <1>1 DEF Kinds
  <2>2. QED
    BY <1>1, <1>3, <2>1, GotoFine
<1>4. CASE Return(t, TRUE, "SUCCESS") /\ UNCHANGED tree
  <2>1. Promise(t, c)
    BY <1>1 DEF Promise
  <2>2. Answer(t, at[t], TRUE, "SUCCESS", 0)
    BY <1>4 DEF Return
  <2>3. "SUCCESS" \in Codes /\ 0 \in Int /\ tree' \in [Path -> Entries]
    BY <1>4 DEF Codes, IInv
  <2>4. QED
    BY <1>1, <2>1, <2>2, <2>3, ReturnTrue
<1>5. QED
  BY <1>2, <1>3, <1>4 DEF InfoSize, ModifyTime

\* The directories, from the parent down, and an entry after the other.
LEMMA MakeParentFine ==
    ASSUME IInv, NEW t \in Thread, MakeParent(t)
    PROVE  Fine(t)
<1> PICK c : c = at[t]
  OBVIOUS
<1>1. Underway(c) /\ c.src \in Path /\ c.op = "create_dir"
  <2>1. At(t, "mkdir_parent")
    BY DEF MakeParent
  <2>2. QED
    BY <2>1, AtStep DEF Kinds
<1>2. CASE Refused(t)
  BY <1>1, <1>2, RefusedFine
<1>3. CASE Goto(t, "mkdir") /\ UNCHANGED tree
  <2>1. <<c.op, "mkdir">> \in Kinds
    BY <1>1 DEF Kinds
  <2>2. QED
    BY <1>1, <1>3, <2>1, GotoFine
<1>4. CASE /\ TypeOf(Parent[c.src]) = "NONEXISTENT"
           /\ Put(Parent[c.src], Directory)
           /\ at' = [at EXCEPT ![t].step = "mkdir", ![t].touched = TRUE]
           /\ UNCHANGED result
  <2> DEFINE d == [c EXCEPT !.step = "mkdir", !.touched = TRUE]
  <2>1. Parent[c.src] \in Path
    <3>1. Parent[c.src] \in Path \cup {Root}
      BY <1>1, TreeAssumption
    <3>2. TypeOf(Root) = "DIRECTORY"
      BY DEF TypeOf
    <3>3. QED
      BY <1>4, <3>1, <3>2
  <2>2. tree' \in [Path -> Entries]
    BY <1>4, <2>1, EntryTypes, PutEntry
  <2>3. Underway(d)
    <3>1. d \in Calls /\ d.op = "create_dir" /\ d.step = "mkdir"
      BY <1>1 DEF Underway, Calls, Steps
    <3>2. QED
      BY <3>1 DEF Underway, Kinds, OneStep
  <2>4. at' = [at EXCEPT ![t] = d] /\ result' = result
    BY <1>4 DEF IInv
  <2> HIDE DEF d
  <2>5. QED
    BY <2>2, <2>3, <2>4 DEF Fine, GoesOn
<1>5. QED
  BY <1>2, <1>3, <1>4 DEF MakeParent

LEMMA MakeDirectoryFine ==
    ASSUME IInv, NEW t \in Thread, MakeDirectory(t)
    PROVE  Fine(t)
<1> PICK c : c = at[t]
  OBVIOUS
<1>1. Underway(c) /\ c.src \in Path /\ c.op = "create_dir"
  <2>1. At(t, "mkdir")
    BY DEF MakeDirectory
  <2>2. QED
    BY <2>1, AtStep DEF Kinds
<1>2. CASE Refused(t)
  BY <1>1, <1>2, RefusedFine
<1>3. CASE Fail(t, "ENOENT") \/ Fail(t, "EEXIST")
  BY <1>1, <1>3, FailFine DEF Errnos
<1>4. CASE TypeOf(c.src) = "DIRECTORY" /\ Return(t, TRUE, "SUCCESS") /\ UNCHANGED tree
  <2>1. Promise(t, c)
    BY <1>1, <1>4, TypesOf DEF Promise
  <2>2. Answer(t, at[t], TRUE, "SUCCESS", 0)
    BY <1>4 DEF Return
  <2>3. "SUCCESS" \in Codes /\ 0 \in Int /\ tree' \in [Path -> Entries]
    BY <1>4 DEF Codes, IInv
  <2>4. QED
    BY <1>1, <2>1, <2>2, <2>3, ReturnTrue
<1>5. CASE Put(c.src, Directory) /\ Touching(t, TRUE, "SUCCESS")
  <2>1. tree' \in [Path -> Entries] /\ tree'[c.src].type = "DIRECTORY"
    BY <1>1, <1>5, EntryTypes, PutEntry
  <2>2. Promise(t, c)
    BY <1>1, <2>1 DEF Promise
  <2>3. QED
    BY <1>1, <1>5, <2>1, <2>2, TouchTrue
<1>6. QED
  <2>1. CASE ~ HasParent(c.src)
    BY <1>2, <1>3, <2>1 DEF MakeDirectory
  <2>2. CASE HasParent(c.src) /\ TypeOf(c.src) = "FILE"
    BY <1>2, <1>3, <2>2 DEF MakeDirectory
  <2>3. CASE HasParent(c.src) /\ TypeOf(c.src) = "DIRECTORY"
    BY <1>2, <1>4, <2>3 DEF MakeDirectory
  <2>4. CASE HasParent(c.src) /\ TypeOf(c.src) = "NONEXISTENT"
    BY <1>2, <1>5, <2>4 DEF MakeDirectory
  <2>5. QED
    BY <1>1, <2>1, <2>2, <2>3, <2>4, TypesOf

LEMMA RemoveChildFine ==
    ASSUME IInv, NEW t \in Thread, RemoveChild(t)
    PROVE  Fine(t)
<1> PICK c : c = at[t]
  OBVIOUS
<1>1. Underway(c) /\ c.op = "delete_dir" /\ c.step = "remove_all"
  <2>1. At(t, "remove_all")
    BY DEF RemoveChild
  <2>2. QED
    BY <2>1, AtStep DEF Kinds, At
<1>2. CASE Refused(t)
  BY <1>1, <1>2, RefusedFine
<1>3. CASE Goto(t, "rmdir") /\ UNCHANGED tree
  <2>1. <<c.op, "rmdir">> \in Kinds
    BY <1>1 DEF Kinds
  <2>2. QED
    BY <1>1, <1>3, <2>1, GotoFine
<1>4. CASE \E q \in ChildrenOf(c.src) : Put(q, Nothing) /\ at' = [at EXCEPT ![t].touched = TRUE] /\ UNCHANGED result
  <2> DEFINE d == [c EXCEPT !.touched = TRUE]
  <2>1. PICK q \in Path : Put(q, Nothing)
    BY <1>4 DEF ChildrenOf
  <2>2. tree' \in [Path -> Entries]
    BY <2>1, EntryTypes, PutEntry
  <2>3. Underway(d)
    <3>1. d \in Calls /\ d.op = "delete_dir" /\ d.step = "remove_all"
      BY <1>1 DEF Underway, Calls
    <3>2. QED
      BY <3>1 DEF Underway, Kinds, OneStep
  <2>4. at' = [at EXCEPT ![t] = d] /\ result' = result
    BY <1>4 DEF IInv
  <2> HIDE DEF d
  <2>5. QED
    BY <2>2, <2>3, <2>4 DEF Fine, GoesOn
<1>5. QED
  BY <1>2, <1>3, <1>4 DEF RemoveChild

LEMMA RemoveDirectoryFine ==
    ASSUME IInv, NEW t \in Thread, RemoveDirectory(t)
    PROVE  Fine(t)
<1> PICK c : c = at[t]
  OBVIOUS
<1>1. Underway(c) /\ c.src \in Path /\ c.op = "delete_dir"
  <2>1. At(t, "rmdir")
    BY DEF RemoveDirectory
  <2>2. QED
    BY <2>1, AtStep DEF Kinds
<1>2. CASE Refused(t)
  BY <1>1, <1>2, RefusedFine
<1>3. CASE Fail(t, "ENOTEMPTY")
  BY <1>1, <1>3, FailFine DEF Errnos
<1>4. CASE TypeOf(c.src) = "NONEXISTENT" /\ Return(t, TRUE, "NOT_FOUND") /\ UNCHANGED tree
  <2>1. Promise(t, c)
    BY <1>1, <1>4, TypesOf DEF Promise
  <2>2. Answer(t, at[t], TRUE, "NOT_FOUND", 0)
    BY <1>4 DEF Return
  <2>3. "NOT_FOUND" \in Codes /\ 0 \in Int /\ tree' \in [Path -> Entries]
    BY <1>4 DEF Codes, IInv
  <2>4. QED
    BY <1>1, <2>1, <2>2, <2>3, ReturnTrue
<1>5. CASE Put(c.src, Nothing) /\ Touching(t, TRUE, "SUCCESS")
  <2>1. tree' \in [Path -> Entries] /\ tree'[c.src].type = "NONEXISTENT"
    BY <1>1, <1>5, EntryTypes, PutEntry
  <2>2. Promise(t, c)
    BY <1>1, <2>1 DEF Promise
  <2>3. QED
    BY <1>1, <1>5, <2>1, <2>2, TouchTrue
<1>6. QED
  <2>1. CASE ChildrenOf(c.src) # {}
    <3>1. Refused(t) \/ Fail(t, "ENOTEMPTY") \/ (TypeOf(c.src) = "NONEXISTENT" /\ Return(t, TRUE, "NOT_FOUND") /\ UNCHANGED tree)
      BY <2>1 DEF RemoveDirectory
    <3>2. QED
      BY <1>2, <1>3, <1>4, <3>1
  <2>2. CASE ChildrenOf(c.src) = {}
    BY <1>2, <1>4, <1>5, <2>2 DEF RemoveDirectory
  <2>3. QED
    BY <2>1, <2>2

LEMMA ActFine ==
    ASSUME IInv, NEW t \in Thread, Act(t)
    PROVE  Fine(t)
BY OpenToCreateFine, RemoveFileFine, LookAtDestFine, CopyFine, RenameFine, WriteFine, SizeFine, ReadTextFine,
   InfoFine, MakeParentFine, MakeDirectoryFine, RemoveChildFine, RemoveDirectoryFine DEF Act

------------------------------------------------------------------------------
(* The theorems.                                                             *)

LEMMA InitOK == Init => IInv
<1> SUFFICES ASSUME Init PROVE IInv
  OBVIOUS
<1>1. tree \in [Path -> Entries]
  <2>1. Nothing \in Entries /\ Directory \in Entries /\ File(<<>>) \in Entries
    <3>1. <<>> \in Seq(Thread)
      OBVIOUS
    <3>2. QED
      BY <3>1, EntryTypes
  <2>2. tree \in [Path -> {Nothing, Directory, File(<<>>)}]
    BY DEF Init
  <2>3. QED
    BY <2>1, <2>2
<1>2. NoResult \in Answers /\ Honest(NoResult)
  BY DEF NoResult, Answers, Codes, Honest
<1>3. QED
  BY <1>1, <1>2 DEF Init, IInv

LEMMA CallsCount ==
    ASSUME IInv, NEW t \in Thread, Look(t) \/ Act(t)
    PROVE  calls' \in [Thread -> Nat] /\ \A u \in Thread \ {t} : calls'[u] = calls[u]
<1>1. CASE Look(t)
  <2>1. calls' = [calls EXCEPT ![t] = @ + 1]
    BY <1>1 DEF Look, Begin, CreateFile, DeleteFile, GetFileSize, ReadTextFile, GetFileInfo, WriteTextFile,
                CopyFile, RenameFile, CreateDir, DeleteDir
  <2>2. QED
    BY <2>1 DEF IInv
<1>2. CASE Act(t)
  BY <1>2 DEF Act, IInv
<1>3. QED
  BY <1>1, <1>2

\* IInv /\ [Next]_vars => IInv', and the promises of what ends in that step.
LEMMA NextKeeps ==
    ASSUME IInv, [Next]_vars
    PROVE  IInv' /\ (UNCHANGED vars \/ EndsKept)
<1>1. CASE Next
  <2>1. PICK t \in Thread : Look(t) \/ Act(t)
    BY <1>1 DEF Next
  <2>2. Fine(t)
    BY <2>1, LookFine, ActFine
  <2>3. QED
    BY <2>1, <2>2, CallsCount, FineKeeps
<1>2. CASE UNCHANGED vars
  BY <1>2 DEF vars, IInv, Underway, Honest
<1>3. QED
  BY <1>1, <1>2

LEMMA AlwaysIInv == Spec => []IInv
BY InitOK, NextKeeps, PTL DEF Spec

\* The operations on files and directories
\* (filesystem_utils_file.cpp, filesystem_utils_directory.cpp): one that returns
\* false says why, and create_file, delete_file and rename_file have then
\* changed nothing, whatever the others did between the look and the act.
THEOREM FalseChangesNothing == Spec => []FalseIsHarmless
<1>1. IInv => FalseIsHarmless
  BY DEF IInv, Honest, FalseIsHarmless, OneStep
<1>2. QED
  BY <1>1, AlwaysIInv, PTL

\* One that returns true has done by that moment what its branch of Promise says,
\* whatever the others did since its look.  It is what the code does: create_file
\* leaves a file that was there, and write_text_file has added its text unless
\* close() lost it; the comments at filesystem_utils.h:135 and :183 say otherwise.
THEOREM TrueKeepsItsPromise == Spec => TrueIsDone
<1>1. IInv /\ [Next]_vars =>
        [\A t \in Thread : at'[t] = Idle /\ (at[t] # Idle \/ calls'[t] # calls[t]) => Kept(t)]_vars
  BY NextKeeps DEF EndsKept
<1>2. QED
  BY <1>1, AlwaysIInv, PTL DEF Spec, TrueIsDone
=============================================================================
