------------------------------- MODULE FileSystem ------------------------------
(***************************************************************************)
(* origin::filesystem: the operations on files and directories             *)
(* (filesystem_utils.cpp, filesystem_utils_file.cpp,                       *)
(* filesystem_utils_directory.cpp, filesystem_utils_internal.cpp).  Each   *)
(* one looks at the entry first and acts afterwards, by a call of          *)
(* std::filesystem or by opening a stream; between the look and the act    *)
(* the other threads go on.  What the operating system does with an entry  *)
(* is the external part of the model.                                      *)
(***************************************************************************)
EXTENDS Integers, Sequences, FiniteSets

CONSTANTS
    Path,      \* the entries that may exist
    Root,      \* the directory that always exists
    Parent,    \* the directory of each path
    FileArg,   \* the paths given to the operations on files
    DirArg,    \* the paths given to the operations on directories
    Thread,
    Idle,      \* the thread is in no operation
    Ops,       \* the operations each thread calls
    MaxCalls,  \* how many operations each thread calls
    MaxFaults  \* how many acts fail for no reason of the model's

\* an operation in progress, and the steps that follow the looks
Operations == {"create_file", "delete_file", "copy_file", "rename_file", "write_text_file", "get_file_size",
               "read_text_file", "get_file_info", "create_dir", "delete_dir"}
Steps == (Operations \ {"get_file_info", "create_dir", "delete_dir"}) \cup
         {"copy_dest", "rename_dest", "info_size", "info_time", "mkdir_parent", "mkdir", "remove_all", "rmdir"}
Calls == [op : Operations, src : Path, dest : Path, overwrite : BOOLEAN, step : Steps,
          touched : BOOLEAN, lost : BOOLEAN]

ASSUME TreeAssumption ==
    /\ Root \notin Path /\ Parent \in [Path -> Path \cup {Root}]
    /\ FileArg \subseteq Path /\ DirArg \subseteq Path
    /\ \A p \in FileArg : \A q \in Path : Parent[q] # p
    /\ MaxCalls \in [Thread -> Nat] /\ MaxFaults \in Nat
    /\ Ops \in [Thread -> SUBSET Operations] /\ Idle \notin Calls

VARIABLES
    tree,    \* what each path names
    at,      \* the operation a thread is in, and its next step
    result,  \* what a thread's last operation answered
    calls,   \* how many operations a thread has called
    faults

vars == <<tree, at, result, calls, faults>>

\* EntryType, without the devices, links and sockets
Nothing == [type |-> "NONEXISTENT", text |-> <<>>]
Directory == [type |-> "DIRECTORY", text |-> <<>>]
File(text) == [type |-> "FILE", text |-> text]

\* the uintmax_t that stands for -1
Huge == -1

\* get_entry_type
TypeOf(p) == IF p = Root THEN "DIRECTORY" ELSE tree[p].type
HasParent(p) == TypeOf(Parent[p]) = "DIRECTORY"
ChildrenOf(p) == {q \in Path : Parent[q] = p /\ TypeOf(q) # "NONEXISTENT"}

\* file_exists and dir_exists: the error they leave for the thread
FileError(p) == CASE TypeOf(p) = "FILE" -> "SUCCESS"
                  [] TypeOf(p) = "NONEXISTENT" -> "NOT_FOUND"
                  [] OTHER -> "NOT_FILE"
DirError(p) == CASE TypeOf(p) = "DIRECTORY" -> "SUCCESS"
                 [] TypeOf(p) = "NONEXISTENT" -> "NOT_FOUND"
                 [] OTHER -> "NOT_DIRECTORY"

\* ConvertGenericCategory, and ConvertSystemCategory for what errno says after a
\* write: the same number has another meaning to each
GenericCode(errno) == CASE errno = "EACCES" -> "PERMISSION_DENIED"
                        [] errno = "ENOENT" -> "NOT_FOUND"
                        [] errno = "EEXIST" -> "ALREADY_EXISTS"
                        [] errno = "ENOTEMPTY" -> "DIR_NOT_EMPTY"
                        [] errno = "EISDIR" -> "IS_A_DIRECTORY"
                        [] errno = "EINVAL" -> "PATH_INVALID"
                        [] errno = "EIO" -> "IO_ERROR"
                        [] OTHER -> "GENERIC_ERROR"
SystemCode(errno) == CASE errno = "EIO" -> "IO_ERROR"
                       [] errno = "EBUSY" -> "SHARING_VIOLATION"
                       [] OTHER -> "SYSTEM_ERROR"

\* ConvertSysEcToErrorCode, for an error_code of the category
CodeOf(category, errno) ==
    IF category = "generic" THEN GenericCode(errno) ELSE SystemCode(errno)

NoResult == [op |-> "none", src |-> Root, dest |-> Root, ok |-> TRUE, code |-> "SUCCESS", size |-> 0,
             touched |-> FALSE, lost |-> FALSE]

Init ==
    /\ tree \in {f \in [Path -> {Nothing, Directory, File(<<>>)}] :
                    \A p \in Path : f[p] = Nothing \/ Parent[p] = Root \/ f[Parent[p]] = Directory}
    /\ \A p \in Path : (\E q \in Path : Parent[q] = p) => tree[p] # File(<<>>)
    /\ at = [t \in Thread |-> Idle]
    /\ result = [t \in Thread |-> NoResult]
    /\ calls = [t \in Thread |-> 0]
    /\ faults = 0

\* The operation of thread t ends: ok is what it returns, code the error it
\* leaves in set_thread_last_err.
Answer(t, call, ok, code, size) ==
    /\ result' = [result EXCEPT ![t] =
                     [op |-> call.op, src |-> call.src, dest |-> call.dest, ok |-> ok,
                      code |-> code, size |-> size, touched |-> call.touched, lost |-> call.lost]]
    /\ at' = [at EXCEPT ![t] = Idle]
Return(t, ok, code) == Answer(t, at[t], ok, code, 0)
Touching(t, ok, code) == Answer(t, [at[t] EXCEPT !.touched = TRUE], ok, code, 0)
Goto(t, step) == at' = [at EXCEPT ![t].step = step] /\ UNCHANGED result
Fail(t, errno) == Return(t, FALSE, CodeOf("generic", errno)) /\ UNCHANGED tree

\* a call of std::filesystem without an error_code throws through the operation
Throw(t) == Return(t, FALSE, "EXCEPTION") /\ UNCHANGED tree

\* the operating system refuses the act
Refused(t) == faults < MaxFaults /\ faults' = faults + 1 /\ Fail(t, "EACCES")

Put(p, entry) == tree' = [tree EXCEPT ![p] = entry]

-----------------------------------------------------------------------------
(* The look.  A call that the look settles returns at once.                  *)

\* what every call starts with: its arguments, and (for the properties) that it
\* has changed nothing so far and that no text of its own is lost
Call(op, src, dest, overwrite) ==
    [op |-> op, src |-> src, dest |-> dest, overwrite |-> overwrite, step |-> op,
     touched |-> FALSE, lost |-> FALSE]
Begin(t, call) ==
    /\ at[t] = Idle /\ calls[t] < MaxCalls[t] /\ call.op \in Ops[t]
    /\ calls' = [calls EXCEPT ![t] = @ + 1]
    /\ UNCHANGED <<tree, faults>>
Settle(t, call, ok, code) == Answer(t, call, ok, code, 0)
Proceed(t, call) == at' = [at EXCEPT ![t] = call] /\ UNCHANGED result

\* create_file; an existing file is left as it is
CreateFile(t, p) ==
    LET call == Call("create_file", p, p, FALSE)
    IN  /\ Begin(t, call)
        /\ CASE TypeOf(p) = "FILE" -> Settle(t, call, TRUE, "ALREADY_EXISTS")
             [] TypeOf(p) = "DIRECTORY" -> Settle(t, call, FALSE, "NOT_FILE")
             [] OTHER -> Proceed(t, call)

\* delete_file: what is not there is deleted
DeleteFile(t, p) ==
    LET call == Call("delete_file", p, p, FALSE)
    IN  /\ Begin(t, call)
        /\ IF TypeOf(p) # "FILE" THEN Settle(t, call, FileError(p) = "NOT_FOUND", FileError(p))
           ELSE Proceed(t, call)

\* copy_file and rename_file, as far as the look at src
CopyFile(t, src, dest, overwrite) ==
    LET call == [Call("copy_file", src, dest, overwrite) EXCEPT !.step = "copy_dest"]
    IN  /\ Begin(t, call)
        /\ IF TypeOf(src) # "FILE" THEN Settle(t, call, FALSE, FileError(src))
           ELSE Proceed(t, call)
RenameFile(t, src, dest, overwrite) ==
    LET call == [Call("rename_file", src, dest, overwrite) EXCEPT !.step = "rename_dest"]
    IN  /\ Begin(t, call)
        /\ IF TypeOf(src) # "FILE" THEN Settle(t, call, FALSE, FileError(src))
           ELSE Proceed(t, call)

\* write_text_file and get_file_size
WriteTextFile(t, p, overwrite) ==
    LET call == Call("write_text_file", p, p, overwrite)
    IN  /\ Begin(t, call)
        /\ IF TypeOf(p) # "FILE" THEN Settle(t, call, FALSE, FileError(p))
           ELSE Proceed(t, call)
GetFileSize(t, p) ==
    LET call == Call("get_file_size", p, p, FALSE)
    IN  /\ Begin(t, call)
        /\ IF TypeOf(p) # "FILE" THEN Settle(t, call, FALSE, FileError(p))
           ELSE Proceed(t, call)

\* read_text_file, and get_file_info, which has no answer for a failure
ReadTextFile(t, p) ==
    LET call == Call("read_text_file", p, p, FALSE)
    IN  /\ Begin(t, call)
        /\ IF TypeOf(p) # "FILE" THEN Settle(t, call, FALSE, FileError(p))
           ELSE Proceed(t, call)
GetFileInfo(t, p) ==
    LET call == [Call("get_file_info", p, p, FALSE) EXCEPT
                    !.step = IF TypeOf(p) = "FILE" THEN "info_size" ELSE "info_time"]
    IN  /\ Begin(t, call)
        /\ IF TypeOf(p) = "NONEXISTENT" THEN Settle(t, call, TRUE, "NOT_FOUND")
           ELSE Proceed(t, call)

\* create_dir and delete_dir; overwrite stands for recursive
CreateDir(t, p, recursive) ==
    LET call == [Call("create_dir", p, p, recursive) EXCEPT !.step = IF recursive THEN "mkdir_parent" ELSE "mkdir"]
    IN  /\ Begin(t, call)
        /\ CASE TypeOf(p) = "DIRECTORY" -> Settle(t, call, TRUE, "ALREADY_EXISTS")
             [] TypeOf(p) = "FILE" -> Settle(t, call, FALSE, "NOT_DIRECTORY")
             [] OTHER -> Proceed(t, call)
DeleteDir(t, p, recursive) ==
    LET call == [Call("delete_dir", p, p, recursive) EXCEPT !.step = IF recursive THEN "remove_all" ELSE "rmdir"]
    IN  /\ Begin(t, call)
        /\ IF TypeOf(p) # "DIRECTORY" THEN Settle(t, call, DirError(p) = "NOT_FOUND", DirError(p))
           ELSE Proceed(t, call)

Look(t) ==
    \/ \E p \in FileArg : CreateFile(t, p) \/ DeleteFile(t, p) \/ GetFileSize(t, p)
                            \/ ReadTextFile(t, p) \/ GetFileInfo(t, p)
    \/ \E p \in FileArg, overwrite \in BOOLEAN : WriteTextFile(t, p, overwrite)
    \/ \E src, dest \in FileArg, overwrite \in BOOLEAN :
          CopyFile(t, src, dest, overwrite) \/ RenameFile(t, src, dest, overwrite)
    \/ \E p \in DirArg, recursive \in BOOLEAN : CreateDir(t, p, recursive) \/ DeleteDir(t, p, recursive)

-----------------------------------------------------------------------------
(* The act.                                                                  *)

At(t, step) == at[t] # Idle /\ at[t].step = step
Settled == UNCHANGED faults
\* the act fails after it has begun
BreaksOff == faults < MaxFaults /\ faults' = faults + 1

\* std::ofstream with app: the file is made if there is none
OpenToCreate(t) ==
    LET p == at[t].src
    IN  /\ At(t, "create_file")
        /\ \/ Refused(t)
           \/ Settled /\
              CASE ~HasParent(p) -> Fail(t, "ENOENT")
                [] HasParent(p) /\ TypeOf(p) = "DIRECTORY" -> Fail(t, "EISDIR")
                [] HasParent(p) /\ TypeOf(p) = "FILE" -> Return(t, TRUE, "SUCCESS") /\ UNCHANGED tree
                [] OTHER -> Put(p, File(<<>>)) /\ Touching(t, TRUE, "SUCCESS")

\* delete_file_it: false if another thread was faster
RemoveFile(t) ==
    LET p == at[t].src
    IN  /\ At(t, "delete_file")
        /\ \/ Refused(t)
           \/ Settled /\
              IF TypeOf(p) = "NONEXISTENT" THEN Fail(t, "ENOENT")
              ELSE Put(p, Nothing) /\ Touching(t, TRUE, "SUCCESS")

\* copy_file, the look at dest and fs::copy_file, which opens dest before the
\* first byte is copied: a copy that breaks off leaves what it has copied
CopyLookAtDest(t) ==
    /\ At(t, "copy_dest")
    /\ IF TypeOf(at[t].dest) = "DIRECTORY" THEN Return(t, FALSE, "NOT_FILE") ELSE Goto(t, "copy_file")
    /\ UNCHANGED <<tree, faults>>
Copy(t) ==
    LET src == at[t].src
        dest == at[t].dest
    IN  /\ At(t, "copy_file")
        /\ \/ Refused(t)
           \/ Settled /\
              CASE TypeOf(src) = "NONEXISTENT" \/ ~HasParent(dest) -> Fail(t, "ENOENT")
                [] TypeOf(src) = "DIRECTORY" \/ TypeOf(dest) = "DIRECTORY" -> Fail(t, "EINVAL")
                [] OTHER -> IF src = dest \/ (TypeOf(dest) = "FILE" /\ ~at[t].overwrite) THEN Fail(t, "EEXIST")
                            ELSE Put(dest, tree[src]) /\ Touching(t, TRUE, "SUCCESS")
           \/ BreaksOff /\
              /\ TypeOf(src) = "FILE" /\ HasParent(dest) /\ src # dest
              /\ TypeOf(dest) = "NONEXISTENT" \/ (TypeOf(dest) = "FILE" /\ at[t].overwrite)
              /\ \E n \in 0..Len(tree[src].text) : Put(dest, File(SubSeq(tree[src].text, 1, n)))
              /\ Touching(t, FALSE, CodeOf("generic", "EIO"))

\* rename_file, the look at dest
RenameLookAtDest(t) ==
    /\ At(t, "rename_dest")
    /\ CASE TypeOf(at[t].dest) = "DIRECTORY" -> Return(t, FALSE, "NOT_FILE")
         [] TypeOf(at[t].dest) = "FILE" /\ ~at[t].overwrite -> Return(t, FALSE, "ALREADY_EXISTS")
         [] OTHER -> Goto(t, "rename_file")
    /\ UNCHANGED <<tree, faults>>

\* mutant: dest is removed to make room for src
RenameIntoRoom(t) ==
    LET src == at[t].src
        dest == at[t].dest
    IN  \/ /\ At(t, "rename_file")
           /\ Put(dest, Nothing)
           /\ at' = [at EXCEPT ![t].step = "room", ![t].touched = TypeOf(dest) = "FILE"]
           /\ UNCHANGED <<result, faults>>
        \/ /\ At(t, "room")
           /\ \/ Refused(t)
              \/ Settled /\
                 IF TypeOf(src) # "FILE" \/ ~HasParent(dest) THEN Fail(t, "ENOENT")
                 ELSE tree' = [tree EXCEPT ![dest] = tree[src], ![src] = Nothing] /\ Touching(t, TRUE, "SUCCESS")

\* fs::rename, which replaces a dest that appeared since; overwrite is not asked again
Rename(t) ==
    LET src == at[t].src
        dest == at[t].dest
    IN  /\ At(t, "rename_file")
        /\ \/ Refused(t)
           \/ Settled /\
              CASE TypeOf(src) = "NONEXISTENT" \/ ~HasParent(dest) -> Fail(t, "ENOENT")
                [] TypeOf(src) = "FILE" /\ TypeOf(dest) = "DIRECTORY" -> Fail(t, "EISDIR")
                [] TypeOf(src) = "DIRECTORY" /\ TypeOf(dest) = "FILE" -> Fail(t, "ENOTDIR")
                [] OTHER -> /\ tree' = IF src = dest THEN tree
                                       ELSE [tree EXCEPT ![dest] = tree[src], ![src] = Nothing]
                            /\ Touching(t, TRUE, "SUCCESS")

\* write_text_file: the open, which makes a file that has gone, and the write.
\* The system refuses the bytes in the write, and errno says why; or, when the
\* stream still buffers them, only in close(), which is not asked.
Write(t) ==
    LET p == at[t].src
    IN  /\ At(t, "write_text_file")
        /\ \/ Refused(t)
           \/ Settled /\
              CASE ~HasParent(p) -> Fail(t, "ENOENT")
                [] HasParent(p) /\ TypeOf(p) = "DIRECTORY" -> Fail(t, "EISDIR")
                [] OTHER -> /\ Put(p, File(IF at[t].overwrite THEN <<t>> ELSE Append(tree[p].text, t)))
                            /\ Touching(t, TRUE, "SUCCESS")
           \/ BreaksOff /\
              /\ HasParent(p) /\ TypeOf(p) # "DIRECTORY"
              /\ Put(p, IF at[t].overwrite THEN File(<<>>) ELSE File(tree[p].text))
              /\ \/ \E errno \in {"EIO", "ENOSPC"} : Touching(t, FALSE, CodeOf("system", errno))
                 \/ Answer(t, [at[t] EXCEPT !.touched = TRUE, !.lost = TRUE], TRUE, "SUCCESS", 0)

\* get_file_size: fs::file_size answers -1 for what is no longer a file
Size(t) ==
    LET p == at[t].src
    IN  /\ At(t, "get_file_size")
        /\ CASE TypeOf(p) = "FILE" -> Answer(t, at[t], TRUE, "SUCCESS", Len(tree[p].text))
             [] TypeOf(p) = "DIRECTORY" -> Answer(t, at[t], FALSE, CodeOf("generic", "EISDIR"), Huge)
             [] OTHER -> Answer(t, at[t], FALSE, CodeOf("generic", "ENOENT"), Huge)
        /\ UNCHANGED <<tree, faults>>

\* read_text_file: the text, or nothing if the open fails; a directory can be
\* opened and not read, and the read throws.  An answer does not touch the
\* error that an earlier call has left.
ReadText(t) ==
    LET p == at[t].src
    IN  /\ At(t, "read_text_file")
        /\ \/ Refused(t)
           \/ Settled /\
              CASE TypeOf(p) = "NONEXISTENT" -> Fail(t, "ENOENT")
                [] TypeOf(p) = "DIRECTORY" -> Throw(t)
                [] OTHER -> Answer(t, at[t], TRUE, "SUCCESS", Len(tree[p].text)) /\ UNCHANGED tree

\* get_file_info: the size and the time of what the look has found, each from a
\* system call of its own that throws when the entry has gone
InfoSize(t) ==
    LET p == at[t].src
    IN  /\ At(t, "info_size")
        /\ IF TypeOf(p) = "FILE" THEN Goto(t, "info_time") /\ UNCHANGED tree ELSE Throw(t)
        /\ Settled
ModifyTime(t) ==
    LET p == at[t].src
    IN  /\ At(t, "info_time")
        /\ IF TypeOf(p) = "NONEXISTENT" THEN Throw(t) ELSE Return(t, TRUE, "SUCCESS") /\ UNCHANGED tree
        /\ Settled

\* fs::create_directories, from the parent down, and fs::create_directory
MakeParent(t) ==
    LET p == Parent[at[t].src]
    IN  /\ At(t, "mkdir_parent")
        /\ \/ Refused(t)
           \/ Settled /\
              IF TypeOf(p) = "NONEXISTENT"
              THEN /\ Put(p, Directory)
                   /\ at' = [at EXCEPT ![t].step = "mkdir", ![t].touched = TRUE]
                   /\ UNCHANGED result
              ELSE Goto(t, "mkdir") /\ UNCHANGED tree
MakeDirectory(t) ==
    LET p == at[t].src
    IN  /\ At(t, "mkdir")
        /\ \/ Refused(t)
           \/ Settled /\
              CASE ~HasParent(p) -> Fail(t, "ENOENT")
                [] HasParent(p) /\ TypeOf(p) = "FILE" -> Fail(t, "EEXIST")
                [] HasParent(p) /\ TypeOf(p) = "DIRECTORY" -> Return(t, TRUE, "SUCCESS") /\ UNCHANGED tree
                [] OTHER -> Put(p, Directory) /\ Touching(t, TRUE, "SUCCESS")

\* fs::remove_all: an entry of the directory, then the directory
RemoveChild(t) ==
    /\ At(t, "remove_all")
    /\ \/ Refused(t)
       \/ Settled /\
          IF ChildrenOf(at[t].src) = {} THEN Goto(t, "rmdir") /\ UNCHANGED tree
          ELSE \E q \in ChildrenOf(at[t].src) :
                  /\ Put(q, Nothing)
                  /\ at' = [at EXCEPT ![t].touched = TRUE]
                  /\ UNCHANGED result

\* mutant: what is left in the directory is no reason to fail
RemoveDirectoryUnchecked(t) ==
    LET p == at[t].src
    IN  /\ At(t, "rmdir")
        /\ Settled
        /\ IF ChildrenOf(p) # {} THEN Return(t, TRUE, "SUCCESS") /\ UNCHANGED tree
           ELSE Put(p, Nothing) /\ Touching(t, TRUE, "SUCCESS")

\* fs::remove of the directory; delete_dir returns true even if it has gone
RemoveDirectory(t) ==
    LET p == at[t].src
    IN  /\ At(t, "rmdir")
        /\ \/ Refused(t)
           \/ Settled /\
              CASE ChildrenOf(p) # {} -> Fail(t, "ENOTEMPTY")
                [] TypeOf(p) = "NONEXISTENT" -> Return(t, TRUE, "NOT_FOUND") /\ UNCHANGED tree
                [] OTHER -> Put(p, Nothing) /\ Touching(t, TRUE, "SUCCESS")

Act(t) ==
    /\ \/ OpenToCreate(t) \/ RemoveFile(t) \/ CopyLookAtDest(t) \/ Copy(t)
       \/ RenameLookAtDest(t) \/ Rename(t) \/ Write(t) \/ Size(t)
       \/ ReadText(t) \/ InfoSize(t) \/ ModifyTime(t)
       \/ MakeParent(t) \/ MakeDirectory(t) \/ RemoveChild(t) \/ RemoveDirectory(t)
    /\ UNCHANGED calls

Next == \E t \in Thread : Look(t) \/ Act(t)
Spec == Init /\ [][Next]_vars

-----------------------------------------------------------------------------
(* Properties.                                                               *)

Ended(t) == at[t] = Idle /\ result[t] # NoResult

\* What an operation of thread t that returns true has done by the step it
\* returns in.  create_file: a file that was there is as it was (the comment at
\* filesystem_utils.h:135 says it is truncated), any other is there and empty.
\* write_text_file: its text is all of the file or has been added to it, unless
\* close() lost it (the comment at filesystem_utils.h:183 excepts nothing).  The
\* others: the file or directory is there, or is no longer there.
Promise(t, r) ==
    CASE r.op = "create_file" ->
            tree'[r.src] = IF tree[r.src].type = "FILE" THEN tree[r.src] ELSE File(<<>>)
      [] r.op = "write_text_file" ->
            /\ tree'[r.src].type = "FILE"
            /\ r.lost \/ tree'[r.src].text \in {<<t>>, Append(tree[r.src].text, t)}
      [] r.op \in {"delete_file", "delete_dir"} -> tree'[r.src].type = "NONEXISTENT"
      [] r.op = "create_dir" -> tree'[r.src].type = "DIRECTORY"
      [] r.op = "copy_file" -> tree'[r.dest].type = "FILE" /\ tree'[r.dest] = tree'[r.src]
      [] r.op = "rename_file" -> tree'[r.dest].type # "NONEXISTENT" /\ (r.src # r.dest => tree'[r.src] = Nothing)
      [] OTHER -> TRUE

\* Whatever the others do between its look and its act, an operation that
\* returns true has kept its promise at the moment it returns: a look that has
\* gone stale never makes it true.
Kept(t) == result'[t].ok => Promise(t, result'[t])
TrueIsDone == [][\A t \in Thread : at'[t] = Idle /\ (at[t] # Idle \/ calls'[t] # calls[t]) => Kept(t)]_vars

\* A create_file, delete_file or rename_file that returns false has changed
\* nothing, so that its caller can try again or go on: a rotation whose rename
\* fails still has its file.  Every operation that returns false says why.
FalseIsHarmless ==
    \A t \in Thread : Ended(t) /\ ~result[t].ok =>
        /\ result[t].code # "SUCCESS"
        /\ result[t].op \in {"create_file", "delete_file", "rename_file"} => ~result[t].touched
=============================================================================
