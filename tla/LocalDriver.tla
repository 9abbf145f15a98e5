---------------------------- MODULE LocalDriver ----------------------------
(***************************************************************************)
(* The local driver on a file system: upload, download, delete, copy and   *)
(* move, by callers that run at once; deleteMany is deletes that do.       *)
(*                                                                         *)
(* One action is one call of node:fs with the code up to the next await.   *)
(* The driver writes into the file that readers see, so what matters is    *)
(* the file behind a name: `entry` maps a key to its inode, `data` an      *)
(* inode to the chunks written to it, and a caller that has opened a file  *)
(* keeps its inode whatever happens to the name.  Chunk n of body b is     *)
(* written at place n.  All keys lie in one directory below the root.      *)
(*                                                                         *)
(* copyFile is no atomic operation either: it opens both files, empties    *)
(* the destination, copies chunk by chunk, and removes the destination if  *)
(* that fails.                                                             *)
(***************************************************************************)
EXTENDS StorageRequests, Sequences, Naturals, FiniteSets

CONSTANTS
    Callers,    \* concurrent calls
    Calls,      \* the calls they may make
    Length,     \* body -> number of its chunks
    Inodes,     \* files the file system has room for
    NoInode,    \* not a file
    MaxCalls    \* bound: calls made

\* delete with cleanEmptyParents, and download.
Sweeps    == [op : {"sweep"}, src : Keys, dst : {None}, body : {None}, overwrite : {TRUE}]
Downloads == [op : {"download"}, src : Keys, dst : {None}, body : {None}, overwrite : {TRUE}]

ASSUME LocalCallsAssumption == Calls \subseteq Requests \cup Sweeps \cup Downloads
ASSUME LengthAssumption == Length \in [Bodies -> Nat]
ASSUME InodesAssumption == NoInode \notin Inodes /\ MaxCalls \in Nat

\* The file system has room for a file of every key.
ASSUME RoomAssumption ==
    \E f \in [Keys -> Inodes] : \A j, k \in Keys : j # k => f[j] # f[k]

VARIABLES
    directory,  \* whether the directory of the keys exists
    entry,      \* key -> inode, or NoInode
    data,       \* inode -> its chunks: the body each place was written from
    req, pc, answer,    \* caller -> its call, the step it takes next, its end
    fd,         \* caller -> the inode it has open, or NoInode
    from,       \* caller -> the inode it copies from
    got,        \* caller -> what its download has read, and copyFile has copied
    size,       \* caller -> the contentLength that its download reports
    calls,      \* number of calls made so far
    alone,      \* history: no other call on the same keys ran along
    before,     \* history: what its key held when the call began
    spoilt      \* history: inodes that need not hold one whole body

fileVars == <<directory, entry, data>>
callVars == <<req, pc, answer>>
openVars == <<fd, from, got, size>>
history  == <<alone, before, spoilt>>
vars     == <<fileVars, callVars, openVars, calls, history>>

Steps ==
    {"idle", "check", "mkdir", "open", "write", "cleanup", "discard", "size",
     "unlink", "readdir", "rmdir", "rename", "copyFile", "copying", "copied", "unlinkSource",
     "stat", "openRead", "read", "done"}
Answers == {"none", "ok", "conflict", "missing", "failed"}

\* At a place that nobody has written, a file reads as zeros.
Hole     == None
Contents == Seq(MaybeBody)

\* What no file holds: it is no sequence.
Absent == [n \in {0} |-> Hole]

Whole(b) == [n \in 1 .. Length[b] |-> b]
IsWhole(content) == \E b \in Bodies : content = Whole(b)

Held(k) == IF entry[k] = NoInode THEN Absent ELSE data[entry[k]]

TypeOK ==
    /\ directory \in BOOLEAN
    /\ entry \in [Keys -> Inodes \cup {NoInode}]
    /\ data \in [Inodes -> Contents]
    /\ req \in [Callers -> Calls \cup {NoRequest}]
    /\ pc \in [Callers -> Steps]
    /\ answer \in [Callers -> Answers]
    /\ fd \in [Callers -> Inodes \cup {NoInode}]
    /\ from \in [Callers -> Inodes \cup {NoInode}]
    /\ got \in [Callers -> Contents]
    /\ size \in [Callers -> Nat]
    /\ calls \in 0 .. MaxCalls
    /\ alone \in [Callers -> BOOLEAN]
    /\ before \in [Callers -> {Absent} \cup Contents]
    /\ spoilt \in SUBSET Inodes
    /\ (\E k \in Keys : entry[k] # NoInode) => directory

\* A file for every key to begin with: which one, does not matter.
FirstFile == CHOOSE f \in [Keys -> Inodes] : \A j, k \in Keys : j # k => f[j] # f[k]

\* Some keys hold whole files.
Init ==
    /\ entry \in [Keys -> Inodes \cup {NoInode}]
    /\ \A k \in Keys : entry[k] \in {FirstFile[k], NoInode}
    /\ data \in [Inodes -> {<<>>} \cup {Whole(b) : b \in Bodies}]
    /\ \A i \in Inodes :
          IF \E k \in Keys : entry[k] = i THEN IsWhole(data[i]) ELSE data[i] = <<>>
    /\ directory \in BOOLEAN
    /\ (\E k \in Keys : entry[k] # NoInode) => directory
    /\ calls = 0
    /\ req = [c \in Callers |-> NoRequest]
    /\ pc = [c \in Callers |-> "idle"]
    /\ answer = [c \in Callers |-> "none"]
    /\ fd = [c \in Callers |-> NoInode]
    /\ from = [c \in Callers |-> NoInode]
    /\ got = [c \in Callers |-> <<>>]
    /\ size = [c \in Callers |-> 0]
    /\ alone = [c \in Callers |-> FALSE]
    /\ before = [c \in Callers |-> Absent]
    /\ spoilt = {}

(***************************************************************************)
(* Building blocks of the actions.                                         *)
(***************************************************************************)

GoTo(c, step) == pc' = [pc EXCEPT ![c] = step] /\ UNCHANGED <<req, answer>>

\* The call ends: its files are closed.
End(c, a) ==
    /\ pc' = [pc EXCEPT ![c] = "done"]
    /\ answer' = [answer EXCEPT ![c] = a]
    /\ fd' = [fd EXCEPT ![c] = NoInode]
    /\ from' = [from EXCEPT ![c] = NoInode]
    /\ UNCHANGED <<req, got, size>>

InUse == {entry[k] : k \in Keys} \cup {fd[c] : c \in Callers} \cup {from[c] : c \in Callers}

\* Files hold d, and those in s are spoilt; the file system forgets those that
\* nobody has a name for or open.
Files(d, s) ==
    /\ data' = [i \in Inodes |-> IF i \in InUse' THEN d[i] ELSE <<>>]
    /\ spoilt' = s \cap InUse'

Writes(c) == pc[c] \in {"write", "cleanup", "copying"}

Writers(i) == {c \in Callers : fd[c] = i /\ Writes(c)}

\* The key a call takes its object from, or else the one it is about.
Subject(r) == IF r.src = None THEN r.dst ELSE r.src

Target(c) == req[c].dst

\* The keys a call has to do with.  Cleaning takes the directory from all.
Touched(r) == IF r.op = "sweep" THEN Keys ELSE {r.src, r.dst} \cap Keys

\* Caller c opens the file i of key k for writing, which empties it.  What
\* others are writing to it or copying from it is spoilt, and so is a copy of
\* a file that is spoilt or being written.
OpenForWriting(c, k, i) ==
    LET source == from'[c]
        copied == {fd[d] : d \in {e \in Callers : from[e] = i}}
                  \cup (IF source \in spoilt \/ Writers(source) # {} THEN {i} ELSE {})
                  \cup (IF Writers(i) # {} THEN {i} ELSE {})
    IN  /\ entry' = [entry EXCEPT ![k] = i]
        /\ fd' = [fd EXCEPT ![c] = i]
        /\ Files([data EXCEPT ![i] = <<>>], (spoilt \ {i}) \cup copied)

\* The file a name stands for, or a new one: always the same, they are alike.
FileFor(k) ==
    IF entry[k] # NoInode THEN {entry[k]}
    ELSE IF Inodes \subseteq InUse THEN {}
    ELSE {CHOOSE i \in Inodes : i \notin InUse}

\* Writing at place n: the file grows to it, with a hole where it was shorter.
Written(content, n, b) ==
    [m \in 1 .. (IF n > Len(content) THEN n ELSE Len(content)) |->
        IF m = n THEN b ELSE IF m <= Len(content) THEN content[m] ELSE Hole]

(***************************************************************************)
(* A call begins and returns; the process ends.                            *)
(***************************************************************************)

FirstStep(r) ==
    IF r.op \in {"delete", "sweep"} THEN "unlink"
    ELSE IF r.op = "download" THEN "stat"
    ELSE IF r.overwrite THEN "mkdir"
    ELSE "check"

Busy == {c \in Callers : pc[c] \notin {"idle", "done"}}

Invoke(c) ==
    /\ pc[c] = "idle"
    /\ calls < MaxCalls
    /\ calls' = calls + 1
    /\ \E r \in Calls :
          LET sharing == {d \in Callers : Touched(req[d]) \cap Touched(r) # {}}
              written == {k \in Touched(r) : entry[k] # NoInode /\ Writers(entry[k]) # {}}
          IN  /\ req' = [req EXCEPT ![c] = r]
              /\ pc' = [pc EXCEPT ![c] = FirstStep(r)]
              /\ alone' = [d \in Callers |->
                              IF d = c THEN sharing \cap Busy = {} /\ written = {}
                              ELSE alone[d] /\ (d \notin sharing \/ r.op = "download")]
              /\ before' = [before EXCEPT ![c] = Held(Subject(r))]
    /\ UNCHANGED <<fileVars, answer, openVars, spoilt>>

Return(c) ==
    /\ pc[c] = "done"
    /\ req' = [req EXCEPT ![c] = NoRequest]
    /\ pc' = [pc EXCEPT ![c] = "idle"]
    /\ answer' = [answer EXCEPT ![c] = "none"]
    /\ got' = [got EXCEPT ![c] = <<>>]
    /\ size' = [size EXCEPT ![c] = 0]
    /\ alone' = [alone EXCEPT ![c] = FALSE]
    /\ before' = [before EXCEPT ![c] = Absent]
    /\ UNCHANGED <<fileVars, fd, from, spoilt>>

(***************************************************************************)
(* Before a write.                                                         *)
(***************************************************************************)

\* assertOverwriteAllowed: fs.access of the destination.
Check(c) ==
    /\ pc[c] = "check"
    /\ IF entry[Target(c)] = NoInode
       THEN GoTo(c, "mkdir") /\ UNCHANGED openVars
       ELSE End(c, "conflict")
    /\ UNCHANGED <<fileVars, history>>

StepAfterMkdir(r) ==
    IF r.op = "upload" THEN "open" ELSE IF r.op = "copy" THEN "copyFile" ELSE "rename"

Mkdir(c) ==
    /\ pc[c] = "mkdir"
    /\ directory' = TRUE
    /\ GoTo(c, StepAfterMkdir(req[c]))
    /\ UNCHANGED <<entry, data, openVars, history>>

(***************************************************************************)
(* upload: a pipeline from the body into the file.                         *)
(***************************************************************************)

\* createWriteStream opens the file itself, and empties it.
Open(c) ==
    /\ pc[c] = "open"
    /\ directory
    /\ \E i \in FileFor(Target(c)) :
          /\ from' = from
          /\ OpenForWriting(c, Target(c), i)
    /\ GoTo(c, "write")
    /\ UNCHANGED <<directory, got, size, alone, before>>

\* The target is unlinked before the call ends with the error of open.
Discarding(c, error) ==
    /\ pc' = [pc EXCEPT ![c] = "discard"]
    /\ answer' = [answer EXCEPT ![c] = error]
    /\ UNCHANGED <<req, fileVars, openVars, history>>

\* A cleaning delete has taken the directory.
OpenFindsNoDirectory(c) == pc[c] = "open" /\ ~directory /\ Discarding(c, "missing")

OpenFails(c) == pc[c] = "open" /\ Discarding(c, "failed")

\* The name is unlinked even if the call has not made or emptied the file: it may
\* be the object to be replaced, or another caller's.  Or the unlink fails too.
Discard(c) ==
    /\ pc[c] = "discard"
    /\ End(c, answer[c])
    /\ entry' \in {entry, [entry EXCEPT ![Target(c)] = NoInode]}
    /\ Files(data, spoilt)
    /\ UNCHANGED <<directory, alone, before>>

\* The pipeline writes the next chunk of the body, or is at its end.
Write(c) ==
    LET n == Len(got[c]) + 1
        b == req[c].body
    IN  /\ pc[c] = "write"
        /\ UNCHANGED <<directory, entry, from, size, alone, before>>
        /\ IF n <= Length[b]
           THEN /\ data' = [data EXCEPT ![fd[c]] = Written(@, n, b)]
                /\ got' = [got EXCEPT ![c] = Append(@, b)]
                /\ UNCHANGED <<callVars, fd>>
                /\ UNCHANGED spoilt
           ELSE /\ GoTo(c, "size")
                /\ fd' = [fd EXCEPT ![c] = NoInode]
                /\ UNCHANGED got
                /\ Files(data, spoilt)

\* The body or the disk fails in between.
WriteFails(c) ==
    /\ pc[c] = "write"
    /\ GoTo(c, "cleanup")
    /\ UNCHANGED <<fileVars, openVars, history>>

\* (Faulty variant: the half-written file stays.)
CleanupForgotten(c) ==
    /\ pc[c] = "cleanup"
    /\ End(c, "failed")
    /\ UNCHANGED <<fileVars, history>>

\* What a failed upload leaves goes by its name, whatever that stands for by
\* now.  If the unlink fails too nobody hears of it.
Cleanup(c) ==
    /\ pc[c] = "cleanup"
    /\ End(c, "failed")
    /\ \/ /\ entry' = [entry EXCEPT ![Target(c)] = NoInode]
          /\ Files(data, IF entry[Target(c)] = fd[c] THEN spoilt ELSE spoilt \cup {fd[c]})
       \/ UNCHANGED entry /\ Files(data, spoilt \cup {fd[c]})
    /\ UNCHANGED <<directory, alone, before>>

\* The size of a body that is a stream is asked of the file.
Size(c) ==
    /\ pc[c] = "size"
    /\ \/ End(c, "ok")
       \/ entry[Target(c)] = NoInode /\ End(c, "missing")
    /\ UNCHANGED <<fileVars, history>>

(***************************************************************************)
(* delete, with or without cleanEmptyParents.                              *)
(***************************************************************************)

\* A missing file is no error, but then nothing is cleaned either.
Unlink(c) ==
    LET k == req[c].src IN
    /\ pc[c] = "unlink"
    /\ entry' = [entry EXCEPT ![k] = NoInode]
    /\ IF entry[k] # NoInode /\ req[c].op = "sweep"
       THEN GoTo(c, "readdir") /\ UNCHANGED openVars
       ELSE End(c, "ok")
    /\ Files(data, spoilt)
    /\ UNCHANGED <<directory, alone, before>>

IsEmpty == \A k \in Keys : entry[k] = NoInode

Readdir(c) ==
    /\ pc[c] = "readdir"
    /\ IF directory /\ IsEmpty
       THEN GoTo(c, "rmdir") /\ UNCHANGED openVars
       ELSE End(c, "ok")
    /\ UNCHANGED <<fileVars, history>>

\* (Faulty variant: the directory goes with all it holds.)
RmdirWithFiles(c) ==
    /\ pc[c] = "rmdir"
    /\ directory' = FALSE
    /\ End(c, "ok")
    /\ UNCHANGED <<entry, data, history>>

\* rmdir refuses a directory that is no longer empty; that is no error here.
Rmdir(c) ==
    /\ pc[c] = "rmdir"
    /\ directory' = (directory /\ ~IsEmpty)
    /\ End(c, "ok")
    /\ UNCHANGED <<entry, data, history>>

(***************************************************************************)
(* copy and move.                                                          *)
(***************************************************************************)

\* rename(2) is atomic, and takes the place of a file at the destination.
Rename(c) ==
    LET src == req[c].src
        dst == Target(c)
    IN  /\ pc[c] = "rename"
        /\ IF entry[src] = NoInode \/ ~directory
           THEN End(c, "missing") /\ UNCHANGED entry
           ELSE /\ End(c, "ok")
                /\ entry' = IF src = dst THEN entry
                            ELSE [entry EXCEPT ![dst] = entry[src], ![src] = NoInode]
        /\ Files(data, spoilt)
        /\ UNCHANGED <<directory, alone, before>>

\* EXDEV: the keys lie on different devices.
RenameRefused(c) ==
    /\ pc[c] = "rename"
    /\ req[c].src # Target(c)
    /\ entry[req[c].src] # NoInode
    /\ GoTo(c, "copyFile")
    /\ UNCHANGED <<fileVars, openVars, history>>

StepAfterCopy(r) == IF r.op = "move" THEN "unlinkSource" ELSE "copied"

\* copyFile opens both files; a file copied onto itself is left as it is.
CopyOpens(c) ==
    LET src == entry[req[c].src] IN
    /\ pc[c] = "copyFile"
    /\ src # NoInode
    /\ \/ /\ entry[Target(c)] = src
          /\ GoTo(c, StepAfterCopy(req[c]))
          /\ UNCHANGED <<entry, data, fd, from, spoilt>>
       \/ /\ entry[Target(c)] # src
          /\ \E i \in FileFor(Target(c)) :
                /\ from' = [from EXCEPT ![c] = src]
                /\ OpenForWriting(c, Target(c), i)
          /\ GoTo(c, "copying")
    /\ UNCHANGED <<directory, got, size, alone, before>>

CopyFindsNothing(c) ==
    /\ pc[c] = "copyFile"
    /\ entry[req[c].src] = NoInode
    /\ End(c, "missing")
    /\ UNCHANGED <<fileVars, history>>

CopyChunk(c) ==
    LET n == Len(got[c]) + 1 IN
    /\ pc[c] = "copying"
    /\ UNCHANGED <<directory, entry, size, alone, before>>
    /\ IF n <= Len(data[from[c]])
       THEN /\ data' = [data EXCEPT ![fd[c]] = Written(@, n, data[from[c]][n])]
            /\ got' = [got EXCEPT ![c] = Append(@, data[from[c]][n])]
            /\ UNCHANGED <<callVars, fd, from, spoilt>>
       ELSE /\ GoTo(c, StepAfterCopy(req[c]))
            /\ fd' = [fd EXCEPT ![c] = NoInode]
            /\ from' = [from EXCEPT ![c] = NoInode]
            /\ UNCHANGED got
            /\ Files(data, spoilt)

\* (Faulty variant: the fallback deletes the source of a copy that failed.)
CopyFailsUnnoticed(c) ==
    /\ pc[c] = "copying"
    /\ GoTo(c, StepAfterCopy(req[c]))
    /\ UNCHANGED <<fileVars, openVars, history>>

\* copyFile removes the destination, again by its name.
CopyFails(c) ==
    /\ pc[c] = "copying"
    /\ GoTo(c, "cleanup")
    /\ UNCHANGED <<fileVars, openVars, history>>

\* copy() ends with the stat of the new file.
Copied(c) ==
    /\ pc[c] = "copied"
    /\ End(c, IF entry[Target(c)] = NoInode THEN "missing" ELSE "ok")
    /\ UNCHANGED <<fileVars, history>>

\* The fallback of move() on another device.
UnlinkSource(c) ==
    LET src == req[c].src IN
    /\ pc[c] = "unlinkSource"
    /\ entry' = [entry EXCEPT ![src] = NoInode]
    /\ End(c, IF entry[src] = NoInode THEN "missing" ELSE "ok")
    /\ Files(data, spoilt)
    /\ UNCHANGED <<directory, alone, before>>

(***************************************************************************)
(* download: a stat, then a stream that opens the file on its own.         *)
(***************************************************************************)

Stat(c) ==
    /\ pc[c] = "stat"
    /\ IF entry[req[c].src] = NoInode
       THEN End(c, "missing")
       ELSE /\ GoTo(c, "openRead")
            /\ size' = [size EXCEPT ![c] = Len(Held(req[c].src))]
            /\ UNCHANGED <<fd, from, got>>
    /\ UNCHANGED <<fileVars, history>>

OpenRead(c) ==
    LET i == entry[req[c].src] IN
    /\ pc[c] = "openRead"
    /\ IF i = NoInode
       THEN End(c, "missing")
       ELSE /\ GoTo(c, "read")
            /\ fd' = [fd EXCEPT ![c] = i]
            /\ UNCHANGED <<from, got, size>>
    /\ UNCHANGED <<fileVars, history>>

Read(c) ==
    LET n == Len(got[c]) + 1 IN
    /\ pc[c] = "read"
    /\ UNCHANGED <<directory, entry, alone, before>>
    /\ IF n <= Len(data[fd[c]])
       THEN /\ got' = [got EXCEPT ![c] = Append(@, data[fd[c]][n])]
            /\ UNCHANGED <<callVars, fd, from, size, data, spoilt>>
       ELSE End(c, "ok") /\ Files(data, spoilt)

\* A call of node:fs fails for another reason than a missing file: also the stat
\* that ends an upload or a copy, when the object is stored.
CallFails(c) ==
    /\ pc[c] \in {"check", "mkdir", "size", "unlink", "rename", "copyFile", "copied",
                  "unlinkSource", "stat", "openRead", "read"}
    /\ End(c, "failed")
    /\ UNCHANGED <<directory, entry, alone, before>>
    /\ Files(data, spoilt)

CallStep(c) ==
    \/ Check(c) \/ Mkdir(c)
    \/ Open(c) \/ OpenFindsNoDirectory(c) \/ OpenFails(c) \/ Discard(c)
    \/ Write(c) \/ WriteFails(c) \/ Cleanup(c) \/ Size(c)
    \/ Unlink(c) \/ Readdir(c) \/ Rmdir(c)
    \/ Rename(c) \/ RenameRefused(c)
    \/ CopyOpens(c) \/ CopyFindsNothing(c) \/ CopyChunk(c) \/ CopyFails(c) \/ Copied(c)
    \/ UnlinkSource(c)
    \/ Stat(c) \/ OpenRead(c) \/ Read(c)
    \/ CallFails(c)
    \/ Return(c)

Next == \E c \in Callers : Invoke(c) \/ (CallStep(c) /\ UNCHANGED calls)

Spec == Init /\ [][Next]_vars

(***************************************************************************)
(* Properties.                                                             *)
(***************************************************************************)

\* One that fails at its last stat has stored the whole body nevertheless.
UploadAlone(c) ==
    LET r == req[c]
        now == Held(r.dst)
    IN  /\ answer[c] = "ok" => now = Whole(r.body) /\ (r.overwrite \/ before[c] = Absent)
        /\ answer[c] = "conflict" => ~r.overwrite /\ now = before[c] /\ now # Absent
        /\ answer[c] = "failed" =>
              \/ now \in {before[c], Absent, Whole(r.body)}
              \/ entry[r.dst] \in spoilt
        /\ answer[c] # "missing"

DeleteAlone(c) ==
    LET now == Held(req[c].src) IN
    /\ answer[c] = "ok" => now = Absent
    /\ answer[c] = "failed" => now = before[c]
    /\ answer[c] # "missing"

CopyAlone(c) ==
    /\ Held(req[c].src) = before[c]
    /\ answer[c] = "ok" => Held(req[c].dst) = before[c] /\ before[c] # Absent
    /\ answer[c] = "missing" => before[c] = Absent

\* A move that fails may have made a copy, or part of one, but then the
\* object is still at its source.
MoveAlone(c) ==
    LET r == req[c] IN
    /\ before[c] \in {Held(r.src), Held(r.dst)}
    /\ answer[c] = "ok" => Held(r.dst) = before[c] /\ (r.src = r.dst \/ Held(r.src) = Absent)
    /\ answer[c] = "missing" => before[c] = Absent

DownloadAlone(c) ==
    /\ answer[c] = "ok" => got[c] = before[c] /\ size[c] = Len(got[c])
    /\ answer[c] = "missing" => before[c] = Absent

\* A call during which no other call has to do with its keys does what the
\* StorageDriver interface promises, at every step and whatever else happens
\* in the directory: an upload that succeeds is whole, and one that fails leaves
\* the object it was to replace, its whole body, no file, or one that could not be
\* unlinked; a move never loses the object, a download gets the object and its
\* length, and "missing" is answered only of what was not there.  (Calls that
\* meet may tear files, remove each other's or find them missing.)
LoneCallsKeepTheirWord ==
    \A c \in Callers :
        alone[c] =>
            /\ req[c].op = "upload" => UploadAlone(c)
            /\ req[c].op \in {"delete", "sweep"} => DeleteAlone(c)
            /\ req[c].op = "copy" => CopyAlone(c)
            /\ req[c].op = "move" => MoveAlone(c)
            /\ req[c].op = "download" => DownloadAlone(c)

\* A file that nobody is writing holds one whole body, unless it was written
\* by two callers at once, was copied from a file being written, or is what a
\* failed write could not remove: because unlink failed, or because the name
\* stood for another file by then.
FilesAtRestAreWhole ==
    \A k \in Keys :
        entry[k] # NoInode /\ Writers(entry[k]) = {} /\ entry[k] \notin spoilt
        => IsWhole(data[entry[k]])
=============================================================================
