-------------------------- MODULE LocalDriverProofs --------------------------
(***************************************************************************)
(* What the local driver does to its files, for any number of callers,     *)
(* keys, bodies and files.                                                 *)
(***************************************************************************)
EXTENDS LocalDriver, TLAPS

(***************************************************************************)
(* What a file holds.                                                      *)
(***************************************************************************)

\* The first n chunks of a body.
Part(b, n) == [m \in 1 .. n |-> b]

\* A file holds chunks, and places that nobody has written.
LEMMA ContentsAre ==
    ASSUME NEW s
    PROVE  s \in Contents <=> s \in Seq(MaybeBody) /\ Len(s) \in Nat
BY DEF Contents

\* An empty file is a file, no file is none.
LEMMA EmptyIsContent == <<>> \in Contents /\ Len(<<>>) = 0 /\ Absent \notin Contents
<1>1. DOMAIN Absent = {0}
  BY DEF Absent
<1>2. ASSUME Absent \in Contents
      PROVE  FALSE
  <2>1. DOMAIN Absent = 1 .. Len(Absent) /\ Len(Absent) \in Nat
    BY <1>2 DEF Contents
  <2>2. 0 \notin 1 .. Len(Absent)
    BY <2>1
  <2> QED
    BY <1>1, <2>1, <2>2
<1>3. <<>> \in Contents
  BY DEF Contents
<1> QED
  BY <1>2, <1>3

\* Chunk by chunk a body becomes longer.
LEMMA PartIs ==
    ASSUME NEW b \in Bodies, NEW n \in Nat
    PROVE  /\ Part(b, n) \in Contents /\ Len(Part(b, n)) = n
           /\ \A m \in 1 .. n : Part(b, n)[m] = b
           /\ Append(Part(b, n), b) = Part(b, n + 1)
<1>1. Part(b, n) \in Seq(MaybeBody) /\ Len(Part(b, n)) = n
  BY DEF Part, MaybeBody
<1>2. \A m \in 1 .. n : Part(b, n)[m] = b
  BY DEF Part
<1>3. Part(b, n + 1) \in Seq(MaybeBody) /\ Len(Part(b, n + 1)) = n + 1
  BY DEF Part, MaybeBody
<1>4. \A m \in 1 .. n + 1 : Append(Part(b, n), b)[m] = b /\ Part(b, n + 1)[m] = b
  BY <1>1, <1>2 DEF Part, MaybeBody
<1>5. Append(Part(b, n), b) = Part(b, n + 1)
  <2>1. Append(Part(b, n), b) \in Seq(MaybeBody) /\ Len(Append(Part(b, n), b)) = n + 1
    BY <1>1 DEF MaybeBody
  <2> HIDE DEF Part
  <2> QED
    BY <1>3, <1>4, <2>1
<1> QED
  BY <1>1, <1>2, <1>5, ContentsAre

\* A whole body is as many chunks as it is long, and fits into a file.
LEMMA WholeIs ==
    ASSUME NEW b \in Bodies
    PROVE  /\ Length[b] \in Nat /\ Whole(b) = Part(b, Length[b])
           /\ Whole(b) \in Contents /\ Len(Whole(b)) = Length[b]
<1>1. Length[b] \in Nat
  BY LengthAssumption
<1>2. Whole(b) = Part(b, Length[b])
  BY DEF Whole, Part
<1>3. Length[b] \in Nat
  BY <1>1
<1> QED
  BY <1>1, <1>2, <1>3, PartIs

\* Writing at the end of a file appends to it.
LEMMA WrittenIs ==
    ASSUME NEW s \in Contents, NEW n \in Nat \ {0}, NEW b \in MaybeBody
    PROVE  /\ Written(s, n, b) \in Contents
           /\ n = Len(s) + 1 => Written(s, n, b) = Append(s, b)
<1>1. s \in Seq(MaybeBody) /\ Len(s) \in Nat
  BY ContentsAre
<1> DEFINE len == IF n > Len(s) THEN n ELSE Len(s)
<1>2. len \in Nat
  BY <1>1
<1>3. \A m \in 1 .. len : Written(s, n, b)[m] \in MaybeBody
  <2> SUFFICES ASSUME NEW m \in 1 .. len
               PROVE  Written(s, n, b)[m] \in MaybeBody
    OBVIOUS
  <2>1. Written(s, n, b)[m] = IF m = n THEN b ELSE IF m <= Len(s) THEN s[m] ELSE Hole
    BY DEF Written
  <2>2. Hole \in MaybeBody
    BY DEF Hole, MaybeBody
  <2>3. m <= Len(s) => s[m] \in MaybeBody
    BY <1>1, <1>2
  <2> QED
    BY <2>1, <2>2, <2>3
<1>4. Written(s, n, b) \in [1 .. len -> MaybeBody]
  BY <1>3 DEF Written
<1>5. Written(s, n, b) \in Contents
  BY <1>2, <1>4 DEF Contents
<1>6. ASSUME n = Len(s) + 1
      PROVE  Written(s, n, b) = Append(s, b)
  <2>1. Append(s, b) \in Seq(MaybeBody) /\ Len(Append(s, b)) = n
    BY <1>1, <1>6
  <2>2. Written(s, n, b) \in Seq(MaybeBody) /\ Len(Written(s, n, b)) = n
    BY <1>1, <1>4, <1>6
  <2>3. \A m \in 1 .. n : Written(s, n, b)[m] = Append(s, b)[m]
    BY <1>1, <1>6 DEF Written
  <2> HIDE DEF len
  <2> QED
    BY <2>1, <2>2, <2>3
<1> QED
  BY <1>5, <1>6

\* Reading the chunk after those that were read before.
LEMMA AppendIs ==
    ASSUME NEW s \in Contents, NEW t \in Contents, Len(s) + 1 <= Len(t)
    PROVE  LET n == Len(s) + 1
           IN  /\ n \in Nat \ {0} /\ t[n] \in MaybeBody
               /\ Append(s, t[n]) \in Contents /\ Len(Append(s, t[n])) = n
               /\ Append(s, t[n])[n] = t[n]
               /\ \A m \in 1 .. Len(s) : Append(s, t[n])[m] = s[m]
<1>1. s \in Seq(MaybeBody) /\ Len(s) \in Nat /\ t \in Seq(MaybeBody) /\ Len(t) \in Nat
  BY ContentsAre
<1>2. Len(s) + 1 \in Nat \ {0} /\ Len(s) + 1 \in 1 .. Len(t)
  BY <1>1
<1>3. t[Len(s) + 1] \in MaybeBody
  BY <1>1, <1>2
<1>4. /\ Append(s, t[Len(s) + 1]) \in Seq(MaybeBody)
      /\ Len(Append(s, t[Len(s) + 1])) = Len(s) + 1
      /\ Append(s, t[Len(s) + 1])[Len(s) + 1] = t[Len(s) + 1]
      /\ \A m \in 1 .. Len(s) : Append(s, t[Len(s) + 1])[m] = s[m]
  BY <1>1, <1>3
<1>5. Append(s, t[Len(s) + 1]) \in Contents
  <2>1. Len(Append(s, t[Len(s) + 1])) \in Nat
    BY <1>2, <1>4
  <2> QED
    BY <1>4, <2>1, ContentsAre
<1> QED
  BY <1>2, <1>3, <1>4, <1>5

(***************************************************************************)
(* Callers.                                                                *)
(***************************************************************************)

\* What a caller does, has open and has read, at each of its steps.
AtStage(c) ==
    LET At(steps, ops) == pc[c] \in steps => req[c].op \in ops
    IN  /\ pc[c] = "idle" <=> req[c] = NoRequest
        /\ At({"check", "mkdir", "cleanup"}, {"upload", "copy", "move"})
        /\ At({"open", "write", "size", "discard"}, {"upload"})
        /\ At({"rename", "unlinkSource"}, {"move"})
        /\ At({"copyFile", "copying"}, {"copy", "move"})
        /\ At({"copied"}, {"copy"})
        /\ At({"unlink"}, {"delete", "sweep"})
        /\ At({"readdir", "rmdir"}, {"sweep"})
        /\ At({"stat", "openRead", "read"}, {"download"})
        /\ pc[c] \notin {"done", "discard"} => answer[c] = "none"
        /\ pc[c] = "discard" => answer[c] \in {"missing", "failed"}
        /\ fd[c] # NoInode <=> pc[c] \in {"write", "cleanup", "copying", "read"}
        /\ pc[c] = "copying" => from[c] # NoInode
        /\ from[c] # NoInode => pc[c] \in {"copying", "cleanup"}
        /\ pc[c] \in {"idle", "check", "mkdir", "open", "rename", "copyFile", "stat", "openRead"}
              => got[c] = <<>>
        /\ pc[c] = "write" => /\ got[c] = Part(req[c].body, Len(got[c]))
                              /\ Len(got[c]) <= Length[req[c].body]

Staged == TypeOK /\ \A c \in Callers : AtStage(c)

\* The part of the types that is about callers, and the part about files.
CallersTyped ==
    /\ req \in [Callers -> Calls \cup {NoRequest}]
    /\ pc \in [Callers -> Steps]
    /\ answer \in [Callers -> Answers]
    /\ fd \in [Callers -> Inodes \cup {NoInode}]
    /\ from \in [Callers -> Inodes \cup {NoInode}]
    /\ got \in [Callers -> Contents]
    /\ size \in [Callers -> Nat]
    /\ alone \in [Callers -> BOOLEAN]
    /\ before \in [Callers -> {Absent} \cup Contents]

FilesTyped ==
    /\ directory \in BOOLEAN
    /\ entry \in [Keys -> Inodes \cup {NoInode}]
    /\ data \in [Inodes -> Contents]
    /\ spoilt \in SUBSET Inodes
    /\ (\E k \in Keys : entry[k] # NoInode) => directory

\* The types are those of the callers, of the files, and of the bound.
LEMMA TypedIs == TypeOK <=> CallersTyped /\ FilesTyped /\ calls \in 0 .. MaxCalls
BY DEF TypeOK, CallersTyped, FilesTyped

\* A step of one caller leaves the others where they are.
OthersWait(c) ==
    \A d \in Callers \ {c} :
        /\ req'[d] = req[d] /\ pc'[d] = pc[d] /\ answer'[d] = answer[d]
        /\ fd'[d] = fd[d] /\ from'[d] = from[d] /\ got'[d] = got[d] /\ size'[d] = size[d]
        /\ before'[d] = before[d]

\* Whose part of the state is unchanged stays at its stage.
LEMMA StageIsOnesOwn ==
    ASSUME NEW c \in Callers, NEW d \in Callers \ {c}, AtStage(d), OthersWait(c)
    PROVE  AtStage(d)'
BY DEF AtStage, OthersWait

\* What a call can be.
LEMMA CallsAre ==
    ASSUME Staged, NEW c \in Callers
    PROVE  /\ pc[c] # "idle" => req[c] \in Calls
           /\ req[c].op = "upload" =>
                 req[c].dst \in Keys /\ req[c].body \in Bodies /\ req[c].src = None
           /\ req[c].op \in {"delete", "sweep", "download"} =>
                 req[c].src \in Keys /\ req[c].dst = None
           /\ req[c].op \in {"copy", "move"} => req[c].src \in Keys /\ req[c].dst \in Keys
           /\ req[c] \in Calls => req[c].op # "none"
<1>1. req[c] \in Calls \cup {NoRequest} /\ (pc[c] = "idle" <=> req[c] = NoRequest)
  BY DEF Staged, TypeOK, AtStage
<1>2. req[c] \in Requests \cup Sweeps \cup Downloads \cup {NoRequest}
  BY <1>1, LocalCallsAssumption
<1>3. pc[c] # "idle" => req[c] \in Calls
  BY <1>1
<1>4. req[c] \in Calls => req[c].op # "none"
  <2>1. \A r \in Requests \cup Sweeps \cup Downloads : r.op # "none"
    BY DEF Requests, Uploads, Deletes, Copies, Moves, Sweeps, Downloads
  <2> QED
    BY <2>1, LocalCallsAssumption
<1> DEFINE r == req[c]
<1>5. \/ r \in Uploads \/ r \in Deletes \cup Sweeps \cup Downloads \/ r \in Copies \cup Moves
      \/ r = NoRequest
  BY <1>2 DEF Requests
<1>6. CASE r \in Uploads
  BY <1>3, <1>4, <1>6 DEF Uploads
<1>7. CASE r \in Deletes \cup Sweeps \cup Downloads
  BY <1>3, <1>4, <1>7 DEF Deletes, Sweeps, Downloads
<1>8. CASE r \in Copies \cup Moves
  BY <1>3, <1>4, <1>8 DEF Copies, Moves
<1>9. CASE r = NoRequest
  BY <1>3, <1>4, <1>9 DEF NoRequest
<1> QED
  BY <1>5, <1>6, <1>7, <1>8, <1>9

\* A call that has begun is of one of the six operations.
LEMMA OpsAre ==
    ASSUME Staged, NEW c \in Callers, pc[c] # "idle"
    PROVE  req[c].op \in {"upload", "delete", "sweep", "copy", "move", "download"}
<1>1. req[c] \in Requests \cup Sweeps \cup Downloads
  BY CallsAre, LocalCallsAssumption
<1> QED
  BY <1>1 DEF Requests, Uploads, Deletes, Copies, Moves, Sweeps, Downloads

\* The call ends with its files closed.
LEMMA Ends ==
    ASSUME Staged, NEW c \in Callers, pc[c] # "idle", NEW a \in Answers, End(c, a),
           UNCHANGED <<alone, before>>
    PROVE  CallersTyped' /\ OthersWait(c) /\ AtStage(c)'
<1>1. CallersTyped'
  BY DEF Staged, TypeOK, End, CallersTyped, Steps
<1>2. OthersWait(c)
  BY DEF Staged, TypeOK, End, OthersWait
<1>3. pc'[c] = "done" /\ fd'[c] = NoInode /\ from'[c] = NoInode /\ req'[c] = req[c]
  BY DEF Staged, TypeOK, End
<1>4. req[c] # NoRequest
  BY DEF Staged, AtStage
<1> QED
  BY <1>1, <1>2, <1>3, <1>4 DEF AtStage

\* The call goes on.
LEMMA GoesOn ==
    ASSUME Staged, NEW c \in Callers, NEW s \in Steps, GoTo(c, s)
    PROVE  /\ pc' \in [Callers -> Steps] /\ pc'[c] = s /\ UNCHANGED <<req, answer>>
           /\ \A d \in Callers \ {c} : pc'[d] = pc[d]
BY DEF Staged, TypeOK, GoTo

\* The call goes on and opens, closes and reads nothing.
LEMMA GoesOnWithout ==
    ASSUME Staged, NEW c \in Callers, NEW s \in Steps, GoTo(c, s),
           UNCHANGED <<openVars, alone, before>>
    PROVE  CallersTyped' /\ OthersWait(c)
<1>1. /\ pc' \in [Callers -> Steps] /\ pc'[c] = s /\ UNCHANGED <<req, answer>>
      /\ \A d \in Callers \ {c} : pc'[d] = pc[d]
  BY GoesOn
<1> QED
  BY <1>1 DEF openVars, Staged, TypeOK, CallersTyped, OthersWait

\* What is in use keeps what it holds; nothing else does.
LEMMA FilesAre ==
    ASSUME NEW d \in [Inodes -> Contents], NEW s \in SUBSET Inodes, Files(d, s)
    PROVE  /\ data' \in [Inodes -> Contents] /\ spoilt' \in SUBSET Inodes
           /\ \A i \in Inodes : i \in InUse' => data'[i] = d[i] /\ (i \in spoilt' <=> i \in s)
           /\ spoilt' \subseteq s
<1>1. /\ data' = [i \in Inodes |-> IF i \in InUse' THEN d[i] ELSE <<>>]
      /\ spoilt' = s \cap InUse'
  BY DEF Files
<1> HIDE DEF InUse
<1> QED
  BY <1>1, EmptyIsContent

\* No file has two names.
OneNameEach == \A j, k \in Keys : entry[j] = entry[k] /\ entry[j] # NoInode => j = k

(***************************************************************************)
(* What a step does to the files: there are five kinds.                     *)
(***************************************************************************)

\* It writes none, and forgets none.
Quiet(c) ==
    /\ UNCHANGED <<entry, data, spoilt>>
    /\ Writes(c)' <=> Writes(c)
    /\ Writes(c) => fd'[c] = fd[c] /\ from'[c] = from[c]
    /\ pc'[c] \notin {"write", "copying"}

\* The names that a step may change, and whether it may remove the directory.
Reaches(c) ==
    /\ \A k \in Keys : entry'[k] # entry[k] =>
          k \in {req[c].src, req[c].dst} /\ req[c].op # "download"
    /\ directory' = directory \/ directory' = TRUE \/ req[c].op = "sweep"

\* What a step of c leaves behind, whatever it does to the files.
Sound(c) == CallersTyped' /\ FilesTyped' /\ OthersWait(c) /\ AtStage(c)' /\ Reaches(c)

\* A call that is not writing ends, and takes at most an empty directory with it.
LEMMA QuietEnd ==
    ASSUME Staged, NEW c \in Callers, pc[c] # "idle", ~Writes(c),
           NEW a \in Answers, End(c, a), UNCHANGED <<entry, data, history>>,
           \/ directory' = directory
           \/ directory' = FALSE /\ req[c].op = "sweep" /\ \A k \in Keys : entry[k] = NoInode
    PROVE  Sound(c) /\ Quiet(c)
<1>1. CallersTyped' /\ OthersWait(c) /\ AtStage(c)'
  BY Ends DEF history
<1>2. FilesTyped'
  BY DEF Staged, TypeOK, FilesTyped, history
<1>3. pc'[c] = "done" /\ Reaches(c)
  BY DEF End, Staged, TypeOK, Reaches
<1> QED
  BY <1>1, <1>2, <1>3 DEF Sound, Quiet, Writes, history

\* A call goes on, or gives up writing; it may have made the directory.
LEMMA QuietStep ==
    ASSUME Staged, NEW c \in Callers, NEW s \in Steps, GoTo(c, s), AtStage(c)',
           UNCHANGED <<openVars, entry, data, history>>,
           directory' = directory \/ directory' = TRUE,
           s \notin {"write", "copying"}, Writes(c) <=> s = "cleanup"
    PROVE  Sound(c) /\ Quiet(c)
<1>1. CallersTyped' /\ OthersWait(c) /\ pc'[c] = s
  BY GoesOn, GoesOnWithout DEF history
<1>2. FilesTyped'
  BY DEF Staged, TypeOK, FilesTyped, history
<1>3. UNCHANGED <<fd, from>> /\ Reaches(c)
  BY DEF openVars, Reaches
<1> QED
  BY <1>1, <1>2, <1>3 DEF Sound, Quiet, Writes, history

\* fs.access of the destination changes no file.
LEMMA CheckIs ==
    ASSUME Staged, NEW c \in Callers, Check(c)
    PROVE  Sound(c) /\ Quiet(c)
<1>1. AtStage(c) /\ CallersTyped
  BY DEF Staged, TypeOK, CallersTyped
<1>2. CASE GoTo(c, "mkdir") /\ UNCHANGED openVars
  <2>1. "mkdir" \in Steps /\ pc[c] = "check"
    BY DEF Steps, Check
  <2>2. pc'[c] = "mkdir" /\ UNCHANGED <<req, answer>>
    BY <1>2, <2>1, GoesOn
  <2>3. AtStage(c)'
    BY <1>1, <1>2, <2>1, <2>2 DEF AtStage, openVars
  <2> QED
    BY <1>2, <2>1, <2>3, QuietStep DEF Check, fileVars, Writes
<1>3. CASE End(c, "conflict")
  <2>1. "conflict" \in Answers
    BY DEF Answers
  <2> QED
    BY <1>3, <2>1, QuietEnd DEF Check, fileVars, Writes
<1> QED
  BY <1>2, <1>3 DEF Check

\* fs.mkdir changes no file.
LEMMA MkdirIs ==
    ASSUME Staged, NEW c \in Callers, Mkdir(c)
    PROVE  Sound(c) /\ Quiet(c)
<1> DEFINE s == StepAfterMkdir(req[c])
<1>1. AtStage(c) /\ pc[c] = "mkdir" /\ s \in Steps /\ GoTo(c, s) /\ UNCHANGED openVars
  BY DEF Staged, Steps, Mkdir, StepAfterMkdir
<1>2. pc'[c] = s /\ UNCHANGED <<req, answer>>
  BY <1>1, GoesOn
<1>3. AtStage(c)'
  BY <1>1, <1>2 DEF AtStage, openVars, StepAfterMkdir
<1>4. s \notin {"write", "copying", "cleanup"}
  BY DEF StepAfterMkdir
<1> QED
  BY <1>1, <1>3, <1>4, QuietStep DEF Mkdir, fileVars, Writes

\* A pipeline that fails leaves the file as far as it was written.
LEMMA WriteFailsIs ==
    ASSUME Staged, NEW c \in Callers, WriteFails(c)
    PROVE  Sound(c) /\ Quiet(c)
<1>1. /\ AtStage(c) /\ pc[c] = "write" /\ "cleanup" \in Steps
      /\ GoTo(c, "cleanup") /\ UNCHANGED openVars
  BY DEF Staged, Steps, WriteFails
<1>2. pc'[c] = "cleanup" /\ UNCHANGED <<req, answer>>
  BY <1>1, GoesOn
<1>3. AtStage(c)'
  BY <1>1, <1>2 DEF AtStage, openVars
<1> QED
  BY <1>1, <1>3, QuietStep DEF WriteFails, fileVars, Writes

\* A rename refused by the file system changes no file.
LEMMA RenameRefusedIs ==
    ASSUME Staged, NEW c \in Callers, RenameRefused(c)
    PROVE  Sound(c) /\ Quiet(c)
<1>1. /\ AtStage(c) /\ pc[c] = "rename" /\ "copyFile" \in Steps
      /\ GoTo(c, "copyFile") /\ UNCHANGED openVars
  BY DEF Staged, Steps, RenameRefused
<1>2. pc'[c] = "copyFile" /\ UNCHANGED <<req, answer>>
  BY <1>1, GoesOn
<1>3. AtStage(c)'
  BY <1>1, <1>2 DEF AtStage, openVars
<1> QED
  BY <1>1, <1>3, QuietStep DEF RenameRefused, fileVars, Writes

\* A copyFile that fails leaves the file as far as it was copied.
LEMMA CopyFailsIs ==
    ASSUME Staged, NEW c \in Callers, CopyFails(c)
    PROVE  Sound(c) /\ Quiet(c)
<1>1. /\ AtStage(c) /\ pc[c] = "copying" /\ "cleanup" \in Steps
      /\ GoTo(c, "cleanup") /\ UNCHANGED openVars
  BY DEF Staged, Steps, CopyFails
<1>2. pc'[c] = "cleanup" /\ UNCHANGED <<req, answer>>
  BY <1>1, GoesOn
<1>3. AtStage(c)'
  BY <1>1, <1>2 DEF AtStage, openVars
<1> QED
  BY <1>1, <1>3, QuietStep DEF CopyFails, fileVars, Writes

\* An upload that opens nothing has changed no file when it goes on to unlink.
LEMMA DiscardingIs ==
    ASSUME Staged, NEW c \in Callers, NEW error \in {"missing", "failed"},
           pc[c] = "open", Discarding(c, error)
    PROVE  Sound(c) /\ Quiet(c)
<1>1. AtStage(c) /\ "discard" \in Steps /\ error \in Answers
  BY DEF Staged, Steps, Answers
<1>2. /\ pc' = [pc EXCEPT ![c] = "discard"] /\ answer' = [answer EXCEPT ![c] = error]
      /\ UNCHANGED <<req, directory, entry, data, fd, from, got, size, alone, before, spoilt>>
  BY DEF Discarding, fileVars, openVars, history
<1>3. pc'[c] = "discard" /\ answer'[c] = error
  BY <1>2 DEF Staged, TypeOK
<1>4. CallersTyped' /\ FilesTyped' /\ OthersWait(c)
  BY <1>1, <1>2 DEF Staged, TypeOK, CallersTyped, FilesTyped, OthersWait
<1>5. AtStage(c)'
  BY <1>1, <1>2, <1>3 DEF AtStage
<1> QED
  BY <1>2, <1>3, <1>4, <1>5 DEF Sound, Quiet, Writes, Reaches

\* Whether or not there is a directory.
LEMMA OpenFailsIs ==
    ASSUME Staged, NEW c \in Callers, OpenFindsNoDirectory(c) \/ OpenFails(c)
    PROVE  Sound(c) /\ Quiet(c)
BY DiscardingIs DEF OpenFindsNoDirectory, OpenFails

\* The stat after an upload changes no file.
LEMMA SizeIs ==
    ASSUME Staged, NEW c \in Callers, Size(c)
    PROVE  Sound(c) /\ Quiet(c)
<1>1. PICK a \in Answers : End(c, a)
  BY DEF Answers, Size
<1> QED
  BY <1>1, QuietEnd DEF Size, fileVars, Writes

\* rmdir takes the directory only when no key has a file in it.
LEMMA RmdirIs ==
    ASSUME Staged, NEW c \in Callers, Rmdir(c)
    PROVE  Sound(c) /\ Quiet(c)
<1>1. PICK a \in Answers : End(c, a)
  BY DEF Answers, Rmdir
<1>2. \/ directory' = directory
      \/ directory' = FALSE /\ req[c].op = "sweep" /\ \A k \in Keys : entry[k] = NoInode
  BY DEF Rmdir, IsEmpty, Staged, TypeOK, AtStage
<1> QED
  BY <1>1, <1>2, QuietEnd DEF Rmdir, Writes

\* A copyFile of a missing source opens nothing.
LEMMA CopyFindsNothingIs ==
    ASSUME Staged, NEW c \in Callers, CopyFindsNothing(c)
    PROVE  Sound(c) /\ Quiet(c)
<1>1. PICK a \in Answers : End(c, a)
  BY DEF Answers, CopyFindsNothing
<1> QED
  BY <1>1, QuietEnd DEF CopyFindsNothing, fileVars, Writes

\* The stat after a copy changes no file.
LEMMA CopiedIs ==
    ASSUME Staged, NEW c \in Callers, Copied(c)
    PROVE  Sound(c) /\ Quiet(c)
<1>1. PICK a \in Answers : End(c, a)
  BY DEF Answers, Copied
<1> QED
  BY <1>1, QuietEnd DEF Copied, fileVars, Writes

\* readdir changes no file.
LEMMA ReaddirIs ==
    ASSUME Staged, NEW c \in Callers, Readdir(c)
    PROVE  Sound(c) /\ Quiet(c)
<1>1. AtStage(c) /\ pc[c] = "readdir" /\ "rmdir" \in Steps /\ "ok" \in Answers
  BY DEF Staged, Steps, Answers, Readdir
<1>2. CASE GoTo(c, "rmdir") /\ UNCHANGED openVars
  <2>1. pc'[c] = "rmdir" /\ UNCHANGED <<req, answer>>
    BY <1>1, <1>2, GoesOn
  <2>2. AtStage(c)'
    BY <1>1, <1>2, <2>1 DEF AtStage, openVars
  <2> QED
    BY <1>1, <1>2, <2>2, QuietStep DEF Readdir, fileVars, Writes
<1>3. CASE End(c, "ok")
  BY <1>1, <1>3, QuietEnd DEF Readdir, fileVars, Writes
<1> QED
  BY <1>2, <1>3 DEF Readdir

\* The stat of a download changes no file.
LEMMA StatIs ==
    ASSUME Staged, NEW c \in Callers, Stat(c)
    PROVE  Sound(c) /\ Quiet(c)
<1>1. /\ AtStage(c) /\ pc[c] = "stat" /\ "openRead" \in Steps /\ "missing" \in Answers
      /\ UNCHANGED <<fileVars, history>>
  BY DEF Staged, Steps, Answers, Stat
<1>2. CASE End(c, "missing")
  BY <1>1, <1>2, QuietEnd DEF fileVars, Writes
<1>3. CASE ~End(c, "missing")
  <2>1. /\ entry[req[c].src] # NoInode /\ GoTo(c, "openRead") /\ UNCHANGED <<fd, from, got>>
        /\ size' = [size EXCEPT ![c] = Len(Held(req[c].src))]
    BY <1>3 DEF Stat
  <2>2. /\ pc' \in [Callers -> Steps] /\ pc'[c] = "openRead" /\ UNCHANGED <<req, answer>>
        /\ \A d \in Callers \ {c} : pc'[d] = pc[d]
    BY <1>1, <2>1, GoesOn
  <2>3. req[c].src \in Keys
    BY <1>1, CallsAre DEF AtStage
  <2>4. Len(Held(req[c].src)) \in Nat
    BY <2>1, <2>3, ContentsAre DEF Held, Staged, TypeOK
  <2>5. size' \in [Callers -> Nat] /\ \A d \in Callers \ {c} : size'[d] = size[d]
    BY <2>1, <2>4 DEF Staged, TypeOK
  <2>6. CallersTyped' /\ OthersWait(c) /\ AtStage(c)'
    BY <1>1, <2>1, <2>2, <2>5 DEF Staged, TypeOK, CallersTyped, OthersWait, AtStage, history
  <2>7. FilesTyped'
    BY <1>1 DEF Staged, TypeOK, FilesTyped, fileVars, history
  <2> QED
    BY <1>1, <2>2, <2>6, <2>7 DEF Sound, Quiet, Writes, Reaches, fileVars, history
<1> QED
  BY <1>2, <1>3

\* Opening a file to read it changes no file.
LEMMA OpenReadIs ==
    ASSUME Staged, NEW c \in Callers, OpenRead(c)
    PROVE  Sound(c) /\ Quiet(c)
<1>1. /\ AtStage(c) /\ pc[c] = "openRead" /\ "read" \in Steps /\ "missing" \in Answers
      /\ UNCHANGED <<fileVars, history>>
  BY DEF Staged, Steps, Answers, OpenRead
<1>2. CASE End(c, "missing")
  BY <1>1, <1>2, QuietEnd DEF fileVars, Writes
<1>3. CASE ~End(c, "missing")
  <2>1. /\ entry[req[c].src] # NoInode /\ GoTo(c, "read") /\ UNCHANGED <<from, got, size>>
        /\ fd' = [fd EXCEPT ![c] = entry[req[c].src]]
    BY <1>3 DEF OpenRead
  <2>2. /\ pc' \in [Callers -> Steps] /\ pc'[c] = "read" /\ UNCHANGED <<req, answer>>
        /\ \A d \in Callers \ {c} : pc'[d] = pc[d]
    BY <1>1, <2>1, GoesOn
  <2>3. req[c].src \in Keys
    BY <1>1, CallsAre DEF AtStage
  <2>4. entry[req[c].src] \in Inodes
    BY <2>1, <2>3 DEF Staged, TypeOK
  <2>5. /\ fd' \in [Callers -> Inodes \cup {NoInode}] /\ fd'[c] # NoInode
        /\ \A d \in Callers \ {c} : fd'[d] = fd[d]
    BY <2>1, <2>4 DEF Staged, TypeOK
  <2>6. CallersTyped' /\ OthersWait(c) /\ AtStage(c)'
    BY <1>1, <2>1, <2>2, <2>5 DEF Staged, TypeOK, CallersTyped, OthersWait, AtStage, history
  <2>7. FilesTyped'
    BY <1>1 DEF Staged, TypeOK, FilesTyped, fileVars, history
  <2> QED
    BY <1>1, <2>2, <2>6, <2>7 DEF Sound, Quiet, Writes, Reaches, fileVars, history
<1> QED
  BY <1>2, <1>3

\* The driver's own state at a request or an end, and that of its client.
LEMMA InvokeIs ==
    ASSUME Staged, NEW c \in Callers, Invoke(c)
    PROVE  Sound(c) /\ Quiet(c)
<1>1. PICK r \in Calls : /\ req' = [req EXCEPT ![c] = r]
                         /\ pc' = [pc EXCEPT ![c] = FirstStep(r)]
                         /\ before' = [before EXCEPT ![c] = Held(Subject(r))]
                         /\ alone' \in [Callers -> BOOLEAN]
  <2>1. PICK r \in Calls :
           LET sharing == {d \in Callers : Touched(req[d]) \cap Touched(r) # {}}
               written == {k \in Touched(r) : entry[k] # NoInode /\ Writers(entry[k]) # {}}
           IN  /\ req' = [req EXCEPT ![c] = r]
               /\ pc' = [pc EXCEPT ![c] = FirstStep(r)]
               /\ alone' = [d \in Callers |->
                               IF d = c THEN sharing \cap Busy = {} /\ written = {}
                               ELSE alone[d] /\ (d \notin sharing \/ r.op = "download")]
               /\ before' = [before EXCEPT ![c] = Held(Subject(r))]
    BY DEF Invoke
  <2>2. alone \in [Callers -> BOOLEAN]
    BY DEF Staged, TypeOK
  <2>3. alone' \in [Callers -> BOOLEAN]
    BY <2>1, <2>2
  <2> QED
    BY <2>1, <2>3
<1>2. UNCHANGED <<fileVars, answer, openVars, spoilt>> /\ pc[c] = "idle"
  BY DEF Invoke
<1>3. r \in Requests \cup Sweeps \cup Downloads
  BY LocalCallsAssumption
<1>4. Subject(r) \in Keys
  BY <1>3, NoneAssumption
     DEF Requests, Uploads, Deletes, Copies, Moves, Sweeps, Downloads, Subject
<1>5. Held(Subject(r)) \in Contents \cup {Absent}
  BY <1>4 DEF Held, Staged, TypeOK
<1>6. /\ r.op = "upload" => FirstStep(r) \in {"check", "mkdir"}
      /\ r.op \in {"copy", "move"} => FirstStep(r) \in {"check", "mkdir"}
      /\ r.op \in {"delete", "sweep"} => FirstStep(r) = "unlink"
      /\ r.op = "download" => FirstStep(r) = "stat"
      /\ r.op \in {"upload", "copy", "move", "delete", "sweep", "download"}
  BY <1>3 DEF Requests, Uploads, Deletes, Copies, Moves, Sweeps, Downloads, FirstStep
<1>7. req'[c] = r /\ pc'[c] = FirstStep(r) /\ r # NoRequest
  BY <1>1, <1>6 DEF Staged, TypeOK, NoRequest
<1>8. CallersTyped'
  BY <1>1, <1>2, <1>5, <1>6 DEF Staged, TypeOK, CallersTyped, openVars, Steps
<1>9. FilesTyped' /\ OthersWait(c) /\ Reaches(c)
  BY <1>1, <1>2 DEF Staged, TypeOK, FilesTyped, fileVars, openVars, OthersWait, Reaches
<1>10. AtStage(c)'
  BY <1>2, <1>6, <1>7 DEF AtStage, Staged, openVars
<1>11. pc'[c] \notin {"write", "copying", "cleanup"}
  BY <1>6, <1>7
<1> QED
  BY <1>2, <1>8, <1>9, <1>10, <1>11 DEF Sound, Quiet, Writes, fileVars

\* The caller gets its answer: no file changes.
LEMMA ReturnIs ==
    ASSUME Staged, NEW c \in Callers, Return(c)
    PROVE  Sound(c) /\ Quiet(c)
<1>1. /\ req'[c] = NoRequest /\ pc'[c] = "idle" /\ answer'[c] = "none" /\ got'[c] = <<>>
      /\ fd'[c] = NoInode /\ from'[c] = NoInode
  BY DEF Return, Staged, TypeOK, AtStage
<1>2. CallersTyped'
  BY EmptyIsContent DEF Return, Staged, TypeOK, CallersTyped, Steps, Answers
<1>3. FilesTyped' /\ OthersWait(c) /\ Reaches(c)
  BY DEF Return, Staged, TypeOK, FilesTyped, fileVars, OthersWait, Reaches
<1>4. AtStage(c)'
  BY <1>1 DEF AtStage
<1> QED
  BY <1>1, <1>2, <1>3, <1>4 DEF Return, Sound, Quiet, Writes, fileVars

(***************************************************************************)
(* Names go, and with them what nobody has open; what is in use stays.     *)
(***************************************************************************)
Keeps(c) ==
    /\ \A i \in Inodes : i \in InUse' => data'[i] = data[i] /\ (i \in spoilt' <=> i \in spoilt)
    /\ \A k \in Keys : entry'[k] # NoInode =>
          \E j \in Keys \cap {k, req[c].src} : entry[j] = entry'[k]
    /\ OneNameEach => OneNameEach'
    /\ Writes(c)' <=> Writes(c)
    /\ Writes(c) => fd'[c] = fd[c] /\ from'[c] = from[c]
    /\ pc'[c] \notin {"write", "copying"}

\* A step that changes no file is one that keeps what stays in use.
LEMMA QuietKeeps ==
    ASSUME NEW c \in Callers, Quiet(c)
    PROVE  Keeps(c)
BY DEF Quiet, Keeps, OneNameEach

\* The end of a call that has not been writing.
LEMMA EndKeeps ==
    ASSUME Staged, NEW c \in Callers, pc[c] # "idle", ~Writes(c), NEW a \in Answers, End(c, a),
           UNCHANGED <<directory, alone, before>>, Files(data, spoilt),
           \/ UNCHANGED entry
           \/ /\ req[c].op # "download"
              /\ \E k \in Keys \cap {req[c].src, req[c].dst} :
                    entry' = [entry EXCEPT ![k] = NoInode]
    PROVE  Sound(c) /\ Keeps(c)
<1>1. CallersTyped' /\ OthersWait(c) /\ AtStage(c)' /\ pc'[c] = "done"
  BY Ends DEF End, Staged, TypeOK
<1>2. /\ data' \in [Inodes -> Contents] /\ spoilt' \in SUBSET Inodes
      /\ \A i \in Inodes : i \in InUse' => data'[i] = data[i] /\ (i \in spoilt' <=> i \in spoilt)
  BY FilesAre DEF Staged, TypeOK
<1>3. /\ entry' \in [Keys -> Inodes \cup {NoInode}]
      /\ \A k \in Keys : entry'[k] \in {entry[k], NoInode}
      /\ Reaches(c)
  BY DEF Staged, TypeOK, Reaches
<1>4. FilesTyped'
  BY <1>2, <1>3 DEF Staged, TypeOK, FilesTyped
<1>5. OneNameEach => OneNameEach'
  BY <1>3 DEF OneNameEach
<1> QED
  BY <1>1, <1>2, <1>3, <1>4, <1>5 DEF Sound, Keeps, Writes

\* An unlink takes a name, and what has it open keeps the file.
LEMMA UnlinkIs ==
    ASSUME Staged, NEW c \in Callers, Unlink(c)
    PROVE  Sound(c) /\ Keeps(c)
<1> DEFINE k == req[c].src
<1>1. /\ AtStage(c) /\ pc[c] = "unlink" /\ "readdir" \in Steps /\ "ok" \in Answers
      /\ entry' = [entry EXCEPT ![k] = NoInode] /\ Files(data, spoilt)
      /\ UNCHANGED <<directory, alone, before>>
  BY DEF Staged, Steps, Answers, Unlink
<1>2. k \in Keys /\ req[c].op # "download"
  BY <1>1, CallsAre DEF AtStage
<1>3. CASE End(c, "ok")
  BY <1>1, <1>2, <1>3, EndKeeps DEF Writes
<1>4. CASE req[c].op = "sweep" /\ GoTo(c, "readdir") /\ UNCHANGED openVars
  <2>1. pc'[c] = "readdir" /\ UNCHANGED <<req, answer>> /\ CallersTyped' /\ OthersWait(c)
    BY <1>1, <1>4, GoesOn, GoesOnWithout
  <2>2. AtStage(c)'
    BY <1>1, <1>4, <2>1 DEF AtStage, openVars
  <2>3. /\ data' \in [Inodes -> Contents] /\ spoilt' \in SUBSET Inodes
        /\ \A i \in Inodes : i \in InUse' =>
              data'[i] = data[i] /\ (i \in spoilt' <=> i \in spoilt)
    BY <1>1, FilesAre DEF Staged, TypeOK
  <2>4. /\ entry' \in [Keys -> Inodes \cup {NoInode}] /\ Reaches(c)
        /\ \A n \in Keys : entry'[n] \in {entry[n], NoInode}
    BY <1>1, <1>2 DEF Staged, TypeOK, Reaches
  <2>5. FilesTyped' /\ (OneNameEach => OneNameEach')
    BY <1>1, <2>3, <2>4 DEF Staged, TypeOK, FilesTyped, OneNameEach
  <2> QED
    BY <1>1, <2>1, <2>2, <2>3, <2>4, <2>5 DEF Sound, Keeps, Writes
<1> QED
  BY <1>3, <1>4 DEF Unlink

\* The unlink at the end of a move to another device takes the name of the source.
LEMMA UnlinkSourceIs ==
    ASSUME Staged, NEW c \in Callers, UnlinkSource(c)
    PROVE  Sound(c) /\ Keeps(c)
<1>1. PICK a \in Answers : End(c, a)
  BY DEF Answers, UnlinkSource
<1>2. pc[c] = "unlinkSource" /\ AtStage(c)
  BY DEF Staged, UnlinkSource
<1>3. req[c].src \in Keys /\ req[c].op # "download"
  BY <1>2, CallsAre DEF AtStage
<1> QED
  BY <1>1, <1>2, <1>3, EndKeeps DEF UnlinkSource, Writes

\* A rename gives the file of the source the name of the destination.
LEMMA RenameIs ==
    ASSUME Staged, NEW c \in Callers, Rename(c)
    PROVE  Sound(c) /\ Keeps(c)
<1> DEFINE src == req[c].src
           dst == req[c].dst
<1>1. PICK a \in Answers : End(c, a)
  BY DEF Answers, Rename
<1>2. /\ pc[c] = "rename" /\ AtStage(c)
      /\ UNCHANGED <<directory, alone, before>> /\ Files(data, spoilt)
  BY DEF Staged, Rename
<1>3. src \in Keys /\ dst \in Keys /\ req[c].op # "download"
  BY <1>2, CallsAre DEF AtStage
<1>4. CASE entry' = entry
  BY <1>1, <1>2, <1>4, EndKeeps DEF Writes
<1>5. CASE entry' # entry
  <2>1. /\ entry[src] # NoInode /\ directory /\ src # dst
        /\ entry' = [entry EXCEPT ![dst] = entry[src], ![src] = NoInode]
    BY <1>5 DEF Rename, Target
  <2>2. CallersTyped' /\ OthersWait(c) /\ AtStage(c)' /\ pc'[c] = "done"
    BY <1>1, <1>2, Ends DEF End, Staged, TypeOK
  <2>3. /\ data' \in [Inodes -> Contents] /\ spoilt' \in SUBSET Inodes
        /\ \A i \in Inodes : i \in InUse' =>
              data'[i] = data[i] /\ (i \in spoilt' <=> i \in spoilt)
    BY <1>2, FilesAre DEF Staged, TypeOK
  <2>4. /\ entry' \in [Keys -> Inodes \cup {NoInode}]
        /\ entry'[src] = NoInode /\ entry'[dst] = entry[src]
        /\ \A k \in Keys \ {src, dst} : entry'[k] = entry[k]
    BY <1>3, <2>1 DEF Staged, TypeOK
  <2>5. FilesTyped' /\ Reaches(c)
    BY <1>2, <1>3, <2>1, <2>3, <2>4 DEF Staged, TypeOK, FilesTyped, Reaches
  <2>6. OneNameEach => OneNameEach'
    BY <1>3, <2>1, <2>4 DEF OneNameEach
  <2>7. \A k \in Keys : entry'[k] # NoInode => \E j \in Keys \cap {k, src} : entry[j] = entry'[k]
    BY <1>3, <2>4
  <2> QED
    BY <1>2, <2>2, <2>3, <2>5, <2>6, <2>7 DEF Sound, Keeps, Writes
<1> QED
  BY <1>4, <1>5

\* A call of node:fs that fails changes no name.
LEMMA CallFailsIs ==
    ASSUME Staged, NEW c \in Callers, CallFails(c)
    PROVE  Sound(c) /\ Keeps(c)
BY EndKeeps DEF CallFails, Answers, Writes

\* The unlink after a failed open takes the name, or nothing.
LEMMA DiscardIs ==
    ASSUME Staged, NEW c \in Callers, Discard(c)
    PROVE  Sound(c) /\ Keeps(c)
<1>1. /\ pc[c] = "discard" /\ AtStage(c) /\ answer[c] \in Answers /\ End(c, answer[c])
      /\ UNCHANGED <<directory, alone, before>> /\ Files(data, spoilt)
  BY DEF Staged, TypeOK, Discard
<1>2. req[c].dst \in Keys /\ req[c].op # "download"
  BY <1>1, CallsAre DEF AtStage
<1>3. entry' = entry \/ entry' = [entry EXCEPT ![req[c].dst] = NoInode]
  BY DEF Discard, Target
<1> QED
  BY <1>1, <1>2, <1>3, EndKeeps DEF Writes

\* A download reads what its file holds, or closes it.
LEMMA ReadIs ==
    ASSUME Staged, NEW c \in Callers, Read(c)
    PROVE  Sound(c) /\ Keeps(c)
<1>1. /\ AtStage(c) /\ pc[c] = "read" /\ "ok" \in Answers
      /\ UNCHANGED <<directory, entry, alone, before>>
  BY DEF Staged, Answers, Read
<1>2. CASE End(c, "ok") /\ Files(data, spoilt)
  BY <1>1, <1>2, EndKeeps DEF Writes
<1>3. CASE ~(End(c, "ok") /\ Files(data, spoilt))
  <2> DEFINE n == Len(got[c]) + 1
  <2>1. /\ n <= Len(data[fd[c]]) /\ got' = [got EXCEPT ![c] = Append(@, data[fd[c]][n])]
        /\ UNCHANGED <<callVars, fd, from, size, data, spoilt>>
    BY <1>3 DEF Read
  <2>2. fd[c] \in Inodes /\ data[fd[c]] \in Contents /\ got[c] \in Contents
    BY <1>1 DEF AtStage, Staged, TypeOK
  <2>3. Append(got[c], data[fd[c]][n]) \in Contents
    BY <2>1, <2>2, AppendIs
  <2>4. got' \in [Callers -> Contents] /\ \A d \in Callers \ {c} : got'[d] = got[d]
    BY <2>1, <2>3 DEF Staged, TypeOK
  <2>5. CallersTyped' /\ OthersWait(c) /\ AtStage(c)'
    BY <1>1, <2>1, <2>4 DEF Staged, TypeOK, CallersTyped, OthersWait, AtStage, callVars
  <2>6. FilesTyped' /\ Reaches(c)
    BY <1>1, <2>1 DEF Staged, TypeOK, FilesTyped, Reaches
  <2>7. Quiet(c)
    BY <1>1, <2>1 DEF Quiet, Writes, callVars
  <2> QED
    BY <2>5, <2>6, <2>7, QuietKeeps DEF Sound
<1> QED
  BY <1>2, <1>3

(***************************************************************************)
(* A file is opened and emptied.                                           *)
(***************************************************************************)

\* What is spoilt when the file i is opened for a copy of `source`, or for an upload.
SpoiltBy(i, source) ==
    (spoilt \ {i})
    \cup {fd[d] : d \in {e \in Callers : from[e] = i}}
    \cup (IF source \in spoilt \/ Writers(source) # {} THEN {i} ELSE {})
    \cup (IF Writers(i) # {} THEN {i} ELSE {})

Opens(c, i) ==
    /\ ~Writes(c) /\ pc'[c] \in {"write", "copying"} /\ req'[c] = req[c] /\ req[c].dst \in Keys
    /\ got'[c] = <<>> /\ fd'[c] = i
    /\ i = entry[req[c].dst] \/ i \notin InUse
    /\ entry' = [entry EXCEPT ![req[c].dst] = i]
    /\ \A j \in Inodes : j \in InUse' =>
          /\ data'[j] = IF j = i THEN <<>> ELSE data[j]
          /\ j \in spoilt' <=> j \in SpoiltBy(i, from'[c])
    /\ pc'[c] = "copying" =>
          /\ req[c].src \in Keys /\ from'[c] = entry[req[c].src] /\ from'[c] \in Inodes
          /\ from'[c] # i /\ from'[c] # entry[req[c].dst]

\* The file opened for a key is that of its name, or one that nothing uses.
LEMMA FileForIs ==
    ASSUME Staged, NEW k \in Keys, NEW i \in FileFor(k)
    PROVE  i \in Inodes /\ (i = entry[k] \/ i \notin InUse)
<1>1. CASE entry[k] # NoInode
  BY <1>1 DEF FileFor, Staged, TypeOK
<1>2. CASE entry[k] = NoInode
  <2>1. ~(Inodes \subseteq InUse) /\ i = CHOOSE j \in Inodes : j \notin InUse
    BY <1>2 DEF FileFor
  <2> HIDE DEF InUse
  <2> QED
    BY <2>1
<1> QED
  BY <1>1, <1>2

\* What opening a file for writing does to names, files and what is spoilt.
LEMMA OpeningIs ==
    ASSUME Staged, NEW c \in Callers, NEW k \in Keys, NEW i \in Inodes, OpenForWriting(c, k, i)
    PROVE  /\ entry' = [entry EXCEPT ![k] = i] /\ entry' \in [Keys -> Inodes \cup {NoInode}]
           /\ fd' = [fd EXCEPT ![c] = i]
           /\ data' \in [Inodes -> Contents] /\ spoilt' \in SUBSET Inodes
           /\ \A j \in Inodes : j \in InUse' =>
                 /\ data'[j] = IF j = i THEN <<>> ELSE data[j]
                 /\ j \in spoilt' <=> j \in SpoiltBy(i, from'[c])
<1> DEFINE d == [data EXCEPT ![i] = <<>>]
           s == SpoiltBy(i, from'[c])
<1>1. /\ entry' = [entry EXCEPT ![k] = i] /\ fd' = [fd EXCEPT ![c] = i]
      /\ Files(d, s)
  <2>1. s = (spoilt \ {i}) \cup
            ({fd[e] : e \in {e \in Callers : from[e] = i}}
             \cup (IF from'[c] \in spoilt \/ Writers(from'[c]) # {} THEN {i} ELSE {})
             \cup (IF Writers(i) # {} THEN {i} ELSE {}))
    BY DEF SpoiltBy
  <2> HIDE DEF s
  <2> QED
    BY <2>1 DEF OpenForWriting
<1>2. d \in [Inodes -> Contents]
  BY EmptyIsContent DEF Staged, TypeOK
<1>3. \A e \in Callers : from[e] = i => fd[e] \in Inodes
  BY InodesAssumption DEF Staged, TypeOK, AtStage
<1>4. s \in SUBSET Inodes
  BY <1>3 DEF SpoiltBy, Staged, TypeOK
<1>5. \A j \in Inodes : d[j] = IF j = i THEN <<>> ELSE data[j]
  BY DEF Staged, TypeOK
<1> HIDE DEF d, s
<1>6. /\ data' \in [Inodes -> Contents] /\ spoilt' \in SUBSET Inodes
      /\ \A j \in Inodes : j \in InUse' => data'[j] = d[j] /\ (j \in spoilt' <=> j \in s)
  BY <1>1, <1>2, <1>4, FilesAre
<1> QED
  BY <1>1, <1>5, <1>6 DEF Staged, TypeOK, s

\* An upload opens the file of its key and empties it.
LEMMA OpenIs ==
    ASSUME Staged, NEW c \in Callers, Open(c)
    PROVE  Sound(c) /\ \E i \in Inodes : Opens(c, i)
<1> DEFINE k == req[c].dst
<1>1. /\ AtStage(c) /\ pc[c] = "open" /\ directory /\ "write" \in Steps /\ GoTo(c, "write")
      /\ UNCHANGED <<directory, from, got, size, alone, before>>
  BY DEF Staged, Steps, Open
<1>2. k \in Keys /\ req[c].op = "upload" /\ req[c].body \in Bodies
  BY <1>1, CallsAre DEF AtStage
<1>3. PICK i \in Inodes : (i = entry[k] \/ i \notin InUse) /\ OpenForWriting(c, k, i)
  BY <1>2, FileForIs DEF Open, Target
<1>4. /\ entry' = [entry EXCEPT ![k] = i] /\ entry' \in [Keys -> Inodes \cup {NoInode}]
      /\ fd' = [fd EXCEPT ![c] = i]
      /\ data' \in [Inodes -> Contents] /\ spoilt' \in SUBSET Inodes
      /\ \A j \in Inodes : j \in InUse' =>
            /\ data'[j] = IF j = i THEN <<>> ELSE data[j]
            /\ j \in spoilt' <=> j \in SpoiltBy(i, from'[c])
  BY <1>2, <1>3, OpeningIs
<1>5. /\ pc' \in [Callers -> Steps] /\ pc'[c] = "write" /\ UNCHANGED <<req, answer>>
      /\ \A d \in Callers \ {c} : pc'[d] = pc[d]
  BY <1>1, GoesOn
<1>6. /\ fd' \in [Callers -> Inodes \cup {NoInode}] /\ fd'[c] = i /\ fd'[c] # NoInode
      /\ \A d \in Callers \ {c} : fd'[d] = fd[d]
  BY <1>4, InodesAssumption DEF Staged, TypeOK
<1>7. got'[c] = <<>>
  BY <1>1 DEF AtStage
<1>8. /\ got'[c] = Part(req'[c].body, Len(got'[c]))
      /\ Len(got'[c]) <= Length[req'[c].body]
  BY <1>2, <1>5, <1>7, EmptyIsContent, LengthAssumption DEF Part
<1>9. AtStage(c)'
  BY <1>1, <1>2, <1>5, <1>6, <1>8 DEF AtStage
<1>10. CallersTyped' /\ OthersWait(c)
  BY <1>1, <1>5, <1>6 DEF Staged, TypeOK, CallersTyped, OthersWait
<1>11. FilesTyped' /\ Reaches(c)
  BY <1>1, <1>2, <1>4 DEF Staged, TypeOK, FilesTyped, Reaches
<1>12. Opens(c, i)
  BY <1>1, <1>2, <1>3, <1>4, <1>5, <1>6, <1>7 DEF Opens, Writes
<1> QED
  BY <1>9, <1>10, <1>11, <1>12 DEF Sound

\* copyFile opens two different files, or changes nothing.
LEMMA CopyOpensIs ==
    ASSUME Staged, NEW c \in Callers, CopyOpens(c)
    PROVE  Sound(c) /\ (Quiet(c) \/ \E i \in Inodes : Opens(c, i))
<1> DEFINE k == req[c].dst
           src == entry[req[c].src]
           after == StepAfterCopy(req[c])
<1>1. /\ AtStage(c) /\ pc[c] = "copyFile" /\ src # NoInode
      /\ UNCHANGED <<directory, got, size, alone, before>>
  BY DEF Staged, CopyOpens
<1>2. req[c].src \in Keys /\ k \in Keys /\ req[c].op \in {"copy", "move"}
  BY <1>1, CallsAre DEF AtStage
<1>3. src \in Inodes /\ directory
  BY <1>1, <1>2 DEF Staged, TypeOK
<1>4. CASE entry[k] = src
  <2>1. GoTo(c, after) /\ UNCHANGED <<entry, data, fd, from, spoilt>>
    BY <1>4 DEF CopyOpens, Target
  <2>2. /\ after \in Steps /\ after \notin {"write", "copying", "cleanup"}
        /\ after = IF req[c].op = "move" THEN "unlinkSource" ELSE "copied"
    BY DEF StepAfterCopy, Steps
  <2>3. pc'[c] = after /\ UNCHANGED <<req, answer>>
    BY <2>1, <2>2, GoesOn
  <2>4. AtStage(c)'
    BY <1>1, <1>2, <2>1, <2>2, <2>3 DEF AtStage
  <2> QED
    BY <1>1, <2>1, <2>2, <2>4, QuietStep DEF openVars, history, Writes
<1>5. CASE entry[k] # src
  <2>1. GoTo(c, "copying") /\ "copying" \in Steps
    BY <1>5 DEF CopyOpens, Target, Steps
  <2>2. PICK i \in Inodes : /\ i = entry[k] \/ i \notin InUse
                            /\ from' = [from EXCEPT ![c] = src] /\ OpenForWriting(c, k, i)
    BY <1>2, <1>5, FileForIs DEF CopyOpens, Target
  <2>3. /\ entry' = [entry EXCEPT ![k] = i] /\ entry' \in [Keys -> Inodes \cup {NoInode}]
        /\ fd' = [fd EXCEPT ![c] = i]
        /\ data' \in [Inodes -> Contents] /\ spoilt' \in SUBSET Inodes
        /\ \A j \in Inodes : j \in InUse' =>
              /\ data'[j] = IF j = i THEN <<>> ELSE data[j]
              /\ j \in spoilt' <=> j \in SpoiltBy(i, from'[c])
    BY <1>2, <2>2, OpeningIs
  <2>4. /\ pc' \in [Callers -> Steps] /\ pc'[c] = "copying" /\ UNCHANGED <<req, answer>>
        /\ \A d \in Callers \ {c} : pc'[d] = pc[d]
    BY <2>1, GoesOn
  <2>5. /\ fd' \in [Callers -> Inodes \cup {NoInode}] /\ fd'[c] = i /\ fd'[c] # NoInode
        /\ from' \in [Callers -> Inodes \cup {NoInode}] /\ from'[c] = src
        /\ \A d \in Callers \ {c} : fd'[d] = fd[d] /\ from'[d] = from[d]
    BY <1>3, <2>2, <2>3, InodesAssumption DEF Staged, TypeOK
  <2>6. got'[c] = <<>>
    BY <1>1 DEF AtStage
  <2>7. AtStage(c)'
    BY <1>1, <1>2, <2>4, <2>5 DEF AtStage
  <2>8. CallersTyped' /\ OthersWait(c)
    BY <1>1, <2>4, <2>5 DEF Staged, TypeOK, CallersTyped, OthersWait
  <2>9. FilesTyped' /\ Reaches(c)
    BY <1>1, <1>2, <1>3, <2>3 DEF Staged, TypeOK, FilesTyped, Reaches
  <2>10. src \in InUse
    BY <1>2 DEF InUse
  <2>11. src # i
    BY <1>5, <2>2, <2>10
  <2>12. Opens(c, i)
    BY <1>1, <1>2, <1>3, <1>5, <2>2, <2>3, <2>4, <2>5, <2>6, <2>11 DEF Opens, Writes
  <2> QED
    BY <2>7, <2>8, <2>9, <2>12 DEF Sound
<1> QED
  BY <1>4, <1>5

(***************************************************************************)
(* A file grows, and is closed.                                            *)
(***************************************************************************)

\* The next chunk, that of a body or of the file copied from.
Grows(c, b) ==
    /\ pc[c] \in {"write", "copying"} /\ UNCHANGED <<req, pc, fd, from, entry, spoilt>>
    /\ b \in MaybeBody
    /\ got' = [got EXCEPT ![c] = Append(got[c], b)] /\ got'[c] \in Contents
    /\ Len(got[c]) + 1 \in Nat \ {0}
    /\ data' = [data EXCEPT ![fd[c]] = Written(data[fd[c]], Len(got[c]) + 1, b)]
    /\ pc[c] = "write" => b = req[c].body /\ Len(got[c]) + 1 <= Length[b]
    /\ pc[c] = "copying" =>
          /\ Len(got[c]) + 1 <= Len(data[from[c]])
          /\ b = data[from[c]][Len(got[c]) + 1]

Closes(c) ==
    /\ pc[c] \in {"write", "copying"} /\ ~Writes(c)'
    /\ UNCHANGED entry
    /\ \A i \in Inodes : i \in InUse' => data'[i] = data[i] /\ (i \in spoilt' <=> i \in spoilt)
    /\ pc[c] = "write" => Len(got[c]) >= Length[req[c].body]
    /\ pc[c] = "copying" => Len(got[c]) >= Len(data[from[c]])

\* A write that failed: the file goes if its name still stands for it, and is
\* spoilt if not, or if unlinking fails too.
Abandons(c) ==
    /\ pc[c] = "cleanup" /\ pc'[c] = "done" /\ req[c].dst \in Keys
    /\ \/ /\ entry' = [entry EXCEPT ![req[c].dst] = NoInode]
          /\ \A i \in Inodes : i \in InUse' =>
                /\ data'[i] = data[i]
                /\ i \in spoilt' <=>
                      i \in spoilt \/ (entry[req[c].dst] # fd[c] /\ i = fd[c])
       \/ /\ UNCHANGED entry
          /\ \A i \in Inodes : i \in InUse' =>
                data'[i] = data[i] /\ (i \in spoilt' <=> i \in spoilt \/ i = fd[c])

\* The pipeline appends the next chunk of its body, or closes the file after the last.
LEMMA WriteIs ==
    ASSUME Staged, NEW c \in Callers, Write(c)
    PROVE  Sound(c) /\ (Closes(c) \/ \E b \in MaybeBody : Grows(c, b))
<1> DEFINE n == Len(got[c]) + 1
           b == req[c].body
<1>1. /\ AtStage(c) /\ pc[c] = "write" /\ "size" \in Steps
      /\ UNCHANGED <<directory, entry, from, size, alone, before>>
  BY DEF Staged, Steps, Write
<1>2. b \in Bodies /\ req[c].op = "upload"
  BY <1>1, CallsAre DEF AtStage
<1>3. /\ got[c] \in Contents /\ got[c] = Part(b, Len(got[c])) /\ Len(got[c]) \in Nat
      /\ fd[c] \in Inodes /\ data[fd[c]] \in Contents
  <2>1. got[c] \in Contents /\ got[c] = Part(b, Len(got[c])) /\ fd[c] \in Inodes
    BY <1>1 DEF AtStage, Staged, TypeOK
  <2> QED
    BY <2>1, ContentsAre DEF Staged, TypeOK
<1>4. Length[b] \in Nat
  BY <1>2, WholeIs
<1>5. CASE n <= Length[b]
  <2>1. /\ data' = [data EXCEPT ![fd[c]] = Written(@, n, b)]
        /\ got' = [got EXCEPT ![c] = Append(@, b)]
        /\ UNCHANGED <<callVars, fd>> /\ UNCHANGED spoilt
    BY <1>5 DEF Write
  <2>2. n \in Nat \ {0} /\ n \in Nat
    BY <1>3, <1>4, <1>5
  <2>3. Append(got[c], b) = Part(b, n)
    BY <1>2, <1>3, PartIs
  <2>4. Part(b, n) \in Contents /\ Len(Part(b, n)) = n
    BY <1>2, <2>2, PartIs
  <2>5. b \in MaybeBody
    BY <1>2 DEF MaybeBody
  <2>6. Written(data[fd[c]], n, b) \in Contents
    BY <1>3, <2>2, <2>5, WrittenIs
  <2> HIDE DEF n
  <2>7. /\ got' \in [Callers -> Contents] /\ got'[c] = Part(b, n)
        /\ \A d \in Callers \ {c} : got'[d] = got[d]
    BY <2>1, <2>3, <2>4 DEF Staged, TypeOK
  <2>8. CallersTyped' /\ OthersWait(c)
    BY <1>1, <2>1, <2>7 DEF Staged, TypeOK, CallersTyped, OthersWait, callVars
  <2>9. data' \in [Inodes -> Contents]
    BY <2>1, <2>6 DEF Staged, TypeOK
  <2>10. FilesTyped' /\ Reaches(c)
    BY <1>1, <2>1, <2>9 DEF Staged, TypeOK, FilesTyped, Reaches
  <2>11. AtStage(c)'
    BY <1>1, <1>5, <2>1, <2>4, <2>7 DEF AtStage, callVars
  <2>12. Grows(c, b)
    BY <1>1, <1>3, <1>5, <2>1, <2>2, <2>4, <2>5, <2>7 DEF Grows, callVars, n
  <2> QED
    BY <2>5, <2>8, <2>10, <2>11, <2>12 DEF Sound
<1>6. CASE ~(n <= Length[b])
  <2>1. /\ GoTo(c, "size") /\ fd' = [fd EXCEPT ![c] = NoInode] /\ UNCHANGED got
        /\ Files(data, spoilt)
    BY <1>6 DEF Write
  <2>2. /\ pc' \in [Callers -> Steps] /\ pc'[c] = "size" /\ UNCHANGED <<req, answer>>
        /\ \A d \in Callers \ {c} : pc'[d] = pc[d]
    BY <1>1, <2>1, GoesOn
  <2>3. /\ data' \in [Inodes -> Contents] /\ spoilt' \in SUBSET Inodes
        /\ \A i \in Inodes : i \in InUse' =>
              data'[i] = data[i] /\ (i \in spoilt' <=> i \in spoilt)
    BY <2>1, FilesAre DEF Staged, TypeOK
  <2>4. /\ fd' \in [Callers -> Inodes \cup {NoInode}] /\ fd'[c] = NoInode
        /\ \A d \in Callers \ {c} : fd'[d] = fd[d]
    BY <2>1 DEF Staged, TypeOK
  <2>5. CallersTyped' /\ OthersWait(c)
    BY <1>1, <2>1, <2>2, <2>4 DEF Staged, TypeOK, CallersTyped, OthersWait
  <2>6. FilesTyped' /\ Reaches(c)
    BY <1>1, <2>3 DEF Staged, TypeOK, FilesTyped, Reaches
  <2>7. AtStage(c)'
    BY <1>1, <2>1, <2>2, <2>4 DEF AtStage
  <2>8. Len(got[c]) >= Length[b]
    BY <1>3, <1>4, <1>6
  <2>9. Closes(c)
    BY <1>1, <2>2, <2>3, <2>8 DEF Closes, Writes
  <2> QED
    BY <2>5, <2>6, <2>7, <2>9 DEF Sound
<1> QED
  BY <1>5, <1>6

\* copyFile appends the next chunk of its source, or closes both files after the last.
LEMMA CopyChunkIs ==
    ASSUME Staged, NEW c \in Callers, CopyChunk(c)
    PROVE  Sound(c) /\ (Closes(c) \/ \E b \in MaybeBody : Grows(c, b))
<1> DEFINE n == Len(got[c]) + 1
           source == data[from[c]]
           after == StepAfterCopy(req[c])
<1>1. /\ AtStage(c) /\ pc[c] = "copying"
      /\ UNCHANGED <<directory, entry, size, alone, before>>
  BY DEF Staged, CopyChunk
<1>2. req[c].op \in {"copy", "move"}
  BY <1>1 DEF AtStage
<1>3. /\ got[c] \in Contents /\ Len(got[c]) \in Nat
      /\ fd[c] \in Inodes /\ data[fd[c]] \in Contents
      /\ source \in Contents /\ Len(source) \in Nat
  <2>1. got[c] \in Contents /\ fd[c] \in Inodes /\ from[c] \in Inodes
    BY <1>1 DEF AtStage, Staged, TypeOK
  <2> QED
    BY <2>1, ContentsAre DEF Staged, TypeOK
<1>4. CASE n <= Len(source)
  <2> DEFINE b == source[n]
  <2>1. /\ data' = [data EXCEPT ![fd[c]] = Written(@, n, b)]
        /\ got' = [got EXCEPT ![c] = Append(@, b)]
        /\ UNCHANGED <<callVars, fd, from, spoilt>>
    BY <1>4 DEF CopyChunk
  <2>2. n \in Nat \ {0} /\ b \in MaybeBody /\ Append(got[c], b) \in Contents
    BY <1>3, <1>4, AppendIs
  <2>3. Written(data[fd[c]], n, b) \in Contents
    BY <1>3, <2>2, WrittenIs
  <2>4. n = Len(got[c]) + 1 /\ b = data[from[c]][n]
    OBVIOUS
  <2> HIDE DEF n, b
  <2>5. /\ got' \in [Callers -> Contents] /\ got'[c] = Append(got[c], b)
        /\ \A d \in Callers \ {c} : got'[d] = got[d]
    BY <2>1, <2>2 DEF Staged, TypeOK
  <2>6. CallersTyped' /\ OthersWait(c)
    BY <1>1, <2>1, <2>5 DEF Staged, TypeOK, CallersTyped, OthersWait, callVars
  <2>7. data' \in [Inodes -> Contents]
    BY <2>1, <2>3 DEF Staged, TypeOK
  <2>8. FilesTyped' /\ Reaches(c)
    BY <1>1, <2>1, <2>7 DEF Staged, TypeOK, FilesTyped, Reaches
  <2>9. AtStage(c)'
    BY <1>1, <2>1 DEF AtStage, callVars
  <2>10. Grows(c, b)
    BY <1>1, <1>4, <2>1, <2>2, <2>4, <2>5 DEF Grows, callVars
  <2> QED
    BY <2>2, <2>6, <2>8, <2>9, <2>10 DEF Sound
<1>5. CASE ~(n <= Len(source))
  <2>1. /\ GoTo(c, after)
        /\ fd' = [fd EXCEPT ![c] = NoInode] /\ from' = [from EXCEPT ![c] = NoInode]
        /\ UNCHANGED got /\ Files(data, spoilt)
    BY <1>5 DEF CopyChunk
  <2>2. after \in Steps /\ after = IF req[c].op = "move" THEN "unlinkSource" ELSE "copied"
    BY DEF StepAfterCopy, Steps
  <2>3. /\ pc' \in [Callers -> Steps] /\ pc'[c] = after /\ UNCHANGED <<req, answer>>
        /\ \A d \in Callers \ {c} : pc'[d] = pc[d]
    BY <2>1, <2>2, GoesOn
  <2>4. /\ data' \in [Inodes -> Contents] /\ spoilt' \in SUBSET Inodes
        /\ \A i \in Inodes : i \in InUse' =>
              data'[i] = data[i] /\ (i \in spoilt' <=> i \in spoilt)
    BY <2>1, FilesAre DEF Staged, TypeOK
  <2>5. /\ fd' \in [Callers -> Inodes \cup {NoInode}] /\ fd'[c] = NoInode
        /\ from' \in [Callers -> Inodes \cup {NoInode}] /\ from'[c] = NoInode
        /\ \A d \in Callers \ {c} : fd'[d] = fd[d] /\ from'[d] = from[d]
    BY <2>1 DEF Staged, TypeOK
  <2>6. CallersTyped' /\ OthersWait(c)
    BY <1>1, <2>1, <2>3, <2>5 DEF Staged, TypeOK, CallersTyped, OthersWait
  <2>7. FilesTyped' /\ Reaches(c)
    BY <1>1, <2>4 DEF Staged, TypeOK, FilesTyped, Reaches
  <2>8. AtStage(c)'
    BY <1>1, <1>2, <2>2, <2>3, <2>5 DEF AtStage
  <2>9. Len(got[c]) >= Len(source)
    BY <1>3, <1>5
  <2>10. Closes(c)
    BY <1>1, <2>2, <2>3, <2>4, <2>9 DEF Closes, Writes
  <2> QED
    BY <2>6, <2>7, <2>8, <2>10 DEF Sound
<1> QED
  BY <1>4, <1>5

\* The unlink after a failed write goes by the name.
LEMMA CleanupIs ==
    ASSUME Staged, NEW c \in Callers, Cleanup(c)
    PROVE  Sound(c) /\ Abandons(c)
<1> DEFINE k == req[c].dst
<1>1. /\ AtStage(c) /\ pc[c] = "cleanup" /\ "failed" \in Answers /\ End(c, "failed")
      /\ UNCHANGED <<directory, alone, before>>
  BY DEF Staged, Answers, Cleanup
<1>2. k \in Keys /\ req[c].op \in {"upload", "copy", "move"}
  BY <1>1, CallsAre DEF AtStage
<1>3. fd[c] \in Inodes /\ spoilt \in SUBSET Inodes /\ data \in [Inodes -> Contents]
  BY <1>1 DEF AtStage, Staged, TypeOK
<1>4. CallersTyped' /\ OthersWait(c) /\ AtStage(c)' /\ pc'[c] = "done"
  BY <1>1, Ends DEF End, Staged, TypeOK
<1>5. PICK s \in SUBSET Inodes :
         /\ Files(data, s)
         /\ \/ /\ entry' = [entry EXCEPT ![k] = NoInode]
               /\ s = IF entry[k] = fd[c] THEN spoilt ELSE spoilt \cup {fd[c]}
            \/ entry' = entry /\ s = spoilt \cup {fd[c]}
  BY <1>3 DEF Cleanup, Target
<1>6. /\ data' \in [Inodes -> Contents] /\ spoilt' \in SUBSET Inodes
      /\ \A i \in Inodes : i \in InUse' => data'[i] = data[i] /\ (i \in spoilt' <=> i \in s)
  BY <1>3, <1>5, FilesAre
<1>7. /\ entry' \in [Keys -> Inodes \cup {NoInode}]
      /\ \A n \in Keys : entry'[n] \in {entry[n], NoInode}
      /\ Reaches(c)
  BY <1>1, <1>2, <1>5 DEF Staged, TypeOK, Reaches
<1>8. FilesTyped'
  BY <1>1, <1>6, <1>7 DEF Staged, TypeOK, FilesTyped
<1>9. Abandons(c)
  BY <1>1, <1>2, <1>4, <1>5, <1>6 DEF Abandons
<1> QED
  BY <1>4, <1>7, <1>8, <1>9 DEF Sound

(***************************************************************************)
(* Every step is of one of these kinds.                                    *)
(***************************************************************************)
StepOf(c) == Invoke(c) \/ (CallStep(c) /\ UNCHANGED calls)

\* Each step leaves the types and stages right, and is of one of the kinds.
LEMMA StepIs ==
    ASSUME Staged, NEW c \in Callers, StepOf(c)
    PROVE  /\ Sound(c)
           /\ \/ Keeps(c) \/ Closes(c) \/ Abandons(c)
              \/ \E i \in Inodes : Opens(c, i)
              \/ \E b \in MaybeBody : Grows(c, b)
BY QuietKeeps, CheckIs, MkdirIs, OpenIs, OpenFailsIs, DiscardIs, WriteIs, WriteFailsIs, CleanupIs,
   SizeIs, UnlinkIs, ReaddirIs, RmdirIs, RenameIs, RenameRefusedIs, CopyOpensIs,
   CopyFindsNothingIs, CopyChunkIs, CopyFailsIs, CopiedIs, UnlinkSourceIs, StatIs, OpenReadIs,
   ReadIs, CallFailsIs, ReturnIs, InvokeIs
   DEF StepOf, CallStep

\* Types and stages are inductive.
LEMMA StagedKeeps ==
    ASSUME Staged, [Next]_vars
    PROVE  Staged'
<1>1. ASSUME NEW c \in Callers, StepOf(c)
      PROVE  Staged'
  <2>1. Sound(c)
    BY <1>1, StepIs
  <2>2. calls' \in 0 .. MaxCalls
    <3>1. calls \in 0 .. MaxCalls /\ MaxCalls \in Nat
      BY InodesAssumption DEF Staged, TypeOK
    <3>2. calls' = calls \/ (calls < MaxCalls /\ calls' = calls + 1)
      BY <1>1 DEF StepOf, Invoke
    <3> QED
      BY <3>1, <3>2
  <2>3. TypeOK'
    BY <2>1, <2>2 DEF Sound, TypeOK, CallersTyped, FilesTyped
  <2>4. \A d \in Callers \ {c} : AtStage(d)'
    BY <2>1, StageIsOnesOwn DEF Sound, Staged
  <2> QED
    BY <2>1, <2>3, <2>4 DEF Sound, Staged
<1>2. ASSUME UNCHANGED vars
      PROVE  Staged'
  <2>1. TypeOK'
    BY <1>2 DEF Staged, TypeOK, vars, fileVars, callVars, openVars, history
  <2>2. \A d \in Callers : AtStage(d)'
    BY <1>2 DEF Staged, AtStage, vars, callVars, openVars
  <2> QED
    BY <2>1, <2>2 DEF Staged
<1> QED
  BY <1>1, <1>2 DEF Next, StepOf

\* Types and stages hold at the start.
LEMMA InitStaged ==
    ASSUME Init
    PROVE  Staged
<1>1. data \in [Inodes -> Contents]
  BY EmptyIsContent, WholeIs DEF Init
<1>2. CallersTyped
  BY EmptyIsContent DEF Init, CallersTyped, Steps, Answers
<1>3. calls \in 0 .. MaxCalls
  BY InodesAssumption DEF Init
<1>4. TypeOK
  BY <1>1, <1>2, <1>3 DEF Init, TypeOK, CallersTyped
<1>5. \A c \in Callers : AtStage(c)
  BY DEF Init, AtStage, NoRequest
<1> QED
  BY <1>4, <1>5 DEF Staged

\* The types: no file grows beyond a body, no call copies from or reads what it has
\* not opened, and while a key stands for a file its directory exists.
THEOREM LocalDriverTypeCorrect == Spec => []TypeOK
<1>1. Init => Staged
  BY InitStaged
<1>2. Staged /\ [Next]_vars => Staged'
  BY StagedKeeps
<1>3. Staged => TypeOK
  BY DEF Staged
<1> QED
  BY <1>1, <1>2, <1>3, PTL DEF Spec

(***************************************************************************)
(* Files at rest.                                                          *)
(***************************************************************************)

\* A file that is not spoilt has one writer at most.
OneWriterEach ==
    \A c, d \in Callers :
        Writes(c) /\ Writes(d) /\ fd[c] = fd[d] /\ fd[c] \notin spoilt => c = d

\* What an upload has written so far is what its file holds.
UploadsGrow ==
    \A c \in Callers : pc[c] = "write" /\ fd[c] \notin spoilt => data[fd[c]] = got[c]

\* What is copied is whole and at rest, and the copy is the beginning of it.
GrowingCopy(c) ==
    /\ from[c] \notin spoilt /\ Writers(from[c]) = {}
    /\ \E b \in Bodies : \E n \in 0 .. Length[b] :
          data[from[c]] = Whole(b) /\ got[c] = Part(b, n) /\ data[fd[c]] = Part(b, n)

CopiesGrow == \A c \in Callers : pc[c] = "copying" /\ fd[c] \notin spoilt => GrowingCopy(c)

FilesInv == OneNameEach /\ OneWriterEach /\ UploadsGrow /\ CopiesGrow /\ FilesAtRestAreWhole

\* What has a name or is open is in use.
LEMMA UsedAre ==
    /\ \A k \in Keys : entry[k] \in InUse
    /\ \A c \in Callers : fd[c] \in InUse /\ from[c] \in InUse
BY DEF InUse

\* A step of one caller makes no writer of another.
LEMMA WritersWait ==
    ASSUME NEW c \in Callers, OthersWait(c), NEW d \in Callers \ {c}
    PROVE  Writes(d)' <=> Writes(d)
BY DEF OthersWait, Writes

\* What stays in use stays whole.
LEMMA KeepsFilesInv ==
    ASSUME Staged, FilesInv, NEW c \in Callers, Sound(c), Keeps(c)
    PROVE  FilesInv'
<1>1. OneNameEach' /\ OthersWait(c)
  BY DEF FilesInv, Keeps, Sound
<1>2. \A d \in Callers :
         /\ Writes(d)' <=> Writes(d)
         /\ Writes(d) => fd'[d] = fd[d] /\ from'[d] = from[d]
  BY <1>1, WritersWait DEF OthersWait, Keeps
<1>3. /\ \A k \in Keys : entry'[k] \in InUse'
      /\ \A d \in Callers : fd'[d] \in InUse' /\ from'[d] \in InUse'
  BY DEF InUse
<1>4. \A i \in Inodes : i \in InUse' => data'[i] = data[i] /\ (i \in spoilt' <=> i \in spoilt)
  BY DEF Keeps
<1>5. \A d \in Callers : Writes(d) => fd[d] \in Inodes
  BY DEF Writes, Staged, TypeOK, AtStage
<1>6. \A i \in Inodes : Writers(i)' = Writers(i)
  BY <1>2 DEF Writers
<1>7. OneWriterEach'
  BY <1>2, <1>3, <1>4, <1>5 DEF FilesInv, OneWriterEach
<1>8. \A d \in Callers : pc'[d] \in {"write", "copying"} => d # c /\ pc[d] = pc'[d] /\ Writes(d)
  BY <1>1 DEF OthersWait, Keeps, Writes
<1>9. UploadsGrow'
  BY <1>1, <1>2, <1>3, <1>4, <1>5, <1>8 DEF FilesInv, UploadsGrow, OthersWait
<1>10. CopiesGrow'
  <2> SUFFICES ASSUME NEW d \in Callers, pc'[d] = "copying", fd'[d] \notin spoilt'
               PROVE  GrowingCopy(d)'
    BY DEF CopiesGrow
  <2>1. d # c /\ pc[d] = "copying" /\ Writes(d) /\ fd[d] \in Inodes /\ from[d] \in Inodes
    BY <1>5, <1>8 DEF Staged, TypeOK, AtStage
  <2>2. fd'[d] = fd[d] /\ from'[d] = from[d] /\ got'[d] = got[d]
    BY <1>1, <2>1 DEF OthersWait
  <2>3. data'[fd[d]] = data[fd[d]] /\ data'[from[d]] = data[from[d]]
    BY <1>3, <1>4, <2>1, <2>2
  <2>4. fd[d] \notin spoilt /\ (from[d] \in spoilt' <=> from[d] \in spoilt)
    BY <1>3, <1>4, <2>1, <2>2
  <2>5. GrowingCopy(d)
    BY <2>1, <2>4 DEF FilesInv, CopiesGrow
  <2>6. \A e \in Callers : ~(Writes(e)' /\ fd'[e] = from'[d])
    BY <1>2, <2>2, <2>5 DEF GrowingCopy, Writers
  <2> QED
    BY <2>2, <2>3, <2>4, <2>5, <2>6 DEF GrowingCopy, Writers
<1>11. FilesAtRestAreWhole'
  <2> SUFFICES ASSUME NEW k \in Keys, entry'[k] # NoInode, Writers(entry[k])' = {},
                      entry'[k] \notin spoilt'
               PROVE  IsWhole(data'[entry'[k]])
    BY DEF FilesAtRestAreWhole
  <2>1. PICK j \in Keys : entry[j] = entry'[k]
    BY DEF Keeps
  <2>2. entry[j] \in Inodes /\ entry[j] \in InUse'
    BY <1>3, <2>1 DEF Staged, TypeOK
  <2>3. Writers(entry[j]) = {} /\ entry[j] \notin spoilt /\ data'[entry[j]] = data[entry[j]]
    <3>1. Writers(entry[k])' = {d \in Callers : fd'[d] = entry'[k] /\ Writes(d)'}
      BY DEF Writers
    <3> QED
      BY <1>2, <1>4, <2>1, <2>2, <3>1 DEF Writers
  <2> QED
    BY <2>1, <2>2, <2>3 DEF FilesInv, FilesAtRestAreWhole
<1> QED
  BY <1>1, <1>7, <1>9, <1>10, <1>11 DEF FilesInv

\* What else is used of a step.
LEMMA StepFacts ==
    ASSUME Staged, NEW c \in Callers, Sound(c)
    PROVE  /\ \A k \in Keys : entry'[k] \in InUse'
           /\ \A d \in Callers : fd'[d] \in InUse' /\ from'[d] \in InUse'
           /\ \A d \in Callers : Writes(d) => fd[d] \in Inodes
           /\ \A d \in Callers : from[d] # NoInode => from[d] \in Inodes /\ Writes(d)
           /\ \A d \in Callers : pc[d] = "copying" => from[d] \in Inodes
           /\ \A d \in Callers \ {c} :
                 /\ req'[d] = req[d] /\ pc'[d] = pc[d] /\ got'[d] = got[d]
                 /\ fd'[d] = fd[d] /\ from'[d] = from[d] /\ (Writes(d)' <=> Writes(d))
<1>1. /\ \A k \in Keys : entry'[k] \in InUse'
      /\ \A d \in Callers : fd'[d] \in InUse' /\ from'[d] \in InUse'
  BY DEF InUse
<1>2. \A d \in Callers : Writes(d) => fd[d] \in Inodes
  BY DEF Writes, Staged, TypeOK, AtStage
<1>3. \A d \in Callers : from[d] # NoInode => from[d] \in Inodes /\ Writes(d)
  BY DEF Writes, Staged, TypeOK, AtStage
<1>4. \A d \in Callers : pc[d] = "copying" => from[d] \in Inodes
  BY DEF Staged, TypeOK, AtStage
<1>5. OthersWait(c)
  BY DEF Sound
<1> QED
  BY <1>1, <1>2, <1>3, <1>4, <1>5, WritersWait DEF OthersWait

\* A file that grows is not at rest, and grows by the next chunk of its body.
LEMMA GrowsFilesInv ==
    ASSUME Staged, FilesInv, NEW c \in Callers, Sound(c), NEW b \in MaybeBody, Grows(c, b)
    PROVE  FilesInv'
<1> DEFINE i == fd[c]
           n == Len(got[c]) + 1
<1>1. /\ pc[c] \in {"write", "copying"} /\ Writes(c) /\ i \in Inodes
      /\ UNCHANGED <<req, pc, fd, from, entry, spoilt>>
      /\ got'[c] = Append(got[c], b) /\ \A d \in Callers \ {c} : got'[d] = got[d]
      /\ data'[i] = Written(data[i], n, b) /\ \A j \in Inodes \ {i} : data'[j] = data[j]
      /\ data[i] \in Contents /\ n \in Nat \ {0}
  BY DEF Grows, Writes, Staged, TypeOK, AtStage
<1>2. \A j : Writers(j)' = Writers(j)
  BY <1>1 DEF Writers, Writes
<1>3. OneNameEach' /\ OneWriterEach'
  BY <1>1 DEF FilesInv, OneNameEach, OneWriterEach, Writes
<1>4. \A d \in Callers :
         Writes(d) => fd[d] \in Inodes /\ (d # c /\ fd[d] \notin spoilt => fd[d] # i)
  BY <1>1 DEF Writes, Staged, TypeOK, AtStage, FilesInv, OneWriterEach
<1>5. UploadsGrow'
  <2> SUFFICES ASSUME NEW d \in Callers, pc[d] = "write", fd[d] \notin spoilt
               PROVE  data'[fd[d]] = got'[d]
    BY <1>1 DEF UploadsGrow
  <2>1. data[fd[d]] = got[d] /\ Writes(d)
    BY DEF FilesInv, UploadsGrow, Writes
  <2>2. CASE d = c
    BY <1>1, <2>1, <2>2, WrittenIs
  <2>3. CASE d # c
    BY <1>1, <1>4, <2>1, <2>3
  <2> QED
    BY <2>2, <2>3
<1>6. CopiesGrow'
  <2> SUFFICES ASSUME NEW d \in Callers, pc[d] = "copying", fd[d] \notin spoilt
               PROVE  GrowingCopy(d)'
    BY <1>1 DEF CopiesGrow
  <2>1. GrowingCopy(d) /\ Writes(d)
    BY DEF FilesInv, CopiesGrow, Writes
  <2>2. from[d] \in Inodes
    BY DEF Staged, TypeOK, AtStage
  <2>3. from[d] \notin spoilt /\ Writers(from[d]) = {} /\ from[d] # i
    BY <1>1, <2>1 DEF GrowingCopy, Writers
  <2>4. Writers(from[d])' = {}
    BY <1>1, <2>3 DEF Writers, Writes
  <2> PICK a \in Bodies : \E m \in 0 .. Length[a] :
           data[from[d]] = Whole(a) /\ got[d] = Part(a, m) /\ data[fd[d]] = Part(a, m)
    BY <2>1 DEF GrowingCopy
  <2>5. PICK m \in 0 .. Length[a] :
           data[from[d]] = Whole(a) /\ got[d] = Part(a, m) /\ data[fd[d]] = Part(a, m)
    OBVIOUS
  <2>6. data'[from[d]] = Whole(a)
    BY <1>1, <2>2, <2>3, <2>5
  <2>7. CASE d # c
    <3>1. got'[d] = Part(a, m) /\ data'[fd[d]] = Part(a, m)
      BY <1>1, <1>4, <2>1, <2>5, <2>7
    <3> QED
      BY <1>1, <2>3, <2>4, <2>6, <3>1 DEF GrowingCopy
  <2>8. CASE d = c
    <3>1. Length[a] \in Nat /\ Whole(a) = Part(a, Length[a]) /\ Len(Whole(a)) = Length[a]
      BY WholeIs
    <3>2. m \in Nat /\ Length[a] \in Nat
      BY <3>1
    <3>3. /\ Part(a, m) \in Contents /\ Len(Part(a, m)) = m
          /\ Append(Part(a, m), a) = Part(a, m + 1)
          /\ \A l \in 1 .. Length[a] : Part(a, Length[a])[l] = a
      BY <3>2, PartIs
    <3>4. n = m + 1 /\ n <= Length[a] /\ b = Whole(a)[n]
      BY <2>5, <2>8, <3>1, <3>3 DEF Grows
    <3>5. n \in 1 .. Length[a]
      BY <1>1, <3>1, <3>4
    <3>6. b = a
      BY <3>1, <3>3, <3>4, <3>5
    <3>7. got'[d] = Part(a, m + 1) /\ data'[fd[d]] = Part(a, m + 1)
      <4>1. Written(Part(a, m), n, b) = Append(Part(a, m), b)
        BY <1>1, <3>3, <3>4, WrittenIs
      <4> QED
        BY <1>1, <2>5, <2>8, <3>3, <3>6, <4>1
    <3>8. m + 1 \in 0 .. Length[a]
      BY <3>4, <3>5
    <3> QED
      BY <1>1, <2>3, <2>4, <2>6, <3>7, <3>8 DEF GrowingCopy
  <2> QED
    BY <2>7, <2>8
<1>7. FilesAtRestAreWhole'
  <2> SUFFICES ASSUME NEW k \in Keys, entry[k] # NoInode, Writers(entry[k]) = {},
                      entry[k] \notin spoilt
               PROVE  IsWhole(data'[entry[k]])
    BY <1>1, <1>2 DEF FilesAtRestAreWhole
  <2>1. entry[k] # i /\ entry[k] \in Inodes
    BY <1>1 DEF Writers, Staged, TypeOK
  <2> QED
    BY <1>1, <2>1 DEF FilesInv, FilesAtRestAreWhole
<1> QED
  BY <1>3, <1>5, <1>6, <1>7 DEF FilesInv

\* A file that is closed is whole, unless it is spoilt.
LEMMA ClosesFilesInv ==
    ASSUME Staged, FilesInv, NEW c \in Callers, Sound(c), Closes(c)
    PROVE  FilesInv'
<1>1. /\ pc[c] \in {"write", "copying"} /\ Writes(c) /\ ~Writes(c)' /\ UNCHANGED entry
      /\ \A i \in Inodes : i \in InUse' => data'[i] = data[i] /\ (i \in spoilt' <=> i \in spoilt)
  BY DEF Closes, Writes
<1>2. /\ \A k \in Keys : entry'[k] \in InUse'
      /\ \A d \in Callers : fd'[d] \in InUse' /\ from'[d] \in InUse'
      /\ \A d \in Callers : Writes(d) => fd[d] \in Inodes
      /\ \A d \in Callers : pc[d] = "copying" => from[d] \in Inodes
      /\ \A d \in Callers \ {c} :
            /\ req'[d] = req[d] /\ pc'[d] = pc[d] /\ got'[d] = got[d]
            /\ fd'[d] = fd[d] /\ from'[d] = from[d] /\ (Writes(d)' <=> Writes(d))
  BY StepFacts
<1>3. \A d \in Callers : Writes(d)' => d # c /\ Writes(d)
  BY <1>1, <1>2
<1>4. OneNameEach' /\ OneWriterEach'
  BY <1>1, <1>2, <1>3 DEF FilesInv, OneNameEach, OneWriterEach
<1>5. UploadsGrow'
  BY <1>1, <1>2, <1>3 DEF FilesInv, UploadsGrow, Writes
<1>6. CopiesGrow'
  <2> SUFFICES ASSUME NEW d \in Callers, pc'[d] = "copying", fd'[d] \notin spoilt'
               PROVE  GrowingCopy(d)'
    BY DEF CopiesGrow
  <2>1. d # c /\ pc[d] = "copying" /\ Writes(d)
    BY <1>2, <1>3 DEF Writes
  <2>2. fd'[d] = fd[d] /\ from'[d] = from[d] /\ got'[d] = got[d]
    BY <1>2, <2>1
  <2>3. fd[d] \in Inodes /\ from[d] \in Inodes /\ fd[d] \in InUse' /\ from[d] \in InUse'
    BY <1>2, <2>1, <2>2
  <2>4. /\ data'[fd[d]] = data[fd[d]] /\ data'[from[d]] = data[from[d]]
        /\ fd[d] \notin spoilt /\ (from[d] \in spoilt' <=> from[d] \in spoilt)
    BY <1>1, <2>2, <2>3
  <2>5. GrowingCopy(d)
    BY <2>1, <2>4 DEF FilesInv, CopiesGrow
  <2>6. \A e \in Callers : ~(Writes(e)' /\ fd'[e] = from'[d])
    BY <1>2, <1>3, <2>2, <2>5 DEF GrowingCopy, Writers
  <2> QED
    BY <2>2, <2>4, <2>5, <2>6 DEF GrowingCopy, Writers
<1>7. FilesAtRestAreWhole'
  <2> SUFFICES ASSUME NEW k \in Keys, entry[k] # NoInode, Writers(entry[k])' = {},
                      entry[k] \notin spoilt'
               PROVE  IsWhole(data'[entry[k]])
    BY <1>1 DEF FilesAtRestAreWhole
  <2> DEFINE i == entry[k]
  <2>1. i \in Inodes /\ data'[i] = data[i] /\ i \notin spoilt
    BY <1>1, <1>2 DEF Staged, TypeOK
  <2>2. \A d \in Callers \ {c} : ~(Writes(d) /\ fd[d] = i)
    <3>1. \A d \in Callers : ~(Writes(d)' /\ fd'[d] = entry'[k])
      BY DEF Writers
    <3> QED
      BY <1>1, <1>2, <3>1
  <2>3. CASE fd[c] # i
    BY <2>1, <2>2, <2>3 DEF Writers, FilesInv, FilesAtRestAreWhole
  <2>4. CASE fd[c] = i /\ pc[c] = "write"
    <3> DEFINE b == req[c].body
    <3>1. data[i] = got[c]
      BY <2>1, <2>4 DEF FilesInv, UploadsGrow
    <3>2. b \in Bodies /\ got[c] = Part(b, Len(got[c])) /\ Len(got[c]) <= Length[b]
      BY <2>4, CallsAre DEF Staged, AtStage
    <3>3. Len(got[c]) \in Nat /\ Length[b] \in Nat /\ Whole(b) = Part(b, Length[b])
      BY <3>2, WholeIs, ContentsAre DEF Staged, TypeOK
    <3>4. Len(got[c]) >= Length[b]
      BY <2>4 DEF Closes
    <3>5. Len(got[c]) = Length[b]
      BY <3>2, <3>3, <3>4
    <3> QED
      BY <2>1, <3>1, <3>2, <3>3, <3>5 DEF IsWhole
  <2>5. CASE fd[c] = i /\ pc[c] = "copying"
    <3> PICK b \in Bodies : \E n \in 0 .. Length[b] :
             data[from[c]] = Whole(b) /\ got[c] = Part(b, n) /\ data[i] = Part(b, n)
      BY <2>1, <2>5 DEF FilesInv, CopiesGrow, GrowingCopy
    <3>1. PICK n \in 0 .. Length[b] :
             data[from[c]] = Whole(b) /\ got[c] = Part(b, n) /\ data[i] = Part(b, n)
      OBVIOUS
    <3>2. Length[b] \in Nat /\ Whole(b) = Part(b, Length[b]) /\ Len(Whole(b)) = Length[b]
      BY WholeIs
    <3>3. n \in Nat
      BY <3>2
    <3>4. Len(Part(b, n)) = n
      BY <3>3, PartIs
    <3>5. n >= Length[b]
      BY <2>5, <3>1, <3>2, <3>4 DEF Closes
    <3>6. n = Length[b]
      BY <3>2, <3>5
    <3> QED
      BY <2>1, <3>1, <3>2, <3>6 DEF IsWhole
  <2> QED
    BY <1>1, <2>3, <2>4, <2>5
<1> QED
  BY <1>4, <1>5, <1>6, <1>7 DEF FilesInv

\* A file that a failed write leaves under a name is spoilt.
LEMMA AbandonsFilesInv ==
    ASSUME Staged, FilesInv, NEW c \in Callers, Sound(c), Abandons(c)
    PROVE  FilesInv'
<1> DEFINE f == fd[c]
           dst == req[c].dst
<1>1. /\ Writes(c) /\ ~Writes(c)' /\ f \in Inodes /\ dst \in Keys
      /\ \A k \in Keys : entry'[k] \in {entry[k], NoInode}
      /\ \A i \in Inodes : i \in InUse' =>
            /\ data'[i] = data[i]
            /\ i \in spoilt => i \in spoilt'
            /\ i \in spoilt' => i \in spoilt \/ i = f
      /\ f \in InUse' => f \in spoilt' \/ (entry[dst] = f /\ entry'[dst] = NoInode)
  BY DEF Abandons, Writes, Staged, TypeOK, AtStage
<1>2. /\ \A k \in Keys : entry'[k] \in InUse'
      /\ \A d \in Callers : fd'[d] \in InUse' /\ from'[d] \in InUse'
      /\ \A d \in Callers : Writes(d) => fd[d] \in Inodes
      /\ \A d \in Callers : pc[d] = "copying" => from[d] \in Inodes
      /\ \A d \in Callers \ {c} :
            /\ req'[d] = req[d] /\ pc'[d] = pc[d] /\ got'[d] = got[d]
            /\ fd'[d] = fd[d] /\ from'[d] = from[d] /\ (Writes(d)' <=> Writes(d))
  BY StepFacts
<1>3. \A d \in Callers : Writes(d)' => d # c /\ Writes(d)
  BY <1>1, <1>2
<1>4. OneNameEach'
  BY <1>1 DEF FilesInv, OneNameEach
<1>5. OneWriterEach'
  BY <1>1, <1>2, <1>3 DEF FilesInv, OneWriterEach
<1>6. UploadsGrow'
  BY <1>1, <1>2, <1>3 DEF FilesInv, UploadsGrow, Writes
<1>7. CopiesGrow'
  <2> SUFFICES ASSUME NEW d \in Callers, pc'[d] = "copying", fd'[d] \notin spoilt'
               PROVE  GrowingCopy(d)'
    BY DEF CopiesGrow
  <2>1. d # c /\ pc[d] = "copying" /\ Writes(d)
    BY <1>2, <1>3 DEF Writes
  <2>2. fd'[d] = fd[d] /\ from'[d] = from[d] /\ got'[d] = got[d]
    BY <1>2, <2>1
  <2>3. fd[d] \in Inodes /\ from[d] \in Inodes /\ fd[d] \in InUse' /\ from[d] \in InUse'
    BY <1>2, <2>1, <2>2
  <2>4. /\ data'[fd[d]] = data[fd[d]] /\ data'[from[d]] = data[from[d]]
        /\ fd[d] \notin spoilt
    BY <1>1, <2>2, <2>3
  <2>5. GrowingCopy(d)
    BY <2>1, <2>4 DEF FilesInv, CopiesGrow
  <2>6. from[d] # f
    BY <1>1, <2>5 DEF GrowingCopy, Writers
  <2>7. from[d] \notin spoilt'
    BY <1>1, <2>3, <2>5, <2>6 DEF GrowingCopy
  <2>8. \A e \in Callers : ~(Writes(e)' /\ fd'[e] = from'[d])
    BY <1>2, <1>3, <2>2, <2>5 DEF GrowingCopy, Writers
  <2> QED
    BY <2>2, <2>4, <2>5, <2>7, <2>8 DEF GrowingCopy, Writers
<1>8. FilesAtRestAreWhole'
  <2> SUFFICES ASSUME NEW k \in Keys, entry'[k] # NoInode, Writers(entry[k])' = {},
                      entry'[k] \notin spoilt'
               PROVE  IsWhole(data'[entry'[k]])
    BY DEF FilesAtRestAreWhole
  <2> DEFINE i == entry[k]
  <2>1. entry'[k] = i /\ i # NoInode /\ i \in Inodes /\ i \in InUse'
    BY <1>1, <1>2 DEF Staged, TypeOK
  <2>2. data'[i] = data[i] /\ i \notin spoilt /\ i \notin spoilt'
    BY <1>1, <2>1
  <2>3. \A d \in Callers \ {c} : ~(Writes(d) /\ fd[d] = i)
    <3>1. \A d \in Callers : ~(Writes(d)' /\ fd'[d] = entry'[k])
      BY DEF Writers
    <3> QED
      BY <1>2, <2>1, <3>1
  <2>4. i # f
    <3>1. ASSUME i = f
          PROVE  FALSE
      <4>1. entry[dst] = i /\ entry'[dst] = NoInode
        BY <1>1, <2>1, <2>2, <3>1
      <4> QED
        BY <1>1, <2>1, <4>1 DEF FilesInv, OneNameEach
    <3> QED
      BY <3>1
  <2>5. Writers(i) = {}
    BY <2>3, <2>4 DEF Writers
  <2> QED
    BY <2>1, <2>2, <2>5 DEF FilesInv, FilesAtRestAreWhole
<1> QED
  BY <1>4, <1>5, <1>6, <1>7, <1>8 DEF FilesInv

\* A file that is opened for writing is not at rest, and spoils what meets it.
LEMMA OpensFilesInv ==
    ASSUME Staged, FilesInv, NEW c \in Callers, Sound(c), NEW i \in Inodes, Opens(c, i)
    PROVE  FilesInv'
<1> DEFINE dst == req[c].dst
<1>1. /\ ~Writes(c) /\ pc'[c] \in {"write", "copying"} /\ req'[c] = req[c] /\ dst \in Keys
      /\ got'[c] = <<>> /\ fd'[c] = i
      /\ i = entry[dst] \/ i \notin InUse
  BY DEF Opens
<1>2. entry'[dst] = i /\ \A k \in Keys \ {dst} : entry'[k] = entry[k]
  BY <1>1 DEF Opens, Staged, TypeOK
<1>3. /\ \A k \in Keys : entry'[k] \in InUse'
      /\ \A d \in Callers : fd'[d] \in InUse' /\ from'[d] \in InUse'
      /\ \A d \in Callers : Writes(d) => fd[d] \in Inodes
      /\ \A d \in Callers : from[d] # NoInode => from[d] \in Inodes /\ Writes(d)
      /\ \A d \in Callers : pc[d] = "copying" => from[d] \in Inodes
      /\ \A d \in Callers \ {c} :
            /\ req'[d] = req[d] /\ pc'[d] = pc[d] /\ got'[d] = got[d]
            /\ fd'[d] = fd[d] /\ from'[d] = from[d] /\ (Writes(d)' <=> Writes(d))
  BY StepFacts
<1>4. Writes(c)' /\ i \in InUse' /\ \A k \in Keys : entry[k] = i => k = dst
  <2>1. \A k \in Keys : entry[k] = i => k = dst
    BY <1>1, UsedAre, InodesAssumption DEF FilesInv, OneNameEach
  <2> QED
    BY <1>1, <1>3, <2>1 DEF Writes
\* What the step spoils, and what it does not.
<1>5. /\ data'[i] = <<>>
      /\ i \notin spoilt' =>
            /\ \A d \in Callers : ~(Writes(d) /\ fd[d] = i)
            /\ pc'[c] = "copying" => from'[c] \notin spoilt /\ Writers(from'[c]) = {}
      /\ \A j \in Inodes \ {i} : j \in InUse' =>
            /\ data'[j] = data[j]
            /\ j \in spoilt' <=> j \in spoilt \/ \E d \in Callers : from[d] = i /\ fd[d] = j
  BY <1>4 DEF Opens, SpoiltBy, Writers
<1>6. OneNameEach'
  BY <1>1, <1>2, <1>4 DEF FilesInv, OneNameEach
<1>7. \A d \in Callers : Writes(d)' /\ fd'[d] # i => d # c /\ Writes(d)
  BY <1>1, <1>3
<1>8. \A d \in Callers \ {c} : Writes(d)' /\ fd'[d] \notin spoilt' =>
         fd[d] # i /\ fd[d] \notin spoilt /\ data'[fd[d]] = data[fd[d]] /\ from[d] # i
  <2> SUFFICES ASSUME NEW d \in Callers \ {c}, Writes(d)', fd'[d] \notin spoilt'
               PROVE  /\ fd[d] # i /\ fd[d] \notin spoilt /\ data'[fd[d]] = data[fd[d]]
                      /\ from[d] # i
    OBVIOUS
  <2>1. Writes(d) /\ fd'[d] = fd[d] /\ fd[d] \in Inodes /\ fd[d] \in InUse'
    BY <1>3
  <2>2. fd[d] # i
    BY <1>5, <2>1
  <2> QED
    BY <1>5, <2>1, <2>2
<1>9. OneWriterEach'
  <2> SUFFICES ASSUME NEW d \in Callers, NEW e \in Callers, Writes(d)', Writes(e)',
                      fd'[d] = fd'[e], fd'[d] \notin spoilt'
               PROVE  d = e
    BY DEF OneWriterEach
  <2>1. CASE d = c \/ e = c
    BY <1>1, <1>3, <1>8, <2>1
  <2>2. CASE d # c /\ e # c
    BY <1>3, <1>8, <2>2 DEF FilesInv, OneWriterEach
  <2> QED
    BY <2>1, <2>2
<1>10. UploadsGrow'
  <2> SUFFICES ASSUME NEW d \in Callers, pc'[d] = "write", fd'[d] \notin spoilt'
               PROVE  data'[fd'[d]] = got'[d]
    BY DEF UploadsGrow
  <2>1. CASE d = c
    BY <1>1, <1>5, <2>1
  <2>2. CASE d # c
    <3>1. Writes(d)' /\ pc[d] = "write"
      BY <1>3, <2>2 DEF Writes
    <3> QED
      BY <1>3, <1>8, <2>2, <3>1 DEF FilesInv, UploadsGrow
  <2> QED
    BY <2>1, <2>2
<1>11. CopiesGrow'
  <2> SUFFICES ASSUME NEW d \in Callers, pc'[d] = "copying", fd'[d] \notin spoilt'
               PROVE  GrowingCopy(d)'
    BY DEF CopiesGrow
  <2>1. CASE d # c
    <3>1. Writes(d)' /\ pc[d] = "copying" /\ Writes(d) /\ from'[d] = from[d]
      BY <1>3, <2>1 DEF Writes
    <3>2. /\ fd[d] # i /\ fd[d] \notin spoilt /\ data'[fd[d]] = data[fd[d]] /\ from[d] # i
      BY <1>8, <2>1, <3>1
    <3>3. GrowingCopy(d) /\ from[d] \in Inodes /\ from[d] \in InUse'
      BY <1>3, <3>1, <3>2 DEF FilesInv, CopiesGrow
    <3>4. data'[from[d]] = data[from[d]]
      BY <1>5, <3>2, <3>3
    <3>5. from[d] \notin spoilt'
      <4>1. ASSUME NEW e \in Callers, from[e] = i, fd[e] = from[d]
            PROVE  FALSE
        <5>1. Writes(e)
          BY <1>3, <4>1, InodesAssumption
        <5> QED
          BY <3>3, <4>1, <5>1 DEF GrowingCopy, Writers
      <4> QED
        BY <1>5, <3>2, <3>3, <4>1 DEF GrowingCopy
    <3>6. \A e \in Callers : ~(Writes(e)' /\ fd'[e] = from'[d])
      <4>1. \A e \in Callers : ~(Writes(e) /\ fd[e] = from[d])
        BY <3>3 DEF GrowingCopy, Writers
      <4> QED
        BY <1>1, <1>3, <3>1, <3>2, <4>1
    <3> QED
      BY <1>3, <2>1, <3>1, <3>2, <3>3, <3>4, <3>5, <3>6 DEF GrowingCopy, Writers
  <2>2. CASE d = c
    <3> DEFINE source == from'[c]
    <3>1. /\ req[c].src \in Keys /\ source = entry[req[c].src] /\ source \in Inodes
          /\ source # i /\ source # entry[dst]
      BY <2>2 DEF Opens
    <3>2. i \notin spoilt' /\ source \in InUse'
      BY <1>1, <1>3, <2>2
    <3>3. source \notin spoilt /\ Writers(source) = {}
      BY <1>5, <2>2, <3>2
    <3>4. PICK b \in Bodies : data[source] = Whole(b)
      BY <3>1, <3>3, InodesAssumption DEF FilesInv, FilesAtRestAreWhole, IsWhole
    <3>5. \A e \in Callers : ~(Writes(e) /\ fd[e] = source)
      BY <3>3 DEF Writers
    <3>6. source \notin spoilt'
      <4>1. ASSUME NEW e \in Callers, from[e] = i, fd[e] = source
            PROVE  FALSE
        <5>1. Writes(e)
          BY <1>3, <4>1, InodesAssumption
        <5> QED
          BY <3>5, <4>1, <5>1
      <4> QED
        BY <1>5, <3>1, <3>2, <3>3, <4>1
    <3>7. \A e \in Callers : ~(Writes(e)' /\ fd'[e] = source)
      BY <1>1, <1>3, <3>1, <3>5
    <3>8. data'[source] = Whole(b)
      BY <1>5, <3>1, <3>2, <3>4
    <3>9. got'[c] = Part(b, 0) /\ data'[fd'[c]] = Part(b, 0)
      BY <1>1, <1>5 DEF Part
    <3>10. 0 \in 0 .. Length[b]
      BY WholeIs
    <3> HIDE DEF source
    <3>11. Writers(from[c])' = {}
      BY <3>7 DEF Writers, source
    <3> QED
      BY <2>2, <3>6, <3>8, <3>9, <3>10, <3>11 DEF GrowingCopy, source
  <2> QED
    BY <2>1, <2>2
<1>12. FilesAtRestAreWhole'
  <2> SUFFICES ASSUME NEW k \in Keys, entry'[k] # NoInode, Writers(entry[k])' = {},
                      entry'[k] \notin spoilt'
               PROVE  IsWhole(data'[entry'[k]])
    BY DEF FilesAtRestAreWhole
  <2>1. \A d \in Callers : ~(Writes(d)' /\ fd'[d] = entry'[k])
    BY DEF Writers
  <2>2. k # dst /\ entry'[k] = entry[k] /\ entry[k] # i
    BY <1>1, <1>2, <1>4, <2>1
  <2>3. entry[k] \in Inodes /\ entry[k] \in InUse'
    BY <1>3, <2>2 DEF Staged, TypeOK
  <2>4. entry[k] \notin spoilt /\ data'[entry[k]] = data[entry[k]]
    BY <1>5, <2>2, <2>3
  <2>5. Writers(entry[k]) = {}
    BY <1>1, <1>3, <2>1, <2>2 DEF Writers
  <2> QED
    BY <2>2, <2>4, <2>5 DEF FilesInv, FilesAtRestAreWhole
<1> QED
  BY <1>6, <1>9, <1>10, <1>11, <1>12 DEF FilesInv

\* Where nothing changes the files stay as they are.
LEMMA FilesInvStutters ==
    ASSUME FilesInv, UNCHANGED vars
    PROVE  FilesInv'
<1>1. UNCHANGED <<entry, data, spoilt, fd, from, got, pc, req>>
  BY DEF vars, fileVars, callVars, openVars, history
<1>2. \A c \in Callers : Writes(c)' <=> Writes(c)
  BY <1>1 DEF Writes
<1>3. \A i : Writers(i)' = Writers(i)
  BY <1>1, <1>2 DEF Writers
<1>4. OneNameEach' /\ OneWriterEach' /\ UploadsGrow'
  BY <1>1, <1>2 DEF FilesInv, OneNameEach, OneWriterEach, UploadsGrow
<1>5. CopiesGrow'
  <2>1. \A c \in Callers : Writers(from[c])' = Writers(from[c])
    BY <1>1, <1>3 DEF Writers, Writes
  <2> QED
    BY <1>1, <2>1 DEF FilesInv, CopiesGrow, GrowingCopy
<1>6. FilesAtRestAreWhole'
  <2>1. \A k \in Keys : Writers(entry[k])' = Writers(entry[k])
    BY <1>1, <1>3 DEF Writers, Writes
  <2> QED
    BY <1>1, <2>1 DEF FilesInv, FilesAtRestAreWhole
<1> QED
  BY <1>4, <1>5, <1>6 DEF FilesInv

\* The invariant of the files is inductive, given types and stages.
LEMMA FilesInvKeeps ==
    ASSUME Staged, FilesInv, [Next]_vars
    PROVE  FilesInv'
<1>1. ASSUME NEW c \in Callers, StepOf(c)
      PROVE  FilesInv'
  BY <1>1, StepIs, KeepsFilesInv, ClosesFilesInv, AbandonsFilesInv, OpensFilesInv, GrowsFilesInv
<1> QED
  BY <1>1, FilesInvStutters DEF Next, StepOf

\* The files at the start are whole, and have one name each.
LEMMA InitFilesInv ==
    ASSUME Init
    PROVE  FilesInv
<1>1. /\ FirstFile \in [Keys -> Inodes]
      /\ \A j, k \in Keys : j # k => FirstFile[j] # FirstFile[k]
  BY RoomAssumption DEF FirstFile
<1>2. OneNameEach
  BY <1>1, InodesAssumption DEF Init, OneNameEach
<1>3. \A c \in Callers : pc[c] = "idle"
  BY DEF Init
<1>4. OneWriterEach /\ UploadsGrow /\ CopiesGrow
  BY <1>3 DEF OneWriterEach, UploadsGrow, CopiesGrow, Writes
<1>5. FilesAtRestAreWhole
  <2> SUFFICES ASSUME NEW k \in Keys, entry[k] # NoInode
               PROVE  IsWhole(data[entry[k]])
    BY DEF FilesAtRestAreWhole
  <2>1. entry[k] \in Inodes
    BY DEF Init
  <2> QED
    BY <2>1 DEF Init
<1> QED
  BY <1>2, <1>4, <1>5 DEF FilesInv

\* A file that nobody is writing holds one whole body, unless two callers wrote it at
\* once, it was copied from a file being written, or a failed write could not remove
\* it: for any number of callers, keys and files.  The invariant behind it says what
\* every open file holds so far.
THEOREM RestingFilesAreWhole == Spec => []FilesAtRestAreWhole
<1>1. Init => Staged /\ FilesInv
  BY InitStaged, InitFilesInv
<1>2. Staged /\ FilesInv /\ [Next]_vars => (Staged /\ FilesInv)'
  BY StagedKeeps, FilesInvKeeps
<1>3. FilesInv => FilesAtRestAreWhole
  BY DEF FilesInv
<1> QED
  BY <1>1, <1>2, <1>3, PTL DEF Spec

(***************************************************************************)
(* Calls that are alone.                                                   *)
(***************************************************************************)

\* What LoneCallsKeepTheirWord says of one call.
Promise(c) ==
    /\ req[c].op = "upload" => UploadAlone(c)
    /\ req[c].op \in {"delete", "sweep"} => DeleteAlone(c)
    /\ req[c].op = "copy" => CopyAlone(c)
    /\ req[c].op = "move" => MoveAlone(c)
    /\ req[c].op = "download" => DownloadAlone(c)

\* No other call but a download has to do with the keys of c, and nobody else is
\* writing to a file of theirs.
Undisturbed(c) ==
    \A d \in Callers \ {c} :
        /\ d \in Busy /\ Touched(req[d]) \cap Touched(req[c]) # {} => req[d].op = "download"
        /\ \A k \in Touched(req[c]) : Writes(d) => entry[k] # fd[d]

\* What was read so far is the beginning of what was there.
BeginningRead(c) ==
    /\ Len(got[c]) <= Len(before[c])
    /\ \A m \in 1 .. Len(got[c]) : got[c][m] = before[c][m]

\* How far a call that is alone has come, step by step.
UploadSoFar(c) ==
    LET r == req[c] IN
    /\ pc[c] = "check" => ~r.overwrite
    /\ pc[c] \in {"check", "mkdir", "open", "discard"} => Held(r.dst) = before[c]
    /\ pc[c] = "discard" => answer[c] = "failed"
    /\ pc[c] \in {"mkdir", "open", "write", "size"} => r.overwrite \/ before[c] = Absent
    /\ pc[c] = "open" => directory
    /\ pc[c] \in {"write", "cleanup"} => entry[r.dst] = fd[c]
    /\ pc[c] = "write" => data[fd[c]] = got[c]
    /\ pc[c] = "size" => Held(r.dst) = Whole(r.body)

DeleteSoFar(c) ==
    /\ pc[c] = "unlink" => Held(req[c].src) = before[c]
    /\ pc[c] \in {"readdir", "rmdir"} => Held(req[c].src) = Absent

CopySoFar(c) ==
    LET r == req[c] IN
    /\ pc[c] # "done" => Held(r.src) = before[c]
    /\ pc[c] \in {"copying", "cleanup"} => r.src # r.dst /\ entry[r.dst] = fd[c]
    /\ pc[c] = "copying" =>
          entry[r.src] = from[c] /\ data[fd[c]] = got[c] /\ BeginningRead(c)
    /\ pc[c] \in {"copied", "unlinkSource"} => Held(r.dst) = before[c] /\ before[c] # Absent
    /\ pc[c] = "unlinkSource" \/ (pc[c] = "copyFile" /\ r.op = "move") => r.src # r.dst

DownloadSoFar(c) ==
    LET src == req[c].src IN
    /\ pc[c] # "done" => Held(src) = before[c]
    /\ pc[c] \in {"openRead", "read"} => before[c] # Absent /\ size[c] = Len(before[c])
    /\ pc[c] = "read" => fd[c] = entry[src] /\ BeginningRead(c)

SoFar(c) ==
    /\ req[c].op = "upload" => UploadSoFar(c)
    /\ req[c].op \in {"delete", "sweep"} => DeleteSoFar(c)
    /\ req[c].op \in {"copy", "move"} => CopySoFar(c)
    /\ req[c].op = "download" => DownloadSoFar(c)

Lone(c) == pc[c] # "idle" /\ Undisturbed(c) /\ SoFar(c) /\ Promise(c)

LoneInv == \A c \in Callers : alone[c] => Lone(c)

\* Equal as far as they go, and equally long.
LEMMA SameContents ==
    ASSUME NEW s \in Contents, NEW t \in Contents, Len(s) <= Len(t), Len(s) >= Len(t),
           \A m \in 1 .. Len(s) : s[m] = t[m]
    PROVE  s = t
<1>1. s \in Seq(MaybeBody) /\ Len(s) \in Nat /\ t \in Seq(MaybeBody) /\ Len(t) \in Nat
  BY ContentsAre
<1>2. Len(s) = Len(t)
  BY <1>1
<1> QED
  BY <1>1, <1>2

\* A key holds something if there is a file of its name.
LEMMA HeldIs ==
    ASSUME Staged, NEW k \in Keys
    PROVE  /\ entry[k] = NoInode => Held(k) = Absent
           /\ entry[k] # NoInode =>
                 /\ entry[k] \in Inodes /\ Held(k) = data[entry[k]]
                 /\ Held(k) \in Contents /\ Held(k) # Absent
BY EmptyIsContent DEF Held, Staged, TypeOK

\* A step only changes what its call has to do with; and only a call that begins
\* or ends changes who is alone.
LEMMA CallStepIs ==
    ASSUME Staged, NEW c \in Callers, CallStep(c)
    PROVE  \/ Return(c)
           \/ c \in Busy /\ UNCHANGED <<req, alone, before>>
<1>1. ASSUME \/ Check(c) \/ Mkdir(c) \/ Open(c) \/ OpenFindsNoDirectory(c)
             \/ OpenFails(c) \/ Discard(c) \/ WriteFails(c) \/ Cleanup(c) \/ Size(c) \/ Unlink(c)
             \/ Readdir(c) \/ Rmdir(c)
      PROVE  c \in Busy /\ UNCHANGED <<req, alone, before>>
  BY <1>1 DEF Check, Mkdir, Open, OpenFindsNoDirectory, OpenFails, Discarding, Discard,
              WriteFails, Cleanup, Size, Unlink, Readdir, Rmdir, GoTo, End, history, callVars, Busy
<1>2. ASSUME \/ Rename(c) \/ RenameRefused(c) \/ CopyOpens(c) \/ CopyFindsNothing(c)
             \/ CopyFails(c) \/ Copied(c) \/ UnlinkSource(c)
             \/ Stat(c) \/ OpenRead(c) \/ CallFails(c)
      PROVE  c \in Busy /\ UNCHANGED <<req, alone, before>>
  BY <1>2 DEF Rename, RenameRefused, CopyOpens, CopyFindsNothing, CopyFails, Copied, UnlinkSource,
              Stat, OpenRead, CallFails, GoTo, End, history, callVars, Busy
<1>3. ASSUME Write(c) \/ CopyChunk(c) \/ Read(c)
      PROVE  c \in Busy /\ UNCHANGED <<req, alone, before>>
  BY <1>3 DEF Write, CopyChunk, Read, GoTo, End, callVars, Busy
<1> QED
  BY <1>1, <1>2, <1>3 DEF CallStep

\* The keys of a call.
LEMMA TouchedAre ==
    ASSUME NEW r
    PROVE  /\ Touched(r) \subseteq Keys /\ {r.src, r.dst} \cap Keys \subseteq Touched(r)
           /\ r.op = "sweep" => Touched(r) = Keys
BY DEF Touched

\* The other calls leave the keys of a call that is alone as they are.
LEMMA OthersKeepOff ==
    ASSUME Staged, FilesInv, NEW c \in Callers, NEW d \in Callers \ {c}, StepOf(d), Undisturbed(c)
    PROVE  /\ \A k \in Touched(req[c]) :
                 /\ entry'[k] = entry[k]
                 /\ entry[k] # NoInode =>
                       /\ data'[entry[k]] = data[entry[k]]
                       /\ entry[k] \in spoilt => entry[k] \in spoilt'
                 /\ Writes(d)' => entry'[k] # fd'[d]
           /\ directory => directory' \/ Touched(req[c]) = {}
<1> DEFINE Spared == \A k \in Touched(req[c]) :
                         /\ entry[k] # NoInode =>
                               /\ data'[entry[k]] = data[entry[k]]
                               /\ entry[k] \in spoilt => entry[k] \in spoilt'
                         /\ Writes(d)' => entry'[k] # fd'[d]
<1>1. Sound(d)
  BY StepIs
<1>2. \/ d \in Busy
      \/ Quiet(d) /\ UNCHANGED directory
  BY CallStepIs, ReturnIs, InvokeIs DEF StepOf, Return, Invoke, fileVars
<1>3. \A k \in Touched(req[c]) : entry'[k] = entry[k]
  <2> SUFFICES ASSUME NEW k \in Touched(req[c]), entry'[k] # entry[k]
               PROVE  FALSE
    OBVIOUS
  <2>1. d \in Busy /\ k \in Keys
    BY <1>2, TouchedAre DEF Quiet
  <2>2. k \in Touched(req[d]) /\ req[d].op # "download"
    BY <1>1, <2>1, TouchedAre DEF Sound, Reaches
  <2> QED
    BY <2>1, <2>2 DEF Undisturbed
<1>4. directory => directory' \/ Touched(req[c]) = {}
  <2>1. ASSUME directory, ~directory', Touched(req[c]) # {}
        PROVE  FALSE
    <3>1. req[d].op = "sweep"
      BY <1>1, <2>1 DEF Sound, Reaches
    <3>2. d \in Busy /\ Touched(req[d]) \cap Touched(req[c]) # {}
      BY <1>2, <2>1, <3>1, TouchedAre
    <3> QED
      BY <3>1, <3>2 DEF Undisturbed
  <2> QED
    BY <2>1
<1>5. \A k \in Touched(req[c]) : entry[k] # NoInode => entry[k] \in Inodes /\ entry[k] \in InUse'
  <2>1. \A k \in Keys : entry'[k] \in InUse'
    BY <1>1, StepFacts
  <2> QED
    BY <1>3, <2>1, TouchedAre DEF Staged, TypeOK
<1>6. ASSUME Keeps(d) PROVE Spared
  BY <1>3, <1>5, <1>6 DEF Keeps, Undisturbed
<1>7. ASSUME Closes(d) PROVE Spared
  BY <1>3, <1>5, <1>7 DEF Closes, Undisturbed
<1>8. ASSUME Abandons(d) PROVE Spared
  BY <1>3, <1>5, <1>8 DEF Abandons, Undisturbed, Writes
<1>9. ASSUME NEW b \in MaybeBody, Grows(d, b)
      PROVE  Spared
  <2>1. Writes(d) /\ fd' = fd /\ spoilt' = spoilt
    BY <1>9 DEF Grows, Writes
  <2>2. \A i \in Inodes : i # fd[d] => data'[i] = data[i]
    BY <1>9 DEF Grows, Staged, TypeOK
  <2> QED
    BY <1>3, <1>5, <2>1, <2>2 DEF Undisturbed
<1>10. ASSUME NEW i \in Inodes, Opens(d, i)
       PROVE  Spared
  <2>1. /\ i = entry[req[d].dst] \/ i \notin InUse
        /\ req[d].dst \in Keys /\ fd'[d] = i /\ req'[d] = req[d]
        /\ pc'[d] \in {"write", "copying"}
    BY <1>10 DEF Opens
  <2>2. req[d].op # "download" /\ d \in Busy
    <3>1. AtStage(d)'
      BY <1>1 DEF Sound
    <3> QED
      BY <1>2, <2>1, <3>1 DEF AtStage, Quiet
  <2>3. \A k \in Touched(req[c]) : entry[k] # i
    <3> SUFFICES ASSUME NEW k \in Touched(req[c]), entry[k] = i
                 PROVE  FALSE
      OBVIOUS
    <3>1. k \in Keys /\ i \in InUse
      BY TouchedAre, UsedAre
    <3>2. k = req[d].dst
      BY <2>1, <3>1, InodesAssumption DEF FilesInv, OneNameEach
    <3>3. k \in Touched(req[d])
      BY <2>1, <3>2, TouchedAre
    <3> QED
      BY <2>2, <3>3 DEF Undisturbed
  <2> QED
    BY <1>3, <1>5, <1>10, <2>1, <2>3, InodesAssumption DEF Opens, SpoiltBy
<1>11. Spared
  BY <1>6, <1>7, <1>8, <1>9, <1>10, StepIs
<1> QED
  BY <1>3, <1>4, <1>11

\* A step of another caller leaves a call that is alone on its way.
LEMMA OthersKeepLone ==
    ASSUME Staged, FilesInv, LoneInv, NEW c \in Callers, NEW d \in Callers \ {c}, StepOf(d),
           alone'[c]
    PROVE  Lone(c)'
<1>1. \/ alone[c] /\ req'[d] = req[d] /\ (d \in Busy' => d \in Busy)
      \/ alone[c] /\ req'[d] = NoRequest /\ d \notin Busy'
      \/ /\ alone[c]
         /\ Touched(req[c]) \cap Touched(req'[d]) = {} \/ req'[d].op = "download"
  <2>1. CASE Return(d)
    BY <2>1 DEF Return, Staged, TypeOK, Busy
  <2>2. CASE d \in Busy /\ UNCHANGED <<req, alone, before>>
    BY <2>2
  <2>3. CASE Invoke(d)
    <3>1. PICK r \in Calls :
             LET sharing == {e \in Callers : Touched(req[e]) \cap Touched(r) # {}}
                 written == {k \in Touched(r) : entry[k] # NoInode /\ Writers(entry[k]) # {}}
             IN  /\ req' = [req EXCEPT ![d] = r]
                 /\ alone' = [e \in Callers |->
                                 IF e = d THEN sharing \cap Busy = {} /\ written = {}
                                 ELSE alone[e] /\ (e \notin sharing \/ r.op = "download")]
      BY <2>3 DEF Invoke
    <3>2. req'[d] = r
      BY <3>1 DEF Staged, TypeOK
    <3>3. alone[c] /\ (Touched(req[c]) \cap Touched(r) = {} \/ r.op = "download")
      BY <3>1
    <3> QED
      BY <3>2, <3>3
  <2> QED
    BY <2>1, <2>2, <2>3, CallStepIs DEF StepOf
<1>2. Lone(c)
  BY <1>1 DEF LoneInv
<1>3. Sound(d)
  BY StepIs
<1>4. /\ req'[c] = req[c] /\ pc'[c] = pc[c] /\ answer'[c] = answer[c]
      /\ fd'[c] = fd[c] /\ from'[c] = from[c] /\ got'[c] = got[c] /\ size'[c] = size[c]
      /\ before'[c] = before[c]
  BY <1>3 DEF Sound, OthersWait
<1>5. /\ \A k \in Touched(req[c]) :
            /\ entry'[k] = entry[k]
            /\ entry[k] # NoInode =>
                  /\ data'[entry[k]] = data[entry[k]]
                  /\ entry[k] \in spoilt => entry[k] \in spoilt'
            /\ Writes(d)' => entry'[k] # fd'[d]
      /\ directory => directory' \/ Touched(req[c]) = {}
  BY <1>2, OthersKeepOff DEF Lone
<1>6. Undisturbed(c)'
  <2> SUFFICES ASSUME NEW e \in Callers \ {c}
               PROVE  /\ e \in Busy' /\ Touched(req'[e]) \cap Touched(req'[c]) # {} =>
                            req'[e].op = "download"
                      /\ \A k \in Touched(req'[c]) : Writes(e)' => entry'[k] # fd'[e]
    BY DEF Undisturbed, Touched
  <2>1. CASE e # d
    <3>1. /\ req'[e] = req[e] /\ fd'[e] = fd[e] /\ (Writes(e)' <=> Writes(e))
          /\ (e \in Busy' <=> e \in Busy)
      BY <1>3, <2>1, WritersWait DEF Sound, OthersWait, Busy
    <3> QED
      BY <1>2, <1>4, <1>5, <3>1 DEF Lone, Undisturbed
  <2>2. CASE e = d
    <3>1. e \in Busy' /\ Touched(req'[e]) \cap Touched(req'[c]) # {} => req'[e].op = "download"
      BY <1>1, <1>2, <1>4, <2>2 DEF Lone, Undisturbed
    <3> QED
      BY <1>4, <1>5, <2>2, <3>1
  <2> QED
    BY <2>1, <2>2
<1>7. \A k \in Touched(req[c]) : Held(k)' = Held(k)
  BY <1>5 DEF Held
<1>8. pc[c] # "idle" /\ AtStage(c)
  BY <1>2 DEF Lone, Staged
<1>9. /\ req[c].src \in Keys => req[c].src \in Touched(req[c])
      /\ req[c].dst \in Keys => req[c].dst \in Touched(req[c])
  BY TouchedAre
<1>10. CASE req[c].op = "upload"
  <2> DEFINE k == req[c].dst
  <2>1. k \in Touched(req[c])
    BY <1>9, <1>10, CallsAre
  <2>2. entry'[k] = entry[k] /\ (directory => directory')
    BY <1>5, <2>1
  <2>3. Held(req[c].dst)' = Held(k)
    BY <1>4, <1>5, <2>1 DEF Held
  <2>4. UploadSoFar(c)'
    <3>1. UploadSoFar(c)
      BY <1>2, <1>10 DEF Lone, SoFar
    <3>2. pc[c] = "write" => data'[fd[c]] = data[fd[c]]
      BY <1>5, <1>8, <2>1, <3>1 DEF UploadSoFar, AtStage
    <3> QED
      BY <1>4, <2>2, <2>3, <3>1, <3>2 DEF UploadSoFar, Whole
  <2>5. UploadAlone(c)'
    <3>1. UploadAlone(c)
      BY <1>2, <1>10 DEF Lone, Promise
    <3>2. entry[k] \in spoilt => entry'[k] \in spoilt'
      BY <1>5, <2>1, InodesAssumption DEF Staged, TypeOK
    <3> QED
      BY <1>4, <2>2, <2>3, <3>1, <3>2 DEF UploadAlone, Whole
  <2> QED
    BY <1>2, <1>4, <1>6, <1>10, <2>4, <2>5 DEF Lone, SoFar, Promise
<1>11. CASE req[c].op \in {"delete", "sweep"}
  <2>1. req[c].src \in Touched(req[c])
    BY <1>9, <1>11, CallsAre
  <2>2. Held(req[c].src)' = Held(req[c].src)
    BY <1>4, <1>5, <2>1 DEF Held
  <2>3. DeleteSoFar(c)' /\ DeleteAlone(c)'
    BY <1>2, <1>4, <1>11, <2>2 DEF Lone, SoFar, Promise, DeleteSoFar, DeleteAlone
  <2> QED
    BY <1>2, <1>4, <1>6, <1>11, <2>3 DEF Lone, SoFar, Promise
<1>12. CASE req[c].op \in {"copy", "move"}
  <2>1. req[c].src \in Touched(req[c]) /\ req[c].dst \in Touched(req[c])
    BY <1>9, <1>12, CallsAre
  <2>2. Held(req[c].src)' = Held(req[c].src) /\ Held(req[c].dst)' = Held(req[c].dst)
    BY <1>4, <1>5, <2>1 DEF Held
  <2>3. entry'[req[c].dst] = entry[req[c].dst] /\ entry'[req[c].src] = entry[req[c].src]
    BY <1>5, <2>1
  <2>4. CopySoFar(c)
    BY <1>2, <1>12 DEF Lone, SoFar
  <2>5. pc[c] = "copying" => data'[fd[c]] = data[fd[c]]
    BY <1>5, <1>8, <2>1, <2>4 DEF CopySoFar, AtStage
  <2>6. CopySoFar(c)'
    BY <1>4, <2>2, <2>3, <2>4, <2>5 DEF CopySoFar, BeginningRead
  <2>7. (req[c].op = "copy" => CopyAlone(c)') /\ (req[c].op = "move" => MoveAlone(c)')
    BY <1>2, <1>4, <2>2 DEF Lone, Promise, CopyAlone, MoveAlone
  <2> QED
    BY <1>2, <1>4, <1>6, <1>12, <2>6, <2>7 DEF Lone, SoFar, Promise
<1>13. CASE req[c].op = "download"
  <2>1. req[c].src \in Touched(req[c])
    BY <1>9, <1>13, CallsAre
  <2>2. Held(req[c].src)' = Held(req[c].src) /\ entry'[req[c].src] = entry[req[c].src]
    BY <1>4, <1>5, <2>1 DEF Held
  <2>3. DownloadSoFar(c)'
    BY <1>2, <1>4, <1>13, <2>2 DEF Lone, SoFar, DownloadSoFar, BeginningRead
  <2>4. DownloadAlone(c)'
    BY <1>2, <1>4, <1>13 DEF Lone, Promise, DownloadAlone
  <2> QED
    BY <1>2, <1>4, <1>6, <1>13, <2>3, <2>4 DEF Lone, SoFar, Promise
<1> QED
  <2>1. req[c].op \in {"upload", "delete", "sweep", "copy", "move", "download"}
    BY <1>8, OpsAre
  <2> QED
    BY <1>10, <1>11, <1>12, <1>13, <2>1

\* A call that begins alone: nobody is writing to what its keys hold.
LEMMA InvokeLone ==
    ASSUME Staged, NEW c \in Callers, Invoke(c), alone'[c]
    PROVE  Lone(c)'
<1>1. PICK r \in Calls :
         LET sharing == {d \in Callers : Touched(req[d]) \cap Touched(r) # {}}
             written == {k \in Touched(r) : entry[k] # NoInode /\ Writers(entry[k]) # {}}
         IN  /\ req' = [req EXCEPT ![c] = r]
             /\ pc' = [pc EXCEPT ![c] = FirstStep(r)]
             /\ alone' = [d \in Callers |->
                             IF d = c THEN sharing \cap Busy = {} /\ written = {}
                             ELSE alone[d] /\ (d \notin sharing \/ r.op = "download")]
             /\ before' = [before EXCEPT ![c] = Held(Subject(r))]
  BY DEF Invoke
<1>2. UNCHANGED <<fileVars, answer, openVars, spoilt>> /\ pc[c] = "idle" /\ answer[c] = "none"
  BY DEF Invoke, Staged, AtStage
<1>3. /\ \A d \in Callers : Touched(req[d]) \cap Touched(r) # {} => d \notin Busy
      /\ \A k \in Touched(r) : entry[k] # NoInode => Writers(entry[k]) = {}
  BY <1>1
<1>4. /\ req'[c] = r /\ pc'[c] = FirstStep(r) /\ before'[c] = Held(Subject(r))
      /\ \A d \in Callers \ {c} : req'[d] = req[d] /\ pc'[d] = pc[d]
  BY <1>1 DEF Staged, TypeOK
<1>5. Sound(c)
  BY InvokeIs
<1>6. \A d \in Callers \ {c} : (d \in Busy' <=> d \in Busy) /\ (Writes(d)' <=> Writes(d))
  BY <1>4 DEF Busy, Writes
<1>7. Undisturbed(c)'
  <2> SUFFICES ASSUME NEW d \in Callers \ {c}
               PROVE  /\ d \in Busy' /\ Touched(req'[d]) \cap Touched(req'[c]) # {} =>
                            req'[d].op = "download"
                      /\ \A k \in Touched(req'[c]) : Writes(d)' => entry'[k] # fd'[d]
    BY DEF Undisturbed, Touched
  <2>1. \A k \in Touched(r) : Writes(d) => entry[k] # fd[d]
    BY <1>3, InodesAssumption DEF Writers, Writes, Staged, AtStage
  <2> QED
    BY <1>2, <1>3, <1>4, <1>6, <2>1 DEF fileVars, openVars
<1>8. r \in Requests \cup Sweeps \cup Downloads
  BY LocalCallsAssumption
<1>9. /\ r.op = "upload" => /\ Subject(r) = r.dst
                            /\ FirstStep(r) \in {"check", "mkdir"}
                            /\ FirstStep(r) = "check" <=> ~r.overwrite
      /\ r.op \in {"copy", "move"} => /\ Subject(r) = r.src
                                      /\ FirstStep(r) \in {"check", "mkdir"}
      /\ r.op \in {"delete", "sweep"} => Subject(r) = r.src /\ FirstStep(r) = "unlink"
      /\ r.op = "download" => Subject(r) = r.src /\ FirstStep(r) = "stat"
      /\ r.op \in {"upload", "copy", "move", "delete", "sweep", "download"}
  BY <1>8, NoneAssumption
     DEF Requests, Uploads, Deletes, Copies, Moves, Sweeps, Downloads, FirstStep, Subject
<1>10. \A k : Held(k)' = Held(k)
  BY <1>2 DEF Held, fileVars
<1>11. SoFar(c)'
  BY <1>4, <1>9, <1>10
     DEF SoFar, UploadSoFar, DeleteSoFar, CopySoFar, DownloadSoFar, BeginningRead
<1>12. Promise(c)'
  BY <1>2, <1>4, <1>9, <1>10
     DEF Promise, UploadAlone, DeleteAlone, CopyAlone, MoveAlone, DownloadAlone
<1>13. pc'[c] # "idle"
  BY <1>4, <1>9
<1> QED
  BY <1>7, <1>11, <1>12, <1>13 DEF Lone

\* The names that a call that is alone gives to files keep it alone.
LEMMA OwnUndisturbed ==
    ASSUME Staged, FilesInv, NEW c \in Callers, CallStep(c), UNCHANGED req, Undisturbed(c),
           UNCHANGED calls
    PROVE  Undisturbed(c)'
<1>1. Sound(c)
  BY StepIs DEF StepOf
<1>2. \A d \in Callers \ {c} :
         /\ pc'[d] = pc[d] /\ fd'[d] = fd[d] /\ (d \in Busy' <=> d \in Busy)
         /\ Writes(d)' <=> Writes(d)
         /\ Writes(d) => fd[d] \in Inodes
  BY <1>1, StepFacts DEF Sound, OthersWait, Busy
<1> SUFFICES ASSUME NEW d \in Callers \ {c}, NEW k \in Touched(req[c]), Writes(d)
             PROVE  entry'[k] # fd[d]
  BY <1>2 DEF Undisturbed, Touched
<1>3. fd[d] \in Inodes /\ fd[d] # NoInode /\ k \in Keys /\ entry[k] # fd[d]
  BY <1>2, TouchedAre, InodesAssumption DEF Undisturbed
<1>4. CASE Keeps(c)
  <2>1. entry'[k] # NoInode => \E j \in Keys \cap {k, req[c].src} : entry[j] = entry'[k]
    BY <1>3, <1>4 DEF Keeps
  <2>2. \A j \in Keys \cap {k, req[c].src} : j \in Touched(req[c])
    BY TouchedAre
  <2> QED
    BY <1>3, <2>1, <2>2 DEF Undisturbed
<1>5. CASE Closes(c)
  BY <1>3, <1>5 DEF Closes
<1>6. CASE Abandons(c)
  BY <1>3, <1>6 DEF Abandons, Staged, TypeOK
<1>7. ASSUME NEW b \in MaybeBody, Grows(c, b)
      PROVE  entry'[k] # fd[d]
  BY <1>3, <1>7 DEF Grows
<1>8. ASSUME NEW i \in Inodes, Opens(c, i)
      PROVE  entry'[k] # fd[d]
  <2>1. /\ i = entry[req[c].dst] \/ i \notin InUse
        /\ req[c].dst \in Keys
        /\ entry'[k] = IF k = req[c].dst THEN i ELSE entry[k]
    BY <1>3, <1>8 DEF Opens, Staged, TypeOK
  <2> QED
    BY <1>3, <2>1, UsedAre
<1> QED
  BY <1>4, <1>5, <1>6, <1>7, <1>8, StepIs DEF StepOf

\* At its end a call has no further to come.
LEMMA EndSoFar ==
    ASSUME NEW c \in Callers, pc'[c] = "done"
    PROVE  SoFar(c)'
BY DEF SoFar, UploadSoFar, DeleteSoFar, CopySoFar, DownloadSoFar

\* Before its end it has promised nothing but not to lose the object.
LEMMA NoAnswerYet ==
    ASSUME NEW c \in Callers, pc'[c] # "done", answer'[c] = "none", SoFar(c)'
    PROVE  Promise(c)'
BY DEF SoFar, CopySoFar, Promise, UploadAlone, DeleteAlone, CopyAlone, MoveAlone, DownloadAlone

(***************************************************************************)
(* A call that is alone, step by step.                                     *)
(***************************************************************************)

\* It goes on, and no file changes.
LEMMA QuietGoes ==
    ASSUME Staged, NEW c \in Callers, NEW s \in Steps, GoTo(c, s), pc[c] \notin {"done", "discard"},
           UNCHANGED <<openVars, entry, data, before>>
    PROVE  /\ req'[c] = req[c] /\ pc'[c] = s /\ answer'[c] = "none" /\ before'[c] = before[c]
           /\ fd'[c] = fd[c] /\ from'[c] = from[c] /\ got'[c] = got[c] /\ size'[c] = size[c]
           /\ Held(req[c].src)' = Held(req[c].src) /\ Held(req[c].dst)' = Held(req[c].dst)
<1>1. /\ req' = req /\ answer' = answer /\ pc'[c] = s
      /\ UNCHANGED <<fd, from, got, size>>
  BY GoesOn DEF openVars
<1>2. answer[c] = "none"
  BY DEF Staged, AtStage
<1> QED
  BY <1>1, <1>2 DEF Held

\* It ends, and no file changes.
LEMMA QuietEnds ==
    ASSUME Staged, NEW c \in Callers, NEW a \in Answers, End(c, a),
           UNCHANGED <<entry, data, spoilt, before>>
    PROVE  /\ req'[c] = req[c] /\ pc'[c] = "done" /\ answer'[c] = a /\ before'[c] = before[c]
           /\ got'[c] = got[c] /\ size'[c] = size[c] /\ SoFar(c)'
           /\ Held(req[c].src)' = Held(req[c].src) /\ Held(req[c].dst)' = Held(req[c].dst)
<1>1. /\ req' = req /\ answer'[c] = a /\ pc'[c] = "done" /\ UNCHANGED <<got, size>>
  BY DEF End, Staged, TypeOK
<1>2. SoFar(c)'
  BY <1>1, EndSoFar
<1> QED
  BY <1>1, <1>2 DEF Held

\* assertOverwriteAllowed refuses only what is there.
LEMMA CheckLone ==
    ASSUME Staged, FilesInv, NEW c \in Callers, Lone(c), Check(c)
    PROVE  SoFar(c)' /\ Promise(c)'
<1>1. /\ pc[c] = "check" /\ AtStage(c) /\ "mkdir" \in Steps /\ "conflict" \in Answers
      /\ UNCHANGED <<directory, entry, data, before, spoilt>>
  BY DEF Check, Staged, Steps, Answers, fileVars, history
<1>2. CASE entry[Target(c)] = NoInode /\ GoTo(c, "mkdir") /\ UNCHANGED openVars
  <2>1. /\ req'[c] = req[c] /\ pc'[c] = "mkdir" /\ answer'[c] = "none" /\ before'[c] = before[c]
        /\ Held(req[c].src)' = Held(req[c].src) /\ Held(req[c].dst)' = Held(req[c].dst)
    BY <1>1, <1>2, QuietGoes
  <2>2. Held(req[c].dst) = Absent
    BY <1>2 DEF Held, Target
  <2>3. SoFar(c)'
    BY <1>1, <2>1, <2>2 DEF Lone, AtStage, SoFar, UploadSoFar, CopySoFar
  <2> QED
    BY <2>1, <2>3, NoAnswerYet
<1>3. CASE entry[Target(c)] # NoInode /\ End(c, "conflict")
  <2>1. /\ req'[c] = req[c] /\ answer'[c] = "conflict" /\ before'[c] = before[c] /\ SoFar(c)'
        /\ Held(req[c].src)' = Held(req[c].src) /\ Held(req[c].dst)' = Held(req[c].dst)
    BY <1>1, <1>3, QuietEnds
  <2>2. Held(req[c].dst) # Absent
    <3>1. req[c].dst \in Keys
      BY <1>1, CallsAre DEF AtStage
    <3> QED
      BY <1>3, <3>1, HeldIs DEF Target
  <2>3. SoFar(c) /\ req[c].op \in {"upload", "copy", "move"}
    BY <1>1 DEF Lone, AtStage
  <2>4. Promise(c)'
    BY <1>1, <2>1, <2>2, <2>3
       DEF SoFar, UploadSoFar, CopySoFar, Promise, UploadAlone, CopyAlone, MoveAlone
  <2> QED
    BY <2>1, <2>4
<1> QED
  BY <1>2, <1>3 DEF Check

\* The directory is there when the upload goes on to open its file.
LEMMA MkdirLone ==
    ASSUME Staged, FilesInv, NEW c \in Callers, Lone(c), Mkdir(c)
    PROVE  SoFar(c)' /\ Promise(c)'
<1> DEFINE s == StepAfterMkdir(req[c])
<1>1. /\ pc[c] = "mkdir" /\ AtStage(c) /\ s \in Steps /\ GoTo(c, s) /\ directory'
      /\ UNCHANGED <<openVars, entry, data, before>>
  BY DEF Mkdir, Staged, Steps, StepAfterMkdir, history
<1>2. /\ req'[c] = req[c] /\ pc'[c] = s /\ answer'[c] = "none" /\ before'[c] = before[c]
      /\ Held(req[c].src)' = Held(req[c].src) /\ Held(req[c].dst)' = Held(req[c].dst)
  BY <1>1, QuietGoes
<1>3. /\ req[c].op \in {"upload", "copy", "move"}
      /\ s = IF req[c].op = "upload" THEN "open" ELSE IF req[c].op = "copy" THEN "copyFile"
             ELSE "rename"
  BY <1>1 DEF AtStage, StepAfterMkdir
<1>4. SoFar(c)'
  BY <1>1, <1>2, <1>3 DEF Lone, SoFar, UploadSoFar, CopySoFar
<1> QED
  BY <1>2, <1>3, <1>4, NoAnswerYet

\* A failed upload that is alone still stands behind the name it will unlink.
LEMMA WriteFailsLone ==
    ASSUME Staged, FilesInv, NEW c \in Callers, Lone(c), WriteFails(c)
    PROVE  SoFar(c)' /\ Promise(c)'
<1>1. /\ pc[c] = "write" /\ AtStage(c) /\ GoTo(c, "cleanup") /\ "cleanup" \in Steps
      /\ UNCHANGED <<openVars, entry, data, before>>
  BY DEF WriteFails, Staged, Steps, fileVars, history
<1>2. /\ req'[c] = req[c] /\ pc'[c] = "cleanup" /\ answer'[c] = "none" /\ before'[c] = before[c]
      /\ fd'[c] = fd[c] /\ from'[c] = from[c] /\ got'[c] = got[c]
      /\ Held(req[c].src)' = Held(req[c].src) /\ Held(req[c].dst)' = Held(req[c].dst)
  BY <1>1, QuietGoes
<1>3. SoFar(c)'
  BY <1>1, <1>2 DEF Lone, AtStage, SoFar, UploadSoFar, DeleteSoFar, CopySoFar, DownloadSoFar
<1> QED
  BY <1>2, <1>3, NoAnswerYet

\* A failed copy that is alone still stands behind the name it will unlink.
LEMMA CopyFailsLone ==
    ASSUME Staged, FilesInv, NEW c \in Callers, Lone(c), CopyFails(c)
    PROVE  SoFar(c)' /\ Promise(c)'
<1>1. /\ pc[c] = "copying" /\ AtStage(c) /\ GoTo(c, "cleanup") /\ "cleanup" \in Steps
      /\ UNCHANGED <<openVars, entry, data, before>>
  BY DEF CopyFails, Staged, Steps, fileVars, history
<1>2. /\ req'[c] = req[c] /\ pc'[c] = "cleanup" /\ answer'[c] = "none" /\ before'[c] = before[c]
      /\ fd'[c] = fd[c] /\ from'[c] = from[c] /\ got'[c] = got[c]
      /\ Held(req[c].src)' = Held(req[c].src) /\ Held(req[c].dst)' = Held(req[c].dst)
  BY <1>1, QuietGoes
<1>3. SoFar(c)'
  BY <1>1, <1>2 DEF Lone, AtStage, SoFar, UploadSoFar, DeleteSoFar, CopySoFar, DownloadSoFar
<1> QED
  BY <1>2, <1>3, NoAnswerYet

\* A move goes on to copy between two different keys.
LEMMA RenameRefusedLone ==
    ASSUME Staged, FilesInv, NEW c \in Callers, Lone(c), RenameRefused(c)
    PROVE  SoFar(c)' /\ Promise(c)'
<1>1. /\ pc[c] = "rename" /\ AtStage(c) /\ GoTo(c, "copyFile") /\ "copyFile" \in Steps
      /\ UNCHANGED <<openVars, entry, data, before>>
  BY DEF RenameRefused, Staged, Steps, fileVars, history
<1>2. /\ req'[c] = req[c] /\ pc'[c] = "copyFile" /\ answer'[c] = "none" /\ before'[c] = before[c]
      /\ fd'[c] = fd[c] /\ from'[c] = from[c] /\ got'[c] = got[c]
      /\ Held(req[c].src)' = Held(req[c].src) /\ Held(req[c].dst)' = Held(req[c].dst)
  BY <1>1, QuietGoes
<1>3. SoFar(c)'
  BY <1>1, <1>2 DEF Lone, AtStage, SoFar, UploadSoFar, DeleteSoFar, CopySoFar, DownloadSoFar,
              RenameRefused, Target
<1> QED
  BY <1>2, <1>3, NoAnswerYet

\* No other call takes the directory from an upload that is alone; if it cannot
\* open its file, its key holds what it held.
LEMMA OpenFailsLone ==
    ASSUME Staged, FilesInv, NEW c \in Callers, Lone(c), OpenFindsNoDirectory(c) \/ OpenFails(c)
    PROVE  SoFar(c)' /\ Promise(c)'
<1>1. /\ pc[c] = "open" /\ req[c].op = "upload"
      /\ directory /\ Held(req[c].dst) = before[c]
  BY DEF OpenFindsNoDirectory, OpenFails, Staged, AtStage, Lone, SoFar, UploadSoFar
<1>2. Discarding(c, "failed")
  BY <1>1 DEF OpenFindsNoDirectory, OpenFails
<1>3. /\ req' = req /\ pc'[c] = "discard" /\ answer'[c] = "failed"
      /\ UNCHANGED <<entry, data, before>>
  BY <1>2 DEF Discarding, fileVars, history, Staged, TypeOK
<1>4. Held(req[c].dst)' = before[c]
  BY <1>1, <1>3 DEF Held
<1>5. SoFar(c)'
  BY <1>1, <1>3, <1>4 DEF SoFar, UploadSoFar
<1>6. UploadAlone(c)'
  BY <1>3, <1>4 DEF UploadAlone
<1> QED
  BY <1>1, <1>3, <1>5, <1>6 DEF Promise

\* An upload that is alone finds the file that it has written.
LEMMA SizeLone ==
    ASSUME Staged, FilesInv, NEW c \in Callers, Lone(c), Size(c)
    PROVE  SoFar(c)' /\ Promise(c)'
<1>1. /\ pc[c] = "size" /\ AtStage(c) /\ UNCHANGED <<entry, data, before, spoilt>>
  BY DEF Size, Staged, fileVars, history
<1>2. PICK a \in Answers : End(c, a)
  BY DEF Size, Answers
<1>3. /\ req'[c] = req[c] /\ answer'[c] = a /\ before'[c] = before[c] /\ SoFar(c)'
      /\ got'[c] = got[c] /\ size'[c] = size[c]
      /\ Held(req[c].src)' = Held(req[c].src) /\ Held(req[c].dst)' = Held(req[c].dst)
  BY <1>1, <1>2, QuietEnds
<1>4. req[c].op = "upload" /\ Held(req[c].dst) = Whole(req[c].body) /\ UploadSoFar(c)
  BY <1>1 DEF AtStage, Lone, SoFar, UploadSoFar
<1>5. req[c].dst \in Keys /\ req[c].body \in Bodies
  BY <1>4, CallsAre
<1>6. entry[req[c].dst] # NoInode
  BY <1>4, <1>5, HeldIs, WholeIs, EmptyIsContent
<1>7. a = "ok"
  <2>1. answer'[c] = "ok"
    BY <1>6 DEF Size, End, Target, Staged, TypeOK
  <2> QED
    BY <1>3, <2>1
<1>8. UploadAlone(c)'
  BY <1>1, <1>3, <1>4, <1>7 DEF UploadAlone, UploadSoFar, Whole
<1> QED
  BY <1>3, <1>4, <1>8 DEF Promise

\* The deleted file is gone, whatever becomes of the directory.
LEMMA RmdirLone ==
    ASSUME Staged, FilesInv, NEW c \in Callers, Lone(c), Rmdir(c)
    PROVE  SoFar(c)' /\ Promise(c)'
<1>1. /\ pc[c] = "rmdir" /\ AtStage(c) /\ UNCHANGED <<entry, data, before, spoilt>>
  BY DEF Rmdir, Staged, fileVars, history
<1>2. PICK a \in Answers : End(c, a)
  BY DEF Rmdir, Answers
<1>3. /\ req'[c] = req[c] /\ answer'[c] = a /\ before'[c] = before[c] /\ SoFar(c)'
      /\ got'[c] = got[c] /\ size'[c] = size[c]
      /\ Held(req[c].src)' = Held(req[c].src) /\ Held(req[c].dst)' = Held(req[c].dst)
  BY <1>1, <1>2, QuietEnds
<1>4. req[c].op = "sweep" /\ Held(req[c].src) = Absent
  BY <1>1 DEF AtStage, Lone, SoFar, DeleteSoFar
<1>5. answer'[c] = "ok"
  BY DEF Rmdir, End, Staged, TypeOK
<1> QED
  BY <1>3, <1>4, <1>5 DEF Promise, DeleteAlone

\* A copy or a move misses only what was not there.
LEMMA CopyFindsNothingLone ==
    ASSUME Staged, FilesInv, NEW c \in Callers, Lone(c), CopyFindsNothing(c)
    PROVE  SoFar(c)' /\ Promise(c)'
<1>1. /\ pc[c] = "copyFile" /\ AtStage(c) /\ UNCHANGED <<entry, data, before, spoilt>>
  BY DEF CopyFindsNothing, Staged, fileVars, history
<1>2. PICK a \in Answers : End(c, a)
  BY DEF CopyFindsNothing, Answers
<1>3. /\ req'[c] = req[c] /\ answer'[c] = a /\ before'[c] = before[c] /\ SoFar(c)'
      /\ got'[c] = got[c] /\ size'[c] = size[c]
      /\ Held(req[c].src)' = Held(req[c].src) /\ Held(req[c].dst)' = Held(req[c].dst)
  BY <1>1, <1>2, QuietEnds
<1>4. /\ req[c].op \in {"copy", "move"} /\ Held(req[c].src) = before[c]
      /\ Held(req[c].src) = Absent /\ answer'[c] = "missing"
  BY <1>1 DEF AtStage, Lone, SoFar, CopySoFar, CopyFindsNothing, Held, End, Staged, TypeOK
<1> QED
  BY <1>3, <1>4 DEF Promise, CopyAlone, MoveAlone

\* A copy that is alone finds the file that it has made.
LEMMA CopiedLone ==
    ASSUME Staged, FilesInv, NEW c \in Callers, Lone(c), Copied(c)
    PROVE  SoFar(c)' /\ Promise(c)'
<1>1. /\ pc[c] = "copied" /\ AtStage(c) /\ UNCHANGED <<entry, data, before, spoilt>>
  BY DEF Copied, Staged, fileVars, history
<1>2. PICK a \in Answers : End(c, a)
  BY DEF Copied, Answers
<1>3. /\ req'[c] = req[c] /\ answer'[c] = a /\ before'[c] = before[c] /\ SoFar(c)'
      /\ got'[c] = got[c] /\ size'[c] = size[c]
      /\ Held(req[c].src)' = Held(req[c].src) /\ Held(req[c].dst)' = Held(req[c].dst)
  BY <1>1, <1>2, QuietEnds
<1>4. /\ req[c].op = "copy" /\ Held(req[c].src) = before[c]
      /\ Held(req[c].dst) = before[c] /\ before[c] # Absent
  BY <1>1 DEF AtStage, Lone, SoFar, CopySoFar
<1>5. answer'[c] = "ok"
  BY <1>4 DEF Copied, Target, Held, End, Staged, TypeOK
<1> QED
  BY <1>3, <1>4, <1>5 DEF Promise, CopyAlone

\* The deleted file is gone when the directory is looked at.
LEMMA ReaddirLone ==
    ASSUME Staged, FilesInv, NEW c \in Callers, Lone(c), Readdir(c)
    PROVE  SoFar(c)' /\ Promise(c)'
<1>1. /\ pc[c] = "readdir" /\ AtStage(c) /\ "rmdir" \in Steps /\ "ok" \in Answers
      /\ UNCHANGED <<entry, data, before, spoilt>>
  BY DEF Readdir, Staged, Steps, Answers, fileVars, history
<1>2. req[c].op = "sweep" /\ Held(req[c].src) = Absent
  BY <1>1 DEF AtStage, Lone, SoFar, DeleteSoFar
<1>3. CASE GoTo(c, "rmdir") /\ UNCHANGED openVars
  <2>1. /\ req'[c] = req[c] /\ pc'[c] = "rmdir" /\ answer'[c] = "none"
        /\ Held(req[c].src)' = Held(req[c].src)
    BY <1>1, <1>3, QuietGoes
  <2>2. SoFar(c)'
    BY <1>2, <2>1 DEF SoFar, DeleteSoFar
  <2> QED
    BY <2>1, <2>2, NoAnswerYet
<1>4. CASE End(c, "ok")
  <2>1. /\ req'[c] = req[c] /\ answer'[c] = "ok" /\ SoFar(c)'
        /\ Held(req[c].src)' = Held(req[c].src)
    BY <1>1, <1>4, QuietEnds
  <2> QED
    BY <1>2, <2>1 DEF Promise, DeleteAlone
<1> QED
  BY <1>3, <1>4 DEF Readdir

\* The length a download reports is that of the object.
LEMMA StatLone ==
    ASSUME Staged, FilesInv, NEW c \in Callers, Lone(c), Stat(c)
    PROVE  SoFar(c)' /\ Promise(c)'
<1>1. /\ pc[c] = "stat" /\ AtStage(c) /\ "openRead" \in Steps /\ "missing" \in Answers
      /\ UNCHANGED <<entry, data, before, spoilt>>
  BY DEF Stat, Staged, Steps, Answers, fileVars, history
<1>2. req[c].op = "download" /\ Held(req[c].src) = before[c]
  BY <1>1 DEF AtStage, Lone, SoFar, DownloadSoFar
<1>3. CASE entry[req[c].src] = NoInode
  <2>1. /\ req'[c] = req[c] /\ answer'[c] = "missing" /\ before'[c] = before[c] /\ SoFar(c)'
    BY <1>1, <1>3, QuietEnds DEF Stat
  <2>2. before[c] = Absent
    BY <1>2, <1>3 DEF Held
  <2> QED
    BY <1>2, <2>1, <2>2 DEF Promise, DownloadAlone
<1>4. CASE entry[req[c].src] # NoInode
  <2>1. GoTo(c, "openRead") /\ size' = [size EXCEPT ![c] = Len(Held(req[c].src))]
    BY <1>4 DEF Stat
  <2>2. pc'[c] = "openRead" /\ req' = req /\ answer' = answer
    BY <1>1, <2>1, GoesOn
  <2>3. size'[c] = Len(Held(req[c].src))
    BY <2>1 DEF Staged, TypeOK
  <2>4. req[c].src \in Keys
    BY <1>2, CallsAre
  <2>5. before[c] # Absent
    BY <1>2, <1>4, <2>4, HeldIs
  <2>6. Held(req[c].src)' = Held(req[c].src)
    BY <1>1, <2>2 DEF Held
  <2>7. SoFar(c)'
    BY <1>1, <1>2, <2>2, <2>3, <2>5, <2>6 DEF SoFar, DownloadSoFar
  <2>8. answer'[c] = "none"
    BY <1>1, <2>2 DEF AtStage
  <2> QED
    BY <2>2, <2>7, <2>8, NoAnswerYet
<1> QED
  BY <1>3, <1>4

\* What a download opens is the file whose length it reports.
LEMMA OpenReadLone ==
    ASSUME Staged, FilesInv, NEW c \in Callers, Lone(c), OpenRead(c)
    PROVE  SoFar(c)' /\ Promise(c)'
<1> DEFINE i == entry[req[c].src]
<1>1. /\ pc[c] = "openRead" /\ AtStage(c) /\ "read" \in Steps
      /\ UNCHANGED <<entry, data, before, spoilt>>
  BY DEF OpenRead, Staged, Steps, fileVars, history
<1>2. /\ req[c].op = "download" /\ Held(req[c].src) = before[c]
      /\ before[c] # Absent /\ size[c] = Len(before[c]) /\ got[c] = <<>>
  BY <1>1 DEF AtStage, Lone, SoFar, DownloadSoFar
<1>3. i # NoInode
  BY <1>2 DEF Held
<1>4. GoTo(c, "read") /\ fd' = [fd EXCEPT ![c] = i] /\ UNCHANGED <<from, got, size>>
  BY <1>3 DEF OpenRead
<1>5. pc'[c] = "read" /\ req' = req /\ answer' = answer
  BY <1>1, <1>4, GoesOn
<1>6. fd'[c] = i
  BY <1>4 DEF Staged, TypeOK
<1>7. Held(req[c].src)' = Held(req[c].src)
  BY <1>1, <1>5 DEF Held
<1>8. BeginningRead(c)'
  <2>1. req[c].src \in Keys
    BY <1>2, CallsAre
  <2>2. Len(before[c]) \in Nat
    BY <1>2, <1>3, <2>1, HeldIs, ContentsAre
  <2>3. Len(<<>>) = 0
    BY EmptyIsContent
  <2> QED
    BY <1>1, <1>2, <1>4, <2>2, <2>3 DEF BeginningRead
<1>9. SoFar(c)'
  BY <1>1, <1>2, <1>4, <1>5, <1>6, <1>7, <1>8 DEF SoFar, DownloadSoFar
<1>10. answer'[c] = "none"
  BY <1>1, <1>5 DEF AtStage
<1> QED
  BY <1>5, <1>9, <1>10, NoAnswerYet

\* The name stays, and the file behind it.
LEMMA HeldStays ==
    ASSUME Staged, NEW c \in Callers, Sound(c), Keeps(c) \/ Closes(c),
           NEW k \in Keys, entry'[k] = entry[k]
    PROVE  Held(k)' = Held(k)
<1>1. entry'[k] \in InUse' /\ (entry[k] # NoInode => entry[k] \in Inodes)
  BY StepFacts DEF Staged, TypeOK
<1>2. entry[k] # NoInode => data'[entry[k]] = data[entry[k]]
  BY <1>1 DEF Keeps, Closes
<1> QED
  BY <1>2 DEF Held

\* After the unlink the key holds nothing.
LEMMA UnlinkLone ==
    ASSUME Staged, FilesInv, NEW c \in Callers, Lone(c), Unlink(c)
    PROVE  SoFar(c)' /\ Promise(c)'
<1> DEFINE k == req[c].src
<1>1. /\ AtStage(c) /\ pc[c] = "unlink" /\ "readdir" \in Steps
      /\ entry' = [entry EXCEPT ![k] = NoInode]
  BY DEF Staged, Steps, Unlink
<1>2. k \in Keys /\ req[c].op \in {"delete", "sweep"} /\ answer[c] = "none"
  BY <1>1, CallsAre DEF AtStage
<1>3. entry'[k] = NoInode
  BY <1>1, <1>2 DEF Staged, TypeOK
<1>4. CASE End(c, "ok")
  <2>1. req' = req /\ answer'[c] = "ok" /\ pc'[c] = "done"
    BY <1>4 DEF End, Staged, TypeOK
  <2>2. Held(req[c].src)' = Absent
    BY <1>3, <2>1 DEF Held
  <2> QED
    BY <1>2, <2>1, <2>2, EndSoFar DEF Promise, DeleteAlone
<1>5. CASE GoTo(c, "readdir")
  <2>1. req' = req /\ answer' = answer /\ pc'[c] = "readdir"
    BY <1>1, <1>5, GoesOn
  <2>2. Held(req[c].src)' = Absent
    BY <1>3, <2>1 DEF Held
  <2>3. SoFar(c)'
    BY <1>2, <2>1, <2>2 DEF SoFar, DeleteSoFar
  <2> QED
    BY <1>2, <2>1, <2>3, NoAnswerYet
<1> QED
  BY <1>4, <1>5 DEF Unlink

\* The source of a move goes when the destination holds the object.
LEMMA UnlinkSourceLone ==
    ASSUME Staged, FilesInv, NEW c \in Callers, Lone(c), UnlinkSource(c)
    PROVE  SoFar(c)' /\ Promise(c)'
<1> DEFINE src == req[c].src
           dst == req[c].dst
<1>1. /\ AtStage(c) /\ pc[c] = "unlinkSource" /\ before' = before
      /\ entry' = [entry EXCEPT ![src] = NoInode]
      /\ End(c, IF entry[src] = NoInode THEN "missing" ELSE "ok")
  BY DEF Staged, UnlinkSource
<1>2. src \in Keys /\ dst \in Keys /\ req[c].op = "move"
  BY <1>1, CallsAre DEF AtStage
<1>3. src # dst /\ Held(src) = before[c] /\ Held(dst) = before[c] /\ before[c] # Absent
  BY <1>1, <1>2 DEF Lone, SoFar, CopySoFar
<1>4. entry'[src] = NoInode /\ entry'[dst] = entry[dst] /\ entry[src] # NoInode
  BY <1>1, <1>2, <1>3 DEF Staged, TypeOK, Held
<1>5. Sound(c) /\ Keeps(c)
  BY UnlinkSourceIs
<1>6. \A k \in Keys : entry'[k] = entry[k] => Held(k)' = Held(k)
  BY <1>5, HeldStays
<1>7. req' = req /\ answer'[c] = "ok" /\ pc'[c] = "done"
  BY <1>1, <1>4 DEF End, Staged, TypeOK
<1>8. Held(src)' = Absent
  BY <1>4, <1>7 DEF Held
<1>9. Held(dst)' = before[c]
  BY <1>2, <1>3, <1>4, <1>6, <1>7
<1>10. MoveAlone(c)'
  BY <1>1, <1>7, <1>8, <1>9 DEF MoveAlone
<1> QED
  BY <1>2, <1>7, <1>10, EndSoFar DEF Promise

\* A rename takes the object from the source to the destination.
LEMMA RenameLone ==
    ASSUME Staged, FilesInv, NEW c \in Callers, Lone(c), Rename(c)
    PROVE  SoFar(c)' /\ Promise(c)'
<1> DEFINE src == req[c].src
           dst == req[c].dst
<1>1. /\ AtStage(c) /\ pc[c] = "rename" /\ before' = before
  BY DEF Staged, Rename
<1>2. src \in Keys /\ dst \in Keys /\ req[c].op = "move"
  BY <1>1, CallsAre DEF AtStage
<1>3. Held(src) = before[c]
  BY <1>1, <1>2 DEF Lone, SoFar, CopySoFar
<1>4. Sound(c) /\ Keeps(c) /\ \A k \in Keys : entry'[k] = entry[k] => Held(k)' = Held(k)
  BY RenameIs, HeldStays
<1>5. CASE entry[src] = NoInode \/ ~directory
  <2>1. entry[src] = NoInode
    BY <1>2, <1>5 DEF Staged, TypeOK
  <2>2. End(c, "missing") /\ entry' = entry
    BY <1>5 DEF Rename
  <2>3. req' = req /\ answer'[c] = "missing" /\ pc'[c] = "done"
    BY <2>2 DEF End, Staged, TypeOK
  <2>4. Held(src)' = Held(src)
    BY <1>2, <1>4, <2>2, <2>3
  <2>5. before[c] = Absent
    BY <1>3, <2>1 DEF Held
  <2>6. MoveAlone(c)'
    BY <1>1, <1>3, <2>3, <2>4, <2>5 DEF MoveAlone
  <2> QED
    BY <1>2, <2>3, <2>6, EndSoFar DEF Promise
<1>6. CASE ~(entry[src] = NoInode \/ ~directory)
  <2>1. /\ End(c, "ok")
        /\ entry' = IF src = dst THEN entry
                    ELSE [entry EXCEPT ![dst] = entry[src], ![src] = NoInode]
    BY <1>6 DEF Rename, Target
  <2>2. req' = req /\ answer'[c] = "ok" /\ pc'[c] = "done"
    BY <2>1 DEF End, Staged, TypeOK
  <2>3. Held(dst)' = before[c] /\ (src = dst \/ Held(src)' = Absent)
    <3>1. CASE src = dst
      BY <1>2, <1>3, <1>4, <2>1, <2>2, <3>1
    <3>2. CASE src # dst
      <4>1. entry'[dst] = entry[src] /\ entry'[src] = NoInode /\ entry[src] # NoInode
        BY <1>2, <1>6, <2>1, <3>2 DEF Staged, TypeOK
      <4>2. entry[src] \in Inodes /\ entry[src] \in InUse'
        BY <1>2, <1>4, <4>1, StepFacts DEF Staged, TypeOK
      <4>3. data'[entry[src]] = data[entry[src]]
        BY <1>4, <4>2 DEF Keeps
      <4> QED
        BY <1>3, <2>2, <4>1, <4>3 DEF Held
    <3> QED
      BY <3>1, <3>2
  <2>4. MoveAlone(c)'
    BY <1>1, <2>2, <2>3 DEF MoveAlone
  <2> QED
    BY <1>2, <2>2, <2>4, EndSoFar DEF Promise
<1> QED
  BY <1>5, <1>6

\* The unlink takes what the key held, or leaves it.
LEMMA DiscardLone ==
    ASSUME Staged, FilesInv, NEW c \in Callers, Lone(c), Discard(c)
    PROVE  SoFar(c)' /\ Promise(c)'
<1>1. /\ pc[c] = "discard" /\ AtStage(c) /\ before' = before /\ End(c, answer[c])
      /\ entry' \in {entry, [entry EXCEPT ![req[c].dst] = NoInode]}
  BY DEF Discard, Staged, Target
<1>2. /\ req[c].op = "upload" /\ req[c].dst \in Keys
      /\ Held(req[c].dst) = before[c] /\ answer[c] = "failed"
  BY <1>1, CallsAre DEF AtStage, Lone, SoFar, UploadSoFar
<1>3. req' = req /\ answer'[c] = "failed" /\ pc'[c] = "done"
  BY <1>1, <1>2 DEF End, Staged, TypeOK
<1>4. Sound(c) /\ Keeps(c)
  BY DiscardIs
<1>5. Held(req[c].dst)' \in {before[c], Absent}
  <2>1. CASE entry' = entry
    <3>1. Held(req[c].dst)' = Held(req[c].dst)
      <4>1. \A k \in Keys : Held(k)' = Held(k)
        BY <1>4, <2>1, HeldStays
      <4> QED
        BY <1>2, <1>3, <4>1
    <3> QED
      BY <1>2, <3>1
  <2>2. CASE entry' = [entry EXCEPT ![req[c].dst] = NoInode]
    <3>1. entry'[req[c].dst] = NoInode
      BY <1>2, <2>2 DEF Staged, TypeOK
    <3> QED
      BY <1>3, <3>1 DEF Held
  <2> QED
    BY <1>1, <2>1, <2>2
<1>6. UploadAlone(c)'
  BY <1>1, <1>3, <1>5 DEF UploadAlone
<1> QED
  BY <1>2, <1>3, <1>6, EndSoFar DEF Promise

\* A call that fails has kept the object, has copied it, or has stored all of it.
LEMMA CallFailsLone ==
    ASSUME Staged, FilesInv, NEW c \in Callers, Lone(c), CallFails(c)
    PROVE  SoFar(c)' /\ Promise(c)'
<1>1. /\ AtStage(c) /\ SoFar(c) /\ before' = before /\ entry' = entry /\ End(c, "failed")
      /\ pc[c] \in {"check", "mkdir", "size", "unlink", "rename", "copyFile", "copied",
                    "unlinkSource", "stat", "openRead", "read"}
  BY DEF Staged, Lone, CallFails
<1>2. Sound(c) /\ Keeps(c)
  BY CallFailsIs
<1>3. req' = req /\ answer'[c] = "failed" /\ pc'[c] = "done"
  BY <1>1 DEF End, Staged, TypeOK
<1>4. \A k \in Keys : Held(k)' = Held(k)
  BY <1>1, <1>2, HeldStays
<1>5. CASE req[c].op = "upload"
  <2>1. Held(req[c].dst) \in {before[c], Whole(req[c].body)}
    BY <1>1, <1>5 DEF AtStage, SoFar, UploadSoFar
  <2>2. Held(req[c].dst)' = Held(req[c].dst)
    BY <1>3, <1>4, <1>5, CallsAre
  <2>3. UploadAlone(c)'
    BY <1>1, <1>3, <2>1, <2>2 DEF UploadAlone, Whole
  <2> QED
    BY <1>3, <1>5, <2>3, EndSoFar DEF Promise
<1>6. CASE req[c].op \in {"delete", "sweep"}
  <2>1. Held(req[c].src) = before[c]
    BY <1>1, <1>6 DEF AtStage, SoFar, DeleteSoFar
  <2>2. Held(req[c].src)' = Held(req[c].src)
    BY <1>3, <1>4, <1>6, CallsAre
  <2>3. DeleteAlone(c)'
    BY <1>1, <1>3, <2>1, <2>2 DEF DeleteAlone
  <2> QED
    BY <1>3, <1>6, <2>3, EndSoFar DEF Promise
<1>7. CASE req[c].op \in {"copy", "move"}
  <2>1. Held(req[c].src) = before[c]
    BY <1>1, <1>7 DEF SoFar, CopySoFar
  <2>2. Held(req[c].src)' = Held(req[c].src)
    BY <1>3, <1>4, <1>7, CallsAre
  <2>3. CopyAlone(c)' /\ MoveAlone(c)'
    BY <1>1, <1>3, <2>1, <2>2 DEF CopyAlone, MoveAlone
  <2> QED
    BY <1>3, <1>7, <2>3, EndSoFar DEF Promise
<1>8. CASE req[c].op = "download"
  BY <1>3, <1>8, EndSoFar DEF Promise, DownloadAlone
<1> QED
  BY <1>1, <1>5, <1>6, <1>7, <1>8, OpsAre

\* A download has read the beginning of the object, at its end all of it.
LEMMA ReadLone ==
    ASSUME Staged, FilesInv, NEW c \in Callers, Lone(c), Read(c)
    PROVE  SoFar(c)' /\ Promise(c)'
<1> DEFINE n == Len(got[c]) + 1
<1>1. /\ pc[c] = "read" /\ AtStage(c) /\ entry' = entry /\ before' = before /\ answer[c] = "none"
  BY DEF Read, Staged, AtStage
<1>2. /\ req[c].op = "download" /\ Held(req[c].src) = before[c]
      /\ before[c] # Absent /\ size[c] = Len(before[c])
      /\ fd[c] = entry[req[c].src] /\ BeginningRead(c)
  BY <1>1 DEF AtStage, Lone, SoFar, DownloadSoFar
<1>3. /\ data[fd[c]] = before[c] /\ got[c] \in Contents /\ before[c] \in Contents
  BY <1>2 DEF Held, Staged, TypeOK
<1>4. CASE n <= Len(data[fd[c]])
  <2>1. /\ got' = [got EXCEPT ![c] = Append(@, data[fd[c]][n])]
        /\ UNCHANGED <<callVars, fd, from, size, data, spoilt>>
    BY <1>4 DEF Read
  <2>2. got'[c] = Append(got[c], before[c][n])
    BY <1>3, <2>1 DEF Staged, TypeOK
  <2>3. BeginningRead(c)'
    <3>1. Len(got[c]) + 1 <= Len(before[c])
      BY <1>3, <1>4
    <3>2. /\ Len(got'[c]) = n /\ got'[c][n] = before[c][n]
          /\ \A m \in 1 .. Len(got[c]) : got'[c][m] = got[c][m]
      BY <1>3, <2>2, <3>1, AppendIs
    <3>3. Len(got[c]) \in Nat
      BY <1>3, ContentsAre
    <3>4. \A m \in 1 .. n : m = n \/ m \in 1 .. Len(got[c])
      BY <3>3
    <3> HIDE DEF n
    <3>5. \A m \in 1 .. n : got'[c][m] = before[c][m]
      BY <1>2, <3>2, <3>4 DEF BeginningRead
    <3> QED
      BY <1>1, <3>1, <3>2, <3>5 DEF BeginningRead, n
  <2>4. SoFar(c)'
    BY <1>1, <1>2, <2>1, <2>3 DEF SoFar, DownloadSoFar, Held, callVars
  <2> QED
    BY <1>1, <2>1, <2>4, NoAnswerYet DEF callVars
<1>5. CASE ~(n <= Len(data[fd[c]]))
  <2>1. End(c, "ok")
    BY <1>5 DEF Read
  <2>2. req' = req /\ answer'[c] = "ok" /\ pc'[c] = "done" /\ got' = got /\ size' = size
    BY <2>1 DEF End, Staged, TypeOK
  <2>3. got[c] = before[c]
    <3>1. Len(got[c]) \in Nat /\ Len(before[c]) \in Nat
      BY <1>3, ContentsAre
    <3>2. Len(got[c]) >= Len(before[c])
      BY <1>3, <1>5, <3>1
    <3> QED
      BY <1>2, <1>3, <3>2, SameContents DEF BeginningRead
  <2>4. DownloadAlone(c)'
    BY <1>1, <1>2, <2>2, <2>3 DEF DownloadAlone
  <2> QED
    BY <1>2, <2>2, <2>4, EndSoFar DEF Promise
<1> QED
  BY <1>4, <1>5

\* The file an upload has opened is the one behind its name, and empty.
LEMMA OpenLone ==
    ASSUME Staged, FilesInv, NEW c \in Callers, Lone(c), Open(c)
    PROVE  SoFar(c)' /\ Promise(c)'
<1>1. /\ AtStage(c) /\ pc[c] = "open" /\ "write" \in Steps /\ GoTo(c, "write") /\ before' = before
  BY DEF Staged, Steps, Open
<1>2. /\ req[c].op = "upload" /\ req[c].dst \in Keys
      /\ req[c].overwrite \/ before[c] = Absent
  BY <1>1, CallsAre DEF AtStage, Lone, SoFar, UploadSoFar
<1>3. req' = req /\ answer'[c] = "none" /\ pc'[c] = "write"
  BY <1>1, GoesOn DEF AtStage
<1>4. Sound(c)
  BY OpenIs
<1>5. PICK i \in Inodes : Opens(c, i)
  BY OpenIs
<1>6. fd'[c] = i /\ entry'[req[c].dst] = i /\ got'[c] = <<>>
  BY <1>2, <1>5 DEF Opens, Staged, TypeOK
<1>7. data'[i] = <<>>
  BY <1>4, <1>5, <1>6, StepFacts DEF Opens
<1>8. SoFar(c)'
  BY <1>1, <1>2, <1>3, <1>6, <1>7 DEF SoFar, UploadSoFar
<1> QED
  BY <1>3, <1>8, NoAnswerYet

\* What an upload has written is what its key holds; closed, the whole body.
LEMMA WriteLone ==
    ASSUME Staged, FilesInv, NEW c \in Callers, Lone(c), Write(c)
    PROVE  SoFar(c)' /\ Promise(c)'
<1> DEFINE n == Len(got[c]) + 1
           b == req[c].body
<1>1. /\ AtStage(c) /\ pc[c] = "write" /\ "size" \in Steps /\ answer[c] = "none"
      /\ before' = before /\ entry' = entry
  BY DEF Staged, Steps, Write, AtStage
<1>2. /\ req[c].op = "upload" /\ req[c].dst \in Keys /\ b \in Bodies
      /\ req[c].overwrite \/ before[c] = Absent
      /\ entry[req[c].dst] = fd[c] /\ data[fd[c]] = got[c] /\ fd[c] \in Inodes
  BY <1>1, CallsAre DEF AtStage, Lone, SoFar, UploadSoFar, Staged, TypeOK
<1>3. got[c] \in Contents /\ got[c] = Part(b, Len(got[c])) /\ Len(got[c]) <= Length[b]
  BY <1>1 DEF AtStage, Staged, TypeOK
<1>4. CASE n <= Length[b]
  <2>1. /\ data' = [data EXCEPT ![fd[c]] = Written(@, n, b)]
        /\ got' = [got EXCEPT ![c] = Append(@, b)]
        /\ UNCHANGED <<callVars, fd>>
    BY <1>4 DEF Write
  <2>2. n \in Nat \ {0}
    BY <1>2, <1>3, <1>4, ContentsAre, WholeIs
  <2>3. Written(got[c], n, b) = Append(got[c], b)
    BY <1>2, <1>3, <2>2, WrittenIs DEF MaybeBody
  <2>4. data'[fd[c]] = got'[c]
    BY <1>2, <2>1, <2>3 DEF Staged, TypeOK
  <2>5. SoFar(c)'
    BY <1>1, <1>2, <2>1, <2>4 DEF SoFar, UploadSoFar, callVars
  <2> QED
    BY <1>1, <2>1, <2>5, NoAnswerYet DEF callVars
<1>5. CASE ~(n <= Length[b])
  <2>1. GoTo(c, "size") /\ Files(data, spoilt)
    BY <1>5 DEF Write
  <2>2. req' = req /\ answer'[c] = "none" /\ pc'[c] = "size"
    BY <1>1, <2>1, GoesOn
  <2>3. got[c] = Whole(b)
    <3>1. Len(got[c]) \in Nat /\ Length[b] \in Nat
      BY <1>2, <1>3, ContentsAre, WholeIs
    <3>2. Len(got[c]) = Length[b]
      BY <1>3, <1>5, <3>1
    <3> QED
      BY <1>2, <1>3, <3>2, WholeIs
  <2>4. data'[fd[c]] = data[fd[c]]
    <3>1. Sound(c)
      BY WriteIs
    <3>2. fd[c] \in InUse'
      BY <1>1, <1>2, <3>1, StepFacts
    <3> QED
      BY <1>2, <2>1, <3>2, FilesAre DEF Staged, TypeOK
  <2>5. Held(req[c].dst)' = Whole(b)
    BY <1>1, <1>2, <2>2, <2>3, <2>4, InodesAssumption DEF Held
  <2>6. SoFar(c)'
    BY <1>1, <1>2, <2>2, <2>5 DEF SoFar, UploadSoFar, Whole
  <2> QED
    BY <2>2, <2>6, NoAnswerYet
<1> QED
  BY <1>4, <1>5

\* A failed write removes its file or leaves it spoilt, and never touches the source.
LEMMA CleanupLone ==
    ASSUME Staged, FilesInv, NEW c \in Callers, Lone(c), Cleanup(c)
    PROVE  SoFar(c)' /\ Promise(c)'
<1> DEFINE dst == req[c].dst
<1>1. AtStage(c) /\ pc[c] = "cleanup" /\ End(c, "failed") /\ before' = before
  BY DEF Staged, Cleanup
<1>2. dst \in Keys /\ req[c].op \in {"upload", "copy", "move"}
  BY <1>1, CallsAre DEF AtStage
<1>3. entry[dst] = fd[c] /\ fd[c] \in Inodes
  BY <1>1, <1>2 DEF AtStage, Lone, SoFar, UploadSoFar, CopySoFar, Staged, TypeOK
<1>4. req' = req /\ answer'[c] = "failed" /\ pc'[c] = "done"
  BY <1>1 DEF End, Staged, TypeOK
<1>5. Sound(c) /\ Abandons(c)
  BY CleanupIs
<1>6. \A k \in Keys : entry'[k] \in InUse' /\ (entry[k] # NoInode => entry[k] \in Inodes)
  BY <1>5, StepFacts DEF Staged, TypeOK
<1>7. CASE req[c].op = "upload"
  <2>1. entry'[dst] = NoInode \/ entry'[dst] \in spoilt'
    BY <1>2, <1>3, <1>5, <1>6 DEF Abandons, Staged, TypeOK
  <2>2. UploadAlone(c)'
    BY <1>4, <2>1 DEF UploadAlone, Held
  <2> QED
    BY <1>4, <1>7, <2>2, EndSoFar DEF Promise
<1>8. CASE req[c].op \in {"copy", "move"}
  <2>1. req[c].src \in Keys /\ req[c].src # dst /\ Held(req[c].src) = before[c]
    BY <1>1, <1>8, CallsAre DEF Lone, SoFar, CopySoFar
  <2>2. entry'[req[c].src] = entry[req[c].src]
    BY <1>5, <2>1 DEF Abandons, Staged, TypeOK
  <2>3. entry[req[c].src] # NoInode => data'[entry[req[c].src]] = data[entry[req[c].src]]
    BY <1>5, <1>6, <2>1, <2>2 DEF Abandons
  <2>4. Held(req[c].src)' = before[c]
    BY <1>4, <2>1, <2>2, <2>3 DEF Held
  <2>5. CopyAlone(c)' /\ MoveAlone(c)'
    BY <1>1, <1>4, <2>4 DEF CopyAlone, MoveAlone
  <2> QED
    BY <1>4, <1>8, <2>5, EndSoFar DEF Promise
<1> QED
  BY <1>2, <1>7, <1>8

\* copyFile empties another file than the one it copies; a key copied onto
\* itself is left as it is, and a move never unlinks what it has not copied.
LEMMA CopyOpensLone ==
    ASSUME Staged, FilesInv, NEW c \in Callers, Lone(c), CopyOpens(c)
    PROVE  SoFar(c)' /\ Promise(c)'
<1> DEFINE src == entry[req[c].src]
           after == StepAfterCopy(req[c])
<1>1. /\ AtStage(c) /\ pc[c] = "copyFile" /\ src # NoInode /\ before' = before
      /\ "copying" \in Steps /\ after \in Steps
  BY DEF Staged, CopyOpens, Steps, StepAfterCopy
<1>2. /\ req[c].src \in Keys /\ req[c].dst \in Keys /\ req[c].op \in {"copy", "move"}
      /\ Held(req[c].src) = before[c] /\ (req[c].op = "move" => req[c].src # req[c].dst)
  BY <1>1, CallsAre DEF AtStage, Lone, SoFar, CopySoFar
<1>3. src \in Inodes /\ before[c] = data[src] /\ before[c] \in Contents /\ before[c] # Absent
  BY <1>1, <1>2, HeldIs
<1>4. CASE entry[req[c].dst] = src
  <2>1. GoTo(c, after) /\ UNCHANGED <<entry, data>>
    BY <1>4 DEF CopyOpens, Target
  <2>2. req[c].src = req[c].dst
    BY <1>1, <1>2, <1>4 DEF FilesInv, OneNameEach
  <2>3. req[c].op = "copy" /\ after = "copied"
    BY <1>2, <2>2 DEF StepAfterCopy
  <2>4. req' = req /\ answer'[c] = "none" /\ pc'[c] = "copied"
    BY <1>1, <2>1, <2>3, GoesOn DEF AtStage
  <2>5. Held(req[c].src)' = Held(req[c].src)
    BY <2>1, <2>4 DEF Held
  <2>6. SoFar(c)'
    BY <1>1, <1>2, <1>3, <2>2, <2>3, <2>4, <2>5 DEF SoFar, CopySoFar
  <2> QED
    BY <2>4, <2>6, NoAnswerYet
<1>5. CASE entry[req[c].dst] # src
  <2>1. GoTo(c, "copying")
    BY <1>5 DEF CopyOpens, Target
  <2>2. req' = req /\ answer'[c] = "none" /\ pc'[c] = "copying"
    BY <1>1, <2>1, GoesOn DEF AtStage
  <2>3. Sound(c)
    BY CopyOpensIs
  <2>4. PICK i \in Inodes : Opens(c, i)
    BY <2>2, CopyOpensIs DEF Quiet
  <2>5. /\ from'[c] = src /\ src # i /\ fd'[c] = i /\ got'[c] = <<>>
        /\ req[c].src # req[c].dst
        /\ entry'[req[c].dst] = i /\ entry'[req[c].src] = src
    BY <1>2, <1>5, <2>2, <2>4 DEF Opens, Staged, TypeOK
  <2>6. src \in InUse' /\ i \in InUse'
    BY <1>2, <2>3, <2>5, StepFacts
  <2>7. data'[src] = data[src] /\ data'[i] = <<>>
    BY <1>3, <2>4, <2>5, <2>6 DEF Opens
  <2>8. Held(req[c].src)' = before[c]
    BY <1>1, <1>3, <2>2, <2>5, <2>7 DEF Held
  <2>9. BeginningRead(c)'
    <3>1. Len(before[c]) \in Nat /\ Len(<<>>) = 0
      BY <1>3, ContentsAre, EmptyIsContent
    <3> QED
      BY <1>1, <2>5, <3>1 DEF BeginningRead
  <2>10. SoFar(c)'
    BY <1>1, <1>2, <2>2, <2>5, <2>7, <2>8, <2>9 DEF SoFar, CopySoFar
  <2> QED
    BY <2>2, <2>10, NoAnswerYet
<1> QED
  BY <1>4, <1>5

\* What was copied is the beginning of the object, at the end all of it.
LEMMA CopyChunkLone ==
    ASSUME Staged, FilesInv, NEW c \in Callers, Lone(c), CopyChunk(c)
    PROVE  SoFar(c)' /\ Promise(c)'
<1> DEFINE n == Len(got[c]) + 1
           src == from[c]
           after == StepAfterCopy(req[c])
<1>1. /\ AtStage(c) /\ pc[c] = "copying" /\ answer[c] = "none" /\ after \in Steps
      /\ before' = before /\ entry' = entry
  BY DEF Staged, Steps, StepAfterCopy, CopyChunk, AtStage
<1>2. /\ req[c].src \in Keys /\ req[c].dst \in Keys /\ req[c].op \in {"copy", "move"}
      /\ Held(req[c].src) = before[c] /\ req[c].src # req[c].dst
      /\ entry[req[c].dst] = fd[c] /\ entry[req[c].src] = src
      /\ data[fd[c]] = got[c] /\ BeginningRead(c)
  BY <1>1, CallsAre DEF AtStage, Lone, SoFar, CopySoFar
<1>3. src \in Inodes /\ fd[c] \in Inodes /\ src # NoInode /\ fd[c] # NoInode
  BY <1>1, InodesAssumption DEF AtStage, Staged, TypeOK
<1>4. src # fd[c]
  BY <1>2, <1>3 DEF FilesInv, OneNameEach
<1>5. /\ data[src] = before[c] /\ before[c] \in Contents /\ before[c] # Absent
      /\ got[c] \in Contents
  BY <1>2, <1>3, HeldIs DEF Staged, TypeOK
<1>6. Len(got[c]) \in Nat /\ Len(before[c]) \in Nat
  BY <1>5, ContentsAre
<1>7. CASE n <= Len(data[src])
  <2> DEFINE b == data[src][n]
  <2>1. /\ data' = [data EXCEPT ![fd[c]] = Written(@, n, b)]
        /\ got' = [got EXCEPT ![c] = Append(@, b)]
        /\ UNCHANGED <<callVars, fd, from, spoilt>>
    BY <1>7 DEF CopyChunk
  <2>2. /\ n \in Nat \ {0} /\ b \in MaybeBody
        /\ Len(Append(got[c], b)) = n /\ Append(got[c], b)[n] = before[c][n]
        /\ \A m \in 1 .. Len(got[c]) : Append(got[c], b)[m] = got[c][m]
    BY <1>5, <1>7, AppendIs
  <2>3. Written(got[c], n, b) = Append(got[c], b)
    BY <1>5, <2>2, WrittenIs
  <2>4. n = Len(got[c]) + 1 /\ n <= Len(before[c])
    BY <1>5, <1>7
  <2> HIDE DEF n, b
  <2>5. got'[c] = Append(got[c], b) /\ data'[fd[c]] = got'[c] /\ data'[src] = data[src]
    BY <1>2, <1>3, <1>4, <2>1, <2>3 DEF Staged, TypeOK
  <2>6. BeginningRead(c)'
    <3>1. \A m \in 1 .. n : m = n \/ m \in 1 .. Len(got[c])
      BY <1>6, <2>4
    <3>2. \A m \in 1 .. n : got'[c][m] = before[c][m]
      BY <1>2, <2>2, <2>5, <3>1 DEF BeginningRead
    <3> QED
      BY <1>1, <2>2, <2>4, <2>5, <3>2 DEF BeginningRead
  <2>7. Held(req[c].src)' = before[c]
    BY <1>1, <1>2, <1>3, <1>5, <2>1, <2>5 DEF Held, callVars
  <2>8. SoFar(c)'
    BY <1>1, <1>2, <2>1, <2>5, <2>6, <2>7 DEF SoFar, CopySoFar, callVars
  <2> QED
    BY <1>1, <2>1, <2>8, NoAnswerYet DEF callVars
<1>8. CASE ~(n <= Len(data[src]))
  <2>1. GoTo(c, after) /\ Files(data, spoilt)
    BY <1>8 DEF CopyChunk
  <2>2. /\ req' = req /\ answer'[c] = "none" /\ pc'[c] = after
        /\ after \in {"copied", "unlinkSource"}
    BY <1>1, <2>1, GoesOn DEF StepAfterCopy
  <2>3. got[c] = before[c]
    <3>1. Len(got[c]) >= Len(before[c])
      BY <1>5, <1>6, <1>8
    <3> QED
      BY <1>2, <1>5, <3>1, SameContents DEF BeginningRead
  <2>4. data'[fd[c]] = data[fd[c]] /\ data'[src] = data[src]
    <3>1. Sound(c)
      BY CopyChunkIs
    <3>2. fd[c] \in InUse' /\ src \in InUse'
      BY <1>1, <1>2, <3>1, StepFacts
    <3> QED
      BY <1>3, <2>1, <3>2, FilesAre DEF Staged, TypeOK
  <2>5. Held(req[c].src)' = before[c] /\ Held(req[c].dst)' = before[c]
    BY <1>1, <1>2, <1>3, <1>5, <2>2, <2>3, <2>4 DEF Held
  <2>6. SoFar(c)'
    BY <1>1, <1>2, <1>5, <2>2, <2>5 DEF SoFar, CopySoFar
  <2> QED
    BY <2>2, <2>6, NoAnswerYet
<1> QED
  BY <1>7, <1>8

\* Whatever step a call that is alone takes, it stays on its way.
LEMMA OwnStepLone ==
    ASSUME Staged, FilesInv, LoneInv, NEW c \in Callers, StepOf(c), alone'[c]
    PROVE  Lone(c)'
<1>1. CASE Invoke(c)
  BY <1>1, InvokeLone
<1>2. CASE CallStep(c) /\ UNCHANGED calls
  <2>1. ~Return(c)
    BY DEF Return, Staged, TypeOK
  <2>2. UNCHANGED <<req, alone, before>> /\ c \in Busy
    BY <1>2, <2>1, CallStepIs
  <2>3. Lone(c)
    BY <2>2 DEF LoneInv
  <2>4. Undisturbed(c)'
    BY <1>2, <2>2, <2>3, OwnUndisturbed DEF Lone
  <2>5. SoFar(c)' /\ Promise(c)'
    BY <1>2, <2>1, <2>3, CheckLone, MkdirLone, OpenLone, OpenFailsLone, DiscardLone, WriteLone,
       WriteFailsLone, CleanupLone, SizeLone, UnlinkLone, ReaddirLone, RmdirLone, RenameLone,
       RenameRefusedLone, CopyOpensLone, CopyFindsNothingLone, CopyChunkLone, CopyFailsLone,
       CopiedLone, UnlinkSourceLone, StatLone, OpenReadLone, ReadLone, CallFailsLone
       DEF CallStep
  <2>6. pc'[c] # "idle"
    <3>1. req[c] # NoRequest /\ Sound(c)
      BY <1>2, <2>2, StepIs DEF Busy, Staged, AtStage, StepOf
    <3> QED
      BY <2>2, <3>1 DEF Sound, AtStage
  <2> QED
    BY <2>4, <2>5, <2>6 DEF Lone
<1> QED
  BY <1>1, <1>2 DEF StepOf

\* Every call that is alone stays on its way, whoever takes a step.
LEMMA LoneInvKeeps ==
    ASSUME Staged, FilesInv, LoneInv, [Next]_vars
    PROVE  LoneInv'
<1>1. ASSUME NEW d \in Callers, StepOf(d)
      PROVE  LoneInv'
  <2> SUFFICES ASSUME NEW c \in Callers, alone'[c]
               PROVE  Lone(c)'
    BY DEF LoneInv
  <2>1. CASE c = d
    BY <1>1, <2>1, OwnStepLone
  <2>2. CASE c # d
    BY <1>1, <2>2, OthersKeepLone
  <2> QED
    BY <2>1, <2>2
<1>2. ASSUME UNCHANGED vars
      PROVE  LoneInv'
  <2> SUFFICES ASSUME NEW c \in Callers, alone'[c]
               PROVE  Lone(c)'
    BY DEF LoneInv
  <2>1. /\ UNCHANGED <<directory, entry, data, req, pc, answer, fd, from, got, size>>
        /\ UNCHANGED <<alone, before, spoilt>>
    BY <1>2 DEF vars, fileVars, callVars, openVars, history
  <2>2. Lone(c)
    BY <2>1 DEF LoneInv
  <2>3. Undisturbed(c)' /\ SoFar(c)'
    BY <2>1, <2>2
       DEF Lone, Undisturbed, Busy, Writes, Touched, SoFar, UploadSoFar, DeleteSoFar, CopySoFar,
           DownloadSoFar, BeginningRead, Held, Whole
  <2>4. Promise(c)'
    BY <2>1, <2>2
       DEF Lone, Promise, UploadAlone, DeleteAlone, CopyAlone, MoveAlone, DownloadAlone, Held, Whole
  <2> QED
    BY <2>1, <2>2, <2>3, <2>4 DEF Lone
<1> QED
  BY <1>1, <1>2 DEF Next, StepOf

\* A call during which no other has to do with its keys does what the StorageDriver
\* interface promises, step by step, whatever else goes on in the directory, for
\* any number of callers, keys, bodies and files.
THEOREM LonelyCallsKeepTheirWord == Spec => []LoneCallsKeepTheirWord
<1>1. Init => Staged /\ FilesInv /\ LoneInv
  BY InitStaged, InitFilesInv DEF Init, LoneInv
<1>2. Staged /\ FilesInv /\ LoneInv /\ [Next]_vars => (Staged /\ FilesInv /\ LoneInv)'
  BY StagedKeeps, FilesInvKeeps, LoneInvKeeps
<1>3. LoneInv => LoneCallsKeepTheirWord
  BY DEF LoneInv, Lone, Promise, LoneCallsKeepTheirWord
<1> QED
  BY <1>1, <1>2, <1>3, PTL DEF Spec
=============================================================================
