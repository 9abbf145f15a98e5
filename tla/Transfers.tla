----------------------------- MODULE Transfers -----------------------------
(***************************************************************************)
(* A body on its way: copyBetween() from one storage to another, the       *)
(* adapters that store what a web server receives, and a plain read.       *)
(*                                                                         *)
(* The body is a Node stream.  It may fail at any moment, and an error     *)
(* that nobody listens to ends the process; the destination listens only   *)
(* when its upload() gets to the body, after its hooks and the check of    *)
(* overwrite: false.  A stream that is neither ended nor destroyed keeps   *)
(* its connection or file.  copyBetween() puts a counting Transform        *)
(* between the two.                                                        *)
(*                                                                         *)
(* What an upload does to the destination is what ObjectStore promises:    *)
(* nothing, or the object whole, whatever is answered; where the answer is *)
(* lost, perhaps later.                                                    *)
(***************************************************************************)
EXTENDS DriverReads, FiniteSets

CONSTANTS
    Kinds,      \* the calls considered
    Length,     \* object -> number of its chunks
    HighWater   \* chunks the Transform holds

KindNames == {"read", "copyBetween", "fastify", "formidable", "multer"}

ASSUME KindsAssumption == Kinds \subseteq KindNames
ASSUME LengthAssumption == Length \in [Objects -> Nat \ {0}] /\ HighWater \in Nat \ {0}

VARIABLES
    kind,       \* the call
    overwrite,  \* its option
    random,     \* the key is a random one, not one of the caller's
    removes,    \* the multer engine's removeOnError
    trusts,     \* the destination's provider believes a contentLength
    dest,       \* the object under the destination's key, or None
    stage,      \* what the call is doing
    counting,   \* the state of the Transform
    sent, taken,    \* chunks the source has given, and the destination has got
    heard,      \* the destination has begun to listen to the body
    pending,    \* a request that was given up, with the whole body, may be carried out
    overtaken, robbed   \* history: see Observe

options      == <<kind, overwrite, random, removes, trusts>>
transferVars == <<dest, stage, counting, sent, taken, heard, pending, overtaken, robbed>>
vars         == <<readVars, options, transferVars>>

Adapters == {"fastify", "formidable", "multer"}
Settled  == {"resolved", "rejected", "removed", "kept"}
Stages   == {"reading", "preparing", "sending", "stored", "failing", "crashed"} \cup Settled

\* What is stored, how much of it, under whose metadata, and by this call?
Stored == [of : Objects, size : Nat, about : MaybeObject, mine : BOOLEAN]
Others == {[of |-> o, size |-> Length[o], about |-> o, mine |-> FALSE] : o \in Objects}

ASSUME NoneAssumption == None \notin Stored

Mine == dest # None /\ dest.mine

\* Nobody else has a random key.
FreshKey == random => dest = None

\* The read of a "read" is any, copyBetween downloads; an adapter's body is a
\* stream that the server or a file already holds.
Init ==
    /\ kind \in Kinds
    /\ overwrite \in BOOLEAN /\ random \in BOOLEAN /\ removes \in BOOLEAN /\ trusts \in BOOLEAN
    /\ kind = "read" => overwrite
    /\ kind # "multer" => removes
    /\ kind \in {"read", "copyBetween"} => ~random
    /\ kind # "copyBetween" => ~trusts
    /\ IF kind \in Adapters THEN driver = None ELSE driver \in Drivers
    /\ read \in IF kind \in Adapters THEN {"none"}
                ELSE IF kind = "read" THEN Reads ELSE {"download"}
    /\ place \in BOOLEAN /\ source \in MaybeObject
    /\ ~place => source = None
    /\ kind \in Adapters => source # None
    /\ answer = "none" /\ met = "none" /\ described = None
    /\ stream = IF kind \in {"fastify", "multer"} THEN [state |-> "open", of |-> source]
                ELSE IF kind = "formidable" THEN LazyStream ELSE NoStream
    /\ were = {source} /\ changes = 0
    /\ dest \in Others \cup {None}
    /\ FreshKey /\ (kind = "read" => dest = None)
    /\ stage = IF kind \in Adapters THEN "preparing" ELSE "reading"
    /\ counting = "none" /\ sent = 0 /\ taken = 0 /\ heard = FALSE /\ pending = FALSE
    /\ overtaken = FALSE /\ robbed = FALSE

\* Has another replaced or removed what this call stored, and did a removal by
\* this call take what another stored?
Observe(removal) ==
    /\ overtaken' = (overtaken \/ (~removal /\ Mine /\ dest' # dest))
    /\ robbed' = (robbed \/ (removal /\ dest # None /\ ~Mine /\ dest' = None))

DestStays == UNCHANGED <<dest, overtaken, robbed>>

(***************************************************************************)
(* The read.                                                               *)
(***************************************************************************)
Read ==
    /\ stage = "reading"
    /\ Reading
    /\ UNCHANGED <<options, transferVars>>

\* The storage passes on what the driver answered.
ReadSettles ==
    /\ stage = "reading" /\ answer # "none"
    /\ read = "download" => answer # "found"
    /\ stage' = IF answer \in {"true", "false", "found"} THEN "resolved" ELSE "rejected"
    /\ UNCHANGED <<readVars, options, counting, sent, taken, heard, pending>>
    /\ DestStays

\* A beforeDownload hook throws, or an afterDownload hook, for whose error the
\* download is given up with its stream open.
DownloadHookThrows ==
    /\ stage = "reading" /\ read = "download" /\ answer \in {"none", "found"}
    /\ stage' = "rejected"
    /\ UNCHANGED <<readVars, options, counting, sent, taken, heard, pending>>
    /\ DestStays

\* The caller of download() collects the body.
Collect ==
    /\ stage = "reading" /\ kind = "read" /\ read = "download" /\ answer = "found"
    /\ stage' = "sending"
    /\ heard' = TRUE
    /\ UNCHANGED <<readVars, options, counting, sent, taken, pending>>
    /\ DestStays

Pipe ==
    /\ stage = "reading" /\ kind = "copyBetween" /\ answer = "found"
    /\ stage' = "preparing"
    /\ counting' = "open"
    /\ UNCHANGED <<readVars, options, sent, taken, heard, pending>>
    /\ DestStays

\* The stream of gcs asks for the object when somebody reads it, a file is
\* opened at once.
Open ==
    /\ OpenStream
    /\ driver = "gcs" => counting = "open" \/ heard
    /\ UNCHANGED <<options, transferVars>>

(***************************************************************************)
(* The body on its way.                                                    *)
(***************************************************************************)
AtEnd(n) == n = Length[stream.of]

Sent ==
    /\ sent' = sent + 1
    /\ stream' = IF AtEnd(sent + 1) THEN [stream EXCEPT !.state = "ended"] ELSE stream

\* (Faulty variant: without back-pressure.)
CountAhead ==
    /\ counting = "open" /\ stream.state = "open"
    /\ Sent
    /\ UNCHANGED <<callVars, place, source, answerVars, were, changes>>
    /\ UNCHANGED <<options, dest, stage, counting, taken, heard, pending, overtaken, robbed>>

\* A chunk goes into the Transform, which counts it.
Count ==
    /\ counting = "open" /\ stream.state = "open" /\ sent - taken < HighWater
    /\ Sent
    /\ UNCHANGED <<callVars, place, source, answerVars, were, changes>>
    /\ UNCHANGED <<options, dest, stage, counting, taken, heard, pending, overtaken, robbed>>

\* The destination takes one, from the Transform or from the body itself.
Take ==
    /\ stage = "sending"
    /\ IF kind = "copyBetween"
       THEN counting = "open" /\ taken < sent /\ UNCHANGED <<stream, sent>>
       ELSE stream.state = "open" /\ Sent
    /\ taken' = taken + 1
    /\ UNCHANGED <<callVars, place, source, answerVars, were, changes>>
    /\ UNCHANGED <<options, dest, stage, counting, heard, pending, overtaken, robbed>>

\* The body of a request has listeners of the parser that made it.
Listened == heard \/ kind \in {"fastify", "multer"}

\* (Faulty variant: the Transform ends where the source failed.)
BodyFailsUnnoticed ==
    /\ stream.state \in {"lazy", "open"} /\ stage # "crashed"
    /\ stream' = [stream EXCEPT !.state = IF kind = "copyBetween" /\ @ = "open" THEN "ended" ELSE "failed"]
    /\ UNCHANGED <<callVars, place, source, answerVars, were, changes>>
    /\ UNCHANGED <<options, stage, counting, sent, taken, heard, pending>>
    /\ DestStays

\* The source fails, and with it the Transform; a failed open is one way.
BodyFails ==
    /\ stream.state \in {"lazy", "open"} /\ stage # "crashed"
    /\ stream' = [stream EXCEPT !.state = "failed"]
    /\ counting' = IF counting = "open" THEN "destroyed" ELSE counting
    /\ stage' = IF ~Listened THEN "crashed"
                ELSE IF stage = "sending" THEN "failing" ELSE stage
    /\ UNCHANGED <<callVars, place, source, answerVars, were, changes>>
    /\ UNCHANGED <<options, sent, taken, heard, pending>>
    /\ DestStays

(***************************************************************************)
(* The upload.                                                             *)
(***************************************************************************)
Uploads == kind # "read"

\* upload() gets to the body: hooks have run, and if it must not overwrite, it
\* has seen no object.
Attach ==
    /\ Uploads /\ stage = "preparing"
    /\ overwrite \/ dest = None
    /\ heard' = TRUE
    /\ stage' = IF stream.state = "failed" THEN "failing" ELSE "sending"
    /\ UNCHANGED <<readVars, options, counting, sent, taken, pending>>
    /\ DestStays

AllTaken == heard /\ stream.state = "ended" /\ taken = sent

\* The key function or a hook throws, the object must not be overwritten, or
\* the provider refuses the upload.
UploadFails ==
    /\ Uploads /\ stage \in {"preparing", "sending"}
    /\ stage' = "failing"
    /\ pending' \in {FALSE, AllTaken}
    /\ UNCHANGED <<readVars, options, counting, sent, taken, heard>>
    /\ DestStays

\* The contentLength that copyBetween declares is that of the metadata; the
\* length of what a provider that trusts it keeps of the body.
Kept(declared) == IF trusts /\ declared # None THEN Length[declared] ELSE taken

\* (Longer than the body: the provider waits in vain.)
Put ==
    /\ Kept(described) <= taken
    /\ dest' = [of |-> stream.of, size |-> Kept(described), about |-> described, mine |-> TRUE]
    /\ Observe(FALSE)

Store ==
    /\ Uploads /\ stage = "sending" /\ AllTaken
    /\ Put
    /\ stage' = "stored"
    /\ UNCHANGED <<readVars, options, counting, sent, taken, heard, pending>>

StoreLate ==
    /\ pending /\ Put
    /\ pending' = FALSE
    /\ UNCHANGED <<readVars, options, stage, counting, sent, taken, heard>>

\* The answer is lost, or an afterUpload hook throws.
StoredInVain ==
    /\ stage = "stored"
    /\ stage' = "failing"
    /\ UNCHANGED <<readVars, options, counting, sent, taken, heard, pending>>
    /\ DestStays

Closed(state) == IF state \in {"lazy", "open"} THEN "destroyed" ELSE state

ReleaseBoth ==
    /\ stream' = [stream EXCEPT !.state = Closed(@)]
    /\ counting' = Closed(counting)

Settles(how) ==
    /\ stage' = how
    /\ UNCHANGED <<callVars, place, source, answerVars, were, changes>>
    /\ UNCHANGED <<options, sent, taken, heard, pending>>
    /\ DestStays

\* (Faulty variant: on failure only the Transform is destroyed.)
CopyBetweenHalfReleased ==
    /\ kind = "copyBetween" /\ stage \in {"failing", "stored"}
    /\ counting' = Closed(counting) /\ UNCHANGED stream
    /\ Settles(IF stage = "stored" THEN "resolved" ELSE "rejected")

CopyBetweenSettles ==
    /\ kind = "copyBetween" /\ stage \in {"failing", "stored"}
    /\ ReleaseBoth
    /\ Settles(IF stage = "stored" THEN "resolved" ELSE "rejected")

\* The driver may have destroyed the body that its upload was reading.
MaybeClosed ==
    /\ \/ UNCHANGED stream
       \/ heard /\ stream' = [stream EXCEPT !.state = Closed(@)]
    /\ UNCHANGED counting

FastifySettles ==
    /\ kind = "fastify"
    /\ \/ /\ stage = "stored" /\ UNCHANGED <<stream, counting>> /\ Settles("resolved")
       \/ /\ stage = "failing" /\ ReleaseBoth /\ Settles("rejected")

FormidableSettles ==
    /\ kind = "formidable"
    /\ \/ /\ stage = "stored" /\ UNCHANGED <<stream, counting>> /\ Settles("resolved")
       \/ /\ stage = "failing" /\ MaybeClosed /\ Settles("rejected")

\* _handleFile() tells multer, with the key if the file was saved.
HandleFileSettles ==
    /\ kind = "multer"
    /\ \/ /\ stage = "stored" /\ UNCHANGED <<stream, counting>> /\ Settles("resolved")
       \/ /\ stage = "failing" /\ MaybeClosed /\ Settles("rejected")

CollectSettles ==
    /\ kind = "read"
    /\ \/ /\ stage = "sending" /\ AllTaken /\ UNCHANGED <<stream, counting>> /\ Settles("resolved")
       \/ /\ stage = "failing" /\ UNCHANGED <<stream, counting>> /\ Settles("rejected")

(***************************************************************************)
(* multer removes the files of a request that fails later, also those it   *)
(* was told no key of.                                                     *)
(***************************************************************************)

\* (Faulty variant: the key is known before the file is stored.)
KnownBefore == TRUE

KeyKnown == stage = "resolved"

RemoveFile ==
    /\ kind = "multer" /\ stage \in {"resolved", "rejected"}
    /\ \/ /\ removes /\ KeyKnown
          /\ \/ dest' = None /\ stage' = "removed"
             \/ dest' \in {dest, None} /\ stage' = "kept"
       \/ ~(removes /\ KeyKnown) /\ stage' = "kept" /\ UNCHANGED dest
    /\ Observe(TRUE)
    /\ UNCHANGED <<readVars, options, counting, sent, taken, heard, pending>>

(***************************************************************************)
(* Others use both keys; a random key nobody else has.                     *)
(***************************************************************************)
SourceChanged == SourceChanges /\ UNCHANGED <<options, transferVars>>

DestChanged ==
    /\ Uploads /\ ~random /\ changes < MaxChanges
    /\ changes' = changes + 1
    /\ dest' \in (Others \cup {None}) \ {dest}
    /\ Observe(FALSE)
    /\ UNCHANGED <<callVars, place, source, answerVars, stream, were>>
    /\ UNCHANGED <<options, stage, counting, sent, taken, heard, pending>>

Next ==
    /\ stage # "crashed"
    /\ \/ Read \/ ReadSettles \/ DownloadHookThrows \/ Collect \/ Pipe \/ Open
       \/ Count \/ Take \/ BodyFails
       \/ Attach \/ UploadFails \/ Store \/ StoreLate \/ StoredInVain
       \/ CopyBetweenSettles \/ FastifySettles \/ FormidableSettles
       \/ HandleFileSettles \/ CollectSettles \/ RemoveFile
       \/ SourceChanged \/ DestChanged

Spec == Init /\ [][Next]_vars

(***************************************************************************)
(* Properties.                                                             *)
(***************************************************************************)
TypeOK ==
    /\ ReadTypeOK
    /\ kind \in Kinds /\ <<overwrite, random, removes, trusts>> \in BOOLEAN \X BOOLEAN \X BOOLEAN \X BOOLEAN
    /\ dest \in Stored \cup {None} /\ stage \in Stages
    /\ counting \in {"none", "open", "destroyed"}
    /\ sent \in Nat /\ taken \in 0 .. sent /\ sent - taken <= HighWater
    /\ <<heard, pending, overtaken, robbed>> \in BOOLEAN \X BOOLEAN \X BOOLEAN \X BOOLEAN

\* Whatever fails on the way, what a call stores is the whole body of one
\* object that the source held during the call, under that object's metadata.
\* Only a source of gcs or local whose object was replaced between the metadata
\* and the stream gives the metadata of one and the body of the other, and only
\* then may a provider that trusts the declared length keep less than the body.
StoredWhole ==
    Mine =>
        /\ read = "download" => dest.of \in were
        /\ dest.about \notin {None, dest.of} => driver \in Lazy /\ {dest.about, dest.of} \subseteq were
        /\ dest.size # Length[dest.of] => driver \in Lazy /\ trusts /\ dest.size = Length[dest.about]

\* When copyBetween() or saveFastifyFile() has settled, no stream is left open,
\* however it ended, unless a hook made copyBetween() fail before it got hold of
\* the stream of its download.  An error of the body ends the process only before the
\* upload listens to a stream that the library itself has opened; then nothing
\* has been stored.
StreamsReleased ==
    /\ kind \in {"copyBetween", "fastify"} /\ stage \in Settled =>
          \/ stream.state \notin {"lazy", "open"} /\ counting # "open"
          \/ kind = "copyBetween" /\ counting = "none"
    /\ stage = "crashed" => ~Listened /\ taken = 0 /\ ~Mine

\* When multer takes back a file, it takes what the request stored: what another
\* stored only if it has replaced that (which no random key suffers), never the
\* object that made the upload fail.  And where the removal succeeds, nothing of
\* the request stays.
RemovalTakesItsOwn ==
    /\ robbed => overtaken /\ ~random
    /\ stage = "removed" => ~Mine
=============================================================================
