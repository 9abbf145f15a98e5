---------------------------- MODULE DriverReads ----------------------------
(***************************************************************************)
(* The calls of a driver that read: exists(), stat() and download().  Each *)
(* is one request to the provider; what the provider refuses comes back as *)
(* a native error, which the driver takes for an absent object or hands to *)
(* normalizeError().  The gcs and the local driver answer download() with  *)
(* a stream that is opened only later.                                     *)
(*                                                                         *)
(* One call reads one key, which others write and delete meanwhile.        *)
(***************************************************************************)
EXTENDS Naturals, Sequences

CONSTANTS
    Drivers,        \* the drivers considered
    Objects,        \* objects, told apart only by identity
    None,           \* no object, no driver
    MaxChanges      \* bound: changes others make

DriverNames == {"s3", "minio", "azure", "gcs", "oracle", "local"}

ASSUME DriversAssumption == Drivers \subseteq DriverNames
ASSUME ObjectsAssumption == None \notin Objects \cup Drivers /\ MaxChanges \in Nat

VARIABLES
    driver, read,   \* the call: whose storage, and which operation
    place,          \* whether the bucket exists
    source,         \* the object under the key, or None
    answer,         \* what the call has answered
    met,            \* history: why the provider refused the request
    described,      \* the object that the answer's metadata are of, or None
    stream,         \* the body: whether it is open, and of which object
    were,           \* history: what the key has held since the call began
    changes         \* changes others have made

callVars   == <<driver, read>>
answerVars == <<answer, met, described>>
readVars   == <<callVars, place, source, answerVars, stream, were, changes>>

Reads   == {"exists", "stat", "download"}
Causes  == {"missing", "homeless", "blocked", "denied", "busy", "overloaded", "cut", "aborted"}
Errors  == {"aborted", "notFound", "permission", "conflict", "quota", "network", "failed"}
Answers == {"none", "true", "false", "found"} \cup Errors
States  == {"none", "lazy", "open", "ended", "failed", "destroyed"}

MaybeObject == Objects \cup {None}
Streams     == [state : States, of : MaybeObject]
NoStream    == [state |-> "none", of |-> None]
LazyStream  == [state |-> "lazy", of |-> None]
Lazy        == {"gcs", "local"}

(***************************************************************************)
(* Errors.  A native error is seen through the fields the code looks at: a *)
(* textual `code` ("none" if there is none), a numeric one, the `name`,    *)
(* and the HTTP status.                                                    *)
(***************************************************************************)
Native(code, number, name, status) ==
    [code |-> code, number |-> number, name |-> name, status |-> status]

Cut == Native("ECONNRESET", 0, "Error", 0)

\* The gcs client says the status in a numeric `code` and nowhere else; that
\* of minio says no status; Oracle answers 404 also to who may not know.  A
\* provider that wants fewer requests says so with a 429 (busy) or with a 503
\* (overloaded).  A path below a file is blocked, which is not ENOENT.
NativeError(cause) ==
    IF cause = "cut" THEN Cut
    ELSE IF cause = "aborted" THEN Native("none", 0, "AbortError", 0)
    ELSE CASE driver = "s3" ->
                  [missing  |-> Native("none", 0, IF read = "download" THEN "NoSuchKey" ELSE "NotFound", 404),
                   homeless |-> Native("none", 0, IF read = "download" THEN "NoSuchBucket" ELSE "NotFound", 404),
                   denied   |-> Native("none", 0, "AccessDenied", 403),
                   busy     |-> Native("none", 0, "TooManyRequests", 429),
                   overloaded |-> Native("none", 0, "SlowDown", 503)][cause]
           [] driver = "minio" ->
                  [missing  |-> Native(IF read = "download" THEN "NoSuchKey" ELSE "NotFound", 0, "S3Error", 0),
                   homeless |-> Native(IF read = "download" THEN "NoSuchBucket" ELSE "NotFound", 0, "S3Error", 0),
                   denied   |-> Native("AccessDenied", 0, "S3Error", 0),
                   busy     |-> Native("TooManyRequests", 0, "S3Error", 0),
                   overloaded |-> Native("SlowDown", 0, "S3Error", 0)][cause]
           [] driver = "azure" ->
                  [missing  |-> Native("BlobNotFound", 0, "RestError", 404),
                   homeless |-> Native("ContainerNotFound", 0, "RestError", 404),
                   denied   |-> Native("AuthorizationFailure", 0, "RestError", 403),
                   busy     |-> Native("TooManyRequests", 0, "RestError", 429),
                   overloaded |-> Native("ServerBusy", 0, "RestError", 503)][cause]
           [] driver = "gcs" ->
                  Native("none", [missing |-> 404, homeless |-> 404, denied |-> 403,
                                  busy |-> 429, overloaded |-> 503][cause], "Error", 0)
           [] driver = "oracle" ->
                  Native("none", 0, "Error", [missing |-> 404, homeless |-> 404, denied |-> 404,
                                              busy |-> 429, overloaded |-> 503][cause])
           [] driver = "local" ->
                  Native([missing |-> "ENOENT", homeless |-> "ENOENT", blocked |-> "ENOTDIR",
                          denied |-> "EACCES"][cause], 0, "Error", 0)

Code(e) == IF e.code = "none" THEN e.name ELSE e.code

\* In the order in which they are tried; only the codes that occur here.
Classes ==
    << [class |-> "aborted",    statuses |-> {},         codes |-> {"AbortError"}],
       [class |-> "notFound",   statuses |-> {404, 410},
        codes |-> {"ENOENT", "NoSuchKey", "NotFound", "BlobNotFound", "ContainerNotFound"}],
       [class |-> "permission", statuses |-> {401, 403},
        codes |-> {"EACCES", "AccessDenied", "AuthorizationFailure", "NotAuthorizedOrNotFound"}],
       [class |-> "conflict",   statuses |-> {409, 412}, codes |-> {"EEXIST", "PreconditionFailed"}],
       [class |-> "quota",      statuses |-> {429, 507}, codes |-> {"TooManyRequests"}],
       [class |-> "network",    statuses |-> {},         codes |-> {"ECONNRESET"}] >>

ClassOf(e) ==
    LET fits == {i \in DOMAIN Classes :
                    e.status \in Classes[i].statuses \/ Code(e) \in Classes[i].codes}
    IN  IF fits = {} THEN "failed"
        ELSE Classes[CHOOSE i \in fits : \A j \in fits : i <= j].class

MinioMissing(e)  == e.code \in {"NoSuchKey", "NotFound", "NoSuchObject"}
AzureMissing(e)  == e.status = 404 \/ Code(e) \in {"BlobNotFound", "ContainerNotFound"}
GcsMissing(e)    == e.number = 404 \/ e.code \in {"404", "NOT_FOUND"}
OracleMissing(e) == e.status = 404 \/ Code(e) \in {"NotExists", "NotFound", "NoSuchObject"}
LocalMissing(e)  == e.code \in {"ENOENT", "ENAMETOOLONG"}

(***************************************************************************)
(* Requests.                                                               *)
(***************************************************************************)
Asking(d, op) == driver = d /\ read = op /\ answer = "none"

\* What the provider may refuse a request with now, beside what is not there;
\* only a call that passes its signal on can be aborted.
Refusals(others) ==
    others \cup (IF ~place THEN {"homeless"} ELSE IF source = None THEN {"missing"} ELSE {})

Remote == {"denied", "busy", "overloaded", "cut"}

\* A path that is no file may lead through one.
OnDisk == {"denied"} \cup (IF source = None THEN {"blocked"} ELSE {})

Answered(a, cause, d, s) ==
    /\ answer' = a /\ met' = cause /\ described' = d /\ stream' = s
    /\ UNCHANGED <<callVars, place, source, were, changes>>

Found == source # None

\* Where there is no file, there may be a directory; what access() and stat()
\* find is not asked which.
DirectoryFound(a, s) == place /\ ~Found /\ Answered(a, "directory", None, s)

Yes             == Found /\ Answered("true", "none", None, NoStream)
Describes       == Found /\ Answered("found", "none", source, NoStream)
Refused(c, a)   == Answered(a, c, None, NoStream)
Streamed(d)     == Found /\ Answered("found", "none", d, [state |-> "open", of |-> source])
StreamedLazily  == Found /\ Answered("found", "none", source, LazyStream)

(***************************************************************************)
(* exists(): false for what the driver takes for an absent object.         *)
(***************************************************************************)

\* (Faulty variant: any answer without an object is false.)
S3ExistsOrNot ==
    /\ Asking("s3", "exists")
    /\ Yes \/ \E c \in Refusals(Remote \cup {"aborted"}) : Refused(c, "false")

S3Exists ==
    /\ Asking("s3", "exists")
    /\ \/ Yes
       \/ \E c \in Refusals(Remote \cup {"aborted"}) :
             LET e == NativeError(c) IN Refused(c, IF e.status = 404 THEN "false" ELSE ClassOf(e))

MinioExists ==
    /\ Asking("minio", "exists")
    /\ \/ Yes
       \/ \E c \in Refusals(Remote) :
             LET e == NativeError(c) IN Refused(c, IF MinioMissing(e) THEN "false" ELSE ClassOf(e))

AzureExists ==
    /\ Asking("azure", "exists")
    /\ \/ Yes
       \/ \E c \in Refusals(Remote \cup {"aborted"}) :
             LET e == NativeError(c) IN Refused(c, IF AzureMissing(e) THEN "false" ELSE ClassOf(e))

\* The client's own exists() turns a 404 into false.
GcsExists ==
    /\ Asking("gcs", "exists")
    /\ \/ Yes
       \/ \E c \in Refusals(Remote) :
             LET e == NativeError(c) IN Refused(c, IF e.number = 404 THEN "false" ELSE ClassOf(e))

OracleExists ==
    /\ Asking("oracle", "exists")
    /\ \/ Yes
       \/ \E c \in Refusals(Remote) :
             LET e == NativeError(c) IN Refused(c, IF OracleMissing(e) THEN "false" ELSE ClassOf(e))

LocalExists ==
    /\ Asking("local", "exists")
    /\ \/ Yes
       \/ DirectoryFound("true", NoStream)
       \/ \E c \in Refusals(OnDisk) :
             LET e == NativeError(c) IN Refused(c, IF LocalMissing(e) THEN "false" ELSE ClassOf(e))

(***************************************************************************)
(* stat(): the metadata of the object of one request.                      *)
(***************************************************************************)
S3Stat ==
    /\ Asking("s3", "stat")
    /\ Describes \/ \E c \in Refusals(Remote \cup {"aborted"}) : Refused(c, ClassOf(NativeError(c)))

MinioStat ==
    /\ Asking("minio", "stat")
    /\ Describes \/ \E c \in Refusals(Remote) : Refused(c, ClassOf(NativeError(c)))

AzureStat ==
    /\ Asking("azure", "stat")
    /\ Describes \/ \E c \in Refusals(Remote \cup {"aborted"}) : Refused(c, ClassOf(NativeError(c)))

GcsStat ==
    /\ Asking("gcs", "stat")
    /\ \/ Describes
       \/ \E c \in Refusals(Remote) :
             LET e == NativeError(c) IN Refused(c, IF GcsMissing(e) THEN "notFound" ELSE ClassOf(e))

OracleStat ==
    /\ Asking("oracle", "stat")
    /\ Describes \/ \E c \in Refusals(Remote) : Refused(c, ClassOf(NativeError(c)))

LocalStat ==
    /\ Asking("local", "stat")
    /\ \/ Describes
       \/ DirectoryFound("found", NoStream)
       \/ \E c \in Refusals(OnDisk) : Refused(c, ClassOf(NativeError(c)))

(***************************************************************************)
(* download(): metadata, and a stream that is the body of the same answer  *)
(* or, for gcs and local, will be opened by a request of its own.          *)
(***************************************************************************)
S3Download ==
    /\ Asking("s3", "download")
    /\ \/ Streamed(source)
       \/ \E c \in Refusals(Remote \cup {"aborted"}) : Refused(c, ClassOf(NativeError(c)))

\* getObject() returns a stream and nothing else.
MinioDownload ==
    /\ Asking("minio", "download")
    /\ Streamed(None) \/ \E c \in Refusals(Remote) : Refused(c, ClassOf(NativeError(c)))

AzureDownload ==
    /\ Asking("azure", "download")
    /\ \/ Streamed(source)
       \/ \E c \in Refusals(Remote \cup {"aborted"}) : Refused(c, ClassOf(NativeError(c)))

GcsDownload ==
    /\ Asking("gcs", "download")
    /\ \/ StreamedLazily
       \/ \E c \in Refusals(Remote) :
             LET e == NativeError(c) IN Refused(c, IF GcsMissing(e) THEN "notFound" ELSE ClassOf(e))

OracleDownload ==
    /\ Asking("oracle", "download")
    /\ Streamed(source) \/ \E c \in Refusals(Remote) : Refused(c, ClassOf(NativeError(c)))

LocalDownload ==
    /\ Asking("local", "download")
    /\ \/ StreamedLazily
       \/ DirectoryFound("found", LazyStream)
       \/ \E c \in Refusals(OnDisk) : Refused(c, ClassOf(NativeError(c)))

Reading ==
    \/ S3Exists \/ MinioExists \/ AzureExists \/ GcsExists \/ OracleExists \/ LocalExists
    \/ S3Stat \/ MinioStat \/ AzureStat \/ GcsStat \/ OracleStat \/ LocalStat
    \/ S3Download \/ MinioDownload \/ AzureDownload \/ GcsDownload \/ OracleDownload \/ LocalDownload

\* A stream opened late is of the object that is there by then; that of a
\* directory only fails.
OpenStream ==
    /\ stream.state = "lazy" /\ Found /\ met # "directory"
    /\ stream' = [state |-> "open", of |-> source]
    /\ UNCHANGED <<callVars, place, source, answerVars, were, changes>>

SourceChanges ==
    /\ read # "none" /\ place /\ changes < MaxChanges
    /\ source' \in MaybeObject \ {source}
    /\ were' = were \cup {source'}
    /\ changes' = changes + 1
    /\ UNCHANGED <<callVars, place, answerVars, stream>>

(***************************************************************************)
(* Properties.                                                             *)
(***************************************************************************)
ReadTypeOK ==
    /\ driver \in Drivers \cup {None} /\ read \in Reads \cup {"none"}
    /\ place \in BOOLEAN /\ source \in MaybeObject
    /\ answer \in Answers /\ met \in Causes \cup {"none", "directory"}
    /\ described \in MaybeObject /\ stream \in Streams
    /\ were \in SUBSET MaybeObject /\ changes \in 0 .. MaxChanges

\* A caller told that there is no object (exists() is false, or the error is
\* StorageNotFoundError) was told so while there was none, or no bucket; only
\* Oracle, which does not tell the two apart, says it of an object that may not
\* be read.  What is found was there, as an object or, with local, also as a
\* directory.  And the class of an error is its cause, except that gcs, whose
\* client gives numbers that normalizeError() does not read, has no class for a
\* refusal, minio none for a missing bucket, local none for a key below a file,
\* and nobody for a provider that is overloaded.
AnswersAreTrue ==
    /\ answer \in {"false", "notFound"} =>
          None \in were \/ (driver = "oracle" /\ met = "denied")
    /\ answer \in {"true", "found"} =>
          \/ met = "none" /\ were # {None} /\ described \in were \cup {None}
          \/ met = "directory" /\ driver = "local" /\ None \in were /\ described = None
    /\ met = "denied" /\ driver \notin {"oracle", "gcs"} => answer = "permission"
    /\ met = "busy" /\ driver # "gcs" => answer = "quota"
    /\ met = "overloaded" => answer = "failed"
    /\ met = "blocked" => driver = "local" /\ answer = "failed"
    /\ met = "cut" => answer = "network"
    /\ met = "aborted" => answer = "aborted"
    /\ met \in {"missing", "homeless"} /\ ~(driver = "minio" /\ met = "homeless") =>
          answer \in {"false", "notFound"}
=============================================================================
