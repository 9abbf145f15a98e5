-------------------------- MODULE TransfersProofs --------------------------
(***************************************************************************)
(* What a read answers, what is stored of a body on its way, which streams *)
(* are released and what multer takes back, for objects of any length and  *)
(* any number of changes by others.                                        *)
(***************************************************************************)
EXTENDS Transfers, TLAPS

(***************************************************************************)
(* The classification of errors.                                           *)
(***************************************************************************)

\* The classes are tried in their order: the first that fits is the answer.
LEMMA FirstFitWins ==
    ASSUME NEW e
    PROVE  LET Fits(k) == e.status \in Classes[k].statuses \/ Code(e) \in Classes[k].codes
           IN  /\ (\A k \in 1 .. 6 : ~Fits(k)) => ClassOf(e) = "failed"
               /\ \A i \in 1 .. 6 :
                     Fits(i) /\ (\A j \in 1 .. 6 : Fits(j) => i <= j) =>
                        ClassOf(e) = Classes[i].class
<1> DEFINE Fits(k) == e.status \in Classes[k].statuses \/ Code(e) \in Classes[k].codes
           fits == {k \in 1 .. 6 : Fits(k)}
<1>1. DOMAIN Classes = 1 .. 6
  BY DEF Classes
<1>2. ClassOf(e) = IF fits = {} THEN "failed"
                   ELSE Classes[CHOOSE i \in fits : \A j \in fits : i <= j].class
  BY <1>1 DEF ClassOf
<1>3. ASSUME NEW i \in 1 .. 6, Fits(i), \A j \in 1 .. 6 : Fits(j) => i <= j
      PROVE  ClassOf(e) = Classes[i].class
  <2>1. i \in fits /\ \A j \in fits : i <= j
    BY <1>3
  <2>2. \A k \in fits : (\A j \in fits : k <= j) => k = i
    <3> SUFFICES ASSUME NEW k \in fits, \A j \in fits : k <= j PROVE k = i
      OBVIOUS
    <3>1. k <= i /\ i <= k /\ k \in Nat /\ i \in Nat
      BY <2>1
    <3> QED
      BY <3>1
  <2> HIDE DEF fits
  <2>3. (CHOOSE k \in fits : \A j \in fits : k <= j) = i
    BY <2>1, <2>2
  <2> QED
    BY <1>2, <2>1, <2>3
<1>4. (\A k \in 1 .. 6 : ~Fits(k)) => ClassOf(e) = "failed"
  BY <1>2
<1> QED
  BY <1>3, <1>4

\* normalizeError(), class by class, from the status and the code or name.
Classified(s, x) ==
    IF x = "AbortError" THEN "aborted"
    ELSE IF \/ s \in {404, 410}
            \/ x \in {"ENOENT", "NoSuchKey", "NotFound", "BlobNotFound", "ContainerNotFound"}
         THEN "notFound"
    ELSE IF \/ s \in {401, 403}
            \/ x \in {"EACCES", "AccessDenied", "AuthorizationFailure", "NotAuthorizedOrNotFound"}
         THEN "permission"
    ELSE IF s \in {409, 412} \/ x \in {"EEXIST", "PreconditionFailed"} THEN "conflict"
    ELSE IF s \in {429, 507} \/ x = "TooManyRequests" THEN "quota"
    ELSE IF x = "ECONNRESET" THEN "network"
    ELSE "failed"

\* ClassOf() chooses the class that the chain of conditions gives.
LEMMA ClassOfIs ==
    ASSUME NEW e, e.status \in Nat
    PROVE  ClassOf(e) = Classified(e.status, Code(e))
<1> DEFINE Fits(k) == e.status \in Classes[k].statuses \/ Code(e) \in Classes[k].codes
<1>2. /\ Fits(1) <=> Code(e) = "AbortError"
      /\ Fits(2) <=> \/ e.status \in {404, 410}
                     \/ Code(e) \in {"ENOENT", "NoSuchKey", "NotFound", "BlobNotFound",
                                     "ContainerNotFound"}
      /\ Fits(3) <=> \/ e.status \in {401, 403}
                     \/ Code(e) \in {"EACCES", "AccessDenied", "AuthorizationFailure",
                                     "NotAuthorizedOrNotFound"}
      /\ Fits(4) <=> e.status \in {409, 412} \/ Code(e) \in {"EEXIST", "PreconditionFailed"}
      /\ Fits(5) <=> e.status \in {429, 507} \/ Code(e) = "TooManyRequests"
      /\ Fits(6) <=> Code(e) = "ECONNRESET"
  BY DEF Classes
<1>3. /\ Classes[1].class = "aborted" /\ Classes[2].class = "notFound"
      /\ Classes[3].class = "permission" /\ Classes[4].class = "conflict"
      /\ Classes[5].class = "quota" /\ Classes[6].class = "network"
  BY DEF Classes
<1>4. /\ (\A k \in 1 .. 6 : ~Fits(k)) => ClassOf(e) = "failed"
      /\ \A i \in 1 .. 6 : Fits(i) /\ (\A j \in 1 .. 6 : Fits(j) => i <= j) =>
                              ClassOf(e) = Classes[i].class
  BY FirstFitWins
<1> HIDE DEF Fits
<1>6. 1 .. 6 = {1, 2, 3, 4, 5, 6}
  OBVIOUS
<1>7. \A k \in 1 .. 6 : Fits(k) /\ (\A j \in 1 .. 6 : j < k => ~Fits(j)) =>
                            ClassOf(e) = Classes[k].class
  <2> SUFFICES ASSUME NEW k \in 1 .. 6, Fits(k), \A j \in 1 .. 6 : j < k => ~Fits(j)
               PROVE  ClassOf(e) = Classes[k].class
    OBVIOUS
  <2>1. \A j \in 1 .. 6 : Fits(j) => k <= j
    OBVIOUS
  <2> QED
    BY <1>4, <2>1
<1>8. CASE Fits(1)
  <2>1. \A j \in 1 .. 6 : j < 1 => ~Fits(j)
    BY <1>6
  <2>2. ClassOf(e) = Classes[1].class
    BY <1>6, <1>7, <1>8, <2>1
  <2>3. ClassOf(e) = "aborted"
    BY <1>3, <2>2
  <2> QED
    BY <1>2, <1>8, <2>3 DEF Classified
<1>9. CASE ~Fits(1) /\ Fits(2)
  <2>1. \A j \in 1 .. 6 : j < 2 => ~Fits(j)
    BY <1>6, <1>9
  <2>2. ClassOf(e) = Classes[2].class
    BY <1>6, <1>7, <1>9, <2>1
  <2>3. ClassOf(e) = "notFound"
    BY <1>3, <2>2
  <2> QED
    BY <1>2, <1>9, <2>3 DEF Classified
<1>10. CASE ~Fits(1) /\ ~Fits(2) /\ Fits(3)
  <2>1. \A j \in 1 .. 6 : j < 3 => ~Fits(j)
    BY <1>6, <1>10
  <2>2. ClassOf(e) = Classes[3].class
    BY <1>6, <1>7, <1>10, <2>1
  <2>3. ClassOf(e) = "permission"
    BY <1>3, <2>2
  <2> QED
    BY <1>2, <1>10, <2>3 DEF Classified
<1>11. CASE ~Fits(1) /\ ~Fits(2) /\ ~Fits(3) /\ Fits(4)
  <2>1. \A j \in 1 .. 6 : j < 4 => ~Fits(j)
    BY <1>6, <1>11
  <2>2. ClassOf(e) = Classes[4].class
    BY <1>6, <1>7, <1>11, <2>1
  <2>3. ClassOf(e) = "conflict"
    BY <1>3, <2>2
  <2> QED
    BY <1>2, <1>11, <2>3 DEF Classified
<1>12. CASE ~Fits(1) /\ ~Fits(2) /\ ~Fits(3) /\ ~Fits(4) /\ Fits(5)
  <2>1. \A j \in 1 .. 6 : j < 5 => ~Fits(j)
    BY <1>6, <1>12
  <2>2. ClassOf(e) = Classes[5].class
    BY <1>6, <1>7, <1>12, <2>1
  <2>3. ClassOf(e) = "quota"
    BY <1>3, <2>2
  <2> QED
    BY <1>2, <1>12, <2>3 DEF Classified
<1>13. CASE ~Fits(1) /\ ~Fits(2) /\ ~Fits(3) /\ ~Fits(4) /\ ~Fits(5) /\ Fits(6)
  <2>1. \A j \in 1 .. 6 : j < 6 => ~Fits(j)
    BY <1>6, <1>13
  <2>2. ClassOf(e) = Classes[6].class
    BY <1>6, <1>7, <1>13, <2>1
  <2>3. ClassOf(e) = "network"
    BY <1>3, <2>2
  <2> QED
    BY <1>2, <1>13, <2>3 DEF Classified
<1>14. CASE ~Fits(1) /\ ~Fits(2) /\ ~Fits(3) /\ ~Fits(4) /\ ~Fits(5) /\ ~Fits(6)
  <2>1. \A k \in 1 .. 6 : ~Fits(k)
    BY <1>6, <1>14
  <2> QED
    BY <1>2, <1>4, <1>14, <2>1 DEF Classified
<1> QED
  BY <1>8, <1>9, <1>10, <1>11, <1>12, <1>13, <1>14

\* The classes of the native errors that occur.
LEMMA Classification ==
    /\ Classified(404, "NoSuchKey") = "notFound"
    /\ Classified(404, "NotFound") = "notFound"
    /\ Classified(404, "NoSuchBucket") = "notFound"
    /\ Classified(404, "BlobNotFound") = "notFound"
    /\ Classified(404, "ContainerNotFound") = "notFound"
    /\ Classified(404, "Error") = "notFound"
    /\ Classified(0, "ENOENT") = "notFound"
    /\ Classified(0, "NoSuchKey") = "notFound"
    /\ Classified(0, "NotFound") = "notFound"
    /\ Classified(403, "AccessDenied") = "permission"
    /\ Classified(403, "AuthorizationFailure") = "permission"
    /\ Classified(0, "EACCES") = "permission"
    /\ Classified(0, "AccessDenied") = "permission"
    /\ Classified(429, "TooManyRequests") = "quota"
    /\ Classified(429, "Error") = "quota"
    /\ Classified(0, "TooManyRequests") = "quota"
    /\ Classified(503, "SlowDown") = "failed"
    /\ Classified(503, "ServerBusy") = "failed"
    /\ Classified(503, "Error") = "failed"
    /\ Classified(0, "SlowDown") = "failed"
    /\ Classified(0, "ENOTDIR") = "failed"
    /\ Classified(0, "ECONNRESET") = "network"
    /\ Classified(0, "AbortError") = "aborted"
    /\ Classified(0, "Error") = "failed"
    /\ Classified(0, "NoSuchBucket") = "failed"
BY DEF Classified

\* What the code looks at of a native error: status, codes and the code or name.
IsSeenAs(e, s, n, d, x) ==
    e.status = s /\ e.number = n /\ e.code = d /\ Code(e) = x

\* The answer to a request for an object that is not there, as each driver sees it.
LEMMA MissingNative ==
    /\ driver = "s3" => IsSeenAs(NativeError("missing"), 404, 0,
          "none", IF read = "download" THEN "NoSuchKey" ELSE "NotFound")
    /\ driver = "minio" => IsSeenAs(NativeError("missing"), 0, 0,
          IF read = "download" THEN "NoSuchKey" ELSE "NotFound",
          IF read = "download" THEN "NoSuchKey" ELSE "NotFound")
    /\ driver = "azure" => IsSeenAs(NativeError("missing"), 404, 0,
          "BlobNotFound", "BlobNotFound")
    /\ driver = "gcs" => IsSeenAs(NativeError("missing"), 0, 404,
          "none", "Error")
    /\ driver = "oracle" => IsSeenAs(NativeError("missing"), 404, 0,
          "none", "Error")
    /\ driver = "local" => IsSeenAs(NativeError("missing"), 0, 0,
          "ENOENT", "ENOENT")
BY DEF NativeError, Native, Code, IsSeenAs

\* The answer of a provider that has no such bucket.
LEMMA HomelessNative ==
    /\ driver = "s3" => IsSeenAs(NativeError("homeless"), 404, 0,
          "none", IF read = "download" THEN "NoSuchBucket" ELSE "NotFound")
    /\ driver = "minio" => IsSeenAs(NativeError("homeless"), 0, 0,
          IF read = "download" THEN "NoSuchBucket" ELSE "NotFound",
          IF read = "download" THEN "NoSuchBucket" ELSE "NotFound")
    /\ driver = "azure" => IsSeenAs(NativeError("homeless"), 404, 0,
          "ContainerNotFound", "ContainerNotFound")
    /\ driver = "gcs" => IsSeenAs(NativeError("homeless"), 0, 404,
          "none", "Error")
    /\ driver = "oracle" => IsSeenAs(NativeError("homeless"), 404, 0,
          "none", "Error")
    /\ driver = "local" => IsSeenAs(NativeError("homeless"), 0, 0,
          "ENOENT", "ENOENT")
BY DEF NativeError, Native, Code, IsSeenAs

\* The answer of a provider that denies the caller the object.
LEMMA DeniedNative ==
    /\ driver = "s3" => IsSeenAs(NativeError("denied"), 403, 0,
          "none", "AccessDenied")
    /\ driver = "minio" => IsSeenAs(NativeError("denied"), 0, 0,
          "AccessDenied", "AccessDenied")
    /\ driver = "azure" => IsSeenAs(NativeError("denied"), 403, 0,
          "AuthorizationFailure", "AuthorizationFailure")
    /\ driver = "gcs" => IsSeenAs(NativeError("denied"), 0, 403,
          "none", "Error")
    /\ driver = "oracle" => IsSeenAs(NativeError("denied"), 404, 0,
          "none", "Error")
    /\ driver = "local" => IsSeenAs(NativeError("denied"), 0, 0,
          "EACCES", "EACCES")
BY DEF NativeError, Native, Code, IsSeenAs

\* The answer of a provider that is throttling; there is none of a file system.
LEMMA BusyNative ==
    /\ driver = "s3" => IsSeenAs(NativeError("busy"), 429, 0,
          "none", "TooManyRequests")
    /\ driver = "minio" => IsSeenAs(NativeError("busy"), 0, 0,
          "TooManyRequests", "TooManyRequests")
    /\ driver = "azure" => IsSeenAs(NativeError("busy"), 429, 0,
          "TooManyRequests", "TooManyRequests")
    /\ driver = "gcs" => IsSeenAs(NativeError("busy"), 0, 429,
          "none", "Error")
    /\ driver = "oracle" => IsSeenAs(NativeError("busy"), 429, 0,
          "none", "Error")
BY DEF NativeError, Native, Code, IsSeenAs

\* The answer of a provider that is overloaded, and a path through a file.
LEMMA OverloadedNative ==
    /\ driver = "s3" => IsSeenAs(NativeError("overloaded"), 503, 0,
          "none", "SlowDown")
    /\ driver = "minio" => IsSeenAs(NativeError("overloaded"), 0, 0,
          "SlowDown", "SlowDown")
    /\ driver = "azure" => IsSeenAs(NativeError("overloaded"), 503, 0,
          "ServerBusy", "ServerBusy")
    /\ driver = "gcs" => IsSeenAs(NativeError("overloaded"), 0, 503,
          "none", "Error")
    /\ driver = "oracle" => IsSeenAs(NativeError("overloaded"), 503, 0,
          "none", "Error")
BY DEF NativeError, Native, Code, IsSeenAs

LEMMA BlockedNative ==
    driver = "local" => IsSeenAs(NativeError("blocked"), 0, 0, "ENOTDIR", "ENOTDIR")
BY DEF NativeError, Native, Code, IsSeenAs

\* A connection that was reset and a request that was aborted look the same to all.
LEMMA LostNative ==
    /\ IsSeenAs(NativeError("cut"), 0, 0, "ECONNRESET", "ECONNRESET")
    /\ IsSeenAs(NativeError("aborted"), 0, 0, "none", "AbortError")
BY DEF NativeError, Native, Cut, Code, IsSeenAs

\* What a caller may be told of a request refused for c.
Told(c) ==
    IF c = "cut" THEN {"network"}
    ELSE IF c = "aborted" THEN {"aborted"}
    ELSE IF c = "busy" THEN {IF driver = "gcs" THEN "failed" ELSE "quota"}
    ELSE IF c \in {"overloaded", "blocked"} THEN {"failed"}
    ELSE IF c = "denied" /\ driver # "oracle"
         THEN {IF driver = "gcs" THEN "failed" ELSE "permission"}
    ELSE IF c = "homeless" /\ driver = "minio" /\ read = "download" THEN {"failed"}
    ELSE {"false", "notFound"}

\* Every driver's refusals are classified by their cause; gcs alone leaves what
\* is missing to a test of its own.
LEMMA ClassIsTold ==
    ASSUME NEW c \in Causes, driver \in DriverNames,
           driver = "gcs" => c \notin {"missing", "homeless"},
           driver = "local" => c \notin {"busy", "overloaded"},
           driver # "local" => c # "blocked"
    PROVE  ClassOf(NativeError(c)) \in Told(c)
<1> DEFINE e == NativeError(c)
<1>1. e.status \in Nat => ClassOf(e) = Classified(e.status, Code(e))
  BY ClassOfIs
<1> HIDE DEF e
<1> SUFFICES ClassOf(e) \in Told(c)
  BY DEF e
<1>2. CASE c = "missing"
  <2>1. CASE driver = "s3"
    BY <1>2, <2>1, <1>1, MissingNative, Classification DEF IsSeenAs, Told, e
  <2>2. CASE driver = "minio"
    BY <1>2, <2>2, <1>1, MissingNative, Classification DEF IsSeenAs, Told, e
  <2>3. CASE driver = "azure"
    BY <1>2, <2>3, <1>1, MissingNative, Classification DEF IsSeenAs, Told, e
  <2>4. CASE driver = "oracle"
    BY <1>2, <2>4, <1>1, MissingNative, Classification DEF IsSeenAs, Told, e
  <2>5. CASE driver = "local"
    BY <1>2, <2>5, <1>1, MissingNative, Classification DEF IsSeenAs, Told, e
  <2> QED
    BY <1>2, <2>1, <2>2, <2>3, <2>4, <2>5 DEF DriverNames
<1>3. CASE c = "homeless"
  <2>1. CASE driver = "s3"
    BY <1>3, <2>1, <1>1, HomelessNative, Classification DEF IsSeenAs, Told, e
  <2>2. CASE driver = "minio"
    BY <1>3, <2>2, <1>1, HomelessNative, Classification DEF IsSeenAs, Told, e
  <2>3. CASE driver = "azure"
    BY <1>3, <2>3, <1>1, HomelessNative, Classification DEF IsSeenAs, Told, e
  <2>4. CASE driver = "oracle"
    BY <1>3, <2>4, <1>1, HomelessNative, Classification DEF IsSeenAs, Told, e
  <2>5. CASE driver = "local"
    BY <1>3, <2>5, <1>1, HomelessNative, Classification DEF IsSeenAs, Told, e
  <2> QED
    BY <1>3, <2>1, <2>2, <2>3, <2>4, <2>5 DEF DriverNames
<1>4. CASE c = "denied"
  <2>1. CASE driver = "s3"
    BY <1>4, <2>1, <1>1, DeniedNative, Classification DEF IsSeenAs, Told, e
  <2>2. CASE driver = "minio"
    BY <1>4, <2>2, <1>1, DeniedNative, Classification DEF IsSeenAs, Told, e
  <2>3. CASE driver = "azure"
    BY <1>4, <2>3, <1>1, DeniedNative, Classification DEF IsSeenAs, Told, e
  <2>4. CASE driver = "gcs"
    BY <1>4, <2>4, <1>1, DeniedNative, Classification DEF IsSeenAs, Told, e
  <2>5. CASE driver = "oracle"
    BY <1>4, <2>5, <1>1, DeniedNative, Classification DEF IsSeenAs, Told, e
  <2>6. CASE driver = "local"
    BY <1>4, <2>6, <1>1, DeniedNative, Classification DEF IsSeenAs, Told, e
  <2> QED
    BY <1>4, <2>1, <2>2, <2>3, <2>4, <2>5, <2>6 DEF DriverNames
<1>5. CASE c = "busy"
  <2>1. CASE driver = "s3"
    BY <1>5, <2>1, <1>1, BusyNative, Classification DEF IsSeenAs, Told, e
  <2>2. CASE driver = "minio"
    BY <1>5, <2>2, <1>1, BusyNative, Classification DEF IsSeenAs, Told, e
  <2>3. CASE driver = "azure"
    BY <1>5, <2>3, <1>1, BusyNative, Classification DEF IsSeenAs, Told, e
  <2>4. CASE driver = "gcs"
    BY <1>5, <2>4, <1>1, BusyNative, Classification DEF IsSeenAs, Told, e
  <2>5. CASE driver = "oracle"
    BY <1>5, <2>5, <1>1, BusyNative, Classification DEF IsSeenAs, Told, e
  <2> QED
    BY <1>5, <2>1, <2>2, <2>3, <2>4, <2>5 DEF DriverNames
<1>6. CASE c = "cut"
  BY <1>6, <1>1, LostNative, Classification DEF IsSeenAs, Told, e
<1>7. CASE c = "aborted"
  BY <1>7, <1>1, LostNative, Classification DEF IsSeenAs, Told, e
<1>8. CASE c = "overloaded"
  <2>1. CASE driver = "s3"
    BY <1>8, <2>1, <1>1, OverloadedNative, Classification DEF IsSeenAs, Told, e
  <2>2. CASE driver = "minio"
    BY <1>8, <2>2, <1>1, OverloadedNative, Classification DEF IsSeenAs, Told, e
  <2>3. CASE driver = "azure"
    BY <1>8, <2>3, <1>1, OverloadedNative, Classification DEF IsSeenAs, Told, e
  <2>4. CASE driver = "gcs"
    BY <1>8, <2>4, <1>1, OverloadedNative, Classification DEF IsSeenAs, Told, e
  <2>5. CASE driver = "oracle"
    BY <1>8, <2>5, <1>1, OverloadedNative, Classification DEF IsSeenAs, Told, e
  <2> QED
    BY <1>8, <2>1, <2>2, <2>3, <2>4, <2>5 DEF DriverNames
<1>9. CASE c = "blocked"
  BY <1>9, <1>1, BlockedNative, Classification DEF IsSeenAs, Told, e
<1> QED
  BY <1>2, <1>3, <1>4, <1>5, <1>6, <1>7, <1>8, <1>9 DEF Causes

\* The answer of exists(), stat() or download(), as far as the properties care:
\* what is found, an object or a directory, or what is told of a refusal.
FoundOut ==
    /\ Found /\ met' = "none" /\ answer' \in {"true", "found"}
    /\ answer' = "true" => described' = None
    /\ described' \in {source, None}
    /\ stream' = NoStream \/ (read = "download" /\ answer' = "found" /\
          stream' = IF driver \in Lazy THEN LazyStream ELSE [state |-> "open", of |-> source])

DirectoryOut ==
    /\ driver = "local" /\ source = None /\ met' = "directory"
    /\ answer' \in {"true", "found"} /\ described' = None
    /\ stream' = NoStream \/ (read = "download" /\ answer' = "found" /\ stream' = LazyStream)

AnyRefusal == Remote \cup {"blocked", "aborted"}

RefusedFor(c) ==
    /\ c = "blocked" => driver = "local"
    /\ met' = c /\ answer' \in Told(c)
    /\ described' = None /\ stream' = NoStream

ReadOutcome ==
    /\ answer = "none" /\ UNCHANGED <<driver, read, place, source, were, changes>>
    /\ FoundOut \/ DirectoryOut \/ \E c \in Refusals(AnyRefusal) : RefusedFor(c)

\* Only what the driver asks of a provider is refused, and only for a cause.
LEMMA RefusalsAreCauses ==
    ASSUME NEW s \in SUBSET AnyRefusal, NEW c \in Refusals(s)
    PROVE  /\ c \in Refusals(AnyRefusal) /\ c \in Causes
           /\ c \in s \cup {"missing", "homeless"}
BY DEF Refusals, AnyRefusal, Remote, Causes

\* What a driver takes for an absent object may be told so; and gcs takes for
\* one whatever its provider does not find.
LEMMA AbsentIsTold ==
    ASSUME NEW c \in Causes, driver = "local" => c \notin {"busy", "overloaded"},
           driver # "local" => c # "blocked"
    PROVE  LET e == NativeError(c)
           IN  /\ driver = "s3" /\ e.status = 404 => "false" \in Told(c)
               /\ driver = "minio" /\ read # "download" /\ MinioMissing(e) => "false" \in Told(c)
               /\ driver = "azure" /\ AzureMissing(e) => "false" \in Told(c)
               /\ driver = "gcs" /\ GcsMissing(e) => {"false", "notFound"} \subseteq Told(c)
               /\ driver = "gcs" /\ c \in {"missing", "homeless"} => e.number = 404
               /\ driver = "oracle" /\ OracleMissing(e) => "false" \in Told(c)
               /\ driver = "local" /\ LocalMissing(e) => "false" \in Told(c)
<1> DEFINE e == NativeError(c)
<1> HIDE DEF e
<1>1. driver = "s3" /\ e.status = 404 => "false" \in Told(c)
  BY MissingNative, HomelessNative, DeniedNative, BusyNative, OverloadedNative,
     BlockedNative, LostNative
     DEF IsSeenAs, Told, Causes, e
<1>2. driver = "minio" /\ read # "download" /\ MinioMissing(e) => "false" \in Told(c)
  BY MissingNative, HomelessNative, DeniedNative, BusyNative, OverloadedNative,
     BlockedNative, LostNative
     DEF MinioMissing, IsSeenAs, Told, Causes, e
<1>3. driver = "azure" /\ AzureMissing(e) => "false" \in Told(c)
  BY MissingNative, HomelessNative, DeniedNative, BusyNative, OverloadedNative,
     BlockedNative, LostNative
     DEF AzureMissing, IsSeenAs, Told, Causes, e
<1>4. driver = "gcs" /\ GcsMissing(e) => {"false", "notFound"} \subseteq Told(c)
  BY MissingNative, HomelessNative, DeniedNative, BusyNative, OverloadedNative,
     BlockedNative, LostNative
     DEF GcsMissing, IsSeenAs, Told, Causes, e
<1>5. driver = "oracle" /\ OracleMissing(e) => "false" \in Told(c)
  BY MissingNative, HomelessNative, DeniedNative, BusyNative, OverloadedNative,
     BlockedNative, LostNative
     DEF OracleMissing, IsSeenAs, Told, Causes, e
<1>6. driver = "local" /\ LocalMissing(e) => "false" \in Told(c)
  BY MissingNative, HomelessNative, DeniedNative, BusyNative, OverloadedNative,
     BlockedNative, LostNative
     DEF LocalMissing, IsSeenAs, Told, Causes, e
<1>7. driver = "gcs" /\ c \in {"missing", "homeless"} => e.number = 404
  BY MissingNative, HomelessNative DEF IsSeenAs, e
<1> QED
  BY <1>1, <1>2, <1>3, <1>4, <1>5, <1>6, <1>7 DEF e

\* A refusal that is told truly is an outcome of the call.
LEMMA RefusedOutcome ==
    ASSUME answer = "none",
           NEW s \in SUBSET AnyRefusal, NEW c \in Refusals(s), c = "blocked" => driver = "local",
           NEW a \in Told(c), Refused(c, a)
    PROVE  ReadOutcome
BY RefusalsAreCauses DEF Refused, Answered, RefusedFor, ReadOutcome, callVars

\* So is what is found.
LEMMA FoundOutcome ==
    ASSUME answer = "none",
           \/ Yes \/ Describes
           \/ read = "download" /\ driver \notin Lazy /\ (Streamed(source) \/ Streamed(None))
           \/ read = "download" /\ driver \in Lazy /\ StreamedLazily
    PROVE  ReadOutcome
BY DEF Yes, Describes, Streamed, StreamedLazily, Answered, FoundOut, ReadOutcome, callVars

\* Or a directory.
LEMMA DirectoryOutcome ==
    ASSUME answer = "none", driver = "local",
           \/ DirectoryFound("true", NoStream) \/ DirectoryFound("found", NoStream)
           \/ read = "download" /\ DirectoryFound("found", LazyStream)
    PROVE  ReadOutcome
BY DEF DirectoryFound, Found, Answered, DirectoryOut, ReadOutcome, callVars

\* exists() answers true of what is there, false only of what may be absent.
LEMMA ExistsOutcome ==
    ASSUME S3Exists \/ MinioExists \/ AzureExists \/ GcsExists \/ OracleExists \/ LocalExists
    PROVE  ReadOutcome
<1>1. CASE S3Exists
  <2>1. Asking("s3", "exists")
    BY <1>1 DEF S3Exists
  <2>2. CASE Yes
    BY <2>1, <2>2, FoundOutcome DEF Asking, Lazy
  <2>3. CASE \E c \in Refusals(Remote \cup {"aborted"}) :
                Refused(c, IF NativeError(c).status = 404 THEN "false" ELSE ClassOf(NativeError(c)))
    <3>1. PICK c \in Refusals(Remote \cup {"aborted"}) :
                  Refused(c, IF NativeError(c).status = 404 THEN "false" ELSE ClassOf(NativeError(c)))
      BY <2>3
    <3>2. c \in Causes /\ c \in (Remote \cup {"aborted"}) \cup {"missing", "homeless"}
      BY <3>1, RefusalsAreCauses DEF Remote, AnyRefusal, OnDisk
    <3> DEFINE a == IF NativeError(c).status = 404 THEN "false" ELSE ClassOf(NativeError(c))
    <3>3. ASSUME NativeError(c).status = 404 PROVE a \in Told(c)
      <4>1. a = "false" /\ "false" \in Told(c)
        BY <2>1, <3>2, <3>3, AbsentIsTold DEF Asking, DriverNames, Remote, OnDisk
      <4> HIDE DEF a
      <4> QED
        BY <4>1
    <3>4. ASSUME ~(NativeError(c).status = 404) PROVE a \in Told(c)
      <4>1. a = ClassOf(NativeError(c)) /\ ClassOf(NativeError(c)) \in Told(c)
        BY <2>1, <3>2, <3>4, AbsentIsTold, ClassIsTold DEF Asking, DriverNames, Remote, OnDisk
      <4> HIDE DEF a
      <4> QED
        BY <4>1
    <3>5. Refused(c, a) /\ a \in Told(c)
      BY <3>1, <3>3, <3>4
    <3> HIDE DEF a
    <3> QED
      BY <2>1, <3>1, <3>2, <3>5, RefusedOutcome DEF Asking, Remote, AnyRefusal, OnDisk
  <2> QED
    BY <1>1, <2>2, <2>3 DEF S3Exists
<1>2. CASE MinioExists
  <2>1. Asking("minio", "exists")
    BY <1>2 DEF MinioExists
  <2>2. CASE Yes
    BY <2>1, <2>2, FoundOutcome DEF Asking, Lazy
  <2>3. CASE \E c \in Refusals(Remote) :
                Refused(c, IF MinioMissing(NativeError(c)) THEN "false" ELSE ClassOf(NativeError(c)))
    <3>1. PICK c \in Refusals(Remote) :
                  Refused(c, IF MinioMissing(NativeError(c)) THEN "false" ELSE ClassOf(NativeError(c)))
      BY <2>3
    <3>2. c \in Causes /\ c \in (Remote) \cup {"missing", "homeless"}
      BY <3>1, RefusalsAreCauses DEF Remote, AnyRefusal, OnDisk
    <3> DEFINE a == IF MinioMissing(NativeError(c)) THEN "false" ELSE ClassOf(NativeError(c))
    <3>3. ASSUME MinioMissing(NativeError(c)) PROVE a \in Told(c)
      <4>1. a = "false" /\ "false" \in Told(c)
        BY <2>1, <3>2, <3>3, AbsentIsTold DEF Asking, DriverNames, Remote, OnDisk
      <4> HIDE DEF a
      <4> QED
        BY <4>1
    <3>4. ASSUME ~(MinioMissing(NativeError(c))) PROVE a \in Told(c)
      <4>1. a = ClassOf(NativeError(c)) /\ ClassOf(NativeError(c)) \in Told(c)
        BY <2>1, <3>2, <3>4, AbsentIsTold, ClassIsTold DEF Asking, DriverNames, Remote, OnDisk
      <4> HIDE DEF a
      <4> QED
        BY <4>1
    <3>5. Refused(c, a) /\ a \in Told(c)
      BY <3>1, <3>3, <3>4
    <3> HIDE DEF a
    <3> QED
      BY <2>1, <3>1, <3>2, <3>5, RefusedOutcome DEF Asking, Remote, AnyRefusal, OnDisk
  <2> QED
    BY <1>2, <2>2, <2>3 DEF MinioExists
<1>3. CASE AzureExists
  <2>1. Asking("azure", "exists")
    BY <1>3 DEF AzureExists
  <2>2. CASE Yes
    BY <2>1, <2>2, FoundOutcome DEF Asking, Lazy
  <2>3. CASE \E c \in Refusals(Remote \cup {"aborted"}) :
                Refused(c, IF AzureMissing(NativeError(c)) THEN "false" ELSE ClassOf(NativeError(c)))
    <3>1. PICK c \in Refusals(Remote \cup {"aborted"}) :
                  Refused(c, IF AzureMissing(NativeError(c)) THEN "false" ELSE ClassOf(NativeError(c)))
      BY <2>3
    <3>2. c \in Causes /\ c \in (Remote \cup {"aborted"}) \cup {"missing", "homeless"}
      BY <3>1, RefusalsAreCauses DEF Remote, AnyRefusal, OnDisk
    <3> DEFINE a == IF AzureMissing(NativeError(c)) THEN "false" ELSE ClassOf(NativeError(c))
    <3>3. ASSUME AzureMissing(NativeError(c)) PROVE a \in Told(c)
      <4>1. a = "false" /\ "false" \in Told(c)
        BY <2>1, <3>2, <3>3, AbsentIsTold DEF Asking, DriverNames, Remote, OnDisk
      <4> HIDE DEF a
      <4> QED
        BY <4>1
    <3>4. ASSUME ~(AzureMissing(NativeError(c))) PROVE a \in Told(c)
      <4>1. a = ClassOf(NativeError(c)) /\ ClassOf(NativeError(c)) \in Told(c)
        BY <2>1, <3>2, <3>4, AbsentIsTold, ClassIsTold DEF Asking, DriverNames, Remote, OnDisk
      <4> HIDE DEF a
      <4> QED
        BY <4>1
    <3>5. Refused(c, a) /\ a \in Told(c)
      BY <3>1, <3>3, <3>4
    <3> HIDE DEF a
    <3> QED
      BY <2>1, <3>1, <3>2, <3>5, RefusedOutcome DEF Asking, Remote, AnyRefusal, OnDisk
  <2> QED
    BY <1>3, <2>2, <2>3 DEF AzureExists
<1>4. CASE GcsExists
  <2>1. Asking("gcs", "exists")
    BY <1>4 DEF GcsExists
  <2>2. CASE Yes
    BY <2>1, <2>2, FoundOutcome DEF Asking, Lazy
  <2>3. CASE \E c \in Refusals(Remote) :
                Refused(c, IF NativeError(c).number = 404 THEN "false" ELSE ClassOf(NativeError(c)))
    <3>1. PICK c \in Refusals(Remote) :
                  Refused(c, IF NativeError(c).number = 404 THEN "false" ELSE ClassOf(NativeError(c)))
      BY <2>3
    <3>2. c \in Causes /\ c \in (Remote) \cup {"missing", "homeless"}
      BY <3>1, RefusalsAreCauses DEF Remote, AnyRefusal, OnDisk
    <3> DEFINE a == IF NativeError(c).number = 404 THEN "false" ELSE ClassOf(NativeError(c))
    <3>3. ASSUME NativeError(c).number = 404 PROVE a \in Told(c)
      <4>1. a = "false" /\ "false" \in Told(c)
        BY <2>1, <3>2, <3>3, AbsentIsTold DEF Asking, GcsMissing, DriverNames, Remote, OnDisk
      <4> HIDE DEF a
      <4> QED
        BY <4>1
    <3>4. ASSUME ~(NativeError(c).number = 404) PROVE a \in Told(c)
      <4>1. a = ClassOf(NativeError(c)) /\ ClassOf(NativeError(c)) \in Told(c)
        BY <2>1, <3>2, <3>4, AbsentIsTold, ClassIsTold
           DEF Asking, GcsMissing, DriverNames, Remote, OnDisk
      <4> HIDE DEF a
      <4> QED
        BY <4>1
    <3>5. Refused(c, a) /\ a \in Told(c)
      BY <3>1, <3>3, <3>4
    <3> HIDE DEF a
    <3> QED
      BY <2>1, <3>1, <3>2, <3>5, RefusedOutcome DEF Asking, Remote, AnyRefusal, OnDisk
  <2> QED
    BY <1>4, <2>2, <2>3 DEF GcsExists
<1>5. CASE OracleExists
  <2>1. Asking("oracle", "exists")
    BY <1>5 DEF OracleExists
  <2>2. CASE Yes
    BY <2>1, <2>2, FoundOutcome DEF Asking, Lazy
  <2>3. CASE \E c \in Refusals(Remote) :
                Refused(c, IF OracleMissing(NativeError(c)) THEN "false" ELSE ClassOf(NativeError(c)))
    <3>1. PICK c \in Refusals(Remote) :
                  Refused(c, IF OracleMissing(NativeError(c)) THEN "false" ELSE ClassOf(NativeError(c)))
      BY <2>3
    <3>2. c \in Causes /\ c \in (Remote) \cup {"missing", "homeless"}
      BY <3>1, RefusalsAreCauses DEF Remote, AnyRefusal, OnDisk
    <3> DEFINE a == IF OracleMissing(NativeError(c)) THEN "false" ELSE ClassOf(NativeError(c))
    <3>3. ASSUME OracleMissing(NativeError(c)) PROVE a \in Told(c)
      <4>1. a = "false" /\ "false" \in Told(c)
        BY <2>1, <3>2, <3>3, AbsentIsTold DEF Asking, DriverNames, Remote, OnDisk
      <4> HIDE DEF a
      <4> QED
        BY <4>1
    <3>4. ASSUME ~(OracleMissing(NativeError(c))) PROVE a \in Told(c)
      <4>1. a = ClassOf(NativeError(c)) /\ ClassOf(NativeError(c)) \in Told(c)
        BY <2>1, <3>2, <3>4, AbsentIsTold, ClassIsTold DEF Asking, DriverNames, Remote, OnDisk
      <4> HIDE DEF a
      <4> QED
        BY <4>1
    <3>5. Refused(c, a) /\ a \in Told(c)
      BY <3>1, <3>3, <3>4
    <3> HIDE DEF a
    <3> QED
      BY <2>1, <3>1, <3>2, <3>5, RefusedOutcome DEF Asking, Remote, AnyRefusal, OnDisk
  <2> QED
    BY <1>5, <2>2, <2>3 DEF OracleExists
<1>6. CASE LocalExists
  <2>1. Asking("local", "exists")
    BY <1>6 DEF LocalExists
  <2>2. CASE Yes
    BY <2>1, <2>2, FoundOutcome DEF Asking, Lazy
  <2>3. CASE \E c \in Refusals(OnDisk) :
                Refused(c, IF LocalMissing(NativeError(c)) THEN "false" ELSE ClassOf(NativeError(c)))
    <3>1. PICK c \in Refusals(OnDisk) :
                  Refused(c, IF LocalMissing(NativeError(c)) THEN "false" ELSE ClassOf(NativeError(c)))
      BY <2>3
    <3>2. c \in Causes /\ c \in OnDisk \cup {"missing", "homeless"}
      BY <3>1, RefusalsAreCauses DEF Remote, AnyRefusal, OnDisk
    <3> DEFINE a == IF LocalMissing(NativeError(c)) THEN "false" ELSE ClassOf(NativeError(c))
    <3>3. ASSUME LocalMissing(NativeError(c)) PROVE a \in Told(c)
      <4>1. a = "false" /\ "false" \in Told(c)
        BY <2>1, <3>2, <3>3, AbsentIsTold DEF Asking, DriverNames, Remote, OnDisk
      <4> HIDE DEF a
      <4> QED
        BY <4>1
    <3>4. ASSUME ~(LocalMissing(NativeError(c))) PROVE a \in Told(c)
      <4>1. a = ClassOf(NativeError(c)) /\ ClassOf(NativeError(c)) \in Told(c)
        BY <2>1, <3>2, <3>4, AbsentIsTold, ClassIsTold DEF Asking, DriverNames, Remote, OnDisk
      <4> HIDE DEF a
      <4> QED
        BY <4>1
    <3>5. Refused(c, a) /\ a \in Told(c)
      BY <3>1, <3>3, <3>4
    <3> HIDE DEF a
    <3> QED
      BY <2>1, <3>1, <3>2, <3>5, RefusedOutcome DEF Asking, Remote, AnyRefusal, OnDisk
  <2>4. CASE DirectoryFound("true", NoStream)
    BY <2>1, <2>4, DirectoryOutcome DEF Asking
  <2> QED
    BY <1>6, <2>2, <2>3, <2>4 DEF LocalExists
<1> QED
  BY <1>1, <1>2, <1>3, <1>4, <1>5, <1>6

\* stat() describes what is there, or is told why not.
LEMMA StatOutcome ==
    ASSUME S3Stat \/ MinioStat \/ AzureStat \/ GcsStat \/ OracleStat \/ LocalStat
    PROVE  ReadOutcome
<1>1. CASE S3Stat
  <2>1. Asking("s3", "stat")
    BY <1>1 DEF S3Stat
  <2>2. CASE Describes
    BY <2>1, <2>2, FoundOutcome DEF Asking, Lazy
  <2>3. CASE \E c \in Refusals(Remote \cup {"aborted"}) : Refused(c, ClassOf(NativeError(c)))
    <3>1. PICK c \in Refusals(Remote \cup {"aborted"}) : Refused(c, ClassOf(NativeError(c)))
      BY <2>3
    <3>2. c \in Causes /\ c \in (Remote \cup {"aborted"}) \cup {"missing", "homeless"}
      BY <3>1, RefusalsAreCauses DEF Remote, AnyRefusal, OnDisk
    <3>3. ClassOf(NativeError(c)) \in Told(c)
      BY <2>1, <3>2, AbsentIsTold, ClassIsTold DEF Asking, DriverNames, Remote, OnDisk
    <3> QED
      BY <2>1, <3>1, <3>2, <3>3, RefusedOutcome DEF Asking, Remote, AnyRefusal, OnDisk
  <2> QED
    BY <1>1, <2>2, <2>3 DEF S3Stat
<1>2. CASE MinioStat
  <2>1. Asking("minio", "stat")
    BY <1>2 DEF MinioStat
  <2>2. CASE Describes
    BY <2>1, <2>2, FoundOutcome DEF Asking, Lazy
  <2>3. CASE \E c \in Refusals(Remote) : Refused(c, ClassOf(NativeError(c)))
    <3>1. PICK c \in Refusals(Remote) : Refused(c, ClassOf(NativeError(c)))
      BY <2>3
    <3>2. c \in Causes /\ c \in (Remote) \cup {"missing", "homeless"}
      BY <3>1, RefusalsAreCauses DEF Remote, AnyRefusal, OnDisk
    <3>3. ClassOf(NativeError(c)) \in Told(c)
      BY <2>1, <3>2, AbsentIsTold, ClassIsTold DEF Asking, DriverNames, Remote, OnDisk
    <3> QED
      BY <2>1, <3>1, <3>2, <3>3, RefusedOutcome DEF Asking, Remote, AnyRefusal, OnDisk
  <2> QED
    BY <1>2, <2>2, <2>3 DEF MinioStat
<1>3. CASE AzureStat
  <2>1. Asking("azure", "stat")
    BY <1>3 DEF AzureStat
  <2>2. CASE Describes
    BY <2>1, <2>2, FoundOutcome DEF Asking, Lazy
  <2>3. CASE \E c \in Refusals(Remote \cup {"aborted"}) : Refused(c, ClassOf(NativeError(c)))
    <3>1. PICK c \in Refusals(Remote \cup {"aborted"}) : Refused(c, ClassOf(NativeError(c)))
      BY <2>3
    <3>2. c \in Causes /\ c \in (Remote \cup {"aborted"}) \cup {"missing", "homeless"}
      BY <3>1, RefusalsAreCauses DEF Remote, AnyRefusal, OnDisk
    <3>3. ClassOf(NativeError(c)) \in Told(c)
      BY <2>1, <3>2, AbsentIsTold, ClassIsTold DEF Asking, DriverNames, Remote, OnDisk
    <3> QED
      BY <2>1, <3>1, <3>2, <3>3, RefusedOutcome DEF Asking, Remote, AnyRefusal, OnDisk
  <2> QED
    BY <1>3, <2>2, <2>3 DEF AzureStat
<1>4. CASE GcsStat
  <2>1. Asking("gcs", "stat")
    BY <1>4 DEF GcsStat
  <2>2. CASE Describes
    BY <2>1, <2>2, FoundOutcome DEF Asking, Lazy
  <2>3. CASE \E c \in Refusals(Remote) :
                Refused(c, IF GcsMissing(NativeError(c)) THEN "notFound" ELSE ClassOf(NativeError(c)))
    <3>1. PICK c \in Refusals(Remote) :
                  Refused(c, IF GcsMissing(NativeError(c)) THEN "notFound" ELSE ClassOf(NativeError(c)))
      BY <2>3
    <3>2. c \in Causes /\ c \in (Remote) \cup {"missing", "homeless"}
      BY <3>1, RefusalsAreCauses DEF Remote, AnyRefusal, OnDisk
    <3> DEFINE a == IF GcsMissing(NativeError(c)) THEN "notFound" ELSE ClassOf(NativeError(c))
    <3>3. ASSUME GcsMissing(NativeError(c)) PROVE a \in Told(c)
      <4>1. a = "notFound" /\ "notFound" \in Told(c)
        BY <2>1, <3>2, <3>3, AbsentIsTold DEF Asking, GcsMissing, DriverNames, Remote, OnDisk
      <4> HIDE DEF a
      <4> QED
        BY <4>1
    <3>4. ASSUME ~(GcsMissing(NativeError(c))) PROVE a \in Told(c)
      <4>1. a = ClassOf(NativeError(c)) /\ ClassOf(NativeError(c)) \in Told(c)
        BY <2>1, <3>2, <3>4, AbsentIsTold, ClassIsTold
           DEF Asking, GcsMissing, DriverNames, Remote, OnDisk
      <4> HIDE DEF a
      <4> QED
        BY <4>1
    <3>5. Refused(c, a) /\ a \in Told(c)
      BY <3>1, <3>3, <3>4
    <3> HIDE DEF a
    <3> QED
      BY <2>1, <3>1, <3>2, <3>5, RefusedOutcome DEF Asking, Remote, AnyRefusal, OnDisk
  <2> QED
    BY <1>4, <2>2, <2>3 DEF GcsStat
<1>5. CASE OracleStat
  <2>1. Asking("oracle", "stat")
    BY <1>5 DEF OracleStat
  <2>2. CASE Describes
    BY <2>1, <2>2, FoundOutcome DEF Asking, Lazy
  <2>3. CASE \E c \in Refusals(Remote) : Refused(c, ClassOf(NativeError(c)))
    <3>1. PICK c \in Refusals(Remote) : Refused(c, ClassOf(NativeError(c)))
      BY <2>3
    <3>2. c \in Causes /\ c \in (Remote) \cup {"missing", "homeless"}
      BY <3>1, RefusalsAreCauses DEF Remote, AnyRefusal, OnDisk
    <3>3. ClassOf(NativeError(c)) \in Told(c)
      BY <2>1, <3>2, AbsentIsTold, ClassIsTold DEF Asking, DriverNames, Remote, OnDisk
    <3> QED
      BY <2>1, <3>1, <3>2, <3>3, RefusedOutcome DEF Asking, Remote, AnyRefusal, OnDisk
  <2> QED
    BY <1>5, <2>2, <2>3 DEF OracleStat
<1>6. CASE LocalStat
  <2>1. Asking("local", "stat")
    BY <1>6 DEF LocalStat
  <2>2. CASE Describes
    BY <2>1, <2>2, FoundOutcome DEF Asking, Lazy
  <2>3. CASE \E c \in Refusals(OnDisk) : Refused(c, ClassOf(NativeError(c)))
    <3>1. PICK c \in Refusals(OnDisk) : Refused(c, ClassOf(NativeError(c)))
      BY <2>3
    <3>2. c \in Causes /\ c \in OnDisk \cup {"missing", "homeless"}
      BY <3>1, RefusalsAreCauses DEF Remote, AnyRefusal, OnDisk
    <3>3. ClassOf(NativeError(c)) \in Told(c)
      BY <2>1, <3>2, AbsentIsTold, ClassIsTold DEF Asking, DriverNames, Remote, OnDisk
    <3> QED
      BY <2>1, <3>1, <3>2, <3>3, RefusedOutcome DEF Asking, Remote, AnyRefusal, OnDisk
  <2>4. CASE DirectoryFound("found", NoStream)
    BY <2>1, <2>4, DirectoryOutcome DEF Asking
  <2> QED
    BY <1>6, <2>2, <2>3, <2>4 DEF LocalStat
<1> QED
  BY <1>1, <1>2, <1>3, <1>4, <1>5, <1>6

\* download() gives the stream of what is there, or is told why not.
LEMMA DownloadOutcome ==
    ASSUME S3Download \/ MinioDownload \/ AzureDownload \/ GcsDownload \/ OracleDownload \/ LocalDownload
    PROVE  ReadOutcome
<1>1. CASE S3Download
  <2>1. Asking("s3", "download")
    BY <1>1 DEF S3Download
  <2>2. CASE Streamed(source)
    BY <2>1, <2>2, FoundOutcome DEF Asking, Lazy
  <2>3. CASE \E c \in Refusals(Remote \cup {"aborted"}) : Refused(c, ClassOf(NativeError(c)))
    <3>1. PICK c \in Refusals(Remote \cup {"aborted"}) : Refused(c, ClassOf(NativeError(c)))
      BY <2>3
    <3>2. c \in Causes /\ c \in (Remote \cup {"aborted"}) \cup {"missing", "homeless"}
      BY <3>1, RefusalsAreCauses DEF Remote, AnyRefusal, OnDisk
    <3>3. ClassOf(NativeError(c)) \in Told(c)
      BY <2>1, <3>2, AbsentIsTold, ClassIsTold DEF Asking, DriverNames, Remote, OnDisk
    <3> QED
      BY <2>1, <3>1, <3>2, <3>3, RefusedOutcome DEF Asking, Remote, AnyRefusal, OnDisk
  <2> QED
    BY <1>1, <2>2, <2>3 DEF S3Download
<1>2. CASE MinioDownload
  <2>1. Asking("minio", "download")
    BY <1>2 DEF MinioDownload
  <2>2. CASE Streamed(None)
    BY <2>1, <2>2, FoundOutcome DEF Asking, Lazy
  <2>3. CASE \E c \in Refusals(Remote) : Refused(c, ClassOf(NativeError(c)))
    <3>1. PICK c \in Refusals(Remote) : Refused(c, ClassOf(NativeError(c)))
      BY <2>3
    <3>2. c \in Causes /\ c \in (Remote) \cup {"missing", "homeless"}
      BY <3>1, RefusalsAreCauses DEF Remote, AnyRefusal, OnDisk
    <3>3. ClassOf(NativeError(c)) \in Told(c)
      BY <2>1, <3>2, AbsentIsTold, ClassIsTold DEF Asking, DriverNames, Remote, OnDisk
    <3> QED
      BY <2>1, <3>1, <3>2, <3>3, RefusedOutcome DEF Asking, Remote, AnyRefusal, OnDisk
  <2> QED
    BY <1>2, <2>2, <2>3 DEF MinioDownload
<1>3. CASE AzureDownload
  <2>1. Asking("azure", "download")
    BY <1>3 DEF AzureDownload
  <2>2. CASE Streamed(source)
    BY <2>1, <2>2, FoundOutcome DEF Asking, Lazy
  <2>3. CASE \E c \in Refusals(Remote \cup {"aborted"}) : Refused(c, ClassOf(NativeError(c)))
    <3>1. PICK c \in Refusals(Remote \cup {"aborted"}) : Refused(c, ClassOf(NativeError(c)))
      BY <2>3
    <3>2. c \in Causes /\ c \in (Remote \cup {"aborted"}) \cup {"missing", "homeless"}
      BY <3>1, RefusalsAreCauses DEF Remote, AnyRefusal, OnDisk
    <3>3. ClassOf(NativeError(c)) \in Told(c)
      BY <2>1, <3>2, AbsentIsTold, ClassIsTold DEF Asking, DriverNames, Remote, OnDisk
    <3> QED
      BY <2>1, <3>1, <3>2, <3>3, RefusedOutcome DEF Asking, Remote, AnyRefusal, OnDisk
  <2> QED
    BY <1>3, <2>2, <2>3 DEF AzureDownload
<1>4. CASE GcsDownload
  <2>1. Asking("gcs", "download")
    BY <1>4 DEF GcsDownload
  <2>2. CASE StreamedLazily
    BY <2>1, <2>2, FoundOutcome DEF Asking, Lazy
  <2>3. CASE \E c \in Refusals(Remote) :
                Refused(c, IF GcsMissing(NativeError(c)) THEN "notFound" ELSE ClassOf(NativeError(c)))
    <3>1. PICK c \in Refusals(Remote) :
                  Refused(c, IF GcsMissing(NativeError(c)) THEN "notFound" ELSE ClassOf(NativeError(c)))
      BY <2>3
    <3>2. c \in Causes /\ c \in (Remote) \cup {"missing", "homeless"}
      BY <3>1, RefusalsAreCauses DEF Remote, AnyRefusal, OnDisk
    <3> DEFINE a == IF GcsMissing(NativeError(c)) THEN "notFound" ELSE ClassOf(NativeError(c))
    <3>3. ASSUME GcsMissing(NativeError(c)) PROVE a \in Told(c)
      <4>1. a = "notFound" /\ "notFound" \in Told(c)
        BY <2>1, <3>2, <3>3, AbsentIsTold DEF Asking, GcsMissing, DriverNames, Remote, OnDisk
      <4> HIDE DEF a
      <4> QED
        BY <4>1
    <3>4. ASSUME ~(GcsMissing(NativeError(c))) PROVE a \in Told(c)
      <4>1. a = ClassOf(NativeError(c)) /\ ClassOf(NativeError(c)) \in Told(c)
        BY <2>1, <3>2, <3>4, AbsentIsTold, ClassIsTold
           DEF Asking, GcsMissing, DriverNames, Remote, OnDisk
      <4> HIDE DEF a
      <4> QED
        BY <4>1
    <3>5. Refused(c, a) /\ a \in Told(c)
      BY <3>1, <3>3, <3>4
    <3> HIDE DEF a
    <3> QED
      BY <2>1, <3>1, <3>2, <3>5, RefusedOutcome DEF Asking, Remote, AnyRefusal, OnDisk
  <2> QED
    BY <1>4, <2>2, <2>3 DEF GcsDownload
<1>5. CASE OracleDownload
  <2>1. Asking("oracle", "download")
    BY <1>5 DEF OracleDownload
  <2>2. CASE Streamed(source)
    BY <2>1, <2>2, FoundOutcome DEF Asking, Lazy
  <2>3. CASE \E c \in Refusals(Remote) : Refused(c, ClassOf(NativeError(c)))
    <3>1. PICK c \in Refusals(Remote) : Refused(c, ClassOf(NativeError(c)))
      BY <2>3
    <3>2. c \in Causes /\ c \in (Remote) \cup {"missing", "homeless"}
      BY <3>1, RefusalsAreCauses DEF Remote, AnyRefusal, OnDisk
    <3>3. ClassOf(NativeError(c)) \in Told(c)
      BY <2>1, <3>2, AbsentIsTold, ClassIsTold DEF Asking, DriverNames, Remote, OnDisk
    <3> QED
      BY <2>1, <3>1, <3>2, <3>3, RefusedOutcome DEF Asking, Remote, AnyRefusal, OnDisk
  <2> QED
    BY <1>5, <2>2, <2>3 DEF OracleDownload
<1>6. CASE LocalDownload
  <2>1. Asking("local", "download")
    BY <1>6 DEF LocalDownload
  <2>2. CASE StreamedLazily
    BY <2>1, <2>2, FoundOutcome DEF Asking, Lazy
  <2>3. CASE \E c \in Refusals(OnDisk) : Refused(c, ClassOf(NativeError(c)))
    <3>1. PICK c \in Refusals(OnDisk) : Refused(c, ClassOf(NativeError(c)))
      BY <2>3
    <3>2. c \in Causes /\ c \in OnDisk \cup {"missing", "homeless"}
      BY <3>1, RefusalsAreCauses DEF Remote, AnyRefusal, OnDisk
    <3>3. ClassOf(NativeError(c)) \in Told(c)
      BY <2>1, <3>2, AbsentIsTold, ClassIsTold DEF Asking, DriverNames, Remote, OnDisk
    <3> QED
      BY <2>1, <3>1, <3>2, <3>3, RefusedOutcome DEF Asking, Remote, AnyRefusal, OnDisk
  <2>4. CASE DirectoryFound("found", LazyStream)
    BY <2>1, <2>4, DirectoryOutcome DEF Asking
  <2> QED
    BY <1>6, <2>2, <2>3, <2>4 DEF LocalDownload
<1> QED
  BY <1>1, <1>2, <1>3, <1>4, <1>5, <1>6

\* Whoever reads, and wherever: the outcome is one of the two.
LEMMA ReadingOutcome ==
    ASSUME Reading
    PROVE  ReadOutcome
BY ExistsOutcome, StatOutcome, DownloadOutcome DEF Reading

(***************************************************************************)
(* The inductive invariant: besides the properties, how far a call has     *)
(* got says what it knows of the two objects and of the body.              *)
(***************************************************************************)

\* What the call has read: metadata only of what the key held, and only of a
\* lazy stream another object than that of the metadata.
ReadInv ==
    /\ source \in were
    /\ ~place => source = None
    /\ IF kind \in Adapters THEN driver = None /\ read = "none" /\ answer = "none"
       ELSE driver \in Drivers /\ read \in Reads
    /\ kind = "copyBetween" => read = "download"
    /\ answer = "none" => met = "none"
    /\ answer \notin {"true", "found"} => described = None
    /\ answer = "none" /\ kind \notin Adapters => stream = NoStream
    /\ described \in were \cup {None}
    /\ read = "download" => stream.of \in were \cup {None}
    /\ described # None /\ stream.of # None /\ described # stream.of => driver \in Lazy
    /\ described # None /\ stream.state = "lazy" => driver \in Lazy

\* The body: it has an object once it is open, and ends with its last chunk.
BodyInv ==
    /\ stream.state \in {"none", "lazy"} => sent = 0
    /\ stream.state \in {"open", "ended"} => stream.of \in Objects
    /\ stream.state = "open" => sent < Length[stream.of]
    /\ stream.state = "ended" => sent = Length[stream.of]

\* The stages: nothing is taken before the destination listens, nothing stored,
\* and no late request left, but of a whole body.
StageInv ==
    /\ stage = "reading" => kind \notin Adapters /\ counting = "none" /\ sent = 0 /\ ~heard
    /\ kind # "copyBetween" => counting = "none"
    /\ stage \in {"sending", "stored"} => heard
    /\ stage = "stored" => stream.state = "ended"
    /\ ~heard => taken = 0
    /\ pending => /\ stage \in {"failing", "rejected", "kept"} /\ Uploads
                  /\ heard /\ stream.state = "ended" /\ taken = sent

\* The destination: this call's object is there only after it was stored, and
\* what multer was told is saved is there unless another has replaced it.
DestInv ==
    /\ Mine => heard /\ ~pending /\ stage \notin {"reading", "preparing", "sending"}
    /\ kind = "multer" /\ stage \in {"stored", "resolved"} => Mine \/ overtaken
    /\ overtaken => ~random

IInv ==
    /\ TypeOK /\ ReadInv /\ BodyInv /\ StageInv /\ DestInv
    /\ AnswersAreTrue /\ StoredWhole /\ StreamsReleased /\ RemovalTakesItsOwn

(***************************************************************************)
(* Parts of the actions.                                                   *)
(***************************************************************************)

\* A stream that goes over to another state stays that of its object.
LEMMA StateChange ==
    ASSUME stream \in Streams, NEW s \in States
    PROVE  LET t == [stream EXCEPT !.state = s]
           IN  t \in Streams /\ t.of = stream.of /\ t.state = s
BY DEF Streams

\* What is released was open or is as it was.
LEMMA Releasing ==
    ASSUME TypeOK, stream' = [stream EXCEPT !.state = Closed(@)]
    PROVE  /\ stream' \in Streams /\ stream'.of = stream.of
           /\ stream'.state = IF stream.state \in {"lazy", "open"} THEN "destroyed" ELSE stream.state
<1>1. stream \in Streams /\ stream.state \in States
  BY DEF TypeOK, ReadTypeOK, Streams
<1>2. Closed(stream.state) \in States
  BY <1>1 DEF Closed, States
<1>3. stream' = [stream EXCEPT !.state = Closed(stream.state)]
  OBVIOUS
<1> QED
  BY <1>1, <1>2, <1>3, StateChange DEF Closed

\* One more chunk of an open body: it ends with the last.
LEMMA Sending ==
    ASSUME TypeOK, BodyInv, stream.state = "open", Sent
    PROVE  /\ sent' = sent + 1 /\ sent' \in Nat
           /\ stream' \in Streams /\ stream'.of = stream.of
           /\ IF sent' = Length[stream.of] THEN stream'.state = "ended"
              ELSE stream'.state = "open" /\ sent' < Length[stream.of]
<1>1. stream \in Streams /\ "ended" \in States /\ sent \in Nat
  BY DEF TypeOK, ReadTypeOK, States
<1>2. Length[stream.of] \in Nat /\ sent < Length[stream.of]
  BY LengthAssumption DEF BodyInv
<1>3. LET t == [stream EXCEPT !.state = "ended"]
      IN  t \in Streams /\ t.of = stream.of /\ t.state = "ended"
  BY <1>1, StateChange
<1>4. sent' = sent + 1 /\ stream' = IF sent' = Length[stream.of]
                                   THEN [stream EXCEPT !.state = "ended"] ELSE stream
  BY DEF Sent, AtEnd
<1> QED
  BY <1>1, <1>2, <1>3, <1>4

\* What others store is theirs.
LEMMA OthersAreNotMine ==
    ASSUME NEW d \in Others \cup {None}
    PROVE  d \in Stored \cup {None} /\ (d # None => ~d.mine)
<1>1. CASE d \in Others
  <2>1. PICK o \in Objects : d = [of |-> o, size |-> Length[o], about |-> o, mine |-> FALSE]
    BY <1>1 DEF Others
  <2>2. Length[o] \in Nat
    BY LengthAssumption
  <2> QED
    BY <2>1, <2>2 DEF Stored, MaybeObject
<1> QED
  BY <1>1

\* What a call puts is its own: the whole body, or what the length declared.
LEMMA Putting ==
    ASSUME TypeOK, ReadInv, BodyInv, AllTaken, Put
    PROVE  /\ dest' \in Stored /\ dest'.mine = TRUE
           /\ dest'.of = stream.of /\ dest'.about = described
           /\ dest'.size # Length[stream.of] =>
                 trusts /\ described # None /\ described # stream.of
                 /\ dest'.size = Length[described]
           /\ overtaken' = (overtaken \/ (Mine /\ dest' # dest)) /\ robbed' = robbed
<1>1. stream.of \in Objects /\ taken = Length[stream.of] /\ described \in MaybeObject
  BY DEF AllTaken, BodyInv, TypeOK, ReadTypeOK
<1>2. /\ Kept(described) \in Nat
      /\ Kept(described) # taken => /\ trusts /\ described # None
                                    /\ Kept(described) = Length[described]
  BY <1>1, LengthAssumption DEF Kept, MaybeObject
<1>3. dest' = [of |-> stream.of, size |-> Kept(described), about |-> described, mine |-> TRUE]
  BY DEF Put
<1>4. overtaken' = (overtaken \/ (Mine /\ dest' # dest)) /\ robbed' = robbed
  <2>1. robbed \in BOOLEAN
    BY DEF TypeOK
  <2> QED
    BY <2>1 DEF Put, Observe
<1>5. dest' \in Stored
  BY <1>1, <1>2, <1>3 DEF Stored, MaybeObject
<1> QED
  BY <1>1, <1>2, <1>3, <1>4, <1>5

(***************************************************************************)
(* The actions keep the invariant.                                         *)
(***************************************************************************)

\* What is told of a refusal is true of the key, which cannot have changed since.
LEMMA RefusalIsTrue ==
    ASSUME IInv, answer = "none", UNCHANGED <<driver, read, were>>,
           NEW c \in Refusals(AnyRefusal), RefusedFor(c)
    PROVE  AnswersAreTrue' /\ c \in Causes /\ answer' \in Answers \ {"none", "true", "found"}
<1>1. c \in Causes /\ (c \in {"missing", "homeless"} => None \in were)
  BY DEF Refusals, AnyRefusal, Remote, Causes, IInv, ReadInv
<1>2. met' = c /\ answer' \in Told(c) /\ (c = "blocked" => driver = "local")
  BY DEF RefusedFor
<1>3. CASE c \in {"missing", "homeless"}
  BY <1>1, <1>2, <1>3 DEF Told, AnswersAreTrue, Answers, Errors
<1>4. CASE c = "denied"
  BY <1>2, <1>4 DEF Told, AnswersAreTrue, Answers, Errors, Causes
<1>5. CASE c \in {"busy", "cut", "aborted"}
  BY <1>2, <1>5 DEF Told, AnswersAreTrue, Answers, Errors, Causes
<1>6. CASE c \in {"overloaded", "blocked"}
  BY <1>2, <1>6 DEF Told, AnswersAreTrue, Answers, Errors, Causes
<1> QED
  BY <1>1, <1>3, <1>4, <1>5, <1>6 DEF Causes

\* A call that reads has neither stored nor taken anything yet.
LEMMA RestKeptWhileReading ==
    ASSUME IInv, stage = "reading", UNCHANGED <<driver, read, were>>,
           UNCHANGED <<options, transferVars>>
    PROVE  StageInv' /\ DestInv' /\ StoredWhole' /\ StreamsReleased' /\ RemovalTakesItsOwn'
<1> USE DEF IInv, options, transferVars
<1>1. StageInv'
  BY DEF StageInv, Uploads
<1>2. DestInv'
  BY DEF DestInv, Mine
<1>3. StoredWhole'
  BY DEF StoredWhole, Mine
<1>4. StreamsReleased'
  BY DEF StreamsReleased, Settled
<1>5. RemovalTakesItsOwn'
  BY DEF RemovalTakesItsOwn, Mine
<1> QED
  BY <1>1, <1>2, <1>3, <1>4, <1>5

\* exists(), stat() and download() are answered truly.
LEMMA ReadKeeps ==
    ASSUME IInv, Read
    PROVE  IInv'
<1> USE DEF IInv
<1>1. /\ ReadOutcome /\ stage = "reading" /\ UNCHANGED <<options, transferVars>>
  BY ReadingOutcome DEF Read
<1>2. /\ answer = "none" /\ UNCHANGED <<driver, read, place, source, were, changes>>
      /\ kind \notin Adapters /\ counting = "none" /\ sent = 0 /\ ~heard
  BY <1>1 DEF ReadOutcome, StageInv
<1>3. CASE FoundOut
  <2>1. source \in Objects /\ source \in were
    BY <1>3 DEF FoundOut, Found, TypeOK, ReadTypeOK, MaybeObject, ReadInv
  <2>2. Length[source] \in Nat \ {0}
    BY <2>1, LengthAssumption
  <2>3. /\ answer' \in {"true", "found"} /\ met' = "none" /\ described' \in {source, None}
        /\ answer' = "true" => described' = None
    BY <1>3 DEF FoundOut
  <2>4. \/ stream' = NoStream
        \/ read = "download" /\ driver \in Lazy /\ stream' = LazyStream
        \/ read = "download" /\ stream' = [state |-> "open", of |-> source]
    BY <1>3 DEF FoundOut
  <2>5. /\ stream' \in Streams /\ stream'.state \in {"none", "lazy", "open"}
        /\ stream'.of \in {source, None}
        /\ stream'.state = "open" => stream'.of = source
        /\ stream'.state = "lazy" => driver \in Lazy
        /\ read = "download" \/ stream' = NoStream
    BY <2>1, <2>4 DEF Streams, States, NoStream, LazyStream, MaybeObject
  <2>6. TypeOK'
    BY <1>1, <1>2, <2>1, <2>3, <2>5
       DEF TypeOK, ReadTypeOK, Answers, MaybeObject, options, transferVars
  <2>7. ReadInv'
    BY <1>1, <1>2, <2>1, <2>3, <2>5 DEF ReadInv, options
  <2>8. BodyInv'
    BY <1>1, <1>2, <2>1, <2>2, <2>5 DEF BodyInv, transferVars
  <2>9. AnswersAreTrue'
    BY <1>2, <2>1, <2>3, ObjectsAssumption DEF AnswersAreTrue
  <2> QED
    BY <1>1, <1>2, <2>6, <2>7, <2>8, <2>9, RestKeptWhileReading
<1>4. CASE \E c \in Refusals(AnyRefusal) : RefusedFor(c)
  <2>1. PICK c \in Refusals(AnyRefusal) : RefusedFor(c)
    BY <1>4
  <2>2. AnswersAreTrue' /\ c \in Causes /\ answer' \in Answers \ {"none", "true", "found"}
    BY <1>2, <2>1, RefusalIsTrue
  <2>3. met' = c /\ described' = None /\ stream' = NoStream
    BY <2>1 DEF RefusedFor
  <2>4. stream' \in Streams /\ stream'.state = "none" /\ stream'.of = None
    BY <2>3 DEF Streams, States, NoStream, MaybeObject
  <2>5. TypeOK'
    BY <1>1, <1>2, <2>2, <2>3, <2>4 DEF TypeOK, ReadTypeOK, MaybeObject, options, transferVars
  <2>6. ReadInv'
    BY <1>1, <1>2, <2>2, <2>3, <2>4 DEF ReadInv, options
  <2>7. BodyInv'
    BY <1>1, <1>2, <2>4 DEF BodyInv, transferVars
  <2> QED
    BY <1>1, <1>2, <2>2, <2>5, <2>6, <2>7, RestKeptWhileReading
<1>5. CASE DirectoryOut
  <2>1. /\ driver = "local" /\ None \in were
        /\ answer' \in {"true", "found"} /\ met' = "directory" /\ described' = None
    BY <1>5 DEF DirectoryOut, ReadInv
  <2>2. stream' = NoStream \/ (read = "download" /\ stream' = LazyStream)
    BY <1>5 DEF DirectoryOut
  <2>3. /\ stream' \in Streams /\ stream'.state \in {"none", "lazy"} /\ stream'.of = None
        /\ read = "download" \/ stream' = NoStream
    BY <2>2 DEF Streams, States, NoStream, LazyStream, MaybeObject
  <2>4. TypeOK'
    BY <1>1, <1>2, <2>1, <2>3 DEF TypeOK, ReadTypeOK, Answers, MaybeObject, options, transferVars
  <2>5. ReadInv'
    BY <1>1, <1>2, <2>1, <2>3 DEF ReadInv, options, Lazy
  <2>6. BodyInv'
    BY <1>1, <1>2, <2>3 DEF BodyInv, transferVars
  <2>7. AnswersAreTrue'
    BY <1>2, <2>1 DEF AnswersAreTrue
  <2> QED
    BY <1>1, <1>2, <2>4, <2>5, <2>6, <2>7, RestKeptWhileReading
<1> QED
  BY <1>1, <1>3, <1>4, <1>5 DEF ReadOutcome

\* The storage passes on an answer: nothing else changes.
LEMMA ReadSettlesKeeps ==
    ASSUME IInv, ReadSettles
    PROVE  IInv'
<1> USE DEF IInv, ReadSettles, vars, readVars, callVars, answerVars, options, transferVars,
            DestStays
<1>1. TypeOK'
  BY DEF TypeOK, ReadTypeOK, Stages, Settled
<1>2. ReadInv'
  BY DEF ReadInv, TypeOK, ReadTypeOK, StageInv
<1>3. BodyInv'
  BY DEF BodyInv, TypeOK, ReadTypeOK, Streams, ReadInv, StageInv
<1>4. StageInv'
  BY DEF StageInv, TypeOK, ReadTypeOK, Streams, ReadInv, BodyInv, Uploads
<1>5. DestInv'
  BY DEF DestInv, Mine, StageInv, TypeOK, Adapters, Settled
<1>6. AnswersAreTrue'
  BY DEF AnswersAreTrue
<1>7. StoredWhole'
  BY DEF StoredWhole, Mine
<1>8. StreamsReleased'
  BY DEF StreamsReleased, StageInv, DestInv, Settled, Adapters, Mine
<1>9. RemovalTakesItsOwn'
  BY DEF RemovalTakesItsOwn, Mine
<1> QED
  BY <1>1, <1>2, <1>3, <1>4, <1>5, <1>6, <1>7, <1>8, <1>9

\* A hook's error ends the call with its stream as it is.
LEMMA DownloadHookThrowsKeeps ==
    ASSUME IInv, DownloadHookThrows
    PROVE  IInv'
<1> USE DEF IInv, DownloadHookThrows, vars, readVars, callVars, answerVars, options,
            transferVars, DestStays
<1>1. TypeOK'
  BY DEF TypeOK, ReadTypeOK, Stages, Settled
<1>2. ReadInv'
  BY DEF ReadInv, TypeOK, ReadTypeOK, StageInv
<1>3. BodyInv'
  BY DEF BodyInv, TypeOK, ReadTypeOK, Streams, ReadInv, StageInv
<1>4. StageInv'
  BY DEF StageInv, TypeOK, ReadTypeOK, Streams, ReadInv, BodyInv, Uploads
<1>5. DestInv'
  BY DEF DestInv, Mine, StageInv, TypeOK
<1>6. AnswersAreTrue'
  BY DEF AnswersAreTrue
<1>7. StoredWhole'
  BY DEF StoredWhole, Mine
<1>8. StreamsReleased'
  BY DEF StreamsReleased, StageInv, DestInv, Settled, Adapters, Mine
<1>9. RemovalTakesItsOwn'
  BY DEF RemovalTakesItsOwn, Mine
<1> QED
  BY <1>1, <1>2, <1>3, <1>4, <1>5, <1>6, <1>7, <1>8, <1>9

\* The caller of download() begins to listen before it has taken anything.
LEMMA CollectKeeps ==
    ASSUME IInv, Collect
    PROVE  IInv'
<1> USE DEF IInv, Collect, vars, readVars, callVars, answerVars, options, transferVars,
            DestStays
<1>1. TypeOK'
  BY DEF TypeOK, ReadTypeOK, Stages, Settled
<1>2. ReadInv'
  BY DEF ReadInv, TypeOK, ReadTypeOK, StageInv
<1>3. BodyInv'
  BY DEF BodyInv, TypeOK, ReadTypeOK, Streams, ReadInv, StageInv
<1>4. StageInv'
  BY DEF StageInv, TypeOK, ReadTypeOK, Streams, ReadInv, BodyInv, Uploads
<1>5. DestInv'
  BY DEF DestInv, Mine, StageInv, TypeOK
<1>6. AnswersAreTrue'
  BY DEF AnswersAreTrue
<1>7. StoredWhole'
  BY DEF StoredWhole, Mine
<1>8. StreamsReleased'
  BY DEF StreamsReleased, Listened, Mine, StageInv, DestInv, Settled, TypeOK, ReadTypeOK,
         Streams
<1>9. RemovalTakesItsOwn'
  BY DEF RemovalTakesItsOwn, Mine
<1> QED
  BY <1>1, <1>2, <1>3, <1>4, <1>5, <1>6, <1>7, <1>8, <1>9

\* copyBetween() has a Transform from now on, and nothing of the body in it.
LEMMA PipeKeeps ==
    ASSUME IInv, Pipe
    PROVE  IInv'
<1> USE DEF IInv, Pipe, vars, readVars, callVars, answerVars, options, transferVars, DestStays
<1>1. TypeOK'
  BY DEF TypeOK, ReadTypeOK, Stages, Settled
<1>2. ReadInv'
  BY DEF ReadInv, TypeOK, ReadTypeOK, StageInv
<1>3. BodyInv'
  BY DEF BodyInv, TypeOK, ReadTypeOK, Streams, ReadInv, StageInv
<1>4. StageInv'
  BY DEF StageInv, TypeOK, ReadTypeOK, Streams, ReadInv, BodyInv, Uploads
<1>5. DestInv'
  BY DEF DestInv, Mine, StageInv, TypeOK
<1>6. AnswersAreTrue'
  BY DEF AnswersAreTrue
<1>7. StoredWhole'
  BY DEF StoredWhole, Mine
<1>8. StreamsReleased'
  BY DEF StreamsReleased, Listened, Mine, StageInv, DestInv, Settled, TypeOK, ReadTypeOK,
         Streams
<1>9. RemovalTakesItsOwn'
  BY DEF RemovalTakesItsOwn, Mine
<1> QED
  BY <1>1, <1>2, <1>3, <1>4, <1>5, <1>6, <1>7, <1>8, <1>9

\* A late stream is of the object that is there by then: perhaps not of the one
\* described, but then the driver is one of the lazy ones.
LEMMA OpenKeeps ==
    ASSUME IInv, Open
    PROVE  IInv'
<1> USE DEF IInv, Open, vars, readVars, callVars, answerVars, options, transferVars,
            DestStays, OpenStream, Found
<1>0. /\ stream' \in Streams /\ stream'.of = source /\ stream'.state = "open"
      /\ source \in Objects
  BY DEF TypeOK, ReadTypeOK, Streams, States, MaybeObject
<1>1. TypeOK'
  BY <1>0 DEF TypeOK, ReadTypeOK
<1>2. ReadInv'
  BY <1>0 DEF ReadInv, TypeOK, ReadTypeOK, NoStream
<1>3. BodyInv'
  BY <1>0, LengthAssumption DEF BodyInv, TypeOK
<1>4. StageInv'
  BY DEF StageInv, TypeOK, ReadTypeOK, Streams, ReadInv, BodyInv, Uploads
<1>5. DestInv'
  BY DEF DestInv, Mine, StageInv, TypeOK
<1>6. AnswersAreTrue'
  BY DEF AnswersAreTrue
<1>7. StoredWhole'
  BY DEF StoredWhole, Mine
<1>8. StreamsReleased'
  BY DEF StreamsReleased, Listened, Mine, StageInv, DestInv, Settled, TypeOK, ReadTypeOK,
         Streams
<1>9. RemovalTakesItsOwn'
  BY DEF RemovalTakesItsOwn, Mine
<1> QED
  BY <1>1, <1>2, <1>3, <1>4, <1>5, <1>6, <1>7, <1>8, <1>9

\* A chunk goes into the Transform, which has room for it.
LEMMA CountKeeps ==
    ASSUME IInv, Count
    PROVE  IInv'
<1> USE DEF IInv, Count, vars, readVars, callVars, answerVars, options, transferVars,
            DestStays, Sent, AtEnd
<1>0. /\ sent' = sent + 1 /\ sent' \in Nat
      /\ stream' \in Streams /\ stream'.of = stream.of
      /\ IF sent' = Length[stream.of] THEN stream'.state = "ended"
         ELSE stream'.state = "open" /\ sent' < Length[stream.of]
  BY Sending
<1>1. TypeOK'
  BY <1>0, LengthAssumption DEF TypeOK, ReadTypeOK
<1>2. ReadInv'
  BY <1>0 DEF ReadInv, StageInv, NoStream
<1>3. BodyInv'
  BY <1>0 DEF BodyInv
<1>4. StageInv'
  BY DEF StageInv, TypeOK, ReadTypeOK, Streams, ReadInv, BodyInv, Uploads
<1>5. DestInv'
  BY DEF DestInv, Mine, StageInv, TypeOK
<1>6. AnswersAreTrue'
  BY DEF AnswersAreTrue
<1>7. StoredWhole'
  BY DEF StoredWhole, Mine
<1>8. StreamsReleased'
  BY DEF StreamsReleased, Listened, Mine, StageInv, DestInv, Settled, TypeOK, ReadTypeOK,
         Streams
<1>9. RemovalTakesItsOwn'
  BY DEF RemovalTakesItsOwn, Mine
<1> QED
  BY <1>1, <1>2, <1>3, <1>4, <1>5, <1>6, <1>7, <1>8, <1>9

\* The destination takes one that is there.
LEMMA TakeKeeps ==
    ASSUME IInv, Take
    PROVE  IInv'
<1> USE DEF IInv, Take, vars, readVars, callVars, answerVars, options, transferVars,
            DestStays, Sent, AtEnd
<1>0. /\ stream' \in Streams /\ stream'.of = stream.of /\ sent' \in Nat /\ sent' >= sent
      /\ \/ sent' = sent /\ stream' = stream /\ taken < sent
         \/ /\ kind # "copyBetween" /\ stream.state = "open" /\ sent' = sent + 1
            /\ IF sent' = Length[stream.of] THEN stream'.state = "ended"
               ELSE stream'.state = "open" /\ sent' < Length[stream.of]
  <2>1. stream \in Streams /\ sent \in Nat /\ taken \in Nat
    BY DEF TypeOK, ReadTypeOK
  <2> QED
    BY <2>1, Sending
<1>1. TypeOK'
  BY <1>0, LengthAssumption DEF TypeOK, ReadTypeOK
<1>2. ReadInv'
  BY <1>0 DEF ReadInv, StageInv, NoStream
<1>3. BodyInv'
  BY <1>0 DEF BodyInv
<1>4. StageInv'
  BY DEF StageInv, TypeOK, ReadTypeOK, Streams, ReadInv, BodyInv, Uploads
<1>5. DestInv'
  BY DEF DestInv, Mine, StageInv, TypeOK
<1>6. AnswersAreTrue'
  BY DEF AnswersAreTrue
<1>7. StoredWhole'
  BY DEF StoredWhole, Mine
<1>8. StreamsReleased'
  BY DEF StreamsReleased, Listened, Mine, StageInv, DestInv, Settled, TypeOK, ReadTypeOK,
         Streams
<1>9. RemovalTakesItsOwn'
  BY DEF RemovalTakesItsOwn, Mine
<1> QED
  BY <1>1, <1>2, <1>3, <1>4, <1>5, <1>6, <1>7, <1>8, <1>9

\* A body that fails ends nothing but a call that was sending it, or the process
\* where nobody listens.
LEMMA BodyFailsKeeps ==
    ASSUME IInv, BodyFails
    PROVE  IInv'
<1> USE DEF IInv, BodyFails, vars, readVars, callVars, answerVars, options, transferVars,
            DestStays, Listened
<1>0. stream' \in Streams /\ stream'.of = stream.of /\ stream'.state = "failed"
  <2>1. stream \in Streams /\ "failed" \in States
    BY DEF TypeOK, ReadTypeOK, States
  <2> QED
    BY <2>1, StateChange
<1>1. TypeOK'
  BY <1>0 DEF TypeOK, ReadTypeOK, Stages, Settled
<1>2. ReadInv'
  BY <1>0 DEF ReadInv, StageInv, NoStream, Streams
<1>3. BodyInv'
  BY DEF BodyInv, TypeOK, ReadTypeOK, Streams, ReadInv, StageInv
<1>4. StageInv'
  BY DEF StageInv, TypeOK, ReadTypeOK, Streams, ReadInv, BodyInv, Uploads
<1>5. DestInv'
  BY DEF DestInv, Mine, StageInv, TypeOK
<1>6. AnswersAreTrue'
  BY DEF AnswersAreTrue
<1>7. StoredWhole'
  BY DEF StoredWhole, Mine
<1>8. StreamsReleased'
  BY DEF StreamsReleased, Listened, Mine, StageInv, DestInv, Settled, TypeOK, ReadTypeOK,
         Streams
<1>9. RemovalTakesItsOwn'
  BY DEF RemovalTakesItsOwn, Mine
<1> QED
  BY <1>1, <1>2, <1>3, <1>4, <1>5, <1>6, <1>7, <1>8, <1>9

\* upload() listens from now on.
LEMMA AttachKeeps ==
    ASSUME IInv, Attach
    PROVE  IInv'
<1> USE DEF IInv, Attach, vars, readVars, callVars, answerVars, options, transferVars,
            DestStays, Uploads
<1>1. TypeOK'
  BY DEF TypeOK, ReadTypeOK, Stages, Settled
<1>2. ReadInv'
  BY DEF ReadInv, TypeOK, ReadTypeOK, StageInv
<1>3. BodyInv'
  BY DEF BodyInv, TypeOK, ReadTypeOK, Streams, ReadInv, StageInv
<1>4. StageInv'
  BY DEF StageInv, TypeOK, ReadTypeOK, Streams, ReadInv, BodyInv, Uploads
<1>5. DestInv'
  BY DEF DestInv, Mine, StageInv, TypeOK
<1>6. AnswersAreTrue'
  BY DEF AnswersAreTrue
<1>7. StoredWhole'
  BY DEF StoredWhole, Mine
<1>8. StreamsReleased'
  BY DEF StreamsReleased, Listened, Mine, StageInv, DestInv, Settled, TypeOK, ReadTypeOK,
         Streams
<1>9. RemovalTakesItsOwn'
  BY DEF RemovalTakesItsOwn, Mine
<1> QED
  BY <1>1, <1>2, <1>3, <1>4, <1>5, <1>6, <1>7, <1>8, <1>9

\* An upload is given up; only one with the whole body may still be carried out.
LEMMA UploadFailsKeeps ==
    ASSUME IInv, UploadFails
    PROVE  IInv'
<1> USE DEF IInv, UploadFails, vars, readVars, callVars, answerVars, options, transferVars,
            DestStays, Uploads, AllTaken
<1>1. TypeOK'
  BY DEF TypeOK, ReadTypeOK, Stages, Settled
<1>2. ReadInv'
  BY DEF ReadInv, TypeOK, ReadTypeOK, StageInv
<1>3. BodyInv'
  BY DEF BodyInv, TypeOK, ReadTypeOK, Streams, ReadInv, StageInv
<1>4. StageInv'
  BY DEF StageInv, TypeOK, ReadTypeOK, Streams, ReadInv, BodyInv, Uploads
<1>5. DestInv'
  BY DEF DestInv, Mine, StageInv, TypeOK
<1>6. AnswersAreTrue'
  BY DEF AnswersAreTrue
<1>7. StoredWhole'
  BY DEF StoredWhole, Mine
<1>8. StreamsReleased'
  BY DEF StreamsReleased, Listened, Mine, StageInv, DestInv, Settled, TypeOK, ReadTypeOK,
         Streams
<1>9. RemovalTakesItsOwn'
  BY DEF RemovalTakesItsOwn, Mine
<1> QED
  BY <1>1, <1>2, <1>3, <1>4, <1>5, <1>6, <1>7, <1>8, <1>9

\* An upload with the whole body is carried out.
LEMMA StoreKeeps ==
    ASSUME IInv, Store
    PROVE  IInv'
<1> USE DEF IInv, Store, vars, readVars, callVars, answerVars, options, transferVars,
            DestStays, Uploads, AllTaken, Put, Kept, Observe
<1>0. /\ dest' \in Stored /\ dest'.mine = TRUE /\ Mine'
      /\ dest'.of = stream.of /\ dest'.about = described
      /\ dest'.size # Length[stream.of] =>
            trusts /\ described # None /\ described # stream.of
            /\ dest'.size = Length[described]
      /\ overtaken' = overtaken /\ robbed' = robbed
  <2>1. /\ TypeOK /\ ReadInv /\ BodyInv /\ AllTaken /\ Put
    BY DEF StageInv, AllTaken
  <2>2. ~Mine /\ overtaken \in BOOLEAN
    BY DEF DestInv, TypeOK
  <2>3. overtaken' = overtaken
    BY <2>1, <2>2, Putting
  <2> QED
    BY <2>1, <2>3, Putting, NoneAssumption DEF Mine
<1>1. TypeOK'
  BY <1>0 DEF TypeOK, ReadTypeOK, Stages
<1>2. ReadInv'
  BY DEF ReadInv, TypeOK, ReadTypeOK, StageInv
<1>3. BodyInv'
  BY DEF BodyInv, TypeOK, ReadTypeOK, Streams, ReadInv, StageInv
<1>4. StageInv'
  BY DEF StageInv, TypeOK, ReadTypeOK, Streams, ReadInv, BodyInv, Uploads
<1>5. DestInv'
  BY <1>0 DEF DestInv, StageInv
<1>6. AnswersAreTrue'
  BY DEF AnswersAreTrue
<1>7. StoredWhole'
  BY <1>0, ObjectsAssumption, KindsAssumption
     DEF StoredWhole, ReadInv, BodyInv, AllTaken, Uploads, Adapters, TypeOK, ReadTypeOK,
         KindNames
<1>8. StreamsReleased'
  BY DEF StreamsReleased, Listened, Mine, StageInv, DestInv, Settled, TypeOK, ReadTypeOK,
         Streams
<1>9. RemovalTakesItsOwn'
  BY DEF RemovalTakesItsOwn, Mine
<1> QED
  BY <1>1, <1>2, <1>3, <1>4, <1>5, <1>6, <1>7, <1>8, <1>9

\* So is one that was given up, after its call has failed.
LEMMA StoreLateKeeps ==
    ASSUME IInv, StoreLate
    PROVE  IInv'
<1> USE DEF IInv, StoreLate, vars, readVars, callVars, answerVars, options, transferVars,
            DestStays, Put, Kept, Observe
<1>0. /\ dest' \in Stored /\ dest'.mine = TRUE /\ Mine'
      /\ dest'.of = stream.of /\ dest'.about = described
      /\ dest'.size # Length[stream.of] =>
            trusts /\ described # None /\ described # stream.of
            /\ dest'.size = Length[described]
      /\ overtaken' = overtaken /\ robbed' = robbed
  <2>1. /\ TypeOK /\ ReadInv /\ BodyInv /\ AllTaken /\ Put
    BY DEF StageInv, AllTaken
  <2>2. ~Mine /\ overtaken \in BOOLEAN
    BY DEF DestInv, TypeOK
  <2>3. overtaken' = overtaken
    BY <2>1, <2>2, Putting
  <2> QED
    BY <2>1, <2>3, Putting, NoneAssumption DEF Mine
<1>1. TypeOK'
  BY <1>0 DEF TypeOK, ReadTypeOK
<1>2. ReadInv'
  BY DEF ReadInv, TypeOK, ReadTypeOK, StageInv
<1>3. BodyInv'
  BY DEF BodyInv, TypeOK, ReadTypeOK, Streams, ReadInv, StageInv
<1>4. StageInv'
  BY DEF StageInv, TypeOK, ReadTypeOK, Streams, ReadInv, BodyInv, Uploads
<1>5. DestInv'
  BY <1>0 DEF DestInv, StageInv
<1>6. AnswersAreTrue'
  BY DEF AnswersAreTrue
<1>7. StoredWhole'
  BY <1>0, ObjectsAssumption, KindsAssumption
     DEF StoredWhole, ReadInv, BodyInv, AllTaken, StageInv, Uploads, Adapters, TypeOK,
         ReadTypeOK, KindNames
<1>8. StreamsReleased'
  BY DEF StreamsReleased, Listened, Mine, StageInv, DestInv, Settled, TypeOK, ReadTypeOK,
         Streams
<1>9. RemovalTakesItsOwn'
  BY <1>0 DEF RemovalTakesItsOwn, StageInv
<1> QED
  BY <1>1, <1>2, <1>3, <1>4, <1>5, <1>6, <1>7, <1>8, <1>9

\* What is stored stays when the answer is lost.
LEMMA StoredInVainKeeps ==
    ASSUME IInv, StoredInVain
    PROVE  IInv'
<1> USE DEF IInv, StoredInVain, vars, readVars, callVars, answerVars, options, transferVars,
            DestStays
<1>1. TypeOK'
  BY DEF TypeOK, ReadTypeOK, Stages, Settled
<1>2. ReadInv'
  BY DEF ReadInv, TypeOK, ReadTypeOK, StageInv
<1>3. BodyInv'
  BY DEF BodyInv, TypeOK, ReadTypeOK, Streams, ReadInv, StageInv
<1>4. StageInv'
  BY DEF StageInv, TypeOK, ReadTypeOK, Streams, ReadInv, BodyInv, Uploads
<1>5. DestInv'
  BY DEF DestInv, Mine, StageInv, TypeOK
<1>6. AnswersAreTrue'
  BY DEF AnswersAreTrue
<1>7. StoredWhole'
  BY DEF StoredWhole, Mine
<1>8. StreamsReleased'
  BY DEF StreamsReleased, Listened, Mine, StageInv, DestInv, Settled, TypeOK, ReadTypeOK,
         Streams
<1>9. RemovalTakesItsOwn'
  BY DEF RemovalTakesItsOwn, Mine
<1> QED
  BY <1>1, <1>2, <1>3, <1>4, <1>5, <1>6, <1>7, <1>8, <1>9

\* copyBetween() settles and releases both streams.
LEMMA CopyBetweenSettlesKeeps ==
    ASSUME IInv, CopyBetweenSettles
    PROVE  IInv'
<1> USE DEF IInv, CopyBetweenSettles, vars, readVars, callVars, answerVars, options,
            transferVars, DestStays, ReleaseBoth, Closed, Settles
<1>0. /\ stream' \in Streams /\ stream'.of = stream.of
      /\ stream' = stream \/ stream'.state = IF stream.state \in {"lazy", "open"} THEN "destroyed"
                                             ELSE stream.state
      /\ counting' \in {"none", "open", "destroyed"} /\ (counting = "none" => counting' = "none")
  BY Releasing DEF TypeOK, ReadTypeOK
<1>1. TypeOK'
  BY <1>0 DEF TypeOK, ReadTypeOK, Stages, Settled
<1>2. ReadInv'
  BY <1>0 DEF ReadInv, NoStream, StageInv
<1>3. BodyInv'
  BY DEF BodyInv, TypeOK, ReadTypeOK, Streams, ReadInv, StageInv
<1>4. StageInv'
  BY DEF StageInv, TypeOK, ReadTypeOK, Streams, ReadInv, BodyInv, Uploads
<1>5. DestInv'
  BY DEF DestInv, Mine, StageInv, TypeOK
<1>6. AnswersAreTrue'
  BY DEF AnswersAreTrue
<1>7. StoredWhole'
  BY DEF StoredWhole, Mine
<1>8. StreamsReleased'
  BY DEF StreamsReleased, Listened, Mine, StageInv, DestInv, Settled, TypeOK, ReadTypeOK,
         Streams
<1>9. RemovalTakesItsOwn'
  BY DEF RemovalTakesItsOwn, Mine
<1> QED
  BY <1>1, <1>2, <1>3, <1>4, <1>5, <1>6, <1>7, <1>8, <1>9

\* saveFastifyFile() settles, and releases the body if it failed.
LEMMA FastifySettlesKeeps ==
    ASSUME IInv, FastifySettles
    PROVE  IInv'
<1> USE DEF IInv, FastifySettles, vars, readVars, callVars, answerVars, options,
            transferVars, DestStays, ReleaseBoth, Closed, Settles
<1>0. /\ stream' \in Streams /\ stream'.of = stream.of
      /\ stream' = stream \/ stream'.state = IF stream.state \in {"lazy", "open"} THEN "destroyed"
                                             ELSE stream.state
      /\ counting' \in {"none", "open", "destroyed"} /\ (counting = "none" => counting' = "none")
  BY Releasing DEF TypeOK, ReadTypeOK
<1>1. TypeOK'
  BY <1>0 DEF TypeOK, ReadTypeOK, Stages, Settled
<1>2. ReadInv'
  BY <1>0 DEF ReadInv, NoStream, StageInv
<1>3. BodyInv'
  BY DEF BodyInv, TypeOK, ReadTypeOK, Streams, ReadInv, StageInv
<1>4. StageInv'
  BY DEF StageInv, TypeOK, ReadTypeOK, Streams, ReadInv, BodyInv, Uploads
<1>5. DestInv'
  BY DEF DestInv, Mine, StageInv, TypeOK
<1>6. AnswersAreTrue'
  BY DEF AnswersAreTrue
<1>7. StoredWhole'
  BY DEF StoredWhole, Mine
<1>8. StreamsReleased'
  BY DEF StreamsReleased, Listened, Mine, StageInv, DestInv, Settled, TypeOK, ReadTypeOK,
         Streams
<1>9. RemovalTakesItsOwn'
  BY DEF RemovalTakesItsOwn, Mine
<1> QED
  BY <1>1, <1>2, <1>3, <1>4, <1>5, <1>6, <1>7, <1>8, <1>9

\* The formidable adapter settles; its body may stay as it is.
LEMMA FormidableSettlesKeeps ==
    ASSUME IInv, FormidableSettles
    PROVE  IInv'
<1> USE DEF IInv, FormidableSettles, vars, readVars, callVars, answerVars, options,
            transferVars, DestStays, MaybeClosed, Closed, Settles
<1>0. /\ stream' \in Streams /\ stream'.of = stream.of
      /\ stream' = stream \/ stream'.state = IF stream.state \in {"lazy", "open"} THEN "destroyed"
                                             ELSE stream.state
      /\ counting' \in {"none", "open", "destroyed"} /\ (counting = "none" => counting' = "none")
  BY Releasing DEF TypeOK, ReadTypeOK
<1>1. TypeOK'
  BY <1>0 DEF TypeOK, ReadTypeOK, Stages, Settled
<1>2. ReadInv'
  BY <1>0 DEF ReadInv, NoStream, StageInv
<1>3. BodyInv'
  BY DEF BodyInv, TypeOK, ReadTypeOK, Streams, ReadInv, StageInv
<1>4. StageInv'
  BY DEF StageInv, TypeOK, ReadTypeOK, Streams, ReadInv, BodyInv, Uploads
<1>5. DestInv'
  BY DEF DestInv, Mine, StageInv, TypeOK
<1>6. AnswersAreTrue'
  BY DEF AnswersAreTrue
<1>7. StoredWhole'
  BY DEF StoredWhole, Mine
<1>8. StreamsReleased'
  BY DEF StreamsReleased, Listened, Mine, StageInv, DestInv, Settled, TypeOK, ReadTypeOK,
         Streams
<1>9. RemovalTakesItsOwn'
  BY DEF RemovalTakesItsOwn, Mine
<1> QED
  BY <1>1, <1>2, <1>3, <1>4, <1>5, <1>6, <1>7, <1>8, <1>9

\* So with that of multer, whose saved file is in place or was replaced.
LEMMA HandleFileSettlesKeeps ==
    ASSUME IInv, HandleFileSettles
    PROVE  IInv'
<1> USE DEF IInv, HandleFileSettles, vars, readVars, callVars, answerVars, options,
            transferVars, DestStays, MaybeClosed, Closed, Settles
<1>0. /\ stream' \in Streams /\ stream'.of = stream.of
      /\ stream' = stream \/ stream'.state = IF stream.state \in {"lazy", "open"} THEN "destroyed"
                                             ELSE stream.state
      /\ counting' \in {"none", "open", "destroyed"} /\ (counting = "none" => counting' = "none")
  BY Releasing DEF TypeOK, ReadTypeOK
<1>1. TypeOK'
  BY <1>0 DEF TypeOK, ReadTypeOK, Stages, Settled
<1>2. ReadInv'
  BY <1>0 DEF ReadInv, NoStream, StageInv
<1>3. BodyInv'
  BY DEF BodyInv, TypeOK, ReadTypeOK, Streams, ReadInv, StageInv
<1>4. StageInv'
  BY DEF StageInv, TypeOK, ReadTypeOK, Streams, ReadInv, BodyInv, Uploads
<1>5. DestInv'
  BY DEF DestInv, Mine, StageInv, TypeOK
<1>6. AnswersAreTrue'
  BY DEF AnswersAreTrue
<1>7. StoredWhole'
  BY DEF StoredWhole, Mine
<1>8. StreamsReleased'
  BY DEF StreamsReleased, Listened, Mine, StageInv, DestInv, Settled, TypeOK, ReadTypeOK,
         Streams
<1>9. RemovalTakesItsOwn'
  BY DEF RemovalTakesItsOwn, Mine
<1> QED
  BY <1>1, <1>2, <1>3, <1>4, <1>5, <1>6, <1>7, <1>8, <1>9

\* The caller has the whole body, or its error.
LEMMA CollectSettlesKeeps ==
    ASSUME IInv, CollectSettles
    PROVE  IInv'
<1> USE DEF IInv, CollectSettles, vars, readVars, callVars, answerVars, options,
            transferVars, DestStays, AllTaken, Settles
<1>1. TypeOK'
  BY DEF TypeOK, ReadTypeOK, Stages, Settled
<1>2. ReadInv'
  BY DEF ReadInv, TypeOK, ReadTypeOK, StageInv
<1>3. BodyInv'
  BY DEF BodyInv, TypeOK, ReadTypeOK, Streams, ReadInv, StageInv
<1>4. StageInv'
  BY DEF StageInv, TypeOK, ReadTypeOK, Streams, ReadInv, BodyInv, Uploads
<1>5. DestInv'
  BY DEF DestInv, Mine, StageInv, TypeOK
<1>6. AnswersAreTrue'
  BY DEF AnswersAreTrue
<1>7. StoredWhole'
  BY DEF StoredWhole, Mine
<1>8. StreamsReleased'
  BY DEF StreamsReleased, Listened, Mine, StageInv, DestInv, Settled, TypeOK, ReadTypeOK,
         Streams
<1>9. RemovalTakesItsOwn'
  BY DEF RemovalTakesItsOwn, Mine
<1> QED
  BY <1>1, <1>2, <1>3, <1>4, <1>5, <1>6, <1>7, <1>8, <1>9

\* multer removes only a file it was told is saved: its own, or what replaced it.
LEMMA RemoveFileKeeps ==
    ASSUME IInv, RemoveFile
    PROVE  IInv'
<1> USE DEF IInv, RemoveFile, vars, readVars, callVars, answerVars, options, transferVars,
            DestStays, KeyKnown, Observe
<1>1. TypeOK'
  BY DEF TypeOK, ReadTypeOK, Stages, Settled
<1>2. ReadInv'
  BY DEF ReadInv, TypeOK, ReadTypeOK, StageInv
<1>3. BodyInv'
  BY DEF BodyInv, TypeOK, ReadTypeOK, Streams, ReadInv, StageInv
<1>4. StageInv'
  BY DEF StageInv, TypeOK, ReadTypeOK, Streams, ReadInv, BodyInv, Uploads
<1>5. DestInv'
  BY DEF DestInv, Mine, StageInv, TypeOK
<1>6. AnswersAreTrue'
  BY DEF AnswersAreTrue
<1>7. StoredWhole'
  BY DEF StoredWhole, Mine
<1>8. StreamsReleased'
  BY DEF StreamsReleased, Listened, Mine, StageInv, DestInv, Settled, TypeOK, ReadTypeOK,
         Streams
<1>9. RemovalTakesItsOwn'
  BY DEF RemovalTakesItsOwn, Mine, DestInv, TypeOK
<1> QED
  BY <1>1, <1>2, <1>3, <1>4, <1>5, <1>6, <1>7, <1>8, <1>9

\* Others change the source: what it was stays on record.
LEMMA SourceChangedKeeps ==
    ASSUME IInv, SourceChanged
    PROVE  IInv'
<1> USE DEF IInv, SourceChanged, vars, readVars, callVars, answerVars, options,
            transferVars, DestStays, SourceChanges
<1>1. TypeOK'
  BY ObjectsAssumption DEF TypeOK, ReadTypeOK, MaybeObject
<1>2. ReadInv'
  BY DEF ReadInv, TypeOK, ReadTypeOK, StageInv
<1>3. BodyInv'
  BY DEF BodyInv, TypeOK, ReadTypeOK, Streams, ReadInv, StageInv
<1>4. StageInv'
  BY DEF StageInv, TypeOK, ReadTypeOK, Streams, ReadInv, BodyInv, Uploads
<1>5. DestInv'
  BY DEF DestInv, Mine, StageInv, TypeOK
<1>6. AnswersAreTrue'
  BY DEF AnswersAreTrue, ReadInv
<1>7. StoredWhole'
  BY DEF StoredWhole, Mine
<1>8. StreamsReleased'
  BY DEF StreamsReleased, Listened, Mine, StageInv, DestInv, Settled, TypeOK, ReadTypeOK,
         Streams
<1>9. RemovalTakesItsOwn'
  BY DEF RemovalTakesItsOwn, Mine
<1> QED
  BY <1>1, <1>2, <1>3, <1>4, <1>5, <1>6, <1>7, <1>8, <1>9

\* Others change the destination: what is there is not of the call, and if it
\* was, the call is overtaken.
LEMMA DestChangedKeeps ==
    ASSUME IInv, DestChanged
    PROVE  IInv'
<1> USE DEF IInv, DestChanged, vars, readVars, callVars, answerVars, options, transferVars,
            DestStays, Uploads, Observe
<1>0. dest' \in Stored \cup {None} /\ ~Mine'
  BY OthersAreNotMine DEF Mine
<1>1. TypeOK'
  <2>1. changes' \in 0 .. MaxChanges
    BY ObjectsAssumption DEF TypeOK, ReadTypeOK
  <2>2. overtaken' \in BOOLEAN /\ robbed' \in BOOLEAN
    OBVIOUS
  <2> QED
    BY <1>0, <2>1, <2>2 DEF TypeOK, ReadTypeOK
<1>2. ReadInv'
  BY DEF ReadInv, TypeOK, ReadTypeOK, StageInv
<1>3. BodyInv'
  BY DEF BodyInv, TypeOK, ReadTypeOK, Streams, ReadInv, StageInv
<1>4. StageInv'
  BY DEF StageInv, TypeOK, ReadTypeOK, Streams, ReadInv, BodyInv, Uploads
<1>5. DestInv'
  BY <1>0 DEF DestInv, TypeOK
<1>6. AnswersAreTrue'
  BY DEF AnswersAreTrue
<1>7. StoredWhole'
  BY <1>0 DEF StoredWhole
<1>8. StreamsReleased'
  BY <1>0 DEF StreamsReleased, Listened
<1>9. RemovalTakesItsOwn'
  BY <1>0 DEF RemovalTakesItsOwn, TypeOK
<1> QED
  BY <1>1, <1>2, <1>3, <1>4, <1>5, <1>6, <1>7, <1>8, <1>9

\* The invariant holds initially.
LEMMA InitIInv ==
    ASSUME Init
    PROVE  IInv
<1>1. source \in MaybeObject /\ were = {source} /\ changes = 0
  BY DEF Init
<1>2. stream \in Streams
  BY <1>1 DEF Init, Streams, States, NoStream, LazyStream, MaybeObject
<1>3. dest \in Stored \cup {None} /\ ~Mine
  BY OthersAreNotMine DEF Init, Mine
<1>4. /\ kind \in {"fastify", "multer"} => stream.state = "open" /\ stream.of = source
                                          /\ source \in Objects
      /\ kind = "formidable" => stream.state = "lazy" /\ stream.of = None
      /\ kind \notin Adapters => stream = NoStream /\ stream.of = None /\ stream.state = "none"
  BY DEF Init, Adapters, LazyStream, NoStream, MaybeObject
<1>5. TypeOK
  <2>1. ReadTypeOK
    BY <1>1, <1>2, ObjectsAssumption
       DEF Init, ReadTypeOK, Answers, Errors, Causes, Reads, Adapters, MaybeObject
  <2>2. /\ kind \in Kinds
        /\ <<overwrite, random, removes, trusts>> \in BOOLEAN \X BOOLEAN \X BOOLEAN \X BOOLEAN
    BY DEF Init
  <2>3. stage \in Stages /\ counting = "none" /\ sent = 0 /\ taken = 0
    BY DEF Init, Stages
  <2>4. <<heard, pending, overtaken, robbed>> \in BOOLEAN \X BOOLEAN \X BOOLEAN \X BOOLEAN
    BY DEF Init
  <2> QED
    BY <1>3, <2>1, <2>2, <2>3, <2>4, LengthAssumption DEF TypeOK
<1>6. ReadInv
  BY <1>1, <1>4 DEF Init, ReadInv, Adapters, Reads
<1>7. BodyInv
  BY <1>1, <1>4, KindsAssumption, LengthAssumption DEF Init, BodyInv, Adapters, KindNames
<1>8. StageInv
  BY DEF Init, StageInv, Adapters
<1>9. DestInv
  BY <1>3 DEF Init, DestInv, Adapters
<1>10. AnswersAreTrue
  BY DEF Init, AnswersAreTrue
<1>11. StoredWhole /\ StreamsReleased /\ RemovalTakesItsOwn
  BY <1>3 DEF Init, StoredWhole, StreamsReleased, RemovalTakesItsOwn, Settled, Adapters
<1> QED
  BY <1>5, <1>6, <1>7, <1>8, <1>9, <1>10, <1>11 DEF IInv

\* Nothing else happens to it.
LEMMA StutterKeeps ==
    ASSUME IInv, UNCHANGED vars
    PROVE  IInv'
<1> USE DEF IInv, vars, readVars, callVars, answerVars, options, transferVars
<1>1. TypeOK' /\ ReadInv' /\ BodyInv'
  BY DEF TypeOK, ReadTypeOK, ReadInv, BodyInv
<1>2. StageInv' /\ DestInv'
  BY DEF StageInv, DestInv, Mine, Uploads
<1>3. AnswersAreTrue' /\ StoredWhole' /\ StreamsReleased' /\ RemovalTakesItsOwn'
  BY DEF AnswersAreTrue, StoredWhole, StreamsReleased, RemovalTakesItsOwn, Mine, Listened
<1> QED
  BY <1>1, <1>2, <1>3

(***************************************************************************)
(* The theorems.                                                           *)
(***************************************************************************)

\* The inductive invariant is one of every behaviour: of every call, whatever
\* fails, at whatever moment, and whatever others do to the two keys.
THEOREM TransfersInductive == Spec => []IInv
<1>1. Init => IInv
  BY InitIInv
<1>2. IInv /\ [Next]_vars => IInv'
  <2> SUFFICES ASSUME IInv, [Next]_vars PROVE IInv'
    OBVIOUS
  <2>1. CASE UNCHANGED vars
    BY <2>1, StutterKeeps
  <2>2. CASE Read
    BY <2>2, ReadKeeps
  <2>3. CASE ReadSettles
    BY <2>3, ReadSettlesKeeps
  <2>4. CASE DownloadHookThrows
    BY <2>4, DownloadHookThrowsKeeps
  <2>5. CASE Collect
    BY <2>5, CollectKeeps
  <2>6. CASE Pipe
    BY <2>6, PipeKeeps
  <2>7. CASE Open
    BY <2>7, OpenKeeps
  <2>8. CASE Count
    BY <2>8, CountKeeps
  <2>9. CASE Take
    BY <2>9, TakeKeeps
  <2>10. CASE BodyFails
    BY <2>10, BodyFailsKeeps
  <2>11. CASE Attach
    BY <2>11, AttachKeeps
  <2>12. CASE UploadFails
    BY <2>12, UploadFailsKeeps
  <2>13. CASE Store
    BY <2>13, StoreKeeps
  <2>14. CASE StoreLate
    BY <2>14, StoreLateKeeps
  <2>15. CASE StoredInVain
    BY <2>15, StoredInVainKeeps
  <2>16. CASE CopyBetweenSettles
    BY <2>16, CopyBetweenSettlesKeeps
  <2>17. CASE FastifySettles
    BY <2>17, FastifySettlesKeeps
  <2>18. CASE FormidableSettles
    BY <2>18, FormidableSettlesKeeps
  <2>19. CASE HandleFileSettles
    BY <2>19, HandleFileSettlesKeeps
  <2>20. CASE CollectSettles
    BY <2>20, CollectSettlesKeeps
  <2>21. CASE RemoveFile
    BY <2>21, RemoveFileKeeps
  <2>22. CASE SourceChanged
    BY <2>22, SourceChangedKeeps
  <2>23. CASE DestChanged
    BY <2>23, DestChangedKeeps
  <2> QED
    BY <2>1, <2>2, <2>3, <2>4, <2>5, <2>6, <2>7, <2>8, <2>9, <2>10, <2>11, <2>12,
       <2>13, <2>14, <2>15, <2>16, <2>17, <2>18, <2>19, <2>20, <2>21, <2>22, <2>23 DEF Next
<1> QED
  BY <1>1, <1>2, PTL DEF Spec

\* The types; among them that the Transform of copyBetween() never holds more
\* chunks than its high-water mark, however long the body.
THEOREM TransfersTypeCorrect == Spec => []TypeOK
<1>1. IInv => TypeOK
  BY DEF IInv
<1> QED
  BY <1>1, TransfersInductive, PTL

\* exists(), stat() and download() of every driver say that there is no object
\* only if there was none during the call, and class a refusal by its cause.
THEOREM ReadsAnswerTruly == Spec => []AnswersAreTrue
<1>1. IInv => AnswersAreTrue
  BY DEF IInv
<1> QED
  BY <1>1, TransfersInductive, PTL

\* Whatever fails on the way, what is stored is the whole body of one object
\* under its own metadata, but for the lazy streams.
THEOREM StoredIsWhole == Spec => []StoredWhole
<1>1. IInv => StoredWhole
  BY DEF IInv
<1> QED
  BY <1>1, TransfersInductive, PTL

\* When copyBetween() or saveFastifyFile() has settled no stream is left open,
\* and only a stream nobody listens to yet can end the process.
THEOREM StreamsAreReleased == Spec => []StreamsReleased
<1>1. IInv => StreamsReleased
  BY DEF IInv
<1> QED
  BY <1>1, TransfersInductive, PTL

\* multer takes back what its request stored and nothing else, unless another
\* has replaced it, which no random key suffers.
THEOREM RemovalIsOfItsOwn == Spec => []RemovalTakesItsOwn
<1>1. IInv => RemovalTakesItsOwn
  BY DEF IInv
<1> QED
  BY <1>1, TransfersInductive, PTL
=============================================================================
