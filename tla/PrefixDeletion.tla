--------------------------- MODULE PrefixDeletion ---------------------------
(***************************************************************************)
(* deletePrefix(): it collects every file under a prefix, page by page,    *)
(* then deletes what it collected, batch by batch, through deleteMany() of *)
(* a storage or of a scoped view.  Each driver lists pages and deletes     *)
(* batches in its own way; meanwhile others create and delete objects.     *)
(*                                                                         *)
(* The bucket is a set of keys, and `order` is the order a listing returns *)
(* them in.  A path is what the caller is told of a key: the configured    *)
(* prefix, and the scope of a view, are stripped; to delete a path they    *)
(* are put in front again, after the path was normalised.  Most names are  *)
(* Normal: normalising leaves them alone.  A backslash, a dot or an empty  *)
(* segment makes one that is not, and its path leads to another key.       *)
(***************************************************************************)
EXTENDS ObjectKeys, Integers, FiniteSets

CONSTANTS
    Order,          \* all keys, in the order of a listing
    Root,           \* the configured prefix of the storage, or <<>>
    Drivers,        \* the drivers considered
    Scopes,         \* the scopes of the view considered; <<>>: no view
    Asks,           \* the prefixes to delete
    PageSize,       \* most files of a page
    BatchSize,      \* paths of a deleteMany() call of deletePrefix
    ChunkSize,      \* keys of one DeleteObjects request of the s3 driver
    MaxChanges      \* bound: keys others create or delete

DriverNames == {"s3", "minio", "azure", "gcs", "oracle", "local"}

ASSUME SizesAssumption == {PageSize, BatchSize, ChunkSize} \subseteq Nat \ {0} /\ MaxChanges \in Nat
ASSUME DriversAssumption == Drivers \subseteq DriverNames

Keys == Range(Order)
Places == DOMAIN Order

Segments ==
    LET written == {Range(path) : path \in Keys \cup Scopes \cup Asks \cup {Root}}
        split == {Range(Pieces[s]) : s \in DOMAIN Pieces}
    IN {Empty} \cup (UNION written) \cup (UNION split)

ASSUME OrderAssumption == Order \in Seq(Keys)

\* Names are split into segments, scopedStorage() has normalised the scope, and the
\* constructors of the drivers refuse a prefix that cannot be normalised.
ASSUME NamesAssumption ==
    /\ Keys \cup Scopes \cup Asks \cup {Root} \subseteq Seq(Segments)
    /\ \A s \in Scopes : NormalizeKey(s) = s
    /\ Root = <<>> \/ NormalizeKey(Root) # Rejected

VARIABLES
    driver, scope, prefix,      \* the call: whose storage, which view, which prefix
    store,      \* the keys of the bucket
    stage,      \* what deletePrefix is doing
    cursor,     \* place in Order that the next page goes on from
    listed,     \* the keys collected so far
    missed,     \* history: keys that a page has passed without listing them
    begun,      \* how many of those listed have been given to deleteMany()
    waiting,    \* positions in `listed` without a verdict of the current batch
    verdict,    \* position -> what the result says of it
    steady,     \* history: keys there since the beginning
    gone,       \* history: keys not there at some moment since the listing ended
    changes     \* keys others have created or deleted

call    == <<driver, scope, prefix>>
collected == <<listed, missed>>
report  == <<collected, begun, waiting, verdict>>
vars    == <<call, store, stage, cursor, report, steady, gone, changes>>

Ended    == {"resolved", "rejected"}
Deleting == {"batches", "asking", "each"}
Stages   == {"begin", "listing"} \cup Deleting \cup Ended

TypeOK ==
    /\ driver \in Drivers /\ scope \in Scopes /\ prefix \in Asks
    /\ store \in SUBSET Keys
    /\ stage \in Stages
    /\ cursor \in 0 .. Len(Order)
    /\ listed \in Seq(Keys)
    /\ missed \in SUBSET Keys /\ (driver # "local" => missed = {})
    /\ begun \in 0 .. Len(listed)
    /\ waiting \in SUBSET (1 .. begun)
    /\ verdict \in [1 .. begun -> {"open", "deleted", "failed"}]
    /\ steady \in SUBSET store
    /\ gone \in SUBSET Keys
    /\ changes \in 0 .. MaxChanges

\* A file system has no file of an empty name, ".", ".." or NUL; a backslash is a
\* character like any other.
CanExist(k) ==
    driver = "local" => \A i \in DOMAIN k : k[i] \notin {Empty, Dot} \cup Refused

Init ==
    /\ driver \in Drivers /\ scope \in Scopes /\ prefix \in Asks
    /\ store \in {s \in SUBSET Keys : \A k \in s : CanExist(k)}
    /\ stage = "begin"
    /\ cursor = 0
    /\ listed = <<>> /\ missed = {} /\ begun = 0 /\ waiting = {} /\ verdict = <<>>
    /\ steady = store /\ gone = {} /\ changes = 0

(***************************************************************************)
(* Names.                                                                  *)
(***************************************************************************)

\* The prefix in front of all names.  The local driver resolves each name that it
\* puts it in front of, which comes to having normalised it once.
Home == IF driver = "local" THEN NormalizeKey(Root) ELSE Root

Asked == JoinKey(Home, ListPrefix(scope, prefix))

\* The local driver walks the directory of that name; providers compare names.
Under(k) ==
    IF driver = "local"
    THEN ResolveInsideRoot(Asked) # Rejected /\ IsStrictPrefix(ResolveInsideRoot(Asked), k)
    ELSE HasPrefix(k, Asked)

\* (The local driver spells the names it lists as the caller has spelled the prefix,
\* up to what normalising them undoes.)
PathOf(k) == OutOfScope(scope, StripKey(Home, k))

\* Normalising the path of the key leaves it alone, or refuses it.
Normal(k) == NormalizeKey(PathOf(k)) \in {PathOf(k), Rejected}

\* (Faulty variant: deleteMany() of the view passes the paths on as they are.)
AddressOutOfScope(k) ==
    LET key == NormalizeKey(PathOf(k)) IN
    IF key = Rejected THEN Rejected ELSE JoinKey(Home, key)

\* The key that deleting the path of k addresses, or Rejected.
Address(k) ==
    LET key == InScope(scope, PathOf(k)) IN
    IF key = Rejected THEN Rejected
    ELSE IF driver = "local" THEN ResolveInsideRoot(JoinKey(Home, key))
    ELSE JoinKey(Home, key)

(***************************************************************************)
(* History.                                                                *)
(***************************************************************************)
Observe ==
    /\ steady' = steady \cap store'
    /\ gone' = IF stage' \in {"begin", "listing"} THEN {} ELSE gone \cup (Keys \ store')

RemoveKeys(ks) == store' = store \ ks

(***************************************************************************)
(* Listing.                                                                *)
(***************************************************************************)

\* (Faulty variant: the empty prefix is let through.)
BeginAnyPrefix ==
    /\ stage = "begin"
    /\ stage' = "listing"
    /\ UNCHANGED <<call, store, cursor, report, changes>>
    /\ Observe

\* An empty prefix is refused; a view refuses one it cannot normalise, and so
\* does the local driver.
Begin ==
    /\ stage = "begin"
    /\ stage' = IF \/ Blank(prefix)
                   \/ ListPrefix(scope, prefix) = Rejected
                   \/ driver = "local" /\ ResolveInsideRoot(Asked) = Rejected
                THEN "rejected" ELSE "listing"
    /\ UNCHANGED <<call, store, cursor, report, changes>>
    /\ Observe

\* Oracle's nextStartWith is the first key of the next page, the tokens of
\* the others stand for the last place a page has covered.
Remaining ==
    {i \in Places :
        /\ Order[i] \in store /\ Under(Order[i])
        /\ IF driver = "oracle" THEN cursor <= i ELSE cursor < i}

Least(s) == CHOOSE i \in s : \A j \in s : i <= j

\* The page that covers all places up to `last`, and lists those of `files`; next:
\* the cursor it returns, 0 for none.
Page(files, last, next) ==
    LET page == {i \in files : i <= last} IN
    /\ Cardinality(page) <= PageSize
    /\ listed' = listed \o [n \in 1 .. Cardinality(page) |->
                               Order[CHOOSE i \in page : Cardinality({j \in page : j <= i}) = n]]
    /\ missed' = missed \cup {Order[i] : i \in {j \in Remaining \ files : j <= last}}
    /\ cursor' = next
    /\ stage' = IF next = 0 THEN "batches" ELSE "listing"

\* A page as long as it may be.
FullPage(last) ==
    LET page == {i \in Remaining : i <= last} IN
    page = Remaining \/ (last \in page /\ Cardinality(page) = PageSize)

\* The provider says whether a key is left, and the token stands for the last
\* key of the page.
CountedPage ==
    \E last \in Places :
        /\ FullPage(last)
        /\ Page(Remaining, last, IF \E i \in Remaining : i > last THEN last ELSE 0)

\* Pages may be short, even empty, and a token be given though no key is left.
TokenPage(files) ==
    \E last \in cursor + 1 .. Len(Order) :
        Page(files, last, IF last < Len(Order) THEN last ELSE 0)

S3List    == driver = "s3" /\ CountedPage
MinioList == driver = "minio" /\ CountedPage
AzureList == driver = "azure" /\ TokenPage(Remaining)
GcsList   == driver = "gcs" /\ TokenPage(Remaining)

\* The directories below that of the prefix.
Directories ==
    {d \in UNION {{SubSeq(k, 1, n) : n \in 1 .. Len(k) - 1} : k \in Keys} :
        IsStrictPrefix(ResolveInsideRoot(Asked), d)}

\* The walk passes over a directory that it cannot read.
Readable ==
    {{i \in Remaining : \A d \in unread : ~IsStrictPrefix(d, Order[i])} :
        unread \in SUBSET Directories}

\* Directories count in a page of the local driver, but are no files.  If that of the
\* prefix cannot be accessed the listing is empty, and at its end.
LocalList ==
    /\ driver = "local"
    /\ \/ Page({}, Len(Order), 0)
       \/ \E files \in Readable : TokenPage(files)

\* (Faulty variant: the start of the next page is taken for the end of this one.)
OracleListPastNext ==
    /\ driver = "oracle"
    /\ \E last \in Places :
          LET left == {i \in Remaining : i > last} IN
          /\ FullPage(last)
          /\ Page(Remaining, last, IF left = {} THEN 0 ELSE Least(left) + 1)

OracleList ==
    /\ driver = "oracle"
    /\ \E last \in Places :
          LET left == {i \in Remaining : i > last} IN
          /\ FullPage(last)
          /\ Page(Remaining, last, IF left = {} THEN 0 ELSE Least(left))

\* iterate(): page after page until one has no cursor.
List ==
    /\ stage = "listing"
    /\ S3List \/ MinioList \/ AzureList \/ GcsList \/ LocalList \/ OracleList
    /\ UNCHANGED <<call, store, begun, waiting, verdict, changes>>
    /\ Observe

ListFails ==
    /\ stage = "listing"
    /\ stage' = "rejected"
    /\ UNCHANGED <<call, store, cursor, report, changes>>
    /\ Observe

(***************************************************************************)
(* Deleting.                                                               *)
(***************************************************************************)

NextBatch == {i \in DOMAIN listed : begun < i /\ i <= begun + BatchSize}

\* Normalising the path is refused.
PathRefused(i) == InScope(scope, PathOf(listed[i])) = Rejected

Unaddressable(i) == Address(listed[i]) = Rejected

\* (Faulty variant: the last batch counts as a full one.)
TakeFullBatch(stageOfDriver) ==
    /\ stage' = stageOfDriver
    /\ begun' = begun + BatchSize
    /\ waiting' = {i \in NextBatch : ~Unaddressable(i)}
    /\ verdict' = [i \in 1 .. begun' |->
                      IF i <= begun THEN verdict[i]
                      ELSE IF i \in NextBatch /\ Unaddressable(i) THEN "failed"
                      ELSE "open"]

\* The batch is in the driver's hands: paths it cannot address have failed.
TakeBatch(stageOfDriver) ==
    /\ stage' = stageOfDriver
    /\ begun' = begun + Cardinality(NextBatch)
    /\ waiting' = {i \in NextBatch : ~Unaddressable(i)}
    /\ verdict' = [i \in 1 .. begun' |->
                      IF i <= begun THEN verdict[i]
                      ELSE IF Unaddressable(i) THEN "failed"
                      ELSE "open"]

\* All paths are normalised before the first request: one that cannot be
\* rejects the whole call.
NormalizeFirst(stageOfDriver) ==
    IF \E i \in NextBatch : PathRefused(i)
    THEN stage' = "rejected" /\ UNCHANGED <<begun, waiting, verdict>>
    ELSE TakeBatch(stageOfDriver)

S3DeleteMany     == driver = "s3" /\ NormalizeFirst("asking")
MinioDeleteMany  == driver = "minio" /\ NormalizeFirst("asking")
GcsDeleteMany    == driver = "gcs" /\ NormalizeFirst("each")
AzureDeleteMany  == driver = "azure" /\ TakeBatch("each")
OracleDeleteMany == driver = "oracle" /\ TakeBatch("each")
LocalDeleteMany  == driver = "local" /\ TakeBatch("each")

DriverDeleteMany ==
    \/ S3DeleteMany \/ MinioDeleteMany \/ GcsDeleteMany
    \/ AzureDeleteMany \/ OracleDeleteMany \/ LocalDeleteMany

\* A view puts all paths in its scope before it calls the storage.
ViewDeleteMany ==
    IF scope # <<>> /\ \E i \in NextBatch : PathRefused(i)
    THEN stage' = "rejected" /\ UNCHANGED <<begun, waiting, verdict>>
    ELSE DriverDeleteMany

\* The next batch of deletePrefix.
StartBatch ==
    /\ stage = "batches"
    /\ NextBatch # {}
    /\ ViewDeleteMany
    /\ UNCHANGED <<call, store, cursor, collected, changes>>
    /\ Observe

\* (Faulty variant: the loop ends when fewer paths than a batch are left.)
FinishEarly ==
    /\ stage = "batches"
    /\ begun + BatchSize > Len(listed)
    /\ stage' = "resolved"
    /\ UNCHANGED <<call, store, cursor, report, changes>>
    /\ Observe

Finish ==
    /\ stage = "batches"
    /\ NextBatch = {}
    /\ stage' = "resolved"
    /\ UNCHANGED <<call, store, cursor, report, changes>>
    /\ Observe

\* (Faulty variant: the loop over the chunks does not end with the last one.)
JudgeForever(deleted, failed) ==
    /\ verdict' = [i \in DOMAIN verdict |->
                      IF i \in deleted THEN "deleted"
                      ELSE IF i \in failed THEN "failed"
                      ELSE verdict[i]]
    /\ waiting' = waiting \ (deleted \cup failed)
    /\ stage' = stage

\* Positions with a verdict now; the batch is over when none is waiting.
Judge(deleted, failed) ==
    /\ verdict' = [i \in DOMAIN verdict |->
                      IF i \in deleted THEN "deleted"
                      ELSE IF i \in failed THEN "failed"
                      ELSE verdict[i]]
    /\ waiting' = waiting \ (deleted \cup failed)
    /\ stage' = IF waiting' = {} THEN "batches" ELSE stage

Addresses(positions) == {Address(listed[i]) : i \in positions}

\* The keys of one request: s3 sends a chunk, minio the batch.
Chunk ==
    IF driver = "s3"
    THEN {i \in waiting : Cardinality({j \in waiting : j <= i}) <= ChunkSize}
    ELSE waiting

\* One request for many keys is answered: some are gone, the others have an
\* error each.
ManyAnswered ==
    /\ stage = "asking"
    /\ \E errors \in SUBSET Chunk :
          /\ RemoveKeys(Addresses(Chunk \ errors))
          /\ Judge(Chunk \ errors, errors)
    /\ UNCHANGED <<call, cursor, collected, begun, changes>>
    /\ Observe

\* (Faulty variant: a chunk that fails is taken for deleted.)
S3ChunkFailsSilently ==
    /\ stage = "asking"
    /\ driver = "s3"
    /\ \E some \in SUBSET Chunk : RemoveKeys(Addresses(some)) /\ Judge(Chunk, {})
    /\ UNCHANGED <<call, cursor, collected, begun, changes>>
    /\ Observe

\* (Faulty variant: the error of a chunk is thrown.)
S3ChunkThrows ==
    /\ stage = "asking"
    /\ driver = "s3"
    /\ stage' = "rejected"
    /\ UNCHANGED <<call, store, cursor, report, changes>>
    /\ Observe

\* s3: a chunk whose request fails counts as failed, though some of its keys
\* may be gone; the next chunk is sent all the same.
S3ChunkFails ==
    /\ stage = "asking"
    /\ driver = "s3"
    /\ \E some \in SUBSET Chunk : RemoveKeys(Addresses(some)) /\ Judge({}, Chunk)
    /\ UNCHANGED <<call, cursor, collected, begun, changes>>
    /\ Observe

\* minio: after a batch that failed, each of its paths is deleted by itself.
MinioFallsBack ==
    /\ stage = "asking"
    /\ driver = "minio"
    /\ \E some \in SUBSET Chunk : RemoveKeys(Addresses(some))
    /\ stage' = "each"
    /\ UNCHANGED <<call, cursor, report, changes>>
    /\ Observe

\* Promise.allSettled of delete(): the requests end in any order.  Only the
\* oracle driver takes the absence of the object for a failure.
DeleteAnswered(i) ==
    /\ stage = "each"
    /\ IF driver = "oracle" /\ Address(listed[i]) \notin store
       THEN Judge({}, {i}) ELSE Judge({i}, {})
    /\ RemoveKeys(Addresses({i}))
    /\ UNCHANGED <<call, cursor, collected, begun, changes>>
    /\ Observe

DeleteFails(i) ==
    /\ stage = "each"
    /\ \E some \in SUBSET {i} : RemoveKeys(Addresses(some))
    /\ Judge({}, {i})
    /\ UNCHANGED <<call, cursor, collected, begun, changes>>
    /\ Observe

\* No path of a batch was left to ask for.
NothingToAsk ==
    /\ stage = "each" /\ waiting = {}
    /\ stage' = "batches"
    /\ UNCHANGED <<call, store, cursor, report, changes>>
    /\ Observe

(***************************************************************************)
(* Others create and delete objects.                                       *)
(***************************************************************************)
Others ==
    /\ stage \notin Ended
    /\ changes < MaxChanges
    /\ \E k \in Keys :
          /\ CanExist(k)
          /\ store' = IF k \in store THEN store \ {k} ELSE store \cup {k}
    /\ changes' = changes + 1
    /\ UNCHANGED <<call, stage, cursor, report>>
    /\ Observe

Step ==
    \/ Begin \/ List \/ ListFails
    \/ StartBatch \/ Finish
    \/ ManyAnswered \/ S3ChunkFails \/ MinioFallsBack
    \/ \E i \in waiting : DeleteAnswered(i) \/ DeleteFails(i)
    \/ NothingToAsk

Next == Step \/ Others

\* The caller's task goes on whenever it can, and every request is answered
\* or fails at last.
Spec == Init /\ [][Next]_vars /\ WF_vars(Step)

(***************************************************************************)
(* Properties.                                                             *)
(***************************************************************************)

\* A result accounts for every path collected: each is either in `deleted` or
\* in `failed`, across pages, batches, chunks and fallbacks.
ReportAddsUp ==
    stage = "resolved" =>
        /\ begun = Len(listed)
        /\ \A i \in DOMAIN listed : verdict[i] # "open"

\* The path that a listing made of a key leads deleteMany() back to that key, or
\* to none: stripping the prefix of the storage and the scope of the view, and
\* putting them in front again of what was normalised, cancel out.  Where the
\* normalisation changes the name itself, the path leads to the key, and no other,
\* that the name is normalised to.
PathsNameTheirKeys ==
    \A i \in DOMAIN listed :
        \/ Unaddressable(i)
        \/ IF Normal(listed[i]) THEN Address(listed[i]) = listed[i]
           ELSE NormalizeKey(Address(listed[i])) = NormalizeKey(listed[i])

\* As a caller takes the report: what is in `deleted` was absent at some moment
\* after the listing.  The code does not keep this for names that are not normal.
DeletedWereGone ==
    \A i \in DOMAIN verdict : verdict[i] = "deleted" => listed[i] \in gone

\* A name that normalising leaves alone is only reported as deleted if it was
\* absent at some moment after the listing: no failed request, and no key other than
\* the listed one, stands behind such a report.
NormalDeletedWereGone ==
    \A i \in DOMAIN verdict :
        verdict[i] = "deleted" /\ Normal(listed[i]) => listed[i] \in gone

\* After a result without failures no file of a normal name is left under the
\* prefix that was there when deletePrefix began: pages lose none, whatever comes and
\* goes, but those in directories that the local driver could not read.
SteadyEmptied ==
    stage = "resolved" /\ (\A i \in DOMAIN verdict : verdict[i] = "deleted")
        => \A k \in steady : Under(k) /\ Normal(k) => k \in missed

\* Once something was deleted the call only rejects because of a name it
\* cannot address: failing requests are listed per path, and no report of a
\* batch already deleted is lost to them.
OnlyNamesReject ==
    stage = "rejected" /\ begun > 0 => \E i \in DOMAIN listed : PathRefused(i)

\* deletePrefix removes nothing outside the scope of the view and the prefix of the
\* storage, whatever is stored there; and nothing but files under the prefix it was
\* given, except where a name listed under it is normalised to that of another file.
\* (Steps of others are those that count a change.)
OutsideUntouched ==
    [][changes' = changes =>
          \A k \in store \ store' :
              /\ IsStrictPrefix(JoinKey(Home, scope), k)
              /\ \/ Under(k)
                 \/ \E i \in DOMAIN listed : ~Normal(listed[i]) /\ Address(listed[i]) = k]_vars

\* The call comes to an end, whatever others create and delete meanwhile.
Settles == <>(stage \in Ended)
=============================================================================
