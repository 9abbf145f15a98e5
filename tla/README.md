# storagekit, specified

TLA+ modules about `@mohamedhabibwork/storagekit`: one TypeScript interface over
eight object stores. The modules say what a storage driver promises, model how
the drivers keep (or break) that promise under concurrency and lost requests,
and prove the parts that matter for any number of callers and keys.
Paths below are relative to the repository; `PROJECT.json` maps every definition
to the lines it stands for.

## Inventory

| Part | State it keeps | Operations | Talks to | What makes it correct |
|---|---|---|---|---|
| Cloud drivers: `s3` (and `r2`, `rustfs`, which wrap it), `minio`, `azure`, `gcs` | none about objects; an SDK client | upload, download, delete, deleteMany, exists, stat, list, copy, move, URLs | the provider, one awaited request at a time | answers tell the truth about effects; `overwrite: false`; move loses nothing; delete is idempotent |
| `oracle` driver | none | the same; multipart upload of its own; copies are only *accepted* | OCI | as above; a multipart object is whole or absent |
| `local` driver | the file system | the same, in several system calls each | `node:fs` | no torn or lost file; pages of a listing add up to the listing |
| `StorageInstance` | listeners, hooks | every driver call, wrapped: hook, driver, hook, event, error hook | the driver, user callbacks | one event per call, with the right verdict; callbacks never change the outcome of a failure |
| `createStorageManager`, `createStorage`, SDK loaders | memoised promises | disk, defaultDisk, warmup; ready | dynamic import, driver constructors | one instance per disk; a failure is retried, not remembered |
| Helpers: `iterate`, `listAll`, `deletePrefix`, `copyBetween`, `scoped`, `checksum` | none | loops over the instance's calls | `StorageInstance` | pages lose no file; truthful reports; nothing outside the prefix or scope is touched; no truncated object; no stream left open |
| Upload adapters: multer (express), fastify, formidable | the file record multer shares between callbacks | `_handleFile`, `_removeFile`, `saveUpload` | `StorageInstance`, multer | an aborted request leaves no object and takes nobody else's |
| `core/*` | none | key normalisation, errors, streams | - | pure functions |

What is hard: every operation is a sequence of awaited requests, any number of
them run at once on one event loop, the provider may carry out a request whose
answer was lost, nobody retries, and nothing is locked. The line-by-line list
is under "hazards" in `PROJECT.json`.

## Plan

Done:

1. `StorageRequests`, `ObjectStore` (the promise), `CloudDriver`, `CloudDriverProofs`.
2. `StorageInstance`: hooks and events around a driver known by its promise only;
   `StorageInstanceProofs`: the instance keeps that same promise.
3. `OracleDriver`: asynchronous copies and a multipart upload of its own;
   `OracleDriverProofs`: its invariants, and the promise for all calls but moves.
4. `LocalListing`, `LocalListingProofs`: the pages of a recursive listing.
5. `StorageManager`, `StorageManagerProofs`: memoised creation and SDK loading.
6. `LocalDriver`, `LocalDriverProofs`: upload, download, delete, copy and move as
   calls of `node:fs`.
7. `ObjectKeys`, `PrefixDeletion`, `PrefixDeletionProofs`: `list` and `deleteMany` of
   each driver, composed by `deletePrefix`, directly or through a scoped view.
8. `DriverReads`, `Transfers`, `TransfersProofs`: the reading calls and their errors,
   and what becomes of a body in `copyBetween` and in the web adapters.

`MC*` modules give the constants for TLC; `*Proofs` modules extend the module they
prove about. `CloudDriver`, `OracleDriver` and `StorageInstance` each instantiate
`ObjectStore` with a refinement mapping and do not know each other: what an
instance over a cloud driver does follows from the two refinements.
`PrefixDeletion` extends `ObjectKeys`, `Transfers` extends `DriverReads`; for what
an upload does to its destination `Transfers` goes by `ObjectStore`'s promise.
Liveness stays with TLC.

## Modules

### `StorageRequests`

The vocabulary: the calls of `StorageDriver` that change something (`upload`,
`delete`, `copy`, `move`, with `overwrite`), and the effects of provider requests
on a bucket (put, remove, copy). Keys and bodies are opaque: normalisation,
content types, metadata and URLs do not decide any of the properties.

### `ObjectStore` - the promise

What any driver owes its callers. `store` maps keys to objects; a call has
effects in order (a move: copy, then remove), each happens at most once, and the
answer relates to them: `ok` after all, an error after any prefix - and the next
effect may still happen later (`late`), because a lost answer does not mean a lost
request. The class of an error, `conflict` or `failed`, tells no more: whatever
comes with status 409 or 412 or a code of `CONFLICT_CODES` is normalised to a
`StorageConflictError` (`errors.ts:301`), also when the client of the provider
retried a request that had been carried out, when the second request of a gcs upload or
the delete of a move is refused so, or when a hook throws such an error. A call that
is rejected before the driver is asked (a before hook) is `Refuse`.

### `CloudDriver`

| Code | Model |
|---|---|
| an operation between two `await`s | one action of one caller `c`; `pc[c]` names the request made next |
| `assertAbsent` | `HeadAnswersAbsent`, `HeadAnswers400` (s3 takes 400 for absence), `HeadAnswersPresent`, `HeadFails` |
| `upload` | `Put`; for gcs then `GcsMetadata`, a second request |
| `copy` | `CopyObject`; azure also `AzureBeginCopy` and `AzurePoll`, where the provider copies on its own and the driver gives up after its last poll |
| `delete`, second half of `move` | `RemoveObject` |
| SDK rejection (network, abort, status) | `RequestFails`: nothing happened, or the request joins `work` and happens later or never; the error is any of `Errors` |
| the provider | `CarryOut`, `DropWork` |

`done` counts the effects of a call, `belief` is what the caller may take its
destination to hold, and is lost as soon as anybody else changes one of its
keys: the properties are about callers that were not interfered with, and about
nothing else. Both are history: no guard of a driver action reads them, except
that `AzurePoll` succeeds only if the copy has been made (`done[c] = 1`), which
is what the provider's `copyStatus` says. `blind`, history too, are the callers
whose check was answered with 400.

Simplifications. An upload replaces the object in one step, because all four
services make a multipart upload visible only when it is complete. `ready()` and
argument errors fail before any request and are `HeadFails` or a `RequestFails`
without left-over work. Native preconditions that a caller may pass are left out.
A move of a key onto itself follows the drivers' own code (copy, then delete); the
services refuse some of these copies, which is a `RequestFails`, and gcs's SDK
skips the deletion, so the properties about moves exclude this case.

### `StorageInstance`

| Code (`src/storage.ts`) | Model |
|---|---|
| `upload`, `delete`: before hook, driver, after hook, event; `catch`: event, error hook, rethrow | stages `before`, `driver`, `after`, `emit`, `error`, `settled` of a caller |
| `copy`, `move`: driver and event only | the same stages without `before`, `after`, `error` |
| the driver | an instance of `ObjectStore`; its `answer[c]` is what the `await` yields |
| a hook that returns or throws | the two disjuncts of `BeforeHook`, `AfterHook`; `ErrorHook`, whose own error is swallowed |
| `normalize()` of what was thrown | `Normalized`: a hook's error may be a conflict or another one (`HookErrors`) |
| `emit()`: `for (const listener of this.listeners)` | `emitting`, `visited`, `Deliver`, `Delivered` |
| a listener that makes a call whose before hook throws at once | `InvokeThrows`: `emit()` within `emit()` |
| `on()` and the function it returns | `Subscribe`, `Unsubscribe`, and the changes a listener makes in `Deliver` |

A `Set` iterates over members added meanwhile, not over members deleted
meanwhile, and comes again to one that was deleted and added; `visited` records
just this, for each delivery by itself. Delivery is synchronous: an awaiting call goes
on only when `Quiet`, but a listener may begin a new call, and whatever is at the
provider goes on. If that call's hook throws without an await its failure event is
delivered before the listener returns; `emitting` is therefore a stack, innermost
delivery first, and every subscription change applies to all deliveries on it.
A listener that throws counts as called, since `emit` catches it; what an async
listener rejects with is not caught and not modelled.

`steady` and `called` are history, for `EveryListenerOnce`; `MaxCalled` only
bounds that count. `Reported` is the answer the caller gets if it is told how
the driver fared and what the hooks threw; with it the instance is shown to
implement `ObjectStore` again, an error of a hook being an error like any other: a
conflict, too, may come after the effect.

### `OracleDriver`

`CloudDriver` with three differences. `Copy` is answered when accepted; the copy
is then `work` of the caller that goes on to delete (a move) or of nobody, and
`CarryOut` or `Drop` decide about it, as for lost requests. `Remove` passes on
the 404. The multipart upload is the driver's own: `CreateUpload`, `ReadBody`
(all parts are buffered, then `Concurrency` runners take the first ones),
`PartStored` and `PartFails` in any order, `Commit`, `Abort`. A runner goes on
taking parts after another one has failed, as in `mapWithConcurrency`; what it
sends when the abort has succeeded is refused by the provider.

`Told` maps answers to what `ObjectStore` allows one to conclude: the `ok` of a
copy means no more than that it may happen later, an error for a missing object
is an error. Every request may be refused with either class of `Errors`. Moves are left out of the refinement run because their deletion may
overtake their copy, which no mapping repairs; they have a run of their own.

### `LocalListing`

`Page` is `list({ recursive: true, cursor, limit })` (`PageWithout`) followed by what
`iterate` does with it: the walk visits directories before their entries and siblings in the
order of `localeCompare`; whatever is not beyond the cursor is skipped, in the
order of code units. A name is its two ranks, `LocaleRank` and `CodeRank`; keys
are sequences of names, and both orders compare them name by name. A directory is
the sequence that ends in `Empty`. The key a cursor names may be gone by the next
page. Between pages `Create` and `Unlink` change the tree.

The code swallows what `access` answers for the base and `readdir` for a directory, and
lists what is left: each page picks the directories that cannot be read (`unread`,
with `Root` for the base) and `missed` remembers the files it did not see for it.

Simplifications: a walk sees one state of the tree (a file that stays is seen
by a real walk too, one that changes meanwhile may or may not be); directories
exist while they hold files; symbolic links and the depth guard of 100 are left
out, so trees are at most 100 levels deep; distinct names have distinct ranks, which `localeCompare` does not promise for
canonically equivalent Unicode strings.

### `LocalDriver`

One action is one call of `node:fs` and the code up to the next `await`. All keys
lie in one directory below the root; `entry` maps a key to an inode, `data` an inode
to its chunks, and a caller that has a file open (`fd`, `from`) keeps the inode
whatever happens to the name.

| Code (`local.driver.ts`) | Model |
|---|---|
| `assertOverwriteAllowed`, `createDirectories` | `Check`, `Mkdir` |
| `upload`: `pipeline(body, createWriteStream)` | `Open`, `OpenFindsNoDirectory`, `Write`, `WriteFails` |
| its `catch`: `unlink` of the target, errors swallowed | `Cleanup`; `Discard` when the file was not even opened (`OpenFindsNoDirectory`, `OpenFails`) |
| the size of a stream's body, asked afterwards | `Size`; if that fails the call fails with its object stored |
| `delete`, and `cleanEmptyParents` when that is configured | `Unlink`; `Readdir`, `Rmdir` |
| `move`: `rename`, and on `EXDEV` copy and unlink | `Rename`, `RenameRefused`, `UnlinkSource` |
| `fs.copyFile`, which is no atomic operation | `CopyOpens`, `CopyChunk`, `CopyFails`, `Cleanup`, `Copied` |
| `download`: `stat`, then a stream that opens the file itself | `Stat`, `OpenRead`, `Read` |
| a call of `node:fs` that fails | `CallFails` |

`alone`, `before` and `spoilt` are history. A call is alone if no other call had to
do with one of its keys while it ran; `before` is what its key held when it began;
`spoilt` are the inodes that need not hold a whole body, by the causes that
`FilesAtRestAreWhole` names.

Simplifications: `createDirectories` is on and a directory is made in one step;
`deleteMany` is deletes that run at once; `rename` may be refused for any two keys;
ranges, symbolic links and content hashes are left out; one level of directories.

### `ObjectKeys` and `PrefixDeletion`

`ObjectKeys` is `core/paths.ts` and the key arithmetic of `scoped()` on sequences of
segments: `NormalizeKey` is the loop that splits segments at their backslashes (`Pieces`),
drops empty ones and dots and refuses `..`, `ResolveInsideRoot` also refuses what begins with
two dots, `HasPrefix` compares characters as providers do (`p` is a prefix of `pq`),
`ListPrefix` keeps a trailing slash, `StripKey` leaves foreign names alone.

| Code | Model |
|---|---|
| `deletePrefix`: refuse an empty prefix; `for await (... of iterate())` | `Begin`, `List`, `ListFails` |
| `list` of each driver, one page | `S3List`, `MinioList`, `AzureList`, `GcsList`, `OracleList`, `LocalList` |
| batches of `deleteMany` | `StartBatch`, `Finish` |
| normalising first or per path | `NormalizeFirst`, `TakeBatch`, chosen per driver |
| `scoped().deleteMany` | `ViewDeleteMany` |
| `DeleteObjects` of s3 by chunks, `removeObjects` of minio with its fallback | `ManyAnswered`, `S3ChunkFails`, `MinioFallsBack` |
| `Promise.allSettled` of single deletes | `DeleteAnswered(i)`, `DeleteFails(i)` in any order |

Two kinds of page: `CountedPage` is as long as it may be and says whether
anything is left (s3, minio, oracle); `TokenPage` may be short or empty and go on
though nothing is left (azure, gcs). For `local` a `TokenPage` admits more than the
code does (directories, which count in a page, may lie anywhere); its true pages
are `LocalListing`'s. It too passes over what cannot be read (`Readable`, `missed`).
`Address` is the key that deleting a reported path addresses, `Normal` the names that
normalising leaves alone or refuses; `gone` remembers which keys were absent after the
listing.

Simplifications: `Pieces` gives the pieces of a segment without the empty ones and the dots,
which normalising drops in any case; the local driver's listing spells a name as the
caller has spelled the prefix, of which `PathOf` keeps only the name itself, since deleting it
normalises the rest; a local tree may hold a file and a directory of one name; the
depth guard of the walk is left out. With the prefix `r` of the run no path can begin
with two dots below the root, so that this refusal is modelled but not met there.

### `DriverReads` and `Transfers`

`DriverReads` has one action for each of `exists`, `stat` and `download` of the six
drivers. A refused request yields a native error as the SDKs report it
(`NativeError`, external: a status, a textual or a numeric code, a name), and
the code's own tests (`isMissing`, status comparisons) and `normalizeError`
(`ClassOf` over `Classes`, in the order of the code) decide the answer. `access()` and
`stat()` of the local driver do not ask what they have found (`DirectoryFound`), and a
path that leads through a file is refused with `ENOTDIR` (`blocked`). A provider
throttles with 429 (`busy`) or with 503 (`overloaded`).

| Code | Model |
|---|---|
| `download`'s stream: of the same answer, or (gcs, local) opened later | `Streamed`, `StreamedLazily` and `OpenStream` |
| hooks around `download` | `DownloadHookThrows` |
| a caller that collects the body (`streamToBuffer`) | `Collect`, `Take`, `CollectSettles` |
| `copyBetween`: download, counting `Transform`, upload, `finally` | `Pipe`, `Count`, `Take`, `CopyBetweenSettles` |
| the source's `error` handler that destroys the `Transform` | `BodyFails`; nobody listening: the process ends (`crashed`) |
| `upload` of the destination, from its hooks to its end | `Attach`, `UploadFails`, `Store`, `StoreLate`, `StoredInVain` |
| fastify, formidable, multer | `FastifySettles`, `FormidableSettles`, `HandleFileSettles` |
| multer's `_removeFile` | `RemoveFile` |

Simplifications. The destination keeps `ObjectStore`'s promise: nothing or the
whole object, perhaps late; a local destination may be torn, as `LocalDriver`
says. The source's objects are replaced atomically, which a local source's are not:
its readers may get a prefix, as `LocalDriver` says. A directory that makes way for a
file between `stat()` and the opening of its stream is left out. Ranges are left out. The
caller's own callbacks (`onProgress`) do not throw. A consumer that attaches to a
stream that has failed fails. A random key (the adapters' default) is nobody
else's. `trusts` is whether the destination's provider believes the
`contentLength` it is told rather than the body.

### `StorageManager`

`cache[d]` is the entry of `get()`'s map, named by the number of the attempt it
holds; `stage[d][a]` follows attempt `a` through `createStorage`: importing the
driver, loading the SDK, constructed, and the manager's two callbacks.
`OnRejected` evicts before anybody is told, as the promise the callers await is the
one `.then` returned. `sdk` is the driver module's memoised promise. The disks of
the model are of one type, since different types share nothing; the logger does
not throw (when it does, the entry is poisoned: see the hazards).

## Runs

| Run | What it asks | Bounds |
|---|---|---|
| `cloud_driver` | type, `WriteOnceWindow`, `MoveNeverLoses`, `MoveRelocates`, `UploadReportsItsObject`, and that `CloudDriver` implements `ObjectStore` | 2 callers, 2 keys, 2 bodies, one left-over request, s3/azure/gcs |
| `write_once_400` | `WriteOnceKeeps`: **violated** | 1 caller of s3 |
| `instance` | type, `OneTrueEvent`, `FirstErrorWins`, `EveryListenerOnce`, that an instance implements `ObjectStore`, and `EveryCallSettles` under fairness | 2 callers, write-once uploads and copies of one key, 2 listeners |
| `oracle_driver` | type, `CommittedWhole`, `OrphanOnlyIfLost`, and that `OracleDriver` implements `ObjectStore` | 2 callers, 2 keys, 2 bodies, up to 3 parts and 2 runners, one left-over request |
| `oracle_move` | `MoveKeepsObject`: **violated** | 1 move |
| `local_listing` | type, `EverySteadyFileOnce`, `IterateEnds`, where the two orders agree | 6 possible files on up to 3 levels, pages of 2, 3 changes |
| `local_orders` | `EverySteadyFileOnce` with names `a` and `B`: **violated** | 2 files, pages of 1 |
| `local_driver` | type, `LoneCallsKeepTheirWord`, `FilesAtRestAreWhole` | 2 callers making 3 calls on 2 keys of a directory, bodies of 1 and 2 chunks, 4 inodes |
| `prefix_deletion` | type, `ReportAddsUp`, `PathsNameTheirKeys`, `NormalDeletedWereGone`, `SteadyEmptied`, `OnlyNamesReject`, `OutsideUntouched`, and `Settles` under fairness | 6 drivers, with and without a view, 6 keys, 5 prefixes, pages and batches of 2, chunks of 1, 1 change by others |
| `folder_marker` | `DeletedWereGone` in a bucket with the key `p/`: **violated** | 5 drivers, 3 keys, no changes |
| `transfers` | type, `AnswersAreTrue`, `StoredWhole`, `StreamsReleased`, `RemovalTakesItsOwn` | 18 reads, copies from 6 drivers, 3 adapters; objects of 1 and 3 chunks, a `Transform` that holds 2, 3 changes by others |
| `manager` | type, `CreatedOnce`, `NeverPoisoned`, `LoadedOnce`, and `EveryoneServed` under fairness | 2 callers, 2 disks, 2 failures |

Two callers are enough for every interleaving of one call with an interfering
one, two keys for a move and its source, two bodies to tell whose object is
stored; one left-over request lets an old effect hit after a newer one. `minio`
takes the steps of s3 without the 400, so `cloud_driver` leaves it out. Its calls
are all uploads, deletes and moves (write-once moves onto themselves stop at the
check) and the plain copies; a copy is otherwise the first half of a move. An
instance treats all keys and bodies alike and passes the call on, so one of each
will do, with the write-once forms, which can also conflict. Three parts
and two runners are the least with which one runner takes a second part while the
other fails. Pages of two end inside directories, at directories and after them;
three changes can remove the file of the cursor and add files on both sides of it.
Two failures make an attempt fail twice, or one attempt of each disk.

In `local_driver` three calls let a caller act twice while another one is under
way (unlink the name, create it again), two chunks leave a file half written, and
four inodes are two files with a name and two that are only open. In
`prefix_deletion` the keys under a prefix make two pages and two batches, a batch
makes two chunks, and one change creates or deletes a key at any moment; the keys
include two with `..`, one with a backslash, one that begins like the prefix without
lying under it, and one that a view may confuse with its own; `""`, `"."` and a prefix
that ends in a backslash are among the prefixes. In
`transfers` three chunks do not fit the `Transform` at once, and three changes can
replace the source between metadata and stream and the destination before and
after the store.

Symmetry is used in `cloud_driver`, `oracle_driver` and `local_driver`,
which check no liveness. `CHECK_DEADLOCK FALSE` in the
listing and deletion runs (`iterate` and `deletePrefix` end), `local_driver`
(`MaxCalls`) and `transfers` (one call, which ends, or the process does).

The system has no retries or timers, and fairness is assumed in four
specifications. `StorageInstance!FairSpec`: the driver answers (weak fairness of
`DriverAnswers`), hooks settle and the event loop gets to every continuation
(`CallStep`: strong fairness, because other calls' deliveries, which happen
without an await, keep disabling a continuation that is queued), and a
`for ... of` loop goes on (`Deliver`). `LocalListing!Spec`: the consumer of
`iterate` asks for the next page. `PrefixDeletion!Spec`: the task goes on and every request is
answered or fails (weak fairness of `Step`), which is all that `Settles` needs:
others may create keys behind the cursor, but a page always moves it on.
`StorageManager!FairSpec`: imports end, promise callbacks run, callers ask again;
failures are finitely many. No liveness is claimed of `Transfers` and
`LocalDriver`: a body may stay open for ever without an error, and the code has no
timeout for that.

## Proofs

Every safety property of the passing runs is also proved, for any values of the
constants that satisfy the modules' `ASSUME`s. These say that `None`, `Unknown` and
the like are no keys, bodies, callers or inodes, that calls are requests, names
sequences of segments and bounds natural numbers, and a few things of the code and
its surroundings: a listing has an order (`OrderAssumption`), the scope of a view is
normalised (`NamesAssumption`, `scoped.ts:12`), the files are finitely many
(`LocalListing!PathsAssumption`), and the file system has room for a file of
every key (`LocalDriver!RoomAssumption`). The bodies of `LocalDriver` have any number of
chunks in the proofs, none included.
Where a theorem needs more it says so under `ASSUME`:

- `SameOrder` (`PagesLoseNothing`): the two orders of the local listing agree on the
  names. `local_orders` shows what happens otherwise.
- `Calls \cap Moves = {}` (`OracleImplements`): no moves. `oracle_move` shows why.

`CloudDriverProofs` proves that `IInv` is inductive and hence every invariant of
the run, and `Implements`: `Spec => PromiseSpec`. The invariants are not inductive
alone: `IInv` adds

- `PhaseInv`: what a caller does next fits its call and the effects that have
  happened (a move about to delete has copied, and so on);
- `OwnerInv`: a begun copy that somebody polls is that caller's and still to do,
  so nobody's copy can be carried out twice;
- `BeliefInv`: a caller that was not interfered with is right about its keys. It is
  preserved by others' steps because every change of a key erases the belief of
  whoever watches that key (`OthersLearn`). The exception are the blind, whose check was
  answered with 400, until their first effect; `OnlyTheWindow` names them.

The refinement maps `req` to `asked` and the unowned `work` to `late`; each action
is one abstract step or a stutter (`StepRefines`).

`StorageInstanceProofs`: `CallInv` relates the stage of a call, what the driver was
asked and has answered, the verdict and the events; it is needed because
`FirstErrorWins` says nothing of a call under way. `DeliveryInv` says that no call is
twice on the stack of deliveries, and that a delivery on it has called exactly the
visited ones of its steady listeners, once; it gives `ListenersHearOnce`, an action
property, at the step that takes the innermost delivery off the stack. `InstanceImplements` shows each step to be a step of the promise under
`Reported` or a stutter; the steps of the driver's own `ObjectStore` carry over
(`DriverRefines`).

`OracleDriverProofs`: `PartsInv` says which parts are taken, sent and
answered at each step of an upload (every taken part is being sent or answered
until one fails, and runners stop only when nothing is left), from which
`CommittedWhole` follows at `AllSent`; `UploadInv` says in which steps an upload may
be open at the provider; `OwnerInv` says that work belonging to a caller is the
lost commit of an upload it aborts or the pending copy of a move. With that,
`OracleImplements` shows `Spec => PromiseSpec` under the assumption that no call
is a move (`Calls \cap Moves = {}`).

`StorageManagerProofs`: `CacheInv` - what the cache holds is exactly the attempt of
a disk that runs or has succeeded - is inductive with `LoadedOnce`, and gives
`CreatedOnce` (attempts cannot overlap if the cache can only hold one) and
`NeverPoisoned`.

`LocalListingProofs`: `Lexicographic` is a strict total order of keys for any ranking
of the names (two keys that differ first differ somewhere, which is where the least
natural number comes in). So a page, though defined by counting, is a beginning of
the rest of the walk (`PageIsABeginning`). The invariant adds that whatever was
listed is skipped from now on, and what stays and is skipped was listed once
(`ListedAreSkipped`, `SkippedWereListed`), or missed by a page that could not read its
directory; a page preserves both because its last
entry lies beyond the old cursor in the order of the walk, and, with `SameOrder`, in
the order of skipping.

`LocalDriverProofs` has three layers. `Staged`: what a caller's next step presupposes
(`AtStage`), which gives the types. `FilesInv`: no two names for one inode, one writer
for each file that is not spoilt, and such a file grows as a beginning of what is
written to it (`OneNameEach`, `OneWriterEach`, `UploadsGrow`, `CopiesGrow`); with it
`FilesAtRestAreWhole` is inductive. `LoneInv`: as long as a call is alone its key
holds what it has made of it so far (`Undisturbed`, `SoFar`) and its answer will tell
that (`Promise`); steps of others keep off its keys (`OthersKeepOff`), its own go on
with the promise. To keep the twenty kinds of step apart from the properties, each is
classed by what it does to the files: nothing (`Keeps`), opens one (`Opens`), adds a
chunk (`Grows`), ends one (`Closes`) or gives one up (`Abandons`).

`PrefixDeletionProofs`: `Progress` says which positions of the list have a verdict,
wait for one or were not begun; it gives `ReportAddsUp` and `OnlyNamesReject`.
`SteadyAreListed` is why pages lose no file: whatever stays and lies before the
cursor is in the list or was missed (for oracle the cursor is the first key not yet
listed, for the others the last place covered). `PathsLeadBack` is about names, and holds of
all of them: what `NormalizeKey` returns is made of what the segments leave
(`LoopIsMadeOfKept`), so normalising a concatenation concatenates (`NormalizeConcat`,
by induction along its loop) and normalising twice is normalising once
(`NormalizingIsIdempotent`). A key under the prefix begins with the prefix of the storage
and the scope (`UnderBegins`), which the local driver has in normal form (`BaseIsSound`);
the path is the rest, and putting them in front of it again gives the key, or the key that
the rest is normalised to (`PathLeadsBack`). From that follow `DeletedFilesWereGone`, with
it `SteadyFilesAreEmptied`, and `OutsideStaysUntouched`, an action property.

`TransfersProofs`: the four properties are inductive together with `ReadInv` (what a
read has answered fits the object its stream or description is of; only gcs and
local, which open the stream later, may show two objects in one answer),
`BodyInv` (a body is open until its last chunk), `StageInv` (nothing is taken before
the destination listens, and nothing stored, and no late request left behind,
but after a whole body) and `DestInv` (this call's object is at the destination
only after it was stored, and what multer believes saved is there unless somebody
else has replaced it, which nobody does to a random key).

The few lemmas on calls and effects (`RequestShape` and so on) stand in each proof
module that needs them, and so does `LeastNatural`, the form in which the proofs
use induction: of the counterexamples, take the least.

Only model-checked: the liveness properties (`EveryCallSettles`, `IterateEnds`,
`Settles`, `EveryoneServed`), which the prover does not reach.

## Findings

With a run that shows them:

- `move` of the oracle driver deletes the source when the copy has only been
  accepted; the object may be lost (`oracle_move`).
- The recursive local listing walks in one order and skips in another, so that
  with names of mixed case files may appear on no page (`local_orders`). Where
  the orders agree every file that stays appears once (`local_listing`).
- The s3 driver takes a HEAD answered with 400 for the absence of the object, and a
  write with `overwrite: false` then replaces an object that it never saw
  (`write_once_400`). Elsewhere such a write is only open to other callers.
- A listing reports a folder marker `p/` under a path that, once normalised,
  addresses the key `p`: `deletePrefix("p/")` deletes an object outside the prefix,
  reports the marker as deleted and leaves it (`folder_marker`).

Met while modelling, stated exactly by a property that holds:

- `overwrite: false` is check-then-write on every driver, so "the upload fails
  when the target exists" does not hold between concurrent callers;
  `WriteOnceWindow` says what does.
- A `StorageConflictError` does not say that nothing was written: an after hook's
  error, a retried request or the second request of a call may become one after the
  effect (`PromiseSpec` lets any error follow effects). The example in
  `docs/use-cases.md:43-52` takes it for "already written", by whom it cannot tell.
- A key with a backslash is listed as it is and deleted as one with slashes:
  `deletePrefix` leaves it, says it has deleted it and deletes the other key, which may
  lie outside the prefix, never outside the view (`PathsNameTheirKeys`,
  `OutsideUntouched`).
- A local listing leaves out what it cannot read and succeeds (`EverySteadyFileOnce`,
  `SteadyEmptied`).
- `exists()` and `stat()` of the local driver find directories, a key below a file is a
  plain error rather than a missing object, and no driver classes a 503
  (`AnswersAreTrue`).
- A local upload whose last `stat` fails answers an error and has stored its whole
  body (`LoneCallsKeepTheirWord`).
- A listener that unsubscribes and subscribes itself in one go keeps `emit()`
  iterating for ever. The constant `Rearming` names such listeners;
  `EveryCallSettles` is checked without them. Other subscriptions and
  unsubscriptions during a delivery are harmless (`EveryListenerOnce`).
- `delete` of the oracle driver rejects for a missing object, where the README calls
  deletion idempotent everywhere; in `deletePrefix` it only makes an entry of
  `failed` (`OnlyNamesReject`).
- `copyBetween` listens to the source before the destination listens to the
  `Transform`: a source that fails while the destination is at its hooks or its check
  ends the process with an unhandled `error` (`StreamsReleased` says when).
- An `afterDownload` hook that throws leaves the stream of the download open
  (excluded in `StreamsReleased`).
- Refusals of gcs reach `normalizeError` with a numeric code it does not read, and
  Oracle answers 404 to who may not read, so these errors are not classified as
  on the other drivers (`AnswersAreTrue`).
- The local driver takes the prefix `"."` for its root and deletes everything, which
  the check of `deletePrefix` against an empty prefix is meant to prevent; what it
  deletes still lies under the prefix as the driver reads it (`OutsideUntouched`).
- Two uploads of a key to the local driver at once write into one file, which may
  then hold parts of both; and a failed upload removes the file that was there
  before (`FilesAtRestAreWhole`, `LoneCallsKeepTheirWord`).

## Not modelled

- URL building, pre-authenticated requests, MIME detection, configuration checks,
  messages, `native()` clients and the logger: formatting, or one request without
  an effect on objects.
- `listAll` is a loop over `iterate`; `checksum` a hash over `download`; the other calls
  of a scoped view pass a prefixed key on; `saveWebFile` and the upload intents
  rearrange arguments.
- The registry of custom drivers is a synchronous map.
- Object versions, native preconditions, ranges, symbolic links, the one-level
  listing of the local driver.
- The fake driver and the driver contract are test support.

Hazards without a property have a note in `PROJECT.json`.
