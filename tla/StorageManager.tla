--------------------------- MODULE StorageManager ---------------------------
(***************************************************************************)
(* createStorageManager and what a disk's creation goes through: a cache   *)
(* of promises per disk, createStorage, and the promise of the provider's  *)
(* SDK, which all drivers of one type share.  Both memoise an attempt      *)
(* before it has succeeded, so that callers who come meanwhile share it,   *)
(* and forget it when it fails, so that callers who come later try again.  *)
(*                                                                         *)
(* The disks here are of one type.  Everything between two awaits is one   *)
(* action: looking into the cache and filling it is, a promise's callback  *)
(* is, and other callers may come in between.                              *)
(***************************************************************************)
EXTENDS Naturals, FiniteSets

CONSTANTS
    Callers,        \* callers of disk(), who ask again when they are refused
    Disks,          \* configured disks
    MaxFailures     \* bound: imports and constructions that fail

ASSUME DisksAssumption == Disks # {}
ASSUME MaxFailuresAssumption == MaxFailures \in Nat

\* Bound: no disk needs more attempts than this, nor the SDK more loads.
MaxAttempts == MaxFailures + 1

VARIABLES
    cache,      \* disk -> the attempt whose promise is cached, or 0
    attempts,   \* disk -> attempts begun
    stage,      \* disk -> attempt -> how far it is
    uses,       \* disk -> attempt -> the load of the SDK it waits for, or 0
    sdk,        \* the load whose promise is memoised, or 0
    load,       \* load of the SDK -> how far it is
    wants,      \* caller -> the disk it asks for
    waits,      \* caller -> the attempt it waits for, or 0
    has,        \* caller -> the attempt whose instance it has got, or 0
    failures    \* failures so far

diskVars   == <<cache, attempts, stage, uses>>
sdkVars    == <<sdk, load>>
callerVars == <<wants, waits, has>>
vars       == <<diskVars, sdkVars, callerVars, failures>>

Attempts == 1 .. MaxAttempts
Stages   == {"none", "importing", "loading", "created", "rejected", "ok", "failed"}
Underway == {"importing", "loading", "created", "rejected"}

TypeOK ==
    /\ attempts \in [Disks -> 0 .. MaxAttempts]
    /\ cache \in [Disks -> 0 .. MaxAttempts] /\ \A d \in Disks : cache[d] \in {0, attempts[d]}
    /\ stage \in [Disks -> [Attempts -> Stages]]
    /\ uses \in [Disks -> [Attempts -> 0 .. MaxAttempts]]
    /\ sdk \in 0 .. MaxAttempts
    /\ load \in [Attempts -> {"none", "pending", "loaded", "failed"}]
    /\ wants \in [Callers -> Disks]
    /\ waits \in [Callers -> 0 .. MaxAttempts]
    /\ has \in [Callers -> 0 .. MaxAttempts]
    /\ failures \in 0 .. MaxFailures

Init ==
    /\ cache = [d \in Disks |-> 0]
    /\ attempts = [d \in Disks |-> 0]
    /\ stage = [d \in Disks |-> [a \in Attempts |-> "none"]]
    /\ uses = [d \in Disks |-> [a \in Attempts |-> 0]]
    /\ sdk = 0
    /\ load = [l \in Attempts |-> "none"]
    /\ wants \in [Callers -> Disks]
    /\ waits = [c \in Callers |-> 0]
    /\ has = [c \in Callers |-> 0]
    /\ failures = 0

\* A failure is one too many for the model, or it is counted.
Failure == failures < MaxFailures /\ failures' = failures + 1

(***************************************************************************)
(* get(): disk() and warmup().                                             *)
(***************************************************************************)

\* (Faulty variant: an attempt begins although one is in the cache, which stays.)
BeginAlways(ds) ==
    /\ \A d \in ds : attempts[d] < MaxAttempts
    /\ attempts' = [d \in Disks |-> IF d \in ds THEN attempts[d] + 1 ELSE attempts[d]]
    /\ cache' = [d \in Disks |-> IF d \in ds /\ cache[d] = 0 THEN attempts[d] + 1 ELSE cache[d]]
    /\ stage' = [d \in Disks |->
                    IF d \in ds THEN [stage[d] EXCEPT ![attempts[d] + 1] = "importing"]
                    ELSE stage[d]]
    /\ UNCHANGED uses

\* Attempts begin at once for the disks ds that have nothing in the cache.
Begin(ds) ==
    LET new == {d \in ds : cache[d] = 0} IN
    /\ \A d \in new : attempts[d] < MaxAttempts
    /\ attempts' = [d \in Disks |-> IF d \in new THEN attempts[d] + 1 ELSE attempts[d]]
    /\ cache' = [d \in Disks |-> IF d \in new THEN attempts[d] + 1 ELSE cache[d]]
    /\ stage' = [d \in Disks |->
                    IF d \in new THEN [stage[d] EXCEPT ![attempts[d] + 1] = "importing"]
                    ELSE stage[d]]
    /\ UNCHANGED uses

Disk(c) ==
    /\ has[c] = 0 /\ waits[c] = 0
    /\ Begin({wants[c]})
    /\ waits' = [waits EXCEPT ![c] = cache'[wants[c]]]
    /\ UNCHANGED <<sdkVars, wants, has, failures>>

Warmup ==
    /\ Begin(Disks)
    /\ UNCHANGED <<sdkVars, callerVars, failures>>

(***************************************************************************)
(* createStorage().                                                        *)
(***************************************************************************)
Move(d, a, from, to) ==
    /\ stage[d][a] = from
    /\ stage' = [stage EXCEPT ![d][a] = to]

\* (Faulty variant: the load is memoised when it has ended, not when it begins.)
JoinNoLoad(d, a) ==
    \E l \in Attempts :
        /\ load[l] = "none" /\ \A m \in 1 .. l - 1 : load[m] # "none"
        /\ load' = [load EXCEPT ![l] = "pending"]
        /\ sdk' = l
        /\ uses' = [uses EXCEPT ![d][a] = l]

\* loadAwsSdk() and its like: the memoised load, or a new one.
JoinLoad(d, a) ==
    IF sdk # 0
    THEN uses' = [uses EXCEPT ![d][a] = sdk] /\ UNCHANGED sdkVars
    ELSE \E l \in Attempts :
            /\ load[l] = "none" /\ \A m \in 1 .. l - 1 : load[m] # "none"
            /\ load' = [load EXCEPT ![l] = "pending"]
            /\ sdk' = l
            /\ uses' = [uses EXCEPT ![d][a] = l]

\* The driver's module is imported and the driver constructed, or that fails;
\* then ready() asks for the SDK.
ImportDriver(d, a) ==
    \/ /\ Move(d, a, "importing", "loading")
       /\ JoinLoad(d, a)
       /\ UNCHANGED <<cache, attempts, callerVars, failures>>
    \/ /\ Move(d, a, "importing", "rejected")
       /\ Failure
       /\ UNCHANGED <<cache, attempts, uses, sdkVars, callerVars>>

LoadSucceeds(l) ==
    /\ load[l] = "pending"
    /\ load' = [load EXCEPT ![l] = "loaded"]
    /\ UNCHANGED <<diskVars, sdk, callerVars, failures>>

\* (Faulty variant: the memo keeps a failed load.)
LoadFailsForGood(l) ==
    /\ load[l] = "pending"
    /\ load' = [load EXCEPT ![l] = "failed"]
    /\ Failure
    /\ UNCHANGED <<diskVars, sdk, callerVars>>

\* The memo is reset before anybody who waits is told.
LoadFails(l) ==
    /\ load[l] = "pending"
    /\ load' = [load EXCEPT ![l] = "failed"]
    /\ sdk' = 0
    /\ Failure
    /\ UNCHANGED <<diskVars, callerVars>>

\* ready() goes on: the client is built, or its construction fails.
Ready(d, a) ==
    /\ uses[d][a] # 0
    /\ \/ load[uses[d][a]] = "loaded" /\ Move(d, a, "loading", "created") /\ UNCHANGED failures
       \/ load[uses[d][a]] = "loaded" /\ Move(d, a, "loading", "rejected") /\ Failure
       \/ load[uses[d][a]] = "failed" /\ Move(d, a, "loading", "rejected") /\ UNCHANGED failures
    /\ UNCHANGED <<cache, attempts, uses, sdkVars, callerVars>>

(***************************************************************************)
(* The manager's callbacks on that promise; its logger does not throw.     *)
(***************************************************************************)
OnCreated(d, a) ==
    /\ Move(d, a, "created", "ok")
    /\ UNCHANGED <<cache, attempts, uses, sdkVars, callerVars, failures>>

\* (Faulty variant: a failed attempt stays in the cache.)
OnRejectedKept(d, a) ==
    /\ Move(d, a, "rejected", "failed")
    /\ UNCHANGED <<cache, attempts, uses, sdkVars, callerVars, failures>>

OnRejected(d, a) ==
    /\ Move(d, a, "rejected", "failed")
    /\ cache' = [cache EXCEPT ![d] = 0]
    /\ UNCHANGED <<attempts, uses, sdkVars, callerVars, failures>>

\* (Faulty variant: who is refused evicts the disk once more.)
SettleEvicts(c) ==
    /\ waits[c] # 0
    /\ stage[wants[c]][waits[c]] \in {"ok", "failed"}
    /\ has' = [has EXCEPT ![c] = IF stage[wants[c]][waits[c]] = "ok" THEN waits[c] ELSE 0]
    /\ cache' = [cache EXCEPT ![wants[c]] = IF stage[wants[c]][waits[c]] = "ok" THEN @ ELSE 0]
    /\ waits' = [waits EXCEPT ![c] = 0]
    /\ UNCHANGED <<attempts, stage, uses, sdkVars, wants, failures>>

\* A caller gets what its attempt has come to.
Settle(c) ==
    /\ waits[c] # 0
    /\ stage[wants[c]][waits[c]] \in {"ok", "failed"}
    /\ has' = [has EXCEPT ![c] = IF stage[wants[c]][waits[c]] = "ok" THEN waits[c] ELSE 0]
    /\ waits' = [waits EXCEPT ![c] = 0]
    /\ UNCHANGED <<diskVars, sdkVars, wants, failures>>

\* A caller is done with its instance and wants another disk.
Release(c, d) ==
    /\ has[c] # 0
    /\ has' = [has EXCEPT ![c] = 0]
    /\ wants' = [wants EXCEPT ![c] = d]
    /\ UNCHANGED <<diskVars, sdkVars, waits, failures>>

AttemptStep(d, a) ==
    ImportDriver(d, a) \/ Ready(d, a) \/ OnCreated(d, a) \/ OnRejected(d, a)

LoadStep(l) == LoadSucceeds(l) \/ LoadFails(l)

Next ==
    \/ \E c \in Callers : Disk(c) \/ Settle(c) \/ \E d \in Disks : Release(c, d)
    \/ Warmup
    \/ \E d \in Disks, a \in Attempts : AttemptStep(d, a)
    \/ \E l \in Attempts : LoadStep(l)

Spec == Init /\ [][Next]_vars

\* Imports end, and callers ask again.
FairSpec ==
    /\ Spec
    /\ \A c \in Callers : WF_vars(Disk(c)) /\ WF_vars(Settle(c))
    /\ \A d \in Disks, a \in Attempts : WF_vars(AttemptStep(d, a))
    /\ \A l \in Attempts : WF_vars(LoadStep(l))

(***************************************************************************)
(* Properties.                                                             *)
(***************************************************************************)

\* A disk is created once: attempts never run side by side, and none begins
\* when one has succeeded, so all callers of a disk share one instance.
CreatedOnce ==
    \A d \in Disks, a \in Attempts :
        stage[d][a] \in Underway \cup {"ok"} => a = attempts[d]

\* The cache never answers with a failure that is already known: whoever asks
\* after a failure was reported begins or joins a new attempt.
NeverPoisoned ==
    \A d \in Disks : cache[d] # 0 => stage[d][cache[d]] # "failed"

\* The SDK is loaded once, whatever number of disks is created at a time, and
\* a new load begins only when the last one has failed.
LoadedOnce ==
    \A l \in Attempts : load[l] \in {"pending", "loaded"} => sdk = l

\* Once failures end, everybody who asks for a disk, and asks again when
\* refused, gets it.
EveryoneServed ==
    \A c \in Callers : has[c] = 0 ~> has[c] # 0
=============================================================================
