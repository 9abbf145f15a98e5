------------------------ MODULE StorageManagerProofs ------------------------
(***************************************************************************)
(* The cache of the storage manager and the memo of the SDK, for any       *)
(* number of callers, disks and failures.                                  *)
(***************************************************************************)
EXTENDS StorageManager, TLAPS

\* An attempt that runs or has succeeded is what the cache holds, and the cache
\* holds nothing else.
CacheInv ==
    \A d \in Disks :
        /\ \A a \in Attempts : stage[d][a] \in Underway \cup {"ok"} => cache[d] = a
        /\ cache[d] # 0 => stage[d][cache[d]] \in Underway \cup {"ok"}

IInv == TypeOK /\ CacheInv /\ LoadedOnce

\* There is at least one attempt, and attempts are numbered from one.
LEMMA AttemptNumbers == MaxAttempts \in Nat \ {0} /\ 0 \notin Attempts
BY MaxFailuresAssumption DEF MaxAttempts, Attempts

LEMMA InitInv == Init => IInv
BY AttemptNumbers, MaxFailuresAssumption
   DEF Init, IInv, TypeOK, CacheInv, LoadedOnce, Attempts, Stages, Underway

\* disk() and warmup() begin what is not in the cache.
LEMMA BeginKeeps ==
    ASSUME IInv, NEW ds \in SUBSET Disks, Begin(ds), UNCHANGED <<sdkVars, wants, has, failures>>,
           waits' \in [Callers -> 0 .. MaxAttempts]
    PROVE  IInv'
<1> USE AttemptNumbers DEF IInv
<1> DEFINE new == {d \in ds : cache[d] = 0}
<1>1. /\ \A d \in new : attempts[d] + 1 \in Attempts
      /\ \A d \in Disks : attempts[d] \in 0 .. MaxAttempts
  BY DEF Begin, TypeOK, Attempts
<1>2. ASSUME NEW d \in Disks
      PROVE  IF d \in new
             THEN /\ attempts'[d] = attempts[d] + 1 /\ cache'[d] = attempts[d] + 1
                  /\ stage'[d] = [stage[d] EXCEPT ![attempts[d] + 1] = "importing"]
             ELSE attempts'[d] = attempts[d] /\ cache'[d] = cache[d] /\ stage'[d] = stage[d]
  BY DEF Begin
<1>3. TypeOK'
  <2>1. attempts' \in [Disks -> 0 .. MaxAttempts] /\ cache' \in [Disks -> 0 .. MaxAttempts]
    BY <1>1 DEF Begin, TypeOK, Attempts
  <2>2. \A d \in Disks : cache'[d] \in {0, attempts'[d]}
    BY <1>2 DEF TypeOK
  <2>3. stage' \in [Disks -> [Attempts -> Stages]]
    BY DEF Begin, TypeOK, Stages
  <2>4. uses' = uses /\ sdk' = sdk /\ load' = load /\ wants' = wants /\ has' = has
        /\ failures' = failures
    BY DEF Begin, sdkVars
  <2> QED
    BY <2>1, <2>2, <2>3, <2>4 DEF TypeOK
<1>4. CacheInv'
  <2> SUFFICES ASSUME NEW d \in Disks
               PROVE  /\ \A a \in Attempts : stage'[d][a] \in Underway \cup {"ok"} => cache'[d] = a
                      /\ cache'[d] # 0 => stage'[d][cache'[d]] \in Underway \cup {"ok"}
    BY DEF CacheInv
  <2>1. CASE d \in new
    <3>1. /\ cache[d] = 0 /\ attempts[d] + 1 \in Attempts /\ cache'[d] = attempts[d] + 1
          /\ stage'[d] = [stage[d] EXCEPT ![attempts[d] + 1] = "importing"]
          /\ stage[d] \in [Attempts -> Stages]
      BY <1>1, <1>2, <2>1 DEF TypeOK
    <3>2. \A a \in Attempts : stage[d][a] \notin Underway \cup {"ok"}
      BY <3>1 DEF CacheInv
    <3>3. stage'[d][cache'[d]] = "importing"
      BY <3>1
    <3>4. \A a \in Attempts : a # cache'[d] => stage'[d][a] = stage[d][a]
      BY <3>1
    <3> QED
      BY <3>2, <3>3, <3>4 DEF Underway
  <2>2. CASE d \notin new
    BY <1>2, <2>2 DEF CacheInv
  <2> QED
    BY <2>1, <2>2
<1>5. LoadedOnce'
  BY DEF LoadedOnce, sdkVars
<1> QED
  BY <1>3, <1>4, <1>5

\* An attempt goes on and stays what the cache holds.
LEMMA MoveKeeps ==
    ASSUME IInv, NEW d \in Disks, NEW a \in Attempts, NEW s \in Underway \cup {"ok"},
           NEW r \in Underway, Move(d, a, r, s), UNCHANGED cache
    PROVE  CacheInv' /\ stage' \in [Disks -> [Attempts -> Stages]]
BY DEF IInv, CacheInv, TypeOK, Move, Underway, Stages

LEMMA StepInv == IInv /\ [Next]_vars => IInv'
<1> SUFFICES ASSUME IInv, [Next]_vars PROVE IInv'
  OBVIOUS
<1> USE AttemptNumbers DEF IInv
<1>1. ASSUME NEW c \in Callers, Disk(c) PROVE IInv'
  <2>1. Begin({wants[c]}) /\ {wants[c]} \in SUBSET Disks /\ wants[c] \in Disks
    BY <1>1 DEF Disk, TypeOK
  <2>2. cache'[wants[c]] \in 0 .. MaxAttempts
    BY <2>1 DEF Begin, TypeOK
  <2>3. waits' \in [Callers -> 0 .. MaxAttempts]
    BY <1>1, <2>2 DEF Disk, TypeOK
  <2> QED
    BY <1>1, <2>1, <2>3, BeginKeeps DEF Disk
<1>2. CASE Warmup
  BY <1>2, BeginKeeps DEF Warmup, callerVars, TypeOK
<1>3. ASSUME NEW c \in Callers, Settle(c) \/ \E d \in Disks : Release(c, d) PROVE IInv'
  <2>1. /\ UNCHANGED <<diskVars, sdkVars, failures>>
        /\ wants' \in [Callers -> Disks]
        /\ waits' \in [Callers -> 0 .. MaxAttempts] /\ has' \in [Callers -> 0 .. MaxAttempts]
    <3>1. CASE Settle(c)
      <4>1. waits[c] \in 0 .. MaxAttempts /\ 0 \in 0 .. MaxAttempts
        BY DEF TypeOK
      <4> QED
        BY <3>1, <4>1 DEF Settle, TypeOK
    <3>2. CASE \E d \in Disks : Release(c, d)
      BY <3>2 DEF Release, TypeOK
    <3> QED
      BY <1>3, <3>1, <3>2
  <2>2. CacheInv' /\ LoadedOnce'
    BY <2>1 DEF diskVars, sdkVars, CacheInv, LoadedOnce
  <2> QED
    BY <2>1, <2>2 DEF diskVars, sdkVars, TypeOK
<1>4. ASSUME NEW d \in Disks, NEW a \in Attempts, ImportDriver(d, a) PROVE IInv'
  <2>1. CASE /\ Move(d, a, "importing", "loading") /\ JoinLoad(d, a)
             /\ UNCHANGED <<cache, attempts, callerVars, failures>>
    <3>1. CacheInv' /\ stage' \in [Disks -> [Attempts -> Stages]]
      BY <2>1, MoveKeeps DEF Underway
    <3>2. CASE sdk # 0
      <4>1. uses' = [uses EXCEPT ![d][a] = sdk] /\ sdk' = sdk /\ load' = load
        BY <2>1, <3>2 DEF JoinLoad, sdkVars
      <4>2. uses' \in [Disks -> [Attempts -> 0 .. MaxAttempts]]
        BY <4>1 DEF TypeOK
      <4> QED
        BY <2>1, <3>1, <4>1, <4>2 DEF TypeOK, LoadedOnce, callerVars
    <3>3. CASE sdk = 0
      <4>1. PICK l \in Attempts : /\ load' = [load EXCEPT ![l] = "pending"] /\ sdk' = l
                                  /\ uses' = [uses EXCEPT ![d][a] = l]
        BY <2>1, <3>3 DEF JoinLoad
      <4>2. LoadedOnce'
        BY <3>3, <4>1 DEF LoadedOnce, TypeOK
      <4> QED
        BY <2>1, <3>1, <4>1, <4>2 DEF TypeOK, callerVars, Attempts
    <3> QED
      BY <3>2, <3>3
  <2>2. CASE /\ Move(d, a, "importing", "rejected") /\ Failure
             /\ UNCHANGED <<cache, attempts, uses, sdkVars, callerVars>>
    <3>1. CacheInv' /\ stage' \in [Disks -> [Attempts -> Stages]]
      BY <2>2, MoveKeeps DEF Underway
    <3> QED
      BY <2>2, <3>1, MaxFailuresAssumption DEF Failure, TypeOK, LoadedOnce, sdkVars, callerVars
  <2> QED
    BY <1>4, <2>1, <2>2 DEF ImportDriver
<1>5. ASSUME NEW l \in Attempts, LoadStep(l) PROVE IInv'
  <2>1. CacheInv'
    BY <1>5 DEF LoadStep, LoadSucceeds, LoadFails, diskVars, CacheInv
  <2>2. LoadedOnce'
    BY <1>5 DEF LoadStep, LoadSucceeds, LoadFails, LoadedOnce, TypeOK
  <2>3. TypeOK'
    BY <1>5, MaxFailuresAssumption
       DEF LoadStep, LoadSucceeds, LoadFails, Failure, TypeOK, diskVars, callerVars
  <2> QED
    BY <2>1, <2>2, <2>3
<1>6. ASSUME NEW d \in Disks, NEW a \in Attempts, Ready(d, a) PROVE IInv'
  <2>1. /\ Move(d, a, "loading", "created") \/ Move(d, a, "loading", "rejected")
        /\ UNCHANGED <<cache, attempts, uses, sdkVars, callerVars>>
        /\ failures' \in 0 .. MaxFailures
    BY <1>6, MaxFailuresAssumption DEF Ready, Failure, TypeOK
  <2>2. CacheInv' /\ stage' \in [Disks -> [Attempts -> Stages]]
    BY <2>1, MoveKeeps DEF Underway
  <2> QED
    BY <2>1, <2>2 DEF TypeOK, LoadedOnce, sdkVars, callerVars
<1>7. ASSUME NEW d \in Disks, NEW a \in Attempts, OnCreated(d, a) PROVE IInv'
  <2>1. CacheInv' /\ stage' \in [Disks -> [Attempts -> Stages]]
    BY <1>7, MoveKeeps DEF OnCreated, Underway
  <2> QED
    BY <1>7, <2>1 DEF OnCreated, TypeOK, LoadedOnce, sdkVars, callerVars
<1>8. ASSUME NEW d \in Disks, NEW a \in Attempts, OnRejected(d, a) PROVE IInv'
  <2>1. /\ stage' = [stage EXCEPT ![d][a] = "failed"] /\ cache' = [cache EXCEPT ![d] = 0]
        /\ UNCHANGED <<attempts, uses, sdkVars, callerVars, failures>>
        /\ cache[d] = a
    BY <1>8 DEF OnRejected, Move, CacheInv, Underway
  <2>2. CacheInv'
    BY <2>1 DEF CacheInv, TypeOK, Underway
  <2>3. TypeOK'
    BY <2>1 DEF TypeOK, sdkVars, callerVars, Stages
  <2> QED
    BY <2>1, <2>2, <2>3 DEF LoadedOnce, sdkVars
<1>9. CASE UNCHANGED vars
  BY <1>9 DEF vars, diskVars, sdkVars, callerVars, TypeOK, CacheInv, LoadedOnce
<1> QED
  BY <1>1, <1>2, <1>3, <1>4, <1>5, <1>6, <1>7, <1>8, <1>9 DEF Next, AttemptStep

-----------------------------------------------------------------------------

\* The cache and the memo of the SDK are right throughout.
THEOREM ManagerInductive == Spec => []IInv
BY InitInv, StepInv, PTL DEF Spec

\* Every variable of the manager has its type.
THEOREM ManagerTypeCorrect == Spec => []TypeOK
<1>1. IInv => TypeOK
  BY DEF IInv
<1> QED
  BY <1>1, ManagerInductive, PTL

\* get() never lets two attempts for a disk run side by side, nor a new one begin
\* after a success (manager.ts: the cache is filled before the first await).
THEOREM OneInstancePerDisk == Spec => []CreatedOnce
<1>1. IInv => CreatedOnce
  <2> SUFFICES ASSUME IInv, NEW d \in Disks, NEW a \in Attempts,
                      stage[d][a] \in Underway \cup {"ok"}
               PROVE  a = attempts[d]
    BY DEF CreatedOnce
  <2> QED
    BY AttemptNumbers DEF IInv, CacheInv, TypeOK
<1> QED
  BY <1>1, ManagerInductive, PTL

\* A failure that is known is not in the cache (manager.ts: cache.delete comes
\* before the rejection is passed on).
THEOREM FailuresAreEvicted == Spec => []NeverPoisoned
<1>1. IInv => NeverPoisoned
  BY DEF IInv, CacheInv, NeverPoisoned, Underway
<1> QED
  BY <1>1, ManagerInductive, PTL

\* The drivers of a type share one load of their SDK until it fails.
THEOREM OneLoad == Spec => []LoadedOnce
<1>1. IInv => LoadedOnce
  BY DEF IInv
<1> QED
  BY <1>1, ManagerInductive, PTL
=============================================================================
