---------------------------- MODULE CloudDriver ----------------------------
(***************************************************************************)
(* The drivers over a provider that copies while the caller waits: s3      *)
(* (which r2 and rustfs wrap), minio, azure and gcs.                       *)
(*                                                                         *)
(* Any number of callers run driver calls at once.  A call is a sequence   *)
(* of provider requests with an await between them; one action is one      *)
(* request together with its answer and the code up to the next await, so  *)
(* that other callers may act at every await.  A driver keeps no state of  *)
(* its own about objects: all of it is at the provider, in `store`.        *)
(*                                                                         *)
(* The network may refuse a request, or lose its answer: then the SDK      *)
(* rejects, and the request itself may still be carried out later, after   *)
(* the caller was told that the call failed (`work`).  A rejection with    *)
(* status 409 or 412 becomes a StorageConflictError, whatever the request  *)
(* was for: the SDKs retry, so it may follow an attempt that succeeded.    *)
(***************************************************************************)
EXTENDS StorageRequests, Naturals, FiniteSets

CONSTANTS
    Callers,    \* concurrent driver calls
    Calls,      \* the calls they may make
    Drivers,    \* the drivers considered, of DriverNames
    MaxWork,    \* bound: requests left to the provider at one time
    Unknown     \* neither an object nor the absence of one

DriverNames == {"s3", "minio", "azure", "gcs"}

ASSUME CallersAssumption == None \notin Callers
ASSUME CallsAssumption == Calls \subseteq Requests
ASSUME DriversAssumption == Drivers \subseteq DriverNames
ASSUME MaxWorkAssumption == MaxWork \in Nat
ASSUME UnknownAssumption == Unknown \notin MaybeBody

VARIABLES
    driver,     \* the driver in use
    store,      \* provider: key -> object, or None
    work,       \* provider: requests nobody has an answer to yet
    req,        \* caller -> its call, or NoRequest
    pc,         \* caller -> the request it makes next
    answer,     \* caller -> how its call ended
    got,        \* caller -> the object whose etag and version the call reports
    done,       \* history: caller -> effects of its call that have happened
    belief,     \* history: caller -> what it may take its destination to hold
    blind       \* history: callers whose check was answered with status 400

serviceVars == <<driver, store, work>>
callVars    == <<req, pc, answer, got>>
history     == <<done, belief, blind>>
vars        == <<serviceVars, callVars, history>>

Steps   == {"idle", "check", "put", "metadata", "copy", "poll", "remove", "done"}
Errors  == {"conflict", "failed"}
Answers == {"none", "ok"} \cup Errors

\* A copy azure has begun belongs to the caller polling it; other work to no one.
Work == [effect : Effects, owner : Callers \cup {None}]

TypeOK ==
    /\ driver \in Drivers
    /\ store \in [Keys -> MaybeBody]
    /\ work \in SUBSET Work
    /\ req \in [Callers -> Requests \cup {NoRequest}]
    /\ pc \in [Callers -> Steps]
    /\ answer \in [Callers -> Answers]
    /\ got \in [Callers -> MaybeBody]
    /\ done \in [Callers -> 0 .. 2]
    /\ belief \in [Callers -> MaybeBody \cup {Unknown}]
    /\ blind \in SUBSET Callers

Init ==
    /\ driver \in Drivers
    /\ store \in [Keys -> MaybeBody]
    /\ work = {}
    /\ req = [c \in Callers |-> NoRequest]
    /\ pc = [c \in Callers |-> "idle"]
    /\ answer = [c \in Callers |-> "none"]
    /\ got = [c \in Callers |-> None]
    /\ done = [c \in Callers |-> 0]
    /\ belief = [c \in Callers |-> Unknown]
    /\ blind = {}

(***************************************************************************)
(* Building blocks of the actions.                                         *)
(***************************************************************************)

\* The request that does a call's work once the destination may be written.
FirstEffectStep(r) ==
    IF r.op = "upload" THEN "put"
    ELSE IF r.op = "delete" THEN "remove"
    ELSE "copy"

FirstStep(r) == IF r.overwrite THEN FirstEffectStep(r) ELSE "check"

\* move() awaits its own copy(), then deletes the source.
StepAfterCopy(r) == IF r.op = "move" THEN "remove" ELSE "done"

\* (Faulty variant: move() does not await the deletion.)
AnswerAtOnce(r) == "ok"

AnswerAfterCopy(r) == IF r.op = "move" THEN "none" ELSE "ok"

(***************************************************************************)
(* History.  A caller learns what its destination holds when assertAbsent  *)
(* takes it for free (None) and when its own put or copy writes it; it no  *)
(* longer knows (Unknown) once anybody else changes that key or, after its *)
(* copy, the source.  Only a blind caller, which took a 400 for a 404, may *)
(* be wrong about it.                                                      *)
(***************************************************************************)
Watched(c) == IF done[c] > 0 THEN {req[c].src, req[c].dst} ELSE {req[c].dst}

\* Key k changes at the hand of caller c (None: the provider alone), who then
\* takes its destination to hold b.
Learn(k, c, b) ==
    [d \in Callers |->
        IF d = c THEN b
        ELSE IF k \in Watched(d) THEN Unknown
        ELSE belief[d]]

EndCall(c, a) ==
    /\ pc' = [pc EXCEPT ![c] = "done"]
    /\ answer' = [answer EXCEPT ![c] = a]

\* (Faulty variant: the rejection is swallowed.)
RequestFailsSilently(c, e) ==
    /\ EndCall(c, "ok")
    /\ UNCHANGED <<driver, store, work, req, got, history>>

\* The SDK rejects: nothing happened, or the request e is still on its way.
RequestFails(c, e) ==
    /\ \E a \in Errors : EndCall(c, a)
    /\ \/ work' = work
       \/ /\ Cardinality(work) < MaxWork
          /\ work' = work \cup {[effect |-> e, owner |-> None]}
    /\ UNCHANGED <<driver, store, req, got, history>>

(***************************************************************************)
(* The calls.                                                              *)
(***************************************************************************)

Invoke(c) ==
    /\ pc[c] = "idle"
    /\ \E r \in Calls :
          /\ req' = [req EXCEPT ![c] = r]
          /\ pc' = [pc EXCEPT ![c] = FirstStep(r)]
    /\ UNCHANGED <<serviceVars, answer, got, history>>

\* (Faulty variant: every rejection is taken for a 404.)
HeadRejectsTakenForAbsent(c) ==
    /\ pc[c] = "check"
    /\ pc' = [pc EXCEPT ![c] = FirstEffectStep(req[c])]
    /\ belief' = [belief EXCEPT ![c] = None]
    /\ UNCHANGED <<serviceVars, req, answer, got, done, blind>>

\* assertAbsent: a HEAD request before a write that must not overwrite.
HeadAnswersAbsent(c) ==
    /\ pc[c] = "check"
    /\ store[req[c].dst] = None
    /\ pc' = [pc EXCEPT ![c] = FirstEffectStep(req[c])]
    /\ belief' = [belief EXCEPT ![c] = None]
    /\ UNCHANGED <<serviceVars, req, answer, got, done, blind>>

\* The s3 driver also takes status 400, which tells nothing, for "absent".
HeadAnswers400(c) ==
    /\ pc[c] = "check"
    /\ driver = "s3"
    /\ pc' = [pc EXCEPT ![c] = FirstEffectStep(req[c])]
    /\ belief' = [belief EXCEPT ![c] = None]
    /\ blind' = blind \cup {c}
    /\ UNCHANGED <<serviceVars, req, answer, got, done>>

HeadAnswersPresent(c) ==
    /\ pc[c] = "check"
    /\ store[req[c].dst] # None
    /\ EndCall(c, "conflict")
    /\ UNCHANGED <<serviceVars, req, got, history>>

HeadFails(c) ==
    /\ pc[c] = "check"
    /\ \E a \in Errors : EndCall(c, a)
    /\ UNCHANGED <<serviceVars, req, got, history>>

\* upload: the object is replaced in one step, multipart or not.  The answer
\* names the new object, except from gcs, whose driver asks for it next.
Put(c) ==
    LET e == PutEffect(req[c]) IN
    /\ pc[c] = "put"
    /\ \/ /\ store' = After(store, e)
          /\ done' = [done EXCEPT ![c] = 1]
          /\ belief' = Learn(req[c].dst, c, req[c].body)
          /\ blind' = blind
          /\ IF driver = "gcs"
             THEN pc' = [pc EXCEPT ![c] = "metadata"] /\ UNCHANGED <<answer, got>>
             ELSE EndCall(c, "ok") /\ got' = [got EXCEPT ![c] = req[c].body]
          /\ UNCHANGED <<driver, work, req>>
       \/ RequestFails(c, e)

\* (Faulty variant: the prefix is left out, and another key's metadata come back.)
GcsMetadataOfAny(c) ==
    /\ pc[c] = "metadata"
    /\ \E k \in Keys : EndCall(c, "ok") /\ got' = [got EXCEPT ![c] = store[k]]
    /\ UNCHANGED <<serviceVars, req, history>>

\* gcs: getMetadata() of whatever is stored under the key by now.
GcsMetadata(c) ==
    /\ pc[c] = "metadata"
    /\ \/ /\ store[req[c].dst] # None
          /\ EndCall(c, "ok")
          /\ got' = [got EXCEPT ![c] = store[req[c].dst]]
       \/ (\E a \in Errors : EndCall(c, a)) /\ UNCHANGED got
    /\ UNCHANGED <<serviceVars, req, history>>

\* The copy has been made: what the source held is at the destination.
CopyMade(c) ==
    /\ store' = After(store, CopyEffect(req[c]))
    /\ done' = [done EXCEPT ![c] = 1]
    /\ belief' = Learn(req[c].dst, c, store[req[c].src])
    /\ blind' = blind

\* copy: the provider answers when the copy exists.  A missing source and a
\* copy onto itself may be refused; the former always is.
CopyObject(c) ==
    LET e == CopyEffect(req[c]) IN
    /\ pc[c] = "copy"
    /\ \/ /\ Possible(store, e)
          /\ CopyMade(c)
          /\ pc' = [pc EXCEPT ![c] = StepAfterCopy(req[c])]
          /\ answer' = [answer EXCEPT ![c] = AnswerAfterCopy(req[c])]
          /\ UNCHANGED <<driver, work, req, got>>
       \/ RequestFails(c, e)

\* azure: beginCopyFromURL is accepted, and the provider copies on its own.
AzureBeginCopy(c) ==
    LET e == CopyEffect(req[c]) IN
    /\ pc[c] = "copy"
    /\ driver = "azure"
    /\ Possible(store, e)
    /\ pc' = [pc EXCEPT ![c] = "poll"]
    /\ work' = work \cup {[effect |-> e, owner |-> c]}
    /\ UNCHANGED <<driver, store, req, answer, got, history>>

Owned(c) == {w \in work : w.owner = c}

\* Nobody waits any more for the copy that c has begun.
Abandoned(c) == (work \ Owned(c)) \cup {[w EXCEPT !.owner = None] : w \in Owned(c)}

\* (Faulty variant: the copy's status is not looked at.)
AzurePollOnce(c) ==
    /\ pc[c] = "poll"
    /\ pc' = [pc EXCEPT ![c] = StepAfterCopy(req[c])]
    /\ answer' = [answer EXCEPT ![c] = AnswerAfterCopy(req[c])]
    /\ work' = Abandoned(c)
    /\ UNCHANGED <<driver, store, req, got, history>>

\* azure: the loop over getResult().  It leaves with success only if the copy
\* exists; after its last attempt it gives up, whether the copy exists or not.
AzurePoll(c) ==
    /\ pc[c] = "poll"
    /\ \/ /\ done[c] = 1
          /\ pc' = [pc EXCEPT ![c] = StepAfterCopy(req[c])]
          /\ answer' = [answer EXCEPT ![c] = AnswerAfterCopy(req[c])]
          /\ UNCHANGED work
       \/ /\ EndCall(c, "failed")
          /\ work' = Abandoned(c)
    /\ UNCHANGED <<driver, store, req, got, history>>

\* delete, and the second half of move.  A missing object is no error: s3,
\* minio and gcs answer success, and the azure driver swallows the 404.
RemoveObject(c) ==
    LET e == RemoveEffect(req[c]) IN
    /\ pc[c] = "remove"
    /\ \/ /\ store' = After(store, e)
          /\ done' = [done EXCEPT ![c] = @ + 1]
          /\ belief' = Learn(req[c].src, c, IF req[c].src = req[c].dst THEN None ELSE belief[c])
          /\ EndCall(c, "ok")
          /\ UNCHANGED <<driver, work, req, got, blind>>
       \/ RequestFails(c, e)

\* The caller has its answer and may make another call.
Return(c) ==
    /\ pc[c] = "done"
    /\ req' = [req EXCEPT ![c] = NoRequest]
    /\ pc' = [pc EXCEPT ![c] = "idle"]
    /\ answer' = [answer EXCEPT ![c] = "none"]
    /\ got' = [got EXCEPT ![c] = None]
    /\ done' = [done EXCEPT ![c] = 0]
    /\ belief' = [belief EXCEPT ![c] = Unknown]
    /\ blind' = blind \ {c}
    /\ UNCHANGED serviceVars

(***************************************************************************)
(* The provider on its own: it carries out left-over work, or drops it.    *)
(***************************************************************************)
CarryOut(w) ==
    /\ Possible(store, w.effect)
    /\ work' = work \ {w}
    /\ IF w.owner \in Callers
       THEN /\ CopyMade(w.owner)
       ELSE /\ store' = After(store, w.effect)
            /\ belief' = Learn(Changed(w.effect), None, Unknown)
            /\ UNCHANGED <<done, blind>>
    /\ UNCHANGED <<driver, callVars>>

DropWork(w) ==
    /\ work' = work \ {w}
    /\ UNCHANGED <<driver, store, callVars, history>>

(***************************************************************************)
(* The specification.                                                      *)
(***************************************************************************)
CallStep(c) ==
    \/ HeadAnswersAbsent(c) \/ HeadAnswers400(c) \/ HeadAnswersPresent(c) \/ HeadFails(c)
    \/ Put(c) \/ GcsMetadata(c)
    \/ CopyObject(c) \/ AzureBeginCopy(c) \/ AzurePoll(c)
    \/ RemoveObject(c)
    \/ Return(c)

Next ==
    \/ \E c \in Callers : Invoke(c) \/ CallStep(c)
    \/ \E w \in work : CarryOut(w) \/ DropWork(w)

Spec == Init /\ [][Next]_vars

(***************************************************************************)
(* Properties.                                                             *)
(***************************************************************************)

\* The promise of ObjectStore: drivers keep it, whatever the provider loses.
\* An answer "ok" is given after all effects of the call, each made once and in
\* order, and nothing changes the bucket but effects of calls that were made.
LeftOver == {w.effect : w \in {x \in work : x.owner = None}}

Promise == INSTANCE ObjectStore WITH asked <- req, late <- LeftOver

PromiseSpec == Promise!Spec

\* From assertAbsent's answer until the destination is written, by a put, a copy
\* or a copy that azure makes while the driver polls, the destination of a write
\* with overwrite: false is free: unless another call has changed it meanwhile
\* (the check leaves that window open) or the check was answered with 400.
WriteOnceWindow ==
    \A c \in Callers :
        /\ pc[c] \in {"put", "copy", "poll"} /\ done[c] = 0
        /\ ~req[c].overwrite /\ belief[c] # Unknown
        => store[req[c].dst] = None \/ c \in blind

\* What primitives.ts:24-27 says of overwrite: false, for a caller that nobody
\* interferes with: it never goes on to write over an object.
WriteOnceKeeps ==
    \A c \in Callers :
        /\ pc[c] \in {"put", "copy", "poll"} /\ done[c] = 0
        /\ ~req[c].overwrite /\ belief[c] # Unknown
        => store[req[c].dst] = None

\* From the moment a move has copied its object, whether it then succeeds or
\* fails, the object is at the source or at the destination, as long as no
\* other call changes these keys.  A move of a key onto itself is excluded.
MoveNeverLoses ==
    \A c \in Callers :
        req[c].op = "move" /\ req[c].src # req[c].dst /\ done[c] > 0 /\ belief[c] # Unknown
        => belief[c] \in {store[req[c].src], store[req[c].dst]} \ {None}

\* A move that answers "ok" has left the object at the destination only,
\* unless another call changed one of the two keys meanwhile.
MoveRelocates ==
    \A c \in Callers :
        req[c].op = "move" /\ req[c].src # req[c].dst /\ answer[c] = "ok" /\ belief[c] # Unknown
        => store[req[c].src] = None /\ store[req[c].dst] = belief[c]

\* An upload that answers "ok" reports the etag and version of the object it
\* stored, and that object is what a reader gets, unless another call changed
\* the key meanwhile: gcs reads them back in a second request.
UploadReportsItsObject ==
    \A c \in Callers :
        req[c].op = "upload" /\ answer[c] = "ok" /\ belief[c] # Unknown
        => got[c] = req[c].body /\ store[req[c].dst] = req[c].body
=============================================================================
