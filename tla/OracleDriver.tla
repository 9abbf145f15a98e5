---------------------------- MODULE OracleDriver ----------------------------
(***************************************************************************)
(* The oracle driver.  Three things set it apart from the other drivers    *)
(* (CloudDriver): a copy is answered when the provider has accepted it and *)
(* made at some later time, or never; deleting a missing object is an      *)
(* error; and the driver runs the multipart protocol itself.               *)
(*                                                                         *)
(* A multipart upload buffers its parts, sends them through a few runners  *)
(* (mapWithConcurrency) and commits the list.  The first failure of a part *)
(* rejects at once, and the upload is aborted while the other runners go   *)
(* on taking parts.  As in CloudDriver one action is one request with its  *)
(* answer and the code up to the next await, and the network may lose a    *)
(* request or only its answer.                                             *)
(***************************************************************************)
EXTENDS StorageRequests, Naturals, FiniteSets

CONSTANTS
    Callers,        \* concurrent driver calls
    Calls,          \* the calls they may make
    MaxWork,        \* bound: requests left to the provider at one time
    MaxParts,       \* bound: parts of a multipart upload
    Concurrency     \* parts sent at one time

ASSUME CallersAssumption == None \notin Callers
ASSUME CallsAssumption == Calls \subseteq Requests
ASSUME BoundsAssumption == MaxWork \in Nat /\ MaxParts \in Nat /\ Concurrency \in Nat \ {0}

VARIABLES
    store,      \* provider: key -> object, or None
    work,       \* provider: accepted copies, and requests without an answer
    upload,     \* provider: caller -> state of its multipart upload
    req,        \* caller -> its call, or NoRequest
    pc,         \* caller -> what it does next
    answer,     \* caller -> how its call ended
    size,       \* caller -> number of parts of its body
    next,       \* caller -> parts its runners have taken
    sending,    \* caller -> parts sent and not answered
    sent,       \* caller -> parts with an etag
    done,       \* history: caller -> effects of its call that have happened
    lost,       \* history: caller -> an answer that settles its upload was lost
    cargo       \* history: caller -> the object its move has copied, or None

serviceVars == <<store, work, upload>>
callVars    == <<req, pc, answer>>
partVars    == <<size, next, sending, sent>>
history     == <<done, lost, cargo>>
vars        == <<serviceVars, callVars, partVars, history>>

Steps == {"idle", "check", "put", "create", "body", "parts", "commit", "abort",
          "copy", "remove", "done"}

\* What normalizeError makes of a rejection: with status 409 or 412 a conflict,
\* whatever the request was for.
Errors == {"conflict", "failed"}

Work == [effect : Effects, owner : Callers \cup {None}]

PartsOK(c) ==
    /\ next[c] <= size[c]
    /\ sending[c] \subseteq 1 .. next[c]
    /\ sent[c] \subseteq (1 .. next[c]) \ sending[c]

TypeOK ==
    /\ store \in [Keys -> MaybeBody]
    /\ work \in SUBSET Work
    /\ upload \in [Callers -> {"none", "open", "closed"}]
    /\ req \in [Callers -> Requests \cup {NoRequest}]
    /\ pc \in [Callers -> Steps]
    /\ answer \in [Callers -> {"none", "ok", "missing"} \cup Errors]
    /\ size \in [Callers -> 0 .. MaxParts]
    /\ next \in [Callers -> 0 .. MaxParts]
    /\ sending \in [Callers -> SUBSET (1 .. MaxParts)]
    /\ sent \in [Callers -> SUBSET (1 .. MaxParts)]
    /\ \A c \in Callers : PartsOK(c)
    /\ done \in [Callers -> 0 .. 2]
    /\ lost \in [Callers -> BOOLEAN]
    /\ cargo \in [Callers -> MaybeBody]

Init ==
    /\ store \in [Keys -> MaybeBody]
    /\ work = {}
    /\ upload = [c \in Callers |-> "none"]
    /\ req = [c \in Callers |-> NoRequest]
    /\ pc = [c \in Callers |-> "idle"]
    /\ answer = [c \in Callers |-> "none"]
    /\ size = [c \in Callers |-> 0]
    /\ next = [c \in Callers |-> 0]
    /\ sending = [c \in Callers |-> {}]
    /\ sent = [c \in Callers |-> {}]
    /\ done = [c \in Callers |-> 0]
    /\ lost = [c \in Callers |-> FALSE]
    /\ cargo = [c \in Callers |-> None]

(***************************************************************************)
(* Building blocks.                                                        *)
(***************************************************************************)

\* A body in memory is put in one request, unless multipart is asked for.
FirstEffectSteps(r) ==
    IF r.op = "upload" THEN {"put", "create"}
    ELSE IF r.op = "delete" THEN {"remove"}
    ELSE {"copy"}

FirstSteps(r) == IF r.overwrite THEN FirstEffectSteps(r) ELSE {"check"}

Goto(c, s) == pc' = [pc EXCEPT ![c] = s]

EndCall(c, a) == Goto(c, "done") /\ answer' = [answer EXCEPT ![c] = a]

\* Effect e of caller c (None: of nobody who waits) happens.
Happens(e, c) ==
    /\ Possible(store, e)
    /\ store' = After(store, e)
    /\ done' = [d \in Callers |-> IF d = c THEN done[d] + 1 ELSE done[d]]
    /\ cargo' = [d \in Callers |->
                    IF d # c /\ Changed(e) \in {req[d].src, req[d].dst} THEN None ELSE cargo[d]]

\* Request e is on its way, for caller o or for nobody any more.
LeftToProvider(e, o) ==
    /\ Cardinality(work) < MaxWork
    /\ work' = work \cup {[effect |-> e, owner |-> o]}

\* The SDK rejects, with any status; the request may still be carried out.
RequestFails(c, e) ==
    /\ \E a \in Errors : EndCall(c, a)
    /\ work' = work \/ LeftToProvider(e, None)
    /\ UNCHANGED <<store, upload, req, partVars, history>>

Owned(c) == {w \in work : w.owner = c}

Disowned(c) == (work \ Owned(c)) \cup {[w EXCEPT !.owner = None] : w \in Owned(c)}

(***************************************************************************)
(* The calls.                                                              *)
(***************************************************************************)
Invoke(c) ==
    /\ pc[c] = "idle"
    /\ \E r \in Calls :
          /\ req' = [req EXCEPT ![c] = r]
          /\ \E s \in FirstSteps(r) : Goto(c, s)
    /\ UNCHANGED <<serviceVars, answer, partVars, history>>

\* assertAbsent, before a write that must not overwrite.
Head(c) ==
    /\ pc[c] = "check"
    /\ \/ /\ store[req[c].dst] = None
          /\ \E s \in FirstEffectSteps(req[c]) : Goto(c, s)
          /\ UNCHANGED answer
       \/ store[req[c].dst] # None /\ EndCall(c, "conflict")
       \/ \E a \in Errors : EndCall(c, a)
    /\ UNCHANGED <<serviceVars, req, partVars, history>>

Put(c) ==
    /\ pc[c] = "put"
    /\ \/ /\ Happens(PutEffect(req[c]), c)
          /\ EndCall(c, "ok")
          /\ UNCHANGED <<work, upload, req, partVars, lost>>
       \/ RequestFails(c, PutEffect(req[c]))

\* A delete, and the second half of a move.  The provider answers 404 for a
\* missing object, and so does the driver.
Remove(c) ==
    LET e == RemoveEffect(req[c]) IN
    /\ pc[c] = "remove"
    /\ \/ /\ store[req[c].src] # None
          /\ Happens(e, c)
          /\ EndCall(c, "ok")
          /\ UNCHANGED <<work, upload, req, partVars, lost>>
       \/ /\ store[req[c].src] = None
          /\ EndCall(c, "missing")
          /\ UNCHANGED <<serviceVars, req, partVars, history>>
       \/ RequestFails(c, e)

\* The provider accepts the copy.  copy() answers, move() goes on to delete.
Copy(c) ==
    LET e == CopyEffect(req[c]) IN
    /\ pc[c] = "copy"
    /\ \/ /\ Possible(store, e)
          /\ IF req[c].op = "copy"
             THEN EndCall(c, "ok") /\ LeftToProvider(e, None) /\ UNCHANGED cargo
             ELSE /\ Goto(c, "remove") /\ UNCHANGED answer
                  /\ LeftToProvider(e, c)
                  /\ cargo' = [cargo EXCEPT ![c] = store[req[c].src]]
          /\ UNCHANGED <<store, upload, req, partVars, done, lost>>
       \/ RequestFails(c, e)

(***************************************************************************)
(* The multipart upload.                                                   *)
(***************************************************************************)

\* Without an id in the answer there is nothing the driver could abort.
CreateUpload(c) ==
    /\ pc[c] = "create"
    /\ \/ /\ upload' = [upload EXCEPT ![c] = "open"]
          /\ Goto(c, "body")
          /\ UNCHANGED <<answer, lost>>
       \/ /\ \E a \in Errors : EndCall(c, a)
          /\ \/ UNCHANGED <<upload, lost>>
             \/ /\ upload' = [upload EXCEPT ![c] = "open"]
                /\ lost' = [lost EXCEPT ![c] = TRUE]
    /\ UNCHANGED <<store, work, req, partVars, done, cargo>>

\* (Faulty variant: the body is read outside the try that aborts.)
ReadBodyUnguarded(c) ==
    /\ pc[c] = "body"
    /\ \/ /\ Goto(c, "parts")
          /\ size' = [size EXCEPT ![c] = 1]
          /\ next' = [next EXCEPT ![c] = 1]
          /\ sending' = [sending EXCEPT ![c] = {1}]
          /\ UNCHANGED answer
       \/ EndCall(c, "failed") /\ UNCHANGED <<size, next, sending>>
    /\ UNCHANGED <<serviceVars, req, sent, history>>

\* All parts are buffered; then each runner takes one.
ReadBody(c) ==
    /\ pc[c] = "body"
    /\ \/ \E n \in 0 .. MaxParts :
             LET first == IF n < Concurrency THEN n ELSE Concurrency IN
             /\ Goto(c, "parts")
             /\ size' = [size EXCEPT ![c] = n]
             /\ next' = [next EXCEPT ![c] = first]
             /\ sending' = [sending EXCEPT ![c] = 1 .. first]
       \/ Goto(c, "abort") /\ UNCHANGED <<size, next, sending>>
    /\ UNCHANGED <<serviceVars, req, answer, sent, history>>

\* (Faulty variant: a runner takes the next part without looking whether there is one.)
PartStoredTakesAny(c, i) ==
    /\ i \in sending[c]
    /\ upload[c] = "open"
    /\ sent' = [sent EXCEPT ![c] = @ \cup {i}]
    /\ next[c] < size[c] + 1
    /\ next' = [next EXCEPT ![c] = @ + 1]
    /\ sending' = [sending EXCEPT ![c] = (@ \ {i}) \cup {next[c] + 1}]
    /\ UNCHANGED <<serviceVars, callVars, size, history>>

\* A runner gets its answer and takes the next part, if there is one; also
\* after the upload has been given up.
PartStored(c, i) ==
    /\ i \in sending[c]
    /\ upload[c] = "open"
    /\ sent' = [sent EXCEPT ![c] = @ \cup {i}]
    /\ IF next[c] < size[c]
       THEN /\ next' = [next EXCEPT ![c] = @ + 1]
            /\ sending' = [sending EXCEPT ![c] = (@ \ {i}) \cup {next[c] + 1}]
       ELSE sending' = [sending EXCEPT ![c] = @ \ {i}] /\ UNCHANGED next
    /\ UNCHANGED <<serviceVars, callVars, size, history>>

\* (Faulty variant: the failure of a part is not noticed.)
PartFailsUnnoticed(c, i) ==
    /\ i \in sending[c]
    /\ sending' = [sending EXCEPT ![c] = @ \ {i}]
    /\ UNCHANGED <<serviceVars, callVars, size, next, sent, history>>

\* A runner's part is refused: that runner ends, and the first one to fail
\* makes the driver abort.
PartFails(c, i) ==
    /\ i \in sending[c]
    /\ sending' = [sending EXCEPT ![c] = @ \ {i}]
    /\ IF pc[c] = "parts" THEN Goto(c, "abort") ELSE UNCHANGED pc
    /\ UNCHANGED <<serviceVars, req, answer, size, next, sent, history>>

AllSent(c) ==
    /\ pc[c] = "parts"
    /\ sending[c] = {}
    /\ Goto(c, "commit")
    /\ UNCHANGED <<serviceVars, req, answer, partVars, history>>

\* (Faulty variant: a commit without an answer is taken for made.)
CommitUnanswered(c) ==
    /\ pc[c] = "commit"
    /\ EndCall(c, "ok")
    /\ UNCHANGED <<serviceVars, req, partVars, history>>

\* The object appears when the list of all parts is committed.
Commit(c) ==
    LET e == PutEffect(req[c]) IN
    /\ pc[c] = "commit"
    /\ \/ /\ Happens(e, c)
          /\ upload' = [upload EXCEPT ![c] = "closed"]
          /\ EndCall(c, "ok")
          /\ UNCHANGED work
       \/ /\ Goto(c, "abort")
          /\ work' = work \/ LeftToProvider(e, c)
          /\ UNCHANGED <<store, upload, answer, done, cargo>>
    /\ UNCHANGED <<req, partVars, lost>>

\* An abort that fails is ignored: the caller gets the error of the body, the part
\* or the commit.  An abort that succeeds leaves nothing to commit.
Abort(c) ==
    /\ pc[c] = "abort"
    /\ \E a \in Errors : EndCall(c, a)
    /\ \/ /\ upload' = [upload EXCEPT ![c] = "closed"]
          /\ work' = work \ Owned(c)
          /\ UNCHANGED lost
       \/ /\ work' = Disowned(c)
          /\ lost' = [lost EXCEPT ![c] = TRUE]
          /\ UNCHANGED upload
    /\ UNCHANGED <<store, req, partVars, done, cargo>>

\* The caller has its answer; what runners still do concerns a dead upload.
Return(c) ==
    /\ pc[c] = "done"
    /\ Goto(c, "idle")
    /\ req' = [req EXCEPT ![c] = NoRequest]
    /\ answer' = [answer EXCEPT ![c] = "none"]
    /\ upload' = [upload EXCEPT ![c] = "none"]
    /\ size' = [size EXCEPT ![c] = 0]
    /\ next' = [next EXCEPT ![c] = 0]
    /\ sending' = [sending EXCEPT ![c] = {}]
    /\ sent' = [sent EXCEPT ![c] = {}]
    /\ done' = [done EXCEPT ![c] = 0]
    /\ lost' = [lost EXCEPT ![c] = FALSE]
    /\ cargo' = [cargo EXCEPT ![c] = None]
    /\ work' = Disowned(c)
    /\ UNCHANGED store

(***************************************************************************)
(* The provider on its own: what it has accepted happens, or never will.   *)
(***************************************************************************)
CarryOut(w) ==
    /\ Happens(w.effect, w.owner)
    /\ work' = work \ {w}
    /\ upload' = [c \in Callers |->
                     IF c = w.owner /\ w.effect.kind = "put" THEN "closed" ELSE upload[c]]
    /\ UNCHANGED <<callVars, partVars, lost>>

Drop(w) ==
    /\ work' = work \ {w}
    /\ UNCHANGED <<store, upload, callVars, partVars, history>>

CallStep(c) ==
    \/ Head(c) \/ Put(c) \/ Remove(c) \/ Copy(c)
    \/ CreateUpload(c) \/ ReadBody(c) \/ AllSent(c) \/ Commit(c) \/ Abort(c)
    \/ Return(c)

Next ==
    \/ \E c \in Callers :
          \/ Invoke(c) \/ CallStep(c)
          \/ \E i \in sending[c] : PartStored(c, i) \/ PartFails(c, i)
    \/ \E w \in work : CarryOut(w) \/ Drop(w)

Spec == Init /\ [][Next]_vars

(***************************************************************************)
(* Properties.                                                             *)
(***************************************************************************)

\* What a caller may conclude from an answer: the "ok" of a copy tells no more
\* than a failure elsewhere, that the copy may be made later; the error for a
\* missing object is a failure.
Told ==
    [c \in Callers |->
        IF answer[c] = "missing" \/ (answer[c] = "ok" /\ req[c].op = "copy") THEN "failed"
        ELSE answer[c]]

LeftOver == {w.effect : w \in {x \in work : x.owner = None}}

Promise == INSTANCE ObjectStore WITH asked <- req, answer <- Told, late <- LeftOver

\* With answers understood in this way the driver keeps the promise of
\* ObjectStore for uploads, multipart or not, for deletes and for copies: in
\* particular a multipart upload is one put of a whole object, or nothing.
PromiseSpec == Promise!Spec

\* An upload that is committed has an etag for every part, whatever order the
\* runners finish in.
CommittedWhole ==
    \A c \in Callers : pc[c] = "commit" => sent[c] = 1 .. size[c]

\* A call that has ended leaves no multipart upload open at the provider,
\* unless the request to begin it or the one to abort it got no answer.
OrphanOnlyIfLost ==
    \A c \in Callers : pc[c] = "done" /\ upload[c] = "open" => lost[c]

\* The object of a move that has answered is at the destination or still at
\* the source once its copy is no longer pending, unless somebody else changed
\* one of the keys.  (The driver contract tests it; deleting the source before
\* the copy is made refutes it.)
MoveKeepsObject ==
    \A c \in Callers :
        req[c].op = "move" /\ req[c].src # req[c].dst /\ answer[c] = "ok" /\ cargo[c] # None
        /\ Owned(c) = {}
        => cargo[c] \in {store[req[c].src], store[req[c].dst]}
=============================================================================
