------------------------- MODULE CloudDriverProofs -------------------------
(***************************************************************************)
(* What CloudDriver guarantees for any number of callers, keys, bodies and *)
(* left-over requests: its safety invariants, and that it implements       *)
(* ObjectStore.  All of it follows from one inductive invariant, IInv.     *)
(***************************************************************************)
EXTENDS CloudDriver, TLAPS

\* The kinds of errors are known everywhere.
USE DEF Errors

(***************************************************************************)
(* Calls and effects.                                                      *)
(***************************************************************************)

\* Which fields of a call are keys and bodies depends on its operation only.
LEMMA RequestShape ==
    ASSUME NEW r \in Requests
    PROVE  /\ r.op \in {"upload", "delete", "copy", "move"}
           /\ r.overwrite \in BOOLEAN
           /\ r.op = "upload" => r.src = None /\ r.dst \in Keys /\ r.body \in Bodies
           /\ r.op = "delete" => r.src \in Keys /\ r.dst = None
           /\ r.op \in {"copy", "move"} => r.src \in Keys /\ r.dst \in Keys
           /\ r.body \in MaybeBody
           /\ r # NoRequest
<1>1. CASE r \in Uploads
  BY <1>1 DEF Uploads, NoRequest, MaybeBody
<1>2. CASE r \in Deletes
  <2>1. r.overwrite = TRUE
    BY <1>2 DEF Deletes
  <2>2. r.overwrite \in BOOLEAN
    BY <2>1
  <2>3. r.op = "delete" /\ r.src \in Keys /\ r.dst = None /\ r.body = None
    BY <1>2 DEF Deletes
  <2> QED
    BY <2>2, <2>3 DEF NoRequest, MaybeBody
<1>3. CASE r \in Copies
  BY <1>3 DEF Copies, NoRequest, MaybeBody
<1>4. CASE r \in Moves
  BY <1>4 DEF Moves, NoRequest, MaybeBody
<1> QED
  BY <1>1, <1>2, <1>3, <1>4 DEF Requests

\* A call without a destination has nothing to overwrite.
LEMMA DeleteOverwrites ==
    ASSUME NEW r \in Requests, r.op = "delete"
    PROVE  r.overwrite = TRUE
<1>1. r \in Deletes
  BY DEF Requests, Uploads, Copies, Moves
<1> QED
  BY <1>1 DEF Deletes

\* The effects of a call are effects.
LEMMA EffectShape ==
    ASSUME NEW r \in Requests
    PROVE  /\ r.op = "upload" => PutEffect(r) \in Effects
           /\ r.op \in {"copy", "move"} => CopyEffect(r) \in Effects
           /\ r.op \in {"delete", "move"} => RemoveEffect(r) \in Effects
BY RequestShape DEF Effects, PutEffect, CopyEffect, RemoveEffect

\* Carrying out an effect leaves a bucket.
LEMMA AfterType ==
    ASSUME NEW st \in [Keys -> MaybeBody], NEW e \in Effects
    PROVE  After(st, e) \in [Keys -> MaybeBody]
BY DEF After, MaybeBody, Effects

(***************************************************************************)
(* The strengthening.                                                      *)
(***************************************************************************)

\* What a caller is doing fits the call it made and what has happened of it.
Phase(c) ==
        /\ pc[c] = "idle" <=> req[c] = NoRequest
        /\ pc[c] # "idle" => req[c] \in Requests
        /\ pc[c] = "done" <=> answer[c] # "none"
        /\ pc[c] = "idle" => done[c] = 0 /\ belief[c] = Unknown
        /\ pc[c] = "check" =>
              ~req[c].overwrite /\ done[c] = 0 /\ belief[c] = Unknown
        /\ pc[c] = "put" => req[c].op = "upload" /\ done[c] = 0
        /\ pc[c] = "metadata" => req[c].op = "upload" /\ done[c] = 1
        /\ pc[c] = "copy" => req[c].op \in {"copy", "move"} /\ done[c] = 0
        /\ pc[c] = "poll" => req[c].op \in {"copy", "move"} /\ done[c] \in {0, 1}
        /\ pc[c] = "remove" =>
              \/ req[c].op = "delete" /\ done[c] = 0
              \/ req[c].op = "move" /\ done[c] = 1
        /\ answer[c] = "ok" => done[c] = EffectCount(req[c])

PhaseInv == \A c \in Callers : Phase(c)

\* A copy that somebody waits for is that caller's, and is still to be made.
Waited(w) ==
    w.owner # None =>
        /\ pc[w.owner] = "poll"
        /\ done[w.owner] = 0
        /\ w.effect = CopyEffect(req[w.owner])

OwnerInv == \A w \in work : Waited(w)

\* What a caller takes its keys to hold is what they hold, unless it is blind.
Belief(c) ==
    belief[c] # Unknown =>
        /\ req[c].dst \in Keys
        /\ store[req[c].dst] = belief[c] \/ (done[c] = 0 /\ c \in blind)
        /\ pc[c] \in {"put", "copy", "poll"} /\ done[c] = 0 => belief[c] = None
        /\ req[c].op = "upload" /\ done[c] = 1 => belief[c] = req[c].body
        /\ req[c].op = "upload" /\ answer[c] = "ok" => got[c] = req[c].body
        /\ req[c].op \in {"copy", "move"} /\ done[c] = 1 => belief[c] # None
        /\ req[c].op = "move" /\ done[c] = 2 /\ req[c].src # req[c].dst =>
              belief[c] # None /\ store[req[c].src] = None

BeliefInv == \A c \in Callers : Belief(c)

IInv == TypeOK /\ PhaseInv /\ OwnerInv /\ BeliefInv

(***************************************************************************)
(* Lemmas about first steps and beliefs.                                   *)
(***************************************************************************)

\* The first request of a call suits its operation.
LEMMA FirstStepShape ==
    ASSUME NEW r \in Requests
    PROVE  /\ FirstStep(r) \in {"check", "put", "copy", "remove"}
           /\ FirstStep(r) = "check" => ~r.overwrite
           /\ FirstStep(r) = "put" => r.op = "upload"
           /\ FirstStep(r) = "copy" => r.op \in {"copy", "move"}
           /\ FirstStep(r) = "remove" => r.op = "delete"
           /\ FirstEffectStep(r) \in {"put", "copy", "remove"}
           /\ FirstEffectStep(r) = "put" => r.op = "upload"
           /\ FirstEffectStep(r) = "copy" => r.op \in {"copy", "move"}
           /\ FirstEffectStep(r) = "remove" => r.op = "delete"
BY RequestShape DEF FirstStep, FirstEffectStep

\* What the callers believe after a change is a belief.
LEMMA LearnType ==
    ASSUME belief \in [Callers -> MaybeBody \cup {Unknown}],
           NEW k, NEW c, NEW b \in MaybeBody \cup {Unknown}
    PROVE  Learn(k, c, b) \in [Callers -> MaybeBody \cup {Unknown}]
BY DEF Learn

\* Whoever makes a change learns b; who still believes something afterwards
\* believed it before, and watches other keys than the changed one.
LEMMA LearnShape ==
    ASSUME NEW k, NEW c, NEW b, NEW d \in Callers
    PROVE  /\ d = c => Learn(k, c, b)[d] = b
           /\ d # c /\ Learn(k, c, b)[d] # Unknown =>
                 Learn(k, c, b)[d] = belief[d] /\ k \notin Watched(d)
BY DEF Learn

-----------------------------------------------------------------------------

LEMMA InitInv == Init => IInv
BY DEF Init, IInv, TypeOK, PhaseInv, Phase, OwnerInv, BeliefInv, Belief, Steps, Answers, MaybeBody

\* A caller that a step leaves alone keeps its phase, and its belief too unless
\* the step changes a key it watches.
LEMMA OthersKeep ==
    ASSUME NEW d \in Callers, Phase(d), Belief(d),
           req'[d] = req[d], pc'[d] = pc[d], answer'[d] = answer[d],
           got'[d] = got[d], done'[d] = done[d], d \in blind => d \in blind',
           belief'[d] # Unknown =>
              /\ belief'[d] = belief[d]
              /\ store'[req[d].dst] = store[req[d].dst]
              /\ done[d] > 0 => store'[req[d].src] = store[req[d].src]
    PROVE  Phase(d)' /\ Belief(d)'
BY DEF Phase, Belief, EffectCount

\* The same, when what the step does to the bucket is a change of key k that
\* callers learn of.
LEMMA OthersLearn ==
    ASSUME NEW d \in Callers, Phase(d), Belief(d), TypeOK,
           req'[d] = req[d], pc'[d] = pc[d], answer'[d] = answer[d],
           got'[d] = got[d], done'[d] = done[d], d \in blind => d \in blind',
           NEW c, NEW k, NEW b, NEW v, d # c,
           belief' = Learn(k, c, b),
           store' = [store EXCEPT ![k] = v]
    PROVE  Phase(d)' /\ Belief(d)'
<1>1. ASSUME belief'[d] # Unknown
      PROVE  belief'[d] = belief[d] /\ k \notin Watched(d)
  BY <1>1, LearnShape
<1>2. ASSUME NEW x, x # k
      PROVE  store'[x] = store[x]
  BY <1>2 DEF TypeOK
<1>3. ASSUME belief'[d] # Unknown
      PROVE  /\ belief'[d] = belief[d]
             /\ store'[req[d].dst] = store[req[d].dst]
             /\ done[d] > 0 => store'[req[d].src] = store[req[d].src]
  BY <1>1, <1>2, <1>3 DEF Watched
<1> QED
  BY <1>3, OthersKeep

\* A request that fails changes nothing but the end of its caller's call.
LEMMA FailKeeps ==
    ASSUME IInv, NEW c \in Callers, NEW e \in Effects,
           pc[c] \in {"put", "copy", "remove"}, RequestFails(c, e)
    PROVE  IInv'
<1> USE DEF IInv, PhaseInv, BeliefInv
<1>1. TypeOK'
  BY DEF TypeOK, RequestFails, EndCall, history, Work, Steps, Answers
<1>2. Phase(c)' /\ Belief(c)'
  BY DEF TypeOK, RequestFails, EndCall, history, Phase, Belief
<1>3. ASSUME NEW d \in Callers, d # c PROVE Phase(d)' /\ Belief(d)'
  BY <1>3, OthersKeep DEF TypeOK, RequestFails, EndCall, history
<1>4. OwnerInv'
  BY DEF TypeOK, RequestFails, EndCall, history, OwnerInv, Waited, Work
<1> QED
  BY <1>1, <1>2, <1>3, <1>4

-----------------------------------------------------------------------------

LEMMA StepInv == IInv /\ [Next]_vars => IInv'
<1> SUFFICES ASSUME IInv, [Next]_vars PROVE IInv'
  OBVIOUS
<1> USE NoneAssumption, CallersAssumption, UnknownAssumption DEF IInv, PhaseInv, BeliefInv
<1>a. ASSUME NEW d \in Callers, pc[d] # "idle"
      PROVE  req[d] \in Requests /\ (req[d].dst \in Keys \/ req[d].op = "delete")
  BY <1>a, RequestShape DEF Phase
<1>b. ASSUME NEW d \in Callers, pc[d] = "check"
      PROVE  /\ req[d] \in Requests /\ req[d].dst \in Keys
             /\ done[d] = 0 /\ answer[d] = "none"
             /\ FirstEffectStep(req[d]) \in {"put", "copy"}
             /\ FirstEffectStep(req[d]) = "put" => req[d].op = "upload"
             /\ FirstEffectStep(req[d]) = "copy" => req[d].op \in {"copy", "move"}
  <2>1. req[d] \in Requests /\ ~req[d].overwrite /\ done[d] = 0 /\ answer[d] = "none"
    BY <1>b DEF Phase, TypeOK, Answers
  <2>2. req[d].op # "delete"
    BY <2>1, DeleteOverwrites
  <2> QED
    BY <2>1, <2>2, RequestShape, FirstStepShape
<1>1. ASSUME NEW c \in Callers, Invoke(c) PROVE IInv'
  <2>1. TypeOK'
    BY <1>1, CallsAssumption, FirstStepShape DEF Invoke, EndCall, TypeOK, Steps, Answers, serviceVars, callVars, history
  <2>2. Phase(c)' /\ Belief(c)'
    <3>1. PICK r \in Requests : req' = [req EXCEPT ![c] = r] /\ pc' = [pc EXCEPT ![c] = FirstStep(r)]
      BY <1>1, CallsAssumption DEF Invoke
    <3>2. req'[c] = r /\ pc'[c] = FirstStep(r) /\ done'[c] = 0 /\ belief'[c] = Unknown /\ answer'[c] = "none"
      BY <1>1, <3>1 DEF Invoke, TypeOK, Phase, Answers, serviceVars, history
    <3>3. r # NoRequest /\ r \in Requests
      BY RequestShape
    <3> QED
      BY <3>2, <3>3, FirstStepShape DEF Phase, Belief
  <2>3. ASSUME NEW d \in Callers, d # c PROVE Phase(d)' /\ Belief(d)'
    BY <1>1, <2>3, OthersKeep DEF Invoke, EndCall, TypeOK, serviceVars, history
  <2>4. OwnerInv'
    BY <1>1 DEF Invoke, EndCall, TypeOK, OwnerInv, Waited, Work, serviceVars, history
  <2> QED
    BY <2>1, <2>2, <2>3, <2>4
<1>2. ASSUME NEW c \in Callers, HeadAnswersAbsent(c) PROVE IInv'
  <2>1. TypeOK'
    BY <1>2, <1>b DEF HeadAnswersAbsent, TypeOK, Steps, MaybeBody, serviceVars, callVars, history
  <2>2. Phase(c)' /\ Belief(c)'
    BY <1>2, <1>b DEF HeadAnswersAbsent, TypeOK, Phase, Belief, EffectCount, serviceVars, history
  <2>3. ASSUME NEW d \in Callers, d # c PROVE Phase(d)' /\ Belief(d)'
    BY <1>2, <2>3, OthersKeep DEF HeadAnswersAbsent, EndCall, TypeOK, serviceVars, history
  <2>4. OwnerInv'
    BY <1>2 DEF HeadAnswersAbsent, EndCall, TypeOK, OwnerInv, Waited, Work, serviceVars, history
  <2> QED
    BY <2>1, <2>2, <2>3, <2>4
<1>3. ASSUME NEW c \in Callers, HeadAnswers400(c) PROVE IInv'
  <2>1. TypeOK'
    BY <1>3, <1>b DEF HeadAnswers400, TypeOK, Steps, MaybeBody, serviceVars, callVars, history
  <2>2. Phase(c)' /\ Belief(c)'
    BY <1>3, <1>b DEF HeadAnswers400, TypeOK, Phase, Belief, EffectCount, serviceVars, history
  <2>3. ASSUME NEW d \in Callers, d # c PROVE Phase(d)' /\ Belief(d)'
    BY <1>3, <2>3, OthersKeep DEF HeadAnswers400, EndCall, TypeOK, serviceVars, history
  <2>4. OwnerInv'
    BY <1>3 DEF HeadAnswers400, EndCall, TypeOK, OwnerInv, Waited, Work, serviceVars, history
  <2> QED
    BY <2>1, <2>2, <2>3, <2>4
<1>4. ASSUME NEW c \in Callers, HeadAnswersPresent(c) PROVE IInv'
  <2>1. TypeOK'
    BY <1>4 DEF HeadAnswersPresent, EndCall, TypeOK, Steps, Answers, serviceVars, callVars, history
  <2>2. Phase(c)' /\ Belief(c)'
    BY <1>4, <1>a DEF HeadAnswersPresent, EndCall, TypeOK, Phase, Belief, serviceVars, history
  <2>3. ASSUME NEW d \in Callers, d # c PROVE Phase(d)' /\ Belief(d)'
    BY <1>4, <2>3, OthersKeep DEF HeadAnswersPresent, EndCall, TypeOK, serviceVars, history
  <2>4. OwnerInv'
    BY <1>4 DEF HeadAnswersPresent, EndCall, TypeOK, OwnerInv, Waited, Work, serviceVars, history
  <2> QED
    BY <2>1, <2>2, <2>3, <2>4
<1>5. ASSUME NEW c \in Callers, HeadFails(c) PROVE IInv'
  <2>1. TypeOK'
    BY <1>5 DEF HeadFails, EndCall, TypeOK, Steps, Answers, serviceVars, callVars, history
  <2>2. Phase(c)' /\ Belief(c)'
    BY <1>5, <1>a DEF HeadFails, EndCall, TypeOK, Phase, Belief, serviceVars, history
  <2>3. ASSUME NEW d \in Callers, d # c PROVE Phase(d)' /\ Belief(d)'
    BY <1>5, <2>3, OthersKeep DEF HeadFails, EndCall, TypeOK, serviceVars, history
  <2>4. OwnerInv'
    BY <1>5 DEF HeadFails, EndCall, TypeOK, OwnerInv, Waited, Work, serviceVars, history
  <2> QED
    BY <2>1, <2>2, <2>3, <2>4
<1>6. ASSUME NEW c \in Callers, GcsMetadata(c) PROVE IInv'
  <2>1. TypeOK'
    BY <1>6, <1>a DEF GcsMetadata, EndCall, TypeOK, Phase, Steps, Answers, serviceVars, history
  <2>2. Phase(c)' /\ Belief(c)'
    BY <1>6, <1>a DEF GcsMetadata, EndCall, TypeOK, Phase, Belief, EffectCount, serviceVars, history
  <2>3. ASSUME NEW d \in Callers, d # c PROVE Phase(d)' /\ Belief(d)'
    BY <1>6, <2>3, OthersKeep DEF GcsMetadata, EndCall, TypeOK, serviceVars, history
  <2>4. OwnerInv'
    BY <1>6 DEF GcsMetadata, EndCall, TypeOK, OwnerInv, Waited, Work, serviceVars, history
  <2> QED
    BY <2>1, <2>2, <2>3, <2>4
<1>7. ASSUME NEW c \in Callers, Return(c) PROVE IInv'
  <2>1. TypeOK'
    BY <1>7 DEF Return, TypeOK, Steps, Answers, MaybeBody, serviceVars
  <2>2. Phase(c)' /\ Belief(c)'
    BY <1>7, <1>a DEF Return, EndCall, TypeOK, Phase, Belief, serviceVars, history
  <2>3. ASSUME NEW d \in Callers, d # c PROVE Phase(d)' /\ Belief(d)'
    BY <1>7, <2>3, OthersKeep DEF Return, EndCall, TypeOK, serviceVars, history
  <2>4. OwnerInv'
    BY <1>7 DEF Return, EndCall, TypeOK, OwnerInv, Waited, Work, serviceVars, history
  <2> QED
    BY <2>1, <2>2, <2>3, <2>4
<1>8. ASSUME NEW c \in Callers, Put(c) PROVE IInv'
  <2>1. req[c] \in Uploads /\ pc[c] = "put" /\ done[c] = 0
    BY <1>8, <1>a DEF Put, Phase, Requests, Deletes, Copies, Moves
  <2>2. CASE RequestFails(c, PutEffect(req[c]))
    BY <2>1, <2>2, FailKeeps, EffectShape DEF Uploads, Requests
  <2>3. CASE ~RequestFails(c, PutEffect(req[c]))
    <3>1. /\ store' = [store EXCEPT ![req[c].dst] = req[c].body]
          /\ belief' = Learn(req[c].dst, c, req[c].body)
      BY <1>8, <2>3 DEF Put, After, PutEffect, Changed
    <3>2. TypeOK'
      BY <1>8, <2>1, <2>3, <3>1, LearnType DEF Put, EndCall, TypeOK, Steps, Answers, MaybeBody, Uploads
    <3>3. Phase(c)' /\ Belief(c)'
      BY <1>8, <2>1, <2>3, <3>1, LearnShape
         DEF Put, EndCall, TypeOK, Phase, Belief, EffectCount, Uploads
    <3>4. ASSUME NEW d \in Callers, d # c PROVE Phase(d)' /\ Belief(d)'
      BY <1>8, <2>3, <3>1, <3>4, OthersLearn DEF Put, EndCall, TypeOK
    <3>5. OwnerInv'
      BY <1>8, <2>1, <2>3 DEF Put, EndCall, TypeOK, OwnerInv, Waited, Work
    <3> QED
      BY <3>2, <3>3, <3>4, <3>5
  <2> QED
    BY <2>2, <2>3
<1>9. ASSUME NEW c \in Callers, CopyObject(c) PROVE IInv'
  <2>1. req[c] \in Copies \cup Moves /\ pc[c] = "copy" /\ done[c] = 0
    BY <1>9, <1>a DEF CopyObject, Phase, Requests, Deletes, Uploads
  <2>2. CASE RequestFails(c, CopyEffect(req[c]))
    BY <2>1, <2>2, FailKeeps, EffectShape DEF Copies, Moves, Requests
  <2>3. CASE ~RequestFails(c, CopyEffect(req[c]))
    <3>1. /\ store' = [store EXCEPT ![req[c].dst] = store[req[c].src]]
          /\ belief' = Learn(req[c].dst, c, store[req[c].src])
          /\ store[req[c].src] # None
          /\ req[c].src \in Keys /\ req[c].dst \in Keys
          /\ req[c].op \in {"copy", "move"}
      BY <1>9, <2>1, <2>3 DEF CopyObject, CopyMade, Possible, After, CopyEffect, Changed, Copies, Moves
    <3>2. TypeOK'
      BY <1>9, <2>1, <2>3, <3>1, LearnType
         DEF CopyObject, CopyMade, TypeOK, Steps, Answers, StepAfterCopy, AnswerAfterCopy
    <3>3. Phase(c)' /\ Belief(c)'
      BY <1>9, <1>a, <2>1, <2>3, <3>1, LearnShape
         DEF CopyObject, CopyMade, TypeOK, Phase, Belief, EffectCount, StepAfterCopy, AnswerAfterCopy
    <3>4. ASSUME NEW d \in Callers, d # c PROVE Phase(d)' /\ Belief(d)'
      BY <1>9, <2>3, <3>1, <3>4, OthersLearn DEF CopyObject, CopyMade, TypeOK
    <3>5. OwnerInv'
      BY <1>9, <2>1, <2>3 DEF CopyObject, CopyMade, TypeOK, OwnerInv, Waited, Work
    <3> QED
      BY <3>2, <3>3, <3>4, <3>5
  <2> QED
    BY <2>2, <2>3
<1>10. ASSUME NEW c \in Callers, AzureBeginCopy(c) PROVE IInv'
  <2>1. req[c] \in Copies \cup Moves /\ pc[c] = "copy" /\ done[c] = 0
    BY <1>10, <1>a DEF AzureBeginCopy, Phase, Requests, Deletes, Uploads
  <2>2. CopyEffect(req[c]) \in Effects
    BY <2>1, EffectShape DEF Copies, Moves, Requests
  <2>3. TypeOK'
    BY <1>10, <2>2 DEF AzureBeginCopy, TypeOK, Steps, Work, history
  <2>4. Phase(c)' /\ Belief(c)'
    BY <1>10, <2>1 DEF AzureBeginCopy, TypeOK, Phase, Belief, history, Copies, Moves, EffectCount
  <2>5. ASSUME NEW d \in Callers, d # c PROVE Phase(d)' /\ Belief(d)'
    BY <1>10, <2>5, OthersKeep DEF AzureBeginCopy, TypeOK, history
  <2>6. OwnerInv'
    BY <1>10, <2>1 DEF AzureBeginCopy, TypeOK, OwnerInv, Waited, Work, history, CopyEffect
  <2> QED
    BY <2>3, <2>4, <2>5, <2>6
<1>11. ASSUME NEW c \in Callers, AzurePoll(c) PROVE IInv'
  <2>1. req[c] \in Copies \cup Moves /\ pc[c] = "poll"
    BY <1>11, <1>a DEF AzurePoll, Phase, Requests, Deletes, Uploads
  <2>2. work' \subseteq Work /\ \A w \in work' : w.owner # None => w \in work /\ (w.owner = c => done[c] = 1)
    BY <1>11 DEF AzurePoll, TypeOK, Work, Abandoned, Owned, history
  <2>3. TypeOK'
    BY <1>11, <2>2 DEF AzurePoll, EndCall, TypeOK, Steps, Answers, history, StepAfterCopy, AnswerAfterCopy
  <2>4. Phase(c)' /\ Belief(c)'
    BY <1>11, <2>1 DEF AzurePoll, EndCall, TypeOK, Phase, Belief, history, Copies, Moves,
                       EffectCount, StepAfterCopy, AnswerAfterCopy
  <2>5. ASSUME NEW d \in Callers, d # c PROVE Phase(d)' /\ Belief(d)'
    BY <1>11, <2>5, OthersKeep DEF AzurePoll, EndCall, TypeOK, history
  <2>6. OwnerInv'
    BY <1>11, <2>1, <2>2 DEF AzurePoll, EndCall, TypeOK, OwnerInv, Waited, Work, history, CopyEffect
  <2> QED
    BY <2>3, <2>4, <2>5, <2>6
<1>12. ASSUME NEW c \in Callers, RemoveObject(c) PROVE IInv'
  <2>1. /\ pc[c] = "remove"
        /\ req[c].src \in Keys
        /\ \/ req[c].op = "delete" /\ done[c] = 0 /\ req[c].dst = None
           \/ req[c].op = "move" /\ done[c] = 1 /\ req[c].dst \in Keys
    BY <1>12, <1>a, RequestShape DEF RemoveObject, Phase
  <2>2. CASE RequestFails(c, RemoveEffect(req[c]))
    BY <1>a, <2>1, <2>2, FailKeeps, EffectShape
  <2>3. CASE ~RequestFails(c, RemoveEffect(req[c]))
    <3> DEFINE b == IF req[c].src = req[c].dst THEN None ELSE belief[c]
    <3>1. /\ store' = [store EXCEPT ![req[c].src] = None]
          /\ belief' = Learn(req[c].src, c, b)
          /\ b \in MaybeBody \cup {Unknown}
      BY <1>12, <2>3 DEF RemoveObject, After, RemoveEffect, Changed, TypeOK, MaybeBody
    <3>2. TypeOK'
      BY <1>12, <2>1, <2>3, <3>1, LearnType DEF RemoveObject, EndCall, TypeOK, Steps, Answers, MaybeBody
    <3>3. Phase(c)' /\ Belief(c)'
      <4>1. belief'[c] = b
        BY <3>1, LearnShape
      <4>2. Phase(c)'
        BY <1>12, <1>a, <2>1, <2>3 DEF RemoveObject, EndCall, TypeOK, Phase, EffectCount
      <4>3. Belief(c)'
        BY <1>12, <2>1, <2>3, <3>1, <4>1 DEF RemoveObject, EndCall, TypeOK, Belief, Phase
      <4> QED
        BY <4>2, <4>3
    <3>4. ASSUME NEW d \in Callers, d # c PROVE Phase(d)' /\ Belief(d)'
      BY <1>12, <2>3, <3>1, <3>4, OthersLearn DEF RemoveObject, EndCall, TypeOK
    <3>5. OwnerInv'
      BY <1>12, <2>1, <2>3 DEF RemoveObject, EndCall, TypeOK, OwnerInv, Waited, Work
    <3> QED
      BY <3>2, <3>3, <3>4, <3>5
  <2> QED
    BY <2>2, <2>3
<1>13. ASSUME NEW w \in work, CarryOut(w) PROVE IInv'
  <2>1. w \in Work /\ work' \subseteq work
    BY <1>13 DEF CarryOut, TypeOK
  <2>2. CASE w.owner \in Callers
    <3> DEFINE c == w.owner
    <3>1. pc[c] = "poll" /\ done[c] = 0 /\ w.effect = CopyEffect(req[c]) /\ c \in Callers /\ c # None
      BY <2>2 DEF OwnerInv, Waited
    <3>2. /\ req[c].op \in {"copy", "move"}
          /\ req[c].src \in Keys /\ req[c].dst \in Keys
      BY <3>1, <1>a, RequestShape DEF Phase
    <3>3. /\ store' = [store EXCEPT ![req[c].dst] = store[req[c].src]]
          /\ belief' = Learn(req[c].dst, c, store[req[c].src])
          /\ store[req[c].src] # None
          /\ done' = [done EXCEPT ![c] = 1]
          /\ UNCHANGED <<driver, req, pc, answer, got, blind>>
      BY <1>13, <3>1 DEF CarryOut, CopyMade, Possible, After, CopyEffect, Changed, callVars
    <3>4. TypeOK'
      <4>1. store[req[c].src] \in MaybeBody
        BY <3>2 DEF TypeOK
      <4>2. belief' \in [Callers -> MaybeBody \cup {Unknown}]
        BY <3>3, <4>1, LearnType DEF TypeOK
      <4> QED
        BY <2>1, <3>1, <3>2, <3>3, <4>1, <4>2 DEF TypeOK
    <3>5. Phase(c)' /\ Belief(c)'
      BY <1>13, <3>1, <3>2, <3>3, LearnShape DEF CarryOut, TypeOK, Phase, Belief, callVars
    <3>6. ASSUME NEW d \in Callers, d # c PROVE Phase(d)' /\ Belief(d)'
      BY <1>13, <3>3, <3>6, OthersLearn DEF CarryOut, TypeOK, callVars
    <3>7. OwnerInv'
      BY <1>13, <3>1, <3>3 DEF CarryOut, TypeOK, OwnerInv, Waited, Work, callVars
    <3> QED
      BY <3>4, <3>5, <3>6, <3>7
  <2>3. CASE w.owner \notin Callers
    <3>1. /\ belief' = Learn(Changed(w.effect), None, Unknown)
          /\ store' = After(store, w.effect)
          /\ done' = done /\ blind' = blind
      BY <1>13, <2>3 DEF CarryOut
    <3>2. store' \in [Keys -> MaybeBody]
      BY <2>1, <3>1, AfterType DEF TypeOK, Work
    <3>3. TypeOK'
      BY <1>13, <2>1, <3>1, <3>2, LearnType DEF CarryOut, TypeOK, callVars
    <3>4. ASSUME NEW d \in Callers PROVE Phase(d)' /\ Belief(d)'
      BY <1>13, <3>1, <3>4, OthersLearn DEF CarryOut, After, callVars
    <3>5. OwnerInv'
      BY <1>13, <2>1, <3>1 DEF CarryOut, OwnerInv, Waited, callVars, CopyEffect
    <3> QED
      BY <3>3, <3>4, <3>5
  <2> QED
    BY <2>2, <2>3
<1>14. ASSUME NEW w \in work, DropWork(w) PROVE IInv'
  <2>1. TypeOK' /\ OwnerInv'
    BY <1>14 DEF DropWork, TypeOK, OwnerInv, Waited, callVars, history, CopyEffect
  <2>2. ASSUME NEW d \in Callers PROVE Phase(d)' /\ Belief(d)'
    BY <1>14, <2>2, OthersKeep DEF DropWork, callVars, history
  <2> QED
    BY <2>1, <2>2
<1>15. CASE UNCHANGED vars
  <2>1. TypeOK' /\ OwnerInv'
    BY <1>15 DEF vars, serviceVars, callVars, history, TypeOK, OwnerInv, Waited, CopyEffect
  <2>2. ASSUME NEW d \in Callers PROVE Phase(d)' /\ Belief(d)'
    BY <1>15, <2>2, OthersKeep DEF vars, serviceVars, callVars, history
  <2> QED
    BY <2>1, <2>2
<1> QED
  BY <1>1, <1>2, <1>3, <1>4, <1>5, <1>6, <1>7, <1>8, <1>9, <1>10, <1>11, <1>12, <1>13, <1>14, <1>15 DEF Next, CallStep

-----------------------------------------------------------------------------

\* The invariant that everything else rests on.
THEOREM Inductive == Spec => []IInv
<1>1. Init => IInv
  BY InitInv
<1>2. IInv /\ [Next]_vars => IInv'
  BY StepInv
<1> QED
  BY <1>1, <1>2, PTL DEF Spec

\* Every variable of a driver call has its type at every await of the code.
THEOREM TypeCorrect == Spec => []TypeOK
<1>1. IInv => TypeOK
  BY DEF IInv
<1> QED
  BY <1>1, Inductive, PTL

\* Whatever other callers and the network do, a write with overwrite: false
\* replaces an object in two cases only: somebody else wrote it after the check,
\* or the s3 driver took a 400 for "absent".
THEOREM OnlyTheWindow == Spec => []WriteOnceWindow
<1>1. IInv => WriteOnceWindow
  <2> SUFFICES ASSUME IInv, NEW c \in Callers, pc[c] \in {"put", "copy", "poll"},
                      done[c] = 0, belief[c] # Unknown
               PROVE  store[req[c].dst] = None \/ c \in blind
    BY DEF WriteOnceWindow
  <2> QED
    BY DEF IInv, BeliefInv, Belief
<1> QED
  BY <1>1, Inductive, PTL

\* A move never leaves its object nowhere, also when its second request fails
\* or its caller gives up polling the copy.
THEOREM NothingLost == Spec => []MoveNeverLoses
<1>1. IInv => MoveNeverLoses
  <2> SUFFICES ASSUME IInv, NEW c \in Callers,
                      req[c].op = "move", req[c].src # req[c].dst,
                      done[c] > 0, belief[c] # Unknown
               PROVE  belief[c] \in {store[req[c].src], store[req[c].dst]} \ {None}
    BY DEF MoveNeverLoses
  <2>1. done[c] = 1 \/ done[c] = 2
    BY DEF IInv, TypeOK
  <2>2. belief[c] # None /\ store[req[c].dst] = belief[c]
    BY <2>1 DEF IInv, BeliefInv, Belief
  <2> QED
    BY <2>2
<1> QED
  BY <1>1, Inductive, PTL

\* A move that succeeded has moved the object, and not only copied it.
THEOREM MovedMeansMoved == Spec => []MoveRelocates
<1>1. IInv => MoveRelocates
  <2> SUFFICES ASSUME IInv, NEW c \in Callers,
                      req[c].op = "move", req[c].src # req[c].dst,
                      answer[c] = "ok", belief[c] # Unknown
               PROVE  store[req[c].src] = None /\ store[req[c].dst] = belief[c]
    BY DEF MoveRelocates
  <2>1. done[c] = 2
    BY DEF IInv, PhaseInv, Phase, EffectCount
  <2> QED
    BY <2>1 DEF IInv, BeliefInv, Belief
<1> QED
  BY <1>1, Inductive, PTL

\* The etag and version that upload() returns are those of the object stored,
\* also from the driver that asks for them in a request of their own.
THEOREM ReportsItsObject == Spec => []UploadReportsItsObject
<1>1. IInv => UploadReportsItsObject
  <2> SUFFICES ASSUME IInv, NEW c \in Callers,
                      req[c].op = "upload", answer[c] = "ok", belief[c] # Unknown
               PROVE  got[c] = req[c].body /\ store[req[c].dst] = req[c].body
    BY DEF UploadReportsItsObject
  <2>1. done[c] = 1
    BY DEF IInv, PhaseInv, Phase, EffectCount
  <2> QED
    BY <2>1 DEF IInv, BeliefInv, Belief
<1> QED
  BY <1>1, Inductive, PTL

-----------------------------------------------------------------------------
(***************************************************************************)
(* The drivers implement ObjectStore.                                      *)
(***************************************************************************)

\* The two modules share the vocabulary of StorageRequests.
LEMMA SameVocabulary ==
    /\ Promise!Requests = Requests
    /\ Promise!NoRequest = NoRequest
    /\ Promise!MaybeBody = MaybeBody
    /\ \A r : Promise!EffectCount(r) = EffectCount(r)
    /\ \A r, n : Promise!EffectOf(r, n) = EffectOf(r, n)
    /\ \A st, e : /\ Promise!Possible(st, e) = Possible(st, e)
                 /\ Promise!After(st, e) = After(st, e)
<1>1. Promise!Requests = Requests
  BY DEF Promise!Requests, Promise!Uploads, Promise!Deletes, Promise!Copies, Promise!Moves,
         Requests, Uploads, Deletes, Copies, Moves
<1>2. Promise!NoRequest = NoRequest /\ Promise!MaybeBody = MaybeBody
  BY DEF Promise!NoRequest, NoRequest, Promise!MaybeBody, MaybeBody
<1>3. \A r : Promise!EffectCount(r) = EffectCount(r)
  BY DEF Promise!EffectCount, EffectCount
<1>4. \A r, n : Promise!EffectOf(r, n) = EffectOf(r, n)
  BY DEF Promise!EffectOf, Promise!PutEffect, Promise!CopyEffect, Promise!RemoveEffect,
         EffectOf, PutEffect, CopyEffect, RemoveEffect
<1>5. \A st, e : Promise!Possible(st, e) = Possible(st, e)
  BY DEF Promise!Possible, Possible
<1>6. \A st, e : Promise!After(st, e) = After(st, e)
  BY DEF Promise!After, Promise!Changed, After, Changed
<1> QED
  BY <1>1, <1>2, <1>3, <1>4, <1>5, <1>6

\* A caller between its call and its answer is Running in the abstract.
LEMMA CallRuns ==
    ASSUME IInv, NEW c \in Callers, pc[c] \notin {"idle", "done"}
    PROVE  Promise!Running(c) /\ req[c] \in Requests
BY SameVocabulary DEF IInv, PhaseInv, Phase, Promise!Running

\* Work that somebody waits for is no left-over.
LEMMA LeftOverShape ==
    /\ \A e : e \in LeftOver <=> \E w \in work : w.owner = None /\ w.effect = e
    /\ \A e : e \in LeftOver' <=> \E w \in work' : w.owner = None /\ w.effect = e
BY DEF LeftOver

\* A request that fails is an abstract failure, with or without a left-over.
LEMMA FailRefines ==
    ASSUME IInv, NEW c \in Callers, NEW e,
           pc[c] \notin {"idle", "done"}, RequestFails(c, e),
           done[c] < EffectCount(req[c]), e = EffectOf(req[c], done[c] + 1)
    PROVE  Promise!AnswerError(c)
<1>1. Promise!Running(c)
  BY CallRuns
<1>2. LeftOver' = LeftOver \/ LeftOver' = LeftOver \cup {e}
  <2>1. CASE work' = work
    BY <2>1 DEF LeftOver
  <2>2. CASE work' = work \cup {[effect |-> e, owner |-> None]}
    BY <2>2 DEF LeftOver
  <2> QED
    BY <2>1, <2>2 DEF RequestFails
<1>3. /\ \E a \in Errors : answer' = [answer EXCEPT ![c] = a]
      /\ UNCHANGED <<store, req, done>>
  BY DEF RequestFails, EndCall, history
<1> QED
  BY <1>1, <1>2, <1>3, SameVocabulary DEF Promise!AnswerError, Promise!Errors

\* Every step of a driver, of a provider or of the network is a step of the
\* abstract store, or changes nothing that is visible there.
LEMMA StepRefines == IInv /\ [Next]_vars => [Promise!Next]_(Promise!vars)
<1> SUFFICES ASSUME IInv, [Next]_vars
             PROVE  Promise!Next \/ UNCHANGED Promise!vars
  OBVIOUS
<1> USE NoneAssumption, CallersAssumption
<1> USE SameVocabulary
<1>s. ASSUME UNCHANGED <<store, work, req, done, answer>>
      PROVE  UNCHANGED Promise!vars
  BY <1>s DEF Promise!vars, LeftOver
<1>t. ASSUME work' = work PROVE LeftOver' = LeftOver
  BY <1>t DEF LeftOver
<1>n. ASSUME NEW c \in Callers,
             \/ Promise!Ask(c) \/ Promise!Perform(c) \/ Promise!Complete(c)
             \/ Promise!AnswerOk(c) \/ Promise!AnswerError(c) \/ Promise!Leave(c)
      PROVE  Promise!Next
  BY <1>n DEF Promise!Next
<1>p. ASSUME NEW c \in Callers, pc[c] \notin {"idle", "done"}
      PROVE  Phase(c) /\ req[c] \in Requests /\ Promise!Running(c)
  BY <1>p, CallRuns DEF IInv, PhaseInv
<1>1. ASSUME NEW c \in Callers, Invoke(c) PROVE Promise!Next
  <2>1. req[c] = NoRequest
    BY <1>1 DEF Invoke, IInv, PhaseInv, Phase
  <2>2. Promise!Ask(c)
    BY <1>1, <1>t, <2>1, CallsAssumption DEF Invoke, Promise!Ask, serviceVars, history
  <2> QED
    BY <1>n, <2>2
<1>2. ASSUME NEW c \in Callers, HeadAnswersAbsent(c) \/ HeadAnswers400(c)
      PROVE  UNCHANGED Promise!vars
  BY <1>2, <1>s DEF HeadAnswersAbsent, HeadAnswers400, serviceVars, history
<1>3. ASSUME NEW c \in Callers, HeadAnswersPresent(c) PROVE Promise!Next
  <2>1. Promise!AnswerError(c)
    BY <1>3, <1>p, <1>t
       DEF HeadAnswersPresent, EndCall, Promise!AnswerError, Promise!Errors, serviceVars, history, Phase
  <2> QED
    BY <1>n, <2>1
<1>4. ASSUME NEW c \in Callers, HeadFails(c) PROVE Promise!Next
  <2>1. Promise!AnswerError(c)
    BY <1>4, <1>p, <1>t DEF HeadFails, EndCall, Promise!AnswerError, Promise!Errors, serviceVars, history
  <2> QED
    BY <1>n, <2>1
<1>5. ASSUME NEW c \in Callers, Put(c) PROVE Promise!Next
  <2>1. /\ req[c].op = "upload" /\ done[c] = 0 /\ EffectCount(req[c]) = 1
        /\ EffectOf(req[c], 1) = PutEffect(req[c])
        /\ Promise!Running(c) /\ pc[c] = "put"
    BY <1>5, <1>p DEF Put, Phase, EffectCount, EffectOf
  <2>2. CASE RequestFails(c, PutEffect(req[c]))
    BY <1>n, <2>1, <2>2, FailRefines
  <2>3. CASE ~RequestFails(c, PutEffect(req[c]))
    <3>1. /\ store' = After(store, PutEffect(req[c]))
          /\ done' = [done EXCEPT ![c] = @ + 1]
          /\ req' = req /\ LeftOver' = LeftOver
          /\ answer' = answer \/ answer' = [answer EXCEPT ![c] = "ok"]
      BY <1>5, <1>t, <2>1, <2>3 DEF Put, EndCall, IInv, TypeOK
    <3>2. Possible(store, PutEffect(req[c]))
      BY DEF Possible, PutEffect
    <3>3. Promise!Perform(c) \/ Promise!Complete(c)
      BY <2>1, <3>1, <3>2 DEF Promise!Perform, Promise!Complete
    <3> QED
      BY <1>n, <3>3
  <2> QED
    BY <2>2, <2>3
<1>6. ASSUME NEW c \in Callers, GcsMetadata(c) PROVE Promise!Next
  <2>1. done[c] = EffectCount(req[c]) /\ Promise!Running(c)
    BY <1>6, <1>p DEF GcsMetadata, Phase, EffectCount
  <2>2. Promise!AnswerOk(c) \/ Promise!AnswerError(c)
    BY <1>6, <1>t, <2>1
       DEF GcsMetadata, EndCall, Promise!AnswerOk, Promise!AnswerError, Promise!Errors, serviceVars, history
  <2> QED
    BY <1>n, <2>2
<1>7. ASSUME NEW c \in Callers, pc[c] \in {"copy", "poll"}
      PROVE  /\ req[c].op \in {"copy", "move"}
             /\ EffectCount(req[c]) = IF req[c].op = "move" THEN 2 ELSE 1
             /\ EffectOf(req[c], 1) = CopyEffect(req[c])
             /\ Promise!Running(c) /\ pc[c] \notin {"idle", "done"}
  BY <1>7, <1>p DEF Phase, EffectCount, EffectOf
<1>8. ASSUME NEW c \in Callers, CopyObject(c) PROVE Promise!Next
  <2>1. pc[c] = "copy" /\ done[c] = 0
    BY <1>8, <1>p DEF CopyObject, Phase
  <2>2. CASE RequestFails(c, CopyEffect(req[c]))
    BY <1>7, <1>n, <2>1, <2>2, FailRefines
  <2>3. CASE ~RequestFails(c, CopyEffect(req[c]))
    <3>1. /\ Possible(store, CopyEffect(req[c]))
          /\ store' = After(store, CopyEffect(req[c]))
          /\ done' = [done EXCEPT ![c] = @ + 1]
          /\ req' = req /\ LeftOver' = LeftOver
          /\ answer' = [answer EXCEPT ![c] = AnswerAfterCopy(req[c])]
      BY <1>8, <1>t, <2>1, <2>3 DEF CopyObject, CopyMade, IInv, TypeOK
    <3>2. CASE req[c].op = "move"
      <4>1. answer' = answer
        BY <1>7, <2>1, <3>1, <3>2 DEF AnswerAfterCopy, Promise!Running, IInv, TypeOK
      <4>2. Promise!Perform(c)
        BY <1>7, <2>1, <3>1, <3>2, <4>1 DEF Promise!Perform
      <4> QED
        BY <1>n, <4>2
    <3>3. CASE req[c].op = "copy"
      <4>1. Promise!Complete(c)
        BY <1>7, <2>1, <3>1, <3>3 DEF AnswerAfterCopy, Promise!Complete
      <4> QED
        BY <1>n, <4>1
    <3> QED
      BY <1>7, <2>1, <3>2, <3>3
  <2> QED
    BY <2>2, <2>3
<1>9. ASSUME NEW c \in Callers, AzureBeginCopy(c) PROVE UNCHANGED Promise!vars
  <2>1. LeftOver' = LeftOver
    BY <1>9 DEF AzureBeginCopy, LeftOver
  <2> QED
    BY <1>9, <2>1 DEF AzureBeginCopy, Promise!vars, history
<1>10. ASSUME NEW c \in Callers, AzurePoll(c) PROVE Promise!Next \/ UNCHANGED Promise!vars
  <2>1. pc[c] = "poll" /\ done[c] \in {0, 1} /\ UNCHANGED <<store, req, done>>
    BY <1>10, <1>p DEF AzurePoll, Phase, history
  <2>2. CASE done[c] = 1 /\ work' = work /\ answer' = [answer EXCEPT ![c] = AnswerAfterCopy(req[c])]
    <3>1. CASE req[c].op = "move"
      <4>1. answer' = answer
        BY <1>7, <2>1, <2>2, <3>1 DEF AnswerAfterCopy, Promise!Running, IInv, TypeOK
      <4> QED
        BY <1>s, <2>1, <2>2, <4>1
    <3>2. CASE req[c].op = "copy"
      <4>1. Promise!AnswerOk(c)
        BY <1>7, <1>t, <2>1, <2>2, <3>2 DEF AnswerAfterCopy, Promise!AnswerOk
      <4> QED
        BY <1>n, <4>1
    <3> QED
      BY <1>7, <2>1, <3>1, <3>2
  <2>3. CASE /\ answer' = [answer EXCEPT ![c] = "failed"]
             /\ work' = Abandoned(c)
    <3>1. \A w \in Owned(c) : done[c] = 0 /\ w.effect = EffectOf(req[c], 1)
      BY <1>7, <2>1 DEF Owned, IInv, OwnerInv, Waited
    <3>2. \A w \in Owned(c) : [w EXCEPT !.owner = None] = [effect |-> w.effect, owner |-> None]
      BY DEF Owned, IInv, TypeOK, Work
    <3>3. LeftOver' = LeftOver \cup {w.effect : w \in Owned(c)}
      <4>1. ASSUME NEW e, e \in LeftOver' PROVE e \in LeftOver \cup {w.effect : w \in Owned(c)}
        <5>1. PICK v \in work' : v.owner = None /\ v.effect = e
          BY <4>1, LeftOverShape
        <5>2. CASE v \in work \ Owned(c)
          BY <5>1, <5>2, LeftOverShape
        <5>3. CASE \E w \in Owned(c) : v = [effect |-> w.effect, owner |-> None]
          BY <5>1, <5>3
        <5> QED
          BY <2>3, <3>2, <5>2, <5>3 DEF Abandoned
      <4>2. ASSUME NEW e, e \in LeftOver PROVE e \in LeftOver'
        BY <2>3, <4>2, LeftOverShape DEF Abandoned, Owned
      <4>3. ASSUME NEW w \in Owned(c) PROVE w.effect \in LeftOver'
        <5>1. [effect |-> w.effect, owner |-> None] \in work'
          BY <2>3, <3>2 DEF Abandoned
        <5> QED
          BY <5>1, LeftOverShape
      <4> QED
        BY <4>1, <4>2, <4>3
    <3>4. LeftOver' = LeftOver \/ (done[c] = 0 /\ LeftOver' = LeftOver \cup {EffectOf(req[c], 1)})
      <4>1. CASE Owned(c) = {}
        BY <3>3, <4>1
      <4>2. CASE Owned(c) # {}
        BY <3>1, <3>3, <4>2
      <4> QED
        BY <4>1, <4>2
    <3>5. Promise!AnswerError(c)
      BY <1>7, <2>1, <2>3, <3>4 DEF Promise!AnswerError, Promise!Errors
    <3> QED
      BY <1>n, <3>5
  <2> QED
    BY <1>10, <2>2, <2>3 DEF AzurePoll, EndCall
<1>11. ASSUME NEW c \in Callers, RemoveObject(c) PROVE Promise!Next
  <2>1. /\ pc[c] = "remove" /\ Promise!Running(c)
        /\ done[c] \in Nat
        /\ done[c] + 1 = EffectCount(req[c])
        /\ EffectOf(req[c], done[c] + 1) = RemoveEffect(req[c])
    BY <1>11, <1>p DEF RemoveObject, Phase, EffectCount, EffectOf
  <2>2. CASE RequestFails(c, RemoveEffect(req[c]))
    BY <1>n, <2>1, <2>2, FailRefines
  <2>3. CASE ~RequestFails(c, RemoveEffect(req[c]))
    <3>1. /\ store' = After(store, RemoveEffect(req[c]))
          /\ done' = [done EXCEPT ![c] = @ + 1]
          /\ req' = req /\ LeftOver' = LeftOver
          /\ answer' = [answer EXCEPT ![c] = "ok"]
      BY <1>11, <1>t, <2>3 DEF RemoveObject, EndCall
    <3>2. Possible(store, RemoveEffect(req[c]))
      BY DEF Possible, RemoveEffect
    <3>3. Promise!Complete(c)
      BY <2>1, <3>1, <3>2 DEF Promise!Complete
    <3> QED
      BY <1>n, <3>3
  <2> QED
    BY <2>2, <2>3
<1>12. ASSUME NEW c \in Callers, Return(c) PROVE Promise!Next
  <2>1. answer[c] # "none"
    BY <1>12 DEF Return, IInv, PhaseInv, Phase
  <2>2. Promise!Leave(c)
    BY <1>12, <1>t, <2>1 DEF Return, Promise!Leave, serviceVars
  <2> QED
    BY <1>n, <2>2
<1>13. ASSUME NEW w \in work, CarryOut(w) PROVE Promise!Next
  <2>1. CASE w.owner \in Callers
    <3> DEFINE c == w.owner
    <3>1. c \in Callers /\ pc[c] = "poll" /\ done[c] = 0 /\ w.effect = CopyEffect(req[c])
      BY <2>1 DEF IInv, OwnerInv, Waited
    <3>2. LeftOver' = LeftOver
      BY <1>13, <3>1 DEF CarryOut, LeftOver
    <3>3. /\ Possible(store, EffectOf(req[c], 1))
          /\ store' = After(store, EffectOf(req[c], 1))
          /\ done' = [done EXCEPT ![c] = @ + 1]
          /\ UNCHANGED <<req, answer>>
      BY <1>7, <1>13, <3>1 DEF CarryOut, CopyMade, callVars, IInv, TypeOK
    <3>4. Promise!Perform(c)
      BY <1>7, <3>1, <3>2, <3>3 DEF Promise!Perform
    <3> QED
      BY <1>n, <3>1, <3>4
  <2>2. CASE w.owner \notin Callers
    <3>1. w.owner = None /\ w.effect \in LeftOver
      BY <2>2, LeftOverShape DEF IInv, TypeOK, Work
    <3>2. LeftOver' = LeftOver \ {w.effect}
      BY <1>13, <3>1, LeftOverShape DEF CarryOut, LeftOver, IInv, TypeOK, Work
    <3>3. Promise!Late(w.effect)
      BY <1>13, <2>2, <3>2 DEF CarryOut, Promise!Late, callVars
    <3> QED
      BY <3>1, <3>3 DEF Promise!Next
  <2> QED
    BY <2>1, <2>2
<1>14. ASSUME NEW w \in work, DropWork(w) PROVE Promise!Next \/ UNCHANGED Promise!vars
  <2>1. CASE w.owner # None
    <3>1. LeftOver' = LeftOver
      BY <1>14, <2>1 DEF DropWork, LeftOver
    <3> QED
      BY <1>14, <3>1 DEF DropWork, Promise!vars, callVars, history
  <2>2. CASE w.owner = None
    <3>1. w.effect \in LeftOver
      BY <2>2, LeftOverShape
    <3>2. LeftOver' = LeftOver \ {w.effect}
      BY <1>14, <2>2 DEF DropWork, LeftOver, IInv, TypeOK, Work
    <3>3. Promise!Late(w.effect)
      BY <1>14, <3>2 DEF DropWork, Promise!Late, callVars, history
    <3> QED
      BY <3>1, <3>3 DEF Promise!Next
  <2> QED
    BY <2>1, <2>2
<1>15. CASE UNCHANGED vars
  BY <1>15, <1>s DEF vars, serviceVars, callVars, history
<1> QED
  BY <1>1, <1>2, <1>3, <1>4, <1>5, <1>6, <1>8, <1>9, <1>10, <1>11, <1>12, <1>13, <1>14, <1>15
     DEF Next, CallStep

\* Every driver over a provider that copies while its caller waits keeps the
\* promise of ObjectStore: an "ok" stands for all effects of the call, in order
\* and once, a "conflict" for none, and the bucket changes in no other way.
THEOREM Implements == Spec => PromiseSpec
<1>1. Init => Promise!Init
  BY SameVocabulary DEF Init, Promise!Init, LeftOver
<1>2. IInv /\ [Next]_vars => [Promise!Next]_(Promise!vars)
  BY StepRefines
<1> QED
  BY <1>1, <1>2, Inductive, PTL DEF Spec, PromiseSpec, Promise!Spec
=============================================================================
