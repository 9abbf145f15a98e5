------------------------- MODULE OracleDriverProofs -------------------------
(***************************************************************************)
(* What OracleDriver guarantees for any number of callers, keys, bodies,   *)
(* parts and runners: its types, that only whole objects are committed,    *)
(* that uploads are closed unless an answer was lost, and, for everything  *)
(* but moves, that it implements ObjectStore.                              *)
(***************************************************************************)
EXTENDS OracleDriver, TLAPS

\* The kinds of errors are known everywhere.
USE DEF Errors

(***************************************************************************)
(* Calls and effects.                                                      *)
(***************************************************************************)

\* Which fields of a call are keys and bodies depends on its operation only.
LEMMA RequestShape ==
    ASSUME NEW r \in Requests
    PROVE  /\ r.op \in {"upload", "delete", "copy", "move"}
           /\ r.overwrite \in BOOLEAN
           /\ r.op = "upload" => r.src = None /\ r.dst \in Keys /\ r.body \in Bodies
           /\ r.op = "delete" => r.src \in Keys /\ r.dst = None
           /\ r.op \in {"copy", "move"} => r.src \in Keys /\ r.dst \in Keys
           /\ r.body \in MaybeBody
           /\ r # NoRequest
<1>1. CASE r \in Uploads
  BY <1>1 DEF Uploads, NoRequest, MaybeBody
<1>2. CASE r \in Deletes
  <2>1. r.overwrite = TRUE
    BY <1>2 DEF Deletes
  <2>2. r.overwrite \in BOOLEAN
    BY <2>1
  <2>3. r.op = "delete" /\ r.src \in Keys /\ r.dst = None /\ r.body = None
    BY <1>2 DEF Deletes
  <2> QED
    BY <2>2, <2>3 DEF NoRequest, MaybeBody
<1>3. CASE r \in Copies
  BY <1>3 DEF Copies, NoRequest, MaybeBody
<1>4. CASE r \in Moves
  BY <1>4 DEF Moves, NoRequest, MaybeBody
<1> QED
  BY <1>1, <1>2, <1>3, <1>4 DEF Requests

\* A call without a destination has nothing to overwrite.
LEMMA DeleteOverwrites ==
    ASSUME NEW r \in Requests, r.op = "delete"
    PROVE  r.overwrite = TRUE
<1>1. r \in Deletes
  BY DEF Requests, Uploads, Copies, Moves
<1> QED
  BY <1>1 DEF Deletes

\* The effects of a call are effects.
LEMMA EffectShape ==
    ASSUME NEW r \in Requests
    PROVE  /\ r.op = "upload" => PutEffect(r) \in Effects
           /\ r.op \in {"copy", "move"} => CopyEffect(r) \in Effects
           /\ r.op \in {"delete", "move"} => RemoveEffect(r) \in Effects
BY RequestShape DEF Effects, PutEffect, CopyEffect, RemoveEffect

\* Carrying out an effect leaves a bucket.
LEMMA AfterType ==
    ASSUME NEW st \in [Keys -> MaybeBody], NEW e \in Effects
    PROVE  After(st, e) \in [Keys -> MaybeBody]
BY DEF After, MaybeBody, Effects

(***************************************************************************)
(* The strengthening.                                                      *)
(***************************************************************************)

Uploading == {"put", "create", "body", "parts", "commit", "abort"}

\* What a caller is doing fits the call it made and what has happened of it.
Phase(c) ==
    /\ pc[c] = "idle" <=> req[c] = NoRequest
    /\ pc[c] # "idle" => req[c] \in Requests
    /\ pc[c] = "done" <=> answer[c] # "none"
    /\ pc[c] = "check" => ~req[c].overwrite
    /\ pc[c] \in Uploading => req[c].op = "upload"
    /\ pc[c] = "copy" => req[c].op \in {"copy", "move"}
    /\ pc[c] = "remove" =>
          \/ req[c].op = "delete" /\ done[c] = 0
          \/ req[c].op = "move" /\ done[c] \in {0, 1}
    /\ pc[c] = "abort" => done[c] \in {0, 1}
    /\ pc[c] \notin {"remove", "abort", "done"} => done[c] = 0
    /\ answer[c] = "ok" /\ req[c].op \in {"upload", "delete"} => done[c] = 1

PhaseInv == \A c \in Callers : Phase(c)

\* Work that belongs to a caller is the commit it aborts or the copy whose source
\* it deletes, and has not been done.
Waited(w) ==
    w.owner # None =>
        \/ /\ pc[w.owner] = "abort"
           /\ done[w.owner] = 0
           /\ w.effect = PutEffect(req[w.owner])
        \/ /\ pc[w.owner] \in {"remove", "done"}
           /\ req[w.owner].op = "move"
           /\ done[w.owner] = 0 \/ (pc[w.owner] = "done" /\ done[w.owner] = 1)
           /\ w.effect = CopyEffect(req[w.owner])

OwnerInv == \A w \in work : Waited(w)

\* While no part has failed, a part that was taken is being sent or has an etag,
\* and runners stop only when there are no more.
Parts(c) ==
    /\ pc[c] \in {"parts", "commit"} =>
          /\ sent[c] \cup sending[c] = 1 .. next[c]
          /\ sending[c] = {} => next[c] = size[c]
    /\ pc[c] = "commit" => sending[c] = {}
    /\ pc[c] \notin {"parts", "commit", "abort", "done"} =>
          size[c] = 0 /\ next[c] = 0 /\ sending[c] = {} /\ sent[c] = {}

PartsInv == \A c \in Callers : Parts(c)

\* An upload is open at the provider while its caller is at work on it.
Open(c) ==
    upload[c] = "open" =>
        pc[c] \in {"body", "parts", "commit", "abort"} \/ (pc[c] = "done" /\ lost[c])

UploadInv == \A c \in Callers : Open(c)

IInv == TypeOK /\ PhaseInv /\ OwnerInv /\ PartsInv /\ UploadInv

(***************************************************************************)
(* Lemmas.                                                                 *)
(***************************************************************************)

\* The first request of a call suits its operation.
LEMMA FirstStepsShape ==
    ASSUME NEW r \in Requests
    PROVE  /\ \A s \in FirstEffectSteps(r) :
                 /\ s \in {"put", "create", "copy", "remove"}
                 /\ s \in {"put", "create"} => r.op = "upload"
                 /\ s = "copy" => r.op \in {"copy", "move"}
                 /\ s = "remove" => r.op = "delete"
           /\ \A s \in FirstSteps(r) :
                 \/ s = "check" /\ ~r.overwrite
                 \/ s \in FirstEffectSteps(r)
BY RequestShape DEF FirstSteps, FirstEffectSteps

\* A caller that a step leaves alone stays as it was.
LEMMA OthersKeep ==
    ASSUME NEW d \in Callers, Phase(d), Parts(d), Open(d), PartsOK(d),
           req'[d] = req[d], pc'[d] = pc[d], answer'[d] = answer[d], done'[d] = done[d],
           upload'[d] = upload[d], lost'[d] = lost[d],
           size'[d] = size[d], next'[d] = next[d],
           sending'[d] = sending[d], sent'[d] = sent[d]
    PROVE  Phase(d)' /\ Parts(d)' /\ Open(d)' /\ PartsOK(d)'
BY DEF Phase, Parts, Open, PartsOK

\* An effect that happens leaves a bucket and counts for its caller.
LEMMA HappensType ==
    ASSUME TypeOK, NEW e \in Effects, NEW c, Happens(e, c),
           c \in Callers => done[c] \in {0, 1},
           req' = req
    PROVE  /\ store' \in [Keys -> MaybeBody]
           /\ done' \in [Callers -> 0 .. 2]
           /\ cargo' \in [Callers -> MaybeBody]
           /\ c \in Callers => done'[c] = done[c] + 1
           /\ \A d \in Callers \ {c} : done'[d] = done[d]
<1>1. store' \in [Keys -> MaybeBody]
  BY AfterType DEF Happens, TypeOK
<1>2. cargo' \in [Callers -> MaybeBody]
  BY DEF Happens, TypeOK, MaybeBody
<1>3. \A d \in Callers : done'[d] = IF d = c THEN done[d] + 1 ELSE done[d]
  BY DEF Happens
<1>4. done' \in [Callers -> 0 .. 2]
  BY <1>3 DEF Happens, TypeOK
<1> QED
  BY <1>1, <1>2, <1>3, <1>4

\* Giving work away leaves work that belongs to others alone.
LEMMA DisownedShape ==
    ASSUME work \in SUBSET Work, NEW c \in Callers
    PROVE  /\ Disowned(c) \in SUBSET Work
           /\ \A w \in Disowned(c) : w.owner # None => w \in work /\ w.owner # c
<1>1. ASSUME NEW w \in Owned(c)
      PROVE  /\ [w EXCEPT !.owner = None] \in Work
             /\ [w EXCEPT !.owner = None].owner = None
  BY DEF Owned, Work
<1> QED
  BY <1>1 DEF Disowned, Owned

LEMMA InitInv == Init => IInv
BY CallersAssumption, BoundsAssumption
   DEF Init, IInv, TypeOK, PartsOK, PhaseInv, Phase, Uploading, OwnerInv, PartsInv, Parts,
       UploadInv, Open, Steps, MaybeBody

\* A request that fails changes nothing but the end of its caller's call.
LEMMA FailKeeps ==
    ASSUME IInv, NEW c \in Callers, NEW e \in Effects,
           pc[c] \in {"put", "copy", "remove"}, RequestFails(c, e),
           Owned(c) # {} => pc[c] = "remove"
    PROVE  IInv'
<1> USE DEF IInv, PhaseInv, PartsInv, UploadInv
<1>1. TypeOK'
  BY DEF TypeOK, PartsOK, RequestFails, LeftToProvider, EndCall, Goto, partVars, history, Work, Steps
<1>2. Phase(c)' /\ Parts(c)' /\ Open(c)'
  BY DEF TypeOK, RequestFails, EndCall, Goto, partVars, history, Phase, Uploading, Parts, Open
<1>3. ASSUME NEW d \in Callers, d # c PROVE Phase(d)' /\ Parts(d)' /\ Open(d)'
  BY <1>3, OthersKeep DEF TypeOK, RequestFails, EndCall, Goto, partVars, history
<1>4. OwnerInv'
  <2>1. ASSUME NEW w \in work', w.owner # None PROVE w \in work
    BY <2>1 DEF RequestFails, LeftToProvider
  <2>2. ASSUME NEW w \in work, w.owner # None PROVE Waited(w)'
    BY <2>2 DEF TypeOK, RequestFails, EndCall, Goto, partVars, history, OwnerInv, Waited, Work
  <2> QED
    BY <2>1, <2>2 DEF OwnerInv, Waited
<1> QED
  BY <1>1, <1>2, <1>3, <1>4

-----------------------------------------------------------------------------

LEMMA StepInv == IInv /\ [Next]_vars => IInv'
<1> SUFFICES ASSUME IInv, [Next]_vars PROVE IInv'
  OBVIOUS
<1> USE NoneAssumption, CallersAssumption, BoundsAssumption
    DEF IInv, PhaseInv, PartsInv, UploadInv
<1>a. ASSUME NEW d \in Callers, pc[d] # "idle" PROVE req[d] \in Requests
  BY <1>a DEF Phase
<1>u. ASSUME NEW d \in Callers, pc[d] \in Uploading
      PROVE  /\ req[d].op = "upload" /\ req[d] \in Requests
             /\ PutEffect(req[d]) \in Effects
             /\ answer[d] = "none"
  BY <1>u, EffectShape DEF Phase, Uploading, TypeOK
<1>o. ASSUME NEW w \in work, w.owner # None
      PROVE  w.owner \in Callers
  BY <1>o DEF TypeOK, Work
<1>1. ASSUME NEW c \in Callers, Invoke(c) PROVE IInv'
  <2>1. PICK r \in Requests : /\ req' = [req EXCEPT ![c] = r]
                              /\ \E s \in FirstSteps(r) : Goto(c, s)
    BY <1>1, CallsAssumption DEF Invoke
  <2>2. PICK s \in FirstSteps(r) : pc' = [pc EXCEPT ![c] = s]
    BY <2>1 DEF Goto
  <2>3. s \in {"check", "put", "create", "copy", "remove"}
    BY FirstStepsShape
  <2>4. TypeOK'
    BY <1>1, <2>1, <2>2, <2>3 DEF Invoke, TypeOK, PartsOK, Steps, serviceVars, partVars, history
  <2>5. Phase(c)' /\ Parts(c)' /\ Open(c)'
    <3>1. /\ req'[c] = r /\ pc'[c] = s /\ pc[c] = "idle" /\ r # NoRequest
          /\ UNCHANGED <<answer, done, upload, lost, size, next, sending, sent>>
      BY <1>1, <2>1, <2>2, RequestShape DEF Invoke, TypeOK, serviceVars, partVars, history
    <3>2. done[c] = 0 /\ answer[c] = "none" /\ upload[c] # "open"
      BY <3>1 DEF Phase, Open, TypeOK
    <3>3. Phase(c)'
      BY <2>3, <3>1, <3>2, FirstStepsShape DEF Phase, Uploading
    <3>4. Parts(c)' /\ Open(c)'
      BY <2>3, <3>1, <3>2 DEF Parts, Open
    <3> QED
      BY <3>3, <3>4
  <2>6. ASSUME NEW d \in Callers, d # c PROVE Phase(d)' /\ Parts(d)' /\ Open(d)'
    BY <1>1, <2>1, <2>2, <2>6, OthersKeep DEF Invoke, TypeOK, serviceVars, partVars, history
  <2>7. OwnerInv'
    <3>1. pc[c] = "idle" /\ UNCHANGED <<work, done, answer>>
      BY <1>1 DEF Invoke, serviceVars, history
    <3>2. ASSUME NEW w \in work, w.owner # None PROVE Waited(w)'
      <4>1. Waited(w) /\ w.owner \in Callers /\ w.owner # c
        BY <1>o, <3>1, <3>2 DEF OwnerInv, Waited
      <4> QED
        BY <2>1, <2>2, <3>1, <4>1 DEF TypeOK, Waited
    <3> QED
      BY <3>1, <3>2 DEF OwnerInv, Waited
  <2> QED
    BY <2>4, <2>5, <2>6, <2>7
<1>2. ASSUME NEW c \in Callers, Head(c) PROVE IInv'
  <2>1. /\ pc[c] = "check" /\ req[c] \in Requests /\ ~req[c].overwrite
        /\ done[c] = 0 /\ answer[c] = "none" /\ req[c].op # "delete"
        /\ UNCHANGED <<store, work, upload, req, size, next, sending, sent, done, lost, cargo>>
    BY <1>2, <1>a, DeleteOverwrites
       DEF Head, Phase, TypeOK, serviceVars, partVars, history
  <2>2. /\ pc' \in [Callers -> Steps]
        /\ \A d \in Callers \ {c} : pc'[d] = pc[d] /\ answer'[d] = answer[d]
        /\ \/ pc'[c] = "done" /\ answer'[c] \in Errors
           \/ pc'[c] \in FirstEffectSteps(req[c]) /\ answer'[c] = "none"
        /\ answer' \in [Callers -> {"none", "ok", "missing"} \cup Errors]
    BY <1>2, <2>1, FirstStepsShape DEF Head, EndCall, Goto, TypeOK, Steps
  <2>3. TypeOK'
    BY <2>1, <2>2 DEF TypeOK, PartsOK
  <2>4. Phase(c)' /\ Parts(c)' /\ Open(c)'
    BY <2>1, <2>2, FirstStepsShape, RequestShape DEF Phase, Uploading, Parts, Open
  <2>5. ASSUME NEW d \in Callers, d # c PROVE Phase(d)' /\ Parts(d)' /\ Open(d)'
    BY <2>1, <2>2, <2>5, OthersKeep DEF TypeOK
  <2>6. OwnerInv'
    BY <2>1, <2>2, <1>o DEF OwnerInv, Waited
  <2> QED
    BY <2>3, <2>4, <2>5, <2>6
<1>3. ASSUME NEW c \in Callers, Put(c) PROVE IInv'
  <2>1. /\ pc[c] = "put" /\ PutEffect(req[c]) \in Effects /\ done[c] = 0
        /\ req[c].op = "upload" /\ req[c] \in Requests
    BY <1>3, <1>u DEF Put, Uploading, Phase
  <2>2. Owned(c) = {}
    BY <2>1 DEF Owned, OwnerInv, Waited
  <2>3. CASE RequestFails(c, PutEffect(req[c]))
    BY <2>1, <2>2, <2>3, FailKeeps
  <2>4. CASE ~RequestFails(c, PutEffect(req[c]))
    <3>1. /\ Happens(PutEffect(req[c]), c)
          /\ pc' = [pc EXCEPT ![c] = "done"] /\ answer' = [answer EXCEPT ![c] = "ok"]
          /\ UNCHANGED <<work, upload, req, size, next, sending, sent, lost>>
      BY <1>3, <2>4 DEF Put, EndCall, Goto, partVars
    <3>2. /\ store' \in [Keys -> MaybeBody] /\ done' \in [Callers -> 0 .. 2]
          /\ cargo' \in [Callers -> MaybeBody] /\ done'[c] = 1
          /\ \A d \in Callers \ {c} : done'[d] = done[d]
      BY <2>1, <3>1, HappensType
    <3>3. TypeOK'
      BY <3>1, <3>2 DEF TypeOK, PartsOK, Steps
    <3>4. Phase(c)' /\ Parts(c)' /\ Open(c)'
      BY <2>1, <3>1, <3>2, RequestShape DEF TypeOK, Phase, Uploading, Parts, Open
    <3>5. ASSUME NEW d \in Callers, d # c PROVE Phase(d)' /\ Parts(d)' /\ Open(d)'
      BY <3>1, <3>2, <3>5, OthersKeep DEF TypeOK
    <3>6. OwnerInv'
      BY <2>1, <3>1, <3>2, <1>o DEF TypeOK, OwnerInv, Waited
    <3> QED
      BY <3>3, <3>4, <3>5, <3>6
  <2> QED
    BY <2>3, <2>4
<1>4. ASSUME NEW c \in Callers, Remove(c) PROVE IInv'
  <2>1. /\ pc[c] = "remove" /\ RemoveEffect(req[c]) \in Effects /\ done[c] \in {0, 1}
        /\ req[c].op \in {"delete", "move"} /\ req[c] \in Requests
        /\ req[c].op = "delete" => done[c] = 0
    BY <1>4, <1>a, EffectShape DEF Remove, Phase
  <2>2. CASE RequestFails(c, RemoveEffect(req[c]))
    BY <2>1, <2>2, FailKeeps
  <2>3. CASE ~RequestFails(c, RemoveEffect(req[c])) /\ store[req[c].src] # None
    <3>1. /\ Happens(RemoveEffect(req[c]), c)
          /\ pc' = [pc EXCEPT ![c] = "done"] /\ answer' = [answer EXCEPT ![c] = "ok"]
          /\ UNCHANGED <<work, upload, req, size, next, sending, sent, lost>>
      BY <1>4, <2>3 DEF Remove, EndCall, Goto, partVars
    <3>2. /\ store' \in [Keys -> MaybeBody] /\ done' \in [Callers -> 0 .. 2]
          /\ cargo' \in [Callers -> MaybeBody] /\ done'[c] = done[c] + 1
          /\ \A d \in Callers \ {c} : done'[d] = done[d]
      BY <2>1, <3>1, HappensType
    <3>3. TypeOK'
      BY <3>1, <3>2 DEF TypeOK, PartsOK, Steps
    <3>4. Phase(c)' /\ Parts(c)' /\ Open(c)'
      BY <2>1, <3>1, <3>2, RequestShape DEF TypeOK, Phase, Uploading, Parts, Open
    <3>5. ASSUME NEW d \in Callers, d # c PROVE Phase(d)' /\ Parts(d)' /\ Open(d)'
      BY <3>1, <3>2, <3>5, OthersKeep DEF TypeOK
    <3>6. OwnerInv'
      <4>1. ASSUME NEW w \in work, w.owner = c
            PROVE  done[c] = 0 /\ req[c].op = "move" /\ w.effect = CopyEffect(req[c])
        BY <2>1, <4>1 DEF OwnerInv, Waited
      <4>2. ASSUME NEW w \in work, w.owner # None PROVE Waited(w)'
        BY <2>1, <3>1, <3>2, <4>1, <4>2, <1>o DEF TypeOK, OwnerInv, Waited
      <4> QED
        BY <3>1, <4>2 DEF OwnerInv, Waited
    <3> QED
      BY <3>3, <3>4, <3>5, <3>6
  <2>4. CASE ~RequestFails(c, RemoveEffect(req[c])) /\ store[req[c].src] = None
    <3>1. /\ pc' = [pc EXCEPT ![c] = "done"] /\ answer' = [answer EXCEPT ![c] = "missing"]
          /\ UNCHANGED <<store, work, upload, req, size, next, sending, sent, done, lost, cargo>>
      BY <1>4, <2>4 DEF Remove, EndCall, Goto, serviceVars, partVars, history
    <3>2. TypeOK'
      BY <3>1 DEF TypeOK, PartsOK, Steps
    <3>3. Phase(c)' /\ Parts(c)' /\ Open(c)'
      BY <2>1, <3>1, RequestShape DEF TypeOK, Phase, Uploading, Parts, Open
    <3>4. ASSUME NEW d \in Callers, d # c PROVE Phase(d)' /\ Parts(d)' /\ Open(d)'
      BY <3>1, <3>4, OthersKeep DEF TypeOK
    <3>5. OwnerInv'
      BY <2>1, <3>1, <1>o DEF TypeOK, OwnerInv, Waited
    <3> QED
      BY <3>2, <3>3, <3>4, <3>5
  <2> QED
    BY <2>2, <2>3, <2>4
<1>5. ASSUME NEW c \in Callers, Copy(c) PROVE IInv'
  <2>1. /\ pc[c] = "copy" /\ CopyEffect(req[c]) \in Effects /\ done[c] = 0
        /\ req[c].op \in {"copy", "move"} /\ req[c] \in Requests /\ answer[c] = "none"
        /\ req[c].src \in Keys
    BY <1>5, <1>a, EffectShape, RequestShape DEF Copy, Phase, TypeOK
  <2>2. \A w \in work : w.owner # c
    BY <2>1 DEF OwnerInv, Waited
  <2>3. CASE RequestFails(c, CopyEffect(req[c]))
    BY <2>1, <2>2, <2>3, FailKeeps DEF Owned
  <2>4. CASE ~RequestFails(c, CopyEffect(req[c])) /\ req[c].op = "copy"
    <3>1. /\ pc' = [pc EXCEPT ![c] = "done"] /\ answer' = [answer EXCEPT ![c] = "ok"]
          /\ work' = work \cup {[effect |-> CopyEffect(req[c]), owner |-> None]}
          /\ UNCHANGED <<store, upload, req, size, next, sending, sent, done, lost, cargo>>
      BY <1>5, <2>4 DEF Copy, LeftToProvider, EndCall, Goto, partVars
    <3>2. TypeOK'
      BY <2>1, <3>1 DEF TypeOK, PartsOK, Steps, Work
    <3>3. Phase(c)' /\ Parts(c)' /\ Open(c)'
      BY <2>1, <2>4, <3>1, RequestShape DEF TypeOK, Phase, Uploading, Parts, Open
    <3>4. ASSUME NEW d \in Callers, d # c PROVE Phase(d)' /\ Parts(d)' /\ Open(d)'
      BY <3>1, <3>4, OthersKeep DEF TypeOK
    <3>5. OwnerInv'
      BY <2>2, <3>1, <1>o DEF TypeOK, OwnerInv, Waited
    <3> QED
      BY <3>2, <3>3, <3>4, <3>5
  <2>5. CASE ~RequestFails(c, CopyEffect(req[c])) /\ req[c].op = "move"
    <3>1. /\ pc' = [pc EXCEPT ![c] = "remove"]
          /\ work' = work \cup {[effect |-> CopyEffect(req[c]), owner |-> c]}
          /\ cargo' = [cargo EXCEPT ![c] = store[req[c].src]]
          /\ UNCHANGED <<store, upload, req, answer, size, next, sending, sent, done, lost>>
      BY <1>5, <2>5 DEF Copy, LeftToProvider, Goto, partVars
    <3>2. TypeOK'
      BY <2>1, <3>1 DEF TypeOK, PartsOK, Steps, Work
    <3>3. Phase(c)' /\ Parts(c)' /\ Open(c)'
      BY <2>1, <2>5, <3>1, RequestShape DEF TypeOK, Phase, Uploading, Parts, Open
    <3>4. ASSUME NEW d \in Callers, d # c PROVE Phase(d)' /\ Parts(d)' /\ Open(d)'
      BY <3>1, <3>4, OthersKeep DEF TypeOK
    <3>5. OwnerInv'
      <4>1. ASSUME NEW w \in work, w.owner # None PROVE Waited(w)'
        BY <2>2, <3>1, <4>1, <1>o DEF TypeOK, OwnerInv, Waited
      <4>2. ASSUME NEW w, w = [effect |-> CopyEffect(req[c]), owner |-> c] PROVE Waited(w)'
        BY <2>1, <2>5, <3>1, <4>2 DEF TypeOK, Waited
      <4> QED
        BY <3>1, <4>1, <4>2 DEF OwnerInv, Waited
    <3> QED
      BY <3>2, <3>3, <3>4, <3>5
  <2> QED
    BY <2>1, <2>3, <2>4, <2>5
<1>6. ASSUME NEW c \in Callers, CreateUpload(c) PROVE IInv'
  <2>1. pc[c] = "create" /\ req[c].op = "upload" /\ req[c] \in Requests /\ answer[c] = "none"
        /\ done[c] = 0
    BY <1>6, <1>u DEF CreateUpload, Uploading, Phase
  <2>2. /\ UNCHANGED <<store, work, req, size, next, sending, sent, done, cargo>>
        /\ \A d \in Callers \ {c} : /\ pc'[d] = pc[d] /\ answer'[d] = answer[d]
                                     /\ upload'[d] = upload[d] /\ lost'[d] = lost[d]
        /\ \/ pc'[c] = "body" /\ answer'[c] = "none"
           \/ /\ pc'[c] = "done" /\ answer'[c] \in Errors
              /\ lost'[c] \/ (upload'[c] = upload[c])
    BY <1>6, <2>1 DEF CreateUpload, EndCall, Goto, TypeOK, partVars
  <2>3. TypeOK'
    <3>1. answer' = answer \/ \E a \in Errors : answer' = [answer EXCEPT ![c] = a]
      BY <1>6 DEF CreateUpload, EndCall
    <3>2. answer' \in [Callers -> {"none", "ok", "missing"} \cup Errors]
      BY <3>1 DEF TypeOK
    <3> QED
      BY <1>6, <3>2 DEF CreateUpload, EndCall, Goto, TypeOK, PartsOK, Steps, partVars
  <2>4. Phase(c)' /\ Parts(c)' /\ Open(c)'
    BY <2>1, <2>2, RequestShape DEF TypeOK, Phase, Uploading, Parts, Open
  <2>5. ASSUME NEW d \in Callers, d # c PROVE Phase(d)' /\ Parts(d)' /\ Open(d)'
    BY <2>2, <2>5, OthersKeep DEF TypeOK
  <2>6. OwnerInv'
    BY <2>1, <2>2, <1>o DEF OwnerInv, Waited
  <2> QED
    BY <2>3, <2>4, <2>5, <2>6
<1>7. ASSUME NEW c \in Callers, ReadBody(c) PROVE IInv'
  <2>1. /\ pc[c] = "body" /\ req[c].op = "upload" /\ req[c] \in Requests /\ answer[c] = "none"
        /\ done[c] = 0 /\ size[c] = 0 /\ next[c] = 0 /\ sending[c] = {} /\ sent[c] = {}
        /\ UNCHANGED <<store, work, upload, req, answer, sent, done, lost, cargo>>
    BY <1>7, <1>u DEF ReadBody, Uploading, Phase, Parts, serviceVars, history
  <2>2. PICK n \in 0 .. MaxParts, first \in 0 .. MaxParts :
           /\ first <= n /\ (first = 0 => n = 0)
           /\ size' = [size EXCEPT ![c] = n] /\ next' = [next EXCEPT ![c] = first]
           /\ sending' = [sending EXCEPT ![c] = 1 .. first]
           /\ pc' = [pc EXCEPT ![c] = "parts"] \/ pc' = [pc EXCEPT ![c] = "abort"]
    <3>1. CASE Goto(c, "abort") /\ UNCHANGED <<size, next, sending>>
      <4>1. /\ size' = [size EXCEPT ![c] = 0] /\ next' = [next EXCEPT ![c] = 0]
            /\ sending' = [sending EXCEPT ![c] = 1 .. 0]
            /\ pc' = [pc EXCEPT ![c] = "abort"]
        BY <2>1, <3>1 DEF TypeOK, Goto
      <4>2. 0 \in 0 .. MaxParts /\ 0 <= 0 /\ (0 = 0 => 0 = 0)
        OBVIOUS
      <4> QED
        BY <4>1, <4>2, Zenon
    <3>2. CASE ~(Goto(c, "abort") /\ UNCHANGED <<size, next, sending>>)
      <4>1. PICK m \in 0 .. MaxParts :
               LET f == IF m < Concurrency THEN m ELSE Concurrency IN
               /\ Goto(c, "parts")
               /\ size' = [size EXCEPT ![c] = m]
               /\ next' = [next EXCEPT ![c] = f]
               /\ sending' = [sending EXCEPT ![c] = 1 .. f]
        BY <1>7, <3>2 DEF ReadBody
      <4> DEFINE f == IF m < Concurrency THEN m ELSE Concurrency
      <4>2. f \in 0 .. MaxParts /\ f <= m /\ (f = 0 => m = 0)
        OBVIOUS
      <4> QED
        BY <4>1, <4>2 DEF Goto
    <3> QED
      BY <3>1, <3>2
  <2>3. /\ size'[c] = n /\ next'[c] = first /\ sending'[c] = 1 .. first /\ sent'[c] = {}
        /\ pc'[c] \in {"parts", "abort"}
    BY <2>1, <2>2 DEF TypeOK
  <2>4. ASSUME NEW d \in Callers, d # c
        PROVE  Phase(d)' /\ Parts(d)' /\ Open(d)' /\ PartsOK(d)'
    BY <2>1, <2>2, <2>4, OthersKeep DEF TypeOK
  <2>5. PartsOK(c)'
    BY <2>2, <2>3 DEF PartsOK
  <2>6. TypeOK'
    <3>1. 1 .. first \subseteq 1 .. MaxParts
      OBVIOUS
    <3>2. /\ size' \in [Callers -> 0 .. MaxParts] /\ next' \in [Callers -> 0 .. MaxParts]
          /\ sending' \in [Callers -> SUBSET (1 .. MaxParts)]
          /\ pc' \in [Callers -> Steps]
      BY <2>2, <3>1 DEF TypeOK, Steps
    <3> QED
      BY <2>1, <2>4, <2>5, <3>2 DEF TypeOK
  <2>7. Phase(c)' /\ Open(c)'
    BY <2>1, <2>3, RequestShape DEF Phase, Uploading, Open
  <2>8. Parts(c)'
    <3>1. 1 .. first = {} => first = 0
      OBVIOUS
    <3> QED
      BY <2>2, <2>3, <3>1 DEF Parts
  <2>9. OwnerInv'
    BY <2>1, <2>2, <1>o DEF TypeOK, OwnerInv, Waited
  <2> QED
    BY <2>4, <2>6, <2>7, <2>8, <2>9
<1>8. ASSUME NEW c \in Callers, NEW i \in sending[c], PartStored(c, i) PROVE IInv'
  <2>1. /\ UNCHANGED <<store, work, upload, req, pc, answer, size, done, lost, cargo>>
        /\ sent' = [sent EXCEPT ![c] = @ \cup {i}]
        /\ sending[c] \subseteq 1 .. next[c] /\ sent[c] \subseteq (1 .. next[c]) \ sending[c]
        /\ next[c] \in Nat /\ size[c] \in 0 .. MaxParts /\ next[c] <= size[c]
    BY <1>8 DEF PartStored, TypeOK, PartsOK, serviceVars, callVars, history
  <2>2. PICK more \in {0, 1} :
           /\ next' = [next EXCEPT ![c] = next[c] + more]
           /\ sending' = [sending EXCEPT ![c] =
                             (sending[c] \ {i}) \cup ((next[c] + 1) .. (next[c] + more))]
           /\ more = 1 <=> next[c] < size[c]
    <3>1. CASE next[c] < size[c]
      <4>1. (next[c] + 1) .. (next[c] + 1) = {next[c] + 1}
        BY <2>1
      <4> QED
        BY <1>8, <3>1, <4>1 DEF PartStored
    <3>2. CASE ~(next[c] < size[c])
      <4>1. /\ next' = [next EXCEPT ![c] = next[c]]
            /\ sending' = [sending EXCEPT ![c] = sending[c] \ {i}]
        BY <1>8, <3>2 DEF PartStored, TypeOK
      <4>2. /\ next[c] = next[c] + 0
            /\ sending[c] \ {i} = (sending[c] \ {i}) \cup ((next[c] + 1) .. (next[c] + 0))
        BY <2>1
      <4>3. /\ next' = [next EXCEPT ![c] = next[c] + 0]
            /\ sending' = [sending EXCEPT ![c] =
                              (sending[c] \ {i}) \cup ((next[c] + 1) .. (next[c] + 0))]
        BY <4>1, <4>2, Zenon
      <4>4. 0 \in {0, 1} /\ (0 = 1 <=> next[c] < size[c])
        BY <3>2
      <4> QED
        BY <4>3, <4>4, Zenon
    <3> QED
      BY <3>1, <3>2
  <2>3. /\ next'[c] = next[c] + more /\ size'[c] = size[c]
        /\ sending'[c] = (sending[c] \ {i}) \cup ((next[c] + 1) .. (next[c] + more))
        /\ sent'[c] = sent[c] \cup {i}
    BY <2>1, <2>2 DEF TypeOK
  <2>4. ASSUME NEW d \in Callers, d # c
        PROVE  Phase(d)' /\ Parts(d)' /\ Open(d)' /\ PartsOK(d)'
    BY <2>1, <2>2, <2>4, OthersKeep DEF TypeOK
  <2>5. PartsOK(c)'
    BY <2>1, <2>2, <2>3 DEF PartsOK
  <2>6. TypeOK'
    <3>1. /\ next'[c] \in 0 .. MaxParts /\ sending'[c] \subseteq 1 .. MaxParts
          /\ sent'[c] \subseteq 1 .. MaxParts
      BY <2>1, <2>2, <2>3
    <3>2. /\ next' \in [Callers -> 0 .. MaxParts]
          /\ sending' \in [Callers -> SUBSET (1 .. MaxParts)]
          /\ sent' \in [Callers -> SUBSET (1 .. MaxParts)]
      BY <2>1, <2>2, <2>3, <3>1 DEF TypeOK
    <3> QED
      BY <2>1, <2>4, <2>5, <3>2 DEF TypeOK
  <2>7. Phase(c)' /\ Open(c)'
    BY <2>1 DEF Phase, Open
  <2>8. Parts(c)'
    <3>1. pc[c] \in {"parts", "commit", "abort", "done"} /\ pc[c] # "commit"
      BY <1>8 DEF Parts
    <3>2. CASE pc[c] = "parts"
      <4>1. sent[c] \cup sending[c] = 1 .. next[c]
        BY <3>2 DEF Parts
      <4>2. sent'[c] \cup sending'[c] = 1 .. next'[c]
        BY <2>1, <2>2, <2>3, <4>1
      <4>3. sending'[c] = {} => next'[c] = size'[c]
        BY <2>1, <2>2, <2>3
      <4> QED
        BY <2>1, <3>2, <4>2, <4>3 DEF Parts
    <3> QED
      BY <2>1, <3>1, <3>2 DEF Parts
  <2>9. OwnerInv'
    BY <2>1 DEF OwnerInv, Waited
  <2> QED
    BY <2>4, <2>6, <2>7, <2>8, <2>9
<1>9. ASSUME NEW c \in Callers, NEW i \in sending[c], PartFails(c, i) PROVE IInv'
  <2>1. /\ UNCHANGED <<store, work, upload, req, answer, size, next, sent, done, lost, cargo>>
        /\ sending' = [sending EXCEPT ![c] = sending[c] \ {i}]
        /\ pc[c] \in {"parts", "abort", "done"}
        /\ pc'[c] = IF pc[c] = "parts" THEN "abort" ELSE pc[c]
        /\ pc' \in [Callers -> Steps]
        /\ \A d \in Callers \ {c} : pc'[d] = pc[d]
    BY <1>9 DEF PartFails, Goto, TypeOK, Steps, Parts, serviceVars, history
  <2>2. ASSUME NEW d \in Callers, d # c
        PROVE  Phase(d)' /\ Parts(d)' /\ Open(d)' /\ PartsOK(d)'
    BY <2>1, <2>2, OthersKeep DEF TypeOK
  <2>3. PartsOK(c)'
    BY <2>1 DEF PartsOK, TypeOK
  <2>4. TypeOK'
    BY <2>1, <2>2, <2>3 DEF TypeOK
  <2>5. Phase(c)' /\ Parts(c)' /\ Open(c)'
    BY <2>1 DEF Phase, Uploading, Parts, Open
  <2>6. OwnerInv'
    BY <2>1, <1>o DEF OwnerInv, Waited
  <2> QED
    BY <2>2, <2>4, <2>5, <2>6
<1>10. ASSUME NEW c \in Callers, AllSent(c) PROVE IInv'
  <2>1. /\ pc[c] = "parts" /\ sending[c] = {} /\ pc' = [pc EXCEPT ![c] = "commit"]
        /\ UNCHANGED <<store, work, upload, req, answer, size, next, sending, sent, done, lost, cargo>>
    BY <1>10 DEF AllSent, Goto, serviceVars, partVars, history
  <2>2. TypeOK'
    BY <2>1 DEF TypeOK, PartsOK, Steps
  <2>3. Phase(c)' /\ Parts(c)' /\ Open(c)'
    BY <2>1 DEF TypeOK, Phase, Uploading, Parts, Open
  <2>4. ASSUME NEW d \in Callers, d # c PROVE Phase(d)' /\ Parts(d)' /\ Open(d)'
    BY <2>1, <2>4, OthersKeep DEF TypeOK
  <2>5. OwnerInv'
    BY <2>1, <1>o DEF TypeOK, OwnerInv, Waited
  <2> QED
    BY <2>2, <2>3, <2>4, <2>5
<1>11. ASSUME NEW c \in Callers, Commit(c) PROVE IInv'
  <2>1. /\ pc[c] = "commit" /\ PutEffect(req[c]) \in Effects /\ done[c] = 0
        /\ req[c].op = "upload" /\ req[c] \in Requests /\ answer[c] = "none"
        /\ \A w \in work : w.owner # c
        /\ UNCHANGED <<req, size, next, sending, sent, lost>>
    BY <1>11, <1>u DEF Commit, Uploading, Phase, OwnerInv, Waited, partVars
  <2>2. CASE Happens(PutEffect(req[c]), c) /\ EndCall(c, "ok")
    <3>1. /\ pc' = [pc EXCEPT ![c] = "done"] /\ answer' = [answer EXCEPT ![c] = "ok"]
          /\ upload' = [upload EXCEPT ![c] = "closed"] /\ UNCHANGED work
      BY <1>11, <2>2 DEF Commit, EndCall, Goto, TypeOK
    <3>2. /\ store' \in [Keys -> MaybeBody] /\ done' \in [Callers -> 0 .. 2]
          /\ cargo' \in [Callers -> MaybeBody] /\ done'[c] = 1
          /\ \A d \in Callers \ {c} : done'[d] = done[d]
      BY <2>1, <2>2, HappensType
    <3>3. TypeOK'
      BY <2>1, <3>1, <3>2 DEF TypeOK, PartsOK, Steps
    <3>4. Phase(c)' /\ Parts(c)' /\ Open(c)'
      BY <2>1, <3>1, <3>2, RequestShape DEF TypeOK, Phase, Uploading, Parts, Open
    <3>5. ASSUME NEW d \in Callers, d # c PROVE Phase(d)' /\ Parts(d)' /\ Open(d)'
      BY <2>1, <3>1, <3>2, <3>5, OthersKeep DEF TypeOK
    <3>6. OwnerInv'
      BY <2>1, <3>1, <3>2, <1>o DEF TypeOK, OwnerInv, Waited
    <3> QED
      BY <3>3, <3>4, <3>5, <3>6
  <2>3. CASE ~(Happens(PutEffect(req[c]), c) /\ EndCall(c, "ok"))
    <3>1. /\ pc' = [pc EXCEPT ![c] = "abort"]
          /\ work' = work \/ work' = work \cup {[effect |-> PutEffect(req[c]), owner |-> c]}
          /\ UNCHANGED <<store, upload, answer, done, cargo>>
      BY <1>11, <2>3 DEF Commit, LeftToProvider, Goto
    <3>2. TypeOK'
      BY <2>1, <3>1 DEF TypeOK, PartsOK, Steps, Work
    <3>3. Phase(c)' /\ Parts(c)' /\ Open(c)'
      BY <2>1, <3>1, RequestShape DEF TypeOK, Phase, Uploading, Parts, Open
    <3>4. ASSUME NEW d \in Callers, d # c PROVE Phase(d)' /\ Parts(d)' /\ Open(d)'
      BY <2>1, <3>1, <3>4, OthersKeep DEF TypeOK
    <3>5. OwnerInv'
      <4>1. ASSUME NEW w \in work, w.owner # None PROVE Waited(w)'
        BY <2>1, <3>1, <4>1, <1>o DEF TypeOK, OwnerInv, Waited
      <4>2. ASSUME NEW w, w = [effect |-> PutEffect(req[c]), owner |-> c] PROVE Waited(w)'
        BY <2>1, <3>1, <4>2 DEF TypeOK, Waited
      <4> QED
        BY <3>1, <4>1, <4>2 DEF OwnerInv, Waited
    <3> QED
      BY <3>2, <3>3, <3>4, <3>5
  <2> QED
    BY <2>2, <2>3
<1>12. ASSUME NEW c \in Callers, Abort(c) PROVE IInv'
  <2>1. /\ pc[c] = "abort" /\ done[c] \in {0, 1}
        /\ req[c].op = "upload" /\ req[c] \in Requests
        /\ pc' = [pc EXCEPT ![c] = "done"]
        /\ \E a \in Errors : answer' = [answer EXCEPT ![c] = a]
        /\ UNCHANGED <<store, req, size, next, sending, sent, done, cargo>>
    BY <1>12, <1>u DEF Abort, EndCall, Goto, Uploading, Phase, partVars
  <2>2. /\ work' \in SUBSET Work
        /\ \A w \in work' : w.owner # None => w \in work /\ w.owner # c
    BY <1>12, DisownedShape DEF Abort, Owned, TypeOK
  <2>3. /\ \A d \in Callers \ {c} : upload'[d] = upload[d] /\ lost'[d] = lost[d]
        /\ upload'[c] = "open" => lost'[c]
        /\ upload' \in [Callers -> {"none", "open", "closed"}] /\ lost' \in [Callers -> BOOLEAN]
    BY <1>12 DEF Abort, TypeOK
  <2>4. TypeOK'
    <3>1. answer' \in [Callers -> {"none", "ok", "missing"} \cup Errors]
      BY <2>1 DEF TypeOK
    <3> QED
      BY <2>1, <2>2, <2>3, <3>1 DEF TypeOK, PartsOK, Steps
  <2>5. Phase(c)' /\ Parts(c)' /\ Open(c)'
    BY <2>1, <2>3, RequestShape DEF TypeOK, Phase, Uploading, Parts, Open
  <2>6. ASSUME NEW d \in Callers, d # c PROVE Phase(d)' /\ Parts(d)' /\ Open(d)'
    BY <2>1, <2>3, <2>6, OthersKeep DEF TypeOK
  <2>7. OwnerInv'
    BY <2>1, <2>2, <1>o DEF TypeOK, OwnerInv, Waited
  <2> QED
    BY <2>4, <2>5, <2>6, <2>7
<1>13. ASSUME NEW c \in Callers, Return(c) PROVE IInv'
  <2>1. /\ work' \in SUBSET Work
        /\ \A w \in work' : w.owner # None => w \in work /\ w.owner # c
    BY <1>13, DisownedShape DEF Return, TypeOK
  <2>2. TypeOK'
    BY <1>13, <2>1 DEF Return, Goto, TypeOK, PartsOK, Steps, MaybeBody
  <2>3. Phase(c)' /\ Parts(c)' /\ Open(c)'
    BY <1>13 DEF Return, Goto, TypeOK, Phase, Uploading, Parts, Open
  <2>4. ASSUME NEW d \in Callers, d # c PROVE Phase(d)' /\ Parts(d)' /\ Open(d)'
    BY <1>13, <2>4, OthersKeep DEF Return, Goto, TypeOK
  <2>5. OwnerInv'
    BY <1>13, <2>1, <1>o DEF Return, Goto, TypeOK, OwnerInv, Waited
  <2> QED
    BY <2>2, <2>3, <2>4, <2>5
<1>14. ASSUME NEW w \in work, CarryOut(w) PROVE IInv'
  <2>1. /\ w \in Work /\ w.effect \in Effects /\ work' = work \ {w}
        /\ Happens(w.effect, w.owner)
        /\ UNCHANGED <<req, pc, answer, size, next, sending, sent, lost>>
        /\ \A d \in Callers : upload'[d] = upload[d] \/ (upload'[d] = "closed")
        /\ upload' \in [Callers -> {"none", "open", "closed"}]
    BY <1>14 DEF CarryOut, TypeOK, Work, callVars, partVars
  <2>2. ASSUME w.owner \in Callers
        PROVE  /\ done[w.owner] \in {0, 1} /\ w.owner # None
               /\ pc[w.owner] \in {"abort", "remove"} => done[w.owner] = 0
               /\ pc[w.owner] \in {"abort", "remove", "done"}
               /\ pc[w.owner] \in {"remove", "done"} => req[w.owner].op = "move"
               /\ \A v \in work : v.owner = w.owner => v = w
               /\ pc[w.owner] = "done" => req[w.owner].op # "upload"
    <3>1. w.owner # None /\ Waited(w)
      BY <2>2 DEF OwnerInv
    <3>2. ASSUME NEW v \in work, v.owner = w.owner PROVE v = w
      <4>1. v.effect = w.effect
        BY <3>1, <3>2 DEF OwnerInv, Waited
      <4>2. v \in Work
        BY DEF TypeOK
      <4> QED
        BY <2>1, <3>2, <4>1, <4>2 DEF Work
    <3> QED
      BY <3>1, <3>2 DEF Waited
  <2>3. /\ store' \in [Keys -> MaybeBody] /\ done' \in [Callers -> 0 .. 2]
        /\ cargo' \in [Callers -> MaybeBody]
        /\ w.owner \in Callers => done'[w.owner] = done[w.owner] + 1
        /\ \A d \in Callers \ {w.owner} : done'[d] = done[d]
    BY <2>1, <2>2, HappensType
  <2>4. TypeOK'
    BY <2>1, <2>3 DEF TypeOK, PartsOK
  <2>5. ASSUME NEW d \in Callers PROVE Phase(d)' /\ Parts(d)' /\ Open(d)'
    <3>1. CASE d # w.owner
      BY <2>1, <2>3, <3>1 DEF Phase, Parts, Open
    <3>2. CASE d = w.owner
      <4>1. answer[d] = "ok" => pc[d] = "done"
        BY DEF Phase, TypeOK
      <4>2. Phase(d)'
        BY <2>1, <2>2, <2>3, <3>2, <4>1 DEF Phase, Uploading
      <4> QED
        BY <2>1, <4>2 DEF Parts, Open
    <3> QED
      BY <3>1, <3>2
  <2>6. OwnerInv'
    <3>1. ASSUME NEW v \in work, v # w, v.owner # None PROVE Waited(v)'
      <4>1. v.owner \in Callers /\ v.owner # w.owner
        BY <2>2, <3>1, <1>o
      <4> QED
        BY <2>1, <2>3, <3>1, <4>1 DEF OwnerInv, Waited
    <3> QED
      BY <2>1, <3>1 DEF OwnerInv, Waited
  <2> QED
    BY <2>4, <2>5, <2>6
<1>15. ASSUME NEW w \in work, Drop(w) PROVE IInv'
  <2>1. /\ work' = work \ {w}
        /\ UNCHANGED <<store, upload, req, pc, answer, size, next, sending, sent, done, lost, cargo>>
    BY <1>15 DEF Drop, callVars, partVars, history
  <2>2. TypeOK' /\ OwnerInv'
    BY <2>1 DEF TypeOK, PartsOK, OwnerInv, Waited
  <2>3. ASSUME NEW d \in Callers PROVE Phase(d)' /\ Parts(d)' /\ Open(d)'
    BY <2>1, OthersKeep DEF TypeOK
  <2> QED
    BY <2>2, <2>3
<1>16. CASE UNCHANGED vars
  <2>1. TypeOK' /\ OwnerInv'
    BY <1>16 DEF vars, serviceVars, callVars, partVars, history, TypeOK, PartsOK, OwnerInv, Waited
  <2>2. ASSUME NEW d \in Callers PROVE Phase(d)' /\ Parts(d)' /\ Open(d)'
    BY <1>16, OthersKeep DEF TypeOK, vars, serviceVars, callVars, partVars, history
  <2> QED
    BY <2>1, <2>2
<1> QED
  BY <1>1, <1>2, <1>3, <1>4, <1>5, <1>6, <1>7, <1>8, <1>9, <1>10, <1>11, <1>12, <1>13, <1>14,
     <1>15, <1>16
     DEF Next, CallStep

-----------------------------------------------------------------------------
(***************************************************************************)
(* Theorems.                                                               *)
(***************************************************************************)

\* The invariant that the other theorems rest on.
THEOREM OracleInductive == Spec => []IInv
<1> QED
  BY InitInv, StepInv, PTL DEF Spec

\* Every variable has its type, in particular runners never take a part that is
\* not there, however they interleave and whether or not one of them has failed.
THEOREM OracleTypeCorrect == Spec => []TypeOK
<1>1. IInv => TypeOK
  BY DEF IInv
<1> QED
  BY <1>1, OracleInductive, PTL

\* The list of parts an upload commits is complete, for any number of parts and
\* runners.
THEOREM CommitsWholeObjects == Spec => []CommittedWhole
<1>1. IInv => CommittedWhole
  <2> SUFFICES ASSUME IInv, NEW c \in Callers, pc[c] = "commit"
               PROVE  sent[c] = 1 .. size[c]
    BY DEF CommittedWhole
  <2>1. sending[c] = {} /\ sent[c] \cup sending[c] = 1 .. next[c] /\ next[c] = size[c]
    BY DEF IInv, PartsInv, Parts
  <2> QED
    BY <2>1
<1> QED
  BY <1>1, OracleInductive, PTL

\* The driver leaves an upload open only if the answer was lost from which it
\* would have known the upload, or that of the abort.
THEOREM OrphansAreLost == Spec => []OrphanOnlyIfLost
<1>1. IInv => OrphanOnlyIfLost
  BY DEF IInv, UploadInv, Open, OrphanOnlyIfLost
<1> QED
  BY <1>1, OracleInductive, PTL

-----------------------------------------------------------------------------
(***************************************************************************)
(* Without moves, the driver implements ObjectStore.                       *)
(***************************************************************************)

NoMoves == \A c \in Callers : req[c].op # "move"

\* The two modules share the vocabulary of StorageRequests.
LEMMA SameVocabulary ==
    /\ Promise!Requests = Requests
    /\ Promise!NoRequest = NoRequest
    /\ Promise!MaybeBody = MaybeBody
    /\ \A r : Promise!EffectCount(r) = EffectCount(r)
    /\ \A r, n : Promise!EffectOf(r, n) = EffectOf(r, n)
    /\ \A st, e : /\ Promise!Possible(st, e) = Possible(st, e)
                 /\ Promise!After(st, e) = After(st, e)
<1>1. Promise!Requests = Requests
  BY DEF Promise!Requests, Promise!Uploads, Promise!Deletes, Promise!Copies, Promise!Moves,
         Requests, Uploads, Deletes, Copies, Moves
<1>2. Promise!NoRequest = NoRequest /\ Promise!MaybeBody = MaybeBody
  BY DEF Promise!NoRequest, NoRequest, Promise!MaybeBody, MaybeBody
<1>3. \A r : Promise!EffectCount(r) = EffectCount(r)
  BY DEF Promise!EffectCount, EffectCount
<1>4. \A r, n : Promise!EffectOf(r, n) = EffectOf(r, n)
  BY DEF Promise!EffectOf, Promise!PutEffect, Promise!CopyEffect, Promise!RemoveEffect,
         EffectOf, PutEffect, CopyEffect, RemoveEffect
<1>5. \A st, e : Promise!Possible(st, e) = Possible(st, e)
  BY DEF Promise!Possible, Possible
<1>6. \A st, e : Promise!After(st, e) = After(st, e)
  BY DEF Promise!After, Promise!Changed, After, Changed
<1> QED
  BY <1>1, <1>2, <1>3, <1>4, <1>5, <1>6

\* Which effects are left over.
LEMMA LeftOverShape ==
    /\ \A e : e \in LeftOver <=> \E w \in work : w.owner = None /\ w.effect = e
    /\ \A e : e \in LeftOver' <=> \E w \in work' : w.owner = None /\ w.effect = e
BY DEF LeftOver

\* Work of nobody is left over; work of somebody else does not matter.
LEMMA LeftOverGrows ==
    ASSUME NEW e, NEW ws \in SUBSET work, \A w \in ws : w.owner # None,
           work' = (work \ ws) \cup {[effect |-> e, owner |-> None]}
    PROVE  LeftOver' = LeftOver \cup {e}
<1>1. ASSUME NEW f, f \in LeftOver' PROVE f \in LeftOver \cup {e}
  BY <1>1, LeftOverShape
<1>2. ASSUME NEW f, f \in LeftOver PROVE f \in LeftOver'
  BY <1>2, LeftOverShape
<1>3. e \in LeftOver'
  <2>1. [effect |-> e, owner |-> None] \in work'
    OBVIOUS
  <2> QED
    BY <2>1, LeftOverShape
<1> QED
  BY <1>1, <1>2, <1>3

\* What the end of a call tells.
LEMMA EndTells ==
    ASSUME TypeOK, NEW c \in Callers, NEW a, EndCall(c, a), req' = req
    PROVE  Told' = [Told EXCEPT ![c] =
                      IF a = "missing" \/ (a = "ok" /\ req[c].op = "copy") THEN "failed" ELSE a]
<1>1. \A d \in Callers : answer'[d] = IF d = c THEN a ELSE answer[d]
  BY DEF TypeOK, EndCall
<1> QED
  BY <1>1 DEF Told

\* Who waits for the driver is told nothing yet.
LEMMA CallRuns ==
    ASSUME IInv, NEW c \in Callers, pc[c] \notin {"idle", "done"}
    PROVE  Promise!Running(c) /\ req[c] \in Requests /\ answer[c] = "none"
<1>1. req[c] # NoRequest /\ req[c] \in Requests /\ answer[c] = "none"
  BY DEF IInv, PhaseInv, Phase, TypeOK
<1> QED
  BY <1>1, SameVocabulary DEF Promise!Running, Told

\* A call that ends in a failure, with or without a left-over.
LEMMA FailRefines ==
    ASSUME IInv, NEW c \in Callers, pc[c] \notin {"idle", "done"},
           UNCHANGED <<store, req, done>>,
           NEW a \in Errors, Told' = [Told EXCEPT ![c] = a],
           \/ LeftOver' = LeftOver
           \/ /\ done[c] < EffectCount(req[c])
              /\ LeftOver' = LeftOver \cup {EffectOf(req[c], done[c] + 1)}
    PROVE  Promise!AnswerError(c)
BY CallRuns, SameVocabulary DEF Promise!AnswerError, Promise!Errors

\* A request that fails is such an end.
LEMMA RequestFailRefines ==
    ASSUME IInv, NEW c \in Callers, NEW e,
           pc[c] \notin {"idle", "done"}, RequestFails(c, e),
           done[c] < EffectCount(req[c]), e = EffectOf(req[c], done[c] + 1)
    PROVE  Promise!AnswerError(c)
<1>1. LeftOver' = LeftOver \/ LeftOver' = LeftOver \cup {e}
  <2>1. CASE work' = work
    BY <2>1 DEF LeftOver
  <2>2. CASE work' = work \cup {[effect |-> e, owner |-> None]}
    BY <2>2 DEF LeftOver
  <2> QED
    BY <2>1, <2>2 DEF RequestFails, LeftToProvider
<1>2. PICK a \in Errors : UNCHANGED <<store, req, done>> /\ EndCall(c, a)
  BY DEF RequestFails, history
<1>3. Told' = [Told EXCEPT ![c] = a]
  BY <1>2, EndTells DEF IInv
<1> QED
  BY <1>1, <1>2, <1>3, FailRefines

\* Every step that belongs to no move is a step of the abstract store, or
\* changes nothing that is visible there.
LEMMA StepRefines ==
    ASSUME IInv, NoMoves, NoMoves', [Next]_vars
    PROVE  [Promise!Next]_(Promise!vars)
<1> SUFFICES Promise!Next \/ UNCHANGED Promise!vars
  OBVIOUS
<1> USE NoneAssumption, CallersAssumption, SameVocabulary
<1>s. ASSUME UNCHANGED <<store, work, req, done, answer>>
      PROVE  UNCHANGED Promise!vars
  BY <1>s DEF Promise!vars, LeftOver, Told
<1>t. ASSUME work' = work PROVE LeftOver' = LeftOver
  BY <1>t DEF LeftOver
<1>n. ASSUME NEW c \in Callers,
             \/ Promise!Ask(c) \/ Promise!Perform(c) \/ Promise!Complete(c)
             \/ Promise!AnswerOk(c) \/ Promise!AnswerError(c) \/ Promise!Leave(c)
      PROVE  Promise!Next
  BY <1>n DEF Promise!Next
<1>p. ASSUME NEW c \in Callers, pc[c] \notin {"idle", "done"}
      PROVE  /\ Phase(c) /\ req[c] \in Requests /\ Promise!Running(c) /\ answer[c] = "none"
             /\ req[c].op # "move" /\ EffectCount(req[c]) = 1
  BY <1>p, CallRuns DEF IInv, PhaseInv, NoMoves, EffectCount
\* An effect that happens in the answered request of an upload or a delete.
<1>c. ASSUME NEW c \in Callers, NEW e, pc[c] \notin {"idle", "done"}, done[c] = 0,
             e = EffectOf(req[c], 1), e.kind # "copy", Happens(e, c), EndCall(c, "ok"),
             req[c].op # "copy", UNCHANGED <<req, work>>
      PROVE  Promise!Next
  <2>1. Told' = [Told EXCEPT ![c] = "ok"]
    BY <1>c, EndTells DEF IInv
  <2>2. done' = [done EXCEPT ![c] = @ + 1]
    BY <1>c DEF Happens, IInv, TypeOK
  <2>3. /\ done[c] + 1 = EffectCount(req[c]) /\ EffectOf(req[c], done[c] + 1) = e
        /\ Promise!Running(c) /\ LeftOver' = LeftOver
    BY <1>c, <1>p, <1>t
  <2>4. Possible(store, e) /\ store' = After(store, e) /\ req' = req
    BY <1>c DEF Happens
  <2>5. Promise!Complete(c)
    BY <2>1, <2>2, <2>3, <2>4 DEF Promise!Complete
  <2> QED
    BY <1>n, <2>5
<1>1. ASSUME NEW c \in Callers, Invoke(c) PROVE Promise!Next
  <2>1. PICK r \in Requests : req' = [req EXCEPT ![c] = r]
    BY <1>1, CallsAssumption DEF Invoke
  <2>2. req[c] = NoRequest /\ answer[c] = "none" /\ UNCHANGED <<store, work, answer, done>>
    BY <1>1 DEF Invoke, IInv, TypeOK, PhaseInv, Phase, serviceVars, history
  <2>3. Told' = Told
    <3>1. ASSUME NEW d \in Callers PROVE Told'[d] = Told[d]
      BY <2>1, <2>2 DEF Told
    <3> QED
      BY <3>1 DEF Told
  <2>4. Promise!Ask(c)
    BY <1>t, <2>1, <2>2, <2>3 DEF Promise!Ask
  <2> QED
    BY <1>n, <2>4
<1>2. ASSUME NEW c \in Callers, Head(c) PROVE Promise!Next \/ UNCHANGED Promise!vars
  <2>1. /\ pc[c] = "check" /\ ~req[c].overwrite /\ done[c] = 0 /\ Promise!Running(c)
        /\ UNCHANGED <<store, work, req, done>> /\ LeftOver' = LeftOver
    BY <1>2, <1>p, <1>t DEF Head, Phase, serviceVars, history
  <2>2. CASE UNCHANGED answer
    BY <1>s, <2>1, <2>2
  <2>3. ASSUME NEW a \in Errors, EndCall(c, a) PROVE Promise!Next
    <3>1. Told' = [Told EXCEPT ![c] = a]
      BY <2>1, <2>3, EndTells DEF IInv
    <3> QED
      BY <1>n, <2>1, <2>3, <3>1, FailRefines
  <2> QED
    BY <1>2, <2>2, <2>3 DEF Head
<1>3. ASSUME NEW c \in Callers, Put(c) PROVE Promise!Next
  <2>1. /\ pc[c] = "put" /\ req[c].op = "upload" /\ done[c] = 0 /\ EffectCount(req[c]) = 1
        /\ PutEffect(req[c]) = EffectOf(req[c], 1) /\ PutEffect(req[c]).kind # "copy"
    BY <1>3, <1>p DEF Put, Phase, Uploading, EffectOf, PutEffect
  <2>2. CASE RequestFails(c, PutEffect(req[c]))
    BY <1>n, <2>1, <2>2, RequestFailRefines
  <2>3. CASE ~RequestFails(c, PutEffect(req[c]))
    BY <1>3, <1>c, <2>1, <2>3 DEF Put
  <2> QED
    BY <2>2, <2>3
<1>4. ASSUME NEW c \in Callers, Remove(c) PROVE Promise!Next
  <2>1. /\ pc[c] = "remove" /\ req[c].op = "delete" /\ done[c] = 0 /\ EffectCount(req[c]) = 1
        /\ RemoveEffect(req[c]) = EffectOf(req[c], 1) /\ RemoveEffect(req[c]).kind # "copy"
    BY <1>4, <1>p DEF Remove, Phase, EffectOf, RemoveEffect
  <2>2. CASE RequestFails(c, RemoveEffect(req[c]))
    BY <1>n, <2>1, <2>2, RequestFailRefines
  <2>3. CASE ~RequestFails(c, RemoveEffect(req[c])) /\ store[req[c].src] # None
    BY <1>4, <1>c, <2>1, <2>3 DEF Remove
  <2>4. CASE ~RequestFails(c, RemoveEffect(req[c])) /\ store[req[c].src] = None
    <3>1. UNCHANGED <<store, work, req, done>> /\ EndCall(c, "missing")
      BY <1>4, <2>4 DEF Remove, serviceVars, history
    <3>2. Told' = [Told EXCEPT ![c] = "failed"]
      BY <3>1, EndTells DEF IInv
    <3> QED
      BY <1>n, <1>t, <2>1, <3>1, <3>2, FailRefines
  <2> QED
    BY <2>2, <2>3, <2>4
<1>5. ASSUME NEW c \in Callers, Copy(c) PROVE Promise!Next
  <2>1. /\ pc[c] = "copy" /\ req[c].op = "copy" /\ done[c] = 0 /\ EffectCount(req[c]) = 1
        /\ CopyEffect(req[c]) = EffectOf(req[c], 1)
    BY <1>5, <1>p DEF Copy, Phase, EffectOf
  <2>2. CASE RequestFails(c, CopyEffect(req[c]))
    BY <1>n, <2>1, <2>2, RequestFailRefines
  <2>3. CASE ~RequestFails(c, CopyEffect(req[c]))
    <3>1. /\ UNCHANGED <<store, req, done>> /\ EndCall(c, "ok")
          /\ work' = work \cup {[effect |-> CopyEffect(req[c]), owner |-> None]}
      BY <1>5, <2>1, <2>3 DEF Copy, LeftToProvider
    <3>2. LeftOver' = LeftOver \cup {CopyEffect(req[c])}
      <4>1. work' = (work \ {}) \cup {[effect |-> CopyEffect(req[c]), owner |-> None]}
        BY <3>1
      <4>2. {} \in SUBSET work /\ \A w \in {} : w.owner # None
        OBVIOUS
      <4> QED
        BY <4>1, <4>2, LeftOverGrows, Zenon
    <3>3. Told' = [Told EXCEPT ![c] = "failed"]
      BY <2>1, <3>1, EndTells DEF IInv
    <3>4. done[c] < EffectCount(req[c]) /\ EffectOf(req[c], done[c] + 1) = CopyEffect(req[c])
      BY <2>1
    <3>5. Promise!AnswerError(c)
      BY <2>1, <3>1, <3>2, <3>3, <3>4, FailRefines
    <3> QED
      BY <1>n, <3>5
  <2> QED
    BY <2>2, <2>3
<1>6. ASSUME NEW c \in Callers, CreateUpload(c) PROVE Promise!Next \/ UNCHANGED Promise!vars
  <2>1. pc[c] = "create" /\ UNCHANGED <<store, work, req, done>>
    BY <1>6 DEF CreateUpload
  <2>2. CASE UNCHANGED answer
    BY <1>s, <2>1, <2>2
  <2>3. ASSUME NEW a \in Errors, EndCall(c, a) PROVE Promise!Next
    <3>1. Told' = [Told EXCEPT ![c] = a]
      BY <2>1, <2>3, EndTells DEF IInv
    <3> QED
      BY <1>n, <1>t, <2>1, <2>3, <3>1, FailRefines
  <2> QED
    BY <1>6, <2>2, <2>3 DEF CreateUpload
<1>7. ASSUME NEW c \in Callers,
             \/ ReadBody(c) \/ AllSent(c)
             \/ \E i \in sending[c] : PartStored(c, i) \/ PartFails(c, i)
      PROVE  UNCHANGED Promise!vars
  BY <1>7, <1>s
     DEF ReadBody, AllSent, PartStored, PartFails, serviceVars, callVars, partVars, history
<1>8. ASSUME NEW c \in Callers, Commit(c) PROVE Promise!Next \/ UNCHANGED Promise!vars
  <2>1. /\ pc[c] = "commit" /\ req[c].op = "upload" /\ done[c] = 0 /\ req' = req
        /\ PutEffect(req[c]) = EffectOf(req[c], 1) /\ PutEffect(req[c]).kind # "copy"
    BY <1>8, <1>p DEF Commit, Phase, Uploading, EffectOf, PutEffect
  <2>2. CASE Happens(PutEffect(req[c]), c) /\ EndCall(c, "ok") /\ UNCHANGED work
    BY <1>c, <2>1, <2>2
  <2>3. CASE /\ UNCHANGED <<store, answer, done>>
             /\ work' = work \/ work' = work \cup {[effect |-> PutEffect(req[c]), owner |-> c]}
    <3>1. LeftOver' = LeftOver
      BY <2>3 DEF LeftOver
    <3> QED
      BY <2>1, <2>3, <3>1 DEF Promise!vars, Told
  <2> QED
    BY <1>8, <2>2, <2>3 DEF Commit, LeftToProvider
<1>9. ASSUME NEW c \in Callers, Abort(c) PROVE Promise!Next
  <2>1. /\ pc[c] = "abort" /\ done[c] \in {0, 1} /\ UNCHANGED <<store, req, done>>
        /\ PutEffect(req[c]) = EffectOf(req[c], 1) /\ EffectCount(req[c]) = 1
    BY <1>9, <1>p DEF Abort, Phase, Uploading, EffectOf
  <2>2. \A w \in Owned(c) : /\ done[c] = 0 /\ w.effect = PutEffect(req[c])
                            /\ [w EXCEPT !.owner = None] = [effect |-> w.effect, owner |-> None]
    BY <2>1 DEF Owned, IInv, OwnerInv, Waited, TypeOK, Work
  <2>3. \/ LeftOver' = LeftOver
        \/ done[c] = 0 /\ LeftOver' = LeftOver \cup {PutEffect(req[c])}
    <3>1. CASE work' = work \ Owned(c)
      <4>1. LeftOver' = LeftOver
        BY <3>1 DEF LeftOver, Owned
      <4> QED
        BY <4>1
    <3>2. CASE work' = Disowned(c) /\ Owned(c) = {}
      <4>1. LeftOver' = LeftOver
        BY <3>2 DEF LeftOver, Disowned
      <4> QED
        BY <4>1
    <3>3. CASE work' = Disowned(c) /\ Owned(c) # {}
      <4>1. done[c] = 0
        BY <2>2, <3>3
      <4>2. {[w EXCEPT !.owner = None] : w \in Owned(c)}
               = {[effect |-> PutEffect(req[c]), owner |-> None]}
        BY <2>2, <3>3
      <4>3. LeftOver' = LeftOver \cup {PutEffect(req[c])}
        <5>1. \A w \in Owned(c) : w \in work /\ w.owner # None
          BY DEF Owned
        <5> QED
          BY <3>3, <4>2, <5>1, LeftOverGrows DEF Disowned
      <4> QED
        BY <4>1, <4>3
    <3> QED
      BY <1>9, <3>1, <3>2, <3>3 DEF Abort
  <2>4. PICK a \in Errors : Told' = [Told EXCEPT ![c] = a]
    BY <1>9, <2>1, EndTells DEF Abort, IInv
  <2>5. done[c] = 0 => /\ done[c] < EffectCount(req[c])
                       /\ EffectOf(req[c], done[c] + 1) = PutEffect(req[c])
    BY <2>1
  <2>6. Promise!AnswerError(c)
    BY <2>1, <2>3, <2>4, <2>5, FailRefines
  <2> QED
    BY <1>n, <2>6
<1>10. ASSUME NEW c \in Callers, Return(c) PROVE Promise!Next
  <2>1. pc[c] = "done" /\ answer[c] # "none" /\ req[c].op # "move"
    BY <1>10 DEF Return, IInv, PhaseInv, Phase, NoMoves
  <2>2. Owned(c) = {}
    BY <2>1 DEF Owned, IInv, OwnerInv, Waited
  <2>3. LeftOver' = LeftOver
    BY <1>10, <2>2 DEF Return, Disowned, LeftOver
  <2>4. Told' = [Told EXCEPT ![c] = "none"]
    <3>1. \A d \in Callers :
             /\ answer'[d] = IF d = c THEN "none" ELSE answer[d]
             /\ d # c => req'[d] = req[d]
      BY <1>10 DEF Return, IInv, TypeOK
    <3> QED
      BY <3>1 DEF Told
  <2>5. Told[c] # "none"
    BY <2>1 DEF Told
  <2>6. Promise!Leave(c)
    BY <1>10, <2>3, <2>4, <2>5 DEF Return, Promise!Leave
  <2> QED
    BY <1>n, <2>6
<1>11. ASSUME NEW w \in work, CarryOut(w) PROVE Promise!Next
  <2>1. UNCHANGED <<req, answer>> /\ Told' = Told
    BY <1>11 DEF CarryOut, callVars, Told
  <2>2. CASE w.owner \in Callers
    <3> DEFINE c == w.owner
    <3>1. /\ c \in Callers /\ c # None /\ pc[c] = "abort" /\ done[c] = 0
          /\ w.effect = PutEffect(req[c])
      <4>1. c # None /\ Waited(w) /\ req[c].op # "move"
        BY <2>2 DEF IInv, OwnerInv, NoMoves
      <4> QED
        BY <2>2, <4>1 DEF Waited
    <3>2. PutEffect(req[c]) = EffectOf(req[c], 1)
      BY <1>p, <3>1 DEF Phase, Uploading, EffectOf
    <3>3. LeftOver' = LeftOver
      BY <1>11, <3>1 DEF CarryOut, LeftOver
    <3>4. done' = [done EXCEPT ![c] = @ + 1]
      BY <1>11, <3>1 DEF CarryOut, Happens, IInv, TypeOK
    <3>5. /\ done[c] < EffectCount(req[c]) /\ EffectOf(req[c], done[c] + 1) = w.effect
          /\ Promise!Running(c) /\ Possible(store, w.effect) /\ store' = After(store, w.effect)
      BY <1>11, <1>p, <3>1, <3>2 DEF CarryOut, Happens
    <3>6. Promise!Perform(c)
      BY <2>1, <3>3, <3>4, <3>5 DEF Promise!Perform
    <3> QED
      BY <1>n, <3>1, <3>6
  <2>3. CASE w.owner \notin Callers
    <3>1. w.owner = None /\ w.effect \in LeftOver
      BY <2>3, LeftOverShape DEF IInv, TypeOK, Work
    <3>2. LeftOver' = LeftOver \ {w.effect}
      BY <1>11, <3>1, LeftOverShape DEF CarryOut, LeftOver, IInv, TypeOK, Work
    <3>3. done' = done
      BY <1>11, <2>3 DEF CarryOut, Happens, IInv, TypeOK
    <3>4. Promise!Late(w.effect)
      BY <1>11, <2>1, <3>2, <3>3 DEF CarryOut, Happens, Promise!Late
    <3> QED
      BY <3>1, <3>4 DEF Promise!Next
  <2> QED
    BY <2>2, <2>3
<1>12. ASSUME NEW w \in work, Drop(w) PROVE Promise!Next \/ UNCHANGED Promise!vars
  <2>1. UNCHANGED <<store, req, answer, done>> /\ Told' = Told /\ work' = work \ {w}
    BY <1>12 DEF Drop, callVars, history, Told
  <2>2. CASE w.owner # None
    <3>1. LeftOver' = LeftOver
      BY <2>1, <2>2 DEF LeftOver
    <3> QED
      BY <2>1, <3>1 DEF Promise!vars
  <2>3. CASE w.owner = None
    <3>1. w.effect \in LeftOver
      BY <2>3, LeftOverShape
    <3>2. LeftOver' = LeftOver \ {w.effect}
      BY <2>1, <2>3 DEF LeftOver, IInv, TypeOK, Work
    <3>3. Promise!Late(w.effect)
      BY <2>1, <3>2 DEF Promise!Late
    <3> QED
      BY <3>1, <3>3 DEF Promise!Next
  <2> QED
    BY <2>2, <2>3
<1>13. CASE UNCHANGED vars
  BY <1>13, <1>s DEF vars, serviceVars, callVars, history
<1> QED
  BY <1>1, <1>2, <1>3, <1>4, <1>5, <1>6, <1>7, <1>8, <1>9, <1>10, <1>11, <1>12, <1>13
     DEF Next, CallStep

\* If nobody may call move, nobody does.
LEMMA NoMovesStay == ASSUME Calls \cap Moves = {} PROVE Spec => []NoMoves
<1>1. Init => NoMoves
  BY DEF Init, NoMoves, NoRequest
<1>2. TypeOK /\ NoMoves /\ [Next]_vars => NoMoves'
  <2> SUFFICES ASSUME TypeOK, NoMoves, [Next]_vars PROVE NoMoves'
    OBVIOUS
  <2>1. \A r \in Calls : r.op # "move"
    BY CallsAssumption DEF Requests, Uploads, Deletes, Copies, Moves
  <2>2. ASSUME NEW c \in Callers, Invoke(c) PROVE NoMoves'
    BY <2>1, <2>2 DEF Invoke, NoMoves, TypeOK
  <2>3. ASSUME NEW c \in Callers, Return(c) PROVE NoMoves'
    BY <2>3 DEF Return, NoMoves, TypeOK, NoRequest
  <2>4. CASE req' = req
    BY <2>4 DEF NoMoves
  <2> QED
    BY <2>2, <2>3, <2>4
       DEF Next, CallStep, Head, Put, Remove, Copy, CreateUpload, ReadBody, PartStored, PartFails,
           AllSent, Commit, Abort, CarryOut, Drop, RequestFails, vars, callVars
<1> QED
  BY <1>1, <1>2, OracleTypeCorrect, PTL DEF Spec

\* For every call but move(), the driver keeps the promise of ObjectStore when
\* its answers are understood as Told says: an upload, in however many parts, is
\* one put of a whole object, and a copy that was accepted may be made later.
THEOREM OracleImplements == ASSUME Calls \cap Moves = {} PROVE Spec => PromiseSpec
<1>1. Init => Promise!Init
  BY SameVocabulary DEF Init, Promise!Init, LeftOver, Told
<1>2. IInv /\ NoMoves /\ NoMoves' /\ [Next]_vars => [Promise!Next]_(Promise!vars)
  BY StepRefines
<1> QED
  BY <1>1, <1>2, OracleInductive, NoMovesStay, PTL DEF Spec, PromiseSpec, Promise!Spec
=============================================================================
