----------------------- MODULE StorageInstanceProofs -----------------------
(***************************************************************************)
(* What hooks and listeners leave of a driver's promise, for any number of *)
(* calls and listeners: events and rejections tell the truth, every        *)
(* listener hears every event, and the instance implements ObjectStore     *)
(* again.                                                                  *)
(***************************************************************************)
EXTENDS StorageInstance, SequenceTheorems, TLAPS

\* The kinds of errors of hooks are known everywhere.
USE DEF HookErrors

(***************************************************************************)
(* Calls and effects.                                                      *)
(***************************************************************************)

\* A call is told from no call by its operation.
LEMMA RequestIsACall ==
    ASSUME NEW r \in Requests
    PROVE  r # NoRequest /\ r.op \in {"upload", "delete", "copy", "move"}
<1>1. r.op \in {"upload", "delete", "copy", "move"}
  BY DEF Requests, Uploads, Deletes, Copies, Moves
<1>2. NoRequest.op = "none"
  BY DEF NoRequest
<1> QED
  BY <1>1, <1>2

\* Each effect a call may still have is an effect.
LEMMA EffectOfShape ==
    ASSUME NEW r \in Requests, NEW n \in 0 .. 2, n < EffectCount(r)
    PROVE  EffectOf(r, n + 1) \in Effects
<1>1. CASE r \in Uploads
  BY <1>1 DEF Uploads, EffectOf, PutEffect, Effects
<1>2. CASE r \in Deletes
  BY <1>2 DEF Deletes, EffectOf, RemoveEffect, Effects
<1>3. CASE r \in Copies
  <2>1. r.op = "copy" /\ r.src \in Keys /\ r.dst \in Keys
    BY <1>3 DEF Copies
  <2>2. n + 1 = 1
    BY <2>1 DEF EffectCount
  <2> QED
    BY <2>1, <2>2 DEF EffectOf, CopyEffect, Effects
<1>4. CASE r \in Moves
  <2>1. r.op = "move" /\ r.src \in Keys /\ r.dst \in Keys
    BY <1>4 DEF Moves
  <2> QED
    BY <2>1 DEF EffectOf, CopyEffect, RemoveEffect, Effects
<1> QED
  BY <1>1, <1>2, <1>3, <1>4 DEF Requests

\* Carrying out an effect leaves a bucket.
LEMMA AfterType ==
    ASSUME NEW st \in [Keys -> MaybeBody], NEW e \in Effects
    PROVE  After(st, e) \in [Keys -> MaybeBody]
BY DEF After, MaybeBody, Effects

(***************************************************************************)
(* The strengthening.                                                      *)
(***************************************************************************)

Members(s) == {s[i] : i \in 1 .. Len(s)}

Distinct(s) == \A i, j \in 1 .. Len(s) : s[i] = s[j] => i = j

\* The driver was asked for this call or not yet, and has answered truly.
Asked(c) ==
    /\ asked[c] \in {NoRequest, call[c]}
    /\ asked[c] = NoRequest => done[c] = 0 /\ answer[c] = "none"
    /\ stage[c] \in {"idle", "before"} => asked[c] = NoRequest
    /\ stage[c] \in {"driver", "after"} => asked[c] = call[c]
    /\ answer[c] = "ok" => done[c] = EffectCount(call[c])

\* What a call waits for fits how it went so far.
Progress(c) ==
    /\ stage[c] = "idle" <=> call[c] = NoRequest
    /\ stage[c] \in {"idle", "before", "driver", "after"} <=> verdict[c] = "none"
    /\ stage[c] = "before" => Hooked(call[c])
    /\ stage[c] = "after" => answer[c] = "ok" /\ Hooked(call[c])
    /\ verdict[c] = "ok" => answer[c] = "ok"
    /\ verdict[c] \in {"conflict", "failed"} => answer[c] = verdict[c]
    /\ verdict[c] \in HookErrors =>
          /\ Hooked(call[c])
          /\ answer[c] = "ok" \/ asked[c] = NoRequest
    /\ stage[c] = "settled" => outcome[c] = verdict[c]
    /\ c \in Members(emitting) <=> stage[c] = "emit"
    /\ events[c] = IF verdict[c] = "none" THEN <<>> ELSE <<verdict[c] = "ok">>

Call(c) == Asked(c) /\ Progress(c)

CallInv == \A c \in Callers : Call(c)

\* No call's event is being delivered twice; a delivery has called, once, those
\* steady listeners that it has come to; without one nothing is left of it.
Delivery(c) ==
    /\ c \in Members(emitting) =>
          \A l \in steady[c] : called[c][l] = IF l \in visited[c] THEN 1 ELSE 0
    /\ c \notin Members(emitting) =>
          visited[c] = {} /\ steady[c] = {} /\ called[c] = [l \in Listeners |-> 0]

DeliveryInv ==
    /\ Distinct(emitting)
    /\ \A c \in Callers : Delivery(c)

IInv == TypeOK /\ CallInv /\ DeliveryInv

(***************************************************************************)
(* The vocabulary of the two instances of ObjectStore is that of           *)
(* StorageRequests.                                                        *)
(***************************************************************************)

\* The driver speaks of the same requests and effects.
LEMMA DriverVocabulary ==
    /\ Driver!Requests = Requests
    /\ Driver!NoRequest = NoRequest
    /\ Driver!MaybeBody = MaybeBody
    /\ \A r : Driver!EffectCount(r) = EffectCount(r)
    /\ \A r, n : Driver!EffectOf(r, n) = EffectOf(r, n)
    /\ \A st, e : /\ Driver!Possible(st, e) = Possible(st, e)
                  /\ Driver!After(st, e) = After(st, e)
<1>1. Driver!Requests = Requests
  BY DEF Driver!Requests, Driver!Uploads, Driver!Deletes, Driver!Copies, Driver!Moves,
         Requests, Uploads, Deletes, Copies, Moves
<1>2. Driver!NoRequest = NoRequest /\ Driver!MaybeBody = MaybeBody
  BY DEF Driver!NoRequest, NoRequest, Driver!MaybeBody, MaybeBody
<1>3. \A r : Driver!EffectCount(r) = EffectCount(r)
  BY DEF Driver!EffectCount, EffectCount
<1>4. \A r, n : Driver!EffectOf(r, n) = EffectOf(r, n)
  BY DEF Driver!EffectOf, Driver!PutEffect, Driver!CopyEffect, Driver!RemoveEffect,
         EffectOf, PutEffect, CopyEffect, RemoveEffect
<1>5. \A st, e : Driver!Possible(st, e) = Possible(st, e)
  BY DEF Driver!Possible, Possible
<1>6. \A st, e : Driver!After(st, e) = After(st, e)
  BY DEF Driver!After, Driver!Changed, After, Changed
<1> QED
  BY <1>1, <1>2, <1>3, <1>4, <1>5, <1>6

\* So does the promise of the instance.
LEMMA PromiseVocabulary ==
    /\ Promise!Requests = Requests
    /\ Promise!NoRequest = NoRequest
    /\ Promise!MaybeBody = MaybeBody
    /\ \A r : Promise!EffectCount(r) = EffectCount(r)
    /\ \A r, n : Promise!EffectOf(r, n) = EffectOf(r, n)
    /\ \A st, e : /\ Promise!Possible(st, e) = Possible(st, e)
                  /\ Promise!After(st, e) = After(st, e)
<1>1. Promise!Requests = Requests
  BY DEF Promise!Requests, Promise!Uploads, Promise!Deletes, Promise!Copies, Promise!Moves,
         Requests, Uploads, Deletes, Copies, Moves
<1>2. Promise!NoRequest = NoRequest /\ Promise!MaybeBody = MaybeBody
  BY DEF Promise!NoRequest, NoRequest, Promise!MaybeBody, MaybeBody
<1>3. \A r : Promise!EffectCount(r) = EffectCount(r)
  BY DEF Promise!EffectCount, EffectCount
<1>4. \A r, n : Promise!EffectOf(r, n) = EffectOf(r, n)
  BY DEF Promise!EffectOf, Promise!PutEffect, Promise!CopyEffect, Promise!RemoveEffect,
         EffectOf, PutEffect, CopyEffect, RemoveEffect
<1>5. \A st, e : Promise!Possible(st, e) = Possible(st, e)
  BY DEF Promise!Possible, Possible
<1>6. \A st, e : Promise!After(st, e) = After(st, e)
  BY DEF Promise!After, Promise!Changed, After, Changed
<1> QED
  BY <1>1, <1>2, <1>3, <1>4, <1>5, <1>6

-----------------------------------------------------------------------------

\* A delivery that begins within others.
LEMMA PushShape ==
    ASSUME NEW S, NEW s \in Seq(S), NEW c \in S, c \notin Members(s), Distinct(s)
    PROVE  /\ <<c>> \o s \in Seq(S) /\ <<c>> \o s # <<>>
           /\ Len(<<c>> \o s) = Len(s) + 1
           /\ Members(<<c>> \o s) = Members(s) \cup {c}
           /\ Distinct(<<c>> \o s)
<1> DEFINE t == <<c>> \o s
<1>1. /\ t \in Seq(S) /\ Len(t) = Len(s) + 1
      /\ \A i \in 1 .. Len(s) + 1 : t[i] = IF i = 1 THEN c ELSE s[i - 1]
  BY ConcatProperties
<1> HIDE DEF t
<1>2. t # <<>>
  BY <1>1
<1>3. Members(t) = Members(s) \cup {c}
  <2>1. ASSUME NEW i \in 1 .. Len(s) PROVE s[i] \in Members(t)
    <3>1. t[i + 1] = s[i] /\ i + 1 \in 1 .. Len(t)
      BY <1>1
    <3> QED
      BY <3>1 DEF Members
  <2>2. c \in Members(t)
    <3>1. t[1] = c /\ 1 \in 1 .. Len(t)
      BY <1>1
    <3> QED
      BY <3>1 DEF Members
  <2>3. ASSUME NEW i \in 1 .. Len(t) PROVE t[i] \in Members(s) \cup {c}
    <3>1. i # 1 => i - 1 \in 1 .. Len(s) /\ t[i] = s[i - 1]
      BY <1>1
    <3> QED
      BY <1>1, <3>1 DEF Members
  <2> QED
    BY <2>1, <2>2, <2>3 DEF Members
<1>4. Distinct(t)
  <2> SUFFICES ASSUME NEW i \in 1 .. Len(t), NEW j \in 1 .. Len(t), t[i] = t[j]
               PROVE  i = j
    BY DEF Distinct
  <2>1. i # 1 => i - 1 \in 1 .. Len(s) /\ t[i] = s[i - 1] /\ t[i] \in Members(s)
    BY <1>1 DEF Members
  <2>2. j # 1 => j - 1 \in 1 .. Len(s) /\ t[j] = s[j - 1] /\ t[j] \in Members(s)
    BY <1>1 DEF Members
  <2>3. t[1] = c
    BY <1>1
  <2> QED
    BY <2>1, <2>2, <2>3 DEF Distinct
<1> QED
  BY <1>1, <1>2, <1>3, <1>4 DEF t

\* A delivery that ends, and those it was made in.
LEMMA PopShape ==
    ASSUME NEW S, NEW s \in Seq(S), s # <<>>, Distinct(s)
    PROVE  /\ Tail(s) \in Seq(S) /\ Head(s) \in Members(s) /\ Head(s) \in S
           /\ Members(Tail(s)) = Members(s) \ {Head(s)}
           /\ Distinct(Tail(s))
<1> DEFINE t == Tail(s)
<1>1. /\ t \in Seq(S) /\ Len(t) = Len(s) - 1 /\ Len(s) \in Nat /\ Len(s) # 0
      /\ \A i \in 1 .. Len(t) : t[i] = s[i + 1]
      /\ Head(s) = s[1] /\ Head(s) \in S
  BY HeadTailProperties, EmptySeq
<1> HIDE DEF t
<1>2. Head(s) \in Members(s)
  BY <1>1 DEF Members
<1>3. ASSUME NEW x \in Members(t) PROVE x \in Members(s) /\ x # Head(s)
  <2>1. PICK i \in 1 .. Len(t) : x = t[i]
    BY DEF Members
  <2>2. x = s[i + 1] /\ i + 1 \in 1 .. Len(s) /\ i + 1 # 1 /\ 1 \in 1 .. Len(s)
    BY <1>1, <2>1
  <2> QED
    BY <1>1, <2>2 DEF Members, Distinct
<1>4. ASSUME NEW x \in Members(s), x # Head(s) PROVE x \in Members(t)
  <2>1. PICK i \in 1 .. Len(s) : x = s[i]
    BY DEF Members
  <2>2. i - 1 \in 1 .. Len(t) /\ t[i - 1] = x
    BY <1>1, <1>4, <2>1
  <2> QED
    BY <2>2 DEF Members
<1>5. Distinct(t)
  <2> SUFFICES ASSUME NEW i \in 1 .. Len(t), NEW j \in 1 .. Len(t), t[i] = t[j]
               PROVE  i = j
    BY DEF Distinct
  <2>1. s[i + 1] = s[j + 1] /\ i + 1 \in 1 .. Len(s) /\ j + 1 \in 1 .. Len(s)
    BY <1>1
  <2> QED
    BY <2>1 DEF Distinct
<1> QED
  BY <1>1, <1>2, <1>3, <1>4, <1>5 DEF t

LEMMA InitInv == Init => IInv
<1> SUFFICES ASSUME Init PROVE IInv
  OBVIOUS
<1> USE CallersAssumption, DriverVocabulary DEF Init, Driver!Init
<1>1. TypeOK
  <2>1. /\ listeners \in SUBSET Listeners /\ emitting \in Seq(Callers)
        /\ visited \in [Callers -> SUBSET listeners] /\ steady \in [Callers -> SUBSET listeners]
    OBVIOUS
  <2>2. /\ stage \in [Callers -> Stages] /\ verdict \in [Callers -> Verdicts]
        /\ outcome \in [Callers -> Verdicts]
        /\ called \in [Callers -> [Listeners -> 0 .. MaxCalled]]
    BY DEF Stages, Verdicts, MaxCalled
  <2>3. /\ store \in [Keys -> MaybeBody] /\ late \in SUBSET Effects
        /\ asked \in [Callers -> Requests \cup {NoRequest}] /\ done \in [Callers -> 0 .. 2]
        /\ answer \in [Callers -> {"none", "ok", "conflict", "failed"}]
        /\ call \in [Callers -> Requests \cup {NoRequest}]
    OBVIOUS
  <2>4. running \in BOOLEAN /\ events \in [Callers -> Seq(BOOLEAN)]
    <3>1. events = [c \in Callers |-> <<>>] /\ <<>> \in Seq(BOOLEAN)
      OBVIOUS
    <3> QED
      BY <3>1
  <2> HIDE DEF Init
  <2> QED
    BY <2>1, <2>2, <2>3, <2>4 DEF TypeOK
<1>2. CallInv
  <2>1. EffectCount(NoRequest) = 1
    BY DEF EffectCount, NoRequest
  <2>2. Members(emitting) = {}
    BY DEF Members
  <2>3. ASSUME NEW c \in Callers PROVE Asked(c)
    BY <2>1, <2>3 DEF Asked
  <2>4. ASSUME NEW c \in Callers PROVE Progress(c)
    BY <2>2, <2>4 DEF Progress
  <2> QED
    BY <2>3, <2>4 DEF CallInv, Call
<1>3. DeliveryInv
  BY DEF DeliveryInv, Delivery, Distinct, Members
<1> QED
  BY <1>1, <1>2, <1>3 DEF IInv

\* A call that a step leaves alone keeps its place.
LEMMA OthersKeep ==
    ASSUME NEW d \in Callers, Call(d),
           asked'[d] = asked[d], done'[d] = done[d], answer'[d] = answer[d],
           call'[d] = call[d], stage'[d] = stage[d], verdict'[d] = verdict[d],
           outcome'[d] = outcome[d], events'[d] = events[d],
           d \in Members(emitting)' <=> d \in Members(emitting)
    PROVE  Call(d)'
BY DEF Call, Asked, Progress

\* A step that leaves the deliveries alone.
LEMMA DeliveryKeeps ==
    ASSUME DeliveryInv, UNCHANGED <<emitting, visited, steady, called>>
    PROVE  DeliveryInv'
BY DEF DeliveryInv, Delivery, Distinct, Members

\* A call's event begins to be delivered.
LEMMA EmitShape ==
    ASSUME TypeOK, DeliveryInv, NEW c \in Callers, NEW b \in BOOLEAN,
           c \notin Members(emitting), Emit(c, b)
    PROVE  /\ emitting' \in Seq(Callers) /\ emitting' # <<>>
           /\ Members(emitting)' = Members(emitting) \cup {c}
           /\ events' = [events EXCEPT ![c] = Append(@, b)]
           /\ steady' \in [Callers -> SUBSET listeners]
           /\ running' = FALSE
           /\ UNCHANGED <<listeners, visited, called>>
           /\ DeliveryInv'
<1>1. emitting' = <<c>> \o emitting
  BY DEF Emit
<1>2. /\ emitting' \in Seq(Callers) /\ emitting' # <<>> /\ Distinct(emitting')
      /\ Members(emitting') = Members(emitting) \cup {c}
  BY <1>1, PushShape DEF TypeOK, DeliveryInv
<1>3. /\ steady' = [steady EXCEPT ![c] = listeners]
      /\ UNCHANGED <<listeners, visited, called>>
  BY DEF Emit
<1>4. ASSUME NEW d \in Callers PROVE Delivery(d)'
  <2>1. CASE d = c
    <3>1. visited[c] = {} /\ called[c] = [l \in Listeners |-> 0]
      BY DEF DeliveryInv, Delivery
    <3>2. steady'[c] = listeners /\ listeners \subseteq Listeners
      BY <1>3 DEF TypeOK
    <3> QED
      BY <1>2, <1>3, <2>1, <3>1, <3>2 DEF Delivery, Members
  <2>2. CASE d # c
    <3>1. steady'[d] = steady[d] /\ (d \in Members(emitting') <=> d \in Members(emitting))
      BY <1>2, <1>3, <2>2 DEF TypeOK
    <3> QED
      BY <1>3, <3>1 DEF DeliveryInv, Delivery, Members
  <2> QED
    BY <2>1, <2>2
<1>5. DeliveryInv'
  BY <1>2, <1>4 DEF DeliveryInv, Distinct
<1> QED
  BY <1>2, <1>3, <1>5 DEF Emit, TypeOK, Members

\* Deciding a call that was undecided, while no event is being delivered.
LEMMA DecideKeeps ==
    ASSUME IInv, NEW c \in Callers, NEW v \in Verdicts \ {"none"},
           stage[c] \in {"before", "driver", "after"}, Quiet, Decide(c, v),
           v = "ok" => answer[c] = "ok",
           v \in {"conflict", "failed"} => answer[c] = v,
           v \in HookErrors => Hooked(call[c]) /\ (answer[c] = "ok" \/ asked[c] = NoRequest)
    PROVE  IInv'
<1> USE CallersAssumption DEF IInv, CallInv
<1>0. /\ c \notin Members(emitting) /\ Emit(c, v = "ok")
      /\ verdict' = [verdict EXCEPT ![c] = v] /\ stage' = [stage EXCEPT ![c] = "emit"]
      /\ UNCHANGED <<driverVars, call, outcome>>
  BY DEF Decide, Goto, Call, Progress
<1>e. /\ emitting' \in Seq(Callers)
      /\ Members(emitting)' = Members(emitting) \cup {c}
      /\ events' = [events EXCEPT ![c] = Append(@, v = "ok")]
      /\ steady' \in [Callers -> SUBSET listeners]
      /\ running' = FALSE
      /\ UNCHANGED <<listeners, visited, called>>
      /\ DeliveryInv'
  BY <1>0, EmitShape
<1>1. TypeOK'
  <2>1. stage' \in [Callers -> Stages] /\ verdict' \in [Callers -> Verdicts]
    BY <1>0 DEF TypeOK, Stages
  <2>2. events' \in [Callers -> Seq(BOOLEAN)]
    BY <1>e DEF TypeOK
  <2> QED
    BY <1>0, <1>e, <2>1, <2>2 DEF TypeOK, driverVars
<1>2. Call(c)'
  <2>1. events[c] = <<>>
    BY DEF Call, Progress
  <2>2. events'[c] = <<v = "ok">>
    BY <1>e, <2>1 DEF TypeOK
  <2> QED
    BY <1>0, <1>e, <2>2 DEF driverVars, TypeOK, Call, Asked, Progress
<1>3. ASSUME NEW d \in Callers, d # c PROVE Call(d)'
  BY <1>0, <1>e, <1>3, OthersKeep DEF driverVars, TypeOK
<1>4. DeliveryInv'
  BY <1>e
<1> QED
  BY <1>1, <1>2, <1>3, <1>4

\* A step of the driver, which knows nothing of the instance.
LEMMA DriverKeeps ==
    ASSUME IInv, NEW c \in Callers,
           DriverAnswers(c) \/ DriverPerforms(c)
    PROVE  IInv'
<1> USE DriverVocabulary DEF IInv, CallInv
<1>1. /\ asked[c] # NoRequest /\ answer[c] = "none" /\ asked' = asked
      /\ UNCHANGED <<callVars, emitVars, history>>
  BY DEF DriverAnswers, DriverPerforms, Driver!Running, Driver!Complete, Driver!AnswerOk,
         Driver!AnswerError, Driver!Perform
<1>2. /\ asked[c] = call[c] /\ call[c] \in Requests
      /\ stage[c] = "driver" /\ done[c] \in 0 .. 2
  <2>1. /\ asked[c] = call[c] /\ done[c] \in 0 .. 2
        /\ call[c] \in Requests \cup {NoRequest}
        /\ stage[c] \in Stages /\ verdict[c] \in Verdicts
    BY <1>1 DEF Call, Asked, TypeOK
  <2>2. stage[c] \notin {"idle", "before"}
    BY <1>1 DEF Call, Asked
  <2>3. verdict[c] = "none"
    BY <1>1, <2>1 DEF Call, Progress, Verdicts
  <2>4. stage[c] = "driver"
    BY <1>1, <2>2, <2>3 DEF Call, Progress
  <2> QED
    BY <1>1, <2>1, <2>4
<1>3. /\ done' \in [Callers -> 0 .. 2]
      /\ store' \in [Keys -> MaybeBody]
      /\ late' \in SUBSET Effects
      /\ answer' \in [Callers -> {"none", "ok", "conflict", "failed"}]
  <2>1. ASSUME done[c] < EffectCount(call[c])
        PROVE  /\ EffectOf(call[c], done[c] + 1) \in Effects
               /\ done[c] + 1 \in 0 .. 2
    BY <1>2, <2>1, EffectOfShape DEF EffectCount
  <2>2. CASE Driver!Perform(c) \/ Driver!Complete(c)
    <3>1. /\ done[c] < EffectCount(call[c])
          /\ store' = After(store, EffectOf(call[c], done[c] + 1))
          /\ done' = [done EXCEPT ![c] = @ + 1]
          /\ late' = late
          /\ answer' = answer \/ answer' = [answer EXCEPT ![c] = "ok"]
      BY <1>2, <2>2 DEF Driver!Perform, Driver!Complete, EffectCount
    <3> QED
      BY <2>1, <3>1, AfterType DEF TypeOK
  <2>3. CASE Driver!AnswerOk(c)
    BY <2>3 DEF Driver!AnswerOk, TypeOK
  <2>4. CASE Driver!AnswerError(c)
    BY <1>2, <2>1, <2>4 DEF Driver!AnswerError, Driver!Errors, TypeOK
  <2> QED
    BY <2>2, <2>3, <2>4 DEF DriverAnswers, DriverPerforms
<1>4. TypeOK'
  BY <1>1, <1>3 DEF TypeOK, callVars, emitVars, history
<1>5. Call(c)'
  <2>1. answer'[c] = "ok" => done'[c] = EffectCount(call[c])
    BY <1>1, <1>2
       DEF TypeOK, DriverAnswers, DriverPerforms, Driver!Complete, Driver!AnswerOk,
           Driver!AnswerError, Driver!Errors, Driver!Perform
  <2> QED
    BY <1>1, <1>2, <2>1 DEF Call, Asked, Progress, callVars, emitVars, history
<1>6. ASSUME NEW d \in Callers, d # c PROVE Call(d)'
  <2>1. done'[d] = done[d] /\ answer'[d] = answer[d]
    BY <1>6 DEF TypeOK, DriverAnswers, DriverPerforms, Driver!Complete, Driver!AnswerOk,
                Driver!AnswerError, Driver!Perform
  <2> QED
    BY <1>1, <1>6, <2>1, OthersKeep DEF callVars, emitVars, history
<1>7. DeliveryInv'
  BY <1>1, DeliveryKeeps DEF emitVars, history
<1> QED
  BY <1>4, <1>5, <1>6, <1>7

\* The call goes to the driver.
LEMMA CallDriverKeeps ==
    ASSUME IInv, NEW c \in Callers, NEW r \in Requests,
           CallDriver(c, r), call' = [call EXCEPT ![c] = r],
           asked[c] = NoRequest, verdict[c] = "none",
           UNCHANGED <<verdict, outcome, emitVars, history>>
    PROVE  IInv'
<1> USE DriverVocabulary DEF IInv, CallInv
<1>1. /\ asked' = [asked EXCEPT ![c] = r]
      /\ UNCHANGED <<store, done, answer, late>>
      /\ stage' = [stage EXCEPT ![c] = "driver"]
  <2>1. PICK q \in Requests : asked' = [asked EXCEPT ![c] = q]
    BY DEF CallDriver, Driver!Ask
  <2>2. q = r
    BY <2>1 DEF CallDriver, TypeOK
  <2> QED
    BY <2>1, <2>2 DEF CallDriver, Driver!Ask, Goto
<1>2. TypeOK'
  BY <1>1 DEF TypeOK, emitVars, history, Stages
<1>3. Call(c)'
  <2>1. r # NoRequest
    BY RequestIsACall
  <2> QED
    BY <1>1, <2>1 DEF TypeOK, Call, Asked, Progress, emitVars, history
<1>4. ASSUME NEW d \in Callers, d # c PROVE Call(d)'
  BY <1>1, <1>4, OthersKeep DEF TypeOK, emitVars, history
<1>5. DeliveryInv'
  BY DeliveryKeeps DEF emitVars, history
<1> QED
  BY <1>2, <1>3, <1>4, <1>5

LEMMA StepInv == IInv /\ [Next]_vars => IInv'
<1> SUFFICES ASSUME IInv, [Next]_vars PROVE IInv'
  OBVIOUS
<1> USE CallersAssumption, DriverVocabulary DEF IInv, CallInv
<1>1. ASSUME NEW c \in Callers, Invoke(c) PROVE IInv'
  <2>1. PICK r \in Requests :
           /\ call' = [call EXCEPT ![c] = r]
           /\ IF Hooked(r) THEN Goto(c, "before") /\ UNCHANGED driverVars ELSE CallDriver(c, r)
           /\ UNCHANGED <<verdict, outcome, emitVars, history>>
    BY <1>1, CallsAssumption DEF Invoke
  <2>2. asked[c] = NoRequest /\ verdict[c] = "none" /\ stage[c] = "idle"
    BY <1>1 DEF Invoke, Call, Asked, Progress
  <2>3. CASE ~Hooked(r)
    BY <2>1, <2>2, <2>3, CallDriverKeeps
  <2>4. CASE Hooked(r)
    <3>1. TypeOK'
      BY <2>1, <2>4 DEF TypeOK, Goto, Stages, driverVars, emitVars, history
    <3>2. Call(c)'
      <4>1. r # NoRequest
        BY RequestIsACall
      <4> QED
        <5>1. /\ call'[c] = r /\ stage'[c] = "before" /\ verdict'[c] = "none"
              /\ asked'[c] = NoRequest /\ events'[c] = events[c]
              /\ UNCHANGED <<done, answer, emitting>>
          BY <2>1, <2>2, <2>4 DEF TypeOK, Goto, driverVars, emitVars, history
        <5>2. Asked(c)'
          BY <2>2, <4>1, <5>1 DEF Call, Asked
        <5>3. Progress(c)'
          BY <2>2, <2>4, <4>1, <5>1 DEF Call, Progress, Members
        <5> QED
          BY <5>2, <5>3 DEF Call
    <3>3. ASSUME NEW d \in Callers, d # c PROVE Call(d)'
      BY <2>1, <2>4, <3>3, OthersKeep DEF TypeOK, Goto, driverVars, emitVars, history
    <3>4. DeliveryInv'
      BY <2>1, DeliveryKeeps DEF emitVars, history
    <3> QED
      BY <3>1, <3>2, <3>3, <3>4
  <2> QED
    BY <2>3, <2>4
<1>2. ASSUME NEW c \in Callers, BeforeHook(c) PROVE IInv'
  <2>1. /\ call[c] \in Requests /\ asked[c] = NoRequest /\ verdict[c] = "none"
        /\ stage[c] = "before" /\ Quiet
    BY <1>2 DEF BeforeHook, TypeOK, Call, Asked, Progress
  <2>2. Hooked(call[c])
    BY <2>1 DEF Call, Progress
  <2>3. CASE CallDriver(c, call[c]) /\ UNCHANGED <<call, verdict, outcome, emitVars, history>>
    <3>1. call' = [call EXCEPT ![c] = call[c]]
      BY <2>3 DEF TypeOK
    <3> QED
      BY <2>1, <2>3, <3>1, CallDriverKeeps
  <2>4. ASSUME NEW v \in HookErrors, Decide(c, v) PROVE IInv'
    BY <2>1, <2>2, <2>4, DecideKeeps DEF Verdicts
  <2> QED
    BY <1>2, <2>3, <2>4 DEF BeforeHook
<1>3. ASSUME NEW c \in Callers, DriverResolves(c) PROVE IInv'
  <2>1. stage[c] = "driver" /\ Quiet /\ answer[c] = "ok"
    BY <1>3 DEF DriverResolves
  <2>2. CASE ~Hooked(call[c])
    BY <1>3, <2>1, <2>2, DecideKeeps DEF DriverResolves, Verdicts
  <2>3. CASE Hooked(call[c])
    <3>1. /\ stage' = [stage EXCEPT ![c] = "after"]
          /\ UNCHANGED <<driverVars, call, verdict, outcome, emitVars, history>>
      BY <1>3, <2>3 DEF DriverResolves, Goto
    <3>2. TypeOK'
      BY <3>1 DEF TypeOK, Stages, driverVars, emitVars, history
    <3>3. Call(c)'
      BY <2>1, <2>3, <3>1 DEF TypeOK, driverVars, emitVars, history, Call, Asked, Progress
    <3>4. ASSUME NEW d \in Callers, d # c PROVE Call(d)'
      BY <3>1, <3>4, OthersKeep DEF TypeOK, driverVars, emitVars, history
    <3>5. DeliveryInv'
      BY <3>1, DeliveryKeeps DEF emitVars, history
    <3> QED
      BY <3>2, <3>3, <3>4, <3>5
  <2> QED
    BY <2>2, <2>3
<1>4. ASSUME NEW c \in Callers, DriverRejects(c) PROVE IInv'
  BY <1>4, DecideKeeps DEF DriverRejects, Verdicts
<1>5. ASSUME NEW c \in Callers, AfterHook(c) PROVE IInv'
  <2>1. answer[c] = "ok" /\ Hooked(call[c])
    BY <1>5 DEF AfterHook, Call, Progress
  <2> QED
    BY <1>5, <2>1, DecideKeeps DEF AfterHook, Verdicts
<1>6. ASSUME NEW c \in Callers, ErrorHook(c) PROVE IInv'
  <2>1. /\ stage' = [stage EXCEPT ![c] = "settled"]
        /\ outcome' = [outcome EXCEPT ![c] = verdict[c]]
        /\ UNCHANGED <<driverVars, call, verdict, emitVars, history>>
        /\ stage[c] = "error"
    BY <1>6 DEF ErrorHook, Settle, Goto
  <2>2. TypeOK'
    BY <2>1 DEF TypeOK, Stages, driverVars, emitVars, history
  <2>3. Call(c)'
    BY <2>1 DEF TypeOK, driverVars, emitVars, history, Call, Asked, Progress
  <2>4. ASSUME NEW d \in Callers, d # c PROVE Call(d)'
    BY <2>1, <2>4, OthersKeep DEF TypeOK, driverVars, emitVars, history
  <2>5. DeliveryInv'
    BY <2>1, DeliveryKeeps DEF emitVars, history
  <2> QED
    BY <2>2, <2>3, <2>4, <2>5
<1>7. ASSUME NEW c \in Callers, Delivered(c) PROVE IInv'
  <2>1. /\ emitting # <<>> /\ Head(emitting) = c /\ emitting' = Tail(emitting)
        /\ running' \in BOOLEAN
        /\ visited' = [visited EXCEPT ![c] = {}]
        /\ steady' = [steady EXCEPT ![c] = {}]
        /\ called' = [called EXCEPT ![c] = [l \in Listeners |-> 0]]
        /\ UNCHANGED <<driverVars, call, verdict, listeners, events>>
        /\ \/ /\ stage' = [stage EXCEPT ![c] = "settled"]
              /\ outcome' = [outcome EXCEPT ![c] = verdict[c]]
           \/ /\ stage' = [stage EXCEPT ![c] = "error"]
              /\ outcome' = outcome
    BY <1>7 DEF Delivered, EndDelivery, AfterDelivery, Delivering, Quiet, Settle, Goto
  <2>p. /\ emitting' \in Seq(Callers) /\ Distinct(emitting')
        /\ c \in Members(emitting) /\ Members(emitting)' = Members(emitting) \ {c}
    <3>1. /\ Tail(emitting) \in Seq(Callers) /\ Distinct(Tail(emitting))
          /\ Head(emitting) \in Members(emitting)
          /\ Members(Tail(emitting)) = Members(emitting) \ {Head(emitting)}
      BY <2>1, PopShape DEF TypeOK, DeliveryInv
    <3>2. Members(emitting)' = Members(Tail(emitting))
      BY <2>1 DEF Members
    <3> QED
      BY <2>1, <3>1, <3>2
  <2>e. stage[c] = "emit"
    BY <2>p DEF Call, Progress
  <2>2. TypeOK'
    <3>1. /\ stage' \in [Callers -> Stages] /\ outcome' \in [Callers -> Verdicts]
      BY <2>1 DEF TypeOK, Stages
    <3>2. /\ visited' \in [Callers -> SUBSET listeners'] /\ steady' \in [Callers -> SUBSET listeners']
      BY <2>1 DEF TypeOK
    <3>3. called' \in [Callers -> [Listeners -> 0 .. MaxCalled]]
      BY <2>1 DEF MaxCalled, TypeOK
    <3> QED
      BY <2>1, <2>p, <3>1, <3>2, <3>3 DEF TypeOK, driverVars
  <2>3. Call(c)'
    BY <2>1, <2>p, <2>e DEF TypeOK, driverVars, Call, Asked, Progress
  <2>4. ASSUME NEW d \in Callers, d # c PROVE Call(d)'
    BY <2>1, <2>p, <2>4, OthersKeep DEF TypeOK, driverVars
  <2>5. DeliveryInv'
    <3>1. ASSUME NEW d \in Callers, d # c PROVE Delivery(d)'
      <4>1. d \in Members(emitting)' <=> d \in Members(emitting)
        BY <2>p, <3>1
      <4> QED
        BY <2>1, <3>1, <4>1 DEF TypeOK, DeliveryInv, Delivery
    <3>2. Delivery(c)'
      BY <2>1, <2>p DEF TypeOK, Delivery
    <3> QED
      BY <2>p, <3>1, <3>2 DEF DeliveryInv, Distinct
  <2> QED
    BY <2>2, <2>3, <2>4, <2>5
<1>8. ASSUME NEW c \in Callers, Return(c) PROVE IInv'
  <2>1. /\ asked' = [asked EXCEPT ![c] = NoRequest]
        /\ done' = [done EXCEPT ![c] = 0]
        /\ answer' = [answer EXCEPT ![c] = "none"]
        /\ UNCHANGED <<store, late>>
    <3>1. CASE asked[c] = NoRequest
      BY <1>8, <3>1 DEF Return, driverVars, TypeOK, Call, Asked
    <3>2. CASE asked[c] # NoRequest
      BY <1>8, <3>2 DEF Return, Driver!Leave
    <3> QED
      BY <3>1, <3>2
  <2>2. /\ stage' = [stage EXCEPT ![c] = "idle"]
        /\ call' = [call EXCEPT ![c] = NoRequest]
        /\ verdict' = [verdict EXCEPT ![c] = "none"]
        /\ outcome' = [outcome EXCEPT ![c] = "none"]
        /\ events' = [events EXCEPT ![c] = <<>>]
        /\ UNCHANGED <<emitVars, steady, called>>
    BY <1>8 DEF Return, Goto
  <2>3. TypeOK'
    BY <2>1, <2>2 DEF TypeOK, Stages, Verdicts, emitVars
  <2>4. Call(c)'
    <3>1. EffectCount(NoRequest) = 1
      BY DEF EffectCount, NoRequest
    <3>2. c \notin Members(emitting)
      BY <1>8 DEF Return, Call, Progress
    <3>3. /\ asked'[c] = NoRequest /\ done'[c] = 0 /\ answer'[c] = "none"
          /\ call'[c] = NoRequest /\ stage'[c] = "idle" /\ verdict'[c] = "none"
          /\ events'[c] = <<>> /\ emitting' = emitting
      BY <2>1, <2>2 DEF TypeOK, emitVars
    <3>4. Asked(c)'
      BY <3>3 DEF Asked
    <3>5. Progress(c)'
      BY <3>2, <3>3 DEF Progress, Members
    <3> QED
      BY <3>4, <3>5 DEF Call
  <2>5. ASSUME NEW d \in Callers, d # c PROVE Call(d)'
    BY <2>1, <2>2, <2>5, OthersKeep DEF TypeOK, emitVars
  <2>6. DeliveryInv'
    BY <2>2, DeliveryKeeps DEF emitVars
  <2> QED
    BY <2>3, <2>4, <2>5, <2>6
<1>9. ASSUME NEW c \in Callers, DriverAnswers(c) \/ DriverPerforms(c) PROVE IInv'
  BY <1>9, DriverKeeps
<1>10. ASSUME NEW l \in Listeners, Subscribe(l) \/ Unsubscribe(l) PROVE IInv'
  <2>1. /\ listeners' \in SUBSET Listeners /\ emitting = <<>>
        /\ UNCHANGED <<driverVars, callVars, emitting, running, visited, events, steady, called>>
    BY <1>10 DEF Subscribe, Unsubscribe, TypeOK, history, Quiet
  <2>2. TypeOK'
    <3>1. ASSUME NEW d \in Callers PROVE visited[d] = {} /\ steady[d] = {}
      BY <2>1 DEF DeliveryInv, Delivery, Members
    <3>2. visited' \in [Callers -> SUBSET listeners'] /\ steady' \in [Callers -> SUBSET listeners']
      BY <2>1, <3>1 DEF TypeOK
    <3> QED
      BY <2>1, <3>2 DEF TypeOK, driverVars, callVars
  <2>3. ASSUME NEW d \in Callers PROVE Call(d)'
    BY <2>1, <2>3, OthersKeep DEF driverVars, callVars
  <2>4. DeliveryInv'
    BY <2>1, DeliveryKeeps
  <2> QED
    BY <2>2, <2>3, <2>4
<1>11. ASSUME NEW c \in Callers, NEW l \in Listeners, Deliver(c, l) PROVE IInv'
  <2>1. /\ listeners' \in SUBSET Listeners /\ l \in listeners
        /\ emitting # <<>> /\ Head(emitting) = c /\ l \notin visited[c]
        /\ visited' \in [Callers -> SUBSET listeners']
        /\ steady' \in [Callers -> SUBSET listeners']
        /\ running' \in BOOLEAN
        /\ called' = [called EXCEPT ![c][l] = IF @ < MaxCalled THEN @ + 1 ELSE @]
        /\ UNCHANGED <<driverVars, callVars, emitting, events>>
    <3>1. /\ l \in listeners /\ l \notin visited[c] /\ running' \in BOOLEAN
          /\ emitting # <<>> /\ Head(emitting) = c
          /\ called' = [called EXCEPT ![c][l] = IF @ < MaxCalled THEN @ + 1 ELSE @]
          /\ UNCHANGED <<driverVars, callVars, emitting, events>>
      BY <1>11 DEF Deliver, Delivering, Quiet
    <3> DEFINE come == [visited EXCEPT ![c] = @ \cup {l}]
    <3>2. /\ come \in [Callers -> SUBSET listeners]
          /\ visited \in [Callers -> SUBSET listeners] /\ steady \in [Callers -> SUBSET listeners]
          /\ listeners \in SUBSET Listeners
      BY <3>1 DEF TypeOK
    <3>3. ASSUME NEW m, NEW f \in [Callers -> SUBSET listeners]
          PROVE  WithoutSubscription(f, m) \in [Callers -> SUBSET (listeners \ {m})]
      BY <3>3 DEF WithoutSubscription
    <3>4. ASSUME l \in Rearming
          PROVE  /\ listeners' \in SUBSET Listeners
                 /\ visited' \in [Callers -> SUBSET listeners']
                 /\ steady' \in [Callers -> SUBSET listeners']
      <4>1. /\ visited' = WithoutSubscription(visited, l)
            /\ steady' = WithoutSubscription(steady, l)
            /\ listeners' = listeners
        BY <1>11, <3>4 DEF Deliver
      <4>2. /\ visited' \in [Callers -> SUBSET listeners]
            /\ steady' \in [Callers -> SUBSET listeners]
        BY <3>2, <4>1 DEF WithoutSubscription
      <4> QED
        BY <3>2, <4>1, <4>2
    <3>5. ASSUME visited' = come, UNCHANGED <<listeners, steady>>
          PROVE  /\ listeners' \in SUBSET Listeners
                 /\ visited' \in [Callers -> SUBSET listeners']
                 /\ steady' \in [Callers -> SUBSET listeners']
      BY <3>2, <3>5
    <3>6. ASSUME NEW m \in listeners,
                 /\ listeners' = listeners \ {m}
                 /\ visited' = WithoutSubscription(come, m)
                 /\ steady' = WithoutSubscription(steady, m)
          PROVE  /\ listeners' \in SUBSET Listeners
                 /\ visited' \in [Callers -> SUBSET listeners']
                 /\ steady' \in [Callers -> SUBSET listeners']
      BY <3>2, <3>3, <3>6
    <3>7. ASSUME NEW m \in Listeners \ listeners,
                 /\ listeners' = listeners \cup {m}
                 /\ visited' = come
                 /\ UNCHANGED steady
          PROVE  /\ listeners' \in SUBSET Listeners
                 /\ visited' \in [Callers -> SUBSET listeners']
                 /\ steady' \in [Callers -> SUBSET listeners']
      BY <3>2, <3>7
    <3>8. /\ listeners' \in SUBSET Listeners
          /\ visited' \in [Callers -> SUBSET listeners']
          /\ steady' \in [Callers -> SUBSET listeners']
      <4>1. CASE l \in Rearming
        BY <3>4, <4>1
      <4>2. CASE l \notin Rearming
        BY <1>11, <3>2, <3>5, <3>6, <3>7, <4>2 DEF Deliver
      <4> QED
        BY <4>1, <4>2
    <3> QED
      BY <3>1, <3>8
  <2>2. TypeOK'
    <3>1. called[c] \in [Listeners -> 0 .. MaxCalled] /\ called[c][l] \in 0 .. MaxCalled
      BY DEF TypeOK
    <3>2. called' \in [Callers -> [Listeners -> 0 .. MaxCalled]]
      BY <2>1, <3>1 DEF TypeOK, MaxCalled
    <3> QED
      BY <2>1, <3>2 DEF TypeOK, driverVars, callVars
  <2>3. ASSUME NEW d \in Callers PROVE Call(d)'
    BY <2>1, <2>3, OthersKeep DEF driverVars, callVars, Members
  <2>4. DeliveryInv'
    <3>1. ASSUME NEW d \in Callers, NEW m \in steady'[d]
          PROVE  /\ m \in steady[d]
                 /\ m \in visited'[d] <=> (m \in visited[d] \/ (d = c /\ m = l))
      BY <1>11, <3>1 DEF Deliver, TypeOK, WithoutSubscription
    <3>2. c \in Members(emitting)
      BY <2>1, PopShape DEF TypeOK, DeliveryInv
    <3>3. ASSUME NEW d \in Callers, d \in Members(emitting), NEW m \in steady'[d]
          PROVE  called'[d][m] = IF m \in visited'[d] THEN 1 ELSE 0
      <4>1. called[d][m] = IF m \in visited[d] THEN 1 ELSE 0
        BY <3>1, <3>3 DEF DeliveryInv, Delivery
      <4>2. m \in Listeners
        BY <3>1 DEF TypeOK
      <4>3. called'[d][m] = IF d = c /\ m = l
                            THEN (IF called[c][l] < MaxCalled THEN called[c][l] + 1 ELSE called[c][l])
                            ELSE called[d][m]
        BY <2>1, <4>2 DEF TypeOK
      <4> QED
        BY <2>1, <3>1, <4>1, <4>3 DEF MaxCalled
    <3>4. ASSUME NEW d \in Callers, d \notin Members(emitting)
          PROVE  visited'[d] = {} /\ steady'[d] = {} /\ called'[d] = [k \in Listeners |-> 0]
      <4>1. visited[d] = {} /\ steady[d] = {} /\ called[d] = [k \in Listeners |-> 0] /\ d # c
        BY <3>2, <3>4 DEF DeliveryInv, Delivery
      <4>2. called'[d] = called[d]
        BY <2>1, <4>1 DEF TypeOK
      <4> DEFINE come == [visited EXCEPT ![c] = @ \cup {l}]
      <4>3. come[d] = visited[d]
        BY <4>1 DEF TypeOK
      <4>4. ASSUME NEW f, NEW m PROVE WithoutSubscription(f, m)[d] = f[d] \ {m}
        BY DEF WithoutSubscription
      <4>5. \/ \E m : visited' = WithoutSubscription(visited, m) /\ steady' = WithoutSubscription(steady, m)
            \/ \E m : visited' = WithoutSubscription(come, m) /\ steady' = WithoutSubscription(steady, m)
            \/ visited' = come /\ steady' = steady
        BY <1>11 DEF Deliver
      <4> HIDE DEF come
      <4>6. visited'[d] = {} /\ steady'[d] = {}
        BY <4>1, <4>3, <4>4, <4>5
      <4> QED
        BY <4>1, <4>2, <4>6
    <3>5. Members(emitting)' = Members(emitting) /\ Distinct(emitting)'
      BY <2>1 DEF Members, Distinct, DeliveryInv
    <3> QED
      BY <3>3, <3>4, <3>5 DEF DeliveryInv, Delivery
  <2> QED
    BY <2>2, <2>3, <2>4
<1>12. ASSUME NEW e \in late, DriverLate(e) PROVE IInv'
  <2>1. /\ late' = late \ {e} /\ UNCHANGED <<asked, done, answer, callVars, emitVars, history>>
        /\ store' = store \/ store' = After(store, e)
    BY <1>12 DEF DriverLate, Driver!Late
  <2>2. TypeOK'
    <3>1. e \in Effects /\ store \in [Keys -> MaybeBody]
      BY DEF TypeOK
    <3>2. store' \in [Keys -> MaybeBody]
      BY <2>1, <3>1, AfterType
    <3>3. late' \in SUBSET Effects
      BY <2>1 DEF TypeOK
    <3> QED
      BY <2>1, <3>2, <3>3 DEF TypeOK, callVars, emitVars, history
  <2>3. ASSUME NEW d \in Callers PROVE Call(d)'
    BY <2>1, <2>3, OthersKeep DEF callVars, emitVars, history
  <2>4. DeliveryInv'
    BY <2>1, DeliveryKeeps DEF emitVars, history
  <2> QED
    BY <2>2, <2>3, <2>4
<1>13. CASE UNCHANGED vars
  <2>1. TypeOK' /\ DeliveryInv'
    BY <1>13, DeliveryKeeps DEF vars, driverVars, callVars, emitVars, history, TypeOK
  <2>2. ASSUME NEW d \in Callers PROVE Call(d)'
    BY <1>13, <2>2, OthersKeep DEF vars, driverVars, callVars, emitVars, history
  <2> QED
    BY <2>1, <2>2
<1>14. ASSUME NEW c \in Callers, InvokeThrows(c) PROVE IInv'
  <2>1. PICK r \in Requests, v \in HookErrors :
           /\ Hooked(r)
           /\ call' = [call EXCEPT ![c] = r]
           /\ verdict' = [verdict EXCEPT ![c] = v]
    BY <1>14, CallsAssumption DEF InvokeThrows
  <2>2. /\ stage[c] = "idle" /\ stage' = [stage EXCEPT ![c] = "emit"]
        /\ Emit(c, FALSE) /\ UNCHANGED <<driverVars, outcome>>
    BY <1>14 DEF InvokeThrows, Goto
  <2>3. c \notin Members(emitting) /\ asked[c] = NoRequest /\ events[c] = <<>>
    BY <2>2 DEF Call, Asked, Progress
  <2>4. /\ emitting' \in Seq(Callers)
        /\ Members(emitting)' = Members(emitting) \cup {c}
        /\ events' = [events EXCEPT ![c] = Append(@, FALSE)]
        /\ steady' \in [Callers -> SUBSET listeners]
        /\ running' = FALSE
        /\ UNCHANGED <<listeners, visited, called>>
        /\ DeliveryInv'
    BY <2>2, <2>3, EmitShape
  <2>5. TypeOK'
    <3>1. stage' \in [Callers -> Stages] /\ verdict' \in [Callers -> Verdicts]
      BY <2>1, <2>2 DEF TypeOK, Stages, Verdicts
    <3>2. events' \in [Callers -> Seq(BOOLEAN)] /\ call' \in [Callers -> Requests \cup {NoRequest}]
      BY <2>1, <2>4 DEF TypeOK
    <3> QED
      BY <2>2, <2>4, <3>1, <3>2 DEF TypeOK, driverVars
  <2>6. Call(c)'
    <3>1. events'[c] = <<FALSE>>
      <4>1. events'[c] = Append(events[c], FALSE)
        BY <2>4 DEF TypeOK
      <4> QED
        BY <2>3, <4>1
    <3>2. r # NoRequest
      BY RequestIsACall
    <3> QED
      BY <2>1, <2>2, <2>3, <2>4, <3>1, <3>2 DEF driverVars, TypeOK, Call, Asked, Progress
  <2>7. ASSUME NEW d \in Callers, d # c PROVE Call(d)'
    BY <2>1, <2>2, <2>4, <2>7, OthersKeep DEF driverVars, TypeOK
  <2> QED
    BY <2>4, <2>5, <2>6, <2>7
<1> QED
  BY <1>1, <1>2, <1>3, <1>4, <1>5, <1>6, <1>7, <1>8, <1>9, <1>10, <1>11, <1>12, <1>13, <1>14
     DEF Next, CallStep

-----------------------------------------------------------------------------
(***************************************************************************)
(* Theorems.                                                               *)
(***************************************************************************)

\* IInv holds throughout: calls, events and the driver's answers go together.
THEOREM InstanceInductive == Spec => []IInv
BY InitInv, StepInv, PTL DEF Spec

\* Every variable of a storage instance has its type.
THEOREM InstanceTypeCorrect == Spec => []TypeOK
<1>1. IInv => TypeOK
  BY DEF IInv
<1> QED
  BY <1>1, InstanceInductive, PTL

\* One event for every decided call, and its flag is what the caller gets
\* (storage.ts, the try and catch of upload, delete, copy and move).
THEOREM EventsTellTheTruth == Spec => []OneTrueEvent
<1>1. IInv => OneTrueEvent
  <2> SUFFICES ASSUME IInv, NEW c \in Callers
               PROVE  events[c] = IF verdict[c] = "none" THEN <<>>
                                  ELSE IF stage[c] = "settled" THEN <<outcome[c] = "ok">>
                                  ELSE <<verdict[c] = "ok">>
    BY DEF OneTrueEvent
  <2> QED
    BY DEF IInv, CallInv, Call, Progress
<1> QED
  BY <1>1, InstanceInductive, PTL

\* The rejection a caller gets is the one thrown first: neither the error hook
\* nor a listener replaces it.
THEOREM RejectionsAreTheFirst == Spec => []FirstErrorWins
<1>1. IInv => FirstErrorWins
  <2> SUFFICES ASSUME IInv, NEW c \in Callers, stage[c] = "settled"
               PROVE  /\ answer[c] \in {"conflict", "failed"} => outcome[c] = answer[c]
                      /\ answer[c] = "ok" =>
                            outcome[c] = "ok" \/ (outcome[c] \in HookErrors /\ Hooked(call[c]))
                      /\ answer[c] = "none" => outcome[c] \in HookErrors /\ done[c] = 0
    BY DEF FirstErrorWins
  <2>1. /\ Asked(c) /\ Progress(c) /\ verdict[c] \in Verdicts
        /\ outcome[c] = verdict[c] /\ verdict[c] # "none"
    BY DEF IInv, CallInv, Call, Progress, TypeOK
  <2> QED
    BY <2>1 DEF Asked, Progress, Verdicts
<1> QED
  BY <1>1, InstanceInductive, PTL

\* Whatever listeners do to each other's subscriptions, one that stays subscribed
\* hears the event once (emit(), over a Set).
THEOREM ListenersHearOnce == Spec => EveryListenerOnce
<1>1. IInv /\ [Next]_vars =>
        [\A c \in Callers :
            Delivering(c) /\ Len(emitting') < Len(emitting)
            => \A l \in steady[c] : called[c][l] = 1]_vars
  <2> SUFFICES ASSUME IInv, [Next]_vars, NEW c \in Callers,
                      Delivering(c), Len(emitting') < Len(emitting)
               PROVE  \A l \in steady[c] : called[c][l] = 1
    OBVIOUS
  <2>1. emitting \in Seq(Callers) /\ Len(emitting) \in Nat /\ emitting' # emitting
    BY DEF IInv, TypeOK
  <2>2. ASSUME NEW d \in Callers, NEW b, Emit(d, b) PROVE FALSE
    <3>1. emitting' = <<d>> \o emitting
      BY <2>2 DEF Emit
    <3>2. Len(emitting') = Len(emitting) + 1
      BY <2>1, <3>1, ConcatProperties
    <3> QED
      BY <2>1, <3>2
  <2>3. PICK d \in Callers : Delivered(d)
    BY <2>1, <2>2 DEF Next, CallStep, vars, driverVars, callVars, emitVars, history, Decide,
           Invoke, InvokeThrows, BeforeHook, DriverResolves, DriverRejects, AfterHook, ErrorHook,
           Return, Subscribe, Unsubscribe, Deliver, DriverAnswers, DriverPerforms, DriverLate
  <2>4. d = c
    BY <2>3 DEF Delivered, Delivering
  <2>5. steady[c] \subseteq visited[c]
    BY <2>3, <2>4 DEF Delivered, IInv, TypeOK
  <2>6. c \in Members(emitting)
    BY <2>1, PopShape DEF Delivering, Quiet, IInv, DeliveryInv
  <2> QED
    BY <2>5, <2>6 DEF IInv, DeliveryInv, Delivery
<1> QED
  BY <1>1, InstanceInductive, PTL DEF Spec, EveryListenerOnce

(***************************************************************************)
(* The instance implements ObjectStore.                                    *)
(***************************************************************************)

\* An instance starts as the promise does.
LEMMA PromiseInit == Init => Promise!Init
<1> SUFFICES ASSUME Init PROVE Promise!Init
  OBVIOUS
<1>1. Reported = [c \in Callers |-> "none"]
  BY DEF Init, Driver!Init, Reported
<1> QED
  BY <1>1, DriverVocabulary, PromiseVocabulary DEF Init, Driver!Init, Promise!Init

\* What is reported of a call depends on its answer and its verdict only.
LEMMA ReportedOf ==
    ASSUME NEW c \in Callers
    PROVE  /\ Reported[c] = IF verdict[c] # "none" THEN Normalized(verdict[c])
                            ELSE IF answer[c] = "ok" THEN "none" ELSE answer[c]
           /\ Reported'[c] = IF verdict'[c] # "none" THEN Normalized(verdict'[c])
                             ELSE IF answer'[c] = "ok" THEN "none" ELSE answer'[c]
BY DEF Reported

\* A step that neither answers nor decides a call reports nothing.
LEMMA NothingReported ==
    ASSUME UNCHANGED <<verdict, answer>>
    PROVE  Reported' = Reported
BY DEF Reported

\* Deciding a call reports it, with the error of a hook normalised.
LEMMA DecideReports ==
    ASSUME TypeOK, NEW c \in Callers, NEW v \in Verdicts \ {"none"},
           Decide(c, v)
    PROVE  Reported' = [Reported EXCEPT ![c] = Normalized(v)]
<1>1. verdict' = [verdict EXCEPT ![c] = v] /\ answer' = answer
  BY DEF Decide, driverVars
<1>2. Reported \in [Callers -> {Reported[d] : d \in Callers}]
  BY DEF Reported
<1>3. ASSUME NEW d \in Callers
      PROVE  Reported'[d] = IF d = c THEN Normalized(v) ELSE Reported[d]
  BY <1>1, ReportedOf DEF TypeOK
<1>4. Reported' = [d \in Callers |-> Reported'[d]]
  BY DEF Reported
<1> QED
  BY <1>2, <1>3, <1>4

\* A step of the driver is one of the promise, or answers "ok" to the instance only.
LEMMA DriverRefines ==
    ASSUME IInv, NEW c \in Callers, DriverAnswers(c) \/ DriverPerforms(c)
    PROVE  Promise!Next \/ UNCHANGED Promise!vars
<1> USE DriverVocabulary, PromiseVocabulary
<1>1. /\ asked[c] # NoRequest /\ answer[c] = "none"
      /\ UNCHANGED <<callVars, emitVars, history>>
  BY DEF DriverAnswers, DriverPerforms, Driver!Running, Driver!Complete, Driver!AnswerOk,
         Driver!AnswerError, Driver!Perform
<1>2. /\ asked[c] = call[c] /\ verdict[c] = "none"
      /\ call' = call /\ verdict' = verdict
  <2>1. verdict[c] \in Verdicts
    BY DEF IInv, TypeOK
  <2> QED
    BY <1>1, <2>1 DEF IInv, CallInv, Call, Asked, Progress, Verdicts, callVars
<1>3. Promise!Running(c)
  BY <1>1, <1>2, ReportedOf DEF Promise!Running
<1>4. ASSUME NEW a \in {"none", "ok", "conflict", "failed"}, answer' = [answer EXCEPT ![c] = a]
      PROVE  Reported' = [Reported EXCEPT ![c] = IF a = "ok" THEN "none" ELSE a]
  <2>1. ASSUME NEW d \in Callers
        PROVE  Reported'[d] = IF d = c THEN (IF a = "ok" THEN "none" ELSE a) ELSE Reported[d]
    BY <1>2, <1>4, <2>1, ReportedOf DEF IInv, TypeOK
  <2>2. Reported' = [d \in Callers |-> Reported'[d]]
    BY DEF Reported
  <2> QED
    BY <2>1, <2>2 DEF Reported
<1>5. Reported[c] = "none" /\ Reported = [Reported EXCEPT ![c] = "none"]
  BY <1>1, <1>2, ReportedOf DEF Reported
<1>6. CASE Driver!Complete(c) \/ DriverPerforms(c)
  <2>1. Reported' = Reported
    <3>1. CASE Driver!Complete(c)
      <4>1. answer' = [answer EXCEPT ![c] = "ok"]
        BY <3>1 DEF Driver!Complete
      <4> QED
        BY <1>4, <1>5, <4>1
    <3>2. CASE DriverPerforms(c)
      BY <1>2, <3>2, NothingReported DEF DriverPerforms, Driver!Perform
    <3> QED
      BY <1>6, <3>1, <3>2
  <2>2. done[c] \in 0 .. 2 /\ EffectCount(call[c]) \in 1 .. 2
    BY DEF IInv, TypeOK, EffectCount
  <2>3. Promise!Perform(c)
    BY <1>2, <1>3, <1>6, <2>1, <2>2
       DEF DriverPerforms, Driver!Complete, Driver!Perform, Promise!Perform
  <2> QED
    BY <2>3 DEF Promise!Next
<1>7. CASE Driver!AnswerOk(c)
  <2>1. Reported' = Reported
    BY <1>4, <1>5, <1>7 DEF Driver!AnswerOk
  <2> QED
    BY <1>2, <1>7, <2>1 DEF Driver!AnswerOk, Promise!vars
<1>8. CASE Driver!AnswerError(c)
  <2>1. PICK a \in {"conflict", "failed"} : answer' = [answer EXCEPT ![c] = a]
    BY <1>8 DEF Driver!AnswerError, Driver!Errors
  <2>2. Reported' = [Reported EXCEPT ![c] = a]
    BY <1>4, <2>1
  <2>3. Promise!AnswerError(c)
    BY <1>2, <1>3, <1>8, <2>2 DEF Driver!AnswerError, Promise!AnswerError, Promise!Errors
  <2> QED
    BY <2>3 DEF Promise!Next
<1> QED
  BY <1>6, <1>7, <1>8 DEF DriverAnswers

\* Deciding a call answers it, or repeats what the driver has answered.
LEMMA DecideRefines ==
    ASSUME IInv, NEW c \in Callers, NEW v \in Verdicts \ {"none"},
           stage[c] \in {"before", "driver", "after"}, Decide(c, v),
           v = "ok" => answer[c] = "ok",
           v \in {"conflict", "failed"} => answer[c] = v,
           v \in HookErrors => answer[c] \in {"none", "ok"}
    PROVE  Promise!Next \/ UNCHANGED Promise!vars
<1> USE PromiseVocabulary
<1>1. /\ Reported' = [Reported EXCEPT ![c] = Normalized(v)]
      /\ UNCHANGED <<store, call, done, late>>
  BY DecideReports DEF Decide, driverVars, IInv
<1>2. verdict[c] = "none" /\ call[c] # NoRequest
  BY DEF IInv, CallInv, Call, Progress
<1>3. CASE v = "ok"
  <2>1. Promise!AnswerOk(c)
    BY <1>1, <1>2, <1>3, ReportedOf
       DEF Promise!AnswerOk, Promise!Running, IInv, CallInv, Call, Asked, Normalized
  <2> QED
    BY <2>1 DEF Promise!Next
<1>4. CASE v \in HookErrors
  <2>1. Promise!AnswerError(c)
    BY <1>1, <1>2, <1>4, ReportedOf
       DEF Promise!AnswerError, Promise!Errors, Promise!Running, Normalized
  <2> QED
    BY <2>1 DEF Promise!Next
<1>5. CASE v \in {"conflict", "failed"}
  <2>1. Reported[c] = v
    BY <1>2, <1>5, ReportedOf
  <2>2. Reported' = Reported
    BY <1>1, <1>5, <2>1 DEF Reported, Normalized
  <2> QED
    BY <1>1, <2>2 DEF Promise!vars
<1> QED
  BY <1>3, <1>4, <1>5 DEF Verdicts

\* Every step of an instance is a step of the promise, or changes nothing in it.
LEMMA StepKeepsPromise == IInv /\ [Next]_vars => [Promise!Next]_(Promise!vars)
<1> SUFFICES ASSUME IInv, [Next]_vars PROVE Promise!Next \/ UNCHANGED Promise!vars
  OBVIOUS
<1> USE DriverVocabulary, PromiseVocabulary
<1>1. ASSUME UNCHANGED <<store, call, done, late, verdict, answer>>
      PROVE  UNCHANGED Promise!vars
  BY <1>1, NothingReported DEF Promise!vars
<1>2. ASSUME NEW c \in Callers, Invoke(c) PROVE Promise!Next
  <2>1. call[c] = NoRequest
    BY <1>2 DEF Invoke, IInv, CallInv, Call, Progress
  <2>2. /\ \E r \in Requests : call' = [call EXCEPT ![c] = r]
        /\ UNCHANGED <<store, done, late, verdict, answer>>
    BY <1>2, CallsAssumption DEF Invoke, CallDriver, Driver!Ask, driverVars
  <2>3. Promise!Ask(c)
    BY <2>1, <2>2, NothingReported DEF Promise!Ask
  <2> QED
    BY <2>3 DEF Promise!Next
<1>3. ASSUME NEW c \in Callers, BeforeHook(c) PROVE Promise!Next \/ UNCHANGED Promise!vars
  <2>1. CASE CallDriver(c, call[c]) /\ UNCHANGED <<call, verdict, outcome, emitVars, history>>
    BY <1>1, <2>1 DEF CallDriver, Driver!Ask
  <2>2. ASSUME NEW v \in HookErrors, Decide(c, v) PROVE Promise!Next \/ UNCHANGED Promise!vars
    BY <1>3, <2>2, DecideRefines DEF BeforeHook, IInv, CallInv, Call, Asked, Verdicts
  <2> QED
    BY <1>3, <2>1, <2>2 DEF BeforeHook
<1>4. ASSUME NEW c \in Callers, DriverResolves(c) PROVE Promise!Next \/ UNCHANGED Promise!vars
  <2>1. CASE Hooked(call[c])
    BY <1>1, <1>4, <2>1 DEF DriverResolves, driverVars
  <2>2. CASE ~Hooked(call[c])
    BY <1>4, <2>2, DecideRefines DEF DriverResolves, Verdicts
  <2> QED
    BY <2>1, <2>2
<1>5. ASSUME NEW c \in Callers, DriverRejects(c) PROVE Promise!Next \/ UNCHANGED Promise!vars
  BY <1>5, DecideRefines DEF DriverRejects, Verdicts
<1>6. ASSUME NEW c \in Callers, AfterHook(c) PROVE Promise!Next \/ UNCHANGED Promise!vars
  BY <1>6, DecideRefines DEF AfterHook, IInv, CallInv, Call, Progress, Verdicts
<1>7. ASSUME NEW c \in Callers, ErrorHook(c) \/ Delivered(c) PROVE UNCHANGED Promise!vars
  BY <1>1, <1>7 DEF ErrorHook, Delivered, AfterDelivery, driverVars
<1>8. ASSUME NEW c \in Callers, Return(c) PROVE Promise!Next
  <2>1. /\ done' = [done EXCEPT ![c] = 0] /\ answer' = [answer EXCEPT ![c] = "none"]
        /\ UNCHANGED <<store, late>>
    <3>1. CASE asked[c] = NoRequest
      BY <1>8, <3>1 DEF Return, driverVars, IInv, TypeOK, CallInv, Call, Asked
    <3>2. CASE asked[c] # NoRequest
      BY <1>8, <3>2 DEF Return, Driver!Leave
    <3> QED
      BY <3>1, <3>2
  <2>2. call' = [call EXCEPT ![c] = NoRequest] /\ verdict' = [verdict EXCEPT ![c] = "none"]
    BY <1>8 DEF Return
  <2>3. Reported[c] # "none"
    BY <1>8, ReportedOf DEF Return, IInv, CallInv, Call, Progress, Normalized
  <2>4. Reported' = [Reported EXCEPT ![c] = "none"]
    <3>1. ASSUME NEW d \in Callers PROVE Reported'[d] = IF d = c THEN "none" ELSE Reported[d]
      BY <2>1, <2>2, <3>1, ReportedOf DEF IInv, TypeOK
    <3>2. Reported' = [d \in Callers |-> Reported'[d]]
      BY DEF Reported
    <3> QED
      BY <3>1, <3>2 DEF Reported
  <2>5. Promise!Leave(c)
    BY <2>1, <2>2, <2>3, <2>4 DEF Promise!Leave
  <2> QED
    BY <2>5 DEF Promise!Next
<1>9. ASSUME NEW l \in Listeners,
             Subscribe(l) \/ Unsubscribe(l) \/ \E c \in Callers : Deliver(c, l)
      PROVE  UNCHANGED Promise!vars
  BY <1>1, <1>9 DEF Subscribe, Unsubscribe, Deliver, driverVars, callVars
<1>10. ASSUME NEW e \in late, DriverLate(e) PROVE Promise!Next
  <2>1. /\ late' = late \ {e}
        /\ store' \in {store} \cup {After(store, e) : x \in {y \in {e} : Possible(store, y)}}
        /\ UNCHANGED <<done, answer, call, verdict>>
    BY <1>10 DEF DriverLate, Driver!Late, callVars
  <2>2. Promise!Late(e)
    BY <2>1, NothingReported DEF Promise!Late
  <2> QED
    BY <2>2 DEF Promise!Next
<1>11. CASE UNCHANGED vars
  BY <1>1, <1>11 DEF vars, driverVars, callVars
<1>12. ASSUME NEW c \in Callers, InvokeThrows(c) PROVE Promise!Next
  <2>1. PICK r \in Requests, v \in HookErrors :
           call' = [call EXCEPT ![c] = r] /\ verdict' = [verdict EXCEPT ![c] = v]
    BY <1>12, CallsAssumption DEF InvokeThrows
  <2>2. /\ call[c] = NoRequest /\ UNCHANGED <<store, done, late, answer>>
    BY <1>12 DEF InvokeThrows, driverVars, IInv, CallInv, Call, Progress
  <2>3. Reported' = [Reported EXCEPT ![c] = Normalized(v)]
    <3>1. ASSUME NEW d \in Callers
          PROVE  Reported'[d] = IF d = c THEN Normalized(v) ELSE Reported[d]
      BY <2>1, <2>2, <3>1, ReportedOf DEF IInv, TypeOK
    <3>2. Reported' = [d \in Callers |-> Reported'[d]]
      BY DEF Reported
    <3> QED
      BY <3>1, <3>2 DEF Reported
  <2>4. Normalized(v) \in Promise!Errors
    BY DEF Normalized, Promise!Errors
  <2>5. Promise!Refuse(c)
    BY <2>1, <2>2, <2>3, <2>4 DEF Promise!Refuse
  <2> QED
    BY <2>5 DEF Promise!Next
<1> QED
  BY <1>2, <1>3, <1>4, <1>5, <1>6, <1>7, <1>8, <1>9, <1>10, <1>11, <1>12, DriverRefines
     DEF Next, CallStep

\* A storage with hooks and listeners keeps the promise of its driver: what it
\* answers is true of the effects, and nothing else touches the bucket.
THEOREM InstanceImplements == Spec => PromiseSpec
BY InstanceInductive, PromiseInit, StepKeepsPromise, PTL DEF Spec, PromiseSpec, Promise!Spec
=============================================================================
