-------------------------- MODULE StorageInstance --------------------------
(***************************************************************************)
(* The class every storage is handed out as: a driver wrapped in lifecycle *)
(* hooks and operation events.  The driver is known here by its promise    *)
(* only (ObjectStore), and the question is what is left of that promise    *)
(* when the application's hooks and listeners run around every call.       *)
(*                                                                         *)
(* upload and delete (and download, which has the same control and no      *)
(* effect) run                                                             *)
(*     before hook, driver, after hook, success event                      *)
(* and, as soon as one of these throws,                                    *)
(*     failure event, error hook, rejection with what was thrown first;    *)
(* copy and move run the driver and one event.  There is an await after    *)
(* every hook and after the driver; an event is delivered without one.  A  *)
(* listener may make calls itself, and one whose before hook throws at     *)
(* once delivers its failure event within the delivery under way.          *)
(***************************************************************************)
EXTENDS StorageRequests, Naturals, Sequences

CONSTANTS
    Callers,    \* concurrent calls of the instance
    Calls,      \* the calls they may make
    Listeners,  \* functions the application may subscribe
    Rearming    \* those that unsubscribe and subscribe themselves when called

ASSUME CallersAssumption == None \notin Callers
ASSUME CallsAssumption == Calls \subseteq Requests
ASSUME RearmingAssumption == Rearming \subseteq Listeners

VARIABLES
    store, asked, done, answer, late,   \* the driver's, as in ObjectStore
    call,       \* caller -> its call of the instance, or NoRequest
    stage,      \* caller -> what its call waits for
    verdict,    \* caller -> how its call was decided
    outcome,    \* caller -> how its promise was settled
    listeners,  \* the subscribed listeners
    emitting,   \* the callers whose events are being delivered, innermost first
    running,    \* one of the innermost delivery's listeners has been called
    visited,    \* caller -> the subscriptions its delivery has come to
    events,     \* history: caller -> the success flags of its events
    steady,     \* history: caller -> listeners subscribed all through its delivery
    called      \* history: caller -> listener -> how often its delivery called it

Driver == INSTANCE ObjectStore

driverVars == <<store, asked, done, answer, late>>
callVars   == <<call, stage, verdict, outcome>>
emitVars   == <<listeners, emitting, running, visited>>
history    == <<events, steady, called>>
vars       == <<driverVars, callVars, emitVars, history>>

Stages   == {"idle", "before", "driver", "after", "emit", "error", "settled"}

\* What a before or after hook may throw: an error that normalizeError makes a
\* StorageConflictError (or that is one), or any other.
HookErrors == {"hookConflict", "hookFailed"}
Verdicts   == {"none", "ok", "conflict", "failed"} \cup HookErrors

\* Bound on the count of calls of one listener in one delivery.
MaxCalled == 2

TypeOK ==
    /\ store \in [Keys -> MaybeBody]
    /\ asked \in [Callers -> Requests \cup {NoRequest}]
    /\ done \in [Callers -> 0 .. 2]
    /\ answer \in [Callers -> {"none", "ok", "conflict", "failed"}]
    /\ late \in SUBSET Effects
    /\ call \in [Callers -> Requests \cup {NoRequest}]
    /\ stage \in [Callers -> Stages]
    /\ verdict \in [Callers -> Verdicts]
    /\ outcome \in [Callers -> Verdicts]
    /\ listeners \in SUBSET Listeners
    /\ emitting \in Seq(Callers)
    /\ running \in BOOLEAN
    /\ visited \in [Callers -> SUBSET listeners]
    /\ events \in [Callers -> Seq(BOOLEAN)]
    /\ steady \in [Callers -> SUBSET listeners]
    /\ called \in [Callers -> [Listeners -> 0 .. MaxCalled]]

Init ==
    /\ Driver!Init
    /\ call = [c \in Callers |-> NoRequest]
    /\ stage = [c \in Callers |-> "idle"]
    /\ verdict = [c \in Callers |-> "none"]
    /\ outcome = [c \in Callers |-> "none"]
    /\ listeners \in {{}} \cup {{l} : l \in Listeners}  \* the option onOperation
    /\ emitting = <<>>
    /\ running = FALSE
    /\ visited = [c \in Callers |-> {}]
    /\ events = [c \in Callers |-> <<>>]
    /\ steady = [c \in Callers |-> {}]
    /\ called = [c \in Callers |-> [l \in Listeners |-> 0]]

Hooked(r) == r.op \in {"upload", "delete"}

\* No event is being delivered: an awaiting call may go on.
Quiet == emitting = <<>>

\* The caller whose event is being delivered innermost.
Delivering(c) == ~Quiet /\ Head(emitting) = c

Goto(c, s) == stage' = [stage EXCEPT ![c] = s]

(***************************************************************************)
(* Building blocks.                                                        *)
(***************************************************************************)

CallDriver(c, r) ==
    /\ Goto(c, "driver")
    /\ Driver!Ask(c)
    /\ asked'[c] = r

\* emit(): delivery to the listeners subscribed now begins.
Emit(c, success) ==
    /\ emitting' = <<c>> \o emitting
    /\ running' = FALSE
    /\ events' = [events EXCEPT ![c] = Append(@, success)]
    /\ steady' = [steady EXCEPT ![c] = listeners]
    /\ UNCHANGED <<listeners, visited, called>>

\* (Faulty variant: the event says how the driver fared, whatever the after hook did.)
DecideWithDriversEvent(c, v) ==
    /\ verdict' = [verdict EXCEPT ![c] = v]
    /\ Goto(c, "emit")
    /\ Emit(c, answer[c] = "ok")
    /\ UNCHANGED <<driverVars, call, outcome>>

\* What is thrown first, or that nothing is, decides the call and its event.
Decide(c, v) ==
    /\ verdict' = [verdict EXCEPT ![c] = v]
    /\ Goto(c, "emit")
    /\ Emit(c, v = "ok")
    /\ UNCHANGED <<driverVars, call, outcome>>

Settle(c) ==
    /\ Goto(c, "settled")
    /\ outcome' = [outcome EXCEPT ![c] = verdict[c]]

(***************************************************************************)
(* A call.                                                                 *)
(***************************************************************************)

\* Also from within a listener.
Invoke(c) ==
    /\ stage[c] = "idle"
    /\ \E r \in Calls :
          /\ call' = [call EXCEPT ![c] = r]
          /\ IF Hooked(r) THEN Goto(c, "before") /\ UNCHANGED driverVars
                          ELSE CallDriver(c, r)
    /\ UNCHANGED <<verdict, outcome, emitVars, history>>

BeforeHook(c) ==
    /\ stage[c] = "before" /\ Quiet
    /\ \/ CallDriver(c, call[c]) /\ UNCHANGED <<call, verdict, outcome, emitVars, history>>
       \/ \E v \in HookErrors : Decide(c, v)

\* A listener begins a hooked call whose before hook throws without an await: the
\* call is decided, and its event delivered, before the listener goes on.
InvokeThrows(c) ==
    /\ stage[c] = "idle"
    /\ running
    /\ \E r \in Calls, v \in HookErrors :
          /\ Hooked(r)
          /\ call' = [call EXCEPT ![c] = r]
          /\ verdict' = [verdict EXCEPT ![c] = v]
    /\ Goto(c, "emit")
    /\ Emit(c, FALSE)
    /\ UNCHANGED <<driverVars, outcome>>

DriverResolves(c) ==
    /\ stage[c] = "driver" /\ Quiet
    /\ answer[c] = "ok"
    /\ IF Hooked(call[c])
       THEN Goto(c, "after") /\ UNCHANGED <<driverVars, call, verdict, outcome, emitVars, history>>
       ELSE Decide(c, "ok")

\* (Faulty variant: a conflict is taken for "already stored", and the call resolves.)
DriverRejectsIdempotently(c) ==
    /\ stage[c] = "driver" /\ Quiet
    /\ answer[c] \in {"conflict", "failed"}
    /\ Decide(c, IF answer[c] = "conflict" THEN "ok" ELSE "failed")

DriverRejects(c) ==
    /\ stage[c] = "driver" /\ Quiet
    /\ answer[c] \in {"conflict", "failed"}
    /\ Decide(c, answer[c])

\* (Faulty variant: the driver is run again when the after hook throws.)
AfterHookRetries(c) ==
    /\ stage[c] = "after" /\ Quiet
    /\ \/ Decide(c, "ok")
       \/ Goto(c, "driver") /\ UNCHANGED <<driverVars, call, verdict, outcome, emitVars, history>>

\* A hook that throws turns a call that has been carried out into a failed one.
AfterHook(c) ==
    /\ stage[c] = "after" /\ Quiet
    /\ \E v \in {"ok"} \cup HookErrors : Decide(c, v)

\* (Faulty variant: what the error hook throws is what the caller gets.)
ErrorHookMayReplace(c) ==
    /\ stage[c] = "error" /\ Quiet
    /\ Goto(c, "settled")
    /\ \E v \in {verdict[c], "hookFailed"} : outcome' = [outcome EXCEPT ![c] = v]
    /\ UNCHANGED <<driverVars, call, verdict, emitVars, history>>

\* The error hook settles; what it may throw is dropped.
ErrorHook(c) ==
    /\ stage[c] = "error" /\ Quiet
    /\ Settle(c)
    /\ UNCHANGED <<driverVars, call, verdict, emitVars, history>>

Return(c) ==
    /\ stage[c] = "settled" /\ Quiet
    /\ IF asked[c] = NoRequest THEN UNCHANGED driverVars ELSE Driver!Leave(c)
    /\ Goto(c, "idle")
    /\ call' = [call EXCEPT ![c] = NoRequest]
    /\ verdict' = [verdict EXCEPT ![c] = "none"]
    /\ outcome' = [outcome EXCEPT ![c] = "none"]
    /\ events' = [events EXCEPT ![c] = <<>>]
    /\ UNCHANGED <<emitVars, steady, called>>

(***************************************************************************)
(* Events.  The listeners are a Set: its iteration comes to members added  *)
(* meanwhile and not to members deleted meanwhile, and comes again to one  *)
(* that was deleted and added.                                             *)
(***************************************************************************)

\* m is no longer subscribed: no delivery has come to it, or it is to come again.
WithoutSubscription(f, m) == [c \in Callers |-> f[c] \ {m}]

\* on() and the function it returns, between deliveries.
Subscribe(l) ==
    /\ Quiet
    /\ listeners' = listeners \cup {l}
    /\ UNCHANGED <<driverVars, callVars, emitting, running, visited, history>>

Unsubscribe(l) ==
    /\ Quiet
    /\ listeners' = listeners \ {l}
    /\ UNCHANGED <<driverVars, callVars, emitting, running, visited, history>>

\* The innermost delivery calls a listener, which returns or throws; it may
\* subscribe or unsubscribe one listener, or unsubscribe and subscribe itself.
Deliver(c, l) ==
    /\ Delivering(c)
    /\ l \in listeners \ visited[c]
    /\ running' = TRUE
    /\ called' = [called EXCEPT ![c][l] = IF @ < MaxCalled THEN @ + 1 ELSE @]
    /\ IF l \in Rearming
       THEN /\ visited' = WithoutSubscription(visited, l)
            /\ steady' = WithoutSubscription(steady, l)
            /\ UNCHANGED listeners
       ELSE LET come == [visited EXCEPT ![c] = @ \cup {l}] IN
            \/ /\ visited' = come
               /\ UNCHANGED <<listeners, steady>>
            \/ \E m \in listeners :
                  /\ listeners' = listeners \ {m}
                  /\ visited' = WithoutSubscription(come, m)
                  /\ steady' = WithoutSubscription(steady, m)
            \/ \E m \in Listeners \ listeners :
                  /\ listeners' = listeners \cup {m}
                  /\ visited' = come
                  /\ UNCHANGED steady
    /\ UNCHANGED <<driverVars, callVars, emitting, events>>

\* The iteration for c is left; the listener that c's call was made from, if it
\* was, goes on.
EndDelivery(c) ==
    /\ emitting' = Tail(emitting)
    /\ running' = (Tail(emitting) # <<>>)
    /\ visited' = [visited EXCEPT ![c] = {}]
    /\ steady' = [steady EXCEPT ![c] = {}]
    /\ called' = [called EXCEPT ![c] = [l \in Listeners |-> 0]]

AfterDelivery(c) ==
    /\ IF verdict[c] = "ok" \/ ~Hooked(call[c])
       THEN Settle(c)
       ELSE Goto(c, "error") /\ UNCHANGED outcome
    /\ UNCHANGED <<driverVars, call, verdict, listeners, events>>

\* (Faulty variant: a listener that throws ends the delivery.)
DeliveredAfterThrow(c) ==
    /\ Delivering(c)
    /\ listeners \subseteq visited[c] \/ visited[c] # {}
    /\ EndDelivery(c)
    /\ AfterDelivery(c)

\* (Faulty variant: the next delivery goes on where this one has ended.)
DeliveredKeepsVisited(c) ==
    /\ Delivering(c)
    /\ listeners \subseteq visited[c]
    /\ emitting' = Tail(emitting)
    /\ running' = (Tail(emitting) # <<>>)
    /\ steady' = [steady EXCEPT ![c] = {}]
    /\ called' = [called EXCEPT ![c] = [l \in Listeners |-> 0]]
    /\ UNCHANGED visited
    /\ AfterDelivery(c)

\* The iteration is over: the call resolves, or goes on to its error hook.
Delivered(c) ==
    /\ Delivering(c)
    /\ listeners \subseteq visited[c]
    /\ EndDelivery(c)
    /\ AfterDelivery(c)

(***************************************************************************)
(* The driver at work on the calls it was asked for, and its provider.     *)
(***************************************************************************)
DriverAnswers(c) ==
    /\ Driver!Complete(c) \/ Driver!AnswerOk(c) \/ Driver!AnswerError(c)
    /\ UNCHANGED <<callVars, emitVars, history>>

DriverPerforms(c) == Driver!Perform(c) /\ UNCHANGED <<callVars, emitVars, history>>

DriverLate(e) == Driver!Late(e) /\ UNCHANGED <<callVars, emitVars, history>>

CallStep(c) ==
    \/ BeforeHook(c) \/ DriverResolves(c) \/ DriverRejects(c)
    \/ AfterHook(c) \/ ErrorHook(c) \/ Delivered(c)

Next ==
    \/ \E c \in Callers :
          \/ Invoke(c) \/ InvokeThrows(c) \/ CallStep(c) \/ Return(c)
          \/ DriverAnswers(c) \/ DriverPerforms(c)
          \/ \E l \in Listeners : Deliver(c, l)
    \/ \E l \in Listeners : Subscribe(l) \/ Unsubscribe(l)
    \/ \E e \in late : DriverLate(e)

Spec == Init /\ [][Next]_vars

\* Hooks settle, the driver answers every call, and the event loop goes on.
FairSpec ==
    /\ Spec
    /\ \A c \in Callers :
          /\ SF_vars(CallStep(c)) /\ WF_vars(DriverAnswers(c))
          /\ \A l \in Listeners : WF_vars(Deliver(c, l))

(***************************************************************************)
(* Properties.                                                             *)
(***************************************************************************)

\* Every call that has ended has emitted one event, whose success flag is what
\* the caller got; a call that has not been decided has emitted none.
OneTrueEvent ==
    \A c \in Callers :
        events[c] = IF verdict[c] = "none" THEN <<>>
                    ELSE IF stage[c] = "settled" THEN <<outcome[c] = "ok">>
                    ELSE <<verdict[c] = "ok">>

\* A caller that gets a rejection gets the driver's, or that of the before or
\* after hook: the error hook and the listeners never replace it, and never
\* make a rejection of a success.
FirstErrorWins ==
    \A c \in Callers :
        stage[c] = "settled" =>
            /\ answer[c] \in {"conflict", "failed"} => outcome[c] = answer[c]
            /\ answer[c] = "ok" => outcome[c] = "ok" \/ (outcome[c] \in HookErrors /\ Hooked(call[c]))
            /\ answer[c] = "none" => outcome[c] \in HookErrors /\ done[c] = 0

\* A delivery that ends has called every listener that was subscribed from its
\* beginning to its end, once, whatever the others did to the subscriptions and
\* whatever was delivered meanwhile for calls that the listeners made.
EveryListenerOnce ==
    [][\A c \in Callers :
          Delivering(c) /\ Len(emitting') < Len(emitting)
          => \A l \in steady[c] : called[c][l] = 1]_vars

\* The promise that a storage with hooks still keeps: the driver's own, with the
\* error of a hook being one like any other.  normalize() leaves a StorageError
\* as it is and classes anything else by its status or code, so the error of an
\* after hook, too, may be a StorageConflictError.
Normalized(v) ==
    CASE v = "hookConflict" -> "conflict"
      [] v = "hookFailed" -> "failed"
      [] OTHER -> v

Reported ==
    [c \in Callers |->
        IF verdict[c] # "none" THEN Normalized(verdict[c])
        ELSE IF answer[c] = "ok" THEN "none"
        ELSE answer[c]]

Promise == INSTANCE ObjectStore WITH asked <- call, answer <- Reported

PromiseSpec == Promise!Spec

\* Every call settles, provided the hooks do and the driver answers.
EveryCallSettles ==
    \A c \in Callers : stage[c] # "idle" ~> stage[c] = "settled"
=============================================================================
